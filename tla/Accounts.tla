------------------------------ MODULE Accounts ------------------------------
(***************************************************************************)
(* Accounts, their passwords and the single-use secrets mailed to them:    *)
(* AuthenticationService over its repositories, whose calls are separate   *)
(* statements with everybody else's in between.  Each secret is in the     *)
(* table of its purpose; the abuse control has admitted the request.       *)
(***************************************************************************)
EXTENDS Integers, FiniteSets

CONSTANTS
    Addresses,    \* e-mail addresses
    AccountCalls, \* requests in progress at once
    Secrets,      \* mailed secrets
    NoAddress,    \* of a secret that was never issued
    Lifetime,     \* TokenLifetime
    LastMail      \* bound on the clock

ASSUME AccountsAssumption ==
    /\ NoAddress \notin Addresses
    /\ Secrets \cap {"none", "registration"} = {}
    /\ Lifetime \in Nat \ {0} /\ LastMail \in Nat

VARIABLES
    mailClock,    \* the caller's clock
    account,      \* addresses with a row in rv_auth_user
    password,     \* rv_auth_credential: who wrote it
    verified,     \* email_verified_at
    secret,       \* the two token tables
    mailed,       \* secrets that left in a message
    inquiry,       \* what each request does next, and its arguments
    spent,        \* how many requests each secret was good for
    swept         \* the secrets of the same account and purpose issued when
                  \* the request that issued this one invalidated them

accountVars ==
    <<mailClock, account, password, verified, secret, mailed, inquiry, spent, swept>>

Purposes == {"verification", "password_reset"}

NotIssued == [owner |-> NoAddress, purpose |-> "none", expires |-> 0, consumed |-> FALSE]
NotAsking == [step |-> "none"]

AccountsInit ==
    /\ mailClock = 0
    /\ account = {}
    /\ password = [a \in Addresses |-> "none"]
    /\ verified = {}
    /\ secret = [s \in Secrets |-> NotIssued]
    /\ mailed = {}
    /\ inquiry = [r \in AccountCalls |-> NotAsking]
    /\ spent = [s \in Secrets |-> 0]
    /\ swept = [s \in Secrets |-> {}]

Step(r, step) == inquiry' = [inquiry EXCEPT ![r].step = step]
InquiryEnds(r) == inquiry' = [inquiry EXCEPT ![r] = NotAsking]
mailTables == <<secret, mailed, spent, swept>>

-----------------------------------------------------------------------------
\* register: the unique address elects one; the password follows in a
\* transaction of its own.
Registers(r, a) ==
    /\ inquiry[r] = NotAsking
    /\ a \notin account
    /\ account' = account \cup {a}
    /\ inquiry' = [inquiry EXCEPT ![r] = [step |-> "password", for |-> a, by |-> "registration"]]
    /\ UNCHANGED <<mailClock, password, verified, mailTables>>

\* upsert: the row is deleted and inserted in one transaction, last one wins.
SetsPassword(r) ==
    /\ inquiry[r].step = "password"
    /\ password' = [password EXCEPT ![inquiry[r].for] = inquiry[r].by]
    /\ InquiryEnds(r)
    /\ UNCHANGED <<mailClock, account, verified, mailTables>>

-----------------------------------------------------------------------------
\* issue_and_send, for an address that has an account.
AsksForMail(r, a, purpose) ==
    /\ inquiry[r] = NotAsking
    /\ a \in account
    /\ inquiry' = [inquiry EXCEPT ![r] =
                     [step |-> "invalidate", for |-> a, purpose |-> purpose, at |-> mailClock,
                      earlier |-> {}]]
    /\ UNCHANGED <<mailClock, account, password, verified, mailTables>>

Issued(a, purpose) ==
    {s \in Secrets : secret[s].owner = a /\ secret[s].purpose = purpose}

InvalidatesAll(r) ==
    LET old == Issued(inquiry[r].for, inquiry[r].purpose) IN
    /\ inquiry[r].step = "invalidate"
    /\ secret' = [s \in Secrets |->
                     IF s \in old THEN [secret[s] EXCEPT !.consumed = TRUE] ELSE secret[s]]
    /\ inquiry' = [inquiry EXCEPT ![r].step = "issue", ![r].earlier = old]
    /\ UNCHANGED <<mailClock, account, password, verified, mailed, spent, swept>>

Issues(r, s) ==
    LET ask == inquiry[r] IN
    /\ ask.step = "issue"
    /\ secret[s] = NotIssued
    /\ secret' = [secret EXCEPT ![s] =
                     [owner |-> ask.for, purpose |-> ask.purpose, expires |-> ask.at + Lifetime,
                      consumed |-> FALSE]]
    /\ swept' = [swept EXCEPT ![s] = ask.earlier]
    /\ inquiry' = [inquiry EXCEPT ![r] = [step |-> "deliver", secret |-> s]]
    /\ UNCHANGED <<mailClock, account, password, verified, mailed, spent>>

\* Delivered, or reported as failed: a message whose delivery failed may be on
\* its way all the same.
Delivers(r) ==
    /\ inquiry[r].step = "deliver"
    /\ mailed' \in {mailed, mailed \cup {inquiry[r].secret}}
    /\ InquiryEnds(r)
    /\ UNCHANGED <<mailClock, account, password, verified, secret, spent, swept>>

-----------------------------------------------------------------------------
\* confirm_verification and reset_password.  A request carries the instant it
\* came at.
Presents(r, s, purpose) ==
    /\ inquiry[r] = NotAsking
    /\ s \in mailed
    /\ inquiry' = [inquiry EXCEPT ![r] =
                     [step |-> "consume", secret |-> s, purpose |-> purpose, at |-> mailClock]]
    /\ UNCHANGED <<mailClock, account, password, verified, mailTables>>

Spendable(s, purpose, at) ==
    secret[s].purpose = purpose /\ ~secret[s].consumed /\ secret[s].expires > at

\* A slip: whether the secret was consumed is not part of the UPDATE.
ConsumesAgain(r) ==
    LET s == inquiry[r].secret IN
    /\ inquiry[r].step = "consume"
    /\ secret[s].purpose = inquiry[r].purpose /\ secret[s].expires > inquiry[r].at
    /\ secret' = [secret EXCEPT ![s].consumed = TRUE]
    /\ spent' = [spent EXCEPT ![s] = @ + 1]
    /\ Step(r, "owner")
    /\ UNCHANGED <<mailClock, account, password, verified, mailed, swept>>

\* consume is one conditional UPDATE; unknown, consumed and expired have one
\* answer.
Consumes(r) ==
    LET s == inquiry[r].secret IN
    /\ inquiry[r].step = "consume"
    /\ IF Spendable(s, inquiry[r].purpose, inquiry[r].at)
       THEN /\ secret' = [secret EXCEPT ![s].consumed = TRUE]
            /\ spent' = [spent EXCEPT ![s] = @ + 1]
            /\ Step(r, "owner")
       ELSE InquiryEnds(r) /\ UNCHANGED <<secret, spent>>
    /\ UNCHANGED <<mailClock, account, password, verified, mailed, swept>>

\* The row of the secret, and not the request, says whose account changes.  A
\* password the policy rejects has spent the secret all the same.
ReadsOwner(r) ==
    LET s == inquiry[r].secret IN
    /\ inquiry[r].step = "owner"
    /\ \/ /\ inquiry[r].purpose = "verification"
          /\ inquiry' = [inquiry EXCEPT ![r] = [step |-> "mark", for |-> secret[s].owner]]
       \/ /\ inquiry[r].purpose = "password_reset"
          /\ inquiry' = [inquiry EXCEPT ![r] =
                           [step |-> "password", for |-> secret[s].owner, by |-> s]]
       \/ inquiry[r].purpose = "password_reset" /\ InquiryEnds(r)
    /\ UNCHANGED <<mailClock, account, password, verified, mailTables>>

MarksVerified(r) ==
    /\ inquiry[r].step = "mark"
    /\ verified' = verified \cup {inquiry[r].for}
    /\ InquiryEnds(r)
    /\ UNCHANGED <<mailClock, account, password, mailTables>>

-----------------------------------------------------------------------------
\* A statement fails, the future is dropped or the process dies.
GivesUp(r) ==
    /\ inquiry[r] # NotAsking
    /\ InquiryEnds(r)
    /\ UNCHANGED <<mailClock, account, password, verified, mailTables>>

MailTicks ==
    /\ mailClock < LastMail
    /\ mailClock' = mailClock + 1
    /\ UNCHANGED <<account, password, verified, mailTables, inquiry>>

AccountsNext ==
    \/ \E r \in AccountCalls :
          \/ \E a \in Addresses :
                Registers(r, a) \/ \E purpose \in Purposes : AsksForMail(r, a, purpose)
          \/ \E s \in Secrets : Issues(r, s) \/ \E purpose \in Purposes : Presents(r, s, purpose)
          \/ Consumes(r) \/ SetsPassword(r) \/ InvalidatesAll(r) \/ Delivers(r) \/ ReadsOwner(r)
          \/ MarksVerified(r) \/ GivesUp(r)
    \/ MailTicks

AccountsSpec == AccountsInit /\ [][AccountsNext]_accountVars

-----------------------------------------------------------------------------
\* A secret is good for one request, for its purpose and for its owner's
\* account; and two secrets of one account and purpose both work only when the
\* requests that issued them overlapped, each invalidating before the other
\* had issued.
SecretsWorkOnce ==
    /\ \A s \in Secrets : spent[s] <= 1
    /\ \A a \in Addresses : password[a] \in Secrets =>
          LET s == password[a] IN
          secret[s].owner = a /\ secret[s].purpose = "password_reset" /\ spent[s] = 1
    /\ \A a \in verified : \E s \in Issued(a, "verification") : spent[s] = 1
    /\ \A a \in Addresses, purpose \in Purposes :
          \A s, t \in {u \in Issued(a, purpose) : Spendable(u, purpose, mailClock)} :
             s \notin swept[t]
=============================================================================
