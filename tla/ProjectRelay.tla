---------------------------- MODULE ProjectRelay ----------------------------
(***************************************************************************)
(* `renvor routes` and its like run the project's own binary and relay what*)
(* it prints: a thread reads the pipe while the caller waits for the child *)
(* under a deadline.  The child is cargo, which forks; the binary it forks,*)
(* or what that leaves running behind it, holds the same end of the pipe.  *)
(*                                                                         *)
(* What is printed is counted in chunks.                                   *)
(***************************************************************************)
EXTENDS Integers

CONSTANTS
    AnswerLimit,   \* MAX_ANSWER_BYTES
    PipeSize,      \* what the pipe holds before a writer waits
    MostWritten    \* bound: what the two processes write

ASSUME RelayAssumption ==
    AnswerLimit \in Nat /\ PipeSize \in Nat \ {0} /\ MostWritten \in Nat

VARIABLES
    relay,      \* where run stands
    child,      \* the direct child
    binary,     \* the process that holds the pipe with it
    reader,     \* the reading thread
    printed,    \* chunks printed, in the pipe,
    inPipe,
    collected,  \* and kept
    readFailed, \* a read that was kept returned an error
    relayed     \* what run returned

relayVars == <<relay, child, binary, reader, printed, inPipe, collected, readFailed, relayed>>

RelayInit ==
    /\ relay = "Idle" /\ child = "None" /\ binary = "None" /\ reader = "None"
    /\ printed = 0 /\ inPipe = 0 /\ collected = 0
    /\ readFailed = FALSE
    /\ relayed = "None"

RelayEnds(how) == relay' = "Over" /\ relayed' = how

\* The other end of the pipe is open.
PipeHeld == child = "Running" \/ binary = "Running"

SpawnsChild ==
    /\ relay = "Idle"
    /\ \/ relay' = "Waiting" /\ child' = "Running" /\ reader' = "Keeping" /\ UNCHANGED relayed
       \/ RelayEnds("Spawn") /\ UNCHANGED <<child, reader>>
    /\ UNCHANGED <<binary, printed, inPipe, collected, readFailed>>

-----------------------------------------------------------------------------
\* The child and its binary: they fork, write, and end as they please; the
\* pipe makes a writer wait.
ForksBinary ==
    /\ child = "Running" /\ binary = "None"
    /\ binary' = "Running"
    /\ UNCHANGED <<relay, child, reader, printed, inPipe, collected, readFailed, relayed>>

WritesChunk ==
    /\ PipeHeld
    /\ inPipe < PipeSize /\ printed < MostWritten
    /\ printed' = printed + 1 /\ inPipe' = inPipe + 1
    /\ UNCHANGED <<relay, child, binary, reader, collected, readFailed, relayed>>

ChildExits ==
    /\ child = "Running"
    /\ child' \in {"Exited", "Failed"}
    /\ UNCHANGED <<relay, binary, reader, printed, inPipe, collected, readFailed, relayed>>

BinaryExits ==
    /\ binary = "Running"
    /\ binary' = "Exited"
    /\ UNCHANGED <<relay, child, reader, printed, inPipe, collected, readFailed, relayed>>

-----------------------------------------------------------------------------
\* A slip: the read stops at the limit, where an answer that goes on is no
\* longer told from one that ends there.
KeepsToTheLimit ==
    /\ reader = "Keeping" /\ inPipe > 0
    /\ collected' = collected + 1 /\ inPipe' = inPipe - 1
    /\ reader' = IF collected' = AnswerLimit THEN "Draining" ELSE "Keeping"
    /\ UNCHANGED <<relay, child, binary, printed, readFailed, relayed>>

\* take(MAX_ANSWER_BYTES + 1).read_to_end: one chunk past the limit.
Keeps ==
    /\ reader = "Keeping" /\ inPipe > 0
    /\ collected' = collected + 1 /\ inPipe' = inPipe - 1
    /\ reader' = IF collected' = AnswerLimit + 1 THEN "Draining" ELSE "Keeping"
    /\ UNCHANGED <<relay, child, binary, printed, readFailed, relayed>>

\* io::copy to the sink, so that the writer is never left with a full pipe.
Drains ==
    /\ reader = "Draining" /\ inPipe > 0
    /\ inPipe' = inPipe - 1
    /\ UNCHANGED <<relay, child, binary, reader, printed, collected, readFailed, relayed>>

ReaderEnds ==
    /\ reader \in {"Keeping", "Draining"}
    /\ inPipe = 0 /\ ~PipeHeld
    /\ reader' = "Ended"
    /\ UNCHANGED <<relay, child, binary, printed, inPipe, collected, readFailed, relayed>>

\* Its errors are dropped: what was read until then is the answer, and the
\* rest is drained, until that fails too.
ReadFails ==
    /\ \/ reader = "Keeping" /\ reader' = "Draining" /\ readFailed' = TRUE
       \/ reader = "Draining" /\ reader' = "Ended" /\ UNCHANGED readFailed
    /\ UNCHANGED <<relay, child, binary, printed, inPipe, collected, relayed>>

-----------------------------------------------------------------------------
SeesExit ==
    /\ relay = "Waiting" /\ child \in {"Exited", "Failed"}
    /\ relay' = "Joining"
    /\ UNCHANGED <<child, binary, reader, printed, inPipe, collected, readFailed, relayed>>

\* The wait itself returns an error, told as a failed spawn: the child is left
\* as it is.
WaitFails ==
    /\ relay = "Waiting"
    /\ RelayEnds("WaitFailed")
    /\ UNCHANGED <<child, binary, reader, printed, inPipe, collected, readFailed>>

\* kill, the reap, and the reader is left to itself.
DeadlineElapses ==
    /\ relay = "Waiting"
    /\ child' = IF child = "Running" THEN "Killed" ELSE child
    /\ RelayEnds("Timeout")
    /\ UNCHANGED <<binary, reader, printed, inPipe, collected, readFailed>>

\* The reader is joined, the status looked at, then the limit, then the bytes.
JoinsReader ==
    /\ relay = "Joining" /\ reader = "Ended"
    /\ \/ child = "Failed" /\ RelayEnds("NonZero")
       \/ child = "Exited" /\ collected > AnswerLimit /\ RelayEnds("TooLarge")
       \/ /\ child = "Exited" /\ collected <= AnswerLimit
          /\ RelayEnds("Ok") \/ RelayEnds("NotUtf8")
    /\ UNCHANGED <<child, binary, reader, printed, inPipe, collected, readFailed>>

RelayNext ==
    \/ SpawnsChild \/ ForksBinary \/ WritesChunk \/ ChildExits \/ BinaryExits
    \/ Keeps \/ Drains \/ ReaderEnds \/ ReadFails
    \/ SeesExit \/ WaitFails \/ DeadlineElapses \/ JoinsReader

RelaySpec == RelayInit /\ [][RelayNext]_relayVars

\* What is the relay's own goes on; the two processes owe nothing.
FairRelaySpec ==
    /\ RelaySpec
    /\ WF_relayVars(Keeps \/ Drains \/ ReaderEnds)
    /\ WF_relayVars(SeesExit \/ DeadlineElapses)
    /\ WF_relayVars(JoinsReader)

-----------------------------------------------------------------------------
\* "None of them is an empty success" (relay.rs, run): what is relayed as an
\* answer is everything both processes wrote, with nobody left to write more,
\* as long as the pipe could be read; and a run that is over has left no child
\* running, but for one it could not wait for.
AnswerIsWhole ==
    /\ relayed = "Ok" /\ ~readFailed =>
          collected = printed /\ collected <= AnswerLimit /\ ~PipeHeld
    /\ relay = "Over" /\ child = "Running" => relayed = "WaitFailed"

\* "The deadline bounds this process's wait" (relay.rs:39).
DeadlineBoundsTheWait == relay = "Waiting" ~> relay = "Over"
=============================================================================
