----------------------------- MODULE ObjectFiles -----------------------------
(***************************************************************************)
(* One key of the filesystem object store: puts, gets and deletes on the   *)
(* blocking pool, each under a timeout that ends the wait and not the work.*)
(* A file is its header, which holds the content type, and its body; a put *)
(* is named by the operation that made it.                                 *)
(***************************************************************************)
EXTENDS Integers, FiniteSets

CONSTANTS
    Operations,   \* calls of the store on the key
    NoFile,       \* nothing under the key's name, or nothing written
    Link          \* an operator's symbolic link under the key's name

ASSUME ObjectsAssumption == NoFile \notin Operations /\ Link \notin Operations

VARIABLES
    present,      \* the file the key names
    changer,      \* who last gave it the name or took it away, if anybody
    written,      \* per file, who wrote its header and its body
    operation,    \* where the work of each operation stands
    answered,     \* what its caller was told
    earlier,      \* the operations answered before it began
    reading       \* what a get has open, and what it read

objectVars == <<present, changer, written, operation, answered, earlier, reading>>

Unwritten == [header |-> NoFile, body |-> NoFile]

ObjectsInit ==
    /\ present \in {NoFile, Link} /\ changer = NoFile
    /\ written = [o \in Operations |-> Unwritten]
    /\ operation = [o \in Operations |-> "New"]
    /\ answered = [o \in Operations |-> "Nothing"]
    /\ earlier = [o \in Operations |-> {}]
    /\ reading = [o \in Operations |-> [file |-> NoFile, header |-> NoFile, body |-> NoFile]]

Works(o, from, to) == operation[o] = from /\ operation' = [operation EXCEPT ![o] = to]

\* The work ends; its caller hears of it only while it waits.
OperationEnds(o, from, tells) ==
    /\ Works(o, from, "Over")
    /\ answered' = [answered EXCEPT ![o] = IF @ = "Waits" THEN tells ELSE @]
    /\ UNCHANGED earlier

Begins(o, work) ==
    /\ Works(o, "New", work)
    /\ answered' = [answered EXCEPT ![o] = "Waits"]
    /\ earlier' = [earlier EXCEPT ![o] =
                      {p \in Operations : answered[p] \notin {"Nothing", "Waits"}}]
    /\ UNCHANGED <<present, changer, written, reading>>

\* run's timeout: the blocking task goes on.
OperationTimesOut(o) ==
    /\ answered[o] = "Waits"
    /\ answered' = [answered EXCEPT ![o] = "TimedOut"]
    /\ UNCHANGED <<present, changer, written, operation, earlier, reading>>

-----------------------------------------------------------------------------
\* put: a symbolic link is refused ...
PutDenied(o) ==
    /\ present = Link
    /\ OperationEnds(o, "Put", "Denied")
    /\ UNCHANGED <<present, changer, written, reading>>

\* ... and the object is written under a temporary name beside it,
PutOpens(o) ==
    /\ present # Link
    /\ Works(o, "Put", "PutHeader")
    /\ UNCHANGED <<present, changer, written, answered, earlier, reading>>

WritesHeader(o) ==
    /\ Works(o, "PutHeader", "PutBody")
    /\ written' = [written EXCEPT ![o].header = o]
    /\ UNCHANGED <<present, changer, answered, earlier, reading>>

WritesBody(o) ==
    /\ Works(o, "PutBody", "PutRename")
    /\ written' = [written EXCEPT ![o].body = o]
    /\ UNCHANGED <<present, changer, answered, earlier, reading>>

\* A slip: the name is taken before the body is flushed.
PutReplacesEarly(o) ==
    /\ Works(o, "PutBody", "PutRename")
    /\ present' = o /\ changer' = o
    /\ UNCHANGED <<written, answered, earlier, reading>>

\* TempFile::replace
PutReplaces(o) ==
    /\ OperationEnds(o, "PutRename", "Ok")
    /\ present' = o /\ changer' = o
    /\ UNCHANGED <<written, reading>>

\* Any step of the way: the temporary file goes with its handle.
PutFails(o) ==
    /\ \E step \in {"Put", "PutHeader", "PutBody", "PutRename"} : OperationEnds(o, step, "Failed")
    /\ UNCHANGED <<present, changer, written, reading>>

-----------------------------------------------------------------------------
\* get: absent, refused, or the file is opened; everything that follows is read
\* from the one handle.  head is a get that stops at the header.
FindsNone(o) ==
    /\ present = NoFile
    /\ OperationEnds(o, "Get", "Absent")
    /\ UNCHANGED <<present, changer, written, reading>>

GetDenied(o) ==
    /\ present = Link
    /\ OperationEnds(o, "Get", "Denied")
    /\ UNCHANGED <<present, changer, written, reading>>

GetOpens(o) ==
    /\ present \in Operations
    /\ Works(o, "Get", "GetHeader")
    /\ reading' = [reading EXCEPT ![o].file = present]
    /\ UNCHANGED <<present, changer, written, answered, earlier>>

ReadsHeader(o) ==
    /\ Works(o, "GetHeader", "GetBody")
    /\ reading' = [reading EXCEPT ![o].header = written[reading[o].file].header]
    /\ UNCHANGED <<present, changer, written, answered, earlier>>

ReadsBody(o) ==
    /\ OperationEnds(o, "GetBody", "Ok")
    /\ reading' = [reading EXCEPT ![o].body = written[reading[o].file].body]
    /\ UNCHANGED <<present, changer, written>>

GetFails(o) ==
    /\ \E step \in {"Get", "GetHeader", "GetBody"} : OperationEnds(o, step, "Failed")
    /\ UNCHANGED <<present, changer, written, reading>>

-----------------------------------------------------------------------------
\* delete: the name is looked at, and then removed; gone meanwhile is Absent.
DeleteLooks(o) ==
    /\ IF present \in Operations
       THEN Works(o, "Delete", "DeleteRemoves") /\ UNCHANGED <<answered, earlier>>
       ELSE OperationEnds(o, "Delete", IF present = Link THEN "Denied" ELSE "Absent")
    /\ UNCHANGED <<present, changer, written, reading>>

Removes(o) ==
    /\ OperationEnds(o, "DeleteRemoves", IF present = NoFile THEN "Absent" ELSE "Deleted")
    /\ present' = NoFile
    /\ changer' = IF present = NoFile THEN changer ELSE o
    /\ UNCHANGED <<written, reading>>

DeleteFails(o) ==
    /\ \E step \in {"Delete", "DeleteRemoves"} : OperationEnds(o, step, "Failed")
    /\ UNCHANGED <<present, changer, written, reading>>

\* The process dies with everything it had begun; temporary files stay.
StoreDies ==
    /\ operation' = [o \in Operations |-> IF operation[o] = "New" THEN "New" ELSE "Over"]
    /\ answered' = [o \in Operations |-> IF answered[o] = "Waits" THEN "Died" ELSE answered[o]]
    /\ \E o \in Operations : operation[o] \notin {"New", "Over"}
    /\ UNCHANGED <<present, changer, written, earlier, reading>>

ObjectsNext ==
    \/ \E o \in Operations :
          \/ \E work \in {"Put", "Get", "Delete"} : Begins(o, work)
          \/ PutDenied(o) \/ PutOpens(o) \/ WritesHeader(o) \/ WritesBody(o) \/ PutReplaces(o)
          \/ PutFails(o) \/ FindsNone(o) \/ GetDenied(o) \/ GetOpens(o) \/ ReadsHeader(o)
          \/ ReadsBody(o) \/ GetFails(o) \/ DeleteLooks(o) \/ Removes(o) \/ DeleteFails(o)
          \/ OperationTimesOut(o)
    \/ StoreDies

ObjectsSpec == ObjectsInit /\ [][ObjectsNext]_objectVars

-----------------------------------------------------------------------------
\* "Whole, never interleaved", across timeouts and deaths: the key names one
\* put's header with the same put's body, and so does what a get is told.  A
\* put that was told Ok has taken the name, and it is not undone by an
\* operation that was over for its caller when the put began, unless that
\* caller was told it timed out: such a put or delete may still change the
\* name, as may one that overlaps the put or comes after it.
ObjectsAreWhole ==
    /\ present \in Operations => written[present] = [header |-> present, body |-> present]
    /\ \A o \in Operations :
          reading[o].body # NoFile => reading[o].header = reading[o].body
    /\ \A o \in Operations :
          written[o].body = o /\ answered[o] = "Ok" =>
             /\ changer # NoFile
             /\ changer \in earlier[o] => answered[changer] = "TimedOut"
=============================================================================
