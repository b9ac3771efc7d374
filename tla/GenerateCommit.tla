--------------------------- MODULE GenerateCommit ---------------------------
(***************************************************************************)
(* `renvor generate` in a project: classify every target, stage siblings,  *)
(* rename them into place, rewrite the provenance record, build the result *)
(* - and put everything back, newest first, when a step fails.  The        *)
(* process may die between two steps, and the user works in the tree.      *)
(*                                                                         *)
(* The contents of a file are what lies outside its marked block, "old"    *)
(* for the last render, "new" for this one and "user" for anything else,   *)
(* and whether the block is filled.  One generation is run again and       *)
(* again.  Lockfile edits and resource definitions are left out.           *)
(***************************************************************************)
EXTENDS Integers, Sequences

CONSTANTS
    Files,      \* the planned paths
    Order,      \* the order the plan gives them in
    Marked,     \* those planned as an edit of their marked block
    Missing,    \* the contents of a path that does not exist
    MaxEdits    \* bound: the changes the user makes

\* The path of the record among the placed ones.
RecordPath == "record"

ASSUME GenerateAssumption ==
    /\ Order \in Seq(Files) /\ Files = {Order[i] : i \in DOMAIN Order}
    /\ Marked \subseteq Files /\ RecordPath \notin Files
    /\ Missing \notin {"old", "new", "user"} \X BOOLEAN

VARIABLES
    disk,       \* the contents of every path
    record,     \* the digest the provenance record holds for it, if any
    siblings,   \* paths with a staged sibling of this run
    runStep,    \* where the run stands; "Idle" between runs
    at,         \* the next decision to stage, or to place
    action,     \* the decisions of the plan
    bytes,      \* the bytes the plan wants
    planRecord, \* the record as the plan read it
    previous,   \* what the path about to be replaced held
    placed,     \* what was replaced, and what it held
    unrestored, \* what the rollback could not put back
    ended,      \* how the last run ended
    found,      \* disk and record as the run found them
    touched,    \* paths the user changed during the run
    edits       \* the changes the user has made

generateVars == <<disk, record, siblings, runStep, at, action, bytes, planRecord, previous,
                  placed, unrestored, ended, found, touched, edits>>
planVars == <<action, bytes, planRecord, found>>

Outside(c) == c[1]
Rendered(kind) == <<kind, FALSE>>
NoRecord == "none"

\* A generated project, some of whose files the user has changed, removed or
\* never had.
GenerateInit ==
    /\ disk \in [Files -> {Missing, Rendered("old"), Rendered("user")}]
    /\ \A f \in Marked : disk[f] # Missing
    /\ record \in [Files -> {"old", NoRecord}]
    /\ \A f \in Files : disk[f] = Rendered("old") => record[f] = "old"
    /\ siblings = {} /\ runStep = "Idle" /\ at = 1
    /\ action = [f \in Files |-> "Unchanged"] /\ bytes = disk /\ planRecord = record
    /\ previous = Missing /\ placed = <<>> /\ unrestored = {}
    /\ ended = "None" /\ found = [disk |-> disk, record |-> record]
    /\ touched = {} /\ edits = 0

-----------------------------------------------------------------------------
\* What the plan wants at f: the render, or the block filled in the file as it
\* is now.
Wanted(f) ==
    IF f \in Marked THEN <<Outside(disk[f]), TRUE>> ELSE Rendered("new")

\* The digest of a file the generator wrote last is the recorded one.
Regenerable(f) == record[f] = Outside(disk[f])

Refuses(f, flag) ==
    /\ f \notin Marked
    /\ disk[f] \notin {Missing, Wanted(f)}
    /\ ~(flag /\ Regenerable(f))

Decision(f) ==
    CASE disk[f] = Missing    -> "Write"
      [] disk[f] = Wanted(f) -> "Unchanged"
      [] f \in Marked        -> "Edit"
      [] OTHER               -> "Regenerate"

\* An edit needs its file.
Plannable(flag) == \A f \in Files : ~Refuses(f, flag) /\ (f \in Marked => disk[f] # Missing)

\* plan: all or nothing is decided before the first write.
Plans(flag) ==
    /\ runStep = "Idle" /\ Plannable(flag)
    /\ bytes' = [f \in Files |-> Wanted(f)]
    /\ action' = [f \in Files |-> Decision(f)]
    /\ planRecord' = record
    /\ found' = [disk |-> disk, record |-> record]
    /\ touched' = {} /\ siblings' = {} /\ placed' = <<>> /\ unrestored' = {}
    /\ runStep' = "Planned" /\ at' = 1 /\ ended' = "None"
    /\ UNCHANGED <<disk, record, previous, edits>>

PlanRefused(flag) ==
    /\ runStep = "Idle" /\ ~Plannable(flag)
    /\ ended' = "Refused"
    /\ found' = [disk |-> disk, record |-> record]
    /\ touched' = {}
    /\ UNCHANGED <<disk, record, siblings, runStep, at, action, bytes, planRecord, previous,
                   placed, unrestored, edits>>

\* A dry run stops here, and so does a merged tree that does not build.
StopsBeforeWriting ==
    /\ runStep = "Planned"
    /\ runStep' = "Idle" /\ ended' = "Failed"
    /\ UNCHANGED <<disk, record, siblings, at, planVars, previous, placed, unrestored,
                   touched, edits>>

\* The merged tree is built and tested before commit_with begins.
Commits ==
    /\ runStep = "Planned"
    /\ runStep' = "Staging"
    /\ UNCHANGED <<disk, record, siblings, at, planVars, previous, placed, unrestored,
                   ended, touched, edits>>

AtEnd == at > Len(Order)
Skips == ~AtEnd /\ action[Order[at]] = "Unchanged"

SkipsUnchanged ==
    /\ runStep \in {"Staging", "Placing"} /\ Skips
    /\ at' = at + 1
    /\ UNCHANGED <<disk, record, siblings, runStep, planVars, previous, placed, unrestored,
                   ended, touched, edits>>

Stages ==
    /\ runStep = "Staging" /\ ~AtEnd /\ ~Skips
    /\ siblings' = siblings \cup {Order[at]}
    /\ at' = at + 1
    /\ UNCHANGED <<disk, record, runStep, planVars, previous, placed, unrestored, ended,
                   touched, edits>>

\* The siblings staged so far are removed; one the failed write began is not
\* among them.
StageFails ==
    /\ runStep = "Staging" /\ ~AtEnd /\ ~Skips
    /\ siblings' \in {{}, {Order[at]}}
    /\ runStep' = "Idle" /\ ended' = "Failed"
    /\ UNCHANGED <<disk, record, at, planVars, previous, placed, unrestored, touched, edits>>

AllStaged ==
    /\ runStep = "Staging" /\ AtEnd
    /\ runStep' = "Placing" /\ at' = 1
    /\ UNCHANGED <<disk, record, siblings, planVars, previous, placed, unrestored, ended,
                   touched, edits>>

ReadsPrevious ==
    /\ runStep = "Placing" /\ ~AtEnd /\ ~Skips
    /\ previous' = disk[Order[at]]
    /\ runStep' = "Renaming"
    /\ UNCHANGED <<disk, record, siblings, at, planVars, placed, unrestored, ended,
                   touched, edits>>

PlacesNext ==
    /\ runStep = "Renaming"
    /\ LET f == Order[at] IN
          /\ disk' = [disk EXCEPT ![f] = bytes[f]]
          /\ siblings' = siblings \ {f}
          /\ placed' = Append(placed, [path |-> f, was |-> previous])
    /\ runStep' = "Placing" /\ at' = at + 1
    /\ UNCHANGED <<record, planVars, previous, unrestored, ended, touched, edits>>

\* A slip: a rename that fails ends the run where it stands.
PlaceFailsAlone ==
    /\ runStep \in {"Placing", "Renaming"} /\ ~AtEnd /\ ~Skips
    /\ siblings' = {} /\ runStep' = "Idle" /\ ended' = "Failed"
    /\ UNCHANGED <<disk, record, at, planVars, previous, placed, unrestored, touched, edits>>

\* A read or a rename fails: the siblings left are removed and the rollback
\* begins.
PlaceFails ==
    /\ runStep \in {"Placing", "Renaming"} /\ ~AtEnd /\ ~Skips
    /\ siblings' = {} /\ runStep' = "Undoing"
    /\ UNCHANGED <<disk, record, at, planVars, previous, placed, unrestored, ended,
                   touched, edits>>

\* What the record will say: a marked edit claims nothing.
Recorded ==
    [f \in Files |-> IF action[f] = "Edit" /\ f \in Marked
                     THEN planRecord[f] ELSE Outside(bytes[f])]

WritesRecord ==
    /\ runStep = "Placing" /\ AtEnd
    /\ placed' = Append(placed, [path |-> RecordPath, was |-> record])
    /\ record' = Recorded
    /\ runStep' = "Result"
    /\ UNCHANGED <<disk, siblings, at, planVars, previous, unrestored, ended, touched, edits>>

RecordFails ==
    /\ runStep = "Placing" /\ AtEnd
    /\ runStep' = "Undoing"
    /\ UNCHANGED <<disk, record, siblings, at, planVars, previous, placed, unrestored,
                   ended, touched, edits>>

\* The result is built while everything can still be put back.
ResultFails ==
    /\ runStep = "Result"
    /\ runStep' = "Undoing"
    /\ UNCHANGED <<disk, record, siblings, at, planVars, previous, placed, unrestored,
                   ended, touched, edits>>

Finishes ==
    /\ runStep = "Result"
    /\ runStep' = "Idle" /\ ended' = "Done"
    /\ UNCHANGED <<disk, record, siblings, at, planVars, previous, placed, unrestored,
                   touched, edits>>

Last == placed[Len(placed)]
Earlier == SubSeq(placed, 1, Len(placed) - 1)

\* roll_back: the newest entry first, and the rest in spite of one that fails.
Restores ==
    /\ runStep = "Undoing" /\ placed # <<>>
    /\ IF Last.path = RecordPath
       THEN record' = Last.was /\ UNCHANGED disk
       ELSE disk' = [disk EXCEPT ![Last.path] = Last.was] /\ UNCHANGED record
    /\ placed' = Earlier
    /\ UNCHANGED <<siblings, runStep, at, planVars, previous, unrestored, ended, touched, edits>>

CannotRestore ==
    /\ runStep = "Undoing" /\ placed # <<>>
    /\ unrestored' = unrestored \cup {Last.path}
    /\ placed' = Earlier
    /\ UNCHANGED <<disk, record, siblings, runStep, at, planVars, previous, ended, touched, edits>>

RolledBack ==
    /\ runStep = "Undoing" /\ placed = <<>>
    /\ runStep' = "Idle" /\ ended' = "Failed"
    /\ UNCHANGED <<disk, record, siblings, at, planVars, previous, placed, unrestored,
                   touched, edits>>

\* The process dies; the siblings it staged stay.
GeneratorDies ==
    /\ runStep # "Idle"
    /\ runStep' = "Idle" /\ ended' = "Died"
    /\ UNCHANGED <<disk, record, siblings, at, planVars, previous, placed, unrestored,
                   touched, edits>>

UserChanges(f) ==
    /\ edits < MaxEdits
    /\ edits' = edits + 1
    /\ disk' = [disk EXCEPT ![f] = IF @ = Missing THEN Rendered("user") ELSE <<"user", @[2]>>]
    /\ touched' = touched \cup {f}
    /\ UNCHANGED <<record, siblings, runStep, at, planVars, previous, placed, unrestored, ended>>

GenerateNext ==
    \/ \E flag \in BOOLEAN : Plans(flag) \/ PlanRefused(flag)
    \/ StopsBeforeWriting \/ Commits \/ SkipsUnchanged
    \/ Stages \/ StageFails \/ AllStaged
    \/ ReadsPrevious \/ PlacesNext \/ PlaceFails
    \/ WritesRecord \/ RecordFails \/ ResultFails \/ Finishes
    \/ Restores \/ CannotRestore \/ RolledBack \/ GeneratorDies
    \/ \E f \in Files : UserChanges(f)

GenerateSpec == GenerateInit /\ [][GenerateNext]_generateVars

-----------------------------------------------------------------------------
\* The project is the tree the plan describes or the tree the plan found: a
\* run that failed has put back every path but those it names and those the
\* user changed meanwhile, and a run that is done wrote every file and says so
\* in the record.
AllOrNothing ==
    /\ ended \in {"Failed", "Refused"} =>
          /\ \A f \in Files \ (unrestored \cup touched) : disk[f] = found.disk[f]
          /\ RecordPath \notin unrestored => record = found.record
    /\ runStep = "Idle" /\ ended = "Done" =>
          /\ \A f \in Files \ touched : disk[f] = bytes[f]
          /\ record = Recorded

\* Wherever the process dies, and whatever the rollback could not put back but
\* the record, the same generation can be run again: no path the user left
\* alone refuses it.
GenerationCanRunAgain ==
    runStep = "Idle" /\ RecordPath \notin unrestored =>
       \A f \in Files :
          disk[f] # Missing /\ Outside(disk[f]) # "user" => ~Refuses(f, TRUE)

\* commit_with, roll_back and plan together: a generation that failed or died
\* has cost the project nothing and does not stand in the way of the next.
GenerationRecovers == AllOrNothing /\ GenerationCanRunAgain

\* An edit of a marked block never turns the rest of the file into bytes the
\* generator owns: the record claims only what the generator rendered.
EditClaimsNothing == \A f \in Files : record[f] # "user"
=============================================================================
