----------------------------- MODULE NewProject -----------------------------
(***************************************************************************)
(* `renvor new`: a project is rendered, built, tested and recorded in a    *)
(* staging directory beside its destination, then moved there by one       *)
(* rename.  Several runs and other programs want the same destination, a   *)
(* step may fail, and a run may die between two steps.                     *)
(*                                                                         *)
(* A tree is how far it has come: "Empty", "Rendered", "Verified" or       *)
(* "Recorded"; NoTree is no directory at all.  Dialogues and templates are *)
(* left out.                                                               *)
(***************************************************************************)
EXTENDS Integers

CONSTANTS
    Runs    \* the runs of `renvor new` on one destination

VARIABLES
    stage,          \* where each run stands
    tree,           \* each run's staging directory
    destination,    \* nothing, an empty directory, others' files, or a run's tree
    named,          \* runs that told the operator of the tree they left behind
    filled          \* others have put files at the destination

newVars == <<stage, tree, destination, named, filled>>

NoTree == "NoTree"
\* What stands at the destination, and who put it there.
PlacedTree(r, t) == [by |-> r, tree |-> t]
Nothing == PlacedTree("nobody", NoTree)
EmptyDir == PlacedTree("others", "Empty")
Theirs == PlacedTree("others", "Files")

Working == {"Rendering", "Verifying", "Recording", "Described", "Renaming"}
Ended == {"Created", "DryRun", "Failed", "Died"}

NewInit ==
    /\ stage = [r \in Runs |-> "Start"]
    /\ tree = [r \in Runs |-> NoTree]
    /\ destination = Nothing
    /\ named = {} /\ filled = FALSE

\* The run ends as `how`; its staging directory is removed, or stays and is
\* named: in the error when placing failed, on stderr otherwise.
Discards(r, how) ==
    /\ stage' = [stage EXCEPT ![r] = how]
    /\ \/ tree' = [tree EXCEPT ![r] = NoTree] /\ UNCHANGED named
       \/ named' = named \cup {r} /\ UNCHANGED tree
    /\ UNCHANGED <<destination, filled>>

Advances(r, from, to) ==
    /\ stage[r] = from
    /\ stage' = [stage EXCEPT ![r] = to]

\* Destination::open: whatever is there refuses the run.
Opens(r) ==
    /\ destination = Nothing
    /\ Advances(r, "Start", "Opened")
    /\ UNCHANGED <<tree, destination, named, filled>>

\* Something is there, the rules or the tools refuse, or no staging directory
\* can be created: nothing was written.
RefusesRun(r) ==
    /\ stage[r] \in {"Start", "Opened"}
    /\ stage' = [stage EXCEPT ![r] = "Failed"]
    /\ UNCHANGED <<tree, destination, named, filled>>

CreatesStaging(r) ==
    /\ Advances(r, "Opened", "Rendering")
    /\ tree' = [tree EXCEPT ![r] = "Empty"]
    /\ UNCHANGED <<destination, named, filled>>

\* The directory was created and cannot be opened: no Staging exists to remove
\* it, so create does, or names it.
StagingUnopened(r) ==
    /\ Advances(r, "Opened", "Failed")
    /\ \/ UNCHANGED <<tree, named>>
       \/ tree' = [tree EXCEPT ![r] = "Empty"] /\ named' = named \cup {r}
    /\ UNCHANGED <<destination, filled>>

Builds(r, from, to, into) ==
    /\ Advances(r, from, to)
    /\ tree' = [tree EXCEPT ![r] = into]
    /\ UNCHANGED <<destination, named, filled>>

Renders(r) == Builds(r, "Rendering", "Verifying", "Rendered")
Verifies(r) == Builds(r, "Verifying", "Recording", "Verified")
\* The digest of the tree, the record and the manifest.
Records(r) == Builds(r, "Recording", "Described", "Recorded")

\* A step fails, or the operator declines the review.
StepFails(r) ==
    /\ stage[r] \in Working \ {"Renaming"}
    /\ Discards(r, "Failed")

DryRuns(r) ==
    /\ stage[r] = "Described"
    /\ Discards(r, "DryRun")

\* place, step 1: the destination is looked at once more.
FindsAbsent(r) ==
    /\ destination = Nothing
    /\ Advances(r, "Described", "Renaming")
    /\ UNCHANGED <<tree, destination, named, filled>>

FindsTaken(r) ==
    /\ stage[r] = "Described" /\ destination # Nothing
    /\ Discards(r, "Failed")

\* A slip: the destination is made to give way.
RenamesOver(r) ==
    /\ stage[r] = "Renaming"
    /\ destination' = PlacedTree(r, tree[r])
    /\ tree' = [tree EXCEPT ![r] = NoTree]
    /\ stage' = [stage EXCEPT ![r] = "Created"]
    /\ UNCHANGED <<named, filled>>

\* place, step 3: the rename refuses a destination that holds something; POSIX
\* lets it replace an empty directory.
Renames(r) ==
    /\ stage[r] = "Renaming"
    /\ destination \in {Nothing, EmptyDir}
    /\ destination' = PlacedTree(r, tree[r])
    /\ tree' = [tree EXCEPT ![r] = NoTree]
    /\ stage' = [stage EXCEPT ![r] = "Created"]
    /\ UNCHANGED <<named, filled>>

\* The rename lost the race, or failed for a reason of its own.
RenameFails(r) ==
    /\ stage[r] = "Renaming"
    /\ Discards(r, "Failed")

NewDies(r) ==
    /\ stage[r] \notin Ended
    /\ stage' = [stage EXCEPT ![r] = "Died"]
    /\ UNCHANGED <<tree, destination, named, filled>>

OthersMakeDirectory ==
    /\ destination = Nothing
    /\ destination' = EmptyDir
    /\ UNCHANGED <<stage, tree, named, filled>>

OthersFill ==
    /\ destination \in {Nothing, EmptyDir}
    /\ destination' = Theirs /\ filled' = TRUE
    /\ UNCHANGED <<stage, tree, named>>

NewNext ==
    \/ \E r \in Runs :
          \/ Opens(r) \/ RefusesRun(r) \/ CreatesStaging(r) \/ StagingUnopened(r)
          \/ Renders(r) \/ Verifies(r) \/ Records(r) \/ StepFails(r) \/ DryRuns(r)
          \/ FindsAbsent(r) \/ FindsTaken(r) \/ Renames(r) \/ RenameFails(r) \/ NewDies(r)
    \/ OthersMakeDirectory \/ OthersFill

NewSpec == NewInit /\ [][NewNext]_newVars

-----------------------------------------------------------------------------
\* The destination holds nothing of renvor's or one run's whole tree, verified
\* and recorded; nobody's files are replaced; a run that says it created the
\* project did; and a tree a run left behind, unless it died, was named.
PlacedWholeOrNotAtAll ==
    /\ \A r \in Runs :
          /\ destination = PlacedTree(r, "Recorded") <=> tree[r] = NoTree /\ stage[r] = "Created"
          /\ stage[r] \in Ended \ {"Died"} /\ tree[r] # NoTree => r \in named
    /\ destination \in {Nothing, EmptyDir, Theirs} \cup {PlacedTree(r, "Recorded") : r \in Runs}
    /\ filled <=> destination = Theirs
=============================================================================
