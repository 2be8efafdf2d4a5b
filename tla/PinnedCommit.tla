---------------------------- MODULE PinnedCommit ----------------------------
(***************************************************************************)
(* The installed canary of the PM loop: it runs prepare, handoff, review    *)
(* and status against a local double and keeps what they store in a         *)
(* transaction of files.  Artifacts are published by linking a finished     *)
(* temporary file; records are staged one file per version; an index written *)
(* last lists them and makes them the committed state.  There is no lease:  *)
(* executions of one claim may overlap, but all of them write the same      *)
(* bytes to the same names, so a file that is there is a prefix of what      *)
(* they would write, and whoever finds a prefix completes it.               *)
(***************************************************************************)
EXTENDS Integers, FiniteSets

CONSTANTS Executions,      \* the processes that run the canary
          PinnedArtifacts, \* the artifacts of the worker's run
          LastVersion,     \* records 1 .. LastVersion are staged, in this order
          MaxCanaryDeaths  \* executions that die

ASSUME PinnedAssumption == LastVersion \in Nat \ {0} /\ MaxCanaryDeaths \in Nat

VARIABLES
    files,          \* each file is absent, partly written or whole
    listed,         \* the records the index lists
    canary,         \* where each execution is
    canaryDeaths

pinnedVars == <<files, listed, canary, canaryDeaths>>

Versions == 1 .. LastVersion

Temp(a) == [kind |-> "temp", of |-> a]
Final(a) == [kind |-> "final", of |-> a]
RecordFile(v) == [kind |-> "record", of |-> v]
Index == [kind |-> "index", of |-> "claim"]
PinnedFiles == {Temp(a) : a \in PinnedArtifacts} \cup {Final(a) : a \in PinnedArtifacts}
                 \cup {RecordFile(v) : v \in Versions} \cup {Index}

NoFile == [kind |-> "none"]
Resting == [stage |-> "rest", todo |-> {}, version |-> 0, open |-> NoFile, alone |-> TRUE]

PinnedTypeOK ==
    /\ files \in [PinnedFiles -> {"absent", "partial", "whole"}]
    /\ listed \subseteq Versions
    /\ canary \in [Executions ->
          [stage : {"rest", "publish", "load", "stage", "commit", "reload", "reported", "refused"},
           todo : SUBSET PinnedArtifacts, version : 0 .. LastVersion, open : PinnedFiles \cup {NoFile},
           alone : BOOLEAN]]
    /\ canaryDeaths \in 0 .. MaxCanaryDeaths

PinnedInit ==
    /\ files = [f \in PinnedFiles |-> "absent"]
    /\ listed = {}
    /\ canary = [e \in Executions |-> Resting]
    /\ canaryDeaths = 0

-----------------------------------------------------------------------------
Active(e) == canary[e].stage \notin {"rest", "reported", "refused"}
In(e, s) == canary[e].stage = s
Becomes(e, c) == canary' = [canary EXCEPT ![e] = c]
CanaryGoes(e, s) == Becomes(e, [canary[e] EXCEPT !.stage = s, !.open = NoFile])

(* preflightArtifact: which artifacts are already published.  Whoever runs beside
   another execution may be refused because a file changes under it. *)
Preflight(e) ==
    /\ ~Active(e)
    /\ LET others == {o \in Executions \ {e} : Active(o)} IN
       canary' = [o \in Executions |->
          IF o = e THEN [stage |-> "publish", version |-> 0, open |-> NoFile, alone |-> others = {},
                         todo |-> {a \in PinnedArtifacts : files[Final(a)] = "absent"}]
          ELSE IF o \in others THEN [canary[o] EXCEPT !.alone = FALSE] ELSE canary[o]]
    /\ UNCHANGED <<files, listed, canaryDeaths>>

(* Mutant: a file that is there but not whole is a conflict. *)
BugMayWrite(f) == files[f] = "absent"

(* openPreparedTemp, writeImmutablePinned: a new file or the prefix of one. *)
MayWrite(f) == files[f] \in {"absent", "partial", "whole"}

(* The file is opened, and then written to its end. *)
Opened(e, f) ==
    /\ canary[e].open = NoFile
    /\ IF MayWrite(f)
       THEN /\ files' = [files EXCEPT ![f] = IF @ = "absent" THEN "partial" ELSE @]
            /\ Becomes(e, [canary[e] EXCEPT !.open = f])
       ELSE CanaryGoes(e, "refused") /\ UNCHANGED files

Completed(e, f) == canary[e].open = f /\ files' = [files EXCEPT ![f] = "whole"]

OpenTemp(e, a) ==
    /\ In(e, "publish") /\ a \in canary[e].todo
    /\ Opened(e, Temp(a))
    /\ UNCHANGED <<listed, canaryDeaths>>

FillTemp(e, a) ==
    /\ In(e, "publish") /\ a \in canary[e].todo
    /\ Completed(e, Temp(a))
    /\ UNCHANGED <<listed, canary, canaryDeaths>>

(* publishArtifact: the temporary file, whole by then, gets its final name. *)
Link(e, a) ==
    /\ In(e, "publish") /\ a \in canary[e].todo
    /\ canary[e].open = Temp(a)
    /\ files[Temp(a)] = "whole"
    /\ files' = [files EXCEPT ![Final(a)] = IF @ = "absent" THEN files[Temp(a)] ELSE @]
    /\ Becomes(e, [canary[e] EXCEPT !.todo = @ \ {a}, !.open = NoFile])
    /\ UNCHANGED <<listed, canaryDeaths>>

(* revalidateArtifactBatch *)
Revalidate(e) ==
    /\ In(e, "publish") /\ canary[e].todo = {}
    /\ CanaryGoes(e, IF \A a \in PinnedArtifacts : files[Final(a)] = "whole" THEN "load" ELSE "refused")
    /\ UNCHANGED <<files, listed, canaryDeaths>>

-----------------------------------------------------------------------------
RecordsThere == {v \in Versions : files[RecordFile(v)] # "absent"}

(* The records a whole index must find: exactly those it lists, each as it was
   written, and every artifact. *)
RefsHold(refs) ==
    /\ RecordsThere = refs
    /\ \A v \in refs : files[RecordFile(v)] = "whole"
    /\ \A a \in PinnedArtifacts : files[Final(a)] = "whole"

(* loadCommitted: without a whole index the execution starts from nothing. *)
LoadCommitted(e) ==
    /\ In(e, "load")
    /\ IF files[Index] # "whole" THEN Becomes(e, [canary[e] EXCEPT !.stage = "stage", !.version = 1])
       ELSE CanaryGoes(e, IF RefsHold(listed) THEN "reported" ELSE "refused")
    /\ UNCHANGED <<files, listed, canaryDeaths>>

(* writeJson, by the commands and for the report *)
StageRecord(e) ==
    /\ In(e, "stage")
    /\ Opened(e, RecordFile(canary[e].version))
    /\ UNCHANGED <<listed, canaryDeaths>>

FillRecord(e) ==
    /\ In(e, "stage")
    /\ Completed(e, RecordFile(canary[e].version))
    /\ LET v == canary[e].version IN
       Becomes(e, [canary[e] EXCEPT !.open = NoFile, !.version = IF v = LastVersion THEN v ELSE v + 1,
                                    !.stage = IF v = LastVersion THEN "commit" ELSE @])
    /\ UNCHANGED <<listed, canaryDeaths>>

(* commit: everything staged is authenticated before the index is begun, and the
   index is read back after it was written. *)
Commit(e) ==
    /\ In(e, "commit")
    /\ IF RefsHold(Versions) THEN Opened(e, Index)
       ELSE CanaryGoes(e, "refused") /\ UNCHANGED files
    /\ UNCHANGED <<listed, canaryDeaths>>

FillIndex(e) ==
    /\ In(e, "commit")
    /\ Completed(e, Index)
    /\ listed' = Versions
    /\ CanaryGoes(e, "reload")
    /\ UNCHANGED canaryDeaths

Reload(e) ==
    /\ In(e, "reload")
    /\ CanaryGoes(e, IF files[Index] = "whole" /\ RefsHold(listed) THEN "reported" ELSE "refused")
    /\ UNCHANGED <<files, listed, canaryDeaths>>

(* A file or a directory that changes while it is read refuses the execution. *)
Disturbed(e) ==
    /\ Active(e) /\ ~canary[e].alone
    /\ CanaryGoes(e, "refused")
    /\ UNCHANGED <<files, listed, canaryDeaths>>

CanaryDies(e) ==
    /\ Active(e) /\ canaryDeaths < MaxCanaryDeaths
    /\ canaryDeaths' = canaryDeaths + 1
    /\ Becomes(e, Resting)
    /\ UNCHANGED <<files, listed>>

PinnedNext ==
    \E e \in Executions :
        \/ Preflight(e) \/ Revalidate(e) \/ LoadCommitted(e) \/ StageRecord(e) \/ FillRecord(e)
        \/ Commit(e) \/ FillIndex(e) \/ Reload(e) \/ Disturbed(e) \/ CanaryDies(e)
        \/ \E a \in PinnedArtifacts : OpenTemp(e, a) \/ FillTemp(e, a) \/ Link(e, a)

PinnedSpec == PinnedInit /\ [][PinnedNext]_pinnedVars

-----------------------------------------------------------------------------
(* Whatever files dead or overlapping executions left behind, an execution that
   had the claim to itself is never refused; and one that reported stands on a
   whole index, all the records it lists and all the artifacts. *)
CanaryIsAtomic ==
    \A e \in Executions :
        /\ canary[e].alone => ~In(e, "refused")
        /\ In(e, "reported") => files[Index] = "whole" /\ RefsHold(listed)

=============================================================================
