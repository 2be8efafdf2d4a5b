------------------------ MODULE EnforcementRollback --------------------------
(***************************************************************************)
(* The rollback switches: a surface is turned off and on again, against a   *)
(* baseline that holds the surfaces, the installed package and an inventory *)
(* of evidence files as they were when it was captured.  One command runs   *)
(* at a time under a lease; it may die between two writes.  The package is  *)
(* installed anew, and evidence is added and rewritten, by other programs.  *)
(***************************************************************************)
EXTENDS Integers, Sequences, FiniteSets

CONSTANTS RollbackSurfaces,    \* schedules, scout and enforcement in the code
          Packages,            \* contents of package.json
          EvidenceFiles,       \* files an inventory may list
          MaxBaselines,        \* baselines captured
          MaxRollbackDeaths    \* commands that die

ASSUME RollbackAssumption ==
    /\ RollbackSurfaces # {} /\ Packages # {}
    /\ {MaxBaselines, MaxRollbackDeaths} \subseteq Nat

VARIABLES
    installed,     \* package.json
    evidenceFiles, \* the evidence files: absent, or their content
    baselines,     \* the baselines captured, in order
    rollback,      \* state.json
    command,       \* the command that holds the lease
    capturedOff,   \* surfaces that were off in a baseline captured by hand
    reported,      \* whether the last status said its evidenceFiles is retained
    rollbackDeaths

rollbackVars == <<installed, evidenceFiles, baselines, rollback, command, capturedOff, reported,
                  rollbackDeaths>>

NoBaseline == 0
NoCommand == [kind |-> "none", surface |-> "none", stage |-> "none"]
Absent == 0

RollbackTypeOK ==
    /\ installed \in Packages
    /\ evidenceFiles \in [EvidenceFiles -> 0 .. 2]
    /\ DOMAIN baselines \subseteq 1 .. MaxBaselines
    /\ \A b \in DOMAIN baselines :
          baselines[b] \in [package : Packages, surfaces : [RollbackSurfaces -> BOOLEAN],
                            inventory : [EvidenceFiles -> 0 .. 2]]
    /\ rollback \in [surfaces : [RollbackSurfaces -> BOOLEAN], active : 0 .. MaxBaselines,
                     approved : Packages \cup {"none"}]
    /\ command \in {NoCommand} \cup
          [kind : {"baseline", "disable", "re-enable"}, surface : RollbackSurfaces,
           stage : {"baseline", "active", "restore", "surface"}]
    /\ capturedOff \subseteq RollbackSurfaces
    /\ reported \in BOOLEAN
    /\ rollbackDeaths \in 0 .. MaxRollbackDeaths

RollbackInit ==
    /\ installed \in Packages
    /\ evidenceFiles = [f \in EvidenceFiles |-> Absent]
    /\ baselines = <<>>
    /\ rollback = [surfaces |-> [s \in RollbackSurfaces |-> TRUE], active |-> NoBaseline,
                   approved |-> "none"]
    /\ command = NoCommand
    /\ capturedOff = {}
    /\ reported = TRUE
    /\ rollbackDeaths = 0

-----------------------------------------------------------------------------
(* Mutant: disable takes a baseline of its own although there is one. *)
BugHasBaseline == FALSE

(* ensureBaseline: the active baseline is kept. *)
HasBaseline == rollback.active # NoBaseline

FirstStage(kind) ==
    CASE kind = "baseline" -> "baseline"
      [] kind = "disable" -> IF HasBaseline THEN "surface" ELSE "baseline"
      [] kind = "re-enable" -> "restore"

CommandBegins ==
    /\ command = NoCommand
    /\ \E kind \in {"baseline", "disable", "re-enable"}, s \in RollbackSurfaces :
          /\ kind = "re-enable" => rollback.active # NoBaseline
          /\ command' = [kind |-> kind, surface |-> s, stage |-> FirstStage(kind)]
    /\ UNCHANGED <<installed, evidenceFiles, baselines, rollback, capturedOff, reported, rollbackDeaths>>

WriteBaseline ==
    /\ command.stage = "baseline"
    /\ Cardinality(DOMAIN baselines) < MaxBaselines
    /\ baselines' = Append(baselines, [package |-> installed, surfaces |-> rollback.surfaces,
                                       inventory |-> evidenceFiles])
    /\ command' = [command EXCEPT !.stage = "active"]
    /\ UNCHANGED <<installed, evidenceFiles, rollback, capturedOff, reported, rollbackDeaths>>

(* The state names the baseline just written and the package it approves. *)
WriteActive ==
    /\ command.stage = "active"
    /\ LET b == Len(baselines) IN
          /\ rollback' = [rollback EXCEPT !.active = b, !.approved = baselines[b].package]
          /\ capturedOff' = IF command.kind = "baseline"
                            THEN {s \in RollbackSurfaces : ~baselines[b].surfaces[s]}
                            ELSE capturedOff
    /\ command' = IF command.kind = "baseline" THEN NoCommand ELSE [command EXCEPT !.stage = "surface"]
    /\ UNCHANGED <<installed, evidenceFiles, baselines, reported, rollbackDeaths>>

(* restorePackageJson: the package goes back before the state says so. *)
RestorePackage ==
    /\ command.stage = "restore"
    /\ installed' = baselines[rollback.active].package
    /\ command' = [command EXCEPT !.stage = "surface"]
    /\ UNCHANGED <<evidenceFiles, baselines, rollback, capturedOff, reported, rollbackDeaths>>

(* evidenceInventoryRetained *)
Retained(b) ==
    \A f \in EvidenceFiles :
        baselines[b].inventory[f] # Absent => evidenceFiles[f] = baselines[b].inventory[f]

WriteSurface ==
    /\ command.stage = "surface"
    /\ LET b == baselines[rollback.active] IN
       rollback' = [rollback EXCEPT
          !.surfaces[command.surface] = command.kind = "re-enable" /\ b.surfaces[command.surface],
          !.approved = b.package]
    /\ reported' = Retained(rollback.active)
    /\ command' = NoCommand
    /\ UNCHANGED <<installed, evidenceFiles, baselines, capturedOff, rollbackDeaths>>

CommandDies ==
    /\ rollbackDeaths < MaxRollbackDeaths
    /\ command # NoCommand
    /\ command' = NoCommand
    /\ rollbackDeaths' = rollbackDeaths + 1
    /\ UNCHANGED <<installed, evidenceFiles, baselines, rollback, capturedOff, reported>>

(* The watchdog rewrites its state, events and deeds are added. *)
EvidenceChanges ==
    /\ \E f \in EvidenceFiles, v \in 1 .. 2 : evidenceFiles' = [evidenceFiles EXCEPT ![f] = v]
    /\ UNCHANGED <<installed, baselines, rollback, command, capturedOff, reported, rollbackDeaths>>

PackageInstalled ==
    /\ installed' \in Packages
    /\ UNCHANGED <<evidenceFiles, baselines, rollback, command, capturedOff, reported, rollbackDeaths>>

RollbackNext ==
    \/ CommandBegins \/ WriteBaseline \/ WriteActive \/ RestorePackage \/ WriteSurface
    \/ CommandDies \/ EvidenceChanges \/ PackageInstalled

RollbackSpec == RollbackInit /\ [][RollbackNext]_rollbackVars

-----------------------------------------------------------------------------
(* There is a way back from everything that was turned off: the baseline a
   re-enabling would use is there, it is the one whose package the state calls
   approved, and it has every surface on that is off now, but for those that were
   off already when the operator captured it by hand. (enforcement-rollback.ts,
   ensureBaseline, disableRollbackSurface, reEnableRollbackSurface) *)
WayBack ==
    /\ (\E s \in RollbackSurfaces : ~rollback.surfaces[s]) => rollback.active # NoBaseline
    /\ rollback.active # NoBaseline =>
          /\ rollback.active \in DOMAIN baselines
          /\ rollback.approved = baselines[rollback.active].package
          /\ \A s \in RollbackSurfaces \ capturedOff :
                ~rollback.surfaces[s] => baselines[rollback.active].surfaces[s]
=============================================================================
