------------------------------- MODULE MCStores -------------------------------
(***************************************************************************)
(* The components around the loop, checked in one run.  They keep their state  *)
(* in files of their own and meet only in what each module models as its       *)
(* surroundings, so a behaviour is one of one of them: part names it, and the  *)
(* variables of the others stay as they were.                                  *)
(***************************************************************************)
EXTENDS Watchdog, HkSchedules, ShadowStore, CostPolicy, Finalizer, EnforcementRollback,
        KnowledgePromotion, PinnedCommit, PmLoop, OriginReads, StrategicReview, Deeds,
        GitHubTickets, MulticaTickets, Migration

CONSTANT StoreParts

VARIABLE part

(* What the worker may report of a run, and what a reviewer may report of a review. *)
WorkerRun(w, o, c) == [worker |-> w, outcome |-> o, content |-> c]

MCRuns == {WorkerRun("w", "completed", 1), WorkerRun("r", "incomplete", 1)}

ReviewerReport(a, v, f, d, p) ==
    [reviewer |-> a, verdict |-> v, finding |-> f, disposition |-> d, phase4 |-> p]

MCReports == {ReviewerReport("r", "PASS", "low", "none", "PASS"),
              ReviewerReport("r", "PARTIAL", "high", "correction", "PASS"),
              ReviewerReport("w", "PARTIAL", "high", "blocker", "PASS")}

(* The requests of a strategic review: a clean one, and each way to differ from it
   that the evaluation tells apart. *)
CleanReview ==
    [mode |-> "normal", evidence |-> 1, valid |-> TRUE, complete |-> TRUE, recurrence |-> 0,
     explained |-> FALSE, drift |-> FALSE, tracked |-> "no", policy |-> "PASS",
     ledger |-> "PASS", lanes |-> TRUE]

MCRequests ==
    {[CleanReview EXCEPT !.recurrence = 1],
     [CleanReview EXCEPT !.drift = TRUE, !.tracked = "named"],
     [CleanReview EXCEPT !.drift = TRUE, !.tracked = "unnamed"],
     [CleanReview EXCEPT !.policy = "FAIL", !.evidence = 2],
     [CleanReview EXCEPT !.ledger = "FAIL"],
     [CleanReview EXCEPT !.mode = "bounded_snapshot", !.evidence = 2]}

-----------------------------------------------------------------------------
(* The surroundings of a component that is not looked at are one of those it may
   start in. *)
StoresInit ==
    /\ part \in StoreParts
    /\ WatchdogInit /\ HkInit /\ ShadowInit /\ PolicyInit /\ PinnedInit /\ ReviewInit
    /\ DeedsInit /\ GitHubInit /\ MulticaInit
    /\ MigrationInit
    /\ part # "migration" => legacyDir = Gone
    /\ FinalizerInit
    /\ part # "finalizer" => tracker = [t \in LedgerTickets |-> "open"]
    /\ RollbackInit
    /\ part # "rollback" => installed = CHOOSE p \in Packages : TRUE
    /\ PromotionInit
    /\ part # "promotion" => page = NoText /\ oneOrigin
    /\ PmInit
    /\ part # "pm" => \A s, t \in PmTickets : board[s] = board[t] /\ board[s].fit = CHOOSE f \in Fits : TRUE
    /\ OriginInit
    /\ part # "origin" => reader.confirms /\ \A r \in OriginRoots :
           recordFiles[r].record.head = CHOOSE k \in OriginKeys : TRUE

(* The step is one of the part, and the variables of the others stay. *)
Only(p) ==
    /\ part = p
    /\ UNCHANGED part
    /\ p # "watchdog"  => UNCHANGED watchdogVars
    /\ p # "hk"        => UNCHANGED hkVars
    /\ p # "shadow"    => UNCHANGED shadowVars
    /\ p # "policy"    => UNCHANGED policyVars
    /\ p # "finalizer" => UNCHANGED finalizerVars
    /\ p # "rollback"  => UNCHANGED rollbackVars
    /\ p # "promotion" => UNCHANGED promotionVars
    /\ p # "pinned"    => UNCHANGED pinnedVars
    /\ p # "pm"        => UNCHANGED pmVars
    /\ p # "origin"    => UNCHANGED originVars
    /\ p # "review"    => UNCHANGED reviewVars
    /\ p # "deeds"     => UNCHANGED deedVars
    /\ p # "github"    => UNCHANGED githubVars
    /\ p # "multica"   => UNCHANGED multicaVars
    /\ p # "migration" => UNCHANGED migrationVars

StoresNext ==
    \/ Only("watchdog")   /\ WatchdogNext
    \/ Only("hk")         /\ HkNext
    \/ Only("shadow")     /\ ShadowNext
    \/ Only("policy")     /\ PolicyNext
    \/ Only("finalizer")  /\ FinalizerNext
    \/ Only("rollback")   /\ RollbackNext
    \/ Only("promotion")  /\ PromotionNext
    \/ Only("pinned")     /\ PinnedNext
    \/ Only("pm")         /\ PmNext
    \/ Only("origin")     /\ OriginNext
    \/ Only("review")     /\ ReviewNext
    \/ Only("deeds")      /\ DeedsNext
    \/ Only("github")     /\ GitHubNext
    \/ Only("multica")    /\ MulticaNext
    \/ Only("migration")  /\ MigrationNext

storesVars == <<part, watchdogVars, hkVars, shadowVars, policyVars, finalizerVars, rollbackVars,
                promotionVars, pinnedVars, pmVars, originVars, reviewVars, deedVars, githubVars,
                multicaVars, migrationVars>>

StoresSpec == StoresInit /\ [][StoresNext]_storesVars

(* Each component's state has its type. *)
StoresTypeOK ==
    /\ part = "watchdog"  => WatchdogTypeOK
    /\ part = "hk"        => HkTypeOK
    /\ part = "shadow"    => ShadowTypeOK
    /\ part = "finalizer" => FinalizerTypeOK
    /\ part = "rollback"  => RollbackTypeOK
    /\ part = "promotion" => PromotionTypeOK
    /\ part = "pinned"    => PinnedTypeOK
    /\ part = "pm"        => PmTypeOK
    /\ part = "origin"    => OriginTypeOK
    /\ part = "review"    => ReviewTypeOK
    /\ part = "deeds"     => DeedsTypeOK
    /\ part = "github"    => GitHubTypeOK
    /\ part = "multica"   => MulticaTypeOK
    /\ part = "migration" => MigrationTypeOK

(* Both remote backends keep their word to their callers (tickets/provider.ts). *)
BackendsKeepTheirWord == GitHubKeepsItsWord /\ MulticaKeepsItsWord

=============================================================================
