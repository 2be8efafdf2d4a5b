--------------------------- MODULE StrategicReview ---------------------------
(***************************************************************************)
(* A strategic review: a request is authenticated against the evidence the   *)
(* installation publishes, checked against the review contract and the cost   *)
(* policy, a drift of the sources is tracked in a ticket, the ledger of the    *)
(* continuation is audited, and the report is stored under an identity made    *)
(* of the request and of the report.  A stored report can be replayed.  The    *)
(* installation, the ticket and other reviews move on between any two steps.   *)
(***************************************************************************)
EXTENDS Integers

CONSTANTS Reviewers,      \* reviews that run at the same time
          ReviewRequests, \* what they are asked
          MaxReviewChanges

VARIABLES
    evidence,     \* what the installation publishes: a record, and how often is too often
    followUp,     \* the ticket that tracks the drift
    reviewAudits, \* the audits of the ledgers of reviews
    reports,      \* the stored reports
    evaluating,   \* the reviews that run
    answers,      \* what callers were told: the reports and the failures
    reviewChanges

reviewVars == <<evidence, followUp, reviewAudits, reports, evaluating, answers, reviewChanges>>
storedVars == <<evidence, followUp, reviewAudits, reports, reviewChanges>>

(* What a request says, as far as the checks tell requests apart. *)
Requests == [mode : {"normal", "bounded_snapshot"},
             evidence : {1, 2},          \* the evidence it was written for
             valid : BOOLEAN,            \* every reference is classified and supported
             complete : BOOLEAN,         \* the obligations of the contract
             recurrence : 0 .. 2,        \* how often its material finding was seen
             explained : BOOLEAN,        \* whether the finding has a root cause
             drift : BOOLEAN,            \* whether it observes a drift of the sources
             tracked : {"no", "unnamed", "named"}, \* whether a lane names the drift's ticket
             policy : {"PASS", "FAIL"},
             ledger : {"PASS", "FAIL"},
             lanes : BOOLEAN]            \* whether the lanes are those of the ledger

NoProof == [state |-> "none"]
NoFollowUp == [state |-> "missing", says |-> FALSE]
BridgedProofs == {NoProof} \cup [state : {"here", "elsewhere"}, says : BOOLEAN]
StoredReports == [request : Requests, proof : BridgedProofs]
NotEvaluating == [stage |-> "none"]

ASSUME ReviewAssumption == ReviewRequests \subseteq Requests /\ MaxReviewChanges \in Nat

ReviewTypeOK ==
    /\ evidence \in [record : {1, 2}, threshold : {1, 2}]
    /\ followUp \in {NoFollowUp} \cup [state : {"here", "elsewhere"}, says : BOOLEAN]
    /\ reviewAudits \subseteq [request : Requests, proof : BridgedProofs, verdict : {"PASS", "FAIL"}]
    /\ reports \subseteq StoredReports
    /\ evaluating \in [Reviewers -> {NotEvaluating} \cup
          [stage : {"evidence", "contract", "drift", "proof", "ledger", "failed", "report"},
           request : Requests, proof : BridgedProofs, threshold : {0, 1, 2}]]
    /\ answers \subseteq [request : Requests, report : StoredReports \cup {NoProof}]
    /\ reviewChanges \in 0 .. MaxReviewChanges

ReviewInit ==
    /\ evidence = [record |-> 1, threshold |-> 2]
    /\ followUp = NoFollowUp
    /\ reviewAudits = {} /\ reports = {} /\ answers = {}
    /\ evaluating = [v \in Reviewers |-> NotEvaluating]
    /\ reviewChanges = 0

Goes(v, stage) == evaluating' = [evaluating EXCEPT ![v].stage = stage]
Refuse(v) == evaluating' = [evaluating EXCEPT ![v] = NotEvaluating]
Continue(v, holds, stage) ==
    IF holds THEN Goes(v, stage) ELSE Refuse(v)

-----------------------------------------------------------------------------
(* evidenceManifestValid is the first thing that is asked of a request. *)
EvaluateRequest(v, r) ==
    /\ evaluating[v] = NotEvaluating /\ r.valid
    /\ evaluating' = [evaluating EXCEPT ![v] = [stage |-> "evidence", request |-> r, proof |-> NoProof,
                                                threshold |-> 0]]
    /\ UNCHANGED <<storedVars, answers>>

(* The request must carry the evidence that is installed. *)
Authentic(r) == r.evidence = evidence.record

(* A file that changes while it is read is refused like one that does not verify:
   the read is one step. *)
Authenticate(v) ==
    /\ evaluating[v].stage = "evidence"
    /\ IF Authentic(evaluating[v].request)
       THEN evaluating' = [evaluating EXCEPT ![v].stage = "contract", ![v].threshold = evidence.threshold]
       ELSE Refuse(v)
    /\ UNCHANGED <<storedVars, answers>>

-----------------------------------------------------------------------------
(* evaluate, in the normal mode *)

(* A material finding that was seen too often needs a root cause. *)
RootCauseMissing(r, threshold) == r.recurrence >= threshold /\ ~r.explained

(* A drift needs its evidence, its finding and one lane that tracks it. *)
DriftPrepared(r) == r.drift => r.tracked # "no"

CheckContract(v) ==
    LET r == evaluating[v].request IN
    /\ evaluating[v].stage = "contract" /\ r.mode = "normal"
    /\ Continue(v, ~RootCauseMissing(r, evaluating[v].threshold) /\ r.complete
                     /\ (r.policy = "PASS" => DriftPrepared(r)),
                IF r.policy = "PASS" /\ r.drift THEN "drift" ELSE "ledger")
    /\ UNCHANGED <<storedVars, answers>>

(* ensureContinuation creates the ticket or finds it again; the lane must name it. *)
EnsureFollowUp(v) ==
    /\ evaluating[v].stage = "drift"
    /\ followUp' = IF followUp = NoFollowUp THEN [state |-> "here", says |-> TRUE] ELSE followUp
    /\ Continue(v, evaluating[v].request.tracked = "named", "proof")
    /\ UNCHANGED <<evidence, reviewAudits, reports, answers, reviewChanges>>

(* Mutant: the ticket need not be under the goal's parent, nor state the action. *)
BugProofHolds(p) == p.state # "missing"

(* The ticket must be under the goal's parent and state the action and its evidence. *)
ProofHolds(p) == p.state = "here" /\ p.says

ReadProof(v) ==
    /\ evaluating[v].stage = "proof"
    /\ IF ProofHolds(followUp)
       THEN evaluating' = [evaluating EXCEPT ![v].stage = "ledger", ![v].proof = followUp]
       ELSE Refuse(v)
    /\ UNCHANGED <<storedVars, answers>>

Verdict(r) == IF r.policy = "PASS" /\ r.ledger = "PASS" THEN "PASS" ELSE "FAIL"

(* The lanes of the report are the items of the ledger, one for one. *)
LanesMatch(r) == r.lanes

(* finalizeContinuationLedgerLiveAudited: the ledger is judged and its audit written;
   an audit that cannot be written fails the ledger. *)
AuditLedger(v, written) ==
    LET w == evaluating[v]  r == w.request  verdict == IF written THEN Verdict(r) ELSE "FAIL" IN
    /\ w.stage = "ledger"
    /\ reviewAudits' = IF written
                       THEN reviewAudits \cup {[request |-> r, proof |-> w.proof, verdict |-> verdict]}
                       ELSE reviewAudits
    /\ IF verdict = "PASS" THEN Continue(v, LanesMatch(r), "report") ELSE Goes(v, "failed")
    /\ UNCHANGED <<evidence, followUp, reports, answers, reviewChanges>>

(* A failure of the policy is reported with the pair its audit recorded. *)
ReportFailure(v) ==
    LET w == evaluating[v]
        recorded == [request |-> w.request, proof |-> w.proof, verdict |-> "FAIL"] \in reviewAudits
    IN
    /\ w.stage = "failed"
    /\ answers' = IF w.request.policy = "FAIL" /\ recorded
                  THEN answers \cup {[request |-> w.request, report |-> NoProof]} ELSE answers
    /\ Refuse(v)
    /\ UNCHANGED storedVars

(* persistNormalReport: the identity of a report is the request and its content, so
   what is stored under it already is the same. *)
ReportOf(w) == [request |-> w.request, proof |-> w.proof]

PersistReport(v) ==
    LET w == evaluating[v] IN
    /\ w.stage = "report"
    /\ reports' = reports \cup {ReportOf(w)}
    /\ answers' = answers \cup {[request |-> w.request, report |-> ReportOf(w)]}
    /\ Refuse(v)
    /\ UNCHANGED <<evidence, followUp, reviewAudits, reviewChanges>>

-----------------------------------------------------------------------------
(* The other requests *)

(* A snapshot is computed and not stored: nothing it carries may ask for a change. *)
CarriesAuthority(r) == r.tracked # "no"

Snapshot(v) ==
    LET r == evaluating[v].request IN
    /\ evaluating[v].stage = "contract" /\ r.mode = "bounded_snapshot"
    /\ answers' = IF CarriesAuthority(r) THEN answers
                  ELSE answers \cup {[request |-> r, report |-> ReportOf(evaluating[v])]}
    /\ Refuse(v)
    /\ UNCHANGED storedVars

(* replay and status: the stored report must be that of this request, and carry the
   evidence that was just authenticated. *)
Replay(v, s) ==
    LET r == evaluating[v].request IN
    /\ evaluating[v].stage = "contract" /\ r.mode = "normal"
    /\ s.request = r
    /\ answers' = answers \cup {[request |-> r, report |-> s]}
    /\ Refuse(v)
    /\ UNCHANGED storedVars

StopReviewing(v) ==
    /\ evaluating[v] # NotEvaluating
    /\ Refuse(v)
    /\ UNCHANGED <<storedVars, answers>>

(* From outside: other evidence is installed; the ticket is edited or moved. *)
ReviewChange ==
    /\ reviewChanges < MaxReviewChanges /\ reviewChanges' = reviewChanges + 1
    /\ \/ \E e \in {1, 2}, t \in {1, 2} : evidence' = [record |-> e, threshold |-> t] /\ UNCHANGED followUp
       \/ /\ followUp # NoFollowUp
          /\ \E f \in [state : {"here", "elsewhere"}, says : BOOLEAN] : followUp' = f
          /\ UNCHANGED evidence
    /\ UNCHANGED <<reviewAudits, reports, evaluating, answers>>

ReviewNext ==
    \/ \E v \in Reviewers :
         \/ \E r \in ReviewRequests : EvaluateRequest(v, r)
         \/ Authenticate(v) \/ CheckContract(v) \/ EnsureFollowUp(v) \/ ReadProof(v)
         \/ \E written \in BOOLEAN : AuditLedger(v, written)
         \/ ReportFailure(v) \/ PersistReport(v) \/ Snapshot(v) \/ StopReviewing(v)
         \/ \E s \in reports : Replay(v, s)
    \/ ReviewChange

ReviewSpec == ReviewInit /\ [][ReviewNext]_reviewVars

-----------------------------------------------------------------------------
(* What a caller is given was gone through: a report of a normal review is stored,
   the audit of its ledger passed with the proof the report carries, and where the
   sources had drifted the proof is of a ticket under the goal's parent that states
   the action.  A failure of the policy that is reported is on record. *)
ReportIsBacked ==
    \A a \in answers :
        LET r == a.request IN
        /\ a.report = NoProof =>
             r.policy = "FAIL" /\ \E u \in reviewAudits : u.request = r /\ u.verdict = "FAIL"
        /\ a.report # NoProof /\ r.mode = "normal" =>
             /\ a.report \in reports /\ a.report.request = r
             /\ [request |-> r, proof |-> a.report.proof, verdict |-> "PASS"] \in reviewAudits
             /\ r.drift => a.report.proof = [state |-> "here", says |-> TRUE] /\ followUp # NoFollowUp

=============================================================================
