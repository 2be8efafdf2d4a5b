---------------------------- MODULE Stores_proofs ----------------------------
(***************************************************************************)
(* Theorems about the reviews and the deeds (StrategicReview, Deeds), and  *)
(* about all components together: the specification the run of MCStores    *)
(* checks implements that of each component, so that what is proved of a   *)
(* component is proved of it there too.                                    *)
(***************************************************************************)
EXTENDS MCStores, Tickets_proofs, Records_proofs

-----------------------------------------------------------------------------
(* StrategicReview. What a caller is told was established by steps the review took
   before, and others act in between: the invariant says what a review carries along
   (Established), and that a stored report keeps what it was stored with (ReportsFit),
   which is what a replay relies on. *)
Running == [stage : {"evidence", "contract", "drift", "proof", "ledger", "failed", "report"},
            request : Requests, proof : BridgedProofs, threshold : {0, 1, 2}]

Tickets == {NoFollowUp} \cup [state : {"here", "elsewhere"}, says : BOOLEAN]

ReviewTyping ==
    /\ evidence \in [record : {1, 2}, threshold : {1, 2}]
    /\ followUp \in Tickets
    /\ evaluating \in [Reviewers -> {NotEvaluating} \cup Running]

(* The drift is tracked, and p is the proof of it. *)
Tracked(p) == p = [state |-> "here", says |-> TRUE] /\ followUp # NoFollowUp

Audited(r, p) == [request |-> r, proof |-> p, verdict |-> "PASS"] \in reviewAudits

(* What a running review has established. *)
Established(w) ==
    /\ w.stage \in {"drift", "proof", "ledger", "failed", "report"} => w.request.mode = "normal"
    /\ w.stage \in {"ledger", "failed", "report"} /\ w.request.policy = "PASS" /\ w.request.drift
          => Tracked(w.proof)
    /\ w.stage = "report" => w.request.policy = "PASS" /\ Audited(w.request, w.proof)

(* What a stored report stands on. *)
ReportFits(s) ==
    /\ s # NoProof
    /\ s.request.mode = "normal"
    /\ Audited(s.request, s.proof)
    /\ s.request.drift => Tracked(s.proof)

AllEstablished == \A v \in Reviewers : Established(evaluating[v])
ReportsFit == \A s \in reports : ReportFits(s)

ReviewInv == ReviewTyping /\ AllEstablished /\ ReportsFit /\ ReportIsBacked

-----------------------------------------------------------------------------
(* A report is not the mark of its absence. *)
LEMMA ReportIsNotNoProof ==
    ASSUME NEW r, NEW p PROVE [request |-> r, proof |-> p] # NoProof
<1>1. "state" \in DOMAIN NoProof
  BY DEF NoProof
<1>2. "state" \notin DOMAIN [request |-> r, proof |-> p]
  OBVIOUS
<1>3. QED
  BY <1>1, <1>2

LEMMA ReviewInitially == ReviewInit => ReviewInv
BY DEF ReviewInit, ReviewInv, ReviewTyping, Tickets, AllEstablished, Established, ReportsFit, ReportIsBacked,
       NotEvaluating

(* Nothing that was established is lost while audits, reports and answers are only
   added to and the ticket, once there, stays. *)
Grows == /\ reviewAudits \subseteq reviewAudits'
         /\ followUp # NoFollowUp => followUp' # NoFollowUp

LEMMA BackedStays ==
    ASSUME Grows, ReportsFit, ReportIsBacked, reports' = reports, answers' = answers
    PROVE  ReportsFit' /\ ReportIsBacked'
<1>1. ReportsFit'
  BY DEF Grows, ReportsFit, ReportFits, Tracked, Audited
<1>2. ReportIsBacked'
  BY DEF Grows, ReportIsBacked
<1>3. QED
  BY <1>1, <1>2

(* A step of one review that establishes what its next stage needs. *)
LEMMA OneGoesOn ==
    ASSUME AllEstablished, ReviewTyping, Grows, NEW v \in Reviewers, NEW w \in {NotEvaluating} \cup Running,
           evaluating' = [evaluating EXCEPT ![v] = w], Established(w)'
    PROVE  evaluating' \in [Reviewers -> {NotEvaluating} \cup Running] /\ AllEstablished'
<1>1. evaluating' \in [Reviewers -> {NotEvaluating} \cup Running]
  BY DEF ReviewTyping
<1>2. ASSUME NEW u \in Reviewers PROVE Established(evaluating[u])'
  <2>1. CASE u = v
    <3>1. evaluating'[u] = w
      BY <2>1 DEF ReviewTyping
    <3>2. QED
      BY <3>1 DEF Established, Tracked, Audited
  <2>2. CASE u # v
    <3>1. evaluating'[u] = evaluating[u]
      BY <2>2 DEF ReviewTyping
    <3>2. Established(evaluating[u])
      BY DEF AllEstablished
    <3>3. QED
      BY <3>1, <3>2 DEF Grows, Established, Tracked, Audited
  <2>3. QED
    BY <2>1, <2>2
<1>3. QED
  BY <1>1, <1>2 DEF AllEstablished

LEMMA RefusedIsEstablished == Established(NotEvaluating)'
BY DEF Established, NotEvaluating

(* Steps that change only the review itself. *)
LEMMA EvaluateKeeps ==
    ASSUME ReviewInv, NEW v \in Reviewers, NEW r \in ReviewRequests, EvaluateRequest(v, r) PROVE ReviewInv'
<1>0. PICK w : w = [stage |-> "evidence", request |-> r, proof |-> NoProof, threshold |-> 0]
  OBVIOUS
<1>1. Grows /\ followUp' = followUp /\ evidence' = evidence /\ reports' = reports /\ answers' = answers
  BY DEF EvaluateRequest, storedVars, Grows
<1>2. w \in Running
  BY <1>0, ReviewAssumption DEF Running, BridgedProofs
<1>3. Established(w)'
  BY <1>0 DEF Established
<1>4. evaluating' = [evaluating EXCEPT ![v] = w]
  BY <1>0 DEF EvaluateRequest
<1>5. evaluating' \in [Reviewers -> {NotEvaluating} \cup Running] /\ AllEstablished'
  BY <1>1, <1>2, <1>3, <1>4, OneGoesOn DEF ReviewInv
<1>6. QED
  BY <1>1, <1>5, BackedStays DEF ReviewInv, ReviewTyping

LEMMA RefuseKeeps ==
    ASSUME ReviewInv, Grows, NEW v \in Reviewers, Refuse(v), evidence' \in [record : {1, 2}, threshold : {1, 2}],
           followUp' \in Tickets, ReportsFit', ReportIsBacked'
    PROVE  ReviewInv'
<1>1. evaluating' \in [Reviewers -> {NotEvaluating} \cup Running] /\ AllEstablished'
  BY OneGoesOn, RefusedIsEstablished DEF ReviewInv, Refuse
<1>2. QED
  BY <1>1 DEF ReviewInv, ReviewTyping

LEMMA AuthenticateKeeps ==
    ASSUME ReviewInv, NEW v \in Reviewers, Authenticate(v) PROVE ReviewInv'
<1>1. Grows /\ followUp' = followUp /\ evidence' = evidence /\ reports' = reports /\ answers' = answers
  BY DEF Authenticate, storedVars, Grows
<1>2. ReportsFit' /\ ReportIsBacked'
  BY <1>1, BackedStays DEF ReviewInv
<1>3. CASE Authentic(evaluating[v].request)
  <2>0. PICK w : w = [evaluating[v] EXCEPT !.stage = "contract", !.threshold = evidence.threshold]
    OBVIOUS
  <2>1. evaluating[v] \in Running
    BY DEF Authenticate, ReviewInv, ReviewTyping, NotEvaluating
  <2>2. w \in Running /\ w.stage = "contract"
    BY <2>0, <2>1 DEF ReviewInv, ReviewTyping, Running
  <2>3. Established(w)'
    BY <2>2 DEF Established
  <2>4. evaluating' = [evaluating EXCEPT ![v] = w]
    BY <2>0, <1>3, <2>1 DEF Authenticate, ReviewInv, ReviewTyping, Running
  <2>5. evaluating' \in [Reviewers -> {NotEvaluating} \cup Running] /\ AllEstablished'
    BY <1>1, <2>2, <2>3, <2>4, OneGoesOn DEF ReviewInv
  <2>6. QED
    BY <1>1, <1>2, <2>5 DEF ReviewInv, ReviewTyping
<1>4. CASE ~Authentic(evaluating[v].request)
  BY <1>1, <1>2, <1>4, RefuseKeeps DEF Authenticate, ReviewInv, ReviewTyping
<1>5. QED
  BY <1>3, <1>4

LEMMA ContractKeeps ==
    ASSUME ReviewInv, NEW v \in Reviewers, CheckContract(v) PROVE ReviewInv'
<1> DEFINE r == evaluating[v].request
           stage == IF r.policy = "PASS" /\ r.drift THEN "drift" ELSE "ledger"
<1>1. Grows /\ followUp' = followUp /\ evidence' = evidence /\ reports' = reports /\ answers' = answers
  BY DEF CheckContract, storedVars, Grows
<1>2. ReportsFit' /\ ReportIsBacked'
  BY <1>1, BackedStays DEF ReviewInv
<1>3. CASE Refuse(v)
  BY <1>1, <1>2, <1>3, RefuseKeeps DEF ReviewInv, ReviewTyping
<1>4. CASE Goes(v, stage)
  <2>0. PICK w : w = [evaluating[v] EXCEPT !.stage = stage]
    OBVIOUS
  <2>1. evaluating[v] \in Running
    BY DEF CheckContract, ReviewInv, ReviewTyping, NotEvaluating
  <2>2. w \in Running /\ w.stage = stage /\ w.request = r
    BY <2>0, <2>1 DEF Running
  <2>3. Established(w)'
    BY <2>2 DEF CheckContract, Established
  <2>4. evaluating' = [evaluating EXCEPT ![v] = w]
    BY <2>0, <1>4 DEF Goes
  <2>5. evaluating' \in [Reviewers -> {NotEvaluating} \cup Running] /\ AllEstablished'
    BY <1>1, <2>2, <2>3, <2>4, OneGoesOn DEF ReviewInv
  <2>6. QED
    BY <1>1, <1>2, <2>5 DEF ReviewInv, ReviewTyping
<1>5. QED
  BY <1>3, <1>4 DEF CheckContract, Continue

LEMMA FollowUpKeeps ==
    ASSUME ReviewInv, NEW v \in Reviewers, EnsureFollowUp(v) PROVE ReviewInv'
<1>1. Grows /\ followUp' \in Tickets /\ evidence' = evidence /\ reports' = reports /\ answers' = answers
  BY DEF EnsureFollowUp, Grows, ReviewInv, ReviewTyping, Tickets, NoFollowUp
<1>2. ReportsFit' /\ ReportIsBacked'
  BY <1>1, BackedStays DEF ReviewInv
<1>3. CASE Refuse(v)
  BY <1>1, <1>2, <1>3, RefuseKeeps DEF ReviewInv, ReviewTyping
<1>4. CASE Goes(v, "proof")
  <2>0. PICK w : w = [evaluating[v] EXCEPT !.stage = "proof"]
    OBVIOUS
  <2>1. evaluating[v] \in Running /\ Established(evaluating[v]) /\ evaluating[v].stage = "drift"
    BY DEF EnsureFollowUp, ReviewInv, ReviewTyping, AllEstablished, NotEvaluating
  <2>2. w \in Running /\ w.stage = "proof" /\ w.request = evaluating[v].request
    BY <2>0, <2>1 DEF Running
  <2>3. Established(w)'
    BY <2>1, <2>2 DEF Established
  <2>4. evaluating' = [evaluating EXCEPT ![v] = w]
    BY <2>0, <1>4 DEF Goes
  <2>5. evaluating' \in [Reviewers -> {NotEvaluating} \cup Running] /\ AllEstablished'
    BY <1>1, <2>2, <2>3, <2>4, OneGoesOn DEF ReviewInv
  <2>6. QED
    BY <1>1, <1>2, <2>5 DEF ReviewInv, ReviewTyping
<1>5. QED
  BY <1>3, <1>4 DEF EnsureFollowUp, Continue

LEMMA ProofKeeps ==
    ASSUME ReviewInv, NEW v \in Reviewers, ReadProof(v) PROVE ReviewInv'
<1>1. Grows /\ followUp' = followUp /\ evidence' = evidence /\ reports' = reports /\ answers' = answers
  BY DEF ReadProof, storedVars, Grows
<1>2. ReportsFit' /\ ReportIsBacked'
  BY <1>1, BackedStays DEF ReviewInv
<1>3. CASE ProofHolds(followUp)
  <2>0. PICK w : w = [evaluating[v] EXCEPT !.stage = "ledger", !.proof = followUp]
    OBVIOUS
  <2>1. evaluating[v] \in Running /\ Established(evaluating[v]) /\ evaluating[v].stage = "proof"
    BY DEF ReadProof, ReviewInv, ReviewTyping, AllEstablished, NotEvaluating
  <2>2. followUp \in [state : {"here", "elsewhere"}, says : BOOLEAN]
    BY <1>3 DEF ProofHolds, ReviewInv, ReviewTyping, Tickets, NoFollowUp
  <2>3. followUp # NoFollowUp /\ followUp = [state |-> "here", says |-> TRUE]
    BY <1>3, <2>2 DEF ProofHolds, NoFollowUp
  <2>4. followUp \in BridgedProofs
    BY <2>2 DEF BridgedProofs
  <2>5. w \in Running /\ w.stage = "ledger" /\ w.request = evaluating[v].request /\ w.proof = followUp
    BY <2>0, <2>1, <2>4 DEF Running
  <2>6. Established(w)'
    BY <1>1, <2>1, <2>3, <2>5 DEF Established, Tracked
  <2>7. evaluating' = [evaluating EXCEPT ![v] = w]
    BY <2>0, <1>3, <2>1 DEF ReadProof, ReviewInv, ReviewTyping, Running
  <2>8. evaluating' \in [Reviewers -> {NotEvaluating} \cup Running] /\ AllEstablished'
    BY <1>1, <2>5, <2>6, <2>7, OneGoesOn DEF ReviewInv
  <2>9. QED
    BY <1>1, <1>2, <2>8 DEF ReviewInv, ReviewTyping
<1>4. CASE ~ProofHolds(followUp)
  BY <1>1, <1>2, <1>4, RefuseKeeps DEF ReadProof, ReviewInv, ReviewTyping
<1>5. QED
  BY <1>3, <1>4

(* The ledger: a verdict PASS is on record. *)
LEMMA LedgerKeeps ==
    ASSUME ReviewInv, NEW v \in Reviewers, NEW written \in BOOLEAN, AuditLedger(v, written) PROVE ReviewInv'
<1> DEFINE r == evaluating[v].request
           given == IF written THEN Verdict(r) ELSE "FAIL"
           stage == IF given = "PASS" THEN "report" ELSE "failed"
<1>1. Grows /\ followUp' = followUp /\ evidence' = evidence /\ reports' = reports /\ answers' = answers
  BY DEF AuditLedger, Grows
<1>2. ReportsFit' /\ ReportIsBacked'
  BY <1>1, BackedStays DEF ReviewInv
<1>3. CASE Refuse(v)
  BY <1>1, <1>2, <1>3, RefuseKeeps DEF ReviewInv, ReviewTyping
<1>4. CASE Goes(v, stage)
  <2>0. PICK w : w = [evaluating[v] EXCEPT !.stage = stage]
    OBVIOUS
  <2>1. evaluating[v] \in Running /\ Established(evaluating[v]) /\ evaluating[v].stage = "ledger"
    BY DEF AuditLedger, ReviewInv, ReviewTyping, AllEstablished, NotEvaluating
  <2>2. w \in Running /\ w.stage = stage /\ w.request = r /\ w.proof = evaluating[v].proof
    BY <2>0, <2>1 DEF Running
  <2>3. ASSUME w.stage = "report"
        PROVE  w.request.policy = "PASS" /\ Audited(w.request, w.proof)'
    <3>1. written /\ Verdict(r) = "PASS"
      BY <2>2, <2>3
    <3>2. r.policy = "PASS"
      BY <3>1 DEF Verdict
    <3>3. reviewAudits' = reviewAudits \cup
              {[request |-> r, proof |-> evaluating[v].proof, verdict |-> Verdict(r)]}
      BY <3>1 DEF AuditLedger
    <3>4. QED
      BY <2>2, <3>1, <3>2, <3>3 DEF Audited
  <2>4. Established(w)'
    <3>1. w.request.mode = "normal"
      BY <2>1, <2>2 DEF Established
    <3>2. w.request.policy = "PASS" /\ w.request.drift => Tracked(w.proof)'
      BY <1>1, <2>1, <2>2 DEF Established, Tracked
    <3>3. QED
      BY <2>3, <3>1, <3>2 DEF Established
  <2>5. evaluating' = [evaluating EXCEPT ![v] = w]
    BY <2>0, <1>4 DEF Goes
  <2>6. evaluating' \in [Reviewers -> {NotEvaluating} \cup Running] /\ AllEstablished'
    BY <1>1, <2>2, <2>4, <2>5, OneGoesOn DEF ReviewInv
  <2>7. QED
    BY <1>1, <1>2, <2>6 DEF ReviewInv, ReviewTyping
<1>5. QED
  BY <1>3, <1>4 DEF AuditLedger, Continue

(* What one more answer must be for the answers to stay backed. *)
Backed(r, report) ==
    /\ report = NoProof =>
         r.policy = "FAIL" /\ \E u \in reviewAudits : u.request = r /\ u.verdict = "FAIL"
    /\ report # NoProof /\ r.mode = "normal" =>
         /\ report \in reports /\ report.request = r
         /\ Audited(r, report.proof)
         /\ r.drift => Tracked(report.proof)

LEMMA AnswerIsBacked ==
    ASSUME ReportIsBacked, NEW r, NEW report, Grows, reports \subseteq reports',
           answers' = answers \cup {[request |-> r, report |-> report]}, Backed(r, report)'
    PROVE  ReportIsBacked'
<1>1. ASSUME NEW a \in answers' PROVE Backed(a.request, a.report)'
  <2>1. CASE a \in answers
    <3>1. Backed(a.request, a.report)
      BY <2>1 DEF ReportIsBacked, Backed, Audited, Tracked
    <3>2. QED
      BY <3>1 DEF Grows, Backed, Audited, Tracked
  <2>2. CASE a = [request |-> r, report |-> report]
    BY <2>2
  <2>3. QED
    BY <2>1, <2>2
<1>2. QED
  BY <1>1 DEF ReportIsBacked, Backed, Audited, Tracked

LEMMA FailureKeeps ==
    ASSUME ReviewInv, NEW v \in Reviewers, ReportFailure(v) PROVE ReviewInv'
<1>0. PICK r : r = evaluating[v].request
  OBVIOUS
<1> DEFINE recorded == [request |-> r, proof |-> evaluating[v].proof, verdict |-> "FAIL"]
<1>1. Grows /\ followUp' = followUp /\ evidence' = evidence /\ reports' = reports
      /\ reviewAudits' = reviewAudits /\ Refuse(v)
  BY <1>0 DEF ReportFailure, storedVars, Grows
<1>2. ReportsFit'
  BY <1>0, <1>1 DEF ReviewInv, ReportsFit, ReportFits, Tracked, Audited
<1>3. ReportIsBacked'
  <2>1. CASE answers' = answers
    BY <1>0, <1>1, <2>1, BackedStays DEF ReviewInv
  <2>2. CASE /\ answers' = answers \cup {[request |-> r, report |-> NoProof]}
             /\ r.policy = "FAIL" /\ recorded \in reviewAudits
    <3>1. Backed(r, NoProof)'
      BY <1>0, <1>1, <2>2 DEF Backed
    <3>2. QED
      BY <1>0, <1>1, <2>2, <3>1, AnswerIsBacked DEF ReviewInv
  <2>3. QED
    BY <1>0, <2>1, <2>2 DEF ReportFailure
<1>4. QED
  BY <1>1, <1>2, <1>3, RefuseKeeps DEF ReviewInv, ReviewTyping

LEMMA PersistKeeps ==
    ASSUME ReviewInv, NEW v \in Reviewers, PersistReport(v) PROVE ReviewInv'
<1>0. PICK r : r = evaluating[v].request
  OBVIOUS
<1>a. PICK s : s = ReportOf(evaluating[v])
  OBVIOUS
<1>1. Grows /\ followUp' = followUp /\ evidence' = evidence /\ reviewAudits' = reviewAudits
      /\ reports' = reports \cup {s} /\ Refuse(v)
      /\ answers' = answers \cup {[request |-> r, report |-> s]}
  BY <1>0, <1>a DEF PersistReport, Grows
<1>2. Established(evaluating[v]) /\ evaluating[v].stage = "report"
  BY <1>0, <1>a DEF PersistReport, ReviewInv, AllEstablished
<1>3. s # NoProof /\ s.request = r /\ s.proof = evaluating[v].proof
  BY <1>0, <1>a, ReportIsNotNoProof DEF ReportOf
<1>4. ReportFits(s)'
  BY <1>0, <1>a, <1>1, <1>2, <1>3 DEF ReportFits, Established, Audited, Tracked
<1>5. ReportsFit'
  BY <1>0, <1>a, <1>1, <1>4 DEF ReviewInv, ReportsFit, ReportFits, Audited, Tracked
<1>6. Backed(r, s)'
  BY <1>0, <1>a, <1>1, <1>3, <1>4 DEF Backed, ReportFits, Audited, Tracked
<1>7. ReportIsBacked'
  BY <1>0, <1>a, <1>1, <1>6, AnswerIsBacked DEF ReviewInv
<1>8. QED
  BY <1>1, <1>5, <1>7, RefuseKeeps DEF ReviewInv, ReviewTyping

LEMMA SnapshotKeeps ==
    ASSUME ReviewInv, NEW v \in Reviewers, Snapshot(v) PROVE ReviewInv'
<1>0. PICK r : r = evaluating[v].request
  OBVIOUS
<1>a. PICK s : s = ReportOf(evaluating[v])
  OBVIOUS
<1>1. Grows /\ followUp' = followUp /\ evidence' = evidence /\ reports' = reports
      /\ reviewAudits' = reviewAudits /\ Refuse(v) /\ r.mode = "bounded_snapshot"
  BY <1>0, <1>a DEF Snapshot, storedVars, Grows
<1>2. ReportsFit'
  BY <1>0, <1>a, <1>1 DEF ReviewInv, ReportsFit, ReportFits, Tracked, Audited
<1>3. Backed(r, s)'
  BY <1>0, <1>a, <1>1, ReportIsNotNoProof DEF Backed, ReportOf
<1>4. ReportIsBacked'
  <2>1. CASE answers' = answers
    BY <1>0, <1>a, <1>1, <2>1, BackedStays DEF ReviewInv
  <2>2. CASE answers' = answers \cup {[request |-> r, report |-> s]}
    BY <1>0, <1>a, <1>1, <1>3, <2>2, AnswerIsBacked DEF ReviewInv
  <2>3. QED
    BY <1>0, <1>a, <2>1, <2>2 DEF Snapshot
<1>5. QED
  BY <1>1, <1>2, <1>4, RefuseKeeps DEF ReviewInv, ReviewTyping

LEMMA ReplayKeeps ==
    ASSUME ReviewInv, NEW v \in Reviewers, NEW s \in reports, Replay(v, s) PROVE ReviewInv'
<1>0. PICK r : r = evaluating[v].request
  OBVIOUS
<1>1. Grows /\ followUp' = followUp /\ evidence' = evidence /\ reports' = reports
      /\ reviewAudits' = reviewAudits /\ Refuse(v) /\ s.request = r
      /\ answers' = answers \cup {[request |-> r, report |-> s]}
  BY <1>0 DEF Replay, storedVars, Grows
<1>2. ReportsFit'
  BY <1>0, <1>1 DEF ReviewInv, ReportsFit, ReportFits, Tracked, Audited
<1>3. Backed(r, s)'
  BY <1>0, <1>1 DEF ReviewInv, ReportsFit, ReportFits, Backed, Audited, Tracked
<1>4. ReportIsBacked'
  BY <1>0, <1>1, <1>3, AnswerIsBacked DEF ReviewInv
<1>5. QED
  BY <1>1, <1>2, <1>4, RefuseKeeps DEF ReviewInv, ReviewTyping

LEMMA StopKeeps ==
    ASSUME ReviewInv, NEW v \in Reviewers, StopReviewing(v) PROVE ReviewInv'
<1>1. Grows /\ followUp' = followUp /\ evidence' = evidence /\ reports' = reports /\ answers' = answers
      /\ Refuse(v)
  BY DEF StopReviewing, storedVars, Grows
<1>2. QED
  BY <1>1, BackedStays, RefuseKeeps DEF ReviewInv, ReviewTyping

LEMMA ChangeKeeps == ASSUME ReviewInv, ReviewChange PROVE ReviewInv'
<1>1. /\ evidence' \in [record : {1, 2}, threshold : {1, 2}]
      /\ followUp' \in Tickets
      /\ reports' = reports /\ answers' = answers /\ evaluating' = evaluating
      /\ reviewAudits' = reviewAudits
  BY DEF ReviewChange, ReviewInv, ReviewTyping, Tickets
<1>2. Grows
  BY <1>1 DEF ReviewChange, Grows, NoFollowUp
<1>3. AllEstablished'
  BY <1>1, <1>2 DEF ReviewInv, AllEstablished, Established, Grows, Tracked, Audited
<1>4. QED
  BY <1>1, <1>2, <1>3, BackedStays DEF ReviewInv, ReviewTyping

LEMMA ReviewKept == ReviewInv /\ [ReviewNext]_reviewVars => ReviewInv'
<1> SUFFICES ASSUME ReviewInv, [ReviewNext]_reviewVars PROVE ReviewInv'
  OBVIOUS
<1>1. CASE UNCHANGED reviewVars
  BY <1>1 DEF reviewVars, ReviewInv, ReviewTyping, AllEstablished, Established, ReportsFit, ReportFits,
              ReportIsBacked, Tracked, Audited
<1>2. CASE ReviewNext
  BY <1>2, EvaluateKeeps, AuthenticateKeeps, ContractKeeps, FollowUpKeeps, ProofKeeps, LedgerKeeps,
     FailureKeeps, PersistKeeps, SnapshotKeeps, ReplayKeeps, StopKeeps, ChangeKeeps DEF ReviewNext
<1>3. QED
  BY <1>1, <1>2

(* What reviews leave behind has its type. *)
LeftTyped ==
    /\ reviewAudits \subseteq [request : Requests, proof : BridgedProofs, verdict : {"PASS", "FAIL"}]
    /\ reports \subseteq StoredReports
    /\ answers \subseteq [request : Requests, report : StoredReports \cup {NoProof}]
    /\ reviewChanges \in 0 .. MaxReviewChanges

LEMMA LeftInitially == ReviewInit => LeftTyped
BY ReviewAssumption DEF ReviewInit, LeftTyped

(* A review that has begun has a request and a proof. *)
LEMMA ReviewAtWork ==
    ASSUME ReviewTyping, NEW v \in Reviewers, evaluating[v] # NotEvaluating
    PROVE  /\ evaluating[v].request \in Requests /\ evaluating[v].proof \in BridgedProofs
           /\ ReportOf(evaluating[v]) \in StoredReports
BY DEF ReviewTyping, Running, ReportOf, StoredReports

LEMMA LeftByReview ==
    ASSUME ReviewInv, LeftTyped, NEW v \in Reviewers,
           \/ \E written \in BOOLEAN : AuditLedger(v, written)
           \/ ReportFailure(v) \/ PersistReport(v) \/ Snapshot(v)
           \/ \E s \in reports : Replay(v, s)
    PROVE  LeftTyped'
<1> DEFINE w == evaluating[v]
<1>1. /\ w.request \in Requests /\ w.proof \in BridgedProofs /\ ReportOf(w) \in StoredReports
  <2>1. w.stage # "none"
    BY DEF AuditLedger, ReportFailure, PersistReport, Snapshot, Replay
  <2>2. w # NotEvaluating
    BY <2>1 DEF NotEvaluating
  <2>3. QED
    BY <2>2, ReviewAtWork DEF ReviewInv
<1>2. reviewChanges' = reviewChanges
  BY DEF AuditLedger, ReportFailure, PersistReport, Snapshot, Replay, storedVars
<1>3. (reviewAudits \subseteq [request : Requests, proof : BridgedProofs, verdict : {"PASS", "FAIL"}])'
  <2>1. Verdict(w.request) \in {"PASS", "FAIL"}
    BY DEF Verdict
  <2>2. QED
    BY <1>1, <2>1 DEF LeftTyped, AuditLedger, ReportFailure, PersistReport, Snapshot, Replay, storedVars
<1>4. (reports \subseteq StoredReports)'
  BY <1>1 DEF LeftTyped, AuditLedger, ReportFailure, PersistReport, Snapshot, Replay, storedVars
<1>5. (answers \subseteq [request : Requests, report : StoredReports \cup {NoProof}])'
  BY <1>1 DEF LeftTyped, AuditLedger, ReportFailure, PersistReport, Snapshot, Replay
<1>6. QED
  BY <1>2, <1>3, <1>4, <1>5 DEF LeftTyped

LEMMA LeftKept == ASSUME ReviewInv, LeftTyped, [ReviewNext]_reviewVars PROVE LeftTyped'
<1>1. CASE \E v \in Reviewers :
             \/ \E written \in BOOLEAN : AuditLedger(v, written)
             \/ ReportFailure(v) \/ PersistReport(v) \/ Snapshot(v)
             \/ \E s \in reports : Replay(v, s)
  BY <1>1, LeftByReview
<1>2. CASE ReviewChange
  BY <1>2, ReviewAssumption DEF ReviewChange, LeftTyped
<1>3. CASE UNCHANGED <<reviewAudits, reports, answers, reviewChanges>>
  BY <1>3 DEF LeftTyped
<1>4. QED
  BY <1>1, <1>2, <1>3 DEF ReviewNext, reviewVars, storedVars, EvaluateRequest, Authenticate,
                          CheckContract, EnsureFollowUp, ReadProof, StopReviewing

(* The evidence, the ticket, the reviews at work and what they leave behind have their
   types, for any number of reviews and of requests (strategic-review.ts). *)
THEOREM ReviewTypesHold == ReviewSpec => []ReviewTypeOK
<1>1. ReviewInv /\ LeftTyped => ReviewTypeOK
  BY DEF ReviewInv, ReviewTyping, Tickets, Running, LeftTyped, ReviewTypeOK
<1>2. QED
  BY <1>1, ReviewInitially, ReviewKept, LeftInitially, LeftKept, PTL DEF ReviewSpec

(* A report a caller is given is stored, audited and tracked, whatever other reviews,
   the installation and the ticket do in the meantime (strategic-review.ts). *)
THEOREM ReviewReportIsBacked == ReviewSpec => []ReportIsBacked
<1>1. ReviewInv => ReportIsBacked
  BY DEF ReviewInv
<1>2. QED
  BY <1>1, ReviewInitially, ReviewKept, PTL DEF ReviewSpec

-----------------------------------------------------------------------------
(* Deeds. A call has done what its stage says (CallHolds), and a list of follow-ups
   that was taken up stands, with the items before the next one ensured (ListStands). *)
HookCalls ==
    [hook : {"PostToolUse", "Stop"}, key : EventKeys, payload : DeedPayloads,
     day : 1 .. LastDeedDay, items : ItemLists, next : 1 .. MaxFollowUps + 1,
     at : {"waits", "ensures", "answered", "died"} \cup HookWorks,
     answer : {"none", "ignored", "written", "replayed", "quarantined", "ordinary", "blocked",
               "failed"}]

ListEvent(items) == <<<<"follow_ups", items>>, "list">>

(* A list that was taken up: stored, written as an event, with the first n - 1 of its
   items ensured. *)
ListStands(c, n) ==
    /\ c.items # <<>> /\ followUps = c.items
    /\ ListEvent(c.items) \in events
    /\ \A i \in DOMAIN c.items : i < n => c.items[i] \in ensured

(* How far a call has got, and what it has done so far. *)
CallHolds(c) ==
    /\ c.at # "answered" => c.answer = "none"
    /\ c.at \in {"noted", "written"} => <<c.key, c.payload>> \in events
    /\ c.answer \in {"written", "replayed"} => <<c.key, c.payload>> \in pages[c.day]
    /\ c.key[1] = "tool" => c.items = <<>> /\ c.payload \in ToolPayloads
    /\ c.key[1] = "follow_ups" => c.key = <<"follow_ups", c.items>> /\ c.payload = "list"
    /\ c.key[1] = "follow_ups" /\ c.at # "answered" => c.items # <<>>
    /\ c.key[1] = "follow_ups" /\ c.at \in {"stored", "noted", "written"} => followUps = c.items
    /\ c.key[1] = "follow_ups" /\ c.at \in {"waits"} \cup HookWorks => c.next = 1
    /\ c.at = "stored" => c.key[1] = "follow_ups"
    /\ c.at = "ensures" => c.key[1] = "follow_ups" /\ ListStands(c, c.next)
    /\ c.key[1] = "continuations" => c.payload = "list" /\ ListStands(c, Len(c.items) + 1)
    /\ c.answer = "ordinary" /\ c.items # <<>> =>
          /\ c.key[1] = "continuations"
          /\ {ListEvent(c.items), <<c.key, "list">>} \subseteq pages[c.day]

DeedsInv ==
    /\ DeedsTypeOK
    /\ hooks \in Seq(HookCalls)
    /\ \A d \in 1 .. LastDeedDay : pages[d] \subseteq events
    /\ \A e \in events : e[1][1] # "tool" => e[2] = "list"
    /\ \A h \in DOMAIN hooks : CallHolds(hooks[h])

(* What is written stays written. *)
DeedsGrow ==
    /\ events \subseteq events' /\ ensured \subseteq ensured'
    /\ followUps' = followUps \/ followUps = <<>>
    /\ \A d \in 1 .. LastDeedDay : pages[d] \subseteq pages'[d]

-----------------------------------------------------------------------------
LEMMA ListOfItems ==
    ASSUME NEW s \in ItemLists
    PROVE  /\ s \in Seq(FollowUpItems) /\ Len(s) \in 0 .. MaxFollowUps
           /\ IsFiniteSet(Entered(s)) /\ Cardinality(Entered(s)) = Len(s)
           /\ Entered(s) \subseteq FollowUpItems
<1>1. PICK n \in 0 .. MaxFollowUps : s \in [1 .. n -> FollowUpItems]  BY DEF ItemLists
<1>2. MaxFollowUps \in Nat  BY DeedsAssumption
<1>3. s \in Seq(FollowUpItems) /\ Len(s) = n /\ DOMAIN s = 1 .. n
    BY <1>1, <1>2, LenProperties, SeqDef
<1>4. IsFiniteSet(DOMAIN s)  BY <1>2, <1>3, FS_Interval
<1>5. IsFiniteSet({s[i] : i \in DOMAIN s})
  <2>1. s \in Surjection(DOMAIN s, {s[i] : i \in DOMAIN s})
      BY <1>1, <1>3 DEF Surjection
  <2>2. QED  BY <1>4, <2>1, FS_Surjection
<1>6. Cardinality({s[i] : i \in DOMAIN s}) = Len(s)  BY DEF ItemLists
<1>7. QED  BY <1>1, <1>2, <1>3, <1>5, <1>6 DEF Entered

LEMMA ListEntered ==
    ASSUME NEW s \in Seq(FollowUpItems), Len(s) <= MaxFollowUps,
           Cardinality(Entered(s)) = Len(s)
    PROVE  s \in ItemLists
<1>1. Len(s) \in 0 .. MaxFollowUps /\ s \in [1 .. Len(s) -> FollowUpItems]
    BY DeedsAssumption, LenProperties
<1>2. QED  BY <1>1 DEF ItemLists, Entered

LEMMA NoItems == <<>> \in ItemLists
<1>1. <<>> \in Seq(FollowUpItems) /\ Len(<<>>) = 0 /\ DOMAIN <<>> = {}
    BY EmptySeq
<1>2. Entered(<<>>) = {}  BY <1>1 DEF Entered
<1>3. Cardinality(Entered(<<>>)) = 0  BY <1>2, FS_EmptySet
<1>4. Len(<<>>) <= MaxFollowUps /\ Cardinality(Entered(<<>>)) = Len(<<>>)
    BY <1>1, <1>3, DeedsAssumption
<1>5. <<>> \in Seq(FollowUpItems)  BY <1>1
<1> DEFINE e == <<>>
<1> HIDE DEF e
<1>6. e \in Seq(FollowUpItems) /\ Len(e) <= MaxFollowUps /\ Cardinality(Entered(e)) = Len(e)
    BY <1>4, <1>5 DEF e
<1>7. e \in ItemLists  BY <1>6, ListEntered
<1>8. QED  BY <1>7 DEF e

(* An item is added at the end, once, while there is room. *)
LEMMA AddsOne ==
    ASSUME NEW s \in ItemLists, NEW item \in FollowUpItems \cup {"none"}
    PROVE  Adds(s, item) \in ItemLists
<1>1. /\ s \in Seq(FollowUpItems) /\ Len(s) \in 0 .. MaxFollowUps
      /\ IsFiniteSet(Entered(s)) /\ Cardinality(Entered(s)) = Len(s)
    BY ListOfItems
<1>2. CASE item = "none" \/ item \in Entered(s) \/ Len(s) = MaxFollowUps
    BY <1>2 DEF Adds
<1>3. CASE ~(item = "none" \/ item \in Entered(s) \/ Len(s) = MaxFollowUps)
  <2>1. /\ Append(s, item) \in Seq(FollowUpItems) /\ Len(Append(s, item)) = Len(s) + 1
        /\ \A i \in 1 .. Len(s) : Append(s, item)[i] = s[i]
        /\ Append(s, item)[Len(s) + 1] = item
        /\ DOMAIN Append(s, item) = 1 .. Len(s) + 1 /\ DOMAIN s = 1 .. Len(s)
      BY <1>1, <1>3, AppendProperties, LenProperties
  <2>2. Entered(Append(s, item)) = Entered(s) \cup {item}
    <3>1. ASSUME NEW i \in DOMAIN Append(s, item)
          PROVE  Append(s, item)[i] \in Entered(s) \cup {item}
      <4>1. CASE i = Len(s) + 1  BY <2>1, <4>1
      <4>2. CASE i # Len(s) + 1
        <5>1. i \in 1 .. Len(s)  BY <1>1, <2>1, <3>1, <4>2
        <5>2. QED  BY <2>1, <5>1 DEF Entered
      <4>3. QED  BY <4>1, <4>2
    <3>2. ASSUME NEW i \in DOMAIN s PROVE s[i] \in Entered(Append(s, item))
      <4>1. i \in 1 .. Len(s) /\ i \in DOMAIN Append(s, item)  BY <1>1, <2>1
      <4>2. Append(s, item)[i] = s[i]  BY <2>1, <4>1
      <4>3. QED  BY <4>1, <4>2 DEF Entered
    <3>3. item \in Entered(Append(s, item))
      <4>1. Len(s) + 1 \in DOMAIN Append(s, item)  BY <1>1, <2>1
      <4>2. QED  BY <2>1, <4>1 DEF Entered
    <3>4. QED  BY <3>1, <3>2, <3>3 DEF Entered
  <2>3. Cardinality(Entered(Append(s, item))) = Len(s) + 1
      BY <1>1, <1>3, <2>2, FS_AddElement
  <2>4. Adds(s, item) = Append(s, item)  BY <1>3 DEF Adds
  <2>5. Len(s) + 1 <= MaxFollowUps  BY <1>1, <1>3, DeedsAssumption
  <2>6. QED  BY <2>1, <2>3, <2>4, <2>5, ListEntered
<1>4. QED  BY <1>2, <1>3

LEMMA FollowUpsListed ==
    ASSUME NEW m \in StopMessages
    PROVE  FollowUps(m) \in ItemLists
<1> DEFINE f0 == [open |-> FALSE, found |-> <<>>]
           f1 == ReadsLine(f0, m[1])
           f2 == ReadsLine(f1, m[2])
           f == [n \in 0 .. Len(m) |-> IF n = 0 THEN f0 ELSE IF n = 1 THEN f1 ELSE f2]
           IsReading(r) == r = [n \in 0 .. Len(m) |-> IF n = 0 THEN [open |-> FALSE, found |-> <<>>]
                                                  ELSE ReadsLine(r[n - 1], m[n])]
           read == CHOOSE r : IsReading(r)
<1>1. PICK k \in 0 .. 2 : m \in [1 .. k -> MessageLines]  BY DEF StopMessages
<1>2. m \in Seq(MessageLines) /\ Len(m) = k  BY <1>1, LenProperties, SeqDef
<1>3. IsReading(f)
  <2>1. \A n \in 0 .. k : f[n] = IF n = 0 THEN f0 ELSE ReadsLine(f[n - 1], m[n])
    <3> SUFFICES ASSUME NEW n \in 0 .. k
                 PROVE  f[n] = IF n = 0 THEN f0 ELSE ReadsLine(f[n - 1], m[n])
        OBVIOUS
    <3> HIDE DEF f0, f1, f2
    <3>1. CASE n = 0  BY <1>2, <3>1
    <3>2. CASE n = 1
      <4>1. f[1] = f1 /\ f[0] = f0  BY <1>2, <3>2
      <4>2. QED  BY <3>2, <4>1 DEF f1
    <3>3. CASE n = 2
      <4>1. f[2] = f2 /\ f[1] = f1  BY <1>2, <3>3
      <4>2. QED  BY <3>3, <4>1 DEF f2
    <3>4. QED  BY <3>1, <3>2, <3>3
  <2> HIDE DEF f0, f1, f2
  <2>2. QED  BY <1>2, <2>1 DEF f0
<1> HIDE DEF f
<1>4. IsReading(read)
  <2>1. \E r : IsReading(r)  BY <1>3
  <2> HIDE DEF IsReading
  <2>2. QED  BY <2>1
<1>5. FollowUps(m) = read[Len(m)].found  BY DEF FollowUps
<1>6. ASSUME NEW so, so.found \in ItemLists, NEW n \in 1 .. k
      PROVE  ReadsLine(so, m[n]).found \in ItemLists
  <2>1. m[n] \in MessageLines  BY <1>1
  <2>2. m[n].item \in FollowUpItems \cup {"none"}  BY <2>1 DEF MessageLines
  <2>3. QED  BY <1>6, <2>2, AddsOne DEF ReadsLine
<1> HIDE DEF read
<1>7. \A n \in 0 .. k : read[n] = IF n = 0 THEN f0 ELSE ReadsLine(read[n - 1], m[n])
    BY <1>2, <1>4
<1>8. read[0].found \in ItemLists  BY <1>7, NoItems
<1> HIDE DEF f0, f1, f2, IsReading
<1>9. k >= 1 => read[1].found \in ItemLists
  <2> SUFFICES ASSUME k >= 1 PROVE read[1].found \in ItemLists  OBVIOUS
  <2>1. read[1] = ReadsLine(read[0], m[1])  BY <1>7
  <2>2. QED  BY <1>6, <1>8, <2>1
<1>10. k = 2 => read[2].found \in ItemLists
  <2> SUFFICES ASSUME k = 2 PROVE read[2].found \in ItemLists  OBVIOUS
  <2>1. read[2] = ReadsLine(read[1], m[2])  BY <1>7
  <2>2. QED  BY <1>6, <1>9, <2>1
<1>11. QED  BY <1>2, <1>5, <1>8, <1>9, <1>10

-----------------------------------------------------------------------------
LEMMA DeedsInitially == DeedsInit => DeedsInv
<1> SUFFICES ASSUME DeedsInit PROVE DeedsInv  OBVIOUS
<1> USE DEF DeedsInit
<1>1. hooks \in Seq(HookCalls) /\ Len(hooks) = 0 /\ DOMAIN hooks = {}
    BY EmptySeq
<1>2. followUps \in ItemLists  BY NoItems
<1>3. DeedsTypeOK
    BY <1>1, <1>2, DeedsAssumption DEF DeedsTypeOK
<1>4. QED  BY <1>1, <1>3 DEF DeedsInv

(* The calls in progress, and those that are over. *)
LEMMA HookRecord ==
    ASSUME DeedsInv, NEW h \in DOMAIN hooks
    PROVE  /\ hooks[h] \in HookCalls /\ CallHolds(hooks[h])
           /\ h \in 1 .. Len(hooks) /\ Len(hooks) \in Nat
BY LenProperties DEF DeedsInv

LEMMA CallStays ==
    ASSUME NEW c \in HookCalls, CallHolds(c), DeedsGrow
    PROVE  CallHolds(c)'
<1>1. c.day \in 1 .. LastDeedDay  BY DEF HookCalls
<1>2. pages[c.day] \subseteq pages'[c.day]  BY <1>1 DEF DeedsGrow
<1>3. ASSUME NEW n, ListStands(c, n) PROVE ListStands(c, n)'
    BY <1>3 DEF ListStands, DeedsGrow, ListEvent
<1>4. c.key[1] = "follow_ups" /\ c.at \in {"stored", "noted", "written"} => followUps' = c.items
    BY DEF CallHolds, DeedsGrow
<1>5. /\ c.at \in {"noted", "written"} => <<c.key, c.payload>> \in events'
      /\ c.answer \in {"written", "replayed"} => <<c.key, c.payload>> \in pages'[c.day]
    BY <1>2 DEF CallHolds, DeedsGrow
<1>6. /\ c.at = "ensures" => c.key[1] = "follow_ups" /\ ListStands(c, c.next)'
      /\ c.key[1] = "continuations" => c.payload = "list" /\ ListStands(c, Len(c.items) + 1)'
    BY <1>3 DEF CallHolds
<1>7. c.answer = "ordinary" /\ c.items # <<>> =>
          /\ c.key[1] = "continuations"
          /\ {ListEvent(c.items), <<c.key, "list">>} \subseteq pages'[c.day]
    BY <1>2 DEF CallHolds
<1>8. /\ c.at # "answered" => c.answer = "none"
      /\ c.key[1] = "tool" => c.items = <<>> /\ c.payload \in ToolPayloads
      /\ c.key[1] = "follow_ups" => c.key = <<"follow_ups", c.items>> /\ c.payload = "list"
      /\ c.key[1] = "follow_ups" /\ c.at # "answered" => c.items # <<>>
      /\ c.key[1] = "follow_ups" /\ c.at \in {"waits"} \cup HookWorks => c.next = 1
      /\ c.at = "stored" => c.key[1] = "follow_ups"
    BY DEF CallHolds
<1>9. QED  BY <1>4, <1>5, <1>6, <1>7, <1>8 DEF CallHolds

(* The state's types but for the calls, which follow from their records. *)
DeedFilesOK ==
    /\ events \subseteq EventKeys \X DeedPayloads
    /\ quarantine \subseteq ToolUses \X ToolPayloads
    /\ followUps \in ItemLists
    /\ pages \in [1 .. LastDeedDay -> SUBSET (EventKeys \X DeedPayloads)]
    /\ ensured \subseteq FollowUpItems
    /\ deedDay \in 1 .. LastDeedDay
    /\ deedDeaths \in 0 .. MaxDeedDeaths
    /\ \A d \in 1 .. LastDeedDay : pages[d] \subseteq events
    /\ \A e \in events : e[1][1] # "tool" => e[2] = "list"

LEMMA DeedsTyping ==
    ASSUME DeedsInv
    PROVE  /\ DeedFilesOK /\ hooks \in Seq(HookCalls) /\ Len(hooks) <= MaxDeedCalls
           /\ deedLease \in 0 .. Len(hooks)
BY DEF DeedsInv, DeedsTypeOK, DeedFilesOK

LEMMA DeedsTyped ==
    ASSUME DeedFilesOK', hooks' \in Seq(HookCalls), Len(hooks') <= MaxDeedCalls,
           deedLease' \in 0 .. Len(hooks')
    PROVE  DeedsTypeOK'
<1>1. \A h \in DOMAIN hooks' : hooks'[h] \in HookCalls  BY LenProperties
<1>2. QED  BY <1>1 DEF DeedFilesOK, DeedsTypeOK, HookCalls

(* What a step of one call leaves to show. *)
LEMMA HookStepKeeps ==
    ASSUME DeedsInv, NEW h \in DOMAIN hooks, hooks'[h] \in HookCalls,
           hooks' = [hooks EXCEPT ![h] = hooks'[h]],
           DeedsGrow, DeedFilesOK', deedLease' \in 0 .. Len(hooks), CallHolds(hooks[h])'
    PROVE  DeedsInv'
<1>1. /\ hooks \in Seq(HookCalls) /\ Len(hooks) <= MaxDeedCalls  BY DeedsTyping
<1>2. /\ hooks' \in Seq(HookCalls) /\ Len(hooks') = Len(hooks) /\ DOMAIN hooks' = DOMAIN hooks
    BY <1>1, ExceptSeq, LenProperties
<1>3. DeedsTypeOK'  BY <1>1, <1>2, DeedsTyped
<1>4. ASSUME NEW g \in DOMAIN hooks' PROVE CallHolds(hooks[g])'
  <2>1. CASE g = h  BY <2>1
  <2>2. CASE g # h
    <3>1. g \in DOMAIN hooks /\ hooks'[g] = hooks[g]  BY <1>2, <2>2
    <3>2. hooks[g] \in HookCalls /\ CallHolds(hooks[g])  BY <3>1, HookRecord
    <3>3. PICK c \in HookCalls : c = hooks[g]  BY <3>2
    <3>4. CallHolds(c)'  BY <3>2, <3>3, CallStays
    <3>5. QED  BY <3>1, <3>3, <3>4
  <2>3. QED  BY <2>1, <2>2
<1>5. QED  BY <1>2, <1>3, <1>4 DEF DeedsInv, DeedFilesOK

(* What a step leaves to show that starts no call and moves none. *)
LEMMA FilesStepKeeps ==
    ASSUME DeedsInv, UNCHANGED <<hooks, deedLease>>, DeedsGrow, DeedFilesOK'
    PROVE  DeedsInv'
<1>1. /\ hooks \in Seq(HookCalls) /\ Len(hooks) <= MaxDeedCalls /\ deedLease \in 0 .. Len(hooks)
    BY DeedsTyping
<1>2. DeedsTypeOK'  BY <1>1, DeedsTyped
<1>3. ASSUME NEW g \in DOMAIN hooks PROVE CallHolds(hooks[g])'
  <2>1. hooks[g] \in HookCalls /\ CallHolds(hooks[g])  BY HookRecord
  <2>2. PICK c \in HookCalls : c = hooks[g]  BY <2>1
  <2>3. CallHolds(c)'  BY <2>1, <2>2, CallStays
  <2>4. QED  BY <2>2, <2>3
<1>4. QED  BY <1>1, <1>2, <1>3 DEF DeedsInv, DeedFilesOK

LEMMA NothingWritten ==
    UNCHANGED <<events, followUps, pages, ensured>> => DeedsGrow
BY DEF DeedsGrow

LEMMA HookBeginsKeeps ==
    ASSUME DeedsInv, NEW c \in HookCalls, HookBegins(c), CallHolds(c),
           UNCHANGED <<events, quarantine, followUps, pages, ensured, deedLease, deedDay,
                       deedDeaths>>
    PROVE  DeedsInv'
<1>1. /\ hooks \in Seq(HookCalls) /\ Len(hooks) < MaxDeedCalls /\ Len(hooks) \in Nat
      /\ hooks' = Append(hooks, c) /\ DeedFilesOK /\ deedLease \in 0 .. Len(hooks)
    BY DeedsTyping, LenProperties DEF HookBegins
<1>2. /\ hooks' \in Seq(HookCalls) /\ Len(hooks') = Len(hooks) + 1
      /\ \A g \in 1 .. Len(hooks) : hooks'[g] = hooks[g]
      /\ hooks'[Len(hooks) + 1] = c
      /\ DOMAIN hooks' = 1 .. Len(hooks) + 1 /\ DOMAIN hooks = 1 .. Len(hooks)
    BY <1>1, AppendProperties, LenProperties
<1>3. DeedFilesOK' /\ DeedsGrow
    BY <1>1, NothingWritten DEF DeedFilesOK
<1>4. DeedsTypeOK'
  <2>1. Len(hooks') <= MaxDeedCalls /\ deedLease' \in 0 .. Len(hooks')
      BY <1>1, <1>2, DeedsAssumption
  <2>2. QED  BY <1>2, <1>3, <2>1, DeedsTyped
<1>5. ASSUME NEW g \in DOMAIN hooks' PROVE CallHolds(hooks[g])'
  <2>1. CASE g = Len(hooks) + 1
    <3>1. CallHolds(c)'  BY <1>3, CallStays
    <3>2. QED  BY <1>2, <2>1, <3>1
  <2>2. CASE g # Len(hooks) + 1
    <3>1. g \in DOMAIN hooks /\ hooks'[g] = hooks[g]  BY <1>1, <1>2, <2>2
    <3>2. hooks[g] \in HookCalls /\ CallHolds(hooks[g])  BY <3>1, HookRecord
    <3>3. PICK d \in HookCalls : d = hooks[g]  BY <3>2
    <3>4. CallHolds(d)'  BY <1>3, <3>2, <3>3, CallStays
    <3>5. QED  BY <3>1, <3>3, <3>4
  <2>3. QED  BY <2>1, <2>2
<1>6. QED  BY <1>2, <1>3, <1>4, <1>5 DEF DeedsInv, DeedFilesOK

-----------------------------------------------------------------------------
LEMMA PostToolUseKeeps ==
    ASSUME DeedsInv, PostToolUse
    PROVE  DeedsInv'
<1>1. PICK t \in ToolUses, p \in ToolPayloads, classified \in BOOLEAN :
          HookBegins([hook |-> "PostToolUse", key |-> <<"tool", t>>, payload |-> p,
                  day |-> deedDay, items |-> <<>>, next |-> 1,
                  at |-> IF classified THEN "waits" ELSE "answered",
                  answer |-> IF classified THEN "none" ELSE "ignored"])
    BY DEF PostToolUse
<1> DEFINE at == IF classified THEN "waits" ELSE "answered"
           answer == IF classified THEN "none" ELSE "ignored"
           c == [hook |-> "PostToolUse", key |-> <<"tool", t>>, payload |-> p,
                 day |-> deedDay, items |-> <<>>, next |-> 1, at |-> at, answer |-> answer]
<1>2. /\ at \in {"waits", "answered"} /\ answer \in {"none", "ignored"}
      /\ at # "answered" => answer = "none"
    OBVIOUS
<1>3. <<"tool", t>> \in EventKeys /\ p \in DeedPayloads  BY DEF EventKeys, DeedPayloads
<1>4. deedDay \in 1 .. LastDeedDay /\ 1 \in 1 .. MaxFollowUps + 1
    BY DeedsTyping, DeedsAssumption DEF DeedFilesOK
<1>5. HookBegins(c)  BY <1>1
<1> HIDE DEF at, answer
<1>6. c \in HookCalls  BY <1>2, <1>3, <1>4, NoItems DEF HookCalls
<1>7. CallHolds(c)  BY <1>2 DEF CallHolds
<1> HIDE DEF c
<1>8. QED  BY <1>5, <1>6, <1>7, HookBeginsKeeps DEF PostToolUse

LEMMA StopHookKeeps ==
    ASSUME DeedsInv, StopHook
    PROVE  DeedsInv'
<1>1. PICK message \in StopMessages :
          HookBegins([hook |-> "Stop", key |-> <<"follow_ups", FollowUps(message)>>,
                      payload |-> "list", day |-> deedDay, items |-> FollowUps(message), next |-> 1,
                      at |-> IF FollowUps(message) = <<>> THEN "answered" ELSE "waits",
                      answer |-> IF FollowUps(message) = <<>> THEN "ordinary" ELSE "none"])
    BY DEF StopHook
<1> DEFINE items == FollowUps(message)
           at == IF items = <<>> THEN "answered" ELSE "waits"
           answer == IF items = <<>> THEN "ordinary" ELSE "none"
           c == [hook |-> "Stop", key |-> <<"follow_ups", items>>, payload |-> "list",
                 day |-> deedDay, items |-> items, next |-> 1, at |-> at, answer |-> answer]
<1>2. items \in ItemLists  BY FollowUpsListed
<1>3. HookBegins(c)  BY <1>1
<1> HIDE DEF items
<1>4. /\ at \in {"waits", "answered"} /\ answer \in {"none", "ordinary"}
      /\ at # "answered" => answer = "none" /\ items # <<>>
      /\ answer = "ordinary" => items = <<>>
    OBVIOUS
<1>5. <<"follow_ups", items>> \in EventKeys /\ "list" \in DeedPayloads
    BY <1>2 DEF EventKeys, DeedPayloads
<1>6. deedDay \in 1 .. LastDeedDay /\ 1 \in 1 .. MaxFollowUps + 1
    BY DeedsTyping, DeedsAssumption DEF DeedFilesOK
<1> HIDE DEF at, answer
<1>7. c \in HookCalls  BY <1>2, <1>4, <1>5, <1>6 DEF HookCalls
<1>8. CallHolds(c)  BY <1>4 DEF CallHolds
<1> HIDE DEF c
<1>9. QED  BY <1>3, <1>7, <1>8, HookBeginsKeeps DEF StopHook

-----------------------------------------------------------------------------
(* What a call that goes on keeps, and what it changes. *)
LEMMA HookGoes ==
    ASSUME DeedsInv, NEW h \in DOMAIN hooks,
           NEW at \in {"waits", "ensures", "answered", "died"} \cup HookWorks,
           GoesOn(h, at)
    PROVE  /\ hooks'[h] = [hooks[h] EXCEPT !.at = at] /\ hooks'[h] \in HookCalls
           /\ hooks' = [hooks EXCEPT ![h] = hooks'[h]]
<1>1. hooks[h] \in HookCalls /\ hooks \in Seq(HookCalls)  BY HookRecord, DeedsTyping
<1>2. hooks' = [hooks EXCEPT ![h] = [hooks[h] EXCEPT !.at = at]]  BY DEF GoesOn
<1>3. hooks'[h] = [hooks[h] EXCEPT !.at = at]  BY <1>2
<1>4. [hooks[h] EXCEPT !.at = at] \in HookCalls  BY <1>1 DEF HookCalls
<1>5. QED  BY <1>2, <1>3, <1>4

LEMMA HookSays ==
    ASSUME DeedsInv, NEW h \in DOMAIN hooks,
           NEW answer \in {"none", "ignored", "written", "replayed", "quarantined", "ordinary",
                           "blocked", "failed"},
           Says(h, answer)
    PROVE  /\ hooks'[h] = [hooks[h] EXCEPT !.at = "answered", !.answer = answer]
           /\ hooks'[h] \in HookCalls /\ hooks' = [hooks EXCEPT ![h] = hooks'[h]]
<1>1. hooks[h] \in HookCalls /\ hooks \in Seq(HookCalls)  BY HookRecord, DeedsTyping
<1>2. hooks' = [hooks EXCEPT ![h] = [hooks[h] EXCEPT !.at = "answered", !.answer = answer]]
    BY DEF Says
<1>3. hooks'[h] = [hooks[h] EXCEPT !.at = "answered", !.answer = answer]  BY <1>2
<1>4. [hooks[h] EXCEPT !.at = "answered", !.answer = answer] \in HookCalls
    BY <1>1 DEF HookCalls
<1>5. QED  BY <1>2, <1>3, <1>4

(* The answers and the next state of a call, as a record. *)
LEMMA HookBecomes ==
    ASSUME DeedsInv, NEW h \in DOMAIN hooks, NEW d \in HookCalls, hooks' = [hooks EXCEPT ![h] = d],
           DeedsGrow, DeedFilesOK', deedLease' \in 0 .. Len(hooks), CallHolds(d)'
    PROVE  DeedsInv'
<1>1. hooks \in Seq(HookCalls)  BY DeedsTyping
<1>2. hooks'[h] = d  OBVIOUS
<1>3. QED  BY <1>2, HookStepKeeps

(* A call that is turned away keeps what it has, and answers for nothing. *)
LEMMA TurnedAway ==
    ASSUME DeedsInv, NEW h \in DOMAIN hooks, NEW answer \in {"ignored", "quarantined", "blocked"},
           Says(h, answer), DeedsGrow, DeedFilesOK', deedLease' \in 0 .. Len(hooks)
    PROVE  DeedsInv'
<1>1. /\ hooks'[h] = [hooks[h] EXCEPT !.at = "answered", !.answer = answer]
      /\ hooks'[h] \in HookCalls /\ hooks' = [hooks EXCEPT ![h] = hooks'[h]]
    BY HookSays
<1>2. PICK c \in HookCalls : c = hooks[h] /\ CallHolds(c)  BY HookRecord
<1>3. CallHolds(c)'  BY <1>2, CallStays
<1>4. PICK d \in HookCalls : d = hooks'[h]  BY <1>1
<1>5. /\ d.key = c.key /\ d.payload = c.payload /\ d.items = c.items
      /\ d.at = "answered" /\ d.answer = answer
    BY <1>1, <1>2, <1>4 DEF HookCalls
<1>6. \A n : ListStands(c, n)' => ListStands(d, n)'  BY <1>5 DEF ListStands
<1>7. CallHolds(d)'  BY <1>3, <1>5, <1>6 DEF CallHolds, HookWorks
<1>8. hooks' = [hooks EXCEPT ![h] = d]  BY <1>1, <1>4
<1>9. QED  BY <1>7, <1>8, HookBecomes

(* A call that goes on to where what is asked of it is there. *)
LEMMA HookMovesOn ==
    ASSUME DeedsInv, NEW h \in DOMAIN hooks, NEW c \in HookCalls, c = hooks[h],
           NEW at \in {"ensures", "died"} \cup HookWorks, GoesOn(h, at),
           c.at \in {"waits"} \cup HookWorks \/ (c.at = "ensures" /\ at = "died"),
           DeedsGrow, DeedFilesOK', deedLease' \in 0 .. Len(hooks),
           at \in {"noted", "written"} => <<c.key, c.payload>> \in events',
           at \in {"stored", "noted", "written"} /\ c.key[1] = "follow_ups" => followUps' = c.items,
           at = "stored" => c.key[1] = "follow_ups",
           at = "ensures" => c.key[1] = "follow_ups" /\ ListStands(c, c.next)'
    PROVE  DeedsInv'
<1>1. /\ hooks'[h] = [c EXCEPT !.at = at] /\ hooks'[h] \in HookCalls
      /\ hooks' = [hooks EXCEPT ![h] = hooks'[h]]
    BY HookGoes
<1>2. CallHolds(c)  BY HookRecord
<1>3. CallHolds(c)'  BY <1>2, CallStays
<1>4. PICK d \in HookCalls : d = hooks'[h]  BY <1>1
<1>5. /\ d.key = c.key /\ d.payload = c.payload /\ d.items = c.items /\ d.next = c.next
      /\ d.day = c.day /\ d.at = at /\ d.answer = c.answer
    BY <1>1, <1>4 DEF HookCalls
<1>6. \A n : ListStands(c, n)' => ListStands(d, n)'  BY <1>5 DEF ListStands
<1>7. c.at # "answered" /\ at # "answered" /\ at # "waits"  BY DEF HookWorks
<1>8. CallHolds(d)'  BY <1>3, <1>5, <1>6, <1>7 DEF CallHolds, HookWorks
<1>9. hooks' = [hooks EXCEPT ![h] = d]  BY <1>1, <1>4
<1>10. QED  BY <1>8, <1>9, HookBecomes

-----------------------------------------------------------------------------
LEMMA TakeTurnKeeps ==
    ASSUME DeedsInv, NEW h \in DOMAIN hooks, TakeTurn(h)
    PROVE  DeedsInv'
<1>1. PICK c \in HookCalls : c = hooks[h]  BY HookRecord
<1>2. /\ c.at = "waits" /\ GoesOn(h, "begun") /\ deedLease' = h
      /\ UNCHANGED <<events, quarantine, followUps, pages, ensured, deedDay, deedDeaths>>
    BY <1>1 DEF TakeTurn
<1>3. DeedFilesOK' /\ DeedsGrow  BY <1>2, DeedsTyping, NothingWritten DEF DeedFilesOK
<1>4. deedLease' \in 0 .. Len(hooks)  BY <1>2, HookRecord
<1>5. QED  BY <1>1, <1>2, <1>3, <1>4, HookMovesOn DEF HookWorks

LEMMA HookFailsKeeps ==
    ASSUME DeedsInv, NEW h \in DOMAIN hooks, HookFails(h)
    PROVE  DeedsInv'
<1> DEFINE answer == IF hooks[h].hook = "Stop" THEN "blocked" ELSE "ignored"
<1>1. /\ Says(h, answer) /\ answer \in {"ignored", "blocked"}
      /\ UNCHANGED <<events, quarantine, followUps, pages, ensured, deedLease, deedDay, deedDeaths>>
    BY DEF HookFails
<1> HIDE DEF answer
<1>2. DeedFilesOK' /\ DeedsGrow  BY <1>1, DeedsTyping, NothingWritten DEF DeedFilesOK
<1>3. PICK a \in {"ignored", "quarantined", "blocked"} : a = answer  BY <1>1
<1>4. QED  BY <1>1, <1>2, <1>3, DeedsTyping, TurnedAway

LEMMA HookDiesKeeps ==
    ASSUME DeedsInv, NEW h \in DOMAIN hooks, HookDies(h)
    PROVE  DeedsInv'
<1>1. PICK c \in HookCalls : c = hooks[h]  BY HookRecord
<1>2. /\ c.at \in HookWorks \cup {"ensures"} /\ GoesOn(h, "died")
      /\ deedLease' \in {0, deedLease}
      /\ deedDeaths < MaxDeedDeaths /\ deedDeaths' = deedDeaths + 1
      /\ UNCHANGED <<events, quarantine, followUps, pages, ensured, deedDay>>
    BY <1>1 DEF HookDies
<1>3. DeedFilesOK' /\ DeedsGrow
    BY <1>2, DeedsTyping, NothingWritten, DeedsAssumption DEF DeedFilesOK
<1>4. deedLease' \in 0 .. Len(hooks)  BY <1>2, DeedsTyping, HookRecord
<1>5. QED  BY <1>1, <1>2, <1>3, <1>4, HookMovesOn DEF HookWorks

LEMMA StoreFollowUpsKeeps ==
    ASSUME DeedsInv, NEW h \in DOMAIN hooks, StoreFollowUps(h)
    PROVE  DeedsInv'
<1>1. PICK c \in HookCalls : c = hooks[h]  BY HookRecord
<1>2. /\ c.at = "begun" /\ c.key[1] = "follow_ups"
      /\ UNCHANGED <<events, quarantine, pages, ensured, deedDay, deedDeaths>>
    BY <1>1 DEF StoreFollowUps
<1>3. c.items \in ItemLists  BY DEF HookCalls
<1>4. CASE Accepts(c.items)
  <2>1. /\ followUps' = (IF followUps = <<>> THEN c.items ELSE followUps)
        /\ GoesOn(h, "stored") /\ deedLease' = deedLease
      BY <1>1, <1>4 DEF StoreFollowUps
  <2>2. followUps' = c.items /\ (followUps' = followUps \/ followUps = <<>>)
      BY <1>4, <2>1 DEF Accepts
  <2>3. DeedFilesOK' /\ DeedsGrow
      BY <1>2, <1>3, <2>2, DeedsTyping DEF DeedFilesOK, DeedsGrow
  <2>4. QED  BY <1>1, <1>2, <2>1, <2>2, <2>3, DeedsTyping, HookMovesOn DEF HookWorks
<1>5. CASE ~Accepts(c.items)
  <2>1. Says(h, "blocked") /\ deedLease' = 0 /\ followUps' = followUps
      BY <1>1, <1>5 DEF StoreFollowUps
  <2>2. DeedFilesOK' /\ DeedsGrow
      BY <1>2, <2>1, DeedsTyping, NothingWritten DEF DeedFilesOK
  <2>3. deedLease' \in 0 .. Len(hooks)  BY <2>1, HookRecord
  <2>4. QED  BY <2>1, <2>2, <2>3, TurnedAway
<1>6. QED  BY <1>4, <1>5

LEMMA WriteEventKeeps ==
    ASSUME DeedsInv, NEW h \in DOMAIN hooks, WriteEvent(h)
    PROVE  DeedsInv'
<1>1. PICK c \in HookCalls : c = hooks[h]  BY HookRecord
<1> DEFINE found == {e \in events : e[1] = c.key}
           same == <<c.key, c.payload>> \in found
<1>2. /\ c.at = IF c.key[1] = "follow_ups" THEN "stored" ELSE "begun"
      /\ UNCHANGED <<followUps, pages, ensured, deedDay, deedDeaths>>
    BY <1>1 DEF WriteEvent
<1>3. c.key \in EventKeys /\ c.payload \in DeedPayloads  BY DEF HookCalls
<1>4. CallHolds(c)  BY <1>1, HookRecord
<1>5. CASE found # {} /\ ~same
  <2>1. /\ quarantine' = quarantine \cup {<<c.key[2], c.payload>>}
        /\ Says(h, "quarantined") /\ deedLease' = 0 /\ events' = events
      BY <1>1, <1>5 DEF WriteEvent
  <2>2. <<c.key[2], c.payload>> \in ToolUses \X ToolPayloads
    <3>1. PICK e \in events : e[1] = c.key /\ e # <<c.key, c.payload>>  BY <1>5
    <3>2. e = <<c.key, e[2]>> /\ e[2] \in DeedPayloads
        BY <3>1, DeedsTyping DEF DeedFilesOK
    <3>3. c.key[1] = "tool"
      <4> SUFFICES ASSUME c.key[1] # "tool" PROVE FALSE  OBVIOUS
      <4>1. e[2] = "list"  BY <3>1, DeedsTyping DEF DeedFilesOK
      <4>2. c.payload = "list"  BY <1>3, <1>4 DEF CallHolds, EventKeys
      <4>3. QED  BY <3>1, <3>2, <4>1, <4>2
    <3>4. c.key[2] \in ToolUses  BY <1>3, <3>3 DEF EventKeys
    <3>5. QED  BY <1>4, <3>3, <3>4 DEF CallHolds
  <2>3. DeedFilesOK' /\ DeedsGrow
      BY <1>2, <2>1, <2>2, DeedsTyping, NothingWritten DEF DeedFilesOK
  <2>4. deedLease' \in 0 .. Len(hooks)  BY <2>1, HookRecord
  <2>5. QED  BY <2>1, <2>3, <2>4, TurnedAway
<1>6. CASE ~(found # {} /\ ~same)
  <2> DEFINE at == IF same THEN "noted" ELSE "written"
  <2>1. /\ events' = events \cup {<<c.key, c.payload>>} /\ GoesOn(h, at)
        /\ quarantine' = quarantine /\ deedLease' = deedLease
      BY <1>1, <1>6 DEF WriteEvent
  <2>2. at \in {"noted", "written"}  OBVIOUS
  <2> HIDE DEF at
  <2>8. c.key[1] # "tool" => c.payload = "list"  BY <1>3, <1>4 DEF CallHolds, EventKeys
  <2>3. DeedFilesOK' /\ DeedsGrow
      BY <1>2, <1>3, <2>1, <2>8, DeedsTyping DEF DeedFilesOK, DeedsGrow
  <2>4. c.key[1] = "follow_ups" => followUps' = c.items
      BY <1>2, <1>4 DEF CallHolds
  <2>5. c.at \in {"stored", "begun"}  BY <1>2
  <2>6. PICK a \in {"noted", "written"} : a = at  BY <2>2
  <2>7. QED
      BY <1>1, <2>1, <2>3, <2>4, <2>5, <2>6, DeedsTyping, HookMovesOn DEF HookWorks
<1>7. QED  BY <1>5, <1>6

LEMMA RebuildPointerKeeps ==
    ASSUME DeedsInv, NEW h \in DOMAIN hooks, RebuildPointer(h)
    PROVE  DeedsInv'
<1>1. PICK c \in HookCalls : c = hooks[h] /\ CallHolds(c)  BY HookRecord
<1>2. /\ c.at \in {"noted", "written"} /\ pages' = [pages EXCEPT ![c.day] = events]
      /\ deedLease' = 0
      /\ UNCHANGED <<events, quarantine, followUps, ensured, deedDay, deedDeaths>>
    BY <1>1 DEF RebuildPointer, Rebuilt
<1>3. /\ c.day \in 1 .. LastDeedDay /\ c.key \in EventKeys /\ c.payload \in DeedPayloads
    BY DEF HookCalls
<1>4. pages \in [1 .. LastDeedDay -> SUBSET (EventKeys \X DeedPayloads)]
    BY DeedsTyping DEF DeedFilesOK
<1>5. DeedFilesOK' /\ DeedsGrow /\ pages'[c.day] = events
    BY <1>2, <1>3, <1>4, DeedsTyping DEF DeedFilesOK, DeedsGrow
<1>6. deedLease' \in 0 .. Len(hooks)  BY <1>2, HookRecord
<1>7. <<c.key, c.payload>> \in events  BY <1>1, <1>2 DEF CallHolds
<1>8. CallHolds(c)'  BY <1>1, <1>5, CallStays
<1>9. c.key[1] \in {"tool", "follow_ups", "continuations"}  BY <1>3 DEF EventKeys
<1>10. CASE c.key[1] = "tool"
  <2> DEFINE a == IF c.at = "noted" THEN "replayed" ELSE "written"
             d == [c EXCEPT !.at = "answered", !.answer = a]
  <2>1. Says(h, a)  BY <1>1, <1>10 DEF RebuildPointer
  <2>2. a \in {"replayed", "written"}  OBVIOUS
  <2> HIDE DEF a
  <2>3. hooks' = [hooks EXCEPT ![h] = d]  BY <1>1, <2>1 DEF Says
  <2>4. d \in HookCalls  BY <2>2 DEF HookCalls
  <2>5. /\ d.key = c.key /\ d.payload = c.payload /\ d.items = c.items /\ d.day = c.day
        /\ d.at = "answered" /\ d.answer = a
      BY DEF HookCalls
  <2> HIDE DEF d
  <2>6. CallHolds(d)'  BY <1>5, <1>7, <1>8, <1>10, <2>2, <2>5 DEF CallHolds
  <2>7. QED  BY <1>5, <1>6, <2>3, <2>4, <2>6, HookBecomes
<1>11. CASE c.key[1] = "follow_ups"
  <2>1. GoesOn(h, "ensures")  BY <1>1, <1>11 DEF RebuildPointer
  <2>2. /\ c.key = <<"follow_ups", c.items>> /\ c.payload = "list" /\ c.items # <<>>
        /\ followUps = c.items /\ c.next = 1
      BY <1>1, <1>2, <1>11 DEF CallHolds, HookWorks
  <2>3. DOMAIN c.items \subseteq Nat \ {0}
    <3>1. c.items \in Seq(FollowUpItems)  BY ListOfItems DEF HookCalls
    <3>2. QED  BY <3>1, LenProperties
  <2>4. ListStands(c, c.next)'
    <3>1. ListEvent(c.items) \in events  BY <1>7, <2>2 DEF ListEvent
    <3>2. QED  BY <1>2, <2>2, <2>3, <3>1 DEF ListStands, ListEvent
  <2>5. QED  BY <1>1, <1>2, <1>5, <1>6, <1>11, <2>1, <2>4, HookMovesOn DEF HookWorks
<1>12. CASE c.key[1] = "continuations"
  <2> DEFINE d == [c EXCEPT !.at = "answered", !.answer = "ordinary"]
  <2>1. Says(h, "ordinary")  BY <1>1, <1>12 DEF RebuildPointer
  <2>2. hooks' = [hooks EXCEPT ![h] = d]  BY <1>1, <2>1 DEF Says
  <2>3. d \in HookCalls  BY DEF HookCalls
  <2>4. /\ d.key = c.key /\ d.payload = c.payload /\ d.items = c.items /\ d.day = c.day
        /\ d.at = "answered" /\ d.answer = "ordinary"
      BY DEF HookCalls
  <2> HIDE DEF d
  <2>5. c.payload = "list" /\ ListEvent(c.items) \in events
      BY <1>1, <1>12 DEF CallHolds, ListStands
  <2>6. ListStands(c, Len(c.items) + 1)' => ListStands(d, Len(d.items) + 1)'
      BY <2>4 DEF ListStands
  <2>7. {ListEvent(d.items), <<d.key, "list">>} \subseteq pages'[d.day]
      BY <1>5, <1>7, <2>4, <2>5
  <2>8. CallHolds(d)'  BY <1>8, <1>12, <2>4, <2>6, <2>7 DEF CallHolds
  <2>9. QED  BY <1>5, <1>6, <2>2, <2>3, <2>8, HookBecomes
<1>13. QED  BY <1>9, <1>10, <1>11, <1>12

LEMMA EnsureNextKeeps ==
    ASSUME DeedsInv, NEW h \in DOMAIN hooks, EnsureNext(h)
    PROVE  DeedsInv'
<1>1. PICK c \in HookCalls : c = hooks[h] /\ CallHolds(c)  BY HookRecord
<1>2. /\ c.at = "ensures" /\ c.next <= Len(c.items)
      /\ UNCHANGED <<events, quarantine, followUps, pages, deedLease, deedDay, deedDeaths>>
    BY <1>1 DEF EnsureNext
<1>3. /\ c.items \in Seq(FollowUpItems) /\ Len(c.items) \in 0 .. MaxFollowUps
      /\ c.next \in 1 .. MaxFollowUps + 1 /\ MaxFollowUps \in Nat
    BY ListOfItems, DeedsAssumption DEF HookCalls
<1>4. CASE /\ ensured' = ensured \cup {c.items[c.next]}
           /\ hooks' = [hooks EXCEPT ![h].next = @ + 1]
  <2> DEFINE d == [c EXCEPT !.next = c.next + 1]
  <2>1. hooks' = [hooks EXCEPT ![h] = d]  BY <1>1, <1>4
  <2>2. c.items[c.next] \in FollowUpItems  BY <1>2, <1>3, ElementOfSeq
  <2>3. DeedFilesOK' /\ DeedsGrow
      BY <1>2, <1>4, <2>2, DeedsTyping DEF DeedFilesOK, DeedsGrow
  <2>4. c.next + 1 \in 1 .. MaxFollowUps + 1  BY <1>2, <1>3
  <2>5. d \in HookCalls  BY <2>4 DEF HookCalls
  <2>6. /\ d.key = c.key /\ d.payload = c.payload /\ d.items = c.items /\ d.day = c.day
        /\ d.at = "ensures" /\ d.answer = c.answer /\ d.next = c.next + 1
      BY <1>2 DEF HookCalls
  <2> HIDE DEF d
  <2>7. CallHolds(c)'  BY <1>1, <2>3, CallStays
  <2>8. ListStands(c, c.next)' /\ c.key[1] = "follow_ups"  BY <1>2, <2>7 DEF CallHolds
  <2>9. ListStands(d, d.next)'
    <3>1. ASSUME NEW i \in DOMAIN c.items, i < c.next + 1 PROVE c.items[i] \in ensured'
      <4>1. CASE i = c.next  BY <1>4, <4>1
      <4>2. CASE i < c.next  BY <2>8, <4>2 DEF ListStands
      <4>3. i \in Nat  BY <1>3, LenProperties
      <4>4. QED  BY <1>3, <3>1, <4>1, <4>2, <4>3
    <3>2. QED  BY <2>6, <2>8, <3>1 DEF ListStands
  <2>10. CallHolds(d)'
      BY <1>2, <2>6, <2>7, <2>8, <2>9 DEF CallHolds, HookWorks
  <2>11. deedLease' \in 0 .. Len(hooks)  BY <1>2, DeedsTyping
  <2>12. QED  BY <2>1, <2>3, <2>5, <2>10, <2>11, HookBecomes
<1>5. CASE Says(h, "blocked") /\ UNCHANGED ensured
  <2>1. DeedFilesOK' /\ DeedsGrow
      BY <1>2, <1>5, DeedsTyping, NothingWritten DEF DeedFilesOK
  <2>2. QED  BY <1>2, <1>5, <2>1, DeedsTyping, TurnedAway
<1>6. QED  BY <1>1, <1>4, <1>5 DEF EnsureNext

LEMMA RecordVerifiedKeeps ==
    ASSUME DeedsInv, NEW h \in DOMAIN hooks, RecordVerified(h)
    PROVE  DeedsInv'
<1>1. PICK c \in HookCalls : c = hooks[h] /\ CallHolds(c)  BY HookRecord
<1>2. /\ c.at = "ensures" /\ c.next > Len(c.items)
      /\ hooks' = [hooks EXCEPT ![h] = [c EXCEPT !.key = <<"continuations", Entered(c.items)>>,
                                                 !.day = deedDay, !.at = "waits"]]
      /\ UNCHANGED <<events, quarantine, followUps, pages, ensured, deedLease, deedDay, deedDeaths>>
    BY <1>1 DEF RecordVerified
<1>3. /\ c.items \in Seq(FollowUpItems) /\ Len(c.items) \in Nat
      /\ Entered(c.items) \subseteq FollowUpItems /\ c.next \in Nat
    BY ListOfItems, DeedsAssumption DEF HookCalls
<1>4. PICK key \in EventKeys : key = <<"continuations", Entered(c.items)>>
    BY <1>3 DEF EventKeys
<1>5. PICK day \in 1 .. LastDeedDay : day = deedDay  BY DeedsTyping DEF DeedFilesOK
<1>6. PICK d \in HookCalls : d = [c EXCEPT !.key = key, !.day = day, !.at = "waits"]
    BY <1>4, <1>5 DEF HookCalls
<1>7. /\ d.key = key /\ d.payload = c.payload /\ d.items = c.items
      /\ d.at = "waits" /\ d.answer = c.answer
    BY <1>6 DEF HookCalls
<1>8. DeedFilesOK' /\ DeedsGrow  BY <1>2, DeedsTyping, NothingWritten DEF DeedFilesOK
<1>9. CallHolds(c)'  BY <1>1, <1>8, CallStays
<1>10. /\ c.answer = "none" /\ c.key[1] = "follow_ups" /\ c.payload = "list"
       /\ ListStands(c, c.next)'
    BY <1>1, <1>2, <1>9 DEF CallHolds
<1>11. ListStands(d, Len(d.items) + 1)'
  <2>1. \A i \in DOMAIN c.items : i < c.next  BY <1>2, <1>3, LenProperties
  <2>2. QED  BY <1>7, <1>10, <2>1 DEF ListStands
<1>12. key[1] = "continuations"  BY <1>4
<1>13. CallHolds(d)'  BY <1>7, <1>10, <1>11, <1>12 DEF CallHolds, HookWorks
<1>14. deedLease' \in 0 .. Len(hooks)  BY <1>2, DeedsTyping
<1>15. hooks' = [hooks EXCEPT ![h] = d]  BY <1>2, <1>4, <1>5, <1>6
<1>16. QED  BY <1>8, <1>13, <1>14, <1>15, HookBecomes

LEMMA MidnightKeeps ==
    ASSUME DeedsInv, Midnight
    PROVE  DeedsInv'
<1>1. DeedFilesOK'
    BY DeedsTyping, DeedsAssumption DEF Midnight, DeedFilesOK
<1>2. QED  BY <1>1, NothingWritten, FilesStepKeeps DEF Midnight

LEMMA DeedsStep ==
    ASSUME DeedsInv, [DeedsNext]_deedVars
    PROVE  DeedsInv'
<1>1. CASE PostToolUse  BY <1>1, PostToolUseKeeps
<1>2. CASE StopHook  BY <1>2, StopHookKeeps
<1>3. ASSUME NEW h \in DOMAIN hooks,
             \/ TakeTurn(h) \/ HookFails(h) \/ StoreFollowUps(h) \/ WriteEvent(h)
             \/ RebuildPointer(h) \/ EnsureNext(h) \/ RecordVerified(h) \/ HookDies(h)
      PROVE  DeedsInv'
    BY <1>3, TakeTurnKeeps, HookFailsKeeps, StoreFollowUpsKeeps, WriteEventKeeps,
       RebuildPointerKeeps, EnsureNextKeeps, RecordVerifiedKeeps, HookDiesKeeps
<1>4. CASE Midnight  BY <1>4, MidnightKeeps
<1>5. CASE UNCHANGED deedVars
  <2>1. UNCHANGED <<events, quarantine, followUps, pages, ensured, deedLease, hooks, deedDay,
                    deedDeaths>>
      BY <1>5 DEF deedVars
  <2>2. DeedFilesOK'  BY <2>1, DeedsTyping DEF DeedFilesOK
  <2>3. QED  BY <2>1, <2>2, NothingWritten, FilesStepKeeps
<1>6. QED  BY <1>1, <1>2, <1>3, <1>4, <1>5 DEF DeedsNext

LEMMA DeedsAlways == DeedsSpec => []DeedsInv
BY DeedsInitially, DeedsStep, PTL DEF DeedsSpec

(* Whatever hooks run, fail, die or are repeated, and whenever the day changes, a deed
   that was answered is in the page of its day, and a Stop that let a session go with
   follow-ups stored the list, had each of them ensured and shows them in the page
   (autonomy/deeds.ts, hooks/stop.ts); and the state has its type. *)
THEOREM DeedsCorrect == DeedsSpec => [](DeedsTypeOK /\ DeedsAreAccountedFor)
<1>1. DeedsInv => DeedsTypeOK  BY DEF DeedsInv
<1>2. DeedsInv => DeedsAreAccountedFor
  <2> SUFFICES ASSUME DeedsInv, NEW h \in DOMAIN hooks, NEW c, c = hooks[h]
               PROVE  /\ c.answer \in {"written", "replayed"} => <<c.key, c.payload>> \in pages[c.day]
                      /\ c.answer = "ordinary" /\ c.items # <<>> =>
                            /\ followUps = c.items
                            /\ Entered(c.items) \subseteq ensured
                            /\ {<<<<"follow_ups", c.items>>, "list">>, <<c.key, "list">>}
                                  \subseteq pages[c.day]
      BY DEF DeedsAreAccountedFor
  <2>1. CallHolds(c) /\ c \in HookCalls  BY HookRecord
  <2>2. c.answer \in {"written", "replayed"} => <<c.key, c.payload>> \in pages[c.day]
      BY <2>1 DEF CallHolds
  <2>3. ASSUME c.answer = "ordinary", c.items # <<>>
        PROVE  /\ followUps = c.items /\ Entered(c.items) \subseteq ensured
               /\ {ListEvent(c.items), <<c.key, "list">>} \subseteq pages[c.day]
    <3>1. ListStands(c, Len(c.items) + 1)  BY <2>1, <2>3 DEF CallHolds
    <3>2. Len(c.items) \in Nat /\ DOMAIN c.items = 1 .. Len(c.items)
      <4>1. c.items \in Seq(FollowUpItems)  BY <2>1, ListOfItems DEF HookCalls
      <4>2. QED  BY <4>1, LenProperties
    <3>3. \A i \in DOMAIN c.items : c.items[i] \in ensured
        BY <3>1, <3>2 DEF ListStands
    <3>4. QED  BY <2>1, <2>3, <3>1, <3>3 DEF ListStands, Entered, CallHolds
  <2>4. QED  BY <2>2, <2>3 DEF ListEvent
<1>3. QED  BY <1>1, <1>2, DeedsAlways, PTL

-----------------------------------------------------------------------------
(* All components together. A behaviour of StoresSpec is one of each component: the
   surroundings it begins in are some of those the component may begin in, and a step
   of another component leaves its variables alone. *)
LEMMA StoresAreWatchdog == StoresSpec => WatchdogSpec
<1>1. StoresInit => WatchdogInit  BY DEF StoresInit
<1>2. [StoresNext]_storesVars => [WatchdogNext]_watchdogVars  BY DEF StoresNext, Only, storesVars
<1>3. QED  BY <1>1, <1>2, PTL DEF StoresSpec, WatchdogSpec

LEMMA StoresAreHk == StoresSpec => HkSpec
<1>1. StoresInit => HkInit  BY DEF StoresInit
<1>2. [StoresNext]_storesVars => [HkNext]_hkVars  BY DEF StoresNext, Only, storesVars
<1>3. QED  BY <1>1, <1>2, PTL DEF StoresSpec, HkSpec

LEMMA StoresAreShadow == StoresSpec => ShadowSpec
<1>1. StoresInit => ShadowInit  BY DEF StoresInit
<1>2. [StoresNext]_storesVars => [ShadowNext]_shadowVars  BY DEF StoresNext, Only, storesVars
<1>3. QED  BY <1>1, <1>2, PTL DEF StoresSpec, ShadowSpec

LEMMA StoresArePolicy == StoresSpec => PolicySpec
<1>1. StoresInit => PolicyInit  BY DEF StoresInit
<1>2. [StoresNext]_storesVars => [PolicyNext]_policyVars  BY DEF StoresNext, Only, storesVars
<1>3. QED  BY <1>1, <1>2, PTL DEF StoresSpec, PolicySpec

LEMMA StoresAreFinalizer == StoresSpec => FinalizerSpec
<1>1. StoresInit => FinalizerInit  BY DEF StoresInit
<1>2. [StoresNext]_storesVars => [FinalizerNext]_finalizerVars  BY DEF StoresNext, Only, storesVars
<1>3. QED  BY <1>1, <1>2, PTL DEF StoresSpec, FinalizerSpec

LEMMA StoresAreRollback == StoresSpec => RollbackSpec
<1>1. StoresInit => RollbackInit  BY DEF StoresInit
<1>2. [StoresNext]_storesVars => [RollbackNext]_rollbackVars  BY DEF StoresNext, Only, storesVars
<1>3. QED  BY <1>1, <1>2, PTL DEF StoresSpec, RollbackSpec

LEMMA StoresArePromotion == StoresSpec => PromotionSpec
<1>1. StoresInit => PromotionInit  BY DEF StoresInit
<1>2. [StoresNext]_storesVars => [PromotionNext]_promotionVars  BY DEF StoresNext, Only, storesVars
<1>3. QED  BY <1>1, <1>2, PTL DEF StoresSpec, PromotionSpec

LEMMA StoresArePinned == StoresSpec => PinnedSpec
<1>1. StoresInit => PinnedInit  BY DEF StoresInit
<1>2. [StoresNext]_storesVars => [PinnedNext]_pinnedVars  BY DEF StoresNext, Only, storesVars
<1>3. QED  BY <1>1, <1>2, PTL DEF StoresSpec, PinnedSpec

LEMMA StoresArePm == StoresSpec => PmSpec
<1>1. StoresInit => PmInit  BY DEF StoresInit
<1>2. [StoresNext]_storesVars => [PmNext]_pmVars  BY DEF StoresNext, Only, storesVars
<1>3. QED  BY <1>1, <1>2, PTL DEF StoresSpec, PmSpec

LEMMA StoresAreOrigin == StoresSpec => OriginSpec
<1>1. StoresInit => OriginInit  BY DEF StoresInit
<1>2. [StoresNext]_storesVars => [OriginNext]_originVars  BY DEF StoresNext, Only, storesVars
<1>3. QED  BY <1>1, <1>2, PTL DEF StoresSpec, OriginSpec

LEMMA StoresAreReview == StoresSpec => ReviewSpec
<1>1. StoresInit => ReviewInit  BY DEF StoresInit
<1>2. [StoresNext]_storesVars => [ReviewNext]_reviewVars  BY DEF StoresNext, Only, storesVars
<1>3. QED  BY <1>1, <1>2, PTL DEF StoresSpec, ReviewSpec

LEMMA StoresAreDeeds == StoresSpec => DeedsSpec
<1>1. StoresInit => DeedsInit  BY DEF StoresInit
<1>2. [StoresNext]_storesVars => [DeedsNext]_deedVars  BY DEF StoresNext, Only, storesVars
<1>3. QED  BY <1>1, <1>2, PTL DEF StoresSpec, DeedsSpec

LEMMA StoresAreGitHub == StoresSpec => GitHubSpec
<1>1. StoresInit => GitHubInit  BY DEF StoresInit
<1>2. [StoresNext]_storesVars => [GitHubNext]_githubVars  BY DEF StoresNext, Only, storesVars
<1>3. QED  BY <1>1, <1>2, PTL DEF StoresSpec, GitHubSpec

LEMMA StoresAreMultica == StoresSpec => MulticaSpec
<1>1. StoresInit => MulticaInit  BY DEF StoresInit
<1>2. [StoresNext]_storesVars => [MulticaNext]_multicaVars  BY DEF StoresNext, Only, storesVars
<1>3. QED  BY <1>1, <1>2, PTL DEF StoresSpec, MulticaSpec

LEMMA StoresAreMigration == StoresSpec => MigrationSpec
<1>1. StoresInit => MigrationInit  BY DEF StoresInit
<1>2. [StoresNext]_storesVars => [MigrationNext]_migrationVars  BY DEF StoresNext, Only, storesVars
<1>3. QED  BY <1>1, <1>2, PTL DEF StoresSpec, MigrationSpec

(* The state of every component has its type in the run of all of them, as long as
   migrations do not overlap (the components' own theorems). *)
THEOREM StoresTyped ==
    ASSUME ~MigrationsOverlap PROVE StoresSpec => []StoresTypeOK
<1>1. StoresSpec => [](WatchdogTypeOK /\ HkTypeOK /\ ShadowTypeOK /\ RollbackTypeOK /\ PromotionTypeOK)
  BY StoresAreWatchdog, WatchdogTyped, StoresAreHk, HkTyped, StoresAreShadow, ShadowTyped,
     StoresAreRollback, RollbackTypesHold, StoresArePromotion, PromotionTyped, PTL
<1>2. StoresSpec => [](FinalizerTypeOK /\ PinnedTypeOK /\ PmTypeOK /\ OriginTypeOK /\ ReviewTypeOK)
  BY StoresAreFinalizer, FinalizerCorrect, StoresArePinned, PinnedTyped, StoresArePm, PmTyped,
     StoresAreOrigin, OriginTypesHold, StoresAreReview, ReviewTypesHold, PTL
<1>3. StoresSpec => [](DeedsTypeOK /\ GitHubTypeOK /\ MulticaTypeOK /\ MigrationTypeOK)
  BY StoresAreDeeds, DeedsCorrect, StoresAreGitHub, GitHubCorrect, StoresAreMultica,
     MulticaCorrect, StoresAreMigration, MigrationTyped, PTL
<1>4. /\ WatchdogTypeOK /\ HkTypeOK /\ ShadowTypeOK /\ RollbackTypeOK /\ PromotionTypeOK
      /\ FinalizerTypeOK /\ PinnedTypeOK /\ PmTypeOK /\ OriginTypeOK /\ ReviewTypeOK
      /\ DeedsTypeOK /\ GitHubTypeOK /\ MulticaTypeOK /\ MigrationTypeOK
      => StoresTypeOK
  BY DEF StoresTypeOK
<1>5. QED
  BY <1>1, <1>2, <1>3, <1>4, PTL

(* Both remote backends keep their word to their callers: what was answered is so
   unless somebody else changed the issue since, and an action has one issue
   (tickets/provider.ts in front of tickets/github.ts and tickets/multica.ts). *)
THEOREM BackendsKeepTheirPromises == StoresSpec => []BackendsKeepTheirWord
<1>1. GitHubKeepsItsWord /\ MulticaKeepsItsWord => BackendsKeepTheirWord
  BY DEF BackendsKeepTheirWord
<1>2. QED
  BY <1>1, StoresAreGitHub, GitHubCorrect, StoresAreMultica, MulticaCorrect, PTL
=============================================================================
