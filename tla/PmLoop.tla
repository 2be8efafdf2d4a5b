-------------------------------- MODULE PmLoop -------------------------------
(***************************************************************************)
(* The PM loop of a goal: prepare selects a ticket and announces it, a      *)
(* worker hands its run off, an independent reviewer reviews it, and status *)
(* reduces what is stored to the verdict of the phase gate.  Every command  *)
(* resumes from its receipts, so a command that dies between two writes is   *)
(* a command that stops taking steps; only a review remembers what it read   *)
(* before it took its lease.  The leases are per invocation, per prepare     *)
(* receipt and per claim: nothing serializes two invocations.  The tracker,  *)
(* the worker's files and the trust in actors change at any time.            *)
(***************************************************************************)
EXTENDS Integers, FiniteSets, FiniteSetsExt

CONSTANTS PmInvocations,   \* the invocations of the producer slot
          PmTickets,       \* tickets of the goal, numbered from the best candidate to the worst
          PmActors,        \* who can sign as a worker or as a reviewer
          PmRuns,          \* the runs of workers that are handed off
          PmReports,       \* the reviews that are asked for
          ProofsAreStamped, \* whether the tracker's answers carry the time of reading
          MaxBoardChanges  \* changes made from outside

VARIABLES
    board,        \* the tickets: whether they are fit to be selected, and their status
    comments,     \* the comments the loop added to tickets
    corrections,  \* the corrections filed, for each ticket a number
    prepares,     \* the prepare receipts
    claims,       \* the worker claim bound to each prepare receipt
    handoffs,     \* the handoff receipts
    output,       \* the artifacts in the run directory of each invocation
    reviews,      \* the review receipts
    reviewing,    \* what a running review remembers
    pmGaps,       \* the invocations whose missing natural evidence is on record
    schedule,     \* the records the scheduler signed
    withdrawn,    \* actors whose records no longer authenticate
    boardChanges

pmVars == <<board, comments, corrections, prepares, claims, handoffs, output, reviews,
            reviewing, pmGaps, schedule, withdrawn, boardChanges>>
remoteVars == <<board, comments, corrections>>
receiptVars == <<prepares, claims, handoffs, reviews, pmGaps>>
outsideVars == <<output, schedule, withdrawn, boardChanges>>

Fits == {"fit", "unfit", "unsafe"}
Statuses == {"open", "closed"}
RunOutcomes == {"completed", "incomplete"}
NoTicket == 0

NoPrepare == [state |-> "none"]
NoClaim == [outcome |-> "none"]
NoReview == [state |-> "none"]
NotReviewing == [stage |-> "none"]
Payloads == [worker : PmActors, outcome : RunOutcomes, content : {1, 2}]

(* A review: a finding and, for one of high severity, what is to be done about it.
   A finding of low severity is followed up in another ticket. *)
Reports == [reviewer : PmActors, verdict : {"PASS", "PARTIAL", "FAIL", "BLOCKED"},
            finding : {"none", "high", "low"}, disposition : {"none", "correction", "blocker"},
            phase4 : {"PASS", "FAIL"}]
ReviewReceipts == [state : {"pending_disposition", "reviewed"}, report : Reports, proof : Statuses,
                   planned : Statuses, disposed : Statuses]

ASSUME PmAssumption ==
    /\ PmTickets \subseteq Nat \ {NoTicket}
    /\ PmRuns \subseteq Payloads
    /\ PmReports \subseteq Reports
    /\ ProofsAreStamped \in BOOLEAN
    /\ MaxBoardChanges \in Nat

PmTypeOK ==
    /\ board \in [PmTickets -> [fit : Fits, status : Statuses]]
    /\ comments \subseteq [ticket : PmTickets, kind : {"prepare", "finding", "blocker"},
                           of : PmInvocations, about : Statuses]
    /\ corrections \in [PmTickets -> Nat]
    /\ prepares \in [PmInvocations -> {NoPrepare} \cup
          [state : {"prepared", "claimed", "no_selection", "blocked"}, selected : PmTickets \cup {NoTicket}]]
    /\ claims \in [PmInvocations -> {NoClaim} \cup Payloads]
    /\ handoffs \in [PmInvocations -> SUBSET Payloads]
    /\ output \in [PmInvocations -> {1, 2}]
    /\ reviews \in [PmInvocations -> {NoReview} \cup ReviewReceipts]
    /\ reviewing \in [PmInvocations -> {NotReviewing} \cup
          [stage : {"planned", "stored", "absent", "found"}, report : Reports, proof : Statuses,
           planned : Statuses]]
    /\ pmGaps \subseteq PmInvocations
    /\ schedule \subseteq [of : PmInvocations, review : ReviewReceipts, natural : BOOLEAN]
    /\ withdrawn \subseteq PmActors
    /\ boardChanges \in 0 .. MaxBoardChanges

PmInit ==
    /\ board \in [PmTickets -> [fit : Fits, status : {"open"}]]
    /\ comments = {}
    /\ corrections = [t \in PmTickets |-> 0]
    /\ prepares = [i \in PmInvocations |-> NoPrepare]
    /\ claims = [i \in PmInvocations |-> NoClaim]
    /\ handoffs = [i \in PmInvocations |-> {}]
    /\ output = [i \in PmInvocations |-> 1]
    /\ reviews = [i \in PmInvocations |-> NoReview]
    /\ reviewing = [i \in PmInvocations |-> NotReviewing]
    /\ pmGaps = {}
    /\ schedule = {}
    /\ withdrawn = {}
    /\ boardChanges = 0

Trusted(a) == a \notin withdrawn
Comment(t, k, i, about) == [ticket |-> t, kind |-> k, of |-> i, about |-> about]
Announcement(i) == Comment(prepares[i].selected, "prepare", i, "open")

-----------------------------------------------------------------------------
(* preparePm *)

Eligible == {t \in PmTickets : board[t].fit = "fit"}

(* decide: the best of the eligible tickets. *)
Decision ==
    IF Eligible # {} THEN [state |-> "prepared", selected |-> Min(Eligible)]
    ELSE [state |-> IF \E t \in PmTickets : board[t].fit = "unsafe" THEN "blocked" ELSE "no_selection",
          selected |-> NoTicket]

(* The decision on the candidates as they are listed is stored once and for all. *)
Prepare(i) ==
    /\ prepares[i] = NoPrepare
    /\ prepares' = [prepares EXCEPT ![i] = Decision]
    /\ UNCHANGED <<remoteVars, claims, handoffs, reviews, pmGaps, reviewing, outsideVars>>

(* annotate: the comment is added unless it is there. *)
Announce(i) ==
    /\ prepares[i].state = "prepared"
    /\ comments' = comments \cup {Announcement(i)}
    /\ UNCHANGED <<board, corrections, receiptVars, reviewing, outsideVars>>

Claim(i) ==
    /\ prepares[i].state = "prepared"
    /\ Announcement(i) \in comments
    /\ prepares' = [prepares EXCEPT ![i].state = "claimed"]
    /\ UNCHANGED <<remoteVars, claims, handoffs, reviews, pmGaps, reviewing, outsideVars>>

-----------------------------------------------------------------------------
(* handoffPm: p is what the worker's origin signed; its manifest must be what lies
   in the run directory. *)
HandingOff(i, p) ==
    /\ prepares[i].state = "claimed"
    /\ Trusted(p.worker)
    /\ p.content = output[i]

(* Mutant: a claim bound to another worker, or to another run, is taken over. *)
BugMayBind(i, p) == handoffs[i] = {} \/ p \notin handoffs[i]

(* bindWorkerClaim: the first worker to bind its claim keeps it. *)
MayBind(i, p) == claims[i] \in {NoClaim, p}

BindWorkerClaim(i, p) ==
    /\ HandingOff(i, p)
    /\ MayBind(i, p)
    /\ claims' = [claims EXCEPT ![i] = p]
    /\ UNCHANGED <<remoteVars, prepares, handoffs, reviews, pmGaps, reviewing, outsideVars>>

(* The manifest is staged and the receipt written. *)
WriteHandoff(i, p) ==
    /\ HandingOff(i, p)
    /\ claims[i] = p
    /\ handoffs' = [handoffs EXCEPT ![i] = @ \cup {p}]
    /\ UNCHANGED <<remoteVars, prepares, claims, reviews, pmGaps, reviewing, outsideVars>>

-----------------------------------------------------------------------------
(* reviewPm *)
Chained(i) == prepares[i].state = "claimed" /\ claims[i] # NoClaim /\ claims[i] \in handoffs[i]

(* The worker's files and record still authenticate the handoff. *)
WorkerHolds(i) == Chained(i) /\ output[i] = claims[i].content /\ Trusted(claims[i].worker)

FollowUp(i) == Min(PmTickets \ {prepares[i].selected})
TicketOf(i) == prepares[i].selected

Independent(i, r) == r.reviewer # claims[i].worker /\ Trusted(r.reviewer)

VerdictEarned(i, r) ==
    r.verdict = "PASS" =>
        claims[i].outcome = "completed" /\ r.phase4 = "PASS" /\ r.finding # "high"

(* The rules on findings: a high one has one disposition, unless the continuation
   failed and its own correction is reused; an incomplete run has a high finding. *)
Consistent(i, r) ==
    /\ claims[i].outcome = "incomplete" => r.finding = "high"
    /\ r.disposition # "none" <=> (r.finding = "high" /\ r.phase4 = "PASS")
    /\ VerdictEarned(i, r)

(* The reviewer signs the ticket's proof as the review will read it, the time of
   reading included; a stored review is compared with the proof it has. *)
SignatureHolds(i) == reviews[i] = NoReview => ~ProofsAreStamped

(* Everything up to the lease: the review is checked against the receipts and the
   ticket, and what it is going to do is planned; a follow-up must be found. *)
PlanReview(i, r) ==
    /\ reviewing[i] = NotReviewing
    /\ WorkerHolds(i) /\ Independent(i, r) /\ Consistent(i, r)
    /\ Announcement(i) \in comments
    /\ SignatureHolds(i)
    /\ r.finding = "low" => PmTickets # {TicketOf(i)}
    /\ LET status == board[TicketOf(i)].status IN
       /\ reviews[i] # NoReview => reviews[i].proof = status
       /\ reviewing' = [reviewing EXCEPT ![i] =
            [stage |-> "planned", report |-> r, proof |-> status,
             planned |-> IF r.finding = "low" THEN board[FollowUp(i)].status ELSE "open"]]
    /\ UNCHANGED <<remoteVars, receiptVars, outsideVars>>

(* Under the lease: another request is a conflict, an unchanged one continues. *)
StoreReview(i) ==
    /\ reviewing[i].stage = "planned"
    /\ LET w == reviewing[i] IN
       /\ reviews[i] # NoReview => reviews[i].report = w.report /\ reviews[i].proof = w.proof
       /\ reviews' = [reviews EXCEPT ![i] =
            IF @ = NoReview
            THEN [state |-> "pending_disposition", report |-> w.report, proof |-> w.proof,
                  planned |-> w.planned, disposed |-> w.planned]
            ELSE @]
    /\ reviewing' = [reviewing EXCEPT ![i].stage = "stored"]
    /\ UNCHANGED <<remoteVars, prepares, claims, handoffs, pmGaps, outsideVars>>

(* ensureCorrection: two corrections of one key are refused, one is reused. *)
FindCorrection(i) ==
    /\ reviewing[i].stage = "stored" /\ reviewing[i].report.disposition = "correction"
    /\ corrections[TicketOf(i)] \in {0, 1}
    /\ reviewing' = [reviewing EXCEPT ![i].stage =
                       IF corrections[TicketOf(i)] = 0 THEN "absent" ELSE "found"]
    /\ UNCHANGED <<remoteVars, receiptVars, outsideVars>>

FileCorrection(i) ==
    /\ reviewing[i].stage = "absent"
    /\ corrections' = [corrections EXCEPT ![TicketOf(i)] = @ + 1]
    /\ reviewing' = [reviewing EXCEPT ![i].stage = "stored"]
    /\ UNCHANGED <<board, comments, receiptVars, outsideVars>>

(* The comments of a blocker and of a finding; the ticket of a follow-up is read again. *)
Dispose(i) ==
    /\ reviewing[i].stage \in {"stored", "found"}
    /\ LET r == reviewing[i].report
           t == TicketOf(i)
           status == IF r.finding = "low" THEN board[FollowUp(i)].status ELSE "open"
           added == (IF r.disposition = "blocker" THEN {Comment(t, "blocker", i, "open")} ELSE {})
                      \cup (IF r.finding = "low" THEN {Comment(t, "finding", i, status)} ELSE {})
           final == [reviews[i] EXCEPT !.state = "reviewed", !.disposed = status,
                                       !.planned = reviewing[i].planned]
       IN  /\ reviewing[i].stage = IF r.disposition = "correction" THEN "found" ELSE "stored"
           /\ comments' = comments \cup added
           /\ reviews' = [reviews EXCEPT ![i] = IF @.state = "reviewed" THEN @ ELSE final]
    /\ reviewing' = [reviewing EXCEPT ![i] = NotReviewing]
    /\ UNCHANGED <<board, corrections, prepares, claims, handoffs, pmGaps, outsideVars>>

(* A review that dies, or is refused, leaves what it wrote. *)
StopReview(i) ==
    /\ reviewing[i] # NotReviewing
    /\ reviewing' = [reviewing EXCEPT ![i] = NotReviewing]
    /\ UNCHANGED <<remoteVars, receiptVars, outsideVars>>

-----------------------------------------------------------------------------
(* statusPm *)

(* The references of the review are read back as they were planned. *)
References(i) ==
    LET r == reviews[i].report  t == TicketOf(i) IN
    /\ r.disposition = "correction" => corrections[t] = 1
    /\ r.disposition = "blocker" => Comment(t, "blocker", i, "open") \in comments
    /\ r.finding = "low" =>
         /\ reviews[i].planned = reviews[i].disposed
         /\ reviews[i].disposed = board[FollowUp(i)].status
         /\ Comment(t, "finding", i, reviews[i].planned) \in comments

Authenticated(i) ==
    /\ WorkerHolds(i)
    /\ reviews[i] # NoReview /\ Independent(i, reviews[i].report)
    /\ reviews[i].proof = board[TicketOf(i)].status
    /\ reviews[i].state = "reviewed"
    /\ References(i)

(* A scheduler record is bound to the exact text of the receipt. *)
Binds(i, s) == s.of = i /\ s.review = reviews[i]

(* reducePhase5Gate, with the scheduler record s. *)
Gate(i, s) ==
    LET r == reviews[i].report IN
    IF ~Authenticated(i) \/ ~Binds(i, s) THEN "refused"
    ELSE IF r.disposition = "blocker" THEN "BLOCKED"
    ELSE IF r.verdict # "PASS" THEN r.verdict
    ELSE IF s.natural THEN "PASS" ELSE "PARTIAL"

(* recordPmGap, asked for by a status that finds no natural evidence. *)
RecordGap(i) ==
    /\ Authenticated(i)
    /\ reviews[i].report.disposition # "blocker" /\ reviews[i].report.verdict # "BLOCKED"
    /\ pmGaps' = pmGaps \cup {i}
    /\ UNCHANGED <<remoteVars, prepares, claims, handoffs, reviews, reviewing, outsideVars>>

-----------------------------------------------------------------------------
(* From outside: a record is signed for a stored review, by the scheduler at its
   hour or by hand. *)
SignSchedule(i, natural) ==
    /\ reviews[i] # NoReview
    /\ schedule' = schedule \cup {[of |-> i, review |-> reviews[i], natural |-> natural]}
    /\ boardChanges < MaxBoardChanges /\ boardChanges' = boardChanges + 1
    /\ UNCHANGED <<remoteVars, receiptVars, reviewing, output, withdrawn>>

Changes ==
    /\ boardChanges < MaxBoardChanges /\ boardChanges' = boardChanges + 1
    /\ \/ \E t \in PmTickets, f \in Fits, s \in Statuses :
             board' = [board EXCEPT ![t] = [fit |-> f, status |-> s]] /\ UNCHANGED <<output, withdrawn>>
       \/ \E i \in PmInvocations :
             output' = [output EXCEPT ![i] = 2] /\ UNCHANGED <<board, withdrawn>>
       \/ \E a \in PmActors : withdrawn' = withdrawn \cup {a} /\ UNCHANGED <<board, output>>
    /\ UNCHANGED <<comments, corrections, receiptVars, reviewing, schedule>>

PmNext ==
    \/ \E i \in PmInvocations :
         \/ Prepare(i) \/ Announce(i) \/ Claim(i)
         \/ \E p \in PmRuns : BindWorkerClaim(i, p) \/ WriteHandoff(i, p)
         \/ \E r \in PmReports : PlanReview(i, r)
         \/ StoreReview(i) \/ FindCorrection(i) \/ FileCorrection(i) \/ Dispose(i) \/ StopReview(i)
         \/ RecordGap(i)
         \/ \E n \in BOOLEAN : SignSchedule(i, n)
    \/ Changes

PmSpec == PmInit /\ [][PmNext]_pmVars

-----------------------------------------------------------------------------
(* One claim is worked on by one worker: all that was handed off for a prepare
   receipt is what its bound worker signed, and a review is about exactly that. *)
OneWorker ==
    \A i \in PmInvocations :
        /\ handoffs[i] \subseteq {claims[i]}
        /\ handoffs[i] # {} => Announcement(i) \in comments
        /\ reviews[i] # NoReview => handoffs[i] # {} /\ reviews[i].report.reviewer # claims[i].worker

(* The gate passes only on a completed run that somebody else reviewed with no high
   finding, for which nothing had to be corrected, and for which the scheduler
   signed the review as it was finished. *)
GateIsEarned ==
    \A s \in schedule : \A i \in PmInvocations :
        Gate(i, s) = "PASS" =>
            /\ s.natural /\ s.review.state = "reviewed"
            /\ \E p \in handoffs[i] : p.outcome = "completed" /\ p.content = output[i]
            /\ reviews[i].report.finding # "high" /\ reviews[i].report.phase4 = "PASS"

(* What the receipts of the loop promise: both. *)
PmReceiptsHold == OneWorker /\ GateIsEarned

=============================================================================
