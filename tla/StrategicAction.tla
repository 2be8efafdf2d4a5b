-------------------------- MODULE StrategicAction --------------------------
(***************************************************************************)
(* apply of autonomy/strategic-action.ts: one authenticated action on the  *)
(* loop's state or on a remote ticket, with a durable intent before it, a   *)
(* live readback after it, and a content-addressed receipt at the end.      *)
(*                                                                         *)
(* Processes apply and replay requests, each under the lease of its action  *)
(* identity; actions on the same loop or ticket have different leases and   *)
(* interleave.  Changes of the loop go through the adapter (InstalledLoop). *)
(* Tickets live on a tracker, which its users also change.  A process can   *)
(* die anywhere; a remote read can fail; a remote change can be refused, or *)
(* happen while its answer is lost.  These draw on the budget MaxFaults.    *)
(*                                                                         *)
(* Reports are authenticated before anything here happens and are left out. *)
(***************************************************************************)
EXTENDS InstalledLoop, FiniteSets

CONSTANTS Selectors,   \* the requests' selectors, by action: which sets of actions to look at
          NoAction,    \* the action identity of an ordinary ticket
          NoIntent,
          NoReceipt,
          NoJob,
          MaxFaults

Operations == {"pause", "priority", "comment", "create", "rollback"}

ASSUME StrategicAssumption ==
    /\ Selectors \subseteq
           [Actions -> [operation : Operations, target : Actions \cup {NoAction}]]
    /\ \A s \in Selectors, a \in Actions :
           s[a].operation = "rollback" =>
               s[a].target \in Actions /\ s[s[a].target].operation \in {"pause", "priority"}
    /\ NoAction \notin Actions
    /\ MaxFaults \in Nat

VARIABLES
    selector,   \* what each action identity asks for; fixed
    intents,    \* strategic-actions/intents/<action>.json
    receipts,   \* strategic-actions/receipts/*.json
    ticket,     \* the remote ticket that comments and priorities go to
    issues,     \* the remote tickets that carry the finding's root cause
    pc, job,    \* where each process is, and its local variables
    faults      \* faults left

remote == <<ticket, issues>>
stored == <<intents, receipts>>
actionVars == <<selector, stored, remote, pc, job, faults>>
vars == <<loopVars, actionVars>>

Labels == {"idle", "lease", "replay", "recover", "check", "pend", "attempt", "mutate",
           "called", "readback", "partial", "blocked", "mint", "store", "finish"}

(* A priority is as it was ("asIs") or the one an action asks for.  Of the
   comments the model keeps how many each action made; users' own comments and
   retitlings only count. *)
Tickets == [priority : {"asIs", "asked"}, comments : [Actions -> Nat], edits : Nat,
            status : {"asIs", "moved"}]

(* An issue is known by the action identity in its marker and a number. *)
Issues == (Actions \cup {NoAction}) \X Nat

Searches == [found : SUBSET Issues]

States == LoopStates \cup Tickets \cup Searches

(* at tells apart receipts that differ only in the time they were finalized. *)
Receipts == [action : Actions, status : {"APPLIED", "ROLLED_BACK"},
             before : States, after : States, at : Nat]

Intents == [state : {"pending", "partial", "blocked", "finalized"},
            attempted : BOOLEAN,
            before : States,                          \* authenticated_before
            target : Receipts \cup {NoReceipt},       \* the selector's target receipt
            receipt : Receipts \cup {NoReceipt}]

Jobs == [action : Actions,
         expected : States,                           \* expected_before
         target : Receipts \cup {NoReceipt},
         intent : Intents \cup {NoIntent},
         after : States]                              \* what the readback saw

ASSUME ActionAbsentAssumption ==
    NoReceipt \notin Receipts /\ NoIntent \notin Intents /\ NoJob \notin Jobs

FreshTicket == [priority |-> "asIs", comments |-> [a \in Actions |-> 0], edits |-> 0,
                status |-> "asIs"]

Init ==
    /\ LoopInit
    /\ selector \in Selectors
    /\ intents = [a \in Actions |-> NoIntent]
    /\ receipts = {}
    /\ ticket = FreshTicket
    /\ issues = {}
    /\ pc = [p \in Procs |-> "idle"]
    /\ job = [p \in Procs |-> NoJob]
    /\ faults = MaxFaults

Goto(p, label) == pc' = [pc EXCEPT ![p] = label]

(* The protected operation returns and the action's lease is released. *)
End(p) ==
    /\ Goto(p, "idle")
    /\ job' = [job EXCEPT ![p] = NoJob]

Fault == faults > 0 /\ faults' = faults - 1

-----------------------------------------------------------------------------
(* What an action is about. *)

Operation(a) == selector[a].operation

(* A rollback is about what its target is about. *)
Subject(a) == IF Operation(a) = "rollback" THEN Operation(selector[a].target) ELSE Operation(a)

OnLoop(a) == Subject(a) = "pause"

(* search: ownerless tickets of the root cause that carry this identity or none. *)
Search(a) == [found |-> {i \in issues : i[1] \in {a, NoAction}}]

Own(a) == [found |-> {i \in issues : i[1] = a}]

NothingFound == [found |-> {}]

(* The live read of an action's subject. *)
Live(a) == CASE Subject(a) = "pause" -> live
             [] Subject(a) = "create" -> Search(a)
             [] OTHER -> ticket

SubjectStates(a) == CASE Subject(a) = "pause" -> LoopStates
                      [] Subject(a) = "create" -> Searches
                      [] OTHER -> Tickets

TypeOK ==
    /\ LoopTypeOK
    /\ selector \in Selectors
    /\ intents \in [Actions -> Intents \cup {NoIntent}]
    /\ receipts \subseteq Receipts
    /\ ticket \in Tickets
    /\ issues \subseteq Issues
    /\ pc \in [Procs -> Labels]
    /\ job \in [Procs -> Jobs \cup {NoJob}]
    /\ \A p \in Procs : pc[p] # "idle" => job[p] # NoJob
    /\ \A p \in Procs : /\ job[p] # NoJob => {job[p].expected, job[p].after} \subseteq
                                                 SubjectStates(job[p].action)
                        /\ pc[p] # "called" => loopPc[p] = "none"
    /\ faults \in 0 .. MaxFaults

(* Whether the subject's state after the action is what the action asked for,
   given the state before it.  A pause compares the flag alone, and changes of a
   ticket's status go unnoticed unless it is rolled back. *)
Achieved(j, after) ==
    CASE Operation(j.action) = "pause" -> after.paused
      [] Operation(j.action) = "priority" ->
             after = [j.expected EXCEPT !.priority = "asked", !.status = after.status]
      [] Operation(j.action) = "comment" ->
             after = [j.expected EXCEPT !.comments[j.action] = 1, !.status = after.status]
      [] Operation(j.action) = "create" -> Cardinality(after.found) = 1
      [] Operation(j.action) = "rollback" -> after = j.target.before

Receipt(j, after) ==
    [action |-> j.action,
     status |-> IF Operation(j.action) = "rollback" THEN "ROLLED_BACK" ELSE "APPLIED",
     before |-> j.intent.before,
     after |-> after,
     at |-> Cardinality({r \in receipts : r.action = j.action})]

(* Same request: the digest covers selector and expected state. *)
SameRequest(j, intent) == intent.before = j.expected /\ intent.target = j.target

-----------------------------------------------------------------------------
(* A request.  Its author read the subject live, or repeats the request that the
   intent of this identity was made for.  A rollback names a receipt. *)
Apply(p, a) ==
    /\ pc[p] = "idle"
    /\ \E e \in {Live(a)} \cup (IF intents[a] = NoIntent THEN {} ELSE {intents[a].before}),
          t \in IF Operation(a) = "rollback"
                THEN {r \in receipts : r.action = selector[a].target}
                ELSE {NoReceipt} :
          job' = [job EXCEPT ![p] = [action |-> a, expected |-> e, target |-> t,
                                     intent |-> NoIntent, after |-> e]]
    /\ Goto(p, "lease")
    /\ UNCHANGED <<loopVars, selector, stored, remote, faults>>

Holds(p) == pc[p] \notin {"idle", "lease"}

Enter(p) ==
    /\ pc[p] = "lease"
    /\ \A q \in Procs : Holds(q) => job[q].action # job[p].action
    /\ Goto(p, "replay")
    /\ UNCHANGED <<loopVars, selector, stored, remote, job, faults>>

(* Mutant: an intent with a receipt is taken up like any other. *)
BugReplay(p) ==
    /\ pc[p] = "replay"
    /\ LET j == job[p]
           existing == intents[j.action]
       IN  IF existing # NoIntent /\ ~SameRequest(j, existing)
           THEN End(p)
           ELSE /\ job' = [job EXCEPT ![p].intent = existing]
                /\ Goto(p, "recover")
    /\ UNCHANGED <<loopVars, selector, stored, remote, faults>>

(* finalizedReplay: an intent with a receipt is the answer. *)
Replay(p) ==
    /\ pc[p] = "replay"
    /\ LET j == job[p]
           existing == intents[j.action]
       IN  \/ /\ existing = NoIntent
              /\ Goto(p, "recover")
              /\ UNCHANGED job
           \/ /\ existing # NoIntent
              /\ ~SameRequest(j, existing)
              /\ End(p)                        \* ACTION_REPLAY_CONFLICT
           \/ /\ existing # NoIntent
              /\ SameRequest(j, existing)
              /\ job' = [job EXCEPT ![p].intent = existing]
              /\ Goto(p, IF existing.receipt = NoReceipt THEN "recover" ELSE "store")
    /\ UNCHANGED <<loopVars, selector, stored, remote, faults>>

(* Mutant: the request's expected state is not compared with the target's. *)
BugTargetValid(j) == Operation(j.action) = "rollback" => j.target.status = "APPLIED"

(* A rollback's target must have left the state that the request expects. *)
TargetValid(j) == Operation(j.action) = "rollback" =>
    j.target.status = "APPLIED" /\ j.target.after = j.expected

(* recoverPending: a live read tells whether an earlier attempt took effect.
   Ticket searches are made for every intent, the rest for attempted ones. *)
Recover(p) ==
    /\ pc[p] = "recover"
    /\ LET j == job[p]
           a == j.action
           live0 == Live(a)
           tried == /\ j.intent # NoIntent
                    /\ j.intent.attempted \/ Operation(a) = "create"
       IN  \/ /\ ~tried
              /\ Goto(p, "check")
              /\ UNCHANGED <<job, faults>>
           \/ /\ tried
              /\ ~TargetValid(j)
              /\ End(p)                        \* ROLLBACK_TARGET_INVALID
              /\ UNCHANGED faults
           \/ /\ tried /\ TargetValid(j)
              /\ Achieved(j, live0)
              /\ job' = [job EXCEPT ![p].after = live0]
              /\ Goto(p, "mint")
              /\ UNCHANGED faults
           \/ /\ tried /\ TargetValid(j)
              /\ ~Achieved(j, live0)
              /\ live0 = IF Operation(a) = "create" THEN NothingFound ELSE j.intent.before
              /\ Goto(p, "check")
              /\ UNCHANGED <<job, faults>>
           \/ /\ tried /\ TargetValid(j)
              /\ ~Achieved(j, live0)
              /\ live0 # IF Operation(a) = "create" THEN NothingFound ELSE j.intent.before
              /\ Goto(p, "blocked")
              /\ UNCHANGED <<job, faults>>
           \/ /\ tried /\ TargetValid(j)
              /\ Fault                         \* the live read fails
              /\ Goto(p, "partial")
              /\ UNCHANGED job
    /\ UNCHANGED <<loopVars, selector, stored, remote>>

(* applyTicketOwner, applyTicketMutation, applyLoopPause and applyRollback begin
   with a live read that must be what the request expects. *)
Check(p) ==
    /\ pc[p] = "check"
    /\ LET j == job[p]
           a == j.action
           fresh == /\ Live(a) = j.expected
                    /\ TargetValid(j)
                    /\ Operation(a) = "pause" => ~live.paused
                    /\ Operation(a) = "create" => Cardinality(Search(a).found) <= 1
       IN  \/ /\ fresh
              /\ Goto(p, "pend")
              /\ UNCHANGED job
           \/ /\ ~fresh
              /\ End(p)                        \* ACTION_EXPECTED_STATE_STALE and the like
    /\ UNCHANGED <<loopVars, selector, stored, remote, faults>>

WriteIntent(p, intent) ==
    /\ intents' = [intents EXCEPT ![job[p].action] = intent]
    /\ job' = [job EXCEPT ![p].intent = intent]

(* pendingIntent.  An ordinary or own ticket that the search found is taken as it
   is, without an attempt. *)
Pend(p) ==
    /\ pc[p] = "pend"
    /\ LET j == job[p]
           a == j.action
       IN  /\ \/ /\ intents[a] = NoIntent
                 /\ WriteIntent(p, [state |-> "pending", attempted |-> FALSE,
                                    before |-> j.expected, target |-> j.target,
                                    receipt |-> NoReceipt])
              \/ /\ intents[a] # NoIntent
                 /\ UNCHANGED <<intents, job>>
           /\ Goto(p, IF Operation(a) = "create" /\ j.expected # NothingFound THEN "mint" ELSE "attempt")
    /\ UNCHANGED <<loopVars, selector, receipts, remote, faults>>

(* Mutant: the attempt is not marked in the intent. *)
BugAttempt(p) ==
    /\ pc[p] = "attempt"
    /\ LET a == job[p].action
           t == job[p].target
       IN  \/ /\ OnLoop(a)
              /\ Goto(p, "called")
              /\ IF t = NoReceipt THEN Call(p, a, TRUE, NoTarget)
                                  ELSE Call(p, a, t.before.paused, t.before)
           \/ /\ ~OnLoop(a)
              /\ Goto(p, "mutate")
              /\ UNCHANGED loopVars
    /\ UNCHANGED <<selector, stored, remote, job, faults>>

(* markMutationAttempted; the loop's adapter is called next. *)
Attempt(p) ==
    /\ pc[p] = "attempt"
    /\ WriteIntent(p, [job[p].intent EXCEPT !.attempted = TRUE])
    /\ LET a == job[p].action
       IN  \/ /\ OnLoop(a)
              /\ Goto(p, "called")
              /\ LET t == job[p].target
                 IN  IF t = NoReceipt THEN Call(p, a, TRUE, NoTarget)
                                      ELSE Call(p, a, t.before.paused, t.before)
           \/ /\ ~OnLoop(a)
              /\ Goto(p, "mutate")
              /\ UNCHANGED loopVars
    /\ UNCHANGED <<selector, receipts, remote, faults>>

(* The tracker's own checks: a comment or ticket that carries the identity is
   not made again, a priority that is already there is left. *)
Effect(j) ==
    LET a == j.action
    IN  CASE Operation(a) = "comment" ->
               /\ ticket' = IF ticket.comments[a] > 0 THEN ticket
                            ELSE [ticket EXCEPT !.comments[a] = 1]
               /\ UNCHANGED issues
          [] Operation(a) = "priority" ->
               /\ ticket' = [ticket EXCEPT !.priority = "asked"]
               /\ UNCHANGED issues
          [] Operation(a) = "rollback" ->
               /\ ticket' = [ticket EXCEPT !.priority = j.target.before.priority]
               /\ UNCHANGED issues
          [] Operation(a) = "create" ->
               /\ issues' = IF Own(a) # NothingFound THEN issues ELSE issues \cup {<<a, 0>>}
               /\ UNCHANGED ticket

Mutate(p) ==
    /\ pc[p] = "mutate"
    /\ \/ /\ Effect(job[p])
          /\ Goto(p, "readback")
          /\ UNCHANGED faults
       \/ /\ Effect(job[p])                    \* the answer is lost
          /\ Fault
          /\ Goto(p, "partial")
       \/ /\ UNCHANGED remote                  \* the change is refused
          /\ Fault
          /\ Goto(p, "partial")
    /\ UNCHANGED <<loopVars, selector, stored, job>>

(* setPaused is done. *)
Called(p) ==
    /\ pc[p] = "called"
    /\ Return(p)
    /\ Goto(p, IF loopPc[p] = "ok" THEN "readback" ELSE "partial")
    /\ UNCHANGED <<selector, stored, remote, job, faults>>

(* The live read after the change; a created ticket must carry the identity. *)
ReadBack(p) ==
    /\ pc[p] = "readback"
    /\ LET j == job[p]
           a == j.action
           after == IF Operation(a) = "create" THEN Own(a) ELSE Live(a)
       IN  \/ /\ Achieved(j, after)
              /\ job' = [job EXCEPT ![p].after = after]
              /\ Goto(p, "mint")
              /\ UNCHANGED faults
           \/ /\ ~Achieved(j, after)
              /\ Goto(p, "blocked")
              /\ UNCHANGED <<job, faults>>
           \/ /\ Fault
              /\ Goto(p, "partial")
              /\ UNCHANGED job
    /\ UNCHANGED <<loopVars, selector, stored, remote>>

(* partialIntent and blockedIntent *)
StopShort(p) ==
    /\ pc[p] \in {"partial", "blocked"}
    /\ intents' = [intents EXCEPT ![job[p].action] = [job[p].intent EXCEPT !.state = pc[p]]]
    /\ End(p)
    /\ UNCHANGED <<loopVars, selector, receipts, remote, faults>>

(* Mutant: the receipt is first named in the intent when its file exists. *)
BugMint(p) ==
    /\ pc[p] = "mint"
    /\ job' = [job EXCEPT ![p].intent.receipt = Receipt(job[p], job[p].after)]
    /\ Goto(p, "store")
    /\ UNCHANGED <<loopVars, selector, stored, remote, faults>>

(* persistFinalReceipt: the receipt is fixed in the intent before its file exists. *)
Mint(p) ==
    /\ pc[p] = "mint"
    /\ WriteIntent(p, [job[p].intent EXCEPT !.receipt = Receipt(job[p], job[p].after)])
    /\ Goto(p, "store")
    /\ UNCHANGED <<loopVars, selector, receipts, remote, faults>>

Store(p) ==
    /\ pc[p] = "store"
    /\ receipts' = receipts \cup {job[p].intent.receipt}
    /\ Goto(p, "finish")
    /\ UNCHANGED <<loopVars, selector, intents, remote, job, faults>>

Finish(p) ==
    /\ pc[p] = "finish"
    /\ intents' = [intents EXCEPT ![job[p].action] = [job[p].intent EXCEPT !.state = "finalized"]]
    /\ End(p)
    /\ UNCHANGED <<loopVars, selector, receipts, remote, faults>>

(* The process dies, or a file operation of apply throws and apply returns. *)
Crash(p) ==
    /\ pc[p] # "idle"
    /\ Fault
    /\ End(p)
    /\ DieInLoop(p)
    /\ UNCHANGED <<selector, stored, remote>>

(* The adapter's call fails and apply goes on. *)
AdapterFails(p) ==
    /\ FailLoop(p)
    /\ Fault
    /\ UNCHANGED <<selector, stored, remote, pc, job>>

AdapterStep(p) == LoopStep(p) /\ UNCHANGED actionVars

(* The tracker's users comment or retitle, move the ticket, set priorities back,
   or file a ticket for the root cause themselves. *)
UserEdits ==
    /\ Fault
    /\ \/ ticket' = [ticket EXCEPT !.edits = @ + 1] /\ UNCHANGED issues
       \/ ticket' = [ticket EXCEPT !.status = "moved"] /\ UNCHANGED issues
       \/ ticket' = [ticket EXCEPT !.priority = "asIs"] /\ UNCHANGED issues
       \/ issues' = issues \cup {<<NoAction, 0>>} /\ UNCHANGED ticket
    /\ UNCHANGED <<loopVars, selector, stored, pc, job>>

Next ==
    \/ \E p \in Procs :
        \/ \E a \in Actions : Apply(p, a)
        \/ Enter(p) \/ Replay(p) \/ Recover(p) \/ Check(p) \/ Pend(p) \/ Attempt(p)
        \/ Mutate(p) \/ Called(p) \/ ReadBack(p) \/ StopShort(p)
        \/ Mint(p) \/ Store(p) \/ Finish(p)
        \/ AdapterStep(p) \/ AdapterFails(p) \/ Crash(p)
    \/ UserEdits

Spec == Init /\ [][Next]_vars

-----------------------------------------------------------------------------
(* An action has at most one receipt, whatever crashes and replays happen: a
   receipt's file exists only when the action's intent names it. *)
ReceiptsRecorded ==
    \A r \in receipts : intents[r.action] # NoIntent /\ intents[r.action].receipt = r

(* The receipt that an intent names is never changed or dropped, and a finalized
   intent stays as it is. *)
ReceiptKept ==
    [][\A a \in Actions : intents[a] # NoIntent =>
           /\ intents[a].receipt # NoReceipt => intents'[a].receipt = intents[a].receipt
           /\ intents[a].state = "finalized" => intents'[a] = intents[a]]_vars

(* An action that has a receipt never acts again: nobody is on the way to, in or
   just behind its change, whatever was rolled back or changed since. *)
AnsweredIsInert ==
    \A p \in Procs : pc[p] \in {"check", "pend", "attempt", "mutate", "called", "readback"} =>
        intents[job[p].action] = NoIntent \/ intents[job[p].action].receipt = NoReceipt

(* The attempt is durable before the change is made. *)
AttemptIsDurable ==
    \A a \in Actions :
        a \in took \/ ticket.comments[a] > 0 \/ Own(a) # NothingFound =>
            intents[a] # NoIntent /\ intents[a].attempted

(* A rollback's receipt undoes exactly what its target's receipt says was done. *)
RollbackUndoes ==
    \A r \in receipts : r.status = "ROLLED_BACK" =>
        \E t \in receipts : /\ t.action = selector[r.action].target
                            /\ t.status = "APPLIED"
                            /\ t.before = r.after
                            /\ t.after = r.before
=============================================================================
