----------------------- MODULE StrategicAction_proofs -----------------------
(***************************************************************************)
(* Theorems about StrategicAction, for any number of processes, actions and *)
(* faults.                                                                  *)
(*                                                                         *)
(* The inductive invariant says what a process in each phase knows of its   *)
(* intent (JobFits) and what an intent and a receipt on disk guarantee      *)
(* (IntentFits, ReceiptFits).  It rests on the lease of the action identity *)
(* (ActionLeases), and not on the loop's or on any property of the tracker. *)
(***************************************************************************)
EXTENDS StrategicAction, InstalledLoop_proofs, FiniteSetTheorems

(* A rollback names a receipt of the action it undoes; nothing else names one. *)
TargetFits(a, t) ==
    IF Operation(a) = "rollback" THEN t \in receipts /\ t.action = selector[a].target
                                 ELSE t = NoReceipt

Undoes(r) ==
    \E t \in receipts : /\ t.action = selector[r.action].target
                        /\ t.status = "APPLIED"
                        /\ t.before = r.after
                        /\ t.after = r.before

ReceiptFits(r) ==
    /\ {r.before, r.after} \subseteq SubjectStates(r.action)
    /\ r.status = "ROLLED_BACK" => Undoes(r)

IntentFits(a, i) ==
    /\ i.before \in SubjectStates(a)
    /\ TargetFits(a, i.target)
    /\ i.receipt # NoReceipt => i.receipt.action = a /\ ReceiptFits(i.receipt)
    /\ i.state = "finalized" => i.receipt # NoReceipt

(* What the files say: receipts are recorded in their intents, and fit. *)
FilesSound ==
    /\ \A a \in Actions : intents[a] # NoIntent => IntentFits(a, intents[a])
    /\ \A r \in receipts : ReceiptFits(r)
    /\ ReceiptsRecorded
    /\ IsFiniteSet(receipts)

(* What a process in phase label, with locals j, knows when its action's intent
   on disk is i. *)
JobFits(label, j, i) ==
    /\ TargetFits(j.action, j.target)
    /\ label \in {"lease", "replay"} => j.intent = NoIntent
    /\ label \notin {"lease", "replay"} =>
           /\ j.intent = i
           /\ i # NoIntent => SameRequest(j, i)
    /\ label \in {"attempt", "mutate", "called", "readback", "partial", "blocked", "mint",
                  "store", "finish"} => i # NoIntent
    /\ label \in {"recover", "check", "pend", "attempt", "mutate", "called", "readback",
                  "partial", "blocked", "mint"} => i = NoIntent \/ i.receipt = NoReceipt
    /\ label \in {"store", "finish"} => i.receipt # NoReceipt
    /\ label \in {"mutate", "called", "readback"} => i.attempted
    /\ label = "mutate" => ~OnLoop(j.action)
    /\ label \in {"pend", "attempt", "mutate", "called", "readback", "mint"} => TargetValid(j)
    /\ label = "mint" /\ Operation(j.action) = "rollback" => j.after = j.target.before

JobSound(p) ==
    /\ pc[p] # "idle" => JobFits(pc[p], job[p], intents[job[p].action])
    /\ loopPc[p] \notin {"none", "ok", "error"} => call[p].action = job[p].action

(* At most one process works on an action. *)
ActionLeases ==
    \A p, q \in Procs : Holds(p) /\ Holds(q) /\ job[p].action = job[q].action => p = q

IInv ==
    /\ TypeOK
    /\ LoopIInv
    /\ FilesSound
    /\ ActionLeases
    /\ \A p \in Procs : JobSound(p)
    /\ AttemptIsDurable

(* What no step does to an intent. *)
Stays(a) ==
    intents[a] # NoIntent =>
        /\ intents'[a] # NoIntent
        /\ intents[a].receipt # NoReceipt => intents'[a].receipt = intents[a].receipt
        /\ intents[a].state = "finalized" => intents'[a] = intents[a]
        /\ intents[a].attempted => intents'[a].attempted

AllStay == \A a \in Actions : Stays(a)

(* Only p moves, with the adapter's call of p or without. *)
OnlyMoves(p) ==
    \A q \in Procs \ {p} : /\ pc'[q] = pc[q]
                           /\ job'[q] = job[q]
                           /\ loopPc'[q] = loopPc[q]
                           /\ call'[q] = call[q]

-----------------------------------------------------------------------------
(* What the selectors say of an action and of the one it undoes. *)
LEMMA Subjects ==
    ASSUME selector \in Selectors, NEW a \in Actions
    PROVE  /\ Operation(a) \in Operations
           /\ Subject(a) \in Operations \ {"rollback"}
           /\ Operation(a) # "rollback" => Subject(a) = Operation(a)
           /\ Operation(a) = "rollback" =>
                  /\ selector[a].target \in Actions
                  /\ SubjectStates(selector[a].target) = SubjectStates(a)
                  /\ Subject(a) \in {"pause", "priority"}
<1>1. selector[a] \in [operation : Operations, target : Actions \cup {NoAction}]
  BY StrategicAssumption
<1>2. Operation(a) \in Operations
  BY <1>1 DEF Operation
<1>3. Operation(a) = "rollback" =>
          /\ selector[a].target \in Actions
          /\ Operation(selector[a].target) \in {"pause", "priority"}
  BY StrategicAssumption DEF Operation
<1>4. Operation(a) = "rollback" =>
          /\ Subject(selector[a].target) = Operation(selector[a].target)
          /\ Subject(a) = Operation(selector[a].target)
  BY <1>3 DEF Subject
<1> QED
  BY <1>2, <1>3, <1>4 DEF Subject, SubjectStates, Operations

(* A live read sees a state of its subject. *)
LEMMA LiveTyped ==
    ASSUME TypeOK, NEW a \in Actions
    PROVE  /\ Live(a) \in SubjectStates(a)
           /\ Operation(a) = "create" => Own(a) \in SubjectStates(a)
           /\ SubjectStates(a) \subseteq States
<1>1. Search(a) \in Searches /\ Own(a) \in Searches
  BY DEF TypeOK, Search, Own, Searches
<1>2. live \in LoopStates /\ ticket \in Tickets
  BY DEF TypeOK, LoopTypeOK
<1>3. Operation(a) = "create" => Subject(a) = "create"
  BY DEF Subject
<1> QED
  BY <1>1, <1>2, <1>3 DEF Live, SubjectStates, States

(* What the invariant says of a process at work, as facts to cite. *)
LEMMA AtWork ==
    ASSUME IInv, NEW p \in Procs, pc[p] # "idle"
    PROVE  /\ job[p] \in Jobs
           /\ job[p].action \in Actions
           /\ job[p].target \in Receipts \cup {NoReceipt}
           /\ job[p].intent \in Intents \cup {NoIntent}
           /\ job[p].expected \in SubjectStates(job[p].action)
           /\ job[p].after \in SubjectStates(job[p].action)
           /\ intents[job[p].action] \in Intents \cup {NoIntent}
           /\ intents[job[p].action] # NoIntent =>
                  IntentFits(job[p].action, intents[job[p].action])
           /\ JobFits(pc[p], job[p], intents[job[p].action])
<1>1. job[p] \in Jobs /\ job[p] # NoJob
  BY DEF IInv, TypeOK
<1>2. job[p].action \in Actions /\ job[p].target \in Receipts \cup {NoReceipt}
        /\ job[p].intent \in Intents \cup {NoIntent}
  BY <1>1 DEF Jobs
<1> QED
  BY <1>1, <1>2 DEF IInv, TypeOK, FilesSound, JobSound

(* A rollback restores a state of its subject. *)
LEMMA Restores ==
    ASSUME IInv, NEW p \in Procs, pc[p] # "idle", Operation(job[p].action) = "rollback"
    PROVE  job[p].target.before \in SubjectStates(job[p].action)
<1> DEFINE a == job[p].action
           t == job[p].target
<1>1. a \in Actions /\ TargetFits(a, t) /\ selector \in Selectors
  BY AtWork DEF JobFits, IInv, TypeOK
<1>2. t \in receipts /\ t.action = selector[a].target
  BY <1>1 DEF TargetFits
<1>3. t.before \in SubjectStates(selector[a].target)
  BY <1>2 DEF IInv, FilesSound, ReceiptFits
<1> QED
  BY <1>1, <1>3, Subjects

(* A rollback of the loop restores a state of the loop. *)
LEMMA RestoresLoop ==
    ASSUME IInv, NEW p \in Procs, pc[p] # "idle", OnLoop(job[p].action),
           job[p].target # NoReceipt
    PROVE  job[p].target.before \in LoopStates
<1>1. Operation(job[p].action) = "rollback"
  BY AtWork DEF JobFits, TargetFits
<1> QED
  BY <1>1, Restores DEF OnLoop, SubjectStates

-----------------------------------------------------------------------------
(* Every step is a step of the adapter, or none. *)
LEMMA AdapterMoves == IInv /\ [Next]_vars => [LoopNext]_loopVars
<1> SUFFICES ASSUME IInv, [Next]_vars PROVE [LoopNext]_loopVars
  OBVIOUS
<1>1. ASSUME NEW p \in Procs, Attempt(p) PROVE [LoopNext]_loopVars
  <2> DEFINE a == job[p].action
             t == job[p].target
  <2>1. a \in Actions /\ pc[p] # "idle"
    BY <1>1, AtWork DEF Attempt
  <2>2. CASE ~OnLoop(a)
    BY <1>1, <2>2 DEF Attempt
  <2>3. CASE OnLoop(a) /\ t = NoReceipt
    <3>1. Call(p, a, TRUE, NoTarget)
      BY <1>1, <2>3 DEF Attempt
    <3> QED
      BY <2>1, <3>1 DEF LoopNext
  <2>4. CASE OnLoop(a) /\ t # NoReceipt
    <3>1. Call(p, a, t.before.paused, t.before)
      BY <1>1, <2>4 DEF Attempt
    <3>2. t.before \in LoopStates
      BY <2>1, <2>4, RestoresLoop
    <3>3. t.before.paused \in BOOLEAN
      BY <3>2 DEF LoopStates
    <3> QED
      BY <2>1, <3>1, <3>2, <3>3 DEF LoopNext
  <2> QED
    BY <2>2, <2>3, <2>4
<1>2. ASSUME NEW p \in Procs, Called(p) \/ Crash(p) \/ AdapterFails(p) \/ AdapterStep(p)
      PROVE  [LoopNext]_loopVars
  BY <1>2 DEF Called, Crash, AdapterFails, AdapterStep, LoopNext
<1>3. ASSUME NEW p \in Procs,
             \/ \E a \in Actions : Apply(p, a)
             \/ Enter(p) \/ Replay(p) \/ Recover(p) \/ Check(p) \/ Pend(p) \/ Mutate(p)
             \/ ReadBack(p) \/ StopShort(p) \/ Mint(p) \/ Store(p) \/ Finish(p)
      PROVE  [LoopNext]_loopVars
  BY <1>3 DEF Apply, Enter, Replay, Recover, Check, Pend, Mutate, ReadBack, StopShort, Mint,
              Store, Finish
<1>4. CASE UserEdits \/ UNCHANGED vars
  BY <1>4 DEF UserEdits, vars
<1> QED
  BY <1>1, <1>2, <1>3, <1>4 DEF Next

-----------------------------------------------------------------------------
(* The parts of the invariant that a step of one process leaves alone. *)

LEMMA OthersSound ==
    ASSUME IInv, NEW p \in Procs, OnlyMoves(p), UNCHANGED selector, receipts \subseteq receipts',
           \A q \in Procs \ {p} :
               Holds(q) => intents'[job[q].action] = intents[job[q].action]
    PROVE  \A q \in Procs \ {p} : JobSound(q)'
<1> SUFFICES ASSUME NEW q \in Procs \ {p} PROVE JobSound(q)'
  OBVIOUS
<1>1. /\ pc'[q] = pc[q] /\ job'[q] = job[q]
      /\ loopPc'[q] = loopPc[q] /\ call'[q] = call[q]
  BY DEF OnlyMoves
<1>2. JobSound(q)
  BY DEF IInv
<1>3. Holds(q) => intents'[job[q].action] = intents[job[q].action]
  OBVIOUS
<1> QED
  BY <1>1, <1>2, <1>3 DEF JobSound, JobFits, TargetFits, TargetValid, SameRequest, Operation,
         OnLoop, Subject, Holds

LEMMA TypesKept ==
    ASSUME IInv, NEW p \in Procs, LoopTypeOK', UNCHANGED selector,
           intents' \in [Actions -> Intents \cup {NoIntent}], receipts' \subseteq Receipts,
           ticket' \in Tickets, issues' \subseteq Issues, faults' \in 0 .. MaxFaults,
           NEW label \in Labels, NEW j \in Jobs \cup {NoJob},
           pc' = [pc EXCEPT ![p] = label], job' = [job EXCEPT ![p] = j],
           label # "idle" => j # NoJob,
           j # NoJob => {j.expected, j.after} \subseteq SubjectStates(j.action),
           \A q \in Procs \ {p} : loopPc'[q] = loopPc[q],
           label # "called" => loopPc'[p] = "none"
    PROVE  TypeOK'
<1>1. pc' \in [Procs -> Labels] /\ job' \in [Procs -> Jobs \cup {NoJob}]
  BY DEF IInv, TypeOK
<1>2. ASSUME NEW q \in Procs PROVE pc'[q] # "idle" => job'[q] # NoJob
  BY DEF IInv, TypeOK
<1>3. ASSUME NEW q \in Procs
      PROVE  /\ job'[q] # NoJob => {job'[q].expected, job'[q].after}
                                       \subseteq SubjectStates(job'[q].action)
             /\ pc'[q] # "called" => loopPc'[q] = "none"
  BY DEF IInv, TypeOK
<1>4. ASSUME NEW q \in Procs, job'[q] # NoJob
      PROVE  {job[q].expected, job[q].after}' \subseteq SubjectStates(job[q].action)'
  BY <1>3, <1>4 DEF SubjectStates, Subject, Operation
<1>5. selector' \in Selectors
  BY DEF IInv, TypeOK
<1> QED
  BY <1>1, <1>2, <1>3, <1>4, <1>5 DEF TypeOK

(* What fits goes on fitting while receipts only appear. *)
LEMMA FitsOn ==
    ASSUME UNCHANGED selector, receipts \subseteq receipts'
    PROVE  /\ \A r : ReceiptFits(r) => ReceiptFits(r)'
           /\ \A a, i : IntentFits(a, i) => IntentFits(a, i)'
<1>1. ASSUME NEW r, ReceiptFits(r) PROVE ReceiptFits(r)'
  <2>1. Undoes(r) => Undoes(r)'
    BY DEF Undoes
  <2>2. SubjectStates(r.action)' = SubjectStates(r.action)
    BY DEF SubjectStates, Subject, Operation
  <2> QED
    BY <1>1, <2>1, <2>2 DEF ReceiptFits
<1>2. ASSUME NEW a, NEW i, IntentFits(a, i) PROVE IntentFits(a, i)'
  <2>1. SubjectStates(a)' = SubjectStates(a)
    BY DEF SubjectStates, Subject, Operation
  <2>2. TargetFits(a, i.target)'
    BY <1>2 DEF IntentFits, TargetFits, Operation
  <2>3. i.receipt # NoReceipt => ReceiptFits(i.receipt)'
    BY <1>1, <1>2 DEF IntentFits
  <2> QED
    BY <1>2, <2>1, <2>2, <2>3 DEF IntentFits
<1> QED
  BY <1>1, <1>2

(* Nothing is written. *)
LEMMA FilesUntouched ==
    ASSUME IInv, UNCHANGED <<selector, intents, receipts>>
    PROVE  FilesSound' /\ AllStay
<1>1. \A a \in Actions : intents[a] # NoIntent => IntentFits(a, intents[a])'
  BY FitsOn DEF IInv, FilesSound
<1>2. \A r \in receipts : ReceiptFits(r)'
  BY FitsOn DEF IInv, FilesSound
<1> QED
  BY <1>1, <1>2 DEF IInv, FilesSound, ReceiptsRecorded, AllStay, Stays

(* An intent is written. *)
LEMMA IntentWritten ==
    ASSUME IInv, UNCHANGED <<selector, receipts>>, NEW a \in Actions, NEW i \in Intents,
           intents' = [intents EXCEPT ![a] = i], IntentFits(a, i),
           intents[a] # NoIntent =>
               /\ intents[a].receipt # NoReceipt => i.receipt = intents[a].receipt
               /\ intents[a].state = "finalized" => i = intents[a]
               /\ intents[a].attempted => i.attempted
    PROVE  /\ intents' \in [Actions -> Intents \cup {NoIntent}]
           /\ FilesSound'
           /\ AllStay
<1>1. intents \in [Actions -> Intents \cup {NoIntent}] /\ i # NoIntent
  BY ActionAbsentAssumption DEF IInv, TypeOK
<1>2. AllStay
  BY <1>1 DEF AllStay, Stays
<1>3. \A r \in receipts : r # NoReceipt /\ r.action \in Actions
  BY ActionAbsentAssumption DEF IInv, TypeOK, Receipts
<1>4. ReceiptsRecorded'
  BY <1>1, <1>3 DEF IInv, FilesSound, ReceiptsRecorded
<1>5. ASSUME NEW b \in Actions, intents'[b] # NoIntent PROVE IntentFits(b, intents'[b])
  BY <1>1, <1>5 DEF IInv, FilesSound
<1>6. ASSUME NEW b \in Actions, intents'[b] # NoIntent PROVE IntentFits(b, intents[b])'
  BY <1>5, <1>6, FitsOn
<1>7. ASSUME NEW r \in receipts PROVE ReceiptFits(r)'
  BY <1>7, FitsOn DEF IInv, FilesSound
<1> QED
  BY <1>1, <1>2, <1>4, <1>6, <1>7 DEF IInv, FilesSound

(* Nothing was changed that an attempt would have to be recorded for. *)
LEMMA AttemptsStay ==
    ASSUME IInv, AllStay, UNCHANGED <<took, ticket, issues>>
    PROVE  AttemptIsDurable'
BY DEF IInv, AttemptIsDurable, AllStay, Stays, Own

(* What a process knows it goes on knowing while receipts only appear. *)
LEMMA KnowsOn ==
    ASSUME UNCHANGED selector, receipts \subseteq receipts'
    PROVE  \A label, j, i : JobFits(label, j, i) => JobFits(label, j, i)'
BY DEF JobFits, TargetFits, TargetValid, SameRequest, Operation, OnLoop, Subject

(* A step of p is a step of the system when what it does to p, to the files and to
   the tracker is in order. *)
LEMMA Assemble ==
    ASSUME IInv, [Next]_vars, NEW p \in Procs, OnlyMoves(p),
           NEW label \in Labels, NEW j \in Jobs \cup {NoJob},
           pc' = [pc EXCEPT ![p] = label], job' = [job EXCEPT ![p] = j],
           label # "idle" => j # NoJob /\ JobFits(label, j, intents'[j.action]),
           j # NoJob => {j.expected, j.after} \subseteq SubjectStates(j.action),
           label \notin {"idle", "lease"} =>
               \A q \in Procs \ {p} : Holds(q) => job[q].action # j.action,
           label # "called" => loopPc'[p] = "none",
           loopPc'[p] \notin {"none", "ok", "error"} => call'[p].action = j.action,
           ticket' \in Tickets, issues' \subseteq Issues, faults' \in 0 .. MaxFaults,
           UNCHANGED selector, receipts \subseteq receipts', receipts' \subseteq Receipts,
           intents' \in [Actions -> Intents \cup {NoIntent}], FilesSound', AllStay,
           \A q \in Procs \ {p} : Holds(q) => intents'[job[q].action] = intents[job[q].action],
           AttemptIsDurable'
    PROVE  IInv' /\ AllStay
<1>1. LoopIInv'
  BY AdapterMoves, LoopStepInvariant DEF IInv
<1>2. pc'[p] = label /\ job'[p] = j
  BY DEF IInv, TypeOK
<1>3. TypeOK'
  <2>1. LoopTypeOK'
    BY <1>1 DEF LoopIInv
  <2>2. \A q \in Procs \ {p} : loopPc'[q] = loopPc[q]
    BY DEF OnlyMoves
  <2> QED
    BY <2>1, <2>2, TypesKept
<1>4. JobSound(p)'
  <2>1. label # "idle" => JobFits(pc[p], job[p], intents[job[p].action])'
    BY <1>2, KnowsOn
  <2> QED
    BY <1>2, <2>1 DEF JobSound
<1>5. \A q \in Procs : JobSound(q)'
  BY <1>4, OthersSound
<1>6. ActionLeases'
  BY <1>2 DEF IInv, OnlyMoves, ActionLeases, Holds
<1> QED
  BY <1>1, <1>3, <1>5, <1>6 DEF IInv

(* A step of p that only changes p's phase and local variables. *)
LEMMA LocalMove ==
    ASSUME IInv, [Next]_vars, NEW p \in Procs, pc[p] # "called",
           NEW label \in Labels, NEW j \in Jobs \cup {NoJob},
           pc' = [pc EXCEPT ![p] = label], job' = [job EXCEPT ![p] = j],
           label # "called",
           label # "idle" => j # NoJob /\ JobFits(label, j, intents[j.action]),
           j # NoJob => {j.expected, j.after} \subseteq SubjectStates(j.action),
           label \notin {"idle", "lease"} =>
               \A q \in Procs \ {p} : Holds(q) => job[q].action # j.action,
           faults' \in 0 .. MaxFaults,
           UNCHANGED <<loopVars, selector, stored, remote>>
    PROVE  IInv' /\ AllStay
<1>1. UNCHANGED <<live, loopIntent, history, loopPc, call, took, selector, intents, receipts,
                  ticket, issues>>
  BY DEF loopVars, loopFiles, stored, remote
<1>2. FilesSound' /\ AllStay
  BY <1>1, FilesUntouched
<1>3. AttemptIsDurable'
  BY <1>1, <1>2, AttemptsStay
<1>4. OnlyMoves(p) /\ loopPc'[p] = "none"
  BY <1>1 DEF OnlyMoves, IInv, TypeOK
<1>5. ticket' \in Tickets /\ issues' \subseteq Issues /\ receipts' \subseteq Receipts
        /\ intents' \in [Actions -> Intents \cup {NoIntent}]
  BY <1>1 DEF IInv, TypeOK
<1>6. label # "idle" => j # NoJob /\ JobFits(label, j, intents'[j.action])
  BY <1>1
<1> QED
  BY <1>1, <1>2, <1>3, <1>4, <1>5, <1>6, Assemble

(* A step of p that writes the intent of its action. *)
LEMMA WritingMove ==
    ASSUME IInv, [Next]_vars, NEW p \in Procs, Holds(p), OnlyMoves(p),
           NEW label \in Labels, NEW j \in Jobs, NEW i \in Intents, NEW a \in Actions,
           a = job[p].action,
           pc' = [pc EXCEPT ![p] = label],
           \/ label = "idle" /\ job' = [job EXCEPT ![p] = NoJob]
           \/ /\ label # "idle"
              /\ job' = [job EXCEPT ![p] = j]
              /\ j.action = a
              /\ JobFits(label, j, i)
              /\ {j.expected, j.after} \subseteq SubjectStates(a),
           label # "called" => loopPc'[p] = "none",
           loopPc'[p] \notin {"none", "ok", "error"} => label # "idle" /\ call'[p].action = a,
           intents' = [intents EXCEPT ![a] = i], IntentFits(a, i),
           intents[a] # NoIntent =>
               /\ intents[a].receipt # NoReceipt => i.receipt = intents[a].receipt
               /\ intents[a].state = "finalized" => i = intents[a]
               /\ intents[a].attempted => i.attempted,
           UNCHANGED <<took, selector, receipts, ticket, issues, faults>>
    PROVE  IInv' /\ AllStay
<1>1. /\ intents' \in [Actions -> Intents \cup {NoIntent}]
      /\ FilesSound' /\ AllStay
  BY IntentWritten
<1>2. AttemptIsDurable'
  BY <1>1, AttemptsStay
<1>3. \A q \in Procs \ {p} : Holds(q) => job[q].action # a
  BY DEF IInv, ActionLeases
<1>4. \A q \in Procs \ {p} : Holds(q) => intents'[job[q].action] = intents[job[q].action]
  BY <1>3 DEF IInv, TypeOK
<1>5. intents'[a] = i
  BY DEF IInv, TypeOK
<1>6. ticket' \in Tickets /\ issues' \subseteq Issues /\ receipts' \subseteq Receipts
        /\ faults' \in 0 .. MaxFaults
  BY DEF IInv, TypeOK
<1>7. NoJob \notin Jobs
  BY ActionAbsentAssumption
<1>8. CASE label = "idle"
  BY <1>1, <1>2, <1>3, <1>4, <1>6, <1>8, Assemble
<1>9. CASE label # "idle"
  <2>1. /\ j \in Jobs \cup {NoJob} /\ j # NoJob /\ j.action = a
        /\ job' = [job EXCEPT ![p] = j]
        /\ JobFits(label, j, intents'[j.action])
        /\ {j.expected, j.after} \subseteq SubjectStates(j.action)
    BY <1>5, <1>7, <1>9
  <2>2. /\ \A q \in Procs \ {p} : Holds(q) => job[q].action # j.action
        /\ loopPc'[p] \notin {"none", "ok", "error"} => call'[p].action = j.action
    BY <1>3, <2>1
  <2> QED
    BY <1>1, <1>2, <1>4, <1>6, <1>9, <2>1, <2>2, Assemble
<1> QED
  BY <1>8, <1>9

(* A step of p that writes the intent of its action and goes on. *)
LEMMA WritingOn ==
    ASSUME IInv, [Next]_vars, NEW p \in Procs, Holds(p), OnlyMoves(p),
           NEW label \in Labels \ {"idle"}, NEW j \in Jobs, NEW i \in Intents, NEW a \in Actions,
           a = job[p].action, j.action = a,
           pc' = [pc EXCEPT ![p] = label], job' = [job EXCEPT ![p] = j],
           JobFits(label, j, i), {j.expected, j.after} \subseteq SubjectStates(a),
           label # "called" => loopPc'[p] = "none",
           loopPc'[p] \notin {"none", "ok", "error"} => call'[p].action = a,
           intents' = [intents EXCEPT ![a] = i], IntentFits(a, i),
           intents[a] # NoIntent =>
               /\ intents[a].receipt # NoReceipt => i.receipt = intents[a].receipt
               /\ intents[a].state = "finalized" => i = intents[a]
               /\ intents[a].attempted => i.attempted,
           UNCHANGED <<took, selector, receipts, ticket, issues, faults>>
    PROVE  IInv' /\ AllStay
BY WritingMove

(* A step of p that writes the intent of its action and is p's last. *)
LEMMA WritingEnd ==
    ASSUME IInv, [Next]_vars, NEW p \in Procs, Holds(p), pc[p] # "called",
           NEW i \in Intents, NEW a \in Actions, a = job[p].action, End(p),
           intents' = [intents EXCEPT ![a] = i], IntentFits(a, i),
           intents[a] # NoIntent =>
               /\ intents[a].receipt # NoReceipt => i.receipt = intents[a].receipt
               /\ intents[a].state = "finalized" => i = intents[a]
               /\ intents[a].attempted => i.attempted,
           UNCHANGED <<loopVars, selector, receipts, remote, faults>>
    PROVE  IInv' /\ AllStay
<1>1. job[p] \in Jobs /\ "idle" \in Labels
  BY AtWork DEF Holds, Labels
<1>2. pc' = [pc EXCEPT ![p] = "idle"] /\ job' = [job EXCEPT ![p] = NoJob]
  BY DEF End, Goto
<1>3. /\ OnlyMoves(p) /\ loopPc'[p] = "none"
      /\ UNCHANGED <<took, selector, receipts, ticket, issues, faults>>
  BY <1>2 DEF OnlyMoves, loopVars, loopFiles, remote, IInv, TypeOK
<1> QED
  BY <1>1, <1>2, <1>3, WritingMove

-----------------------------------------------------------------------------
(* Small facts about the steps. *)

LEMMA JobUpdates ==
    ASSUME NEW j \in Jobs
    PROVE  /\ \A x \in States : LET k == [j EXCEPT !.after = x]
                                IN  /\ k \in Jobs
                                    /\ k.action = j.action /\ k.expected = j.expected
                                    /\ k.target = j.target /\ k.intent = j.intent /\ k.after = x
           /\ \A i \in Intents : LET k == [j EXCEPT !.intent = i]
                                 IN  /\ k \in Jobs
                                     /\ k.action = j.action /\ k.expected = j.expected
                                     /\ k.target = j.target /\ k.intent = i /\ k.after = j.after
BY DEF Jobs

LEMMA FaultsLeft ==
    ASSUME IInv, Fault \/ UNCHANGED faults
    PROVE  faults' \in 0 .. MaxFaults
BY StrategicAssumption DEF IInv, TypeOK, Fault

(* No other process works on the action that p works on. *)
LEMMA Alone ==
    ASSUME IInv, NEW p \in Procs, Holds(p)
    PROVE  \A q \in Procs \ {p} : Holds(q) => job[q].action # job[p].action
BY DEF IInv, ActionLeases

(* p gives up: what it did so far is in the files. *)
LEMMA LocalEnd ==
    ASSUME IInv, [Next]_vars, NEW p \in Procs, pc[p] # "called", End(p),
           Fault \/ UNCHANGED faults, UNCHANGED <<loopVars, selector, stored, remote>>
    PROVE  IInv' /\ AllStay
BY FaultsLeft, LocalMove DEF End, Goto, Labels

(* p goes on with the same local variables. *)
LEMMA LocalGoto ==
    ASSUME IInv, [Next]_vars, NEW p \in Procs, Holds(p), pc[p] # "called",
           NEW label \in Labels \ {"idle", "called"}, Goto(p, label),
           JobFits(label, job[p], intents[job[p].action]),
           Fault \/ UNCHANGED faults, UNCHANGED <<loopVars, selector, stored, remote, job>>
    PROVE  IInv' /\ AllStay
<1> DEFINE j == job[p]
<1>1. pc[p] # "idle"
  BY DEF Holds
<1>2. j \in Jobs /\ {j.expected, j.after} \subseteq SubjectStates(j.action)
  BY <1>1, AtWork
<1>3. j # NoJob /\ j \in Jobs \cup {NoJob}
  BY <1>2, ActionAbsentAssumption
<1>4. job' = [job EXCEPT ![p] = j] /\ pc' = [pc EXCEPT ![p] = label]
  BY DEF Goto, IInv, TypeOK
<1>5. \A q \in Procs \ {p} : Holds(q) => job[q].action # j.action
  BY Alone
<1>6. faults' \in 0 .. MaxFaults
  BY FaultsLeft
<1>7. JobFits(label, j, intents[j.action])
  OBVIOUS
<1> HIDE DEF j
<1> QED
  BY <1>2, <1>3, <1>4, <1>5, <1>6, <1>7, LocalMove

(* p goes on with other local variables. *)
LEMMA LocalSet ==
    ASSUME IInv, [Next]_vars, NEW p \in Procs, Holds(p), pc[p] # "called",
           NEW label \in Labels \ {"idle", "called"}, Goto(p, label),
           NEW j \in Jobs, job' = [job EXCEPT ![p] = j],
           j.action = job[p].action, {j.expected, j.after} \subseteq SubjectStates(j.action),
           JobFits(label, j, intents[j.action]),
           Fault \/ UNCHANGED faults, UNCHANGED <<loopVars, selector, stored, remote>>
    PROVE  IInv' /\ AllStay
<1>1. j # NoJob /\ j \in Jobs \cup {NoJob}
  BY ActionAbsentAssumption
<1>2. \A q \in Procs \ {p} : Holds(q) => job[q].action # j.action
  BY Alone
<1>3. faults' \in 0 .. MaxFaults /\ pc' = [pc EXCEPT ![p] = label]
  BY FaultsLeft DEF Goto
<1> QED
  BY <1>1, <1>2, <1>3, LocalMove

-----------------------------------------------------------------------------
(* The steps that write nothing. *)

LEMMA ApplyStep ==
    ASSUME IInv, [Next]_vars, NEW p \in Procs, NEW a \in Actions, Apply(p, a)
    PROVE  IInv' /\ AllStay
<1>1. PICK e \in {Live(a)} \cup (IF intents[a] = NoIntent THEN {} ELSE {intents[a].before}),
           t \in IF Operation(a) = "rollback"
                 THEN {r \in receipts : r.action = selector[a].target} ELSE {NoReceipt} :
          job' = [job EXCEPT ![p] = [action |-> a, expected |-> e, target |-> t,
                                     intent |-> NoIntent, after |-> e]]
  BY DEF Apply
<1> DEFINE j == [action |-> a, expected |-> e, target |-> t, intent |-> NoIntent, after |-> e]
<1>2. e \in SubjectStates(a) /\ e \in States
  <2>1. intents[a] # NoIntent => intents[a].before \in SubjectStates(a)
    BY DEF IInv, FilesSound, IntentFits
  <2> QED
    BY <2>1, LiveTyped DEF IInv
<1>3. TargetFits(a, t) /\ t \in Receipts \cup {NoReceipt}
  BY DEF TargetFits, IInv, TypeOK
<1>4. j \in Jobs
  BY <1>2, <1>3 DEF Jobs
<1>5. JobFits("lease", j, intents[j.action])
  BY <1>3 DEF JobFits
<1>6. /\ j # NoJob /\ j \in Jobs \cup {NoJob}
      /\ {j.expected, j.after} \subseteq SubjectStates(j.action)
  BY <1>2, <1>4, ActionAbsentAssumption
<1>7. job' = [job EXCEPT ![p] = j]
  BY <1>1
<1>8. /\ pc' = [pc EXCEPT ![p] = "lease"] /\ "lease" \in Labels /\ pc[p] # "called"
      /\ UNCHANGED <<loopVars, selector, stored, remote>> /\ faults' \in 0 .. MaxFaults
  BY FaultsLeft DEF Apply, Goto, Labels
<1> HIDE DEF j
<1> QED
  BY <1>5, <1>6, <1>7, <1>8, LocalMove

LEMMA EnterStep ==
    ASSUME IInv, [Next]_vars, NEW p \in Procs, Enter(p)
    PROVE  IInv' /\ AllStay
<1> DEFINE j == job[p]
<1>1. pc[p] = "lease" /\ pc' = [pc EXCEPT ![p] = "replay"] /\ "replay" \in Labels
  BY DEF Enter, Goto, Labels
<1>2. /\ j \in Jobs /\ {j.expected, j.after} \subseteq SubjectStates(j.action)
      /\ JobFits("replay", j, intents[j.action])
  BY <1>1, AtWork DEF JobFits
<1>3. j # NoJob /\ j \in Jobs \cup {NoJob}
  BY <1>2, ActionAbsentAssumption
<1>4. job' = [job EXCEPT ![p] = j]
  BY DEF Enter, IInv, TypeOK
<1>5. \A q \in Procs \ {p} : Holds(q) => job[q].action # j.action
  BY DEF Enter
<1>6. faults' \in 0 .. MaxFaults /\ UNCHANGED <<loopVars, selector, stored, remote>>
  BY FaultsLeft DEF Enter
<1> HIDE DEF j
<1> QED
  BY <1>1, <1>2, <1>3, <1>4, <1>5, <1>6, LocalMove

LEMMA ReplayStep ==
    ASSUME IInv, [Next]_vars, NEW p \in Procs, Replay(p)
    PROVE  IInv' /\ AllStay
<1> DEFINE j == job[p]
           i == intents[j.action]
<1>1. pc[p] = "replay" /\ Holds(p) /\ UNCHANGED <<loopVars, selector, stored, remote, faults>>
  BY DEF Replay, Holds
<1>2. /\ j \in Jobs /\ {j.expected, j.after} \subseteq SubjectStates(j.action)
      /\ i \in Intents \cup {NoIntent}
      /\ TargetFits(j.action, j.target) /\ j.intent = NoIntent
  BY <1>1, AtWork DEF JobFits
<1>3. CASE i = NoIntent
  <2>1. JobFits("recover", j, i)
    BY <1>2, <1>3 DEF JobFits
  <2>2. Goto(p, "recover") /\ UNCHANGED job /\ "recover" \in Labels
    BY <1>3 DEF Replay, Labels
  <2> QED
    BY <1>1, <2>1, <2>2, LocalGoto
<1>4. CASE i # NoIntent /\ ~SameRequest(j, i)
  BY <1>1, <1>4, LocalEnd DEF Replay
<1>5. CASE i # NoIntent /\ SameRequest(j, i)
  <2> DEFINE k == [j EXCEPT !.intent = i]
             label == IF i.receipt = NoReceipt THEN "recover" ELSE "store"
  <2>1. /\ k \in Jobs /\ k.action = j.action /\ k.intent = i /\ k.target = j.target
        /\ k.expected = j.expected /\ k.after = j.after
    BY <1>2, <1>5, JobUpdates
  <2>2. SameRequest(k, i)
    BY <1>5, <2>1 DEF SameRequest
  <2>3. JobFits(label, k, intents[k.action])
    BY <1>2, <1>5, <2>1, <2>2 DEF JobFits
  <2>4. job' = [job EXCEPT ![p] = k] /\ Goto(p, label)
    BY <1>5 DEF Replay
  <2>5. label \in Labels \ {"idle", "called"}
    BY DEF Labels
  <2>6. {k.expected, k.after} \subseteq SubjectStates(k.action) /\ k.action = job[p].action
    BY <1>2, <2>1
  <2> HIDE DEF k, label
  <2> QED
    BY <1>1, <2>1, <2>3, <2>4, <2>5, <2>6, LocalSet
<1> QED
  BY <1>3, <1>4, <1>5

(* A rollback has achieved its aim when the state before its target is back. *)
LEMMA RollbackAchieved ==
    ASSUME NEW j, NEW after, Achieved(j, after), Operation(j.action) = "rollback"
    PROVE  after = j.target.before
BY DEF Achieved

(* What p saw achieves its aim, and it goes on to its receipt. *)
LEMMA SeenStep ==
    ASSUME IInv, [Next]_vars, NEW p \in Procs, pc[p] \in {"recover", "readback"},
           NEW after \in SubjectStates(job[p].action), Achieved(job[p], after),
           TargetValid(job[p]), intents[job[p].action] # NoIntent,
           job' = [job EXCEPT ![p].after = after], Goto(p, "mint"),
           UNCHANGED <<loopVars, selector, stored, remote, faults>>
    PROVE  IInv' /\ AllStay
<1> DEFINE j == job[p]
           k == [j EXCEPT !.after = after]
<1>1. j \in Jobs /\ j.expected \in SubjectStates(j.action) /\ JobFits(pc[p], j, intents[j.action])
        /\ j.action \in Actions
  BY AtWork
<1>2. after \in States
  BY <1>1, LiveTyped DEF IInv
<1>3. /\ k \in Jobs /\ k.action = j.action /\ k.intent = j.intent /\ k.target = j.target
      /\ k.expected = j.expected /\ k.after = after
  BY <1>1, <1>2, JobUpdates
<1>4. TargetValid(k) /\ (intents[j.action] # NoIntent => SameRequest(k, intents[j.action]))
  BY <1>1, <1>3 DEF TargetValid, JobFits, SameRequest
<1>5. Operation(k.action) = "rollback" => k.after = k.target.before
  BY <1>3, RollbackAchieved
<1>6. JobFits("mint", k, intents[k.action])
  BY <1>1, <1>3, <1>4, <1>5 DEF JobFits
<1>7. /\ job' = [job EXCEPT ![p] = k] /\ "mint" \in Labels /\ Holds(p) /\ pc[p] # "called"
      /\ {k.expected, k.after} \subseteq SubjectStates(k.action) /\ k.action = job[p].action
  BY <1>1, <1>3 DEF Labels, Holds
<1> HIDE DEF k
<1> QED
  BY <1>3, <1>6, <1>7, LocalSet

LEMMA RecoverStep ==
    ASSUME IInv, [Next]_vars, NEW p \in Procs, Recover(p)
    PROVE  IInv' /\ AllStay
<1> DEFINE j == job[p]
           i == intents[j.action]
           tried == j.intent # NoIntent /\ (j.intent.attempted \/ Operation(j.action) = "create")
<1>1. pc[p] = "recover" /\ Holds(p) /\ UNCHANGED <<loopVars, selector, stored, remote>>
  BY DEF Recover, Holds
<1>2. j.action \in Actions /\ JobFits("recover", j, i)
  BY <1>1, AtWork
<1>3. JobFits("check", j, i) /\ (tried => i # NoIntent /\ JobFits("partial", j, i) /\ JobFits("blocked", j, i))
  BY <1>2 DEF JobFits
<1>4. {"check", "partial", "blocked"} \subseteq Labels \ {"idle", "called"}
  BY DEF Labels
<1>5. CASE Goto(p, "check") /\ UNCHANGED <<job, faults>>
  BY <1>1, <1>3, <1>4, <1>5, LocalGoto
<1>6. CASE End(p) /\ UNCHANGED faults
  BY <1>1, <1>6, LocalEnd
<1>7. CASE tried /\ Goto(p, "blocked") /\ UNCHANGED <<job, faults>>
  BY <1>1, <1>3, <1>4, <1>7, LocalGoto
<1>8. CASE tried /\ Goto(p, "partial") /\ Fault /\ UNCHANGED job
  BY <1>1, <1>3, <1>4, <1>8, LocalGoto
<1>9. CASE /\ tried /\ TargetValid(j) /\ Achieved(j, Live(j.action))
           /\ job' = [job EXCEPT ![p].after = Live(j.action)]
           /\ Goto(p, "mint") /\ UNCHANGED faults
  <2>1. Live(j.action) \in SubjectStates(j.action)
    BY <1>2, LiveTyped DEF IInv
  <2> QED
    BY <1>1, <1>3, <1>9, <2>1, SeenStep
<1> QED
  BY <1>5, <1>6, <1>7, <1>8, <1>9 DEF Recover

LEMMA CheckStep ==
    ASSUME IInv, [Next]_vars, NEW p \in Procs, Check(p)
    PROVE  IInv' /\ AllStay
<1> DEFINE j == job[p]
<1>1. pc[p] = "check" /\ Holds(p) /\ UNCHANGED <<loopVars, selector, stored, remote, faults>>
  BY DEF Check, Holds
<1>2. JobFits("check", j, intents[j.action])
  BY <1>1, AtWork
<1>3. CASE TargetValid(j) /\ Goto(p, "pend") /\ UNCHANGED job
  <2>1. JobFits("pend", j, intents[j.action]) /\ "pend" \in Labels \ {"idle", "called"}
    BY <1>2, <1>3 DEF JobFits, Labels
  <2> QED
    BY <1>1, <1>3, <2>1, LocalGoto
<1>4. CASE End(p)
  BY <1>1, <1>4, LocalEnd
<1> QED
  BY <1>3, <1>4 DEF Check

LEMMA ReadBackStep ==
    ASSUME IInv, [Next]_vars, NEW p \in Procs, ReadBack(p)
    PROVE  IInv' /\ AllStay
<1> DEFINE j == job[p]
           a == j.action
           after == IF Operation(a) = "create" THEN Own(a) ELSE Live(a)
<1>1. pc[p] = "readback" /\ Holds(p) /\ UNCHANGED <<loopVars, selector, stored, remote>>
  BY DEF ReadBack, Holds
<1>2. a \in Actions /\ JobFits("readback", j, intents[a])
  BY <1>1, AtWork
<1>3. JobFits("partial", j, intents[a]) /\ JobFits("blocked", j, intents[a])
        /\ TargetValid(j) /\ intents[a] # NoIntent
  BY <1>2 DEF JobFits
<1>4. {"partial", "blocked"} \subseteq Labels \ {"idle", "called"}
  BY DEF Labels
<1>5. CASE Goto(p, "blocked") /\ UNCHANGED <<job, faults>>
  BY <1>1, <1>3, <1>4, <1>5, LocalGoto
<1>6. CASE Goto(p, "partial") /\ Fault /\ UNCHANGED job
  BY <1>1, <1>3, <1>4, <1>6, LocalGoto
<1>7. CASE /\ Achieved(j, after) /\ job' = [job EXCEPT ![p].after = after]
           /\ Goto(p, "mint") /\ UNCHANGED faults
  <2>1. after \in SubjectStates(a)
    BY <1>2, LiveTyped DEF IInv
  <2> HIDE DEF after
  <2> QED
    BY <1>1, <1>3, <1>7, <2>1, SeenStep
<1> QED
  BY <1>5, <1>6, <1>7 DEF ReadBack

-----------------------------------------------------------------------------
(* The steps that write the intent of their action. *)

(* The intent's fields after an update. *)
LEMMA IntentUpdates ==
    ASSUME NEW i \in Intents
    PROVE  /\ LET k == [i EXCEPT !.attempted = TRUE]
              IN  /\ k \in Intents /\ k.attempted = TRUE
                  /\ k.before = i.before /\ k.target = i.target
                  /\ k.receipt = i.receipt /\ k.state = i.state
           /\ \A st \in {"pending", "partial", "blocked", "finalized"} :
                  [i EXCEPT !.state = st] \in Intents
           /\ \A r \in Receipts : [i EXCEPT !.receipt = r] \in Intents
BY DEF Intents

LEMMA PendStep ==
    ASSUME IInv, [Next]_vars, NEW p \in Procs, Pend(p)
    PROVE  IInv' /\ AllStay
<1> DEFINE j == job[p]
           a == j.action
           i == [state |-> "pending", attempted |-> FALSE, before |-> j.expected,
                 target |-> j.target, receipt |-> NoReceipt]
           label == IF Operation(a) = "create" /\ j.expected # NothingFound THEN "mint" ELSE "attempt"
<1>1. pc[p] = "pend" /\ Holds(p) /\ Goto(p, label)
        /\ UNCHANGED <<loopVars, selector, receipts, remote, faults>>
  BY DEF Pend, Holds
<1>2. /\ a \in Actions /\ j \in Jobs /\ JobFits("pend", j, intents[a])
      /\ {j.expected, j.after} \subseteq SubjectStates(a) /\ j.target \in Receipts \cup {NoReceipt}
  BY <1>1, AtWork
<1>3. label \in Labels \ {"idle", "called"} /\ label \in {"mint", "attempt"}
        /\ ~(label = "mint" /\ Operation(a) = "rollback")
  BY DEF Labels
<1>4. CASE intents[a] # NoIntent /\ UNCHANGED <<intents, job>>
  <2>1. JobFits(label, j, intents[a])
    BY <1>2, <1>3, <1>4 DEF JobFits
  <2> HIDE DEF label
  <2> QED
    BY <1>1, <1>3, <1>4, <2>1, LocalGoto DEF stored
<1>5. CASE intents[a] = NoIntent /\ WriteIntent(p, i)
  <2> DEFINE k == [j EXCEPT !.intent = i]
  <2>1. i \in Intents
    BY <1>2, LiveTyped DEF Intents, IInv
  <2>2. /\ k \in Jobs /\ k.action = a /\ k.intent = i /\ k.target = j.target
        /\ k.expected = j.expected /\ k.after = j.after
    BY <1>2, <2>1, JobUpdates
  <2>3. TargetFits(a, j.target) /\ TargetValid(j)
    BY <1>2 DEF JobFits
  <2>4. IntentFits(a, i)
    BY <1>2, <2>3 DEF IntentFits
  <2>5. TargetValid(k) /\ SameRequest(k, i)
    BY <2>2, <2>3 DEF TargetValid, SameRequest
  <2>6. i # NoIntent /\ i.receipt = NoReceipt
    BY <2>1, ActionAbsentAssumption
  <2>7. JobFits(label, k, i)
    BY <1>3, <2>2, <2>3, <2>5, <2>6 DEF JobFits
  <2>8. /\ pc' = [pc EXCEPT ![p] = label] /\ job' = [job EXCEPT ![p] = k]
        /\ intents' = [intents EXCEPT ![a] = i]
    BY <1>1, <1>5 DEF Goto, WriteIntent
  <2>9. /\ OnlyMoves(p) /\ loopPc'[p] = "none"
        /\ UNCHANGED <<took, selector, receipts, ticket, issues, faults>>
    BY <1>1, <2>8 DEF OnlyMoves, loopVars, loopFiles, remote, IInv, TypeOK
  <2>10. label \in Labels \ {"idle"} /\ label # "called"
    BY <1>3
  <2>11. {k.expected, k.after} \subseteq SubjectStates(a)
    BY <1>2, <2>2
  <2> HIDE DEF label, k, i
  <2> QED
    BY <1>1, <1>2, <1>5, <2>1, <2>2, <2>4, <2>7, <2>8, <2>9, <2>10, <2>11, WritingOn
<1> QED
  BY <1>4, <1>5 DEF Pend

LEMMA AttemptStep ==
    ASSUME IInv, [Next]_vars, NEW p \in Procs, Attempt(p)
    PROVE  IInv' /\ AllStay
<1> DEFINE j == job[p]
           a == j.action
           i == [j.intent EXCEPT !.attempted = TRUE]
           k == [j EXCEPT !.intent = i]
           label == IF OnLoop(a) THEN "called" ELSE "mutate"
<1>1. pc[p] = "attempt" /\ Holds(p) /\ UNCHANGED <<selector, receipts, remote, faults>>
        /\ WriteIntent(p, i) /\ loopPc[p] = "none"
  BY DEF Attempt, Holds, IInv, TypeOK
<1>2. /\ a \in Actions /\ j \in Jobs /\ JobFits("attempt", j, intents[a])
      /\ {j.expected, j.after} \subseteq SubjectStates(a)
      /\ intents[a] \in Intents \cup {NoIntent}
      /\ intents[a] # NoIntent => IntentFits(a, intents[a])
  BY <1>1, AtWork
<1>3. /\ j.intent = intents[a] /\ j.intent \in Intents /\ IntentFits(a, j.intent)
      /\ j.intent.receipt = NoReceipt /\ SameRequest(j, j.intent)
      /\ TargetFits(a, j.target) /\ TargetValid(j)
  BY <1>2 DEF JobFits
<1>4. /\ i \in Intents /\ i.attempted /\ i.before = j.intent.before /\ i.target = j.intent.target
      /\ i.receipt = j.intent.receipt /\ i.state = j.intent.state
  BY <1>3, IntentUpdates
<1>5. /\ k \in Jobs /\ k.action = a /\ k.intent = i /\ k.target = j.target
      /\ k.expected = j.expected /\ k.after = j.after
  BY <1>2, <1>4, JobUpdates
<1>6. IntentFits(a, i)
  BY <1>3, <1>4 DEF IntentFits
<1>7. TargetValid(k) /\ SameRequest(k, i)
  BY <1>3, <1>4, <1>5 DEF TargetValid, SameRequest
<1>8. i # NoIntent
  BY <1>4, ActionAbsentAssumption
<1>9. JobFits(label, k, i)
  BY <1>3, <1>4, <1>5, <1>7, <1>8 DEF JobFits
<1>10. /\ job' = [job EXCEPT ![p] = k] /\ intents' = [intents EXCEPT ![a] = i]
       /\ pc' = [pc EXCEPT ![p] = label] /\ label \in Labels \ {"idle"}
  BY <1>1 DEF Attempt, WriteIntent, Goto, Labels
<1>11. {k.expected, k.after} \subseteq SubjectStates(a)
  BY <1>2, <1>5
<1>12. /\ \A q \in Procs \ {p} : loopPc'[q] = loopPc[q] /\ call'[q] = call[q]
       /\ label # "called" => loopPc'[p] = "none"
       /\ loopPc'[p] \notin {"none", "ok", "error"} => call'[p].action = a
       /\ took' = took
  <2>1. loopPc \in [Procs -> LoopLabels] /\ DOMAIN call = Procs
    BY DEF IInv, TypeOK, LoopTypeOK
  <2>2. CASE ~OnLoop(a)
    BY <1>1, <2>2 DEF Attempt, loopVars, loopFiles
  <2>3. ASSUME OnLoop(a), NEW b, NEW t, Call(p, a, b, t)
        PROVE  /\ \A q \in Procs \ {p} : loopPc'[q] = loopPc[q] /\ call'[q] = call[q]
               /\ call'[p].action = a /\ took' = took
    BY <2>1, <2>3 DEF Call, LoopGoto
  <2> QED
    BY <2>2, <2>3 DEF Attempt
<1>13. OnlyMoves(p) /\ UNCHANGED <<took, selector, receipts, ticket, issues, faults>>
  BY <1>1, <1>10, <1>12 DEF OnlyMoves, remote
<1>14. intents[a] # NoIntent =>
           /\ intents[a].receipt # NoReceipt => i.receipt = intents[a].receipt
           /\ intents[a].state = "finalized" => i = intents[a]
           /\ intents[a].attempted => i.attempted
  BY <1>3, <1>4 DEF IntentFits
<1> HIDE DEF k, i, label
<1> QED
  BY <1>1, <1>2, <1>4, <1>5, <1>6, <1>9, <1>10, <1>11, <1>12, <1>13, <1>14, WritingOn

LEMMA StopShortStep ==
    ASSUME IInv, [Next]_vars, NEW p \in Procs, StopShort(p)
    PROVE  IInv' /\ AllStay
<1> DEFINE j == job[p]
           a == j.action
           i == [j.intent EXCEPT !.state = pc[p]]
<1>1. /\ pc[p] \in {"partial", "blocked"} /\ Holds(p) /\ pc[p] # "called" /\ End(p)
      /\ intents' = [intents EXCEPT ![a] = i]
      /\ UNCHANGED <<loopVars, selector, receipts, remote, faults>>
  BY DEF StopShort, Holds
<1>2. /\ a \in Actions /\ JobFits(pc[p], j, intents[a])
      /\ intents[a] \in Intents \cup {NoIntent}
      /\ intents[a] # NoIntent => IntentFits(a, intents[a])
  BY <1>1, AtWork
<1>3. /\ j.intent = intents[a] /\ j.intent \in Intents /\ IntentFits(a, j.intent)
      /\ j.intent.receipt = NoReceipt
  BY <1>1, <1>2 DEF JobFits
<1>4. /\ i \in Intents /\ i.attempted = j.intent.attempted /\ i.before = j.intent.before
      /\ i.target = j.intent.target /\ i.receipt = j.intent.receipt /\ i.state = pc[p]
  BY <1>1, <1>3, IntentUpdates DEF Intents
<1>5. IntentFits(a, i)
  BY <1>1, <1>3, <1>4 DEF IntentFits
<1>6. intents[a] # NoIntent =>
           /\ intents[a].receipt # NoReceipt => i.receipt = intents[a].receipt
           /\ intents[a].state = "finalized" => i = intents[a]
           /\ intents[a].attempted => i.attempted
  BY <1>3, <1>4 DEF IntentFits
<1> HIDE DEF i
<1> QED
  BY <1>1, <1>2, <1>4, <1>5, <1>6, WritingEnd

LEMMA FinishStep ==
    ASSUME IInv, [Next]_vars, NEW p \in Procs, Finish(p)
    PROVE  IInv' /\ AllStay
<1> DEFINE j == job[p]
           a == j.action
           i == [j.intent EXCEPT !.state = "finalized"]
<1>1. /\ pc[p] = "finish" /\ Holds(p) /\ pc[p] # "called" /\ End(p)
      /\ intents' = [intents EXCEPT ![a] = i]
      /\ UNCHANGED <<loopVars, selector, receipts, remote, faults>>
  BY DEF Finish, Holds
<1>2. /\ a \in Actions /\ JobFits("finish", j, intents[a])
      /\ intents[a] \in Intents \cup {NoIntent}
      /\ intents[a] # NoIntent => IntentFits(a, intents[a])
  BY <1>1, AtWork
<1>3. /\ j.intent = intents[a] /\ j.intent \in Intents /\ IntentFits(a, j.intent)
      /\ j.intent.receipt # NoReceipt
  BY <1>2 DEF JobFits
<1>4. /\ i \in Intents /\ i.attempted = j.intent.attempted /\ i.before = j.intent.before
      /\ i.target = j.intent.target /\ i.receipt = j.intent.receipt
  BY <1>3, IntentUpdates DEF Intents
<1>5. IntentFits(a, i)
  BY <1>3, <1>4 DEF IntentFits
<1>6. intents[a].state = "finalized" => i = intents[a]
  BY <1>3 DEF Intents
<1> HIDE DEF i
<1> QED
  BY <1>1, <1>2, <1>3, <1>4, <1>5, <1>6, WritingEnd

(* The receipt that a process is about to name in its intent. *)
LEMMA ReceiptMade ==
    ASSUME IInv, NEW p \in Procs, pc[p] = "mint"
    PROVE  LET r == Receipt(job[p], job[p].after)
           IN  r \in Receipts /\ r.action = job[p].action /\ ReceiptFits(r)
<1> DEFINE j == job[p]
           a == j.action
           r == Receipt(j, j.after)
           mine == {x \in receipts : x.action = a}
<1>1. /\ a \in Actions /\ j \in Jobs /\ JobFits("mint", j, intents[a])
      /\ {j.expected, j.after} \subseteq SubjectStates(a)
      /\ intents[a] \in Intents \cup {NoIntent}
      /\ intents[a] # NoIntent => IntentFits(a, intents[a])
      /\ selector \in Selectors /\ SubjectStates(a) \subseteq States
  BY AtWork, LiveTyped DEF IInv, TypeOK
<1>2. /\ j.intent \in Intents /\ SameRequest(j, j.intent) /\ TargetFits(a, j.target)
      /\ TargetValid(j) /\ (Operation(a) = "rollback" => j.after = j.target.before)
  BY <1>1 DEF JobFits
<1>3. j.intent.before = j.expected /\ j.expected \in States /\ j.after \in States
  BY <1>1, <1>2 DEF SameRequest
<1>4. Cardinality(mine) \in Nat
  <2>1. IsFiniteSet(receipts) /\ mine \subseteq receipts
    BY DEF IInv, FilesSound
  <2> QED
    BY <2>1, FS_Subset, FS_CardinalityType
<1>5. /\ r.action = a /\ r.before = j.intent.before /\ r.after = j.after /\ r.at = Cardinality(mine)
      /\ r.status = IF Operation(a) = "rollback" THEN "ROLLED_BACK" ELSE "APPLIED"
      /\ r = [action |-> r.action, status |-> r.status, before |-> r.before, after |-> r.after,
              at |-> r.at]
  BY DEF Receipt
<1> HIDE DEF mine, r
<1>6. r \in Receipts
  BY <1>1, <1>3, <1>4, <1>5 DEF Receipts
<1>7. ASSUME r.status = "ROLLED_BACK" PROVE Undoes(r)
  <2>1. Operation(a) = "rollback"
    BY <1>5, <1>7
  <2>2. j.target \in receipts /\ j.target.action = selector[a].target
    BY <1>2, <2>1 DEF TargetFits
  <2>3. j.target.status = "APPLIED" /\ j.target.after = j.expected
    BY <1>2, <2>1 DEF TargetValid
  <2>4. j.target.before = r.after /\ j.target.after = r.before
    BY <1>2, <1>3, <1>5, <2>1, <2>3
  <2> QED
    BY <1>5, <2>2, <2>3, <2>4 DEF Undoes
<1>8. ReceiptFits(r)
  BY <1>1, <1>3, <1>5, <1>7 DEF ReceiptFits
<1> QED
  BY <1>5, <1>6, <1>8 DEF r

LEMMA MintStep ==
    ASSUME IInv, [Next]_vars, NEW p \in Procs, Mint(p)
    PROVE  IInv' /\ AllStay
<1> DEFINE j == job[p]
           a == j.action
           r == Receipt(j, j.after)
           i == [j.intent EXCEPT !.receipt = r]
           k == [j EXCEPT !.intent = i]
<1>1. /\ pc[p] = "mint" /\ Holds(p) /\ WriteIntent(p, i) /\ Goto(p, "store")
      /\ UNCHANGED <<loopVars, selector, receipts, remote, faults>>
  BY DEF Mint, Holds
<1>2. r \in Receipts /\ r.action = a /\ ReceiptFits(r)
  BY <1>1, ReceiptMade
<1> HIDE DEF r
<1>3. /\ a \in Actions /\ j \in Jobs /\ JobFits("mint", j, intents[a])
      /\ {j.expected, j.after} \subseteq SubjectStates(a)
      /\ intents[a] \in Intents \cup {NoIntent}
      /\ intents[a] # NoIntent => IntentFits(a, intents[a])
  BY <1>1, AtWork
<1>4. /\ j.intent = intents[a] /\ j.intent \in Intents /\ IntentFits(a, j.intent)
      /\ j.intent.receipt = NoReceipt /\ SameRequest(j, j.intent) /\ TargetFits(a, j.target)
  BY <1>3 DEF JobFits
<1>5. /\ i \in Intents /\ i.attempted = j.intent.attempted /\ i.before = j.intent.before
      /\ i.target = j.intent.target /\ i.receipt = r /\ i.state = j.intent.state
  BY <1>2, <1>4, IntentUpdates DEF Intents
<1>6. /\ k \in Jobs /\ k.action = a /\ k.intent = i /\ k.target = j.target
      /\ k.expected = j.expected /\ k.after = j.after
  BY <1>3, <1>5, JobUpdates
<1>7. IntentFits(a, i) /\ i # NoIntent /\ i.receipt # NoReceipt
  BY <1>2, <1>4, <1>5, ActionAbsentAssumption DEF IntentFits
<1>8. SameRequest(k, i)
  BY <1>4, <1>5, <1>6 DEF SameRequest
<1>9. JobFits("store", k, i)
  BY <1>4, <1>6, <1>7, <1>8 DEF JobFits
<1>10. /\ job' = [job EXCEPT ![p] = k] /\ intents' = [intents EXCEPT ![a] = i]
       /\ pc' = [pc EXCEPT ![p] = "store"] /\ "store" \in Labels \ {"idle"}
       /\ {k.expected, k.after} \subseteq SubjectStates(a)
  BY <1>1, <1>3, <1>6 DEF WriteIntent, Goto, Labels
<1>11. /\ OnlyMoves(p) /\ loopPc'[p] = "none"
       /\ UNCHANGED <<took, selector, receipts, ticket, issues, faults>>
  BY <1>1, <1>10 DEF OnlyMoves, loopVars, loopFiles, remote, IInv, TypeOK
<1>12. intents[a] # NoIntent =>
           /\ intents[a].receipt # NoReceipt => i.receipt = intents[a].receipt
           /\ intents[a].state = "finalized" => i = intents[a]
           /\ intents[a].attempted => i.attempted
  BY <1>4, <1>5 DEF IntentFits
<1> HIDE DEF k, i
<1> QED
  BY <1>1, <1>3, <1>5, <1>6, <1>7, <1>9, <1>10, <1>11, <1>12, WritingOn

(* The receipt that the intent names becomes a file. *)
LEMMA StoreStep ==
    ASSUME IInv, [Next]_vars, NEW p \in Procs, Store(p)
    PROVE  IInv' /\ AllStay
<1> DEFINE j == job[p]
           a == j.action
           r == j.intent.receipt
<1>1. /\ pc[p] = "store" /\ Holds(p) /\ receipts' = receipts \cup {r}
      /\ UNCHANGED <<loopVars, selector, intents, remote, job, faults>>
      /\ pc' = [pc EXCEPT ![p] = "finish"] /\ "finish" \in Labels
  BY DEF Store, Holds, Goto, Labels
<1>2. /\ a \in Actions /\ j \in Jobs /\ JobFits("store", j, intents[a])
      /\ {j.expected, j.after} \subseteq SubjectStates(a)
      /\ intents[a] \in Intents \cup {NoIntent}
      /\ intents[a] # NoIntent => IntentFits(a, intents[a])
  BY <1>1, AtWork
<1>3. /\ j.intent = intents[a] /\ intents[a] \in Intents /\ r # NoReceipt
      /\ r.action = a /\ ReceiptFits(r) /\ intents[a] # NoIntent
  BY <1>2 DEF JobFits, IntentFits
<1>4. r \in Receipts
  BY <1>3 DEF Intents
<1>5. FilesSound'
  <2>1. \A b \in Actions : intents[b] # NoIntent => IntentFits(b, intents[b])'
    BY <1>1, FitsOn DEF IInv, FilesSound
  <2>2. \A x \in receipts' : ReceiptFits(x)'
    BY <1>1, <1>3, FitsOn DEF IInv, FilesSound
  <2>3. ReceiptsRecorded'
    BY <1>1, <1>3 DEF IInv, FilesSound, ReceiptsRecorded
  <2>4. IsFiniteSet(receipts)'
    BY <1>1, FS_AddElement DEF IInv, FilesSound
  <2> QED
    BY <1>1, <2>1, <2>2, <2>3, <2>4 DEF FilesSound
<1>6. AllStay
  BY <1>1 DEF AllStay, Stays
<1>7. AttemptIsDurable'
  BY <1>1, <1>6, AttemptsStay DEF loopVars, remote
<1>8. j # NoJob /\ j \in Jobs \cup {NoJob} /\ JobFits("finish", j, intents'[j.action])
  BY <1>1, <1>2, ActionAbsentAssumption DEF JobFits
<1>9. job' = [job EXCEPT ![p] = j] /\ loopPc'[p] = "none" /\ OnlyMoves(p)
  BY <1>1 DEF OnlyMoves, loopVars, IInv, TypeOK
<1>10. \A q \in Procs \ {p} : Holds(q) => job[q].action # j.action
  BY <1>1, Alone
<1>11. /\ ticket' \in Tickets /\ issues' \subseteq Issues /\ faults' \in 0 .. MaxFaults
       /\ intents' \in [Actions -> Intents \cup {NoIntent}]
       /\ receipts \subseteq receipts' /\ receipts' \subseteq Receipts
       /\ \A q \in Procs \ {p} : Holds(q) => intents'[job[q].action] = intents[job[q].action]
  BY <1>1, <1>4 DEF IInv, TypeOK, remote
<1> HIDE DEF j
<1> QED
  BY <1>1, <1>2, <1>5, <1>6, <1>7, <1>8, <1>9, <1>10, <1>11, Assemble

-----------------------------------------------------------------------------
(* The steps that change the loop or the tracker. *)

(* p's locals do not change and neither do the files. *)
LEMMA OutsideMove ==
    ASSUME IInv, [Next]_vars, NEW p \in Procs, Holds(p), OnlyMoves(p),
           NEW label \in Labels \ {"idle"}, pc' = [pc EXCEPT ![p] = label],
           JobFits(label, job[p], intents[job[p].action]),
           label # "called" => loopPc'[p] = "none",
           loopPc'[p] \notin {"none", "ok", "error"} => call'[p].action = job[p].action,
           ticket' \in Tickets, issues' \subseteq Issues, faults' \in 0 .. MaxFaults,
           UNCHANGED <<selector, intents, receipts, job>>,
           AttemptIsDurable'
    PROVE  IInv' /\ AllStay
<1> DEFINE j == job[p]
<1>1. pc[p] # "idle"
  BY DEF Holds
<1>2. /\ j \in Jobs \cup {NoJob} /\ j # NoJob
      /\ {j.expected, j.after} \subseteq SubjectStates(j.action)
  BY <1>1, AtWork, ActionAbsentAssumption
<1>3. FilesSound' /\ AllStay
  BY FilesUntouched
<1>4. job' = [job EXCEPT ![p] = j]
  BY DEF IInv, TypeOK
<1>5. \A q \in Procs \ {p} : Holds(q) => job[q].action # j.action
  BY Alone
<1>6. receipts' \subseteq Receipts /\ intents' \in [Actions -> Intents \cup {NoIntent}]
  BY DEF IInv, TypeOK
<1>7. JobFits(label, j, intents'[j.action]) /\ label \in Labels /\ label # "idle"
  OBVIOUS
<1> HIDE DEF j
<1>8. loopPc'[p] \notin {"none", "ok", "error"} => call'[p].action = j.action
  BY DEF j
<1> QED
  BY <1>2, <1>3, <1>4, <1>5, <1>6, <1>7, <1>8, Assemble

(* What a change of the tracker leaves behind. *)
LEMMA Effects ==
    ASSUME IInv, NEW p \in Procs, pc[p] = "mutate", Effect(job[p])
    PROVE  /\ ticket' \in Tickets
           /\ issues' \subseteq Issues
           /\ \A b \in Actions \ {job[p].action} :
                  ticket'.comments[b] = ticket.comments[b] /\ Own(b)' = Own(b)
<1> DEFINE j == job[p]
           a == j.action
<1>1. /\ a \in Actions /\ selector \in Selectors /\ Operation(a) \in Operations
      /\ ~OnLoop(a) /\ pc[p] # "idle"
  BY AtWork, Subjects DEF JobFits, IInv, TypeOK
<1>2. /\ ticket \in Tickets /\ issues \subseteq Issues
      /\ ticket.comments \in [Actions -> Nat]
  BY DEF IInv, TypeOK, Tickets
<1>3. CASE Operation(a) = "comment"
  <2>1. [ticket EXCEPT !.comments[a] = 1] \in Tickets
    BY <1>1, <1>2 DEF Tickets
  <2>2. \A b \in Actions \ {a} : [ticket EXCEPT !.comments[a] = 1].comments[b] = ticket.comments[b]
    BY <1>1, <1>2 DEF Tickets
  <2>3. /\ ticket' \in {ticket, [ticket EXCEPT !.comments[a] = 1]}
        /\ issues' = issues
    BY <1>3 DEF Effect
  <2> QED
    BY <1>2, <2>1, <2>2, <2>3 DEF Own
<1>4. CASE Operation(a) = "priority"
  <2>1. ticket' = [ticket EXCEPT !.priority = "asked"] /\ issues' = issues
    BY <1>4 DEF Effect
  <2> QED
    BY <1>2, <2>1 DEF Own, Tickets
<1>5. CASE Operation(a) = "rollback"
  <2>1. ticket' = [ticket EXCEPT !.priority = j.target.before.priority] /\ issues' = issues
    BY <1>5 DEF Effect
  <2>2. SubjectStates(a) = Tickets
    BY <1>1, <1>5, Subjects DEF OnLoop, SubjectStates
  <2>3. j.target.before \in Tickets
    BY <1>1, <1>5, <2>2, Restores
  <2>4. j.target.before.priority \in {"asIs", "asked"}
    BY <2>3 DEF Tickets
  <2> QED
    BY <1>2, <2>1, <2>4 DEF Own, Tickets
<1>6. CASE Operation(a) = "create"
  <2>1. issues' \in {issues, issues \cup {<<a, 0>>}} /\ ticket' = ticket
    BY <1>6 DEF Effect
  <2>2. <<a, 0>> \in Issues /\ <<a, 0>>[1] = a
    BY <1>1 DEF Issues
  <2> QED
    BY <1>2, <2>1, <2>2 DEF Own
<1>7. Operation(a) # "pause"
  BY <1>1 DEF OnLoop, Subject
<1> QED
  BY <1>1, <1>3, <1>4, <1>5, <1>6, <1>7 DEF Operations

LEMMA MutateStep ==
    ASSUME IInv, [Next]_vars, NEW p \in Procs, Mutate(p)
    PROVE  IInv' /\ AllStay
<1> DEFINE j == job[p]
           a == j.action
<1>1. pc[p] = "mutate" /\ Holds(p) /\ UNCHANGED <<loopVars, selector, stored, job>>
  BY DEF Mutate, Holds
<1>2. a \in Actions /\ JobFits("mutate", j, intents[a])
  BY <1>1, AtWork
<1>3. /\ JobFits("readback", j, intents[a]) /\ JobFits("partial", j, intents[a])
      /\ intents[a] # NoIntent /\ intents[a].attempted
  BY <1>2 DEF JobFits
<1>4. faults' \in 0 .. MaxFaults
  BY FaultsLeft DEF Mutate
<1>5. /\ ticket' \in Tickets /\ issues' \subseteq Issues
      /\ \A b \in Actions \ {a} : ticket'.comments[b] = ticket.comments[b] /\ Own(b)' = Own(b)
  <2>1. CASE Effect(j)
    BY <1>1, <2>1, Effects
  <2>2. CASE UNCHANGED remote
    BY <2>2 DEF remote, Own, IInv, TypeOK
  <2> QED
    BY <2>1, <2>2 DEF Mutate
<1>6. took' = took /\ intents' = intents /\ receipts' = receipts
  BY <1>1 DEF loopVars, stored
<1>7. AttemptIsDurable'
  BY <1>3, <1>5, <1>6 DEF IInv, AttemptIsDurable
<1>8. PICK label \in {"readback", "partial"} : pc' = [pc EXCEPT ![p] = label]
  BY DEF Mutate, Goto
<1>9. label \in Labels \ {"idle"} /\ label # "called" /\ JobFits(label, j, intents[a])
  BY <1>3 DEF Labels
<1>10. OnlyMoves(p) /\ loopPc'[p] = "none"
  BY <1>1, <1>8 DEF OnlyMoves, loopVars, IInv, TypeOK
<1> QED
  BY <1>1, <1>4, <1>5, <1>6, <1>7, <1>8, <1>9, <1>10, OutsideMove

LEMMA CalledStep ==
    ASSUME IInv, [Next]_vars, NEW p \in Procs, Called(p)
    PROVE  IInv' /\ AllStay
<1> DEFINE j == job[p]
           a == j.action
           label == IF loopPc[p] = "ok" THEN "readback" ELSE "partial"
<1>1. /\ pc[p] = "called" /\ Holds(p) /\ UNCHANGED <<selector, stored, remote, job, faults>>
      /\ pc' = [pc EXCEPT ![p] = label] /\ loopPc' = [loopPc EXCEPT ![p] = "none"]
      /\ UNCHANGED <<loopFiles, call, took>>
  BY DEF Called, Holds, Goto, Return, LoopGoto
<1>2. JobFits("called", j, intents[a])
  BY <1>1, AtWork
<1>3. JobFits(label, j, intents[a])
  BY <1>2 DEF JobFits
<1>4. label \in Labels \ {"idle"} /\ label # "called"
  BY DEF Labels
<1>5. OnlyMoves(p) /\ loopPc'[p] = "none"
  BY <1>1 DEF OnlyMoves, IInv, TypeOK, LoopTypeOK
<1>6. UNCHANGED <<took, ticket, issues, intents, receipts, selector, job>>
  BY <1>1 DEF remote, stored
<1>7. AttemptIsDurable'
  BY <1>6, AttemptsStay, FilesUntouched
<1>8. ticket' \in Tickets /\ issues' \subseteq Issues /\ faults' \in 0 .. MaxFaults
  BY <1>1, <1>6 DEF IInv, TypeOK
<1> HIDE DEF label
<1> QED
  BY <1>1, <1>3, <1>4, <1>5, <1>6, <1>7, <1>8, OutsideMove

LEMMA CrashStep ==
    ASSUME IInv, [Next]_vars, NEW p \in Procs, Crash(p)
    PROVE  IInv' /\ AllStay
<1>1. /\ pc' = [pc EXCEPT ![p] = "idle"] /\ job' = [job EXCEPT ![p] = NoJob]
      /\ loopPc' = [loopPc EXCEPT ![p] = "none"] /\ call' = [call EXCEPT ![p] = NoCall]
      /\ UNCHANGED <<took, selector, intents, receipts, ticket, issues>>
  BY DEF Crash, End, Goto, DieInLoop, Settle, LoopGoto, stored, remote
<1>2. OnlyMoves(p) /\ loopPc'[p] = "none"
  BY <1>1 DEF OnlyMoves, IInv, TypeOK, LoopTypeOK
<1>3. FilesSound' /\ AllStay
  BY <1>1, FilesUntouched
<1>4. AttemptIsDurable'
  BY <1>1, <1>3, AttemptsStay
<1>5. faults' \in 0 .. MaxFaults
  BY FaultsLeft DEF Crash
<1>6. /\ ticket' \in Tickets /\ issues' \subseteq Issues /\ receipts' \subseteq Receipts
      /\ intents' \in [Actions -> Intents \cup {NoIntent}] /\ "idle" \in Labels
  BY <1>1 DEF IInv, TypeOK, Labels
<1> QED
  BY <1>1, <1>2, <1>3, <1>4, <1>5, <1>6, Assemble

(* What a step of the adapter does to its call. *)
LEMMA AdapterEffects ==
    ASSUME IInv, NEW p \in Procs, LoopStep(p) \/ FailLoop(p)
    PROVE  /\ loopPc[p] \notin {"none", "ok", "error"}
           /\ \A q \in Procs \ {p} : loopPc'[q] = loopPc[q] /\ call'[q] = call[q]
           /\ loopPc'[p] \notin {"none", "ok", "error"} => call'[p].action = call[p].action
           /\ took' \subseteq took \cup {call[p].action}
<1>1. loopPc \in [Procs -> LoopLabels] /\ call \in [Procs -> Calls \cup {NoCall}]
  BY DEF IInv, TypeOK, LoopTypeOK
<1>2. loopPc[p] \notin {"none", "ok", "error"}
  BY DEF LoopStep, FailLoop, Acquire, ReadLoopIntent, Compare, Plan, Announce, AttemptLoop, WriteLive,
         WriteHistory, FinalizeLoop
<1>3. call[p] \in Calls
  BY <1>2, Running DEF IInv
<1>4. \A i : [call[p] EXCEPT !.intent = i].action = call[p].action
  BY <1>3 DEF Calls
<1>5. CASE Acquire(p) \/ WriteLive(p) \/ WriteHistory(p)
  BY <1>1, <1>2, <1>5 DEF Acquire, WriteLive, WriteHistory, LoopGoto
<1>6. CASE ReadLoopIntent(p) \/ Plan(p) \/ Compare(p)
  <2>1. /\ \/ call' = call
           \/ \E i : call' = [call EXCEPT ![p].intent = i]
           \/ Settle(p, "ok") \/ Settle(p, "error")
        /\ \E label : loopPc' = [loopPc EXCEPT ![p] = label]
        /\ took' = took
    BY <1>6 DEF ReadLoopIntent, Plan, Compare, LoopGoto, Settle
  <2>2. CASE call' = call
    BY <1>1, <1>2, <2>1, <2>2
  <2>3. CASE \E i : call' = [call EXCEPT ![p].intent = i]
    BY <1>1, <1>2, <1>4, <2>1, <2>3
  <2>4. CASE Settle(p, "ok") \/ Settle(p, "error")
    BY <1>1, <1>2, <2>1, <2>4 DEF Settle, LoopGoto
  <2> QED
    BY <2>1, <2>2, <2>3, <2>4
<1>7. CASE Announce(p) \/ AttemptLoop(p)
  BY <1>1, <1>2, <1>4, <1>7 DEF Announce, AttemptLoop, WriteLoopIntent, LoopGoto
<1>8. CASE FinalizeLoop(p) \/ FailLoop(p)
  BY <1>1, <1>2, <1>8 DEF FinalizeLoop, FailLoop, LoopGoto, Settle
<1> QED
  BY <1>5, <1>6, <1>7, <1>8 DEF LoopStep

LEMMA AdapterWorks ==
    ASSUME IInv, [Next]_vars, NEW p \in Procs, AdapterStep(p) \/ AdapterFails(p)
    PROVE  IInv' /\ AllStay
<1> DEFINE j == job[p]
           a == j.action
<1>1. UNCHANGED <<selector, intents, receipts, ticket, issues, pc, job>>
  BY DEF AdapterStep, AdapterFails, actionVars, stored, remote
<1>2. LoopStep(p) \/ FailLoop(p)
  BY DEF AdapterStep, AdapterFails
<1>3. /\ loopPc[p] \notin {"none", "ok", "error"}
      /\ \A q \in Procs \ {p} : loopPc'[q] = loopPc[q] /\ call'[q] = call[q]
      /\ loopPc'[p] \notin {"none", "ok", "error"} => call'[p].action = call[p].action
      /\ took' \subseteq took \cup {call[p].action}
  BY <1>2, AdapterEffects
<1>4. pc[p] = "called" /\ Holds(p) /\ call[p].action = a
  BY <1>3 DEF IInv, TypeOK, JobSound, Holds
<1>5. a \in Actions /\ JobFits("called", j, intents[a])
  BY <1>4, AtWork
<1>6. intents[a] # NoIntent /\ intents[a].attempted
  BY <1>5 DEF JobFits
<1>7. AttemptIsDurable'
  BY <1>1, <1>3, <1>4, <1>6 DEF IInv, AttemptIsDurable, Own
<1>8. OnlyMoves(p)
  BY <1>1, <1>3 DEF OnlyMoves
<1>9. pc' = [pc EXCEPT ![p] = "called"] /\ "called" \in Labels \ {"idle"}
  BY <1>1, <1>4 DEF IInv, TypeOK, Labels
<1>10. faults' \in 0 .. MaxFaults
  BY FaultsLeft DEF AdapterStep, AdapterFails, actionVars
<1>11. ticket' \in Tickets /\ issues' \subseteq Issues
  BY <1>1 DEF IInv, TypeOK
<1> QED
  BY <1>1, <1>3, <1>4, <1>5, <1>7, <1>8, <1>9, <1>10, <1>11, OutsideMove

LEMMA UserEditsStep ==
    ASSUME IInv, [Next]_vars, UserEdits
    PROVE  IInv' /\ AllStay
<1>1. /\ UNCHANGED <<live, loopIntent, history, loopPc, call, took, selector, intents, receipts, pc, job>>
      /\ faults' \in 0 .. MaxFaults
  BY FaultsLeft DEF UserEdits, loopVars, loopFiles, stored
<1>2. /\ ticket \in Tickets /\ issues \subseteq Issues /\ NoAction \notin Actions
  BY StrategicAssumption DEF IInv, TypeOK
<1>3. <<NoAction, 0>> \in Issues /\ <<NoAction, 0>>[1] = NoAction
  BY DEF Issues
<1>4. ticket' \in Tickets /\ ticket'.comments = ticket.comments
  BY <1>2 DEF UserEdits, Tickets
<1>5. issues' \subseteq Issues /\ \A b \in Actions : Own(b)' = Own(b)
  BY <1>2, <1>3 DEF UserEdits, Own
<1>6. FilesSound' /\ AllStay
  BY <1>1, FilesUntouched
<1>7. LoopIInv'
  BY AdapterMoves, LoopStepInvariant DEF IInv
<1>8. TypeOK'
  <2>1. LoopTypeOK'
    BY <1>7 DEF LoopIInv
  <2> QED
    BY <1>1, <1>4, <1>5, <2>1 DEF IInv, TypeOK, SubjectStates, Subject, Operation
<1>9. ActionLeases' /\ \A p \in Procs : JobSound(p)'
  BY <1>1 DEF IInv, ActionLeases, Holds, JobSound, JobFits, TargetFits, TargetValid, SameRequest,
              Operation, OnLoop, Subject
<1>10. AttemptIsDurable'
  BY <1>1, <1>4, <1>5 DEF IInv, AttemptIsDurable
<1> QED
  BY <1>6, <1>7, <1>8, <1>9, <1>10 DEF IInv

-----------------------------------------------------------------------------
LEMMA InitInvariant == Init => IInv
<1> SUFFICES ASSUME Init PROVE IInv
  OBVIOUS
<1>1. LoopIInv
  BY LoopInitInvariant DEF Init
<1>2. FreshTicket \in Tickets /\ \A a \in Actions : FreshTicket.comments[a] = 0
  BY DEF FreshTicket, Tickets
<1>3. TypeOK
  <2>1. LoopTypeOK /\ \A p \in Procs : loopPc[p] = "none"
    BY <1>1 DEF LoopIInv, Init, LoopInit
  <2>2. "idle" \in Labels /\ MaxFaults \in 0 .. MaxFaults
    BY StrategicAssumption DEF Labels
  <2> QED
    BY <1>2, <2>1, <2>2 DEF Init, TypeOK
<1>4. FilesSound
  BY FS_EmptySet DEF Init, FilesSound, ReceiptsRecorded
<1>5. ActionLeases /\ \A p \in Procs : JobSound(p)
  BY DEF Init, LoopInit, ActionLeases, Holds, JobSound
<1>6. \A a \in Actions : Own(a) = NothingFound
  BY DEF Init, Own, NothingFound
<1>7. AttemptIsDurable
  BY <1>2, <1>6 DEF Init, LoopInit, AttemptIsDurable
<1> QED
  BY <1>1, <1>3, <1>4, <1>5, <1>7 DEF IInv

LEMMA StepInvariant == IInv /\ [Next]_vars => IInv' /\ AllStay
<1> SUFFICES ASSUME IInv, [Next]_vars PROVE IInv' /\ AllStay
  OBVIOUS
<1>1. CASE UNCHANGED vars
  <2>1. UNCHANGED <<live, loopIntent, history, loopPc, call, took, selector, intents, receipts,
                    ticket, issues, pc, job, faults>>
    BY <1>1 DEF vars, loopVars, loopFiles, actionVars, stored, remote
  <2>2. FilesSound' /\ AllStay
    BY <2>1, FilesUntouched
  <2>3. LoopIInv'
    BY AdapterMoves, LoopStepInvariant DEF IInv
  <2>4. TypeOK'
    <3>1. LoopTypeOK'
      BY <2>3 DEF LoopIInv
    <3> QED
      BY <2>1, <3>1 DEF IInv, TypeOK, SubjectStates, Subject, Operation
  <2>5. ActionLeases' /\ \A p \in Procs : JobSound(p)'
    BY <2>1 DEF IInv, ActionLeases, Holds, JobSound, JobFits, TargetFits, TargetValid, SameRequest,
                Operation, OnLoop, Subject
  <2>6. AttemptIsDurable'
    BY <2>1, <2>2, AttemptsStay
  <2> QED
    BY <2>2, <2>3, <2>4, <2>5, <2>6 DEF IInv
<1>2. ASSUME NEW p \in Procs, NEW a \in Actions, Apply(p, a) PROVE IInv' /\ AllStay
  BY <1>2, ApplyStep
<1>3. ASSUME NEW p \in Procs, Enter(p) \/ Replay(p) \/ Recover(p) \/ Check(p) \/ ReadBack(p)
      PROVE  IInv' /\ AllStay
  BY <1>3, EnterStep, ReplayStep, RecoverStep, CheckStep, ReadBackStep
<1>4. ASSUME NEW p \in Procs, Pend(p) \/ Attempt(p) \/ StopShort(p) \/ Mint(p) \/ Store(p) \/ Finish(p)
      PROVE  IInv' /\ AllStay
  BY <1>4, PendStep, AttemptStep, StopShortStep, MintStep, StoreStep, FinishStep
<1>5. ASSUME NEW p \in Procs,
             Mutate(p) \/ Called(p) \/ Crash(p) \/ AdapterStep(p) \/ AdapterFails(p)
      PROVE  IInv' /\ AllStay
  BY <1>5, MutateStep, CalledStep, CrashStep, AdapterWorks
<1> QED
  BY <1>1, <1>2, <1>3, <1>4, <1>5, UserEditsStep DEF Next

(* The invariant holds throughout. *)
THEOREM Invariant == Spec => []IInv
BY InitInvariant, StepInvariant, PTL DEF Spec

(* Files, tracker and local variables keep their shape. *)
THEOREM TypeCorrect == Spec => []TypeOK
<1>1. IInv => TypeOK
  BY DEF IInv
<1> QED
  BY <1>1, Invariant, PTL

(* A receipt's file exists only when its action's intent names it, so that an
   action never has two, through every crash and replay. *)
THEOREM OneReceipt == Spec => []ReceiptsRecorded
<1>1. IInv => ReceiptsRecorded
  BY DEF IInv, FilesSound
<1> QED
  BY <1>1, Invariant, PTL

(* An action that has a receipt is not on the way to another change. *)
THEOREM Inert == Spec => []AnsweredIsInert
<1>1. IInv => AnsweredIsInert
  BY DEF IInv, JobSound, JobFits, AnsweredIsInert
<1> QED
  BY <1>1, Invariant, PTL

(* No change of the loop or the tracker without its attempt on disk. *)
THEOREM AttemptsAreDurable == Spec => []AttemptIsDurable
<1>1. IInv => AttemptIsDurable
  BY DEF IInv
<1> QED
  BY <1>1, Invariant, PTL

(* A rollback's receipt reverses a receipt of the action it was to undo. *)
THEOREM RollbacksUndo == Spec => []RollbackUndoes
<1>1. IInv => RollbackUndoes
  BY DEF IInv, FilesSound, ReceiptFits, Undoes, RollbackUndoes
<1> QED
  BY <1>1, Invariant, PTL

(* A receipt that an intent names stays, and a finalized intent does not change. *)
THEOREM ReceiptsAreKept == Spec => ReceiptKept
<1>1. AllStay => \A a \in Actions : intents[a] # NoIntent =>
          /\ intents[a].receipt # NoReceipt => intents'[a].receipt = intents[a].receipt
          /\ intents[a].state = "finalized" => intents'[a] = intents[a]
  BY DEF AllStay, Stays
<1> QED
  BY <1>1, Invariant, StepInvariant, PTL DEF Spec, ReceiptKept

(* apply uses the loop's adapter as it may be used: every behaviour of the two is
   one of the adapter's own, and what is proved of the adapter holds here. *)
THEOREM UsesTheAdapter == Spec => LoopSpec
<1>1. Init => LoopInit
  BY DEF Init
<1> QED
  BY <1>1, AdapterMoves, Invariant, PTL DEF Spec, LoopSpec
=============================================================================
