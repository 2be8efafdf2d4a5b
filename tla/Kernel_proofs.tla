---------------------------- MODULE Kernel_proofs ----------------------------
(***************************************************************************)
(* Proofs about the kernel, for every number of overlapping commands, goals, *)
(* tickets and commits, and any length of the evidence.                     *)
(*                                                                         *)
(* The argument: a command derives the state it writes from one state it    *)
(* read.  What holds of single states and is preserved by every command     *)
(* therefore holds of the file and of every copy a command works on,        *)
(* whatever they overwrite of each other.                                  *)
(*                                                                         *)
(* What relates two states of the file needs commands that do not overlap   *)
(* (Serial): then the one that runs works on a copy of what is in the file  *)
(* (Alone), and its write does what the command decided on that copy        *)
(* (Outcome).                                                              *)
(***************************************************************************)
EXTENDS Kernel, TLAPS

(* A ticket with evidence has a latest pointer (a finite list has a last
   element; carried along instead of proved by induction). *)
HasLatest(s) == \A t \in Tickets : Submitted(s, t) => Latest(s, t) # {}

(* What is true of the file and of every copy of it. *)
Sound(s) ==
    /\ s \in Stores
    /\ HasLatest(s)
    /\ \A t \in Tickets : s.ticket[t] = "done" => CompletionEvidence(s, t)
    /\ s.active # NoGoal => s.goal[s.active].status \in OpenStatuses

(* What a running command knows. *)
JobSound(p) ==
    /\ Sound(Mine(p))
    /\ job[p].command \in GoalCommands => Subject(p) \in Goals
    /\ job[p].command \in TicketCommands => Subject(p) \in Tickets
    /\ job[p].command = "verify run" => Submitted(Mine(p), Subject(p))

(* A verification ran because the latest submission had a digest. *)
Executed(p) ==
    /\ Submitted(Mine(p), Subject(p))
    /\ LatestDigest(Mine(p), Subject(p)) \in Commits \cup {NoCommit}

IInv ==
    /\ TypeOK
    /\ Sound(store)
    /\ \A p \in Procs : step[p] # "idle" => JobSound(p)
    /\ \A p \in Procs : At(p, "ran", "verify run") => Executed(p)

-----------------------------------------------------------------------------
(* The evidence list. *)

(* A pointer of another ticket changes nothing about a ticket's evidence. *)
LEMMA OtherPointer ==
    ASSUME NEW s \in Stores, NEW e \in Pointers, NEW t \in Tickets, e.ticket # t,
           HasLatest(s),
           NEW r, r.evidence = Append(s.evidence, e)
    PROVE  /\ Submitted(r, t) => Latest(r, t) # {}
           /\ CompletionEvidence(s, t) => CompletionEvidence(r, t)
PROOF
  <1> DEFINE old == s.evidence
             new == r.evidence
  <1>1. new = Append(old, e) /\ old \in Seq(Pointers)
    BY DEF Stores
  <1>2. /\ DOMAIN old \subseteq DOMAIN new
        /\ \A i \in DOMAIN old : new[i] = old[i]
        /\ \A i \in DOMAIN new : i \notin DOMAIN old => new[i] = e
    BY <1>1
  <1> HIDE DEF old, new
  <1>3. \A i \in DOMAIN new : new[i].ticket = t => i \in DOMAIN old
    BY <1>2
  <1>4. Latest(r, t) = Latest(s, t)
    BY <1>2, <1>3 DEF Latest, old, new
  <1>5. Submitted(r, t) = Submitted(s, t)
    BY <1>2, <1>3 DEF Submitted, old, new
  <1>6. Submitted(s, t) => LatestDigest(r, t) = LatestDigest(s, t)
    <2> SUFFICES ASSUME Submitted(s, t) PROVE LatestDigest(r, t) = LatestDigest(s, t)
      OBVIOUS
    <2>1. Latest(s, t) # {} /\ Latest(s, t) \subseteq DOMAIN old
      BY DEF HasLatest, Latest, old
    <2>2. (CHOOSE i \in Latest(s, t) : TRUE) \in DOMAIN old
      BY <2>1
    <2> QED
      BY <1>2, <1>4, <2>2 DEF LatestDigest, old, new
  <1>7. ASSUME NEW d, HasPass(s, t, d) PROVE HasPass(r, t, d)
    BY <1>2, <1>7 DEF HasPass, old, new
  <1> QED
    BY <1>4, <1>5, <1>6, <1>7 DEF HasLatest, CompletionEvidence

(* The pointer added last is the ticket's latest. *)
LEMMA OwnPointer ==
    ASSUME NEW s \in Stores, NEW e \in Pointers,
           NEW r, r.evidence = Append(s.evidence, e)
    PROVE  /\ Latest(r, e.ticket) # {}
           /\ Submitted(r, e.ticket)
           /\ LatestDigest(r, e.ticket) = e.digest
           /\ e.outcome = "pass" => CompletionEvidence(r, e.ticket)
PROOF
  <1> DEFINE new == r.evidence
             n == Len(s.evidence) + 1
  <1>1. s.evidence \in Seq(Pointers)
    BY DEF Stores
  <1>2. /\ n \in DOMAIN new /\ n \in Nat
        /\ new[n] = e
        /\ \A i \in DOMAIN new : i \in Nat /\ i <= n
    BY <1>1
  <1> HIDE DEF n, new
  <1>3. Latest(r, e.ticket) = {n}
    BY <1>2 DEF Latest, new
  <1>4. Submitted(r, e.ticket)
    BY <1>2 DEF Submitted, new
  <1>5. LatestDigest(r, e.ticket) = e.digest
    BY <1>2, <1>3 DEF LatestDigest, new
  <1>6. ASSUME e.outcome = "pass" PROVE HasPass(r, e.ticket, e.digest)
    <2>1. e = [ticket |-> e.ticket, digest |-> e.digest, outcome |-> "pass"]
      BY <1>6 DEF Pointers
    <2> QED
      BY <1>2, <2>1 DEF HasPass, new
  <1> QED
    BY <1>3, <1>4, <1>5, <1>6 DEF CompletionEvidence

(* What adding a pointer and changing one ticket's status leaves sound. *)
LEMMA Recorded ==
    ASSUME NEW s, Sound(s), NEW t \in Tickets, NEW e \in Pointers, e.ticket = t,
           NEW status \in TicketStatuses,
           status = "done" => e.outcome = "pass"
    PROVE  Sound(AddEvidence(SetStatus(s, t, status), e))
PROOF
  <1> DEFINE r == AddEvidence(SetStatus(s, t, status), e)
  <1>1. s \in Stores /\ HasLatest(s)
    BY DEF Sound
  <1>2. /\ r \in Stores
        /\ r.evidence = Append(s.evidence, e)
        /\ r.ticket = [s.ticket EXCEPT ![t] = status]
        /\ r.goal = s.goal /\ r.active = s.active
    <2> DEFINE q == SetStatus(s, t, status)
    <2>1. /\ q \in Stores
          /\ q.evidence = s.evidence
          /\ q.ticket = [s.ticket EXCEPT ![t] = status]
          /\ q.goal = s.goal /\ q.active = s.active
      BY <1>1 DEF Stores, SetStatus
    <2> HIDE DEF q
    <2>3. Append(q.evidence, e) \in Seq(Pointers)
      BY <2>1 DEF Stores
    <2> DEFINE es == Append(q.evidence, e)
    <2> HIDE DEF es
    <2>4. /\ q \in Stores
          /\ es \in Seq(Pointers)
          /\ AddEvidence(q, e) = [q EXCEPT !.evidence = es]
      BY <2>1, <2>3 DEF es, AddEvidence
    <2>2. /\ AddEvidence(q, e) \in Stores
          /\ AddEvidence(q, e).evidence = Append(q.evidence, e)
          /\ AddEvidence(q, e).ticket = q.ticket
          /\ AddEvidence(q, e).goal = q.goal /\ AddEvidence(q, e).active = q.active
      BY <2>4 DEF Stores, es
    <2> QED
      BY <2>1, <2>2 DEF q
  <1> HIDE DEF r
  <1>3. HasLatest(r)
    <2> SUFFICES ASSUME NEW u \in Tickets, Submitted(r, u) PROVE Latest(r, u) # {}
      BY DEF HasLatest
    <2>1. CASE u = t
      BY <1>1, <1>2, <2>1, OwnPointer
    <2>2. CASE u # t
      BY <1>1, <1>2, <2>2, OtherPointer
    <2> QED
      BY <2>1, <2>2
  <1>4. ASSUME NEW u \in Tickets, r.ticket[u] = "done" PROVE CompletionEvidence(r, u)
    <2>1. CASE u = t
      BY <1>1, <1>2, <1>4, <2>1, OwnPointer DEF Stores
    <2>2. CASE u # t
      <3>1. s.ticket[u] = "done"
        BY <1>1, <1>2, <1>4, <2>2 DEF Stores
      <3> QED
        BY <1>1, <1>2, <2>2, <3>1, OtherPointer DEF Sound
    <2> QED
      BY <2>1, <2>2
  <1>5. \A u \in Tickets : r.ticket[u] = "done" => CompletionEvidence(r, u)
    BY <1>4
  <1>6. Sound(r)
    BY <1>2, <1>3, <1>5 DEF Sound
  <1> QED
    BY <1>6 DEF r

(* The evidence of a ticket depends on the evidence list alone. *)
LEMMA SameEvidence ==
    ASSUME NEW s, NEW r, r.evidence = s.evidence, NEW t
    PROVE  /\ CompletionEvidence(s, t) <=> CompletionEvidence(r, t)
           /\ Submitted(s, t) <=> Submitted(r, t)
           /\ Latest(s, t) = Latest(r, t)
PROOF
  <1>1. Latest(s, t) = Latest(r, t)
    BY DEF Latest
  <1>2. LatestDigest(s, t) = LatestDigest(r, t)
    BY <1>1 DEF LatestDigest
  <1> QED
    BY <1>1, <1>2 DEF CompletionEvidence, Submitted, HasPass

(* A ticket's status may change to done only on evidence. *)
LEMMA Restated ==
    ASSUME NEW s, Sound(s), NEW t \in Tickets, NEW status \in TicketStatuses,
           status = "done" => CompletionEvidence(s, t)
    PROVE  Sound(SetStatus(s, t, status))
PROOF
  <1> DEFINE r == SetStatus(s, t, status)
  <1>1. s \in Stores
    BY DEF Sound
  <1>2. /\ r \in Stores
        /\ r.evidence = s.evidence
        /\ r.ticket = [s.ticket EXCEPT ![t] = status]
        /\ r.goal = s.goal /\ r.active = s.active
    BY <1>1 DEF Stores, SetStatus
  <1> HIDE DEF r
  <1>3. HasLatest(r)
    BY <1>2, SameEvidence DEF Sound, HasLatest
  <1>4. \A u \in Tickets : r.ticket[u] = "done" => CompletionEvidence(r, u)
    BY <1>1, <1>2, SameEvidence DEF Sound, Stores
  <1>5. Sound(r)
    BY <1>2, <1>3, <1>4 DEF Sound
  <1> QED
    BY <1>5 DEF r

(* A goal command may leave any open goal active, or none. *)
LEMMA Regoaled ==
    ASSUME NEW s, Sound(s), NEW r \in Stores,
           r.ticket = s.ticket, r.evidence = s.evidence,
           r.active # NoGoal => r.goal[r.active].status \in OpenStatuses
    PROVE  Sound(r)
PROOF
  <1>1. HasLatest(r)
    BY SameEvidence DEF Sound, HasLatest
  <1>2. \A u \in Tickets : r.ticket[u] = "done" => CompletionEvidence(r, u)
    BY SameEvidence DEF Sound
  <1> QED
    BY <1>1, <1>2 DEF Sound

-----------------------------------------------------------------------------
(* The steps. *)

(* A command that writes a sound state ends and leaves the invariant. *)
LEMMA SaveSound ==
    ASSUME IInv, NEW p \in Procs, NEW s, Sound(s), Save(p, s)
    PROVE  IInv'
PROOF
  <1>1. TypeOK'
    BY DEF IInv, TypeOK, Save, End, Steps, Sound
  <1>2. \A q \in Procs : q # p => job'[q] = job[q] /\ step'[q] = step[q]
    BY DEF IInv, TypeOK, Save, End
  <1>3. step'[p] = "idle"
    BY DEF IInv, TypeOK, Save, End
  <1>4. Sound(store)'
    BY DEF Save
  <1>5. ASSUME NEW q \in Procs, step'[q] # "idle" PROVE JobSound(q)'
    BY <1>2, <1>3, <1>5 DEF IInv, JobSound, Mine, Subject
  <1>6. ASSUME NEW q \in Procs, At(q, "ran", "verify run")' PROVE Executed(q)'
    BY <1>2, <1>3, <1>6 DEF IInv, Executed, At, Mine, Subject
  <1> QED
    BY <1>1, <1>4, <1>5, <1>6 DEF IInv

(* What the goal commands write. *)
LEMMA GoalWritten ==
    ASSUME NEW s, Sound(s), NEW g \in Goals, NEW rec \in GoalRecords
    PROVE  /\ rec.status \in OpenStatuses \/ s.active # g =>
                  Sound([s EXCEPT !.goal[g] = rec])
           /\ rec.status \in OpenStatuses =>
                  Sound([s EXCEPT !.goal[g] = rec, !.active = g])
           /\ Sound([s EXCEPT !.goal[g] = rec,
                              !.active = IF s.active = g THEN NoGoal ELSE s.active])
PROOF
  <1> DEFINE gs == [s.goal EXCEPT ![g] = rec]
  <1>1. s \in Stores
    BY DEF Sound
  <1>2. /\ gs \in [Goals -> GoalRecords]
        /\ gs[g] = rec
        /\ \A h \in Goals : h # g => gs[h] = s.goal[h]
    BY <1>1 DEF Stores
  <1>3. s.active \in Goals \cup {NoGoal} /\ NoGoal \notin Goals
    BY <1>1, ConstantsAssumption DEF Stores
  <1>4. s.active # NoGoal => s.goal[s.active].status \in OpenStatuses
    BY DEF Sound
  <1> HIDE DEF gs
  <1>5. ASSUME NEW a \in Goals \cup {NoGoal}, a # NoGoal => gs[a].status \in OpenStatuses
        PROVE  Sound([s EXCEPT !.goal = gs, !.active = a])
    <2> DEFINE r == [s EXCEPT !.goal = gs, !.active = a]
    <2>1. /\ r \in Stores
          /\ r.ticket = s.ticket /\ r.evidence = s.evidence
          /\ r.goal = gs /\ r.active = a
      BY <1>1, <1>2 DEF Stores
    <2> HIDE DEF r
    <2>2. Sound(r)
      BY <1>5, <2>1, Regoaled
    <2> QED
      BY <2>2 DEF r
  <1>6. ASSUME s.active # NoGoal => gs[s.active].status \in OpenStatuses
        PROVE  Sound([s EXCEPT !.goal = gs])
    <2> DEFINE r == [s EXCEPT !.goal = gs]
    <2>1. /\ r \in Stores
          /\ r.ticket = s.ticket /\ r.evidence = s.evidence
          /\ r.goal = gs /\ r.active = s.active
      BY <1>1, <1>2 DEF Stores
    <2> HIDE DEF r
    <2>2. Sound(r)
      BY <1>6, <2>1, Regoaled
    <2> QED
      BY <2>2 DEF r
  <1>7. rec.status \in OpenStatuses \/ s.active # g => Sound([s EXCEPT !.goal = gs])
    BY <1>2, <1>3, <1>4, <1>6
  <1>8. rec.status \in OpenStatuses => Sound([s EXCEPT !.goal = gs, !.active = g])
    BY <1>2, <1>5
  <1>9. Sound([s EXCEPT !.goal = gs, !.active = IF s.active = g THEN NoGoal ELSE s.active])
    BY <1>2, <1>3, <1>4, <1>5
  <1> QED
    BY <1>7, <1>8, <1>9 DEF gs

LEMMA LoadInv ==
    ASSUME IInv, NEW p \in Procs, LoadSome(p)
    PROVE  IInv'
PROOF
  <1>1. PICK command, x :
          /\ Load(p, command, x)
          /\ \/ command \in GoalCommands /\ x \in Goals
             \/ command \in TicketCommands /\ x \in Tickets
    BY DEF LoadSome
  <1> DEFINE j == [command |-> command, subject |-> x, mine |-> store,
                   found |-> Dirty, ran |-> Dirty, outcome |-> "fail"]
  <1>2. j \in Jobs
    BY <1>1 DEF IInv, TypeOK, Jobs, Checkouts
  <1>3. j.mine = store /\ j.command = command /\ j.subject = x
    OBVIOUS
  <1> HIDE DEF j
  <1>4. /\ job' = [job EXCEPT ![p] = j]
        /\ step' = [step EXCEPT ![p] = "loaded"]
        /\ UNCHANGED <<store, tree>>
        /\ Accepts(store, command, x)
    BY <1>1 DEF Load, j
  <1>5. TypeOK'
    BY <1>2, <1>4 DEF IInv, TypeOK, Steps
  <1>6. job'[p] = j /\ step'[p] = "loaded"
    BY <1>4 DEF IInv, TypeOK
  <1>7. \A q \in Procs : q # p => job'[q] = job[q] /\ step'[q] = step[q]
    BY <1>4 DEF IInv, TypeOK
  <1>8. Sound(store)'
    BY <1>4 DEF IInv
  <1>9. JobSound(p)'
    <2>1. command = "verify run" => Submitted(store, x)
      BY <1>4 DEF Accepts
    <2>2. ~(command \in GoalCommands /\ command \in TicketCommands)
      BY DEF GoalCommands, TicketCommands
    <2>3. Sound(store)
      BY DEF IInv
    <2> QED
      BY <1>1, <1>3, <1>6, <2>1, <2>2, <2>3 DEF JobSound, Mine, Subject
  <1>10. ASSUME NEW q \in Procs, step'[q] # "idle" PROVE JobSound(q)'
    BY <1>7, <1>9, <1>10 DEF IInv, JobSound, Mine, Subject
  <1>11. ASSUME NEW q \in Procs, At(q, "ran", "verify run")' PROVE Executed(q)'
    BY <1>6, <1>7, <1>11 DEF IInv, Executed, At, Mine, Subject
  <1> QED
    BY <1>5, <1>8, <1>10, <1>11 DEF IInv

(* The steps that keep a process inside its command. *)
LEMMA WaitInv ==
    ASSUME IInv, NEW p \in Procs, NEW j \in Jobs, NEW where \in Steps,
           step[p] # "idle",
           job' = [job EXCEPT ![p] = j],
           step' = [step EXCEPT ![p] = where],
           UNCHANGED <<store, tree>>,
           j.command = job[p].command, j.subject = job[p].subject, j.mine = job[p].mine,
           where = "ran" /\ j.command = "verify run" => Executed(p)
    PROVE  IInv'
PROOF
  <1>1. TypeOK'
    BY DEF IInv, TypeOK
  <1>2. job'[p] = j /\ step'[p] = where
    BY DEF IInv, TypeOK
  <1>3. \A q \in Procs : q # p => job'[q] = job[q] /\ step'[q] = step[q]
    BY DEF IInv, TypeOK
  <1>4. Sound(store)'
    BY DEF IInv
  <1>5. ASSUME NEW q \in Procs, step'[q] # "idle" PROVE JobSound(q)'
    BY <1>2, <1>3, <1>5 DEF IInv, JobSound, Mine, Subject
  <1>6. ASSUME NEW q \in Procs, At(q, "ran", "verify run")' PROVE Executed(q)'
    BY <1>2, <1>3, <1>6 DEF IInv, Executed, At, Mine, Subject
  <1> QED
    BY <1>1, <1>4, <1>5, <1>6 DEF IInv

LEMMA ReadCheckoutInv ==
    ASSUME IInv, NEW p \in Procs, ReadCheckout(p)
    PROVE  IInv'
PROOF
  <1>1. JobSound(p) /\ job[p] \in Jobs
    BY DEF IInv, ReadCheckout, TypeOK
  <1> DEFINE g == IF job[p].command = "goal complete" THEN Subject(p) ELSE GoalOf[Subject(p)]
             j == [job[p] EXCEPT !.found = tree[g]]
  <1>2. g \in Goals
    BY <1>1, ConstantsAssumption DEF JobSound, ReadCheckout, GoalCommands, TicketCommands
  <1>3. tree[g] \in Checkouts
    BY <1>2 DEF IInv, TypeOK
  <1>4. /\ j \in Jobs
        /\ j.command = job[p].command /\ j.subject = job[p].subject /\ j.mine = job[p].mine
    BY <1>1, <1>3 DEF Jobs
  <1>5. /\ job' = [job EXCEPT ![p] = j]
        /\ step' = [step EXCEPT ![p] = "checked"]
        /\ step[p] # "idle"
        /\ UNCHANGED <<store, tree>>
    BY DEF ReadCheckout
  <1> HIDE DEF j
  <1> QED
    BY <1>4, <1>5, WaitInv DEF Steps

LEMMA VerifyExecuteInv ==
    ASSUME IInv, NEW p \in Procs, VerifyExecute(p)
    PROVE  IInv'
PROOF
  <1> DEFINE s == Mine(p)
             t == Subject(p)
  <1>1. JobSound(p) /\ job[p] \in Jobs /\ job[p].command = "verify run" /\ step[p] = "checked"
    BY DEF IInv, VerifyExecute, TypeOK, At
  <1>2. t \in Tickets
    BY <1>1 DEF JobSound, TicketCommands
  <1>3. PICK outcome \in {"pass", "fail"} :
           job' = [job EXCEPT ![p] = [job[p] EXCEPT !.ran = tree[GoalOf[t]], !.outcome = outcome]]
    BY DEF VerifyExecute
  <1> DEFINE j == [job[p] EXCEPT !.ran = tree[GoalOf[t]], !.outcome = outcome]
  <1>4. tree[GoalOf[t]] \in Checkouts
    BY <1>2, ConstantsAssumption DEF IInv, TypeOK
  <1>5. /\ j \in Jobs
        /\ j.command = job[p].command /\ j.subject = job[p].subject /\ j.mine = job[p].mine
    BY <1>1, <1>4 DEF Jobs
  <1>6. /\ job' = [job EXCEPT ![p] = j]
        /\ step' = [step EXCEPT ![p] = "ran"]
        /\ UNCHANGED <<store, tree>>
    BY <1>3 DEF VerifyExecute
  <1>7. Submitted(s, t)
    BY <1>1 DEF JobSound
  <1>8. LatestDigest(s, t) \in Commits \cup {NoCommit}
    <2>1. CanDigest(t, job[p].found) /\ Digest(t, job[p].found) = LatestDigest(s, t)
      BY DEF VerifyExecute
    <2>2. job[p].found \in Checkouts
      BY <1>1 DEF Jobs
    <2> QED
      BY <2>1, <2>2 DEF CanDigest, Digest, Checkouts
  <1> HIDE DEF j
  <1> QED
    BY <1>1, <1>5, <1>6, <1>7, <1>8, WaitInv DEF Executed, Steps

(* The commands that write. *)
LEMMA WriteInv ==
    ASSUME IInv, NEW p \in Procs,
           \/ GoalCreate(p) \/ GoalActivate(p) \/ GoalBlock(p) \/ GoalVerify(p)
           \/ GoalComplete(p) \/ GoalAbandon(p) \/ GoalEnforceOn(p) \/ GoalEnforceOff(p)
           \/ GoalWorktreeInit(p) \/ Checkpoint(p)
           \/ TicketCreate(p) \/ TicketStart(p) \/ TicketBlock(p) \/ TicketSubmit(p)
           \/ TicketDone(p) \/ VerifyRecord(p)
    PROVE  IInv'
PROOF
  <1> DEFINE s == Mine(p)
             x == Subject(p)
  <1>1. step[p] # "idle"
    BY DEF GoalCreate, GoalActivate, GoalBlock, GoalVerify, GoalComplete, GoalAbandon,
           GoalEnforceOn, GoalEnforceOff, GoalWorktreeInit, Checkpoint, TicketCreate,
           TicketStart, TicketBlock, TicketSubmit, TicketDone, VerifyRecord, At
  <1>2. JobSound(p) /\ job[p] \in Jobs
    BY <1>1 DEF IInv, TypeOK
  <1>3. Sound(s) /\ s \in Stores
    BY <1>2 DEF JobSound, Sound
  <1>4. /\ job[p].command \in GoalCommands => x \in Goals
        /\ job[p].command \in TicketCommands => x \in Tickets
    BY <1>2 DEF JobSound
  <1>5. job[p].found \in Checkouts /\ job[p].outcome \in {"pass", "fail"}
    BY <1>2 DEF Jobs
  <1> DEFINE With(status) == [s.goal[x] EXCEPT !.status = status]
  <1>6. ASSUME x \in Goals, NEW status \in GoalStatuses
        PROVE  With(status) \in GoalRecords /\ With(status).status = status
    BY <1>3, <1>6 DEF Stores, GoalRecords
  <1>7. s.active # NoGoal => s.goal[s.active].status \in OpenStatuses
    BY <1>3 DEF Sound
  <1> HIDE DEF s, x
  <1>8. CASE GoalCreate(p)
    <2> DEFINE rec == [status |-> "active", enforced |-> FALSE, worktree |-> FALSE]
    <2>1. rec \in GoalRecords /\ rec.status \in OpenStatuses
      BY DEF GoalRecords, GoalStatuses, OpenStatuses
    <2>2. x \in Goals
      BY <1>4, <1>8 DEF GoalCreate, At, GoalCommands
    <2> HIDE DEF rec
    <2>3. Save(p, [s EXCEPT !.goal[x] = rec, !.active = x])
      BY <1>8 DEF GoalCreate, s, x, rec
    <2>4. Sound([s EXCEPT !.goal[x] = rec, !.active = x])
      BY <1>3, <2>1, <2>2, GoalWritten
    <2> QED
      BY <2>3, <2>4, SaveSound
  <1>9. CASE GoalActivate(p)
    <2>1. x \in Goals
      BY <1>4, <1>9 DEF GoalActivate, At, GoalCommands
    <2>2. Save(p, [s EXCEPT !.goal[x] = With("active"), !.active = x])
      BY <1>9 DEF GoalActivate, s, x
    <2>3. With("active") \in GoalRecords /\ With("active").status \in OpenStatuses
      BY <1>6, <2>1 DEF GoalStatuses, OpenStatuses
    <2> HIDE DEF With
    <2>4. Sound([s EXCEPT !.goal[x] = With("active"), !.active = x])
      BY <1>3, <2>1, <2>3, GoalWritten
    <2> QED
      BY <2>2, <2>4, SaveSound
  <1>10. CASE GoalBlock(p)
    <2>1. x \in Goals
      BY <1>4, <1>10 DEF GoalBlock, At, GoalCommands
    <2>2. Save(p, [s EXCEPT !.goal[x] = With("blocked")])
      BY <1>10 DEF GoalBlock, s, x
    <2>3. With("blocked") \in GoalRecords /\ With("blocked").status \in OpenStatuses
      BY <1>6, <2>1 DEF GoalStatuses, OpenStatuses
    <2> HIDE DEF With
    <2>4. Sound([s EXCEPT !.goal[x] = With("blocked")])
      BY <1>3, <2>1, <2>3, GoalWritten
    <2> QED
      BY <2>2, <2>4, SaveSound
  <1>11. CASE GoalVerify(p)
    <2>1. x \in Goals
      BY <1>4, <1>11 DEF GoalVerify, At, GoalCommands
    <2>2. Save(p, [s EXCEPT !.goal[x] = With("verifying")])
      BY <1>11 DEF GoalVerify, s, x
    <2>3. With("verifying") \in GoalRecords /\ With("verifying").status \in OpenStatuses
      BY <1>6, <2>1 DEF GoalStatuses, OpenStatuses
    <2> HIDE DEF With
    <2>4. Sound([s EXCEPT !.goal[x] = With("verifying")])
      BY <1>3, <2>1, <2>3, GoalWritten
    <2> QED
      BY <2>2, <2>4, SaveSound
  <1>12. CASE GoalComplete(p)
    <2> DEFINE rec == [s.goal[x] EXCEPT !.status = "done", !.enforced = FALSE]
    <2>1. x \in Goals
      BY <1>4, <1>12 DEF GoalComplete, At, GoalCommands
    <2>2. rec \in GoalRecords
      BY <1>3, <2>1 DEF Stores, GoalRecords, GoalStatuses
    <2>3. Save(p, [s EXCEPT !.goal[x] = rec,
                            !.active = IF s.active = x THEN NoGoal ELSE s.active])
      BY <1>12 DEF GoalComplete, Finish, s, x
    <2> HIDE DEF rec
    <2>4. Sound([s EXCEPT !.goal[x] = rec,
                          !.active = IF s.active = x THEN NoGoal ELSE s.active])
      BY <1>3, <2>1, <2>2, GoalWritten
    <2> QED
      BY <2>3, <2>4, SaveSound
  <1>13. CASE GoalAbandon(p)
    <2> DEFINE rec == [s.goal[x] EXCEPT !.status = "abandoned", !.enforced = FALSE]
    <2>1. x \in Goals
      BY <1>4, <1>13 DEF GoalAbandon, At, GoalCommands
    <2>2. rec \in GoalRecords
      BY <1>3, <2>1 DEF Stores, GoalRecords, GoalStatuses
    <2>3. Save(p, [s EXCEPT !.goal[x] = rec,
                            !.active = IF s.active = x THEN NoGoal ELSE s.active])
      BY <1>13 DEF GoalAbandon, Finish, s, x
    <2> HIDE DEF rec
    <2>4. Sound([s EXCEPT !.goal[x] = rec,
                          !.active = IF s.active = x THEN NoGoal ELSE s.active])
      BY <1>3, <2>1, <2>2, GoalWritten
    <2> QED
      BY <2>3, <2>4, SaveSound
  <1>14. CASE GoalEnforceOn(p)
    <2> DEFINE rec == [s.goal[x] EXCEPT !.enforced = TRUE]
    <2>1. x \in Goals
      BY <1>4, <1>14 DEF GoalEnforceOn, At, GoalCommands
    <2>2. rec \in GoalRecords /\ rec.status = s.goal[x].status
      BY <1>3, <2>1 DEF Stores, GoalRecords
    <2>3. Save(p, [s EXCEPT !.goal[x] = rec])
      BY <1>14 DEF GoalEnforceOn, s, x
    <2> HIDE DEF rec
    <2>4. rec.status \in OpenStatuses \/ s.active # x
      BY <1>7, <2>1, <2>2, ConstantsAssumption
    <2>5. Sound([s EXCEPT !.goal[x] = rec])
      BY <1>3, <2>1, <2>2, <2>4, GoalWritten
    <2> QED
      BY <2>3, <2>5, SaveSound
  <1>15. CASE GoalEnforceOff(p)
    <2> DEFINE rec == [s.goal[x] EXCEPT !.enforced = FALSE]
    <2>1. x \in Goals
      BY <1>4, <1>15 DEF GoalEnforceOff, At, GoalCommands
    <2>2. rec \in GoalRecords /\ rec.status = s.goal[x].status
      BY <1>3, <2>1 DEF Stores, GoalRecords
    <2>3. Save(p, [s EXCEPT !.goal[x] = rec])
      BY <1>15 DEF GoalEnforceOff, s, x
    <2> HIDE DEF rec
    <2>4. rec.status \in OpenStatuses \/ s.active # x
      BY <1>7, <2>1, <2>2, ConstantsAssumption
    <2>5. Sound([s EXCEPT !.goal[x] = rec])
      BY <1>3, <2>1, <2>2, <2>4, GoalWritten
    <2> QED
      BY <2>3, <2>5, SaveSound
  <1>16. CASE GoalWorktreeInit(p)
    <2> DEFINE rec == [s.goal[x] EXCEPT !.worktree = TRUE]
    <2>1. x \in Goals
      BY <1>4, <1>16 DEF GoalWorktreeInit, At, GoalCommands
    <2>2. rec \in GoalRecords /\ rec.status = s.goal[x].status
      BY <1>3, <2>1 DEF Stores, GoalRecords
    <2>3. Save(p, [s EXCEPT !.goal[x] = rec])
      BY <1>16 DEF GoalWorktreeInit, s, x
    <2> HIDE DEF rec
    <2>4. rec.status \in OpenStatuses \/ s.active # x
      BY <1>7, <2>1, <2>2, ConstantsAssumption
    <2>5. Sound([s EXCEPT !.goal[x] = rec])
      BY <1>3, <2>1, <2>2, <2>4, GoalWritten
    <2> QED
      BY <2>3, <2>5, SaveSound
  <1>17. CASE Checkpoint(p)
    BY <1>3, <1>17, SaveSound DEF Checkpoint, s
  <1>18. CASE TicketCreate(p)
    <2>1. x \in Tickets
      BY <1>4, <1>18 DEF TicketCreate, At, TicketCommands
    <2>2. Save(p, SetStatus(s, x, "todo"))
      BY <1>18 DEF TicketCreate, s, x
    <2>3. Sound(SetStatus(s, x, "todo"))
      BY <1>3, <2>1, Restated DEF TicketStatuses
    <2> QED
      BY <2>2, <2>3, SaveSound
  <1>19. CASE TicketStart(p)
    <2>1. x \in Tickets
      BY <1>4, <1>19 DEF TicketStart, At, TicketCommands
    <2>2. Save(p, SetStatus(s, x, "in_progress"))
      BY <1>19 DEF TicketStart, s, x
    <2>3. Sound(SetStatus(s, x, "in_progress"))
      BY <1>3, <2>1, Restated DEF TicketStatuses
    <2> QED
      BY <2>2, <2>3, SaveSound
  <1>20. CASE TicketBlock(p)
    <2>1. x \in Tickets
      BY <1>4, <1>20 DEF TicketBlock, At, TicketCommands
    <2>2. Save(p, SetStatus(s, x, "blocked"))
      BY <1>20 DEF TicketBlock, s, x
    <2>3. Sound(SetStatus(s, x, "blocked"))
      BY <1>3, <2>1, Restated DEF TicketStatuses
    <2> QED
      BY <2>2, <2>3, SaveSound
  <1>21. CASE TicketSubmit(p)
    <2> DEFINE e == Pointer(x, Digest(x, job[p].found), "submitted")
    <2>1. x \in Tickets
      BY <1>4, <1>21 DEF TicketSubmit, At, TicketCommands
    <2>2. Digest(x, job[p].found) \in Commits \cup {NoCommit}
      BY <1>5, <1>21 DEF TicketSubmit, CanDigest, Digest, Checkouts, x
    <2>3. e \in Pointers /\ e.ticket = x
      BY <2>1, <2>2 DEF Pointer, Pointers
    <2>4. Save(p, AddEvidence(SetStatus(s, x, "in_review"), e))
      BY <1>21 DEF TicketSubmit, s, x
    <2> HIDE DEF e
    <2>5. Sound(AddEvidence(SetStatus(s, x, "in_review"), e))
      BY <1>3, <2>1, <2>3, Recorded DEF TicketStatuses
    <2> QED
      BY <2>4, <2>5, SaveSound
  <1>22. CASE TicketDone(p)
    <2>1. x \in Tickets
      BY <1>4, <1>22 DEF TicketDone, At, TicketCommands
    <2>2. Save(p, SetStatus(s, x, "done")) /\ CompletionEvidence(s, x)
      BY <1>22 DEF TicketDone, FreshCompletionEvidence, s, x
    <2>3. Sound(SetStatus(s, x, "done"))
      BY <1>3, <2>1, <2>2, Restated DEF TicketStatuses
    <2> QED
      BY <2>2, <2>3, SaveSound
  <1>23. CASE VerifyRecord(p)
    <2> DEFINE status == IF job[p].outcome = "pass" THEN "done" ELSE "in_progress"
               e == Pointer(x, LatestDigest(s, x), job[p].outcome)
    <2>1. x \in Tickets
      BY <1>4, <1>23 DEF VerifyRecord, At, TicketCommands
    <2>2. LatestDigest(s, x) \in Commits \cup {NoCommit}
      BY <1>23 DEF IInv, Executed, VerifyRecord, s, x
    <2>3. e \in Pointers /\ e.ticket = x /\ e.outcome = job[p].outcome
      BY <1>5, <2>1, <2>2 DEF Pointer, Pointers
    <2>4. Save(p, AddEvidence(SetStatus(s, x, status), e))
      BY <1>23 DEF VerifyRecord, s, x
    <2>5. status \in TicketStatuses /\ (status = "done" => job[p].outcome = "pass")
      BY DEF TicketStatuses
    <2> HIDE DEF e, status
    <2>6. Sound(AddEvidence(SetStatus(s, x, status), e))
      BY <1>3, <2>1, <2>3, <2>5, Recorded
    <2> QED
      BY <2>4, <2>6, SaveSound
  <1> QED
    BY <1>8, <1>9, <1>10, <1>11, <1>12, <1>13, <1>14, <1>15, <1>16, <1>17, <1>18,
       <1>19, <1>20, <1>21, <1>22, <1>23

LEMMA InitInv == Init => IInv
PROOF
  <1> SUFFICES ASSUME Init PROVE IInv
    OBVIOUS
  <1>1. store \in Stores
    BY DEF Init, Stores, GoalRecords, GoalStatuses, TicketStatuses
  <1>2. TypeOK
    BY <1>1 DEF Init, TypeOK, Checkouts, Steps
  <1>3. store.evidence = <<>> /\ store.active = NoGoal /\ \A t \in Tickets : store.ticket[t] = "none"
    BY DEF Init
  <1>4. HasLatest(store)
    BY <1>3 DEF HasLatest, Submitted
  <1> QED
    BY <1>1, <1>2, <1>3, <1>4 DEF IInv, Sound, Init, At

-----------------------------------------------------------------------------
(* The invariant holds of every reachable state. *)
LEMMA Step == IInv /\ [Next]_vars => IInv'
PROOF
  <1> SUFFICES ASSUME IInv, [Next]_vars PROVE IInv'
    OBVIOUS
  <1>1. ASSUME NEW p \in Procs, LoadSome(p) PROVE IInv'
    BY <1>1, LoadInv
  <1>2. ASSUME NEW p \in Procs, Abort(p) PROVE IInv'
    <2>1. Save(p, store)
      BY <1>2 DEF Abort, Save
    <2> QED
      BY <2>1, SaveSound DEF IInv
  <1>3. ASSUME NEW p \in Procs, ReadCheckout(p) PROVE IInv'
    BY <1>3, ReadCheckoutInv
  <1>4. ASSUME NEW p \in Procs, VerifyExecute(p) PROVE IInv'
    BY <1>4, VerifyExecuteInv
  <1>5. ASSUME NEW p \in Procs, Command(p),
               ~(LoadSome(p) \/ Abort(p) \/ ReadCheckout(p) \/ VerifyExecute(p))
        PROVE IInv'
    BY <1>5, WriteInv DEF Command
  <1>6. ASSUME NEW g \in Goals, Work(g) PROVE IInv'
    <2>1. TypeOK'
      BY <1>6 DEF IInv, TypeOK, Work
    <2>2. Sound(store)'
      BY <1>6 DEF IInv, Work
    <2>3. ASSUME NEW p \in Procs PROVE (step[p] # "idle" => JobSound(p))'
      BY <1>6 DEF IInv, Work, JobSound, Mine, Subject
    <2>4. ASSUME NEW p \in Procs PROVE (At(p, "ran", "verify run") => Executed(p))'
      BY <1>6 DEF IInv, Work, Executed, At, Mine, Subject
    <2> QED
      BY <2>1, <2>2, <2>3, <2>4 DEF IInv
  <1>7. CASE UNCHANGED vars
    <2>1. TypeOK'
      BY <1>7 DEF IInv, TypeOK, vars
    <2>2. Sound(store)'
      BY <1>7 DEF IInv, vars
    <2>3. ASSUME NEW p \in Procs PROVE (step[p] # "idle" => JobSound(p))'
      BY <1>7 DEF IInv, vars, JobSound, Mine, Subject
    <2>4. ASSUME NEW p \in Procs PROVE (At(p, "ran", "verify run") => Executed(p))'
      BY <1>7 DEF IInv, vars, Executed, At, Mine, Subject
    <2> QED
      BY <2>1, <2>2, <2>3, <2>4 DEF IInv
  <1> QED
    BY <1>1, <1>2, <1>3, <1>4, <1>5, <1>6, <1>7 DEF Next

(* The inductive invariant: the file and every copy of it that a command works
   on are sound. *)
THEOREM Invariant == Spec => []IInv
PROOF
  BY InitInv, Step, PTL DEF Spec

(* Every variable of the kernel model keeps its type. *)
THEOREM TypeCorrect == Spec => []TypeOK
PROOF
  <1>1. IInv => TypeOK
    BY DEF IInv
  <1> QED
    BY <1>1, Invariant, PTL

(* However commands overlap and overwrite each other, a ticket that is stored
   as done comes with a passing verification of its latest submission. *)
THEOREM DoneIsEvidenced == Spec => []DoneHasEvidence
PROOF
  <1>1. IInv => DoneHasEvidence
    BY DEF IInv, Sound, DoneHasEvidence
  <1> QED
    BY <1>1, Invariant, PTL

(* However goal commands overlap, the active goal is open. *)
THEOREM ActiveGoalIsOpen == Spec => []ActiveIsOpen
PROOF
  <1>1. IInv => ActiveIsOpen
    BY DEF IInv, Sound, ActiveIsOpen
  <1> QED
    BY <1>1, Invariant, PTL

(* The Stop hook holds the session of an enforced goal while a submission of
   one of its code tickets has not passed: a ticket that were done without
   needing attention would contradict DoneHasEvidence. *)
THEOREM StopHolds == Spec => []StopHoldsUnverified
PROOF
  <1>1. IInv => StopHoldsUnverified
    <2> SUFFICES ASSUME IInv, NEW g \in High, NEW t \in CodeChanged,
                        store.active = g, store.goal[g].enforced,
                        store.goal[g].status \in {"active", "verifying"},
                        t \in TicketsOf(store, g),
                        ~CompletionEvidence(store, t),
                        store.ticket[t] \notin {"blocked", "cancelled"}
                 PROVE  StopMayBlock(store, g)
      BY DEF StopHoldsUnverified
    <2>1. t \in Tickets /\ g \in Goals /\ g # NoGoal
      BY ConstantsAssumption
    <2>2. store.ticket[t] \in {"todo", "in_progress", "in_review"}
      <3>1. store.ticket[t] \in TicketStatuses
        BY <2>1 DEF IInv, Sound, Stores
      <3>2. store.ticket[t] # "done" /\ store.ticket[t] # "none"
        BY <2>1 DEF IInv, Sound, TicketsOf
      <3> QED
        BY <3>1, <3>2 DEF TicketStatuses
    <2>3. NeedsAttention(store, t)
      BY <2>2 DEF NeedsAttention
    <2>4. g \in StopGoals(store) /\ store.goal[g].status \in OpenStatuses \ {"blocked"}
      BY <2>1 DEF StopGoals, OpenStatuses
    <2> QED
      BY <2>3, <2>4 DEF StopMayBlock
  <1> QED
    BY <1>1, Invariant, PTL

-----------------------------------------------------------------------------
(* Commands that do not overlap. *)

(* One command runs, on the state that is in the file. *)
Alone ==
    /\ \A p, q \in Procs : step[p] # "idle" /\ step[q] # "idle" => p = q
    /\ \A p \in Procs : step[p] # "idle" => Mine(p) = store

(* Ending a command leaves nobody at work. *)
LEMMA EndAlone ==
    ASSUME TypeOK, Alone, NEW p \in Procs, step[p] # "idle", End(p)
    PROVE  Alone'
PROOF
  <1>1. step'[p] = "idle"
    BY DEF End, TypeOK
  <1>2. ASSUME NEW q \in Procs, q # p PROVE step'[q] = "idle"
    <2>1. step'[q] = step[q]
      BY <1>2 DEF End, TypeOK
    <2>2. step[q] = "idle"
      BY <1>2 DEF Alone
    <2> QED
      BY <2>1, <2>2
  <1> QED
    BY <1>1, <1>2 DEF Alone

(* A command begins when no other runs, with what is in the file. *)
LEMMA LoadAlone ==
    ASSUME Serial, TypeOK, NEW p \in Procs, NEW command, NEW x, Load(p, command, x)
    PROVE  Alone'
PROOF
  <1>1. job'[p].mine = store /\ store' = store
    BY DEF Load, TypeOK
  <1>2. ASSUME NEW q \in Procs, q # p PROVE step'[q] = "idle"
    BY <1>2 DEF Load, TypeOK
  <1> QED
    BY <1>1, <1>2 DEF Alone, Mine

(* A command goes on with the state it read. *)
LEMMA WaitAlone ==
    ASSUME TypeOK, Alone, NEW p \in Procs, ReadCheckout(p) \/ VerifyExecute(p)
    PROVE  Alone'
PROOF
  <1>1. step[p] # "idle" /\ job[p] \in Jobs /\ store' = store
    BY DEF ReadCheckout, VerifyExecute, At, TypeOK
  <1>2. \A q \in Procs : q # p => step'[q] = step[q] /\ job'[q] = job[q]
    BY DEF ReadCheckout, VerifyExecute, TypeOK
  <1>3. job'[p].mine = job[p].mine
    <2>1. CASE ReadCheckout(p)
      BY <1>1, <2>1 DEF ReadCheckout, TypeOK, Jobs
    <2>2. CASE VerifyExecute(p)
      <3>1. PICK outcome \in {"pass", "fail"} :
               job' = [job EXCEPT ![p] =
                          [@ EXCEPT !.ran = tree[GoalOf[Subject(p)]], !.outcome = outcome]]
        BY <2>2 DEF VerifyExecute
      <3> QED
        BY <1>1, <3>1 DEF TypeOK, Jobs
    <2> QED
      BY <2>1, <2>2
  <1> QED
    BY <1>1, <1>2, <1>3 DEF Alone, Mine

(* Every other step of a command writes and ends, or ends. *)
Writes(p) ==
    \/ GoalCreate(p) \/ GoalActivate(p) \/ GoalBlock(p) \/ GoalVerify(p)
    \/ GoalComplete(p) \/ GoalAbandon(p) \/ GoalEnforceOn(p) \/ GoalEnforceOff(p)
    \/ GoalWorktreeInit(p) \/ Checkpoint(p)
    \/ TicketCreate(p) \/ TicketStart(p) \/ TicketBlock(p) \/ TicketSubmit(p)
    \/ TicketDone(p) \/ VerifyRecord(p)

LEMMA WritesAtWork ==
    ASSUME NEW p \in Procs, Writes(p) PROVE step[p] # "idle" /\ End(p)
PROOF
  BY DEF Writes, Save, At, GoalCreate, GoalActivate, GoalBlock, GoalVerify, GoalComplete,
         GoalAbandon, GoalEnforceOn, GoalEnforceOff, GoalWorktreeInit, Checkpoint, TicketCreate,
         TicketStart, TicketBlock, TicketSubmit, TicketDone, VerifyRecord

LEMMA StepAlone ==
    ASSUME Serial, TypeOK, Alone, [Next]_vars PROVE Alone'
PROOF
  <1>1. ASSUME NEW p \in Procs, Command(p) PROVE Alone'
    <2>1. CASE LoadSome(p)
      BY <2>1, LoadAlone DEF LoadSome
    <2>2. CASE Abort(p)
      BY <2>2, EndAlone DEF Abort
    <2>3. CASE ReadCheckout(p) \/ VerifyExecute(p)
      BY <2>3, WaitAlone
    <2>4. CASE Writes(p)
      BY <2>4, WritesAtWork, EndAlone
    <2> QED
      BY <1>1, <2>1, <2>2, <2>3, <2>4 DEF Command, Writes
  <1>2. ASSUME NEW g \in Goals, Work(g) PROVE Alone'
    BY <1>2 DEF Work, Alone, Mine
  <1>3. CASE UNCHANGED vars
    BY <1>3 DEF vars, Alone, Mine
  <1> QED
    BY <1>1, <1>2, <1>3 DEF Next

(* The commands of a behaviour in which none overlap. *)
LEMMA SerialAlone == ASSUME Serial PROVE Spec => [](IInv /\ Alone)
PROOF
  <1>1. Init => Alone
    BY DEF Init, Alone
  <1>2. IInv /\ Alone /\ [Next]_vars => Alone'
    BY StepAlone DEF IInv
  <1> QED
    BY <1>1, <1>2, Invariant, PTL DEF Spec

(* Only a command that ends changes the file. *)
LEMMA OnlyWrites ==
    ASSUME [Next]_vars PROVE store' = store \/ \E p \in Procs : Writes(p)
PROOF
  BY DEF Next, vars, Command, LoadSome, Load, Abort, ReadCheckout, VerifyExecute, Work, Writes

(* What a command leaves in the file it had read: evidence is added at most, a goal is
   done only by goal complete, and a ticket only after those that block it. *)
Outcome(p) ==
    /\ \/ store'.evidence = store.evidence
       \/ \E e : store'.evidence = Append(store.evidence, e)
    /\ \A g \in Goals :
          store.goal[g].status # "done" /\ store'.goal[g].status = "done" =>
              GoalComplete(p) /\ g = Subject(p)
    /\ \A t \in Tickets :
          store.ticket[t] # "done" /\ store'.ticket[t] = "done" =>
              /\ DependenciesDone(store, t)
              /\ \A d \in Tickets : store.ticket[d] = "done" => store'.ticket[d] = "done"

(* A goal's record is written over. *)
LEMMA GoalOutcome ==
    ASSUME IInv, NEW p \in Procs, NEW x \in Goals, NEW rec \in GoalRecords,
           NEW active, store' = [store EXCEPT !.goal[x] = rec, !.active = active],
           rec.status = "done" /\ store.goal[x].status # "done" => GoalComplete(p) /\ x = Subject(p)
    PROVE  Outcome(p)
PROOF
  <1>1. store \in Stores
    BY DEF IInv, TypeOK
  <1>2. store'.evidence = store.evidence /\ store'.ticket = store.ticket
        /\ store'.goal = [store.goal EXCEPT ![x] = rec]
    BY <1>1 DEF Stores
  <1>3. \A g \in Goals : store'.goal[g] = IF g = x THEN rec ELSE store.goal[g]
    BY <1>1, <1>2 DEF Stores
  <1> QED
    BY <1>2, <1>3 DEF Outcome

(* A ticket's status is written over. *)
LEMMA TicketOutcome ==
    ASSUME IInv, NEW p \in Procs, NEW x \in Tickets, NEW status \in TicketStatuses,
           NEW evidence,
           evidence = store.evidence \/ \E e : evidence = Append(store.evidence, e),
           store' = [store EXCEPT !.ticket[x] = status, !.evidence = evidence],
           status = "done" => DependenciesDone(store, x)
    PROVE  Outcome(p)
PROOF
  <1>1. store \in Stores
    BY DEF IInv, TypeOK
  <1>2. store'.evidence = evidence /\ store'.goal = store.goal
        /\ store'.ticket = [store.ticket EXCEPT ![x] = status]
    BY <1>1 DEF Stores
  <1>3. \A t \in Tickets : store'.ticket[t] = IF t = x THEN status ELSE store.ticket[t]
    BY <1>1, <1>2 DEF Stores
  <1> QED
    BY <1>2, <1>3 DEF Outcome

LEMMA GoalsOutcome ==
    ASSUME IInv, Alone, NEW p \in Procs,
           \/ GoalCreate(p) \/ GoalActivate(p) \/ GoalBlock(p) \/ GoalVerify(p)
           \/ GoalComplete(p) \/ GoalAbandon(p) \/ GoalEnforceOn(p) \/ GoalEnforceOff(p)
           \/ GoalWorktreeInit(p) \/ Checkpoint(p)
    PROVE  Outcome(p)
PROOF
  <1> DEFINE x == Subject(p)
  <1>1. step[p] # "idle" /\ job[p].command \in GoalCommands
    BY DEF GoalCreate, GoalActivate, GoalBlock, GoalVerify, GoalComplete, GoalAbandon,
           GoalEnforceOn, GoalEnforceOff, GoalWorktreeInit, Checkpoint, At, GoalCommands
  <1>2. Mine(p) = store /\ x \in Goals /\ store \in Stores /\ store.goal[x] \in GoalRecords
    BY <1>1 DEF IInv, Alone, JobSound, TypeOK, Stores
  <1> DEFINE With(status) == [store.goal[x] EXCEPT !.status = status]
  <1>3. \A status \in GoalStatuses : With(status) \in GoalRecords /\ With(status).status = status
    BY <1>2 DEF GoalRecords
  <1> HIDE DEF x
  <1>4. CASE GoalCreate(p)
    <2> DEFINE rec == [status |-> "active", enforced |-> FALSE, worktree |-> FALSE]
    <2>1. rec \in GoalRecords /\ rec.status # "done"
      BY DEF GoalRecords, GoalStatuses
    <2>2. store' = [store EXCEPT !.goal[x] = rec, !.active = x]
      BY <1>2, <1>4 DEF GoalCreate, Save, x
    <2> HIDE DEF rec
    <2> QED
      BY <1>2, <2>1, <2>2, GoalOutcome
  <1>5. CASE GoalActivate(p)
    <2>1. store' = [store EXCEPT !.goal[x] = With("active"), !.active = x]
      BY <1>2, <1>5 DEF GoalActivate, Save, x
    <2>2. With("active") \in GoalRecords /\ With("active").status # "done"
      BY <1>3 DEF GoalStatuses
    <2> HIDE DEF With
    <2> QED
      BY <1>2, <2>1, <2>2, GoalOutcome
  <1>6. CASE GoalBlock(p)
    <2>1. store' = [store EXCEPT !.goal[x] = With("blocked"), !.active = store.active]
      BY <1>2, <1>6 DEF GoalBlock, Save, x, Stores
    <2>2. With("blocked") \in GoalRecords /\ With("blocked").status # "done"
      BY <1>3 DEF GoalStatuses
    <2> HIDE DEF With
    <2> QED
      BY <1>2, <2>1, <2>2, GoalOutcome
  <1>7. CASE GoalVerify(p)
    <2>1. store' = [store EXCEPT !.goal[x] = With("verifying"), !.active = store.active]
      BY <1>2, <1>7 DEF GoalVerify, Save, x, Stores
    <2>2. With("verifying") \in GoalRecords /\ With("verifying").status # "done"
      BY <1>3 DEF GoalStatuses
    <2> HIDE DEF With
    <2> QED
      BY <1>2, <2>1, <2>2, GoalOutcome
  <1>8. CASE GoalComplete(p)
    <2> DEFINE rec == [store.goal[x] EXCEPT !.status = "done", !.enforced = FALSE]
               active == IF store.active = x THEN NoGoal ELSE store.active
    <2>1. rec \in GoalRecords
      BY <1>2 DEF GoalRecords, GoalStatuses
    <2>2. store' = [store EXCEPT !.goal[x] = rec, !.active = active]
      BY <1>2, <1>8 DEF GoalComplete, Finish, Save, x
    <2>3. x = Subject(p)
      BY DEF x
    <2> HIDE DEF rec, active
    <2> QED
      BY <1>2, <1>8, <2>1, <2>2, <2>3, GoalOutcome
  <1>9. CASE GoalAbandon(p)
    <2> DEFINE rec == [store.goal[x] EXCEPT !.status = "abandoned", !.enforced = FALSE]
               active == IF store.active = x THEN NoGoal ELSE store.active
    <2>1. rec \in GoalRecords /\ rec.status # "done"
      BY <1>2 DEF GoalRecords, GoalStatuses
    <2>2. store' = [store EXCEPT !.goal[x] = rec, !.active = active]
      BY <1>2, <1>9 DEF GoalAbandon, Finish, Save, x
    <2> HIDE DEF rec, active
    <2> QED
      BY <1>2, <2>1, <2>2, GoalOutcome
  <1>10. CASE GoalEnforceOn(p)
    <2> DEFINE rec == [store.goal[x] EXCEPT !.enforced = TRUE]
    <2>1. rec \in GoalRecords /\ rec.status = store.goal[x].status
      BY <1>2 DEF GoalRecords
    <2>2. store' = [store EXCEPT !.goal[x] = rec, !.active = store.active]
      BY <1>2, <1>10 DEF GoalEnforceOn, Save, x, Stores
    <2> HIDE DEF rec
    <2> QED
      BY <1>2, <2>1, <2>2, GoalOutcome
  <1>11. CASE GoalEnforceOff(p)
    <2> DEFINE rec == [store.goal[x] EXCEPT !.enforced = FALSE]
    <2>1. rec \in GoalRecords /\ rec.status = store.goal[x].status
      BY <1>2 DEF GoalRecords
    <2>2. store' = [store EXCEPT !.goal[x] = rec, !.active = store.active]
      BY <1>2, <1>11 DEF GoalEnforceOff, Save, x, Stores
    <2> HIDE DEF rec
    <2> QED
      BY <1>2, <2>1, <2>2, GoalOutcome
  <1>12. CASE GoalWorktreeInit(p)
    <2> DEFINE rec == [store.goal[x] EXCEPT !.worktree = TRUE]
    <2>1. rec \in GoalRecords /\ rec.status = store.goal[x].status
      BY <1>2 DEF GoalRecords
    <2>2. store' = [store EXCEPT !.goal[x] = rec, !.active = store.active]
      BY <1>2, <1>12 DEF GoalWorktreeInit, Save, x, Stores
    <2> HIDE DEF rec
    <2> QED
      BY <1>2, <2>1, <2>2, GoalOutcome
  <1>13. CASE Checkpoint(p)
    <2>1. store' = store
      BY <1>2, <1>13 DEF Checkpoint, Save
    <2> QED
      BY <2>1 DEF Outcome
  <1> QED
    BY <1>4, <1>5, <1>6, <1>7, <1>8, <1>9, <1>10, <1>11, <1>12, <1>13

LEMMA TicketsOutcome ==
    ASSUME IInv, Alone, NEW p \in Procs,
           \/ TicketCreate(p) \/ TicketStart(p) \/ TicketBlock(p) \/ TicketSubmit(p)
           \/ TicketDone(p) \/ VerifyRecord(p)
    PROVE  Outcome(p)
PROOF
  <1> DEFINE x == Subject(p)
  <1>1. step[p] # "idle" /\ job[p].command \in TicketCommands
    BY DEF TicketCreate, TicketStart, TicketBlock, TicketSubmit, TicketDone, VerifyRecord, At,
           TicketCommands
  <1>2. Mine(p) = store /\ x \in Tickets /\ store \in Stores
    BY <1>1 DEF IInv, Alone, JobSound, TypeOK
  <1> HIDE DEF x
  <1>3. ASSUME NEW status \in {"todo", "in_progress", "blocked", "done"},
               store' = SetStatus(store, x, status),
               status = "done" => DependenciesDone(store, x)
        PROVE  Outcome(p)
    <2>1. store' = [store EXCEPT !.ticket[x] = status, !.evidence = store.evidence]
      BY <1>2, <1>3 DEF SetStatus, Stores
    <2>2. status \in TicketStatuses
      BY DEF TicketStatuses
    <2> QED
      BY <1>2, <1>3, <2>1, <2>2, TicketOutcome
  <1>4. ASSUME NEW status \in {"in_review", "in_progress", "done"}, NEW e,
               store' = AddEvidence(SetStatus(store, x, status), e),
               status = "done" => DependenciesDone(store, x)
        PROVE  Outcome(p)
    <2>1. store' = [store EXCEPT !.ticket[x] = status, !.evidence = Append(store.evidence, e)]
      BY <1>2, <1>4 DEF SetStatus, AddEvidence, Stores
    <2>2. status \in TicketStatuses
      BY DEF TicketStatuses
    <2> DEFINE es == Append(store.evidence, e)
    <2>3. \E d : es = Append(store.evidence, d)
      OBVIOUS
    <2>4. store' = [store EXCEPT !.ticket[x] = status, !.evidence = es]
      BY <2>1
    <2> HIDE DEF es
    <2> QED
      BY <1>2, <1>4, <2>2, <2>3, <2>4, TicketOutcome
  <1>5. CASE TicketCreate(p)
    BY <1>2, <1>3, <1>5 DEF TicketCreate, Save, x
  <1>6. CASE TicketStart(p)
    BY <1>2, <1>3, <1>6 DEF TicketStart, Save, x
  <1>7. CASE TicketBlock(p)
    BY <1>2, <1>3, <1>7 DEF TicketBlock, Save, x
  <1>8. CASE TicketSubmit(p)
    BY <1>2, <1>4, <1>8 DEF TicketSubmit, Save, x
  <1>9. CASE TicketDone(p)
    BY <1>2, <1>3, <1>9 DEF TicketDone, Save, x
  <1>10. CASE VerifyRecord(p)
    <2> DEFINE status == IF job[p].outcome = "pass" THEN "done" ELSE "in_progress"
               e == Pointer(x, LatestDigest(store, x), job[p].outcome)
    <2>1. store' = AddEvidence(SetStatus(store, x, status), e)
      BY <1>2, <1>10 DEF VerifyRecord, Save, x
    <2>2. status \in {"in_review", "in_progress", "done"}
      OBVIOUS
    <2>3. status = "done" => DependenciesDone(store, x)
      BY <1>2, <1>10 DEF VerifyRecord, x
    <2> HIDE DEF status, e
    <2> QED
      BY <1>4, <2>1, <2>2, <2>3
  <1> QED
    BY <1>5, <1>6, <1>7, <1>8, <1>9, <1>10

LEMMA StepOutcome ==
    ASSUME IInv, Alone, [Next]_vars PROVE store' = store \/ \E p \in Procs : Outcome(p) /\ Writes(p)
PROOF
  <1>1. ASSUME NEW p \in Procs, Writes(p) PROVE Outcome(p)
    BY <1>1, GoalsOutcome, TicketsOutcome DEF Writes
  <1> QED
    BY <1>1, OnlyWrites

(* With commands that do not overlap, a goal is completed only on finished tickets, whose
   latest submissions passed and are what the completing command found checked out
   (goal complete of cli/commands/goal.ts). *)
THEOREM GoalsCompleteOnEvidence ==
    ASSUME Serial PROVE Spec => CompletedOnEvidence
PROOF
  <1> DEFINE Completed(g) ==
         \A t \in TicketsOf(store', g) :
            /\ store'.ticket[t] \in {"done", "cancelled"}
            /\ store'.ticket[t] = "done" /\ t \in CodeChanged =>
                  /\ CompletionEvidence(store', t)
                  /\ \E p \in Procs : step[p] = "checked" /\ job[p].found = LatestDigest(store', t)
  <1>1. ASSUME IInv, Alone, [Next]_vars, NEW g \in Goals,
               store.goal[g].status # "done", store'.goal[g].status = "done"
        PROVE  Completed(g)
    <2>1. PICK p \in Procs : GoalComplete(p) /\ g = Subject(p)
      BY <1>1, StepOutcome DEF Outcome
    <2>2. step[p] = "checked" /\ Mine(p) = store /\ store \in Stores
      BY <1>1, <2>1 DEF GoalComplete, At, Alone, IInv, TypeOK
    <2>3. Completable(store, g, job[p].found) /\ store' = Finish(store, g, "done")
      BY <2>1, <2>2 DEF GoalComplete, Save
    <2>4. store'.ticket = store.ticket /\ store'.evidence = store.evidence
      BY <2>2, <2>3 DEF Finish, Stores
    <2>5. TicketsOf(store', g) = TicketsOf(store, g)
      BY <2>4 DEF TicketsOf
    <2>6. ASSUME NEW t \in TicketsOf(store, g)
          PROVE  /\ CompletionEvidence(store, t) => CompletionEvidence(store', t)
                 /\ LatestDigest(store', t) = LatestDigest(store, t)
      BY <2>4 DEF CompletionEvidence, Submitted, HasPass, LatestDigest, Latest
    <2>7. ASSUME NEW t \in TicketsOf(store, g), store.ticket[t] = "done", t \in CodeChanged
          PROVE  /\ CompletionEvidence(store', t)
                 /\ job[p].found = LatestDigest(store', t)
      BY <2>3, <2>6, <2>7 DEF Completable, FreshCompletionEvidence, Digest
    <2> QED
      BY <2>2, <2>3, <2>4, <2>5, <2>7 DEF Completable
  <1>2. IInv /\ Alone /\ [Next]_vars =>
           [\A g \in Goals : store.goal[g].status # "done" /\ store'.goal[g].status = "done" =>
                Completed(g)]_vars
    BY <1>1
  <1> QED
    BY <1>2, SerialAlone, PTL DEF Spec, CompletedOnEvidence

(* With commands that do not overlap, a ticket is done only after those that block it
   (ticket done and verify run; tickets/provider.ts). *)
THEOREM DependenciesComeFirst ==
    ASSUME Serial PROVE Spec => DoneAfterDependencies
PROOF
  <1>1. ASSUME IInv, Alone, [Next]_vars, NEW t \in Tickets,
               store.ticket[t] # "done", store'.ticket[t] = "done"
        PROVE  \A d \in BlockedBy[t] : store'.ticket[d] = "done"
    <2>1. PICK p \in Procs : Outcome(p)
      BY <1>1, StepOutcome
    <2> QED
      BY <1>1, <2>1, ConstantsAssumption DEF Outcome, DependenciesDone
  <1>2. IInv /\ Alone /\ [Next]_vars =>
           [\A t \in Tickets : store.ticket[t] # "done" /\ store'.ticket[t] = "done" =>
                \A d \in BlockedBy[t] : store'.ticket[d] = "done"]_vars
    BY <1>1
  <1> QED
    BY <1>2, SerialAlone, PTL DEF Spec, DoneAfterDependencies

(* With commands that do not overlap, recorded evidence stays, at its place
   (cli/commands/ticket.ts, cli/commands/verify.ts). *)
THEOREM EvidenceIsKept ==
    ASSUME Serial PROVE Spec => EvidenceKept
PROOF
  <1>1. ASSUME IInv, Alone, [Next]_vars
        PROVE  /\ Len(store'.evidence) >= Len(store.evidence)
               /\ \A i \in DOMAIN store.evidence : store'.evidence[i] = store.evidence[i]
    <2>1. store.evidence \in Seq(Pointers) /\ store'.evidence \in Seq(Pointers)
      <3>1. IInv'
        BY <1>1, Step
      <3> QED
        BY <1>1, <3>1 DEF IInv, TypeOK, Stores
    <2>2. CASE store'.evidence = store.evidence
      BY <2>1, <2>2
    <2>3. CASE \E e : store'.evidence = Append(store.evidence, e)
      <3>1. PICK e : store'.evidence = Append(store.evidence, e)
        BY <2>3
      <3>2. Len(store'.evidence) = Len(store.evidence) + 1
        BY <2>1, <3>1
      <3>3. \A i \in 1 .. Len(store.evidence) : store'.evidence[i] = store.evidence[i]
        BY <2>1, <3>1
      <3> QED
        BY <2>1, <3>2, <3>3
    <2> QED
      BY <1>1, <2>2, <2>3, StepOutcome DEF Outcome
  <1>2. IInv /\ Alone /\ [Next]_vars =>
           [/\ Len(store'.evidence) >= Len(store.evidence)
            /\ \A i \in DOMAIN store.evidence : store'.evidence[i] = store.evidence[i]]_vars
    BY <1>1
  <1> QED
    BY <1>2, SerialAlone, PTL DEF Spec, EvidenceKept
=============================================================================
