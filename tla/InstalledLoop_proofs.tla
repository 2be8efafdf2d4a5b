------------------------ MODULE InstalledLoop_proofs ------------------------
(***************************************************************************)
(* Theorems about InstalledLoop, for any number of processes and actions    *)
(* and for callers that may ask for anything in any order.                  *)
(*                                                                         *)
(* The inductive invariant says what a call in each phase knows (Phases):   *)
(* which intent is on disk and whether the loop is before or after it.      *)
(* That needs the loop's lease (LoopExclusive): without it another call     *)
(* could change the state between the comparison and the write.             *)
(***************************************************************************)
EXTENDS InstalledLoop, TLAPS

(* What p's call has established about its action's intent and the state. *)
Phase(p) ==
    LET c == call[p]
        onDisk == loopIntent[c.action]
    IN  /\ loopPc[p] = "plan" => onDisk = NoLoopIntent
        /\ loopPc[p] = "announce" =>
               /\ onDisk = NoLoopIntent
               /\ c.intent # NoLoopIntent
               /\ live = c.intent.before
        /\ loopPc[p] \in {"compare", "attempt", "write", "history", "finalize"} =>
               /\ c.intent # NoLoopIntent
               /\ onDisk = c.intent
        /\ loopPc[p] \in {"attempt", "write"} => live = c.intent.before
        /\ loopPc[p] = "write" => c.intent.attempted
        /\ loopPc[p] \in {"history", "finalize"} => live = c.intent.after

Phases == \A p \in Procs : Phase(p)

LoopIInv == LoopTypeOK /\ LoopExclusive /\ Phases /\ StateIsAnnounced

-----------------------------------------------------------------------------
(* The state that a plan leads to is a state. *)
LEMMA IntendedTyped ==
    ASSUME NEW c \in Calls, NEW before \in LoopStates
    PROVE  Intended(c, before) \in LoopStates
<1>1. ASSUME c.target = NoTarget
      PROVE  Append(before.version, [paused |-> c.paused, by |-> c.action])
                 \in Seq([paused : BOOLEAN, by : Actions])
  BY DEF Calls, LoopStates
<1>2. c.target \in LoopStates \cup {NoTarget} /\ c.paused \in BOOLEAN
  BY DEF Calls
<1> QED
  BY <1>1, <1>2 DEF Intended, LoopStates

(* Initially nothing is announced, running or paused. *)
LEMMA LoopInitInvariant == LoopInit => LoopIInv
<1> SUFFICES ASSUME LoopInit PROVE LoopIInv
  OBVIOUS
<1>1. Unpaused \in LoopStates
  BY DEF Unpaused, LoopStates
<1>2. LoopTypeOK
  BY <1>1 DEF LoopInit, LoopTypeOK, LoopLabels
<1>3. LoopExclusive /\ Phases
  BY DEF LoopInit, LoopExclusive, InLoop, LoopLabels, Phases, Phase
<1>4. StateIsAnnounced
  BY DEF LoopInit, StateIsAnnounced
<1> QED
  BY <1>2, <1>3, <1>4 DEF LoopIInv

(* What the invariant says of one process's call, as facts to cite. *)
LEMMA Running ==
    ASSUME LoopIInv, NEW p \in Procs, loopPc[p] \notin {"none", "ok", "error"}
    PROVE  /\ call[p] \in Calls
           /\ call[p].action \in Actions
           /\ call[p].intent \in LoopIntents \cup {NoLoopIntent}
           /\ loopIntent[call[p].action] \in LoopIntents \cup {NoLoopIntent}
           /\ Phase(p)
BY DEF LoopIInv, LoopTypeOK, Phases, Calls

(* A call that works alone leaves the others' phases alone: they are not in the
   lease, and say nothing. *)
LEMMA OthersSilent ==
    ASSUME LoopIInv, NEW p \in Procs, InLoop(p), NEW q \in Procs, q # p
    PROVE  loopPc[q] \in {"none", "acquire", "ok", "error"}
BY DEF LoopIInv, LoopTypeOK, LoopExclusive, InLoop

-----------------------------------------------------------------------------
(* Every step preserves the invariant. *)
LEMMA LoopStepInvariant == LoopIInv /\ [LoopNext]_loopVars => LoopIInv'
<1> SUFFICES ASSUME LoopIInv, [LoopNext]_loopVars PROVE LoopIInv'
  OBVIOUS
<1> USE DEF LoopIInv
<1>1. CASE UNCHANGED loopVars
  BY <1>1 DEF loopVars, loopFiles, LoopTypeOK, LoopExclusive, InLoop, Phases, Phase, StateIsAnnounced
<1>2. ASSUME NEW p \in Procs, NEW a \in Actions, NEW b \in BOOLEAN,
             NEW t \in LoopStates \cup {NoTarget}, Call(p, a, b, t)
      PROVE  LoopIInv'
  <2>1. LoopTypeOK'
    <3> DEFINE c == [action |-> a, paused |-> b, target |-> t, intent |-> NoLoopIntent]
    <3>1. c \in Calls /\ c # NoCall
      BY LoopAbsentAssumption DEF Calls
    <3>2. /\ loopPc' = [loopPc EXCEPT ![p] = "acquire"]
          /\ call' = [call EXCEPT ![p] = c]
          /\ UNCHANGED <<live, loopIntent, history, took>>
      BY <1>2 DEF Call, LoopGoto, loopFiles
    <3> HIDE DEF c
    <3> QED
      BY <3>1, <3>2 DEF LoopTypeOK, LoopLabels
  <2>2. LoopExclusive'
    BY <1>2 DEF Call, LoopGoto, LoopTypeOK, LoopExclusive, InLoop, LoopLabels
  <2>3. Phases'
    BY <1>2 DEF Call, LoopGoto, LoopTypeOK, Phases, Phase, loopFiles
  <2>4. StateIsAnnounced'
    BY <1>2 DEF Call, StateIsAnnounced, loopFiles
  <2> QED
    BY <2>1, <2>2, <2>3, <2>4
<1>3. ASSUME NEW p \in Procs, Acquire(p) PROVE LoopIInv'
  <2>1. LoopTypeOK'
    BY <1>3 DEF Acquire, LoopGoto, LoopTypeOK, LoopLabels, loopFiles
  <2>2. LoopExclusive'
    BY <1>3 DEF Acquire, LoopGoto, LoopTypeOK, LoopExclusive, InLoop, LoopLabels
  <2>3. Phases'
    BY <1>3 DEF Acquire, LoopGoto, LoopTypeOK, Phases, Phase, loopFiles
  <2>4. StateIsAnnounced'
    BY <1>3 DEF Acquire, StateIsAnnounced, loopFiles
  <2> QED
    BY <2>1, <2>2, <2>3, <2>4
<1>4. ASSUME NEW p \in Procs,
             \/ loopPc[p] \in {"ok", "error"} /\ Return(p)
             \/ FailLoop(p)
             \/ DieInLoop(p)
      PROVE  LoopIInv'
  <2>1. \E o \in {"none", "error"} : LoopGoto(p, o)
    BY <1>4 DEF Return, FailLoop, DieInLoop, Settle
  <2>2. \/ call' = [call EXCEPT ![p] = NoCall]
        \/ UNCHANGED call
    BY <1>4 DEF Return, FailLoop, DieInLoop, Settle
  <2>3. UNCHANGED <<live, loopIntent, history, took>>
    BY <1>4 DEF Return, FailLoop, DieInLoop, loopFiles
  <2>4. LoopTypeOK'
    BY <2>1, <2>2, <2>3 DEF LoopGoto, LoopTypeOK, LoopLabels
  <2>5. LoopExclusive'
    BY <2>1 DEF LoopGoto, LoopTypeOK, LoopExclusive, InLoop, LoopLabels
  <2>6. Phases'
    BY <2>1, <2>2, <2>3 DEF LoopGoto, LoopTypeOK, Phases, Phase
  <2>7. StateIsAnnounced'
    BY <2>3 DEF StateIsAnnounced
  <2> QED
    BY <2>4, <2>5, <2>6, <2>7
<1>5. ASSUME NEW p \in Procs, ReadLoopIntent(p) \/ Compare(p) \/ Plan(p) PROVE LoopIInv'
  <2>1. /\ InLoop(p)
        /\ loopPc[p] \in {"read", "compare", "plan"}
        /\ UNCHANGED <<live, loopIntent, history, took>>
    BY <1>5 DEF ReadLoopIntent, Compare, Plan, InLoop, LoopLabels, loopFiles
  <2>2. \E label \in LoopLabels : LoopGoto(p, label)
    BY <1>5 DEF ReadLoopIntent, Compare, Plan, Settle, LoopLabels
  <2>3. \E c \in Calls \cup {NoCall} : call' = [call EXCEPT ![p] = c]
    <3>1. CASE ReadLoopIntent(p)
      <4>1. call[p] \in Calls /\ loopIntent[call[p].action] \in LoopIntents \cup {NoLoopIntent}
        BY <2>1, Running
      <4>2. \A i \in LoopIntents : [call[p] EXCEPT !.intent = i] \in Calls
        BY <4>1 DEF Calls
      <4>3. call' = call \/ call' = [call EXCEPT ![p] = NoCall]
              \/ \E i \in LoopIntents : call' = [call EXCEPT ![p] = [call[p] EXCEPT !.intent = i]]
        BY <3>1, <4>1 DEF ReadLoopIntent, Settle
      <4>4. call = [call EXCEPT ![p] = call[p]]
        BY DEF LoopTypeOK
      <4> QED
        BY <4>1, <4>2, <4>3, <4>4
    <3>2. CASE Compare(p)
      <4>1. call = [call EXCEPT ![p] = call[p]] /\ call[p] \in Calls
        BY <2>1, Running DEF LoopTypeOK
      <4> QED
        BY <3>2, <4>1 DEF Compare, Settle
    <3>3. CASE Plan(p)
      <4>1. call[p] \in Calls /\ live \in LoopStates
        BY <2>1, Running DEF LoopTypeOK
      <4>2. Intended(call[p], live) \in LoopStates
        BY <4>1, IntendedTyped
      <4>3. [call[p] EXCEPT !.intent = [finalized |-> FALSE, attempted |-> FALSE, before |-> live,
                                        after |-> Intended(call[p], live)]] \in Calls
        BY <4>1, <4>2 DEF Calls, LoopIntents
      <4> QED
        BY <3>3, <4>3 DEF Plan, Settle
    <3> QED
      BY <1>5, <3>1, <3>2, <3>3
  <2>4. LoopTypeOK'
    <3>1. loopPc' \in [Procs -> LoopLabels] /\ call' \in [Procs -> Calls \cup {NoCall}]
      BY <2>2, <2>3 DEF LoopGoto, LoopTypeOK
    <3>2. loopPc'[p] \notin {"none", "ok", "error"} => call'[p] # NoCall
      <4>1. \/ call'[p] = NoCall /\ loopPc'[p] \in {"ok", "error"}
            \/ call'[p] = call[p]
            \/ \E i \in LoopIntents : call'[p] = [call[p] EXCEPT !.intent = i]
        <5>1. loopIntent[call[p].action] \in LoopIntents \cup {NoLoopIntent}
          BY <2>1, Running
        <5>2. call[p] \in Calls /\ live \in LoopStates
          BY <2>1, Running DEF LoopTypeOK
        <5>3. [finalized |-> FALSE, attempted |-> FALSE, before |-> live,
               after |-> Intended(call[p], live)] \in LoopIntents
          BY <5>2, IntendedTyped DEF LoopIntents
        <5> QED
          BY <1>5, <5>1, <5>3 DEF ReadLoopIntent, Compare, Plan, Settle, LoopGoto, LoopTypeOK
      <4>2. call[p] \in Calls
        BY <2>1, Running
      <4>3. \A i \in LoopIntents : [call[p] EXCEPT !.intent = i] \in Calls
        BY <4>2 DEF Calls
      <4> QED
        BY <4>1, <4>2, <4>3, LoopAbsentAssumption
    <3>3. ASSUME NEW q \in Procs, q # p, loopPc'[q] \notin {"none", "ok", "error"}
          PROVE  call'[q] # NoCall
      BY <2>2, <2>3, <3>3 DEF LoopGoto, LoopTypeOK
    <3> QED
      BY <2>1, <3>1, <3>2, <3>3 DEF LoopTypeOK
  <2>5. LoopExclusive'
    BY <2>1, <2>2, OthersSilent DEF LoopGoto, LoopTypeOK, LoopExclusive, InLoop
  <2>6. Phase(p)'
    <3>1. Phase(p) /\ call[p] \in Calls /\ loopIntent[call[p].action] \in LoopIntents \cup {NoLoopIntent}
      BY <2>1, Running
    <3>2. CASE ReadLoopIntent(p)
      BY <2>1, <3>1, <3>2 DEF ReadLoopIntent, Phase, LoopGoto, Settle, LoopTypeOK, Calls
    <3>3. CASE Compare(p)
      BY <2>1, <3>1, <3>3 DEF Compare, Phase, LoopGoto, Settle, LoopTypeOK, Calls
    <3>4. CASE Plan(p)
      <4>1. live \in LoopStates
        BY DEF LoopTypeOK
      <4>2. [finalized |-> FALSE, attempted |-> FALSE, before |-> live,
             after |-> Intended(call[p], live)] \in LoopIntents
        BY <4>1, <3>1, IntendedTyped DEF LoopIntents
      <4> DEFINE planned == [finalized |-> FALSE, attempted |-> FALSE, before |-> live,
                             after |-> Intended(call[p], live)]
      <4>3. CASE loopPc' = [loopPc EXCEPT ![p] = "ok"]
        BY <4>3 DEF LoopTypeOK, Phase
      <4>4. CASE /\ loopPc' = [loopPc EXCEPT ![p] = "announce"]
                 /\ call' = [call EXCEPT ![p].intent = planned]
        <5>1. /\ loopPc'[p] = "announce"
              /\ call'[p] = [call[p] EXCEPT !.intent = planned]
          BY <4>4 DEF LoopTypeOK
        <5>2. /\ call'[p].intent = planned
              /\ call'[p].action = call[p].action
          BY <5>1, <3>1 DEF Calls
        <5>3. planned # NoLoopIntent /\ planned.before = live
          BY <4>2, LoopAbsentAssumption
        <5>4. loopIntent[call[p].action] = NoLoopIntent
          BY <3>1, <3>4 DEF Phase, Plan
        <5> HIDE DEF planned
        <5> QED
          BY <2>1, <5>1, <5>2, <5>3, <5>4 DEF Phase
      <4> QED
        BY <3>4, <4>3, <4>4 DEF Plan, LoopGoto, Settle
    <3> QED
      BY <1>5, <3>2, <3>3, <3>4
  <2>7. ASSUME NEW q \in Procs, q # p PROVE Phase(q)'
    <3>1. loopPc'[q] \in {"none", "acquire", "ok", "error"}
      BY <2>1, <2>2, <2>7, OthersSilent DEF LoopGoto, LoopTypeOK
    <3> QED
      BY <3>1 DEF Phase
  <2>8. StateIsAnnounced'
    BY <2>1 DEF StateIsAnnounced
  <2> QED
    BY <2>4, <2>5, <2>6, <2>7, <2>8 DEF Phases
<1>6. ASSUME NEW p \in Procs, Announce(p) \/ AttemptLoop(p) \/ FinalizeLoop(p) PROVE LoopIInv'
  <2> DEFINE a == call[p].action
             i == call[p].intent
  <2>1. /\ InLoop(p)
        /\ loopPc[p] \in {"announce", "attempt", "finalize"}
        /\ UNCHANGED <<live, history, took>>
    BY <1>6 DEF Announce, AttemptLoop, FinalizeLoop, InLoop, LoopLabels
  <2>2. call[p] \in Calls /\ a \in Actions /\ Phase(p) /\ i \in LoopIntents
    BY <2>1, Running DEF Phase
  <2>3. PICK j \in LoopIntents :
            /\ loopIntent' = [loopIntent EXCEPT ![a] = j]
            /\ j.before = i.before /\ j.after = i.after
            /\ loopPc[p] # "announce" => j.attempted
            /\ loopPc[p] = "announce" => j = i
            /\ loopPc[p] # "finalize" => call' = [call EXCEPT ![p].intent = j]
            /\ loopPc[p] = "finalize" => call' = [call EXCEPT ![p] = NoCall]
    <3>1. CASE Announce(p)
      BY <2>2, <3>1 DEF Announce, WriteLoopIntent
    <3>2. CASE AttemptLoop(p)
      BY <2>2, <3>2 DEF AttemptLoop, WriteLoopIntent, LoopIntents
    <3>3. CASE FinalizeLoop(p)
      BY <2>2, <3>3 DEF FinalizeLoop, Settle, LoopIntents
    <3> QED
      BY <1>6, <3>1, <3>2, <3>3
  <2>4. /\ loopPc[p] = "announce" => LoopGoto(p, "attempt")
        /\ loopPc[p] = "attempt" => LoopGoto(p, "write")
        /\ loopPc[p] = "finalize" => LoopGoto(p, "ok")
    BY <1>6 DEF Announce, AttemptLoop, FinalizeLoop, Settle
  <2>5. [call[p] EXCEPT !.intent = j] \in Calls
    BY <2>2, <2>3 DEF Calls
  <2>6. LoopTypeOK'
    <3>1. call' \in [Procs -> Calls \cup {NoCall}]
      BY <2>1, <2>3, <2>5 DEF LoopTypeOK
    <3>2. loopIntent' \in [Actions -> LoopIntents \cup {NoLoopIntent}]
      BY <2>2, <2>3 DEF LoopTypeOK
    <3>3. loopPc' \in [Procs -> LoopLabels]
      BY <2>1, <2>4 DEF LoopGoto, LoopTypeOK, LoopLabels
    <3>4. ASSUME NEW q \in Procs, loopPc'[q] \notin {"none", "ok", "error"}
          PROVE  call'[q] # NoCall
      <4>1. CASE q = p
        BY <2>1, <2>3, <2>4, <2>5, <3>4, <4>1, LoopAbsentAssumption DEF LoopGoto, LoopTypeOK
      <4>2. CASE q # p
        BY <2>1, <2>3, <2>4, <3>4, <4>2 DEF LoopGoto, LoopTypeOK
      <4> QED
        BY <4>1, <4>2
    <3> QED
      BY <2>1, <3>1, <3>2, <3>3, <3>4 DEF LoopTypeOK
  <2>7. LoopExclusive'
    BY <2>1, <2>4, OthersSilent DEF LoopGoto, LoopTypeOK, LoopExclusive, InLoop
  <2>8. Phase(p)'
    BY <2>1, <2>2, <2>3, <2>4, LoopAbsentAssumption DEF Phase, LoopGoto, LoopTypeOK, Calls
  <2>9. ASSUME NEW q \in Procs, q # p PROVE Phase(q)'
    <3>1. loopPc'[q] \in {"none", "acquire", "ok", "error"}
      BY <2>1, <2>4, <2>9, OthersSilent DEF LoopGoto, LoopTypeOK
    <3> QED
      BY <3>1 DEF Phase
  <2>10. StateIsAnnounced'
    <3> SUFFICES ASSUME live # Unpaused
                 PROVE  \E b \in Actions : /\ loopIntent'[b] # NoLoopIntent
                                           /\ loopIntent'[b].attempted
                                           /\ live \in {loopIntent'[b].before, loopIntent'[b].after}
      BY <2>1 DEF StateIsAnnounced
    <3>1. PICK b \in Actions : /\ loopIntent[b] # NoLoopIntent
                               /\ loopIntent[b].attempted
                               /\ live \in {loopIntent[b].before, loopIntent[b].after}
      BY DEF StateIsAnnounced
    <3>2. CASE b = a
      BY <2>1, <2>2, <2>3, <3>1, <3>2, LoopAbsentAssumption DEF Phase, LoopTypeOK
    <3>3. CASE b # a
      BY <2>2, <2>3, <3>1, <3>3 DEF LoopTypeOK
    <3> QED
      BY <3>2, <3>3
  <2> QED
    BY <2>6, <2>7, <2>8, <2>9, <2>10 DEF Phases
<1>7. ASSUME NEW p \in Procs, WriteLive(p) \/ WriteHistory(p) PROVE LoopIInv'
  <2>1. /\ InLoop(p)
        /\ loopPc[p] \in {"write", "history"}
        /\ UNCHANGED <<loopIntent, call>>
    BY <1>7 DEF WriteLive, WriteHistory, InLoop, LoopLabels
  <2>2. call[p] \in Calls /\ call[p].action \in Actions /\ Phase(p) /\ call[p].intent \in LoopIntents
    BY <2>1, Running DEF Phase
  <2>3. EntryOf(call[p]) \in Entries /\ call[p].intent.after \in LoopStates
    BY <2>2 DEF EntryOf, Entries, LoopIntents
  <2>4. LoopTypeOK'
    <3>1. CASE WriteLive(p)
      BY <2>2, <2>3, <3>1 DEF WriteLive, LoopGoto, LoopTypeOK, LoopLabels
    <3>2. CASE WriteHistory(p)
      BY <2>3, <3>2 DEF WriteHistory, LoopGoto, LoopTypeOK, LoopLabels
    <3> QED
      BY <1>7, <3>1, <3>2
  <2>5. LoopExclusive'
    BY <1>7, <2>1, OthersSilent
    DEF WriteLive, WriteHistory, LoopGoto, LoopTypeOK, LoopExclusive, InLoop
  <2>6. Phase(p)'
    BY <1>7, <2>2 DEF WriteLive, WriteHistory, Phase, LoopGoto, LoopTypeOK
  <2>7. ASSUME NEW q \in Procs, q # p PROVE Phase(q)'
    <3>1. loopPc'[q] \in {"none", "acquire", "ok", "error"}
      BY <1>7, <2>1, <2>7, OthersSilent DEF WriteLive, WriteHistory, LoopGoto, LoopTypeOK
    <3> QED
      BY <3>1 DEF Phase
  <2>8. StateIsAnnounced'
    <3>1. CASE WriteLive(p)
      BY <2>1, <2>2, <3>1, LoopAbsentAssumption DEF WriteLive, Phase, StateIsAnnounced
    <3>2. CASE WriteHistory(p)
      BY <3>2 DEF WriteHistory, StateIsAnnounced
    <3> QED
      BY <1>7, <3>1, <3>2
  <2> QED
    BY <2>4, <2>5, <2>6, <2>7, <2>8 DEF Phases
<1> QED
  BY <1>1, <1>2, <1>3, <1>4, <1>5, <1>6, <1>7 DEF LoopNext, LoopStep, Return

-----------------------------------------------------------------------------
(* A call is alone between taking and leaving the loop's lease, works by the
   intent on disk, and every state of the loop was announced. *)
THEOREM LoopInvariant == LoopSpec => []LoopIInv
BY LoopInitInvariant, LoopStepInvariant, PTL DEF LoopSpec

(* The loop's files and calls keep their shape. *)
THEOREM LoopTypeCorrect == LoopSpec => []LoopTypeOK
<1>1. LoopIInv => LoopTypeOK
  BY DEF LoopIInv
<1> QED
  BY <1>1, LoopInvariant, PTL

(* Write-ahead: a state is written only by a call whose intent is on disk and
   marked attempted, from the state that intent announced to change. *)
THEOREM ChangesAreAnnounced == LoopSpec => []WriteAhead
<1>1. LoopIInv => WriteAhead
  BY DEF LoopIInv, Phases, Phase, WriteAhead
<1> QED
  BY <1>1, LoopInvariant, PTL

(* Whatever crashed, a state of the loop is explained by an attempted intent. *)
THEOREM StatesAreExplained == LoopSpec => []StateIsAnnounced
<1>1. LoopIInv => StateIsAnnounced
  BY DEF LoopIInv
<1> QED
  BY <1>1, LoopInvariant, PTL

(* The history records only what took effect, when it is in effect. *)
LEMMA HistoryStep ==
    LoopIInv /\ [LoopNext]_loopVars =>
        \A e \in history' \ history : live = e.after /\ loopIntent[e.action].after = e.after
<1> SUFFICES ASSUME LoopIInv, [LoopNext]_loopVars, NEW e \in history' \ history
             PROVE  live = e.after /\ loopIntent[e.action].after = e.after
  OBVIOUS
<1>1. PICK p \in Procs : WriteHistory(p)
  BY DEF LoopNext, LoopStep, loopVars, loopFiles, Call, Acquire, ReadLoopIntent, Compare, Plan,
         Announce, AttemptLoop, WriteLive, FinalizeLoop, FailLoop, Return, DieInLoop
<1>2. e = EntryOf(call[p])
  BY <1>1 DEF WriteHistory
<1>3. Phase(p)
  BY <1>1 DEF LoopIInv, Phases
<1> QED
  BY <1>1, <1>2, <1>3 DEF WriteHistory, Phase, EntryOf

THEOREM HistoryIsTrue == LoopSpec => HistoryOfEffects
<1>1. LoopIInv /\ [LoopNext]_loopVars =>
          [\A e \in history' \ history : live = e.after /\ loopIntent[e.action].after = e.after]_loopVars
  BY HistoryStep
<1> QED
  BY <1>1, LoopInvariant, PTL DEF LoopSpec, HistoryOfEffects

(* An announced change is neither forgotten nor replaced by another one. *)
IntentStays(a) ==
    loopIntent[a] # NoLoopIntent =>
        /\ loopIntent'[a] # NoLoopIntent
        /\ loopIntent'[a].before = loopIntent[a].before
        /\ loopIntent'[a].after = loopIntent[a].after
        /\ loopIntent[a].attempted => loopIntent'[a].attempted
        /\ loopIntent[a].finalized => loopIntent'[a].finalized

LEMMA IntentStep == LoopIInv /\ [LoopNext]_loopVars => \A a \in Actions : IntentStays(a)
<1> SUFFICES ASSUME LoopIInv, [LoopNext]_loopVars, NEW a \in Actions PROVE IntentStays(a)
  OBVIOUS
<1>1. CASE UNCHANGED loopIntent
  BY <1>1 DEF IntentStays
<1>2. ASSUME NEW p \in Procs, Announce(p) \/ AttemptLoop(p) \/ FinalizeLoop(p)
      PROVE  IntentStays(a)
  <2>1. /\ call[p] \in Calls
        /\ call[p].action \in Actions
        /\ Phase(p)
        /\ call[p].intent \in LoopIntents
        /\ loopIntent \in [Actions -> LoopIntents \cup {NoLoopIntent}]
    BY <1>2, Running DEF Announce, AttemptLoop, FinalizeLoop, Phase, LoopIInv, LoopTypeOK
  <2>2. CASE Announce(p)
    BY <2>1, <2>2 DEF Announce, WriteLoopIntent, Phase, IntentStays
  <2>3. CASE AttemptLoop(p)
    <3>1. [call[p].intent EXCEPT !.attempted = TRUE] \in LoopIntents
      BY <2>1 DEF LoopIntents
    <3> QED
      BY <2>1, <2>3, <3>1, LoopAbsentAssumption
      DEF AttemptLoop, WriteLoopIntent, Phase, IntentStays, LoopIntents
  <2>4. CASE FinalizeLoop(p)
    <3>1. [call[p].intent EXCEPT !.finalized = TRUE, !.attempted = TRUE] \in LoopIntents
      BY <2>1 DEF LoopIntents
    <3> QED
      BY <2>1, <2>4, <3>1, LoopAbsentAssumption DEF FinalizeLoop, Phase, IntentStays, LoopIntents
  <2> QED
    BY <1>2, <2>2, <2>3, <2>4
<1> QED
  BY <1>1, <1>2 DEF LoopNext, LoopStep, loopVars, loopFiles, Call, Acquire, ReadLoopIntent, Compare,
         Plan, WriteLive, WriteHistory, FailLoop, Return, DieInLoop

THEOREM IntentsAreKept == LoopSpec => IntentKept
<1>1. LoopIInv /\ [LoopNext]_loopVars => [\A a \in Actions : IntentStays(a)]_loopVars
  BY IntentStep
<1>2. LoopSpec => [][\A a \in Actions : IntentStays(a)]_loopVars
  BY <1>1, LoopInvariant, PTL DEF LoopSpec
<1> QED
  BY <1>2 DEF IntentKept, IntentStays
=============================================================================
