------------------------------ MODULE Watchdog ------------------------------
(***************************************************************************)
(* The scheduled slots of a day, their receipts, and the missed-slot       *)
(* watchdog that keeps one gap issue open while a due slot has no receipt. *)
(*                                                                         *)
(* A day has SlotCount slots and one more phase before the first of them,  *)
(* so the clock counts phases and a slot is a pair of its day and number.  *)
(* The runner of a slot, the operator who records a receipt by hand, the   *)
(* watchdog's tick (under its lease) and the grading of a day (under none) *)
(* are separate processes; each may die between two writes.                *)
(***************************************************************************)
EXTENDS Integers, FiniteSets

CONSTANTS SlotCount,      \* three in the code
          LastDay,        \* the last day; the clock starts on day 1
          MaxGaps,        \* issues that may ever be created
          MaxRecords,     \* receipts the operator records by hand
          MaxDeaths,      \* processes that die
          GradeOverlaps   \* whether a day may be graded while a tick runs

ASSUME WatchdogAssumption ==
    /\ {SlotCount, LastDay} \subseteq Nat \ {0}
    /\ {MaxGaps, MaxRecords, MaxDeaths} \subseteq Nat
    /\ GradeOverlaps \in BOOLEAN

VARIABLES
    clock,      \* phases passed since the first day began
    receipts,   \* the slot receipts
    workflows,  \* for each day, the workflow receipts of the natural runner
    runner,     \* the natural slot being run
    gaps,       \* the gap issues
    watchdog,   \* state.json of the watchdog
    tick,       \* the tick that holds the watchdog's lease
    grading,    \* the grading in progress
    vouched,    \* slots for which a natural receipt was ever recorded by hand
    records, deaths   \* receipts recorded by hand, processes that died

slotVars == <<receipts, workflows, runner, vouched, records>>
gapVars == <<gaps, watchdog, tick, grading>>
watchdogVars == <<clock, slotVars, gapVars, deaths>>

NoGap == 0
GapIds == 1 .. MaxGaps
SlotDays == 0 .. LastDay
SlotsOf(d) == {d} \X (1 .. SlotCount)
AllSlots == SlotDays \X (1 .. SlotCount)

NoRun == [slot |-> <<0, 0>>, stage |-> "none"]
NoTick == [at |-> "none", live |-> NoGap, missed |-> {}, resolved |-> FALSE]
NoGrade == [day |-> -1, missed |-> {}]

(* The role of slot n is the workflow kind n. *)
Kinds == {<<"role", n>> : n \in 1 .. SlotCount} \cup {<<"scout", 1>>, <<"watchdog", 0>>}

WatchdogTypeOK ==
    /\ clock \in 0 .. (LastDay + 1) * (SlotCount + 1) - 1
    /\ receipts \in [AllSlots -> [byHand : {"none", "ok", "failed"}, labelled : BOOLEAN,
                                 natural : BOOLEAN]]
    /\ workflows \in [SlotDays -> SUBSET Kinds]
    /\ runner \in [slot : AllSlots, stage : {"receipt", "scout", "watchdog"}] \cup {NoRun}
    /\ gaps \in [GapIds -> [status : {"none", "open", "resolved"}, missed : SUBSET AllSlots]]
    /\ watchdog \in [enabled : BOOLEAN, live : GapIds \cup {NoGap}]
    /\ tick \in [at : {"none", "observed", "acted"}, live : GapIds \cup {NoGap},
                 missed : SUBSET AllSlots, resolved : BOOLEAN]
    /\ grading \in [day : SlotDays, missed : SUBSET AllSlots] \cup {NoGrade}
    /\ vouched \subseteq AllSlots
    /\ records \in 0 .. MaxRecords
    /\ deaths \in 0 .. MaxDeaths

WatchdogInit ==
    /\ clock = SlotCount + 1
    /\ receipts = [s \in AllSlots |-> [byHand |-> "none", labelled |-> FALSE, natural |-> s[1] = 0]]
    /\ workflows = [d \in SlotDays |-> IF d = 0 THEN Kinds ELSE {}]
    /\ runner = NoRun
    /\ gaps = [g \in GapIds |-> [status |-> "none", missed |-> {}]]
    /\ watchdog = [enabled |-> TRUE, live |-> NoGap]
    /\ tick = NoTick
    /\ grading = NoGrade
    /\ vouched = {}
    /\ records = 0
    /\ deaths = 0

Today == clock \div (SlotCount + 1)
Passed == clock % (SlotCount + 1)

(* expectedDueSlots: all of yesterday, and today's slots whose time has come. *)
Due == SlotsOf(Today - 1) \cup {s \in SlotsOf(Today) : s[2] <= Passed}

TimePasses ==
    /\ clock < (LastDay + 1) * (SlotCount + 1) - 1
    /\ clock' = clock + 1
    /\ UNCHANGED <<slotVars, gapVars, deaths>>

-----------------------------------------------------------------------------
(* Running a slot: the role's workflow receipt, the slot receipt, at the first
   slot the scout pointer, and the watchdog's receipt once the day is complete. *)

RunSlot ==
    /\ runner = NoRun
    /\ \E s \in SlotsOf(Today) :
          /\ s[2] <= Passed
          /\ workflows' = [workflows EXCEPT ![s[1]] = @ \cup {<<"role", s[2]>>}]
          /\ runner' = [slot |-> s, stage |-> "receipt"]
    /\ UNCHANGED <<clock, receipts, gapVars, vouched, records, deaths>>

WriteSlotReceipt ==
    /\ runner.stage = "receipt"
    /\ receipts' = [receipts EXCEPT ![runner.slot].natural = TRUE]
    /\ runner' = [runner EXCEPT !.stage = IF runner.slot[2] = 1 THEN "scout" ELSE "watchdog"]
    /\ UNCHANGED <<clock, workflows, gapVars, vouched, records, deaths>>

WriteScoutPointer ==
    /\ runner.stage = "scout"
    /\ workflows' = [workflows EXCEPT ![runner.slot[1]] = @ \cup {<<"scout", 1>>}]
    /\ runner' = [runner EXCEPT !.stage = "watchdog"]
    /\ UNCHANGED <<clock, receipts, gapVars, vouched, records, deaths>>

NaturalHit(s) ==
    \/ receipts[s].natural
    \/ receipts[s].labelled /\ receipts[s].byHand = "ok"

(* Mutant: one natural receipt is taken for the day's. *)
BugAllNaturalSlots(d) == \E s \in SlotsOf(d) : NaturalHit(s)

AllNaturalSlots(d) == \A s \in SlotsOf(d) : NaturalHit(s)

FinishSlot ==
    /\ runner.stage = "watchdog"
    /\ workflows' =
          [workflows EXCEPT ![runner.slot[1]] =
              IF AllNaturalSlots(runner.slot[1]) THEN @ \cup {<<"watchdog", 0>>} ELSE @]
    /\ runner' = NoRun
    /\ UNCHANGED <<clock, receipts, gapVars, vouched, records, deaths>>

(* receipt record: of either status, labelled natural or manual, in one file of
   the slot whose name sorts before the runner's. *)
RecordByHand ==
    /\ records < MaxRecords
    /\ records' = records + 1
    /\ \E s \in Due, status \in {"ok", "failed"}, natural \in BOOLEAN :
          /\ receipts' = [receipts EXCEPT ![s] = [@ EXCEPT !.byHand = status, !.labelled = natural]]
          /\ vouched' = IF natural /\ status = "ok" THEN vouched \cup {s} ELSE vouched
    /\ UNCHANGED <<clock, workflows, runner, gapVars, deaths>>

-----------------------------------------------------------------------------
(* The gap issues: files whose names are drawn from their content. *)

OpenGaps == {g \in GapIds : gaps[g].status = "open"}

(* The first open issue by file name. *)
FindLive == IF OpenGaps = {} THEN NoGap
            ELSE CHOOSE g \in OpenGaps : \A h \in OpenGaps : g <= h

(* create: looks for a live issue again before it writes a new one. *)
CreateOrUpdate(missed, g) ==
    /\ IF FindLive # NoGap THEN g = FindLive ELSE gaps[g].status = "none"
    /\ gaps' = [gaps EXCEPT ![g] = [status |-> "open", missed |-> missed]]

-----------------------------------------------------------------------------
(* One tick, under the watchdog's lease. *)

(* classifyMiss of the first receipt of the slot that is listed. *)
Satisfied(s) == IF receipts[s].byHand # "none" THEN receipts[s].byHand = "ok"
                ELSE receipts[s].natural

TickObserve ==
    /\ tick = NoTick
    /\ watchdog.enabled
    /\ grading = NoGrade \/ GradeOverlaps
    /\ tick' = [at |-> "observed", live |-> watchdog.live,
                missed |-> {s \in Due : ~Satisfied(s)}, resolved |-> FALSE]
    /\ UNCHANGED <<clock, slotVars, gaps, watchdog, grading, deaths>>

(* watchdog_gap_conflict: the tick ends and nothing is written. *)
TickConflicts ==
    /\ tick.at = "observed"
    /\ tick.live # NoGap /\ FindLive \notin {NoGap, tick.live}
    /\ tick' = NoTick
    /\ UNCHANGED <<clock, slotVars, gaps, watchdog, grading, deaths>>

(* Slots are missed: the live issue is updated or one is created; none is: the
   live issue is resolved; no issue is live: the remembered id is kept. *)
TickActs ==
    /\ tick.at = "observed"
    /\ tick.live = NoGap \/ FindLive \in {NoGap, tick.live}
    /\ \/ /\ tick.missed # {}
          /\ \E g \in GapIds :
                /\ CreateOrUpdate(tick.missed, g)
                /\ tick' = [tick EXCEPT !.at = "acted", !.live = g]
       \/ /\ tick.missed = {} /\ FindLive # NoGap
          /\ gaps' = [gaps EXCEPT ![FindLive].status = "resolved"]
          /\ tick' = [tick EXCEPT !.at = "acted", !.live = FindLive, !.resolved = TRUE]
       \/ /\ tick.missed = {} /\ FindLive = NoGap
          /\ tick' = [tick EXCEPT !.at = "acted"]
          /\ UNCHANGED gaps
    /\ UNCHANGED <<clock, slotVars, watchdog, grading, deaths>>

(* Mutant: the id of an issue that was just resolved stays in the state. *)
BugTickSaves ==
    /\ tick.at = "acted"
    /\ watchdog' = [enabled |-> TRUE, live |-> tick.live]
    /\ tick' = NoTick
    /\ UNCHANGED <<clock, slotVars, gaps, grading, deaths>>

TickSaves ==
    /\ tick.at = "acted"
    /\ watchdog' = [enabled |-> TRUE, live |-> IF tick.resolved THEN NoGap ELSE tick.live]
    /\ tick' = NoTick
    /\ UNCHANGED <<clock, slotVars, gaps, grading, deaths>>

(* disable and enable, under the same lease. *)
SetEnabled ==
    /\ tick = NoTick
    /\ watchdog' = [watchdog EXCEPT !.enabled = ~@]
    /\ UNCHANGED <<clock, slotVars, gaps, tick, grading, deaths>>

-----------------------------------------------------------------------------
(* Grading the natural cycle of a day. *)

(* The components without a natural receipt.  A natural slot receipt counts for
   the watchdog's. *)
Missing(d) ==
    {k \in Kinds : k \notin workflows[d]}
        \ {k \in {<<"watchdog", 0>>} : \E s \in SlotsOf(d) : NaturalHit(s)}

(* The slots the gap issue names; it must name one. *)
GapMissed(d) ==
    LET slots == {s \in SlotsOf(d) : <<"role", s[2]>> \in Missing(d)}
    IN  IF slots = {} THEN {<<d, 1>>} ELSE slots

(* A day that is complete passes and changes nothing. *)
GradeDay ==
    /\ grading = NoGrade
    /\ tick = NoTick \/ GradeOverlaps
    /\ \E d \in 0 .. Today :
          /\ Missing(d) # {}
          /\ grading' = [day |-> d, missed |-> GapMissed(d)]
    /\ UNCHANGED <<clock, slotVars, gaps, watchdog, tick, deaths>>

GradeOpensGap ==
    /\ grading # NoGrade
    /\ \E g \in GapIds : CreateOrUpdate(grading.missed, g)
    /\ grading' = NoGrade
    /\ UNCHANGED <<clock, slotVars, watchdog, tick, deaths>>

-----------------------------------------------------------------------------
(* The runner, the tick or the grading dies. *)
WatchdogDies ==
    /\ deaths < MaxDeaths
    /\ deaths' = deaths + 1
    /\ \/ runner # NoRun /\ runner' = NoRun /\ UNCHANGED <<tick, grading>>
       \/ tick # NoTick /\ tick' = NoTick /\ UNCHANGED <<runner, grading>>
       \/ grading # NoGrade /\ grading' = NoGrade /\ UNCHANGED <<runner, tick>>
    /\ UNCHANGED <<clock, receipts, workflows, gaps, watchdog, vouched, records>>

WatchdogNext ==
    \/ TimePasses
    \/ RunSlot \/ WriteSlotReceipt \/ WriteScoutPointer \/ FinishSlot \/ RecordByHand
    \/ TickObserve \/ TickConflicts \/ TickActs \/ TickSaves \/ SetEnabled
    \/ GradeDay \/ GradeOpensGap
    \/ WatchdogDies

WatchdogSpec == WatchdogInit /\ [][WatchdogNext]_watchdogVars

-----------------------------------------------------------------------------
(* Properties. *)

(* There is at most one open gap issue, whoever opened it and wherever a tick
   or a grading died; and as long as nobody died, the watchdog remembers no
   other issue than the open one, so that no tick ends in a conflict. *)
OneAgreedGap ==
    /\ Cardinality(OpenGaps) <= 1
    /\ deaths = 0 /\ watchdog.live # NoGap => FindLive \in {NoGap, watchdog.live}

(* The watchdog's receipt of a day, which completes its natural cycle, exists
   only if every slot of that day has a receipt of the natural runner, or once had
   one somebody vouched for, in whatever order slots ran, were repeated or died. *)
CycleReceiptIsEarned ==
    \A d \in SlotDays : <<"watchdog", 0>> \in workflows[d] =>
        \A s \in SlotsOf(d) : receipts[s].natural \/ s \in vouched
=============================================================================
