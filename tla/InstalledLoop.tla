--------------------------- MODULE InstalledLoop ---------------------------
(***************************************************************************)
(* setPaused of autonomy/installed-loop-state.ts: the durable state of one *)
(* installed loop, changed under a lease with a write-ahead intent and a   *)
(* history entry per action.                                               *)
(*                                                                         *)
(* A caller hands a call to the adapter (Call), the adapter runs it one    *)
(* file operation per step, and the caller finds the outcome in loopPc     *)
(* ("ok" or "error") and takes it (Return).  A call may fail or its        *)
(* process may die between any two steps.                                  *)
(*                                                                         *)
(* A state version hashes the previous version, the new pause flag and the *)
(* action identity: it is the sequence of what was hashed.  The protected  *)
(* digest is a function of flag and version, so two states have the same   *)
(* protected state when they are equal.                                    *)
(***************************************************************************)
EXTENDS Naturals, Sequences

CONSTANTS Procs,
          Actions,       \* action identities
          NoTarget,      \* no restoreTarget was passed
          NoLoopIntent,
          NoCall

VARIABLES
    live,         \* installed-loops/<loop>.json; absent means Unpaused
    loopIntent,   \* installed-loops/intents/<action>.json
    history,      \* installed-loops/history/<loop>/*.json
    loopPc,       \* where the adapter is with each process's call
    call,         \* arguments and local variables of that call
    took          \* auxiliary: the actions whose write changed the state

loopFiles == <<live, loopIntent, history>>
loopVars == <<loopFiles, loopPc, call, took>>

LoopLabels == {"none", "acquire", "read", "compare", "plan", "announce", "attempt",
               "write", "history", "finalize", "ok", "error"}

LoopStates == [paused : BOOLEAN, version : Seq([paused : BOOLEAN, by : Actions])]

LoopIntents == [finalized : BOOLEAN, attempted : BOOLEAN,
                before : LoopStates, after : LoopStates]

Calls == [action : Actions, paused : BOOLEAN,
          target : LoopStates \cup {NoTarget},
          intent : LoopIntents \cup {NoLoopIntent}]

Entries == [action : Actions, before : LoopStates, after : LoopStates]

ASSUME LoopAbsentAssumption ==
    NoTarget \notin LoopStates /\ NoLoopIntent \notin LoopIntents /\ NoCall \notin Calls

LoopTypeOK ==
    /\ live \in LoopStates
    /\ loopIntent \in [Actions -> LoopIntents \cup {NoLoopIntent}]
    /\ history \subseteq Entries
    /\ loopPc \in [Procs -> LoopLabels]
    /\ call \in [Procs -> Calls \cup {NoCall}]
    /\ \A p \in Procs : loopPc[p] \notin {"none", "ok", "error"} => call[p] # NoCall
    /\ took \subseteq Actions

(* initialState *)
Unpaused == [paused |-> FALSE, version |-> << >>]

LoopInit ==
    /\ live = Unpaused
    /\ loopIntent = [a \in Actions |-> NoLoopIntent]
    /\ history = {}
    /\ loopPc = [p \in Procs |-> "none"]
    /\ call = [p \in Procs |-> NoCall]
    /\ took = {}

-----------------------------------------------------------------------------
LoopGoto(p, label) == loopPc' = [loopPc EXCEPT ![p] = label]

Settle(p, outcome) ==
    /\ LoopGoto(p, outcome)
    /\ call' = [call EXCEPT ![p] = NoCall]

(* Whether p's call holds the loop's lease. *)
InLoop(p) == loopPc[p] \in LoopLabels \ {"none", "acquire", "ok", "error"}

Call(p, action, paused, target) ==
    /\ loopPc[p] = "none"
    /\ LoopGoto(p, "acquire")
    /\ call' = [call EXCEPT ![p] = [action |-> action, paused |-> paused,
                                    target |-> target, intent |-> NoLoopIntent]]
    /\ UNCHANGED <<loopFiles, took>>

Acquire(p) ==
    /\ loopPc[p] = "acquire"
    /\ \A q \in Procs : ~InLoop(q)
    /\ LoopGoto(p, "read")
    /\ UNCHANGED <<loopFiles, call, took>>

(* What another call with this action intended is not what this one asks for. *)
Conflicts(c, intent) ==
    \/ intent.after.paused # c.paused
    \/ c.target # NoTarget /\ intent.after # c.target

ReadLoopIntent(p) ==
    /\ loopPc[p] = "read"
    /\ LET existing == loopIntent[call[p].action]
       IN  \/ /\ existing = NoLoopIntent
              /\ LoopGoto(p, "plan")
              /\ UNCHANGED call
           \/ /\ existing # NoLoopIntent
              /\ ~Conflicts(call[p], existing)
              /\ LoopGoto(p, "compare")
              /\ call' = [call EXCEPT ![p].intent = existing]
           \/ /\ existing # NoLoopIntent
              /\ Conflicts(call[p], existing)
              /\ Settle(p, "error")        \* INSTALLED_LOOP_ACTION_CONFLICT
    /\ UNCHANGED <<loopFiles, took>>

(* Mutant: an announced change is taken to have happened. *)
BugCompare(p) ==
    /\ loopPc[p] = "compare"
    /\ LET existing == call[p].intent
       IN  \/ /\ live \in {existing.before, existing.after}
              /\ LoopGoto(p, "history")
              /\ UNCHANGED call
           \/ /\ live \notin {existing.before, existing.after}
              /\ Settle(p, "error")
    /\ UNCHANGED <<loopFiles, took>>

(* A replay: what the intent announced happened, or has not happened yet, or
   somebody else changed the loop. *)
Compare(p) ==
    /\ loopPc[p] = "compare"
    /\ LET existing == call[p].intent
       IN  \/ /\ live = existing.after
              /\ existing.finalized
              /\ Settle(p, "ok")
           \/ /\ live = existing.after
              /\ ~existing.finalized
              /\ LoopGoto(p, "history")
              /\ UNCHANGED call
           \/ /\ live # existing.after
              /\ live = existing.before
              /\ LoopGoto(p, "attempt")
              /\ UNCHANGED call
           \/ /\ live \notin {existing.before, existing.after}
              /\ Settle(p, "error")        \* INSTALLED_LOOP_STATE_MISMATCH
    /\ UNCHANGED <<loopFiles, took>>

Intended(c, before) ==
    IF c.target # NoTarget
    THEN c.target
    ELSE [paused |-> c.paused,
          version |-> Append(before.version, [paused |-> c.paused, by |-> c.action])]

Plan(p) ==
    /\ loopPc[p] = "plan"
    /\ LET c == call[p]
       IN  \/ /\ c.target = NoTarget
              /\ live.paused = c.paused
              /\ Settle(p, "ok")
           \/ /\ c.target # NoTarget \/ live.paused # c.paused
              /\ LoopGoto(p, "announce")
              /\ call' = [call EXCEPT ![p].intent =
                     [finalized |-> FALSE, attempted |-> FALSE,
                      before |-> live, after |-> Intended(c, live)]]
    /\ UNCHANGED <<loopFiles, took>>

(* writeIntent: the local copy is the file's content from now on. *)
WriteLoopIntent(p, intent) ==
    /\ loopIntent' = [loopIntent EXCEPT ![call[p].action] = intent]
    /\ call' = [call EXCEPT ![p].intent = intent]

(* Mutant: the attempt is not marked. *)
BugAttemptLoop(p) ==
    /\ loopPc[p] = "attempt"
    /\ LoopGoto(p, "write")
    /\ UNCHANGED <<loopFiles, call, took>>

Announce(p) ==
    /\ loopPc[p] = "announce"
    /\ WriteLoopIntent(p, call[p].intent)
    /\ LoopGoto(p, "attempt")
    /\ UNCHANGED <<live, history, took>>

AttemptLoop(p) ==
    /\ loopPc[p] = "attempt"
    /\ WriteLoopIntent(p, [call[p].intent EXCEPT !.attempted = TRUE])
    /\ LoopGoto(p, "write")
    /\ UNCHANGED <<live, history, took>>

WriteLive(p) ==
    /\ loopPc[p] = "write"
    /\ live' = call[p].intent.after
    /\ took' = IF live' = live THEN took ELSE took \cup {call[p].action}
    /\ LoopGoto(p, "history")
    /\ UNCHANGED <<loopIntent, history, call>>

(* finalizeIntent.  The entry's name hashes its content, which the intent
   fixes: a second attempt writes the same file. *)
EntryOf(c) == [action |-> c.action, before |-> c.intent.before, after |-> c.intent.after]

WriteHistory(p) ==
    /\ loopPc[p] = "history"
    /\ history' = history \cup {EntryOf(call[p])}
    /\ LoopGoto(p, "finalize")
    /\ UNCHANGED <<live, loopIntent, call, took>>

FinalizeLoop(p) ==
    /\ loopPc[p] = "finalize"
    /\ loopIntent' = [loopIntent EXCEPT ![call[p].action] =
                          [call[p].intent EXCEPT !.finalized = TRUE, !.attempted = TRUE]]
    /\ Settle(p, "ok")
    /\ UNCHANGED <<live, history, took>>

(* A file operation throws, or the lease is not to be had in time. *)
FailLoop(p) ==
    /\ loopPc[p] \notin {"none", "ok", "error"}
    /\ Settle(p, "error")
    /\ UNCHANGED <<loopFiles, took>>

(* The caller takes the outcome; also what is left of the call of a process
   that dies. *)
Return(p) ==
    /\ loopPc[p] \in {"ok", "error"}
    /\ LoopGoto(p, "none")
    /\ UNCHANGED <<loopFiles, call, took>>

DieInLoop(p) ==
    /\ Settle(p, "none")
    /\ UNCHANGED <<loopFiles, took>>

LoopStep(p) ==
    \/ Acquire(p) \/ ReadLoopIntent(p) \/ Compare(p) \/ Plan(p) \/ Announce(p)
    \/ AttemptLoop(p) \/ WriteLive(p) \/ WriteHistory(p) \/ FinalizeLoop(p)

LoopNext ==
    \E p \in Procs :
        \/ LoopStep(p) \/ FailLoop(p) \/ Return(p) \/ DieInLoop(p)
        \/ \E a \in Actions, b \in BOOLEAN, t \in LoopStates \cup {NoTarget} : Call(p, a, b, t)

LoopSpec == LoopInit /\ [][LoopNext]_loopVars

-----------------------------------------------------------------------------
(* At most one call is between taking and leaving the loop's lease. *)
LoopExclusive == \A p, q \in Procs : InLoop(p) /\ InLoop(q) => p = q

(* No change without a durable announcement: a call that is about to write the
   state has its intent on disk, marked attempted, and the state is still the one
   it announced to change; until it is finished nobody else has changed either. *)
WriteAhead ==
    \A p \in Procs : loopPc[p] \in {"write", "history", "finalize"} =>
        /\ loopIntent[call[p].action] = call[p].intent
        /\ loopPc[p] = "write" => call[p].intent.attempted /\ live = call[p].intent.before
        /\ loopPc[p] # "write" => live = call[p].intent.after

(* Every state the loop is in, other than its first, was announced by an intent
   that is on disk and marked attempted. *)
StateIsAnnounced ==
    live # Unpaused =>
        \E a \in Actions : /\ loopIntent[a] # NoLoopIntent
                           /\ loopIntent[a].attempted
                           /\ live \in {loopIntent[a].before, loopIntent[a].after}

(* The history speaks of effects: an entry is written only while the state it
   leads to is the loop's state, so a crashed or refused action leaves none. *)
HistoryOfEffects ==
    [][\A e \in history' \ history : live = e.after /\ loopIntent[e.action].after = e.after]_loopVars

(* An action announces one change and keeps to it through crashes and replays. *)
IntentKept ==
    [][\A a \in Actions : loopIntent[a] # NoLoopIntent =>
           /\ loopIntent'[a] # NoLoopIntent
           /\ loopIntent'[a].before = loopIntent[a].before
           /\ loopIntent'[a].after = loopIntent[a].after
           /\ loopIntent[a].attempted => loopIntent'[a].attempted
           /\ loopIntent[a].finalized => loopIntent'[a].finalized]_loopVars
=============================================================================
