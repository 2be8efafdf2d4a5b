-------------------------------- MODULE Deeds --------------------------------
(***************************************************************************)
(* The deeds of one turn of one session.  Each successful use of a tool is   *)
(* an event file; the Stop hook stores the follow-ups the last message lists, *)
(* ensures a continuation of each and records them as events too; and every  *)
(* call rebuilds the day's pointer, the page a reviewer reads.  Calls of one  *)
(* turn share a lease, and a process may die between two of its writes.      *)
(***************************************************************************)
EXTENDS Integers, Sequences, FiniteSets

CONSTANTS ToolUses,        \* uses of tools in the turn
          FollowUpItems,   \* what a message may ask to follow up
          MaxDeedCalls,    \* hook calls
          LastDeedDay,     \* the clock stops at this day
          MaxDeedDeaths,   \* processes that die at work
          MaxFollowUps     \* twelve in the code

ASSUME DeedsAssumption == {MaxDeedCalls, LastDeedDay, MaxDeedDeaths, MaxFollowUps} \subseteq Nat \ {0}

VARIABLES
    events,        \* the event files of the turn: an identity and a payload each
    quarantine,    \* the payloads kept out, with the tool use they claimed
    followUps,     \* the stored list of follow-ups, <<>> if there is no file
    pages,         \* the pointer of each day: the events it lists, {} if there is none
    ensured,       \* items whose continuation is verified at the tracker
    deedLease,     \* the call that holds the lease of the turn, 0 if none
    hooks,         \* the calls so far
    deedDay,       \* today
    deedDeaths     \* processes that died

deedVars == <<events, quarantine, followUps, pages, ensured, deedLease, hooks,
              deedDay, deedDeaths>>

(* What tells the contents of a tool's call apart; of a list, the list says it. *)
ToolPayloads == {"test", "build"}
DeedPayloads == ToolPayloads \cup {"list"}

ItemLists == {s \in UNION {[1 .. n -> FollowUpItems] : n \in 0 .. MaxFollowUps} :
                 Cardinality({s[i] : i \in DOMAIN s}) = Len(s)}

Entered(list) == {list[i] : i \in DOMAIN list}

EventKeys == ({"tool"} \X ToolUses) \cup ({"follow_ups"} \X ItemLists)
             \cup ({"continuations"} \X SUBSET FollowUpItems)

HookWorks == {"begun", "stored", "noted", "written"}

DeedsTypeOK ==
    /\ events \subseteq EventKeys \X DeedPayloads
    /\ quarantine \subseteq ToolUses \X ToolPayloads
    /\ followUps \in ItemLists
    /\ pages \in [1 .. LastDeedDay -> SUBSET (EventKeys \X DeedPayloads)]
    /\ ensured \subseteq FollowUpItems
    /\ deedLease \in 0 .. Len(hooks)
    /\ Len(hooks) <= MaxDeedCalls
    /\ \A h \in DOMAIN hooks :
          /\ hooks[h].hook \in {"PostToolUse", "Stop"}
          /\ hooks[h].key \in EventKeys
          /\ hooks[h].payload \in DeedPayloads
          /\ hooks[h].day \in 1 .. LastDeedDay
          /\ hooks[h].items \in ItemLists
          /\ hooks[h].next \in 1 .. MaxFollowUps + 1
          /\ hooks[h].at \in {"waits", "ensures", "answered", "died"} \cup HookWorks
          /\ hooks[h].answer \in {"none", "ignored", "written", "replayed", "quarantined",
                                  "ordinary", "blocked", "failed"}
    /\ deedDay \in 1 .. LastDeedDay
    /\ deedDeaths \in 0 .. MaxDeedDeaths

DeedsInit ==
    /\ events = {} /\ quarantine = {} /\ followUps = <<>>
    /\ pages = [d \in 1 .. LastDeedDay |-> {}]
    /\ ensured = {} /\ deedLease = 0 /\ hooks = <<>>
    /\ deedDay = 1 /\ deedDeaths = 0

-----------------------------------------------------------------------------
(* parseExplicitFollowUps: a message is its lines; an approved heading may carry
   an item, and the items under it count until a line that is neither an item nor
   blank.  Twelve items end the reading. *)

MessageLines ==
    [form : {"heading", "bullet"}, item : FollowUpItems \cup {"none"}]
    \cup [form : {"other_heading", "blank", "text"}, item : {"none"}]

StopMessages == UNION {[1 .. n -> MessageLines] : n \in 0 .. 2}

(* Mutant: an item that comes twice is kept twice. *)
BugAdds(found, item) ==
    IF item = "none" \/ Len(found) = MaxFollowUps THEN found ELSE Append(found, item)

Adds(found, item) ==
    IF item = "none" \/ item \in Entered(found) \/ Len(found) = MaxFollowUps
    THEN found ELSE Append(found, item)

(* What was read so far, and one line more. *)
ReadsLine(so, line) ==
    [open  |-> \/ line.form = "heading"
               \/ so.open /\ line.form \in {"bullet", "blank"},
     found |-> IF line.form = "heading" \/ (so.open /\ line.form = "bullet")
               THEN Adds(so.found, line.item) ELSE so.found]

FollowUps(message) ==
    LET read[n \in 0 .. Len(message)] ==
            IF n = 0 THEN [open |-> FALSE, found |-> <<>>]
            ELSE ReadsLine(read[n - 1], message[n])
    IN  read[Len(message)].found

-----------------------------------------------------------------------------
(* A call of a hook *)

Says(h, answer) == hooks' = [hooks EXCEPT ![h].at = "answered", ![h].answer = answer]
GoesOn(h, at) == hooks' = [hooks EXCEPT ![h].at = at]

HookBegins(call) == /\ Len(hooks) < MaxDeedCalls
                /\ hooks' = Append(hooks, call)

(* handlePostToolUse: what is malformed, failed, or of no interest is ignored, as
   is a call outside a project. *)
PostToolUse ==
    /\ \E t \in ToolUses, p \in ToolPayloads, classified \in BOOLEAN :
          HookBegins([hook |-> "PostToolUse", key |-> <<"tool", t>>, payload |-> p,
                  day |-> deedDay, items |-> <<>>, next |-> 1,
                  at |-> IF classified THEN "waits" ELSE "answered",
                  answer |-> IF classified THEN "none" ELSE "ignored"])
    /\ UNCHANGED <<events, quarantine, followUps, pages, ensured, deedLease, deedDay, deedDeaths>>

(* dispatchStopHook with an active goal; without one, and without a follow-up, the
   ordinary decision is the answer. *)
StopHook ==
    /\ \E message \in StopMessages :
          LET items == FollowUps(message)
          IN  HookBegins([hook |-> "Stop", key |-> <<"follow_ups", items>>, payload |-> "list",
                      day |-> deedDay, items |-> items, next |-> 1,
                      at |-> IF items = <<>> THEN "answered" ELSE "waits",
                      answer |-> IF items = <<>> THEN "ordinary" ELSE "none"])
    /\ UNCHANGED <<events, quarantine, followUps, pages, ensured, deedLease, deedDay, deedDeaths>>

(* withCoordinationLease *)
TakeTurn(h) ==
    /\ hooks[h].at = "waits"
    /\ deedLease = 0
    /\ deedLease' = h
    /\ GoesOn(h, "begun")
    /\ UNCHANGED <<events, quarantine, followUps, pages, ensured, deedDay, deedDeaths>>

(* The goal ended, the root is ambiguous, or the lease was not to be had. *)
HookFails(h) ==
    /\ hooks[h].at = "waits"
    /\ Says(h, IF hooks[h].hook = "Stop" THEN "blocked" ELSE "ignored")
    /\ UNCHANGED <<events, quarantine, followUps, pages, ensured, deedLease, deedDay, deedDeaths>>

(* persistStopFollowUps stores the list of the turn once; another list is refused. *)
Accepts(list) == followUps \in {<<>>, list}

StoreFollowUps(h) ==
    /\ hooks[h].at = "begun"
    /\ hooks[h].key[1] = "follow_ups"
    /\ IF Accepts(hooks[h].items)
       THEN /\ followUps' = IF followUps = <<>> THEN hooks[h].items ELSE followUps
            /\ GoesOn(h, "stored")
            /\ UNCHANGED deedLease
       ELSE /\ Says(h, "blocked")
            /\ deedLease' = 0
            /\ UNCHANGED followUps
    /\ UNCHANGED <<events, quarantine, pages, ensured, deedDay, deedDeaths>>

(* An event is written once.  Of a tool use that has one already the same payload
   is a replay, and another is kept out; of a list, being there is enough. *)
WriteEvent(h) ==
    LET c     == hooks[h]
        found == {e \in events : e[1] = c.key}
        same  == <<c.key, c.payload>> \in found
    IN  /\ c.at = IF c.key[1] = "follow_ups" THEN "stored" ELSE "begun"
        /\ IF found # {} /\ ~same
           THEN /\ quarantine' = quarantine \cup {<<c.key[2], c.payload>>}
                /\ Says(h, "quarantined")
                /\ deedLease' = 0
                /\ UNCHANGED events
           ELSE /\ events' = events \cup {<<c.key, c.payload>>}
                /\ GoesOn(h, IF same THEN "noted" ELSE "written")
                /\ UNCHANGED <<quarantine, deedLease>>
        /\ UNCHANGED <<followUps, pages, ensured, deedDay, deedDeaths>>

(* rebuildPointer, from the events of the turn, at the day the call was made.
   Mutant: a replay leaves the page as it is, for what it was asked is there. *)
BugRebuilt(c) == IF c.at = "noted" THEN pages[c.day] ELSE events

Rebuilt(c) == events

RebuildPointer(h) ==
    LET c == hooks[h]
    IN  /\ c.at \in {"noted", "written"}
        /\ pages' = [pages EXCEPT ![c.day] = Rebuilt(c)]
        /\ deedLease' = 0
        /\ CASE c.key[1] = "tool"          -> Says(h, IF c.at = "noted" THEN "replayed" ELSE "written")
             [] c.key[1] = "follow_ups"    -> GoesOn(h, "ensures")
             [] c.key[1] = "continuations" -> Says(h, "ordinary")
        /\ UNCHANGED <<events, quarantine, followUps, ensured, deedDay, deedDeaths>>

(* The next item's continuation is ensured, again when an earlier call ensured it; a
   missing binding or a failure blocks the stop, with the items before it ensured. *)
EnsureNext(h) ==
    /\ hooks[h].at = "ensures"
    /\ hooks[h].next <= Len(hooks[h].items)
    /\ \/ /\ ensured' = ensured \cup {hooks[h].items[hooks[h].next]}
          /\ hooks' = [hooks EXCEPT ![h].next = @ + 1]
       \/ /\ Says(h, "blocked")
          /\ UNCHANGED ensured
    /\ UNCHANGED <<events, quarantine, followUps, pages, deedLease, deedDay, deedDeaths>>

(* recordVerifiedContinuations, of the references in order. *)
RecordVerified(h) ==
    /\ hooks[h].at = "ensures"
    /\ hooks[h].next > Len(hooks[h].items)
    /\ hooks' = [hooks EXCEPT ![h].key = <<"continuations", Entered(hooks[h].items)>>,
                              ![h].day = deedDay, ![h].at = "waits"]
    /\ UNCHANGED <<events, quarantine, followUps, pages, ensured, deedLease, deedDay, deedDeaths>>

-----------------------------------------------------------------------------
(* The lease of a process that died is taken over when it has gone stale. *)
HookDies(h) ==
    /\ deedDeaths < MaxDeedDeaths
    /\ hooks[h].at \in HookWorks \cup {"ensures"}
    /\ deedDeaths' = deedDeaths + 1
    /\ GoesOn(h, "died")
    /\ deedLease' = IF deedLease = h THEN 0 ELSE deedLease
    /\ UNCHANGED <<events, quarantine, followUps, pages, ensured, deedDay>>

Midnight ==
    /\ deedDay < LastDeedDay
    /\ deedDay' = deedDay + 1
    /\ UNCHANGED <<events, quarantine, followUps, pages, ensured, deedLease, hooks, deedDeaths>>

DeedsNext ==
    \/ PostToolUse
    \/ StopHook
    \/ \E h \in DOMAIN hooks :
          \/ TakeTurn(h) \/ HookFails(h) \/ StoreFollowUps(h) \/ WriteEvent(h)
          \/ RebuildPointer(h) \/ EnsureNext(h) \/ RecordVerified(h) \/ HookDies(h)
    \/ Midnight

DeedsSpec == DeedsInit /\ [][DeedsNext]_deedVars

-----------------------------------------------------------------------------
(* A deed that was answered is in the page of its day with its own payload, also
   when an earlier call died between the event and the page and this one is its
   replay; and a Stop that listed follow-ups and let the session go stored that very
   list, has each of them ensured, and shows the list and its continuations in the
   page of the day it recorded them (autonomy/deeds.ts, hooks/stop.ts). *)
DeedsAreAccountedFor ==
    \A h \in DOMAIN hooks :
       LET c == hooks[h]
       IN  /\ c.answer \in {"written", "replayed"} => <<c.key, c.payload>> \in pages[c.day]
           /\ c.answer = "ordinary" /\ c.items # <<>> =>
                 /\ followUps = c.items
                 /\ Entered(c.items) \subseteq ensured
                 /\ {<<<<"follow_ups", c.items>>, "list">>, <<c.key, "list">>} \subseteq pages[c.day]

=============================================================================
