---------------------------- MODULE MulticaTickets ----------------------------
(***************************************************************************)
(* The tickets of a goal kept as issues of Multica: status and priority are   *)
(* fields the tracker sets, the action that made an issue is a marker in its  *)
(* description, found by the tracker's search and read back issue by issue.   *)
(* An issue has an owner, and an action's search leaves owned issues out.     *)
(* Clients work at once, a call may act although its answer is lost, and      *)
(* people assign issues and change their status.                             *)
(***************************************************************************)
EXTENDS Integers, Sequences, FiniteSets

CONSTANTS McClients,        \* processes with a provider
          McActions,        \* strategic actions that create or comment
          MaxMcIssues,      \* issues made
          MaxMcCalls,       \* operations begun
          MaxPeopleActs     \* changes by people

ASSUME MulticaAssumption ==
    /\ {MaxMcIssues, MaxMcCalls, MaxPeopleActs} \subseteq Nat
    /\ "none" \notin McActions

VARIABLES
    tickets,      \* the issues of the parent
    mc,           \* the operation of each client
    meddled,      \* clients whose issue others changed since they began
    taken,        \* issues a person once took
    mcCalls, peopleActs

multicaVars == <<tickets, mc, meddled, taken, mcCalls, peopleActs>>

McStatuses == {"todo", "in_review", "done"}
McPriorities == {"none", "high"}

(* said: the comments of each action, and under "none" those of the evidence. *)
McNotes == McActions \cup {"none"}
McIssues == [action : McNotes, owned : BOOLEAN, status : McStatuses, priority : McPriorities,
             said : [McNotes -> 0 .. MaxMcCalls]]

(* An operation: on which issue, for which action, what it is to set, and the hits of
   the search that are still to be read. *)
McOperations ==
    [op : {"create", "status", "priority", "comment", "none"},
     at : {"idle", "search", "hits", "create", "before", "set", "exact", "answered"},
     number : 0 .. MaxMcIssues, action : McNotes, want : McStatuses \cup McPriorities,
     hits : SUBSET (1 .. MaxMcIssues)]

McIdle == [op |-> "none", at |-> "idle", number |-> 0, action |-> "none", want |-> "none",
           hits |-> {}]

MulticaTypeOK ==
    /\ tickets \in Seq(McIssues) /\ Len(tickets) <= MaxMcIssues
    /\ mc \in [McClients -> McOperations]
    /\ meddled \subseteq McClients
    /\ taken \subseteq DOMAIN tickets
    /\ mcCalls \in 0 .. MaxMcCalls /\ peopleActs \in 0 .. MaxPeopleActs

MulticaInit ==
    /\ tickets = <<>>
    /\ mc = [c \in McClients |-> McIdle]
    /\ meddled = {} /\ taken = {} /\ mcCalls = 0 /\ peopleActs = 0

-----------------------------------------------------------------------------
McAt(c, op, at) == mc[c].op = op /\ mc[c].at = at
McGoes(c, at) == mc' = [mc EXCEPT ![c].at = at]
McStays == UNCHANGED <<tickets, meddled, taken, mcCalls, peopleActs>>
Ticket(c) == tickets[mc[c].number]
OthersOn(c, n) == {d \in McClients \ {c} : mc[d].number = n /\ n # 0}

(* An operation starts with a readback of the parent, which changes nothing. *)
McBegins(c, operation) ==
    /\ mc[c].at \in {"idle", "answered"}
    /\ mcCalls < MaxMcCalls
    /\ mcCalls' = mcCalls + 1
    /\ mc' = [mc EXCEPT ![c] = operation]
    /\ meddled' = meddled \ {c}
    /\ UNCHANGED <<tickets, taken, peopleActs>>

(* Creates of one strategic action are kept apart by the lease of the action
   (strategic-action.ts), those of a ticket's title by nothing. *)
McBeginCreate(c) ==
    \E a \in McNotes :
       /\ a # "none" => \A d \in McClients :
             ~(mc[d].op = "create" /\ mc[d].at # "answered" /\ mc[d].action = a)
       /\ McBegins(c, [McIdle EXCEPT !.op = "create", !.at = "search", !.action = a])

McBeginOnIssue(c) ==
    \E n \in DOMAIN tickets :
       LET on(op, at) == [McIdle EXCEPT !.op = op, !.at = at, !.number = n] IN
       \/ \E s \in McStatuses : McBegins(c, [on("status", "set") EXCEPT !.want = s])
       \/ \E p \in McPriorities : McBegins(c, [on("priority", "before") EXCEPT !.want = p])
       \/ \E a \in McNotes : McBegins(c, [on("comment", "before") EXCEPT !.action = a])

(* A call fails, or its answer is lost: the operation throws.  What it did stays. *)
McFails(c) ==
    /\ mc[c].at \notin {"idle", "answered"}
    /\ mc' = [mc EXCEPT ![c] = McIdle]
    /\ McStays

(* strategic.create.  Mutant: the search leaves out what is done, as a tracker does
   that searches open issues. *)
BugHits(action) ==
    {n \in DOMAIN tickets : tickets[n].action = action /\ tickets[n].status # "done"}

Hits(action) == {n \in DOMAIN tickets : tickets[n].action = action}

(* create, strategic.create: the issues with the title, one of which is the answer, or
   those with the marker, which are read one by one. *)
SearchIssues(c) ==
    /\ McAt(c, "create", "search")
    /\ LET found == Hits(mc[c].action)
       IN  IF found # {} /\ mc[c].action = "none"
           THEN \E n \in found : mc' = [mc EXCEPT ![c].number = n, ![c].at = "answered"]
           ELSE mc' = [mc EXCEPT ![c].hits = found,
                                 ![c].at = IF found = {} THEN "create" ELSE "hits"]
    /\ McStays

(* strategic.create: a hit is taken for the action's issue unless it has an owner by
   now. *)
ReadHit(c) ==
    /\ McAt(c, "create", "hits")
    /\ \E n \in mc[c].hits :
          IF tickets[n].owned
          THEN mc' = [mc EXCEPT ![c].hits = @ \ {n},
                                ![c].at = IF mc[c].hits = {n} THEN "create" ELSE "hits"]
          ELSE mc' = [mc EXCEPT ![c].hits = {}, ![c].number = n, ![c].at = "answered"]
    /\ McStays

McCreate(c) ==
    /\ McAt(c, "create", "create") /\ Len(tickets) < MaxMcIssues
    /\ tickets' = Append(tickets, [action |-> mc[c].action, owned |-> FALSE, status |-> "todo",
                                   priority |-> "none", said |-> [a \in McNotes |-> 0]])
    /\ \/ mc' = [mc EXCEPT ![c].number = Len(tickets) + 1,
                           ![c].at = IF mc[c].action = "none" THEN "answered" ELSE "exact"]
       \/ mc' = [mc EXCEPT ![c] = McIdle]
    /\ UNCHANGED <<meddled, taken, mcCalls, peopleActs>>

(* The exact readback of a strategic create wants the issue unowned still. *)
McReadCreated(c) ==
    /\ McAt(c, "create", "exact")
    /\ ~Ticket(c).owned
    /\ McGoes(c, "answered")
    /\ McStays

(* strategic.setPriority and comments: what is there already is not made again. *)
McReadBefore(c) ==
    /\ mc[c].at = "before"
    /\ McGoes(c, IF (IF mc[c].op = "priority" THEN Ticket(c).priority = mc[c].want
                     ELSE Ticket(c).said[mc[c].action] > 0)
                 THEN "answered" ELSE "set")
    /\ McStays

(* setStatus, setPriority, addEvidence, strategic.comment: one call of the tracker.  The
   answer of setStatus is compared itself, and read back only if it is not an issue. *)
Changed(ticket, o) ==
    CASE o.op = "status"   -> [ticket EXCEPT !.status = o.want]
      [] o.op = "priority" -> [ticket EXCEPT !.priority = o.want]
      [] o.op = "comment"  -> [ticket EXCEPT !.said[o.action] = @ + 1]

McSet(c) ==
    /\ mc[c].at = "set"
    /\ tickets' = [tickets EXCEPT ![mc[c].number] = Changed(@, mc[c])]
    /\ meddled' = meddled \cup OthersOn(c, mc[c].number)
    /\ \/ mc[c].op = "status" /\ McGoes(c, "answered")
       \/ McGoes(c, "exact")
       \/ mc' = [mc EXCEPT ![c] = McIdle]
    /\ UNCHANGED <<taken, mcCalls, peopleActs>>

(* Status or priority is read back; evidence must be there by its id, and a strategic comment
   must be there once. *)
McReadBack(c) ==
    /\ mc[c].op # "create" /\ mc[c].at = "exact"
    /\ mc[c].op = "status" => Ticket(c).status = mc[c].want
    /\ mc[c].op = "priority" => Ticket(c).priority = mc[c].want
    /\ mc[c].op = "comment" /\ mc[c].action # "none" => Ticket(c).said[mc[c].action] = 1
    /\ McGoes(c, "answered")
    /\ McStays

(* People take issues, give them back, and change their status. *)
PeopleAct ==
    /\ peopleActs < MaxPeopleActs
    /\ peopleActs' = peopleActs + 1
    /\ \E n \in DOMAIN tickets :
          /\ \/ tickets' = [tickets EXCEPT ![n].owned = ~@] /\ taken' = taken \cup {n}
             \/ /\ \E s \in McStatuses : tickets' = [tickets EXCEPT ![n].status = s]
                /\ UNCHANGED taken
          /\ meddled' = meddled \cup {d \in McClients : mc[d].number = n}
    /\ UNCHANGED <<mc, mcCalls>>

MulticaNext ==
    \/ \E c \in McClients :
          \/ McBeginCreate(c) \/ McBeginOnIssue(c) \/ McFails(c)
          \/ SearchIssues(c) \/ ReadHit(c) \/ McCreate(c) \/ McReadCreated(c)
          \/ McReadBefore(c) \/ McSet(c) \/ McReadBack(c)
    \/ PeopleAct

MulticaSpec == MulticaInit /\ [][MulticaNext]_multicaVars

-----------------------------------------------------------------------------
(* What an operation answered is so, unless somebody else changed the issue since
   it began: an action's issue has its marker and no owner, and a status, a priority or
   a comment is there.  And one strategic action has one issue, but for those a person
   took in the meantime: a create that lost its answer finds its issue again, whatever
   its status is by then, unless it has an owner (tickets/provider.ts). *)
MulticaKeepsItsWord ==
    /\ \A c \in McClients :
          mc[c].at = "answered" /\ c \notin meddled =>
             /\ mc[c].op = "create" => /\ Ticket(c).action = mc[c].action
                                       /\ mc[c].action # "none" => ~Ticket(c).owned
             /\ mc[c].op = "status" => Ticket(c).status = mc[c].want
             /\ mc[c].op = "priority" => Ticket(c).priority = mc[c].want
             /\ mc[c].op = "comment" => Ticket(c).said[mc[c].action] > 0
    /\ \A a \in McActions : Cardinality({n \in DOMAIN tickets \ taken : tickets[n].action = a}) <= 1
=============================================================================
