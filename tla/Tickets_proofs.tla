---------------------------- MODULE Tickets_proofs ----------------------------
(***************************************************************************)
(* Theorems about the components that read and write tickets: the two      *)
(* remote backends (MulticaTickets, GitHubTickets), the audit of a ledger  *)
(* against the tracker (Finalizer), the evaluation of an execution policy  *)
(* (CostPolicy) and the PM loop (PmLoop). Each holds for any number of     *)
(* clients, tickets, items, calls and changes by people: the bounds of the *)
(* models stay parameters.                                                 *)
(*                                                                         *)
(* The promises are about what was answered, and others act between the    *)
(* steps of a call; each inductive invariant says how far every call has   *)
(* got (where it is, what it has read, what it knows of the tracker) and   *)
(* what every record on disk stands on.                                    *)
(***************************************************************************)
EXTENDS MulticaTickets, GitHubTickets, Finalizer, CostPolicy, PmLoop,
        SequenceTheorems, FiniteSetTheorems, WellFoundedInduction, TLAPS

-----------------------------------------------------------------------------
(* MulticaTickets. The invariant counts: an action has at most one issue that no person
   took, one client at most creates it (OneUntaken, OneCreator), and no more comments
   were said than calls begun for them (SaidIsCalled). *)
McTicketRecords ==
    [action : McNotes, owned : BOOLEAN, status : McStatuses, priority : McPriorities,
     said : [McNotes -> Nat]]

MulticaTyped ==
    /\ tickets \in Seq(McTicketRecords) /\ Len(tickets) <= MaxMcIssues
    /\ mc \in [McClients -> McOperations]
    /\ meddled \subseteq McClients
    /\ taken \subseteq DOMAIN tickets
    /\ mcCalls \in 0 .. MaxMcCalls /\ peopleActs \in 0 .. MaxPeopleActs

OwnedIsTaken == \A n \in DOMAIN tickets : tickets[n].owned => n \in taken

(* The untaken issues of an action. *)
Untaken(a) == {n \in DOMAIN tickets \ taken : tickets[n].action = a}

OneUntaken == \A a \in McActions : \A m, n \in Untaken(a) : m = n

Creating(c) == mc[c].op = "create" /\ mc[c].at # "answered"

OneCreator ==
    \A c, d \in McClients :
        Creating(c) /\ Creating(d) /\ mc[c].action = mc[d].action /\ mc[c].action # "none"
            => c = d

(* The operation of a client, and the issue it is on. *)
McShape(c) ==
    /\ mc[c].op = "none" => mc[c].at = "idle"
    /\ mc[c].op = "create" => mc[c].at \in {"search", "hits", "create", "exact", "answered"}
    /\ mc[c].op = "status" => mc[c].at \in {"set", "exact", "answered"}
    /\ mc[c].op \in {"priority", "comment"} => mc[c].at \in {"before", "set", "exact", "answered"}
    /\ mc[c].op \in {"status", "priority", "comment"} => mc[c].number \in DOMAIN tickets
    /\ mc[c].op = "create" /\ mc[c].at \in {"exact", "answered"} => mc[c].number \in DOMAIN tickets
    /\ mc[c].hits \subseteq DOMAIN tickets
    /\ mc[c].op = "status" => mc[c].want \in McStatuses
    /\ mc[c].op = "priority" => mc[c].want \in McPriorities

(* A create for an action has seen every issue it may have, but those that were taken. *)
McCreateSees(c) ==
    /\ McAt(c, "create", "hits") =>
          /\ mc[c].action # "none"
          /\ \A n \in mc[c].hits : tickets[n].action = mc[c].action
          /\ Untaken(mc[c].action) \subseteq mc[c].hits
    /\ McAt(c, "create", "create") /\ mc[c].action # "none" => Untaken(mc[c].action) = {}
    /\ mc[c].op = "create" /\ mc[c].at \in {"exact", "answered"} =>
          Ticket(c).action = mc[c].action

McAnswerHolds(c) ==
    /\ mc[c].at = "answered" /\ c \notin meddled =>
          /\ mc[c].op = "create" => Ticket(c).action = mc[c].action
                                    /\ (mc[c].action # "none" => ~Ticket(c).owned)
          /\ mc[c].op = "status" => Ticket(c).status = mc[c].want
          /\ mc[c].op = "priority" => Ticket(c).priority = mc[c].want
    /\ mc[c].at \in {"exact", "answered"} /\ mc[c].op = "comment" =>
          Ticket(c).said[mc[c].action] > 0

ClientInv(c) == McShape(c) /\ McCreateSees(c) /\ McAnswerHolds(c)

(* Every comment there is was called for, and so will be those on their way. *)
Commenting == {c \in McClients : mc[c].op = "comment" /\ mc[c].at \in {"before", "set"}}

SaidIsCalled ==
    /\ IsFiniteSet(Commenting) /\ Cardinality(Commenting) <= mcCalls
    /\ \A n \in DOMAIN tickets, a \in McNotes :
          tickets[n].said[a] + Cardinality(Commenting) <= mcCalls

MulticaInv ==
    /\ MulticaTyped /\ OwnedIsTaken /\ OneUntaken /\ OneCreator /\ SaidIsCalled
    /\ \A c \in McClients : ClientInv(c)

(* No step takes an issue away, changes its action or deletes a comment. *)
TicketsGrow ==
    /\ DOMAIN tickets \subseteq DOMAIN tickets'
    /\ \A n \in DOMAIN tickets :
          /\ tickets'[n].action = tickets[n].action
          /\ \A a \in McNotes : tickets'[n].said[a] >= tickets[n].said[a]

(* Who did not begin, and whose issue was changed, is meddled with. *)
UndisturbedSame(d) ==
    d \notin meddled' =>
       /\ d \notin meddled
       /\ mc[d].number \in DOMAIN tickets =>
             LET n == mc[d].number IN
             /\ tickets'[n].status = tickets[n].status
             /\ tickets'[n].priority = tickets[n].priority
             /\ tickets'[n].owned = tickets[n].owned

NoneNew(d) ==
    Creating(d) /\ mc[d].action # "none" => Untaken(mc[d].action)' \subseteq Untaken(mc[d].action)

-----------------------------------------------------------------------------
LEMMA OneMore ==
    ASSUME NEW S, IsFiniteSet(S), NEW x, NEW T \in SUBSET (S \cup {x})
    PROVE  /\ IsFiniteSet(T) /\ Cardinality(T) \in Nat
           /\ Cardinality(T) <= Cardinality(S) + 1
<1>1. IsFiniteSet(S \cup {x})  BY FS_AddElement
<1>2. Cardinality(S \cup {x}) = IF x \in S THEN Cardinality(S) ELSE Cardinality(S) + 1
    BY FS_AddElement
<1>3. Cardinality(S) \in Nat  BY FS_CardinalityType
<1>4. IsFiniteSet(T) /\ Cardinality(T) <= Cardinality(S \cup {x})
    BY <1>1, FS_Subset
<1>5. Cardinality(T) \in Nat  BY <1>4, FS_CardinalityType
<1>6. QED  BY <1>2, <1>3, <1>4, <1>5

LEMMA OneLess ==
    ASSUME NEW S, IsFiniteSet(S), NEW x \in S, NEW T \in SUBSET (S \ {x})
    PROVE  /\ IsFiniteSet(T) /\ Cardinality(T) \in Nat
           /\ Cardinality(T) + 1 <= Cardinality(S)
<1>1. IsFiniteSet(S \ {x})  BY FS_RemoveElement
<1>2. Cardinality(S \ {x}) = Cardinality(S) - 1
    BY FS_RemoveElement
<1>3. Cardinality(S) \in Nat  BY FS_CardinalityType
<1>4. IsFiniteSet(T) /\ Cardinality(T) <= Cardinality(S \ {x})
    BY <1>1, FS_Subset
<1>5. Cardinality(T) \in Nat  BY <1>4, FS_CardinalityType
<1>6. QED  BY <1>2, <1>3, <1>4, <1>5

LEMMA RecordOfTicket ==
    ASSUME NEW s \in Seq(McTicketRecords), NEW n \in DOMAIN s
    PROVE  /\ n \in 1 .. Len(s) /\ s[n] \in McTicketRecords
           /\ s[n].said \in [McNotes -> Nat]
           /\ \A a \in McNotes : s[n].said[a] \in Nat
<1>1. n \in 1 .. Len(s)  OBVIOUS
<1>2. s[n] \in McTicketRecords  BY <1>1, ElementOfSeq
<1>3. QED  BY <1>1, <1>2 DEF McTicketRecords

LEMMA MulticaInitially == MulticaInit => MulticaInv
<1> SUFFICES ASSUME MulticaInit PROVE MulticaInv  OBVIOUS
<1> USE DEF MulticaInit
<1>1. MulticaTyped
    BY MulticaAssumption
       DEF MulticaTyped, McOperations, McIdle, McNotes, McStatuses, McPriorities
<1>2. OwnedIsTaken /\ OneUntaken /\ OneCreator
    BY DEF OwnedIsTaken, OneUntaken, Untaken, OneCreator, Creating, McIdle
<1>3. SaidIsCalled
  <2>1. Commenting = {}  BY DEF Commenting, McIdle
  <2>2. QED  BY <2>1, FS_EmptySet DEF SaidIsCalled
<1>4. \A c \in McClients : ClientInv(c)
    BY DEF ClientInv, McShape, McCreateSees, McAnswerHolds, McAt, McIdle
<1>5. QED  BY <1>1, <1>2, <1>3, <1>4 DEF MulticaInv

(* What holds of an operation goes on to hold while others work. *)
LEMMA OthersKeepOperation ==
    ASSUME MulticaInv, MulticaTyped', NEW d \in McClients, mc'[d] = mc[d], TicketsGrow,
           UndisturbedSame(d), NoneNew(d)
    PROVE  ClientInv(d)'
<1>1. mc[d] \in McOperations /\ mc[d].action \in McNotes
    BY DEF MulticaInv, MulticaTyped, McOperations
<1>2. ClientInv(d)  BY DEF MulticaInv
<1>3. McShape(d)'
    BY <1>2 DEF ClientInv, McShape, TicketsGrow
<1>4. McCreateSees(d)'
  <2>1. McAt(d, "create", "hits")' =>
          /\ mc'[d].action # "none"
          /\ \A n \in mc'[d].hits : tickets'[n].action = mc'[d].action
          /\ Untaken(mc[d].action)' \subseteq mc'[d].hits
      BY <1>2 DEF ClientInv, McShape, McCreateSees, McAt, Creating, NoneNew, TicketsGrow
  <2>2. McAt(d, "create", "create")' /\ mc'[d].action # "none" => Untaken(mc[d].action)' = {}
    <3> SUFFICES ASSUME mc[d].op = "create", mc[d].at = "create", mc[d].action # "none"
                 PROVE  Untaken(mc[d].action)' = {}
        BY DEF McAt
    <3>1. Untaken(mc[d].action) = {}  BY <1>2 DEF ClientInv, McCreateSees, McAt
    <3>2. Creating(d)  BY DEF Creating
    <3>3. QED  BY <3>1, <3>2 DEF NoneNew
  <2>3. mc'[d].op = "create" /\ mc'[d].at \in {"exact", "answered"} =>
          tickets'[mc'[d].number].action = mc'[d].action
      BY <1>2 DEF ClientInv, McShape, McCreateSees, Ticket, TicketsGrow
  <2>4. QED  BY <2>1, <2>2, <2>3 DEF McCreateSees, Ticket, McAt
<1>5. McAnswerHolds(d)'
  <2>1. mc[d].at = "answered" /\ d \notin meddled' =>
          /\ mc[d].op = "create" => tickets'[mc[d].number].action = mc[d].action
                                     /\ (mc[d].action # "none" => ~tickets'[mc[d].number].owned)
          /\ mc[d].op = "status" => tickets'[mc[d].number].status = mc[d].want
          /\ mc[d].op = "priority" => tickets'[mc[d].number].priority = mc[d].want
      BY <1>2 DEF ClientInv, McShape, McAnswerHolds, Ticket, TicketsGrow, UndisturbedSame
  <2>2. mc[d].at \in {"exact", "answered"} /\ mc[d].op = "comment" =>
          tickets'[mc[d].number].said[mc[d].action] > 0
    <3> SUFFICES ASSUME mc[d].at \in {"exact", "answered"}, mc[d].op = "comment"
                 PROVE  tickets'[mc[d].number].said[mc[d].action] > 0
        OBVIOUS
    <3> DEFINE n == mc[d].number
    <3>1. n \in DOMAIN tickets /\ tickets[n].said[mc[d].action] > 0
        BY <1>2 DEF ClientInv, McShape, McAnswerHolds, Ticket
    <3>2. /\ tickets[n].said[mc[d].action] \in Nat
          /\ tickets'[n].said[mc[d].action] \in Nat
      <4>1. n \in DOMAIN tickets /\ n \in DOMAIN tickets'  BY <3>1 DEF TicketsGrow
      <4>2. tickets[n].said \in [McNotes -> Nat]
          BY <4>1, RecordOfTicket DEF MulticaInv, MulticaTyped
      <4>3. tickets'[n].said \in [McNotes -> Nat]
          BY <4>1, RecordOfTicket DEF MulticaTyped
      <4>4. QED  BY <1>1, <4>2, <4>3
    <3>3. QED  BY <1>1, <3>1, <3>2 DEF TicketsGrow
  <2>3. QED  BY <2>1, <2>2 DEF McAnswerHolds, Ticket
<1>6. QED  BY <1>3, <1>4, <1>5 DEF ClientInv

(* A step of one client. *)
LEMMA ClientStep ==
    ASSUME MulticaInv, NEW c \in McClients, MulticaTyped', OwnedIsTaken', OneUntaken',
           OneCreator', SaidIsCalled', ClientInv(c)', TicketsGrow,
           \A d \in McClients : d # c => mc'[d] = mc[d] /\ UndisturbedSame(d) /\ NoneNew(d)
    PROVE  MulticaInv'
<1>1. \A d \in McClients : ClientInv(d)'
  <2> TAKE d \in McClients
  <2>1. CASE d = c  BY <2>1
  <2>2. CASE d # c  BY <2>2, OthersKeepOperation
  <2>3. QED  BY <2>1, <2>2
<1>2. QED  BY <1>1 DEF MulticaInv

(* A step of one client that leaves the tracker as it is. *)
LEMMA QuietStep ==
    ASSUME MulticaInv, NEW c \in McClients, UNCHANGED <<tickets, taken>>, MulticaTyped',
           meddled' \cup {c} = meddled \cup {c}, OneCreator', SaidIsCalled', ClientInv(c)',
           \A d \in McClients : d # c => mc'[d] = mc[d]
    PROVE  MulticaInv'
<1>1. OwnedIsTaken' /\ OneUntaken'
    BY DEF MulticaInv, OwnedIsTaken, OneUntaken, Untaken
<1>2. TicketsGrow
  <2>1. \A n \in DOMAIN tickets, a \in McNotes : tickets[n].said[a] \in Nat
      BY RecordOfTicket DEF MulticaInv, MulticaTyped
  <2>2. QED  BY <2>1 DEF TicketsGrow
<1>3. \A d \in McClients : d # c => UndisturbedSame(d) /\ NoneNew(d)
    BY DEF UndisturbedSame, NoneNew, Untaken
<1>4. QED  BY <1>1, <1>2, <1>3, ClientStep

LEMMA CreatorsKept ==
    ASSUME MulticaInv, NEW c \in McClients,
           \A d \in McClients : d # c => mc'[d] = mc[d],
           Creating(c)' => Creating(c) /\ mc'[c].action = mc[c].action
    PROVE  OneCreator'
BY DEF MulticaInv, OneCreator, Creating

(* No comment is made, and none is begun. *)
LEMMA SaidKept ==
    ASSUME MulticaInv, MulticaTyped', Commenting' \subseteq Commenting, mcCalls' = mcCalls,
           \A n \in DOMAIN tickets', a \in McNotes :
              tickets'[n].said[a] = 0
              \/ (n \in DOMAIN tickets /\ tickets'[n].said[a] = tickets[n].said[a])
    PROVE  SaidIsCalled'
<1>1. /\ IsFiniteSet(Commenting') /\ Cardinality(Commenting') <= Cardinality(Commenting)
      /\ Cardinality(Commenting) \in Nat /\ Cardinality(Commenting') \in Nat
    BY FS_Subset, FS_CardinalityType DEF MulticaInv, SaidIsCalled
<1>2. mcCalls \in Nat  BY MulticaAssumption DEF MulticaInv, MulticaTyped
<1>3. \A n \in DOMAIN tickets, a \in McNotes : tickets[n].said[a] \in Nat
    BY RecordOfTicket DEF MulticaInv, MulticaTyped
<1>4. QED  BY <1>1, <1>2, <1>3 DEF MulticaInv, SaidIsCalled

LEMMA SameSaid ==
    ASSUME MulticaInv, NEW c \in McClients, MulticaTyped', UNCHANGED <<tickets, mcCalls>>,
           \A d \in McClients : d # c => mc'[d] = mc[d],
           c \in Commenting' => c \in Commenting
    PROVE  SaidIsCalled'
<1>1. Commenting' \subseteq Commenting  BY DEF Commenting
<1>2. QED  BY <1>1, SaidKept

(* An operation becomes another one. *)
LEMMA OperationBecomes ==
    ASSUME MulticaInv, NEW c \in McClients, NEW o \in McOperations, mc' = [mc EXCEPT ![c] = o]
    PROVE  /\ mc' \in [McClients -> McOperations] /\ mc'[c] = o
           /\ \A d \in McClients : d # c => mc'[d] = mc[d]
BY DEF MulticaInv, MulticaTyped

LEMMA OperationGoes ==
    ASSUME MulticaInv, NEW c \in McClients,
           NEW at \in {"idle", "search", "hits", "create", "before", "set", "exact", "answered"},
           McGoes(c, at)
    PROVE  /\ mc' \in [McClients -> McOperations]
           /\ mc'[c].at = at /\ mc'[c].op = mc[c].op /\ mc'[c].number = mc[c].number
           /\ mc'[c].action = mc[c].action /\ mc'[c].want = mc[c].want
           /\ mc'[c].hits = mc[c].hits
           /\ \A d \in McClients : d # c => mc'[d] = mc[d]
<1>1. mc[c] \in McOperations  BY DEF MulticaInv, MulticaTyped
<1>2. [mc[c] EXCEPT !.at = at] \in McOperations  BY <1>1 DEF McOperations
<1>3. mc' = [mc EXCEPT ![c] = [mc[c] EXCEPT !.at = at]]
    BY DEF McGoes, MulticaInv, MulticaTyped
<1>4. QED  BY <1>1, <1>2, <1>3, OperationBecomes DEF McOperations

LEMMA IdleOperation ==
    /\ McIdle \in McOperations
    /\ McIdle.op = "none" /\ McIdle.at = "idle" /\ McIdle.hits = {}
BY MulticaAssumption DEF McIdle, McOperations, McNotes, McPriorities

(* An operation begins: it has a shape, and nothing to hold of its answer yet. *)
LEMMA BeginsKeeps ==
    ASSUME MulticaInv, NEW c \in McClients, NEW o \in McOperations, McBegins(c, o),
           \/ o.op = "create" /\ o.at = "search"
           \/ o.op = "status" /\ o.at = "set" /\ o.number \in DOMAIN tickets
              /\ o.want \in McStatuses
           \/ o.op = "priority" /\ o.at = "before" /\ o.number \in DOMAIN tickets
              /\ o.want \in McPriorities
           \/ o.op = "comment" /\ o.at = "before" /\ o.number \in DOMAIN tickets,
           o.hits = {},
           o.op = "create" /\ o.action # "none" =>
              \A d \in McClients : ~(Creating(d) /\ mc[d].action = o.action)
    PROVE  MulticaInv'
<1>1. /\ mc' \in [McClients -> McOperations] /\ mc'[c] = o
      /\ \A d \in McClients : d # c => mc'[d] = mc[d]
    BY OperationBecomes DEF McBegins
<1>2. MulticaTyped'
    BY <1>1, MulticaAssumption DEF MulticaInv, MulticaTyped, McBegins
<1>3. OneCreator'
    BY <1>1 DEF MulticaInv, OneCreator, Creating
<1>4. ClientInv(c)'
  <2>1. McShape(c)'
    <3>1. tickets' = tickets  BY DEF McBegins
    <3>2. QED  BY <1>1, <3>1 DEF McShape
  <2>2. McCreateSees(c)' /\ McAnswerHolds(c)'
      BY <1>1 DEF McCreateSees, McAnswerHolds, McAt
  <2>3. QED  BY <2>1, <2>2 DEF ClientInv
<1>5. SaidIsCalled'
  <2>1. IsFiniteSet(Commenting) /\ Cardinality(Commenting) \in Nat
      BY FS_CardinalityType DEF MulticaInv, SaidIsCalled
  <2>2. Commenting' \subseteq Commenting \cup {c}
      BY <1>1 DEF Commenting
  <2>4. /\ IsFiniteSet(Commenting') /\ Cardinality(Commenting') \in Nat
        /\ Cardinality(Commenting') <= Cardinality(Commenting) + 1
      BY <2>1, <2>2, OneMore
  <2>5. /\ tickets' = tickets /\ mcCalls' = mcCalls + 1 /\ mcCalls \in Nat
        /\ \A n \in DOMAIN tickets, a \in McNotes : tickets[n].said[a] \in Nat
      BY RecordOfTicket, MulticaAssumption DEF McBegins, MulticaInv, MulticaTyped
  <2>6. QED  BY <2>1, <2>4, <2>5 DEF MulticaInv, SaidIsCalled
<1>6. QED
    BY <1>1, <1>2, <1>3, <1>4, <1>5, QuietStep DEF McBegins

LEMMA BeginCreateKeeps ==
    ASSUME MulticaInv, NEW c \in McClients, McBeginCreate(c)
    PROVE  MulticaInv'
<1>1. PICK a \in McNotes :
         /\ a # "none" => \A d \in McClients :
               ~(mc[d].op = "create" /\ mc[d].at # "answered" /\ mc[d].action = a)
         /\ McBegins(c, [McIdle EXCEPT !.op = "create", !.at = "search", !.action = a])
    BY DEF McBeginCreate
<1> DEFINE o == [McIdle EXCEPT !.op = "create", !.at = "search", !.action = a]
<1>2. /\ o \in McOperations /\ o.op = "create" /\ o.at = "search" /\ o.action = a
      /\ o.hits = {}
    BY IdleOperation DEF McOperations
<1> HIDE DEF o
<1>3. McBegins(c, o)  BY <1>1 DEF o
<1>4. QED  BY <1>1, <1>2, <1>3, BeginsKeeps DEF Creating

LEMMA BeginOnIssueKeeps ==
    ASSUME MulticaInv, NEW c \in McClients, McBeginOnIssue(c)
    PROVE  MulticaInv'
<1> DEFINE on(op, at, n) == [McIdle EXCEPT !.op = op, !.at = at, !.number = n]
<1>1. PICK n \in DOMAIN tickets :
         \/ \E s \in McStatuses : McBegins(c, [on("status", "set", n) EXCEPT !.want = s])
         \/ \E p \in McPriorities : McBegins(c, [on("priority", "before", n) EXCEPT !.want = p])
         \/ \E a \in McNotes : McBegins(c, [on("comment", "before", n) EXCEPT !.action = a])
    BY DEF McBeginOnIssue
<1>2. n \in 0 .. MaxMcIssues
  <2>1. n \in 1 .. Len(tickets) /\ Len(tickets) <= MaxMcIssues /\ Len(tickets) \in Nat
      BY RecordOfTicket, LenProperties DEF MulticaInv, MulticaTyped
  <2>2. QED  BY <2>1, MulticaAssumption
<1>3. CASE \E s \in McStatuses : McBegins(c, [on("status", "set", n) EXCEPT !.want = s])
  <2>1. PICK s \in McStatuses : McBegins(c, [on("status", "set", n) EXCEPT !.want = s])
      BY <1>3
  <2> DEFINE o == [on("status", "set", n) EXCEPT !.want = s]
  <2>2. /\ o \in McOperations /\ o.op = "status" /\ o.at = "set" /\ o.number = n /\ o.hits = {}
        /\ o.want = s
      BY <1>2, MulticaAssumption DEF McIdle, McOperations, McNotes
  <2> HIDE DEF o
  <2>3. McBegins(c, o)  BY <2>1 DEF o
  <2>4. QED  BY <2>2, <2>3, BeginsKeeps
<1>4. CASE \E p \in McPriorities : McBegins(c, [on("priority", "before", n) EXCEPT !.want = p])
  <2>1. PICK p \in McPriorities : McBegins(c, [on("priority", "before", n) EXCEPT !.want = p])
      BY <1>4
  <2> DEFINE o == [on("priority", "before", n) EXCEPT !.want = p]
  <2>2. /\ o \in McOperations /\ o.op = "priority" /\ o.at = "before" /\ o.number = n
        /\ o.hits = {} /\ o.want = p
      BY <1>2, MulticaAssumption DEF McIdle, McOperations, McNotes
  <2> HIDE DEF o
  <2>3. McBegins(c, o)  BY <2>1 DEF o
  <2>4. QED  BY <2>2, <2>3, BeginsKeeps
<1>5. CASE \E a \in McNotes : McBegins(c, [on("comment", "before", n) EXCEPT !.action = a])
  <2>1. PICK a \in McNotes : McBegins(c, [on("comment", "before", n) EXCEPT !.action = a])
      BY <1>5
  <2> DEFINE o == [on("comment", "before", n) EXCEPT !.action = a]
  <2>2. /\ o \in McOperations /\ o.op = "comment" /\ o.at = "before" /\ o.number = n
        /\ o.hits = {}
      BY <1>2, MulticaAssumption DEF McIdle, McOperations, McPriorities
  <2> HIDE DEF o
  <2>3. McBegins(c, o)  BY <2>1 DEF o
  <2>4. QED  BY <2>2, <2>3, BeginsKeeps
<1>6. QED  BY <1>1, <1>3, <1>4, <1>5

(* A step that only moves one operation on. *)
LEMMA OperationStep ==
    ASSUME MulticaInv, NEW c \in McClients, McStays, mc' \in [McClients -> McOperations],
           \A d \in McClients : d # c => mc'[d] = mc[d],
           Creating(c)' => Creating(c) /\ mc'[c].action = mc[c].action,
           c \in Commenting' => c \in Commenting,
           McShape(c)', McCreateSees(c)', McAnswerHolds(c)'
    PROVE  MulticaInv'
<1>1. MulticaTyped'  BY DEF MulticaInv, MulticaTyped, McStays
<1>2. OneCreator'  BY CreatorsKept
<1>3. SaidIsCalled'  BY <1>1, SameSaid DEF McStays
<1>4. QED  BY <1>1, <1>2, <1>3, QuietStep DEF McStays, ClientInv

LEMMA FailsKeeps ==
    ASSUME MulticaInv, NEW c \in McClients, McFails(c)
    PROVE  MulticaInv'
<1>1. /\ mc' \in [McClients -> McOperations] /\ mc'[c] = McIdle
      /\ \A d \in McClients : d # c => mc'[d] = mc[d]
    BY OperationBecomes, IdleOperation DEF McFails
<1>2. ~Creating(c)' /\ c \notin Commenting'
    BY <1>1, IdleOperation DEF Creating, Commenting
<1>3. McShape(c)' /\ McCreateSees(c)' /\ McAnswerHolds(c)'
    BY <1>1, IdleOperation DEF McShape, McCreateSees, McAnswerHolds, McAt
<1>4. QED  BY <1>1, <1>2, <1>3, OperationStep DEF McFails

LEMMA SearchKeeps ==
    ASSUME MulticaInv, NEW c \in McClients, SearchIssues(c)
    PROVE  MulticaInv'
<1>1. McAt(c, "create", "search") /\ mc[c] \in McOperations /\ tickets' = tickets /\ taken' = taken
    BY DEF SearchIssues, McStays, MulticaInv, MulticaTyped
<1> DEFINE found == Hits(mc[c].action)
<1>2. /\ found \subseteq DOMAIN tickets /\ found \subseteq 1 .. MaxMcIssues
      /\ \A n \in found : tickets[n].action = mc[c].action /\ n \in 0 .. MaxMcIssues
      /\ Untaken(mc[c].action) \subseteq found
  <2>1. DOMAIN tickets \subseteq 1 .. MaxMcIssues
    <3>1. Len(tickets) \in Nat /\ Len(tickets) <= MaxMcIssues /\ DOMAIN tickets = 1 .. Len(tickets)
        BY LenProperties DEF MulticaInv, MulticaTyped
    <3>2. QED  BY <3>1, MulticaAssumption
  <2>2. QED  BY <2>1, MulticaAssumption DEF Hits, Untaken
<1>3. CASE found # {} /\ mc[c].action = "none"
  <2>1. PICK n \in found : mc' = [mc EXCEPT ![c].number = n, ![c].at = "answered"]
      BY <1>3 DEF SearchIssues
  <2> DEFINE o == [mc[c] EXCEPT !.number = n, !.at = "answered"]
  <2>2. /\ o \in McOperations /\ o.op = "create" /\ o.at = "answered" /\ o.number = n
        /\ o.action = "none" /\ o.hits = mc[c].hits
      BY <1>1, <1>2, <1>3 DEF McOperations, McAt
  <2>3. mc' = [mc EXCEPT ![c] = o]
      BY <2>1 DEF MulticaInv, MulticaTyped
  <2> HIDE DEF o
  <2>4. /\ mc' \in [McClients -> McOperations] /\ mc'[c] = o
        /\ \A d \in McClients : d # c => mc'[d] = mc[d]
      BY <2>2, <2>3, OperationBecomes
  <2>5. ~Creating(c)' /\ c \notin Commenting'
      BY <2>2, <2>4 DEF Creating, Commenting
  <2>6. n \in DOMAIN tickets /\ tickets[n].action = "none"  BY <1>2, <1>3
  <2>7. McShape(c)'
      BY <1>1, <2>2, <2>4, <2>6 DEF McShape, MulticaInv, ClientInv
  <2>8. McCreateSees(c)' /\ McAnswerHolds(c)'
      BY <1>1, <2>2, <2>4, <2>6 DEF McCreateSees, McAnswerHolds, McAt, Ticket
  <2>9. QED  BY <2>4, <2>5, <2>7, <2>8, OperationStep DEF SearchIssues
<1>4. CASE ~(found # {} /\ mc[c].action = "none")
  <2> DEFINE at == IF found = {} THEN "create" ELSE "hits"
             o == [mc[c] EXCEPT !.hits = found, !.at = at]
  <2>1. /\ o \in McOperations /\ o.op = "create" /\ o.at = at
        /\ o.action = mc[c].action /\ o.hits = found
      BY <1>1, <1>2 DEF McOperations, McAt
  <2>2. mc' = [mc EXCEPT ![c] = o]
      BY <1>4 DEF SearchIssues, MulticaInv, MulticaTyped
  <2>3. /\ mc' \in [McClients -> McOperations] /\ mc'[c] = o
        /\ \A d \in McClients : d # c => mc'[d] = mc[d]
      BY <2>1, <2>2, OperationBecomes
  <2>4. /\ Creating(c) /\ mc'[c].action = mc[c].action /\ c \notin Commenting'
      BY <1>1, <2>1, <2>3 DEF Creating, Commenting, McAt
  <2>5. McShape(c)'
      BY <1>1, <1>2, <2>1, <2>3 DEF McShape
  <2>6. McCreateSees(c)'
    <3>1. Untaken(mc'[c].action) = Untaken(mc[c].action)  BY <2>1, <2>3
    <3>2. Untaken(mc[c].action)' = Untaken(mc[c].action)
        BY <1>1, <2>1, <2>3 DEF Untaken
    <3>3. QED  BY <1>1, <1>2, <1>4, <2>1, <2>3, <3>2 DEF McCreateSees, McAt
  <2>7. McAnswerHolds(c)'  BY <2>1, <2>3 DEF McAnswerHolds
  <2>8. QED  BY <2>3, <2>4, <2>5, <2>6, <2>7, OperationStep DEF SearchIssues
<1>5. QED  BY <1>3, <1>4

LEMMA ReadHitKeeps ==
    ASSUME MulticaInv, NEW c \in McClients, ReadHit(c)
    PROVE  MulticaInv'
<1>1. /\ McAt(c, "create", "hits") /\ mc[c] \in McOperations /\ tickets' = tickets
      /\ taken' = taken
    BY DEF ReadHit, McStays, MulticaInv, MulticaTyped
<1>2. PICK n \in mc[c].hits :
         IF tickets[n].owned
         THEN mc' = [mc EXCEPT ![c].hits = @ \ {n},
                               ![c].at = IF mc[c].hits = {n} THEN "create" ELSE "hits"]
         ELSE mc' = [mc EXCEPT ![c].hits = {}, ![c].number = n, ![c].at = "answered"]
    BY DEF ReadHit
<1>3. /\ n \in DOMAIN tickets /\ tickets[n].action = mc[c].action /\ mc[c].action # "none"
      /\ mc[c].hits \subseteq DOMAIN tickets /\ Untaken(mc[c].action) \subseteq mc[c].hits
      /\ \A m \in mc[c].hits : tickets[m].action = mc[c].action
      /\ n \in 0 .. MaxMcIssues /\ Creating(c)
    BY <1>1, MulticaAssumption
       DEF MulticaInv, ClientInv, McShape, McCreateSees, McAt, McOperations, Creating
<1>4. CASE tickets[n].owned
  <2> DEFINE at == IF mc[c].hits = {n} THEN "create" ELSE "hits"
             o == [mc[c] EXCEPT !.hits = @ \ {n}, !.at = at]
  <2>1. /\ o \in McOperations /\ o.op = "create" /\ o.at = at
        /\ o.action = mc[c].action /\ o.hits = mc[c].hits \ {n}
      BY <1>1 DEF McOperations, McAt
  <2>2. mc' = [mc EXCEPT ![c] = o]
      BY <1>2, <1>4 DEF MulticaInv, MulticaTyped
  <2>3. /\ mc' \in [McClients -> McOperations] /\ mc'[c] = o
        /\ \A d \in McClients : d # c => mc'[d] = mc[d]
      BY <2>1, <2>2, OperationBecomes
  <2>4. mc'[c].action = mc[c].action /\ c \notin Commenting'
      BY <2>1, <2>3 DEF Commenting
  <2>5. McShape(c)'
      BY <1>1, <1>3, <2>1, <2>3 DEF McShape
  <2>6. McCreateSees(c)'
    <3>1. Untaken(mc[c].action)' = Untaken(mc[c].action)
        BY <1>1, <2>1, <2>3 DEF Untaken
    <3>2. n \notin Untaken(mc[c].action)
        BY <1>4 DEF Untaken, MulticaInv, OwnedIsTaken
    <3>3. QED  BY <1>1, <1>3, <2>1, <2>3, <3>1, <3>2 DEF McCreateSees, McAt
  <2>7. McAnswerHolds(c)'  BY <2>1, <2>3 DEF McAnswerHolds
  <2>8. QED  BY <1>3, <2>3, <2>4, <2>5, <2>6, <2>7, OperationStep DEF ReadHit
<1>5. CASE ~tickets[n].owned
  <2> DEFINE o == [mc[c] EXCEPT !.hits = {}, !.number = n, !.at = "answered"]
  <2>1. /\ o \in McOperations /\ o.op = "create" /\ o.at = "answered" /\ o.number = n
        /\ o.action = mc[c].action /\ o.hits = {}
      BY <1>1, <1>3 DEF McOperations, McAt
  <2>2. mc' = [mc EXCEPT ![c] = o]
      BY <1>2, <1>5 DEF MulticaInv, MulticaTyped
  <2> HIDE DEF o
  <2>3. /\ mc' \in [McClients -> McOperations] /\ mc'[c] = o
        /\ \A d \in McClients : d # c => mc'[d] = mc[d]
      BY <2>1, <2>2, OperationBecomes
  <2>4. ~Creating(c)' /\ c \notin Commenting'
      BY <2>1, <2>3 DEF Creating, Commenting
  <2>5. McShape(c)'
      BY <1>1, <1>3, <2>1, <2>3 DEF McShape
  <2>6. McCreateSees(c)' /\ McAnswerHolds(c)'
      BY <1>1, <1>3, <1>5, <2>1, <2>3 DEF McCreateSees, McAnswerHolds, McAt, Ticket
  <2>7. QED  BY <2>3, <2>4, <2>5, <2>6, OperationStep DEF ReadHit
<1>6. QED  BY <1>4, <1>5

LEMMA ReadCreatedKeeps ==
    ASSUME MulticaInv, NEW c \in McClients, McReadCreated(c)
    PROVE  MulticaInv'
<1>1. /\ McAt(c, "create", "exact") /\ tickets' = tickets /\ ~Ticket(c).owned
      /\ McGoes(c, "answered")
    BY DEF McReadCreated, McStays
<1>2. /\ mc' \in [McClients -> McOperations]
      /\ mc'[c].at = "answered" /\ mc'[c].op = "create" /\ mc'[c].number = mc[c].number
      /\ mc'[c].action = mc[c].action /\ mc'[c].hits = mc[c].hits
      /\ \A d \in McClients : d # c => mc'[d] = mc[d]
    BY <1>1, OperationGoes DEF McAt
<1>3. /\ mc[c].number \in DOMAIN tickets /\ mc[c].hits \subseteq DOMAIN tickets
      /\ Ticket(c).action = mc[c].action
    BY <1>1 DEF MulticaInv, ClientInv, McShape, McCreateSees, McAt
<1>4. ~Creating(c)' /\ c \notin Commenting'
    BY <1>2 DEF Creating, Commenting
<1>5. McShape(c)' /\ McCreateSees(c)' /\ McAnswerHolds(c)'
    BY <1>1, <1>2, <1>3 DEF McShape, McCreateSees, McAnswerHolds, McAt, Ticket
<1>6. QED  BY <1>2, <1>4, <1>5, OperationStep DEF McReadCreated

LEMMA ReadBeforeKeeps ==
    ASSUME MulticaInv, NEW c \in McClients, McReadBefore(c)
    PROVE  MulticaInv'
<1> DEFINE there == IF mc[c].op = "priority" THEN Ticket(c).priority = mc[c].want
                    ELSE Ticket(c).said[mc[c].action] > 0
           at == IF there THEN "answered" ELSE "set"
<1>1. mc[c].at = "before" /\ tickets' = tickets /\ McGoes(c, at)
    BY DEF McReadBefore, McStays
<1>2. mc[c] \in McOperations /\ McShape(c)
    BY DEF MulticaInv, MulticaTyped, ClientInv
<1>3. mc[c].op \in {"priority", "comment"} /\ mc[c].number \in DOMAIN tickets
    BY <1>1, <1>2 DEF McShape, McOperations
<1> HIDE DEF there
<1>4. /\ mc' \in [McClients -> McOperations]
      /\ mc'[c].at = at /\ mc'[c].op = mc[c].op /\ mc'[c].number = mc[c].number
      /\ mc'[c].action = mc[c].action /\ mc'[c].hits = mc[c].hits /\ mc'[c].want = mc[c].want
      /\ \A d \in McClients : d # c => mc'[d] = mc[d]
    BY <1>1, OperationGoes
<1>5. ~Creating(c)' /\ (c \in Commenting' => c \in Commenting)
    BY <1>1, <1>3, <1>4 DEF Creating, Commenting
<1>6. McShape(c)' /\ McCreateSees(c)'
    BY <1>1, <1>2, <1>3, <1>4 DEF McShape, McCreateSees, McAt
<1>7. McAnswerHolds(c)'
    BY <1>1, <1>3, <1>4 DEF McAnswerHolds, Ticket, there
<1>8. QED  BY <1>4, <1>5, <1>6, <1>7, OperationStep DEF McReadBefore

LEMMA ReadBackKeeps ==
    ASSUME MulticaInv, NEW c \in McClients, McReadBack(c)
    PROVE  MulticaInv'
<1>1. mc[c].op # "create" /\ mc[c].at = "exact" /\ tickets' = tickets /\ McGoes(c, "answered")
    BY DEF McReadBack, McStays
<1>2. mc[c] \in McOperations /\ McShape(c) /\ McAnswerHolds(c)
    BY DEF MulticaInv, MulticaTyped, ClientInv
<1>3. mc[c].op \in {"status", "priority", "comment"} /\ mc[c].number \in DOMAIN tickets
    BY <1>1, <1>2 DEF McShape, McOperations
<1>4. /\ mc' \in [McClients -> McOperations]
      /\ mc'[c].at = "answered" /\ mc'[c].op = mc[c].op /\ mc'[c].number = mc[c].number
      /\ mc'[c].action = mc[c].action /\ mc'[c].hits = mc[c].hits /\ mc'[c].want = mc[c].want
      /\ \A d \in McClients : d # c => mc'[d] = mc[d]
    BY <1>1, OperationGoes
<1>5. ~Creating(c)' /\ c \notin Commenting'
    BY <1>4 DEF Creating, Commenting
<1>6. McShape(c)' /\ McCreateSees(c)'
    BY <1>1, <1>2, <1>3, <1>4 DEF McShape, McCreateSees, McAt
<1>7. McAnswerHolds(c)'
    BY <1>1, <1>2, <1>3, <1>4 DEF McAnswerHolds, Ticket, McReadBack
<1>8. QED  BY <1>4, <1>5, <1>6, <1>7, OperationStep DEF McReadBack

LEMMA CreateKeeps ==
    ASSUME MulticaInv, NEW c \in McClients, McCreate(c)
    PROVE  MulticaInv'
<1> DEFINE t == [action |-> mc[c].action, owned |-> FALSE, status |-> "todo",
                 priority |-> "none", said |-> [a \in McNotes |-> 0]]
           new == Len(tickets) + 1
<1>1. /\ McAt(c, "create", "create") /\ Len(tickets) < MaxMcIssues
      /\ tickets' = Append(tickets, t)
      /\ UNCHANGED <<meddled, taken, mcCalls, peopleActs>>
      /\ mc[c] \in McOperations /\ tickets \in Seq(McTicketRecords) /\ ClientInv(c)
    BY DEF McCreate, MulticaInv, MulticaTyped
<1>2. t \in McTicketRecords
    BY <1>1 DEF McTicketRecords, McOperations, McStatuses, McPriorities
<1>3. t.action = mc[c].action /\ ~t.owned /\ \A a \in McNotes : t.said[a] = 0
    OBVIOUS
<1> HIDE DEF t
<1>4. /\ tickets' \in Seq(McTicketRecords) /\ Len(tickets') = new
      /\ DOMAIN tickets = 1 .. Len(tickets) /\ DOMAIN tickets' = 1 .. new
      /\ Len(tickets) \in Nat
      /\ \A n \in DOMAIN tickets : tickets'[n] = tickets[n]
      /\ tickets'[new] = t
    BY <1>1, <1>2, AppendProperties, LenProperties
<1>5. new \in 1 .. MaxMcIssues /\ DOMAIN tickets' = DOMAIN tickets \cup {new}
      /\ new \notin DOMAIN tickets
    BY <1>1, <1>4, MulticaAssumption
<1>6. /\ mc' \in [McClients -> McOperations]
      /\ \A d \in McClients : d # c => mc'[d] = mc[d]
      /\ \/ /\ mc'[c].op = "create" /\ mc'[c].number = new /\ mc'[c].action = mc[c].action
            /\ mc'[c].at \in {"answered", "exact"} /\ mc'[c].hits = mc[c].hits
         \/ mc'[c] = McIdle
  <2>1. CASE mc' = [mc EXCEPT ![c] = McIdle]
      BY <2>1, IdleOperation, OperationBecomes
  <2>2. CASE ~(mc' = [mc EXCEPT ![c] = McIdle])
    <3> DEFINE at == IF mc[c].action = "none" THEN "answered" ELSE "exact"
               o == [mc[c] EXCEPT !.number = new, !.at = at]
    <3>1. mc' = [mc EXCEPT ![c] = o]
        BY <2>2 DEF McCreate, MulticaInv, MulticaTyped
    <3>2. at \in {"answered", "exact"} /\ new \in 0 .. MaxMcIssues
        BY <1>5, MulticaAssumption
    <3> HIDE DEF at, new
    <3>3. /\ o \in McOperations /\ o.op = "create" /\ o.number = new /\ o.at = at
          /\ o.action = mc[c].action /\ o.hits = mc[c].hits
        BY <1>1, <3>2 DEF McOperations, McAt
    <3> HIDE DEF o
    <3>4. QED  BY <3>1, <3>2, <3>3, OperationBecomes
  <2>3. QED  BY <2>1, <2>2
<1>7. MulticaTyped'
    BY <1>1, <1>4, <1>5, <1>6 DEF MulticaInv, MulticaTyped
<1>8. TicketsGrow
  <2>1. \A n \in DOMAIN tickets, a \in McNotes : tickets[n].said[a] \in Nat
      BY <1>1, RecordOfTicket
  <2>2. QED  BY <1>4, <1>5, <2>1 DEF TicketsGrow
<1>9. OwnedIsTaken'
    BY <1>1, <1>3, <1>4, <1>5 DEF MulticaInv, OwnedIsTaken
<1>10. \A a : Untaken(a)' \subseteq Untaken(a) \cup (IF mc[c].action = a THEN {new} ELSE {})
    BY <1>1, <1>3, <1>4, <1>5 DEF Untaken
<1>11. OneUntaken'
  <2> SUFFICES ASSUME NEW a \in McActions, NEW m \in Untaken(a)', NEW n \in Untaken(a)'
               PROVE  m = n
      BY DEF OneUntaken
  <2>1. CASE mc[c].action = a
    <3>1. a # "none"  BY MulticaAssumption
    <3>2. Untaken(a) = {}  BY <1>1, <2>1, <3>1 DEF ClientInv, McCreateSees
    <3>3. QED  BY <1>10, <2>1, <3>2
  <2>2. CASE mc[c].action # a
      BY <1>10, <2>2 DEF MulticaInv, OneUntaken
  <2>3. QED  BY <2>1, <2>2
<1>12. OneCreator'
  <2>1. Creating(c)' => Creating(c) /\ mc'[c].action = mc[c].action
      BY <1>1, <1>6, IdleOperation DEF Creating, McAt
  <2>2. QED  BY <1>6, <2>1, CreatorsKept
<1>13. SaidIsCalled'
  <2>1. Commenting' \subseteq Commenting
      BY <1>6, IdleOperation DEF Commenting
  <2>2. \A n \in DOMAIN tickets', a \in McNotes :
          tickets'[n].said[a] = 0
          \/ (n \in DOMAIN tickets /\ tickets'[n].said[a] = tickets[n].said[a])
    <3> TAKE n \in DOMAIN tickets', a \in McNotes
    <3>1. CASE n = new
      <4>1. tickets'[n] = t  BY <1>4, <3>1
      <4>2. t.said[a] = 0  BY <1>3
      <4>3. QED  BY <4>1, <4>2
    <3>2. CASE n \in DOMAIN tickets  BY <1>4, <3>2
    <3>3. QED  BY <1>5, <3>1, <3>2
  <2>3. mcCalls' = mcCalls  BY <1>1
  <2>4. QED  BY <1>7, <2>1, <2>2, <2>3, SaidKept
<1>14. ClientInv(c)'
  <2>1. McShape(c)'
      BY <1>1, <1>5, <1>6, IdleOperation DEF ClientInv, McShape
  <2>2. McCreateSees(c)' /\ McAnswerHolds(c)'
      BY <1>3, <1>4, <1>6, IdleOperation DEF McCreateSees, McAnswerHolds, McAt, Ticket
  <2>3. QED  BY <2>1, <2>2 DEF ClientInv
<1>15. ASSUME NEW d \in McClients, d # c PROVE UndisturbedSame(d) /\ NoneNew(d)
  <2>1. UndisturbedSame(d)  BY <1>1, <1>4 DEF UndisturbedSame
  <2>2. NoneNew(d)
    <3> SUFFICES ASSUME Creating(d), mc[d].action # "none"
                 PROVE  Untaken(mc[d].action)' \subseteq Untaken(mc[d].action)
        BY DEF NoneNew
    <3>1. Creating(c)  BY <1>1 DEF Creating, McAt
    <3>2. mc[d].action # mc[c].action
        BY <1>15, <3>1 DEF MulticaInv, OneCreator
    <3>3. mc'[d] = mc[d]  BY <1>6, <1>15
    <3>4. QED  BY <1>10, <3>2, <3>3
  <2>3. QED  BY <2>1, <2>2
<1>16. QED
    BY <1>6, <1>7, <1>8, <1>9, <1>11, <1>12, <1>13, <1>14, <1>15, ClientStep

-----------------------------------------------------------------------------
LEMMA ChangedTicket ==
    ASSUME MulticaInv, NEW c \in McClients, mc[c].at = "set", NEW t \in McTicketRecords
    PROVE  LET u == Changed(t, mc[c]) IN
           /\ u \in McTicketRecords /\ u.action = t.action /\ u.owned = t.owned
           /\ mc[c].op = "status" => u.status = mc[c].want
           /\ mc[c].op = "priority" => u.priority = mc[c].want
           /\ \A a \in McNotes :
                 u.said[a] = IF mc[c].op = "comment" /\ mc[c].action = a THEN t.said[a] + 1
                             ELSE t.said[a]
<1>1. /\ McShape(c) /\ mc[c] \in McOperations
    BY DEF MulticaInv, MulticaTyped, ClientInv
<1>2. mc[c].op \in {"status", "priority", "comment"} /\ mc[c].action \in McNotes
    BY <1>1 DEF McShape, McOperations
<1>3. CASE mc[c].op = "status"
  <2>1. Changed(t, mc[c]) = [t EXCEPT !.status = mc[c].want]  BY <1>3 DEF Changed
  <2>2. mc[c].want \in McStatuses  BY <1>1, <1>3 DEF McShape
  <2>3. QED  BY <1>3, <2>1, <2>2 DEF McTicketRecords
<1>4. CASE mc[c].op = "priority"
  <2>1. Changed(t, mc[c]) = [t EXCEPT !.priority = mc[c].want]  BY <1>4 DEF Changed
  <2>2. mc[c].want \in McPriorities  BY <1>1, <1>4 DEF McShape
  <2>3. QED  BY <1>4, <2>1, <2>2 DEF McTicketRecords
<1>5. CASE mc[c].op = "comment"
  <2>1. Changed(t, mc[c]) = [t EXCEPT !.said = [t.said EXCEPT ![mc[c].action] = @ + 1]]
      BY <1>5 DEF Changed, McTicketRecords
  <2>2. t.said \in [McNotes -> Nat]  BY DEF McTicketRecords
  <2>3. [t.said EXCEPT ![mc[c].action] = @ + 1] \in [McNotes -> Nat]
      BY <1>2, <2>2
  <2>4. QED  BY <1>2, <1>5, <2>1, <2>2, <2>3 DEF McTicketRecords
<1>6. QED  BY <1>2, <1>3, <1>4, <1>5

LEMMA SetKeeps ==
    ASSUME MulticaInv, NEW c \in McClients, McSet(c)
    PROVE  MulticaInv'
<1> DEFINE n == mc[c].number
           u == Changed(tickets[n], mc[c])
<1>1. /\ mc[c].at = "set" /\ tickets' = [tickets EXCEPT ![n] = u]
      /\ meddled' = meddled \cup OthersOn(c, n) /\ UNCHANGED <<taken, mcCalls, peopleActs>>
      /\ mc[c] \in McOperations /\ tickets \in Seq(McTicketRecords) /\ ClientInv(c)
    BY DEF McSet, MulticaInv, MulticaTyped
<1>2. /\ mc[c].op \in {"status", "priority", "comment"} /\ n \in DOMAIN tickets
      /\ mc[c].action \in McNotes
    BY <1>1 DEF ClientInv, McShape, McOperations
<1>3. tickets[n] \in McTicketRecords  BY <1>1, <1>2, RecordOfTicket
<1>4. /\ u \in McTicketRecords /\ u.action = tickets[n].action /\ u.owned = tickets[n].owned
      /\ mc[c].op = "status" => u.status = mc[c].want
      /\ mc[c].op = "priority" => u.priority = mc[c].want
      /\ \A a \in McNotes :
            u.said[a] = IF mc[c].op = "comment" /\ mc[c].action = a THEN tickets[n].said[a] + 1
                        ELSE tickets[n].said[a]
    BY <1>1, <1>3, ChangedTicket
<1> HIDE DEF u
<1>5. /\ tickets' \in Seq(McTicketRecords) /\ Len(tickets') = Len(tickets)
      /\ DOMAIN tickets' = DOMAIN tickets /\ tickets'[n] = u
      /\ \A m \in DOMAIN tickets : m # n => tickets'[m] = tickets[m]
  <2>1. DOMAIN tickets = 1 .. Len(tickets)  BY <1>1, LenProperties
  <2>2. QED  BY <1>1, <1>2, <1>4, <2>1, ExceptSeq
<1>6. \A m \in DOMAIN tickets, a \in McNotes :
          tickets[m].said[a] \in Nat /\ tickets'[m].said[a] \in Nat
    BY <1>1, <1>5, RecordOfTicket
<1>7. /\ mc' \in [McClients -> McOperations]
      /\ \A d \in McClients : d # c => mc'[d] = mc[d]
      /\ \/ /\ mc'[c].op = mc[c].op /\ mc'[c].number = n /\ mc'[c].action = mc[c].action
            /\ mc'[c].at \in {"answered", "exact"} /\ mc'[c].hits = mc[c].hits
            /\ mc'[c].want = mc[c].want
            /\ mc'[c].at = "answered" => mc[c].op = "status"
         \/ mc'[c] = McIdle
  <2>1. CASE mc' = [mc EXCEPT ![c] = McIdle]
      BY <2>1, IdleOperation, OperationBecomes
  <2>2. CASE McGoes(c, "exact")
      BY <2>2, OperationGoes
  <2>3. CASE mc[c].op = "status" /\ McGoes(c, "answered")
      BY <2>3, OperationGoes
  <2>4. QED  BY <2>1, <2>2, <2>3 DEF McSet
<1>8. MulticaTyped'
    BY <1>1, <1>5, <1>7 DEF MulticaInv, MulticaTyped, OthersOn
<1>9. TicketsGrow
    BY <1>4, <1>5, <1>6 DEF TicketsGrow
<1>10. OwnedIsTaken'
    BY <1>1, <1>4, <1>5 DEF MulticaInv, OwnedIsTaken
<1>11. \A a : Untaken(a)' = Untaken(a)
    BY <1>1, <1>4, <1>5 DEF Untaken
<1>12. OneUntaken'
    BY <1>11 DEF MulticaInv, OneUntaken
<1>13. OneCreator'
  <2>1. Creating(c)' => Creating(c) /\ mc'[c].action = mc[c].action
      BY <1>2, <1>7, IdleOperation DEF Creating
  <2>2. QED  BY <1>7, <2>1, CreatorsKept
<1>14. SaidIsCalled'
  <2>1. CASE mc[c].op # "comment"
    <3>1. Commenting' \subseteq Commenting
        BY <1>7, <2>1, IdleOperation DEF Commenting
    <3>2. \A m \in DOMAIN tickets', a \in McNotes : tickets'[m].said[a] = tickets[m].said[a]
        BY <1>4, <1>5, <2>1
    <3>3. QED  BY <1>1, <1>5, <1>8, <3>1, <3>2, SaidKept
  <2>2. CASE mc[c].op = "comment"
    <3>1. c \in Commenting  BY <1>1, <2>2 DEF Commenting
    <3>2. Commenting' \subseteq Commenting \ {c}
        BY <1>7, IdleOperation DEF Commenting
    <3>3. /\ IsFiniteSet(Commenting) /\ Cardinality(Commenting) <= mcCalls /\ mcCalls \in Nat
          /\ Cardinality(Commenting) \in Nat
          /\ \A m \in DOMAIN tickets, a \in McNotes :
                tickets[m].said[a] + Cardinality(Commenting) <= mcCalls
        BY FS_CardinalityType, MulticaAssumption DEF MulticaInv, SaidIsCalled, MulticaTyped
    <3>4. /\ IsFiniteSet(Commenting') /\ Cardinality(Commenting') \in Nat
          /\ Cardinality(Commenting') + 1 <= Cardinality(Commenting)
        BY <3>1, <3>2, <3>3, OneLess
    <3>5. \A m \in DOMAIN tickets, a \in McNotes : tickets'[m].said[a] <= tickets[m].said[a] + 1
        BY <1>4, <1>5, <1>6
    <3>6. mcCalls' = mcCalls /\ DOMAIN tickets' = DOMAIN tickets  BY <1>1, <1>5
    <3>7. Cardinality(Commenting') <= mcCalls'  BY <3>3, <3>4, <3>6
    <3>8. ASSUME NEW m \in DOMAIN tickets', NEW a \in McNotes
          PROVE  tickets'[m].said[a] + Cardinality(Commenting') <= mcCalls'
        BY <1>6, <3>3, <3>4, <3>5, <3>6
    <3>9. QED  BY <3>4, <3>7, <3>8 DEF SaidIsCalled
  <2>3. QED  BY <2>1, <2>2
<1>15. ClientInv(c)'
  <2>1. McShape(c)'
      BY <1>1, <1>2, <1>5, <1>7, IdleOperation DEF ClientInv, McShape
  <2>2. McCreateSees(c)'
      BY <1>2, <1>7, IdleOperation DEF McCreateSees, McAt
  <2>3. McAnswerHolds(c)'
    <3>1. mc[c].op = "comment" => u.said[mc[c].action] > 0
        BY <1>2, <1>3, <1>4, <1>6
    <3>2. QED  BY <1>2, <1>4, <1>5, <1>7, <3>1, IdleOperation DEF McAnswerHolds, Ticket
  <2>4. QED  BY <2>1, <2>2, <2>3 DEF ClientInv
<1>16. ASSUME NEW d \in McClients, d # c PROVE UndisturbedSame(d) /\ NoneNew(d)
  <2>1. NoneNew(d)
    <3>1. mc'[d] = mc[d]  BY <1>7, <1>16
    <3>2. Untaken(mc[d].action)' = Untaken(mc[d].action)  BY <1>11, <3>1
    <3>3. QED  BY <3>2 DEF NoneNew
  <2>2. n # 0
      BY <1>1, <1>2, RecordOfTicket
  <2>3. d \notin meddled' => d \notin meddled /\ mc[d].number # n
      BY <1>1, <1>16, <2>2 DEF OthersOn
  <2>4. QED  BY <1>5, <2>1, <2>3 DEF UndisturbedSame
<1>17. QED
    BY <1>7, <1>8, <1>9, <1>10, <1>12, <1>13, <1>14, <1>15, <1>16, ClientStep

LEMMA PeopleKeep ==
    ASSUME MulticaInv, PeopleAct
    PROVE  MulticaInv'
<1>1. PICK n \in DOMAIN tickets :
         /\ \/ tickets' = [tickets EXCEPT ![n].owned = ~@] /\ taken' = taken \cup {n}
            \/ /\ \E s \in McStatuses : tickets' = [tickets EXCEPT ![n].status = s]
               /\ UNCHANGED taken
         /\ meddled' = meddled \cup {d \in McClients : mc[d].number = n}
    BY DEF PeopleAct
<1>2. /\ UNCHANGED <<mc, mcCalls>> /\ peopleActs' \in 0 .. MaxPeopleActs
      /\ tickets \in Seq(McTicketRecords)
    BY MulticaAssumption DEF PeopleAct, MulticaInv, MulticaTyped
<1>3. tickets[n] \in McTicketRecords  BY <1>2, RecordOfTicket
<1>4. PICK u \in McTicketRecords :
         /\ tickets' = [tickets EXCEPT ![n] = u]
         /\ u.action = tickets[n].action /\ u.said = tickets[n].said
         /\ u.owned = tickets[n].owned \/ n \in taken'
         /\ taken' \in {taken, taken \cup {n}}
  <2>1. CASE tickets' = [tickets EXCEPT ![n].owned = ~@] /\ taken' = taken \cup {n}
    <3> DEFINE b == ~tickets[n].owned
               v == [tickets[n] EXCEPT !.owned = b]
    <3>1. b \in BOOLEAN  OBVIOUS
    <3>2. tickets' = [tickets EXCEPT ![n] = v]
        BY <2>1
    <3> HIDE DEF b
    <3>3. v \in McTicketRecords /\ v.action = tickets[n].action /\ v.said = tickets[n].said
        BY <1>3, <3>1 DEF McTicketRecords
    <3> HIDE DEF v
    <3>4. QED  BY <2>1, <3>2, <3>3
  <2>2. CASE \E s \in McStatuses : tickets' = [tickets EXCEPT ![n].status = s] /\ taken' = taken
    <3>1. PICK s \in McStatuses : tickets' = [tickets EXCEPT ![n].status = s] /\ taken' = taken
        BY <2>2
    <3> DEFINE v == [tickets[n] EXCEPT !.status = s]
    <3>2. tickets' = [tickets EXCEPT ![n] = v]
        BY <3>1
    <3>3. /\ v \in McTicketRecords /\ v.action = tickets[n].action /\ v.said = tickets[n].said
          /\ v.owned = tickets[n].owned
        BY <1>3 DEF McTicketRecords
    <3> HIDE DEF v
    <3>4. QED  BY <3>1, <3>2, <3>3
  <2>3. QED  BY <1>1, <2>1, <2>2
<1>5. /\ tickets' \in Seq(McTicketRecords) /\ Len(tickets') = Len(tickets)
      /\ DOMAIN tickets' = DOMAIN tickets /\ tickets'[n] = u
      /\ \A m \in DOMAIN tickets : m # n => tickets'[m] = tickets[m]
  <2>1. DOMAIN tickets = 1 .. Len(tickets)  BY <1>2, LenProperties
  <2>2. QED  BY <1>2, <1>4, <2>1, ExceptSeq
<1>6. MulticaTyped'
    BY <1>1, <1>2, <1>4, <1>5 DEF MulticaInv, MulticaTyped
<1>7. \A m \in DOMAIN tickets, a \in McNotes :
          tickets'[m].said[a] = tickets[m].said[a] /\ tickets[m].said[a] \in Nat
    BY <1>2, <1>4, <1>5, RecordOfTicket
<1>8. TicketsGrow
    BY <1>4, <1>5, <1>7 DEF TicketsGrow
<1>9. OwnedIsTaken'
    BY <1>4, <1>5 DEF MulticaInv, OwnedIsTaken
<1>10. \A a : Untaken(a)' \subseteq Untaken(a)
    BY <1>4, <1>5 DEF Untaken
<1>11. OneUntaken'
    BY <1>10 DEF MulticaInv, OneUntaken
<1>12. OneCreator'
    BY <1>2 DEF MulticaInv, OneCreator, Creating
<1>13. SaidIsCalled'
  <2>1. Commenting' \subseteq Commenting  BY <1>2 DEF Commenting
  <2>2. \A m \in DOMAIN tickets', a \in McNotes :
          tickets'[m].said[a] = 0
          \/ (m \in DOMAIN tickets /\ tickets'[m].said[a] = tickets[m].said[a])
      BY <1>5, <1>7
  <2>3. QED  BY <1>2, <1>6, <2>1, <2>2, SaidKept
<1>14. ASSUME NEW d \in McClients PROVE ClientInv(d)'
  <2>1. NoneNew(d)
    <3>1. mc'[d] = mc[d]  BY <1>2
    <3>2. QED  BY <1>10, <3>1 DEF NoneNew
  <2>2. UndisturbedSame(d)  BY <1>1, <1>5 DEF UndisturbedSame
  <2>3. QED  BY <1>2, <1>6, <1>8, <2>1, <2>2, OthersKeepOperation
<1>15. QED
    BY <1>6, <1>9, <1>11, <1>12, <1>13, <1>14 DEF MulticaInv

LEMMA MulticaStep ==
    ASSUME MulticaInv, [MulticaNext]_multicaVars
    PROVE  MulticaInv'
<1>1. ASSUME NEW c \in McClients,
             \/ McBeginCreate(c) \/ McBeginOnIssue(c) \/ McFails(c)
             \/ SearchIssues(c) \/ ReadHit(c) \/ McCreate(c) \/ McReadCreated(c)
             \/ McReadBefore(c) \/ McSet(c) \/ McReadBack(c)
      PROVE  MulticaInv'
    BY <1>1, BeginCreateKeeps, BeginOnIssueKeeps, FailsKeeps, SearchKeeps, ReadHitKeeps,
       CreateKeeps, ReadCreatedKeeps, ReadBeforeKeeps, SetKeeps, ReadBackKeeps
<1>2. CASE PeopleAct  BY <1>2, PeopleKeep
<1>3. CASE UNCHANGED multicaVars
  <2>1. UNCHANGED <<tickets, mc, meddled, taken, mcCalls, peopleActs>>
      BY <1>3 DEF multicaVars
  <2>2. MulticaTyped' /\ OwnedIsTaken' /\ OneUntaken' /\ OneCreator' /\ SaidIsCalled'
      BY <2>1 DEF MulticaInv, MulticaTyped, OwnedIsTaken, OneUntaken, OneCreator, SaidIsCalled,
                  Commenting, Untaken, Creating
  <2>3. \A c \in McClients : ClientInv(c)'
      BY <2>1 DEF MulticaInv, ClientInv, McShape, McCreateSees, McAnswerHolds, McAt, Ticket,
                  Untaken
  <2>4. QED  BY <2>2, <2>3 DEF MulticaInv
<1>4. QED  BY <1>1, <1>2, <1>3 DEF MulticaNext

LEMMA MulticaAlways == MulticaSpec => []MulticaInv
BY MulticaInitially, MulticaStep, PTL DEF MulticaSpec

LEMMA MulticaImplications ==
    ASSUME MulticaInv
    PROVE  MulticaTypeOK /\ MulticaKeepsItsWord
<1>1. MulticaTypeOK
  <2>1. tickets \in Seq(McTicketRecords) /\ SaidIsCalled /\ MulticaTyped
      BY DEF MulticaInv, MulticaTyped
  <2>2. ASSUME NEW n \in 1 .. Len(tickets) PROVE tickets[n] \in McIssues
    <3>1. n \in DOMAIN tickets  BY <2>1, LenProperties
    <3>2. tickets[n] \in McTicketRecords /\ tickets[n].said \in [McNotes -> Nat]
        BY <2>1, <3>1, RecordOfTicket
    <3>3. ASSUME NEW a \in McNotes PROVE tickets[n].said[a] \in 0 .. MaxMcCalls
      <4>1. Cardinality(Commenting) \in Nat  BY <2>1, FS_CardinalityType DEF SaidIsCalled
      <4>2. tickets[n].said[a] + Cardinality(Commenting) <= mcCalls /\ mcCalls \in 0 .. MaxMcCalls
          BY <2>1, <3>1 DEF SaidIsCalled, MulticaTyped
      <4>3. QED  BY <3>2, <4>1, <4>2, MulticaAssumption
    <3>4. tickets[n].said \in [McNotes -> 0 .. MaxMcCalls]  BY <3>2, <3>3
    <3>5. QED  BY <3>2, <3>4 DEF McTicketRecords, McIssues
  <2>3. tickets \in Seq(McIssues)  BY <2>1, <2>2, SeqDef, LenProperties
  <2>4. QED  BY <2>1, <2>3 DEF MulticaTypeOK, MulticaTyped
<1>2. ASSUME NEW a \in McActions
      PROVE  Cardinality({n \in DOMAIN tickets \ taken : tickets[n].action = a}) <= 1
  <2>1. Untaken(a) = {n \in DOMAIN tickets \ taken : tickets[n].action = a}  BY DEF Untaken
  <2>2. CASE Untaken(a) = {}  BY <2>1, <2>2, FS_EmptySet
  <2>3. CASE Untaken(a) # {}
    <3>1. PICK n : n \in Untaken(a)  BY <2>3
    <3>2. Untaken(a) = {n}  BY <3>1 DEF MulticaInv, OneUntaken
    <3>3. Cardinality({n}) = 1  BY FS_Singleton
    <3>4. Cardinality(Untaken(a)) <= 1  BY <3>2, <3>3
    <3>5. QED  BY <2>1, <3>4
  <2>4. QED  BY <2>2, <2>3
<1>3. \A c \in McClients : McAnswerHolds(c)  BY DEF MulticaInv, ClientInv
<1>4. QED  BY <1>1, <1>2, <1>3 DEF MulticaKeepsItsWord, McAnswerHolds

(* For any number of clients, issues, lost answers and acts of people, what the Multica
   backend answered is so unless somebody else changed the issue since, and one
   strategic action has one issue but for those a person took (tickets/multica.ts behind
   tickets/provider.ts); and the state has its type. *)
THEOREM MulticaCorrect == MulticaSpec => [](MulticaTypeOK /\ MulticaKeepsItsWord)
BY MulticaAlways, MulticaImplications, PTL

-----------------------------------------------------------------------------
(* GitHubTickets. As for Multica, with the labels and states GitHub splits an issue
   into. *)
(* The operations with where they may be, and the issues with counts of any size. *)
GhCreates == [op : {"create"}, action : Notes, at : {"list", "create", "exact", "answered"},
              number : 0 .. MaxIssues, body : {NoBody}]
GhStatusSets == [op : {"status"}, want : GhStatuses,
                 at : {"view", "edit", "close", "exact", "answered"},
                 number : 1 .. MaxIssues, body : GhBodies]
GhPrioritySets == [op : {"priority"}, want : GhPriorities,
                   at : {"before", "view", "edit", "exact", "answered"},
                   number : 1 .. MaxIssues, body : GhBodies]
GhComments == [op : {"comment"}, action : Notes, at : {"before", "post", "exact", "answered"},
               number : 1 .. MaxIssues, body : {NoBody}]
GhStates == {GhIdle} \cup GhCreates \cup GhStatusSets \cup GhPrioritySets \cup GhComments

IssueRecords == [body : GhBodies, open : BOOLEAN, said : [Notes -> Nat]]

GitHubTyped ==
    /\ issues \in Seq(IssueRecords) /\ Len(issues) <= MaxIssues
    /\ gh \in [GhClients -> GhStates]
    /\ disturbed \subseteq GhClients
    /\ ghCalls \in 0 .. MaxGhCalls /\ peopleEdits \in 0 .. MaxPeopleEdits

(* One issue of each action, and one client that makes it. *)
OneIssue == \A a \in GhActions : \A m, n \in Existing(a) : m = n

GhCreating(c) == gh[c].op = "create" /\ gh[c].at # "answered"

OneGhCreator ==
    \A c, d \in GhClients :
        GhCreating(c) /\ GhCreating(d) /\ gh[c].action = gh[d].action /\ gh[c].action # "none"
            => c = d

(* A create that found nothing: there is nothing still. *)
GhCreateSees(c) ==
    gh[c].op = "create" /\ gh[c].at = "create" /\ gh[c].action # "none" =>
        Existing(gh[c].action) = {}

(* A body that was read has the action of its issue, which is there. *)
GhReadsBody(c) ==
    /\ gh[c].op \in {"status", "priority", "comment"} => gh[c].number \in DOMAIN issues
    /\ gh[c].op \in {"status", "priority"} /\ gh[c].at = "edit" =>
          gh[c].body.action = issues[gh[c].number].body.action

(* What an operation has written is there, unless somebody changed it. *)
GhHolds(c, at) ==
    LET issue == issues[gh[c].number] IN
    /\ gh[c].op = "status" /\ at \in {"close", "exact", "answered"} /\ c \notin disturbed =>
          issue.body.status = gh[c].want
    /\ gh[c].op = "status" /\ at \in {"exact", "answered"} /\ c \notin disturbed =>
          (gh[c].want \in TerminalStatuses => ~issue.open)
    /\ gh[c].op = "priority" /\ at \in {"exact", "answered"} /\ c \notin disturbed =>
          issue.body.priority = gh[c].want
    /\ gh[c].op = "comment" /\ at \in {"exact", "answered"} =>
          issue.said[gh[c].action] > 0

GhWrites(c) == GhHolds(c, gh[c].at)

GhClientInv(c) == GhCreateSees(c) /\ GhReadsBody(c) /\ GhWrites(c)

(* Every comment there is was called for, and so will be those on their way. *)
Posting == {c \in GhClients : gh[c].op = "comment" /\ gh[c].at \in {"before", "post"}}

PostsAreCalled ==
    /\ IsFiniteSet(Posting) /\ Cardinality(Posting) <= ghCalls
    /\ \A n \in DOMAIN issues, a \in Notes :
          issues[n].said[a] + Cardinality(Posting) <= ghCalls

GitHubInv ==
    /\ GitHubTyped /\ OneIssue /\ OneGhCreator /\ PostsAreCalled
    /\ \A c \in GhClients : GhClientInv(c)

(* No step takes an issue away, changes its action or deletes a comment. *)
IssuesGrow ==
    /\ DOMAIN issues \subseteq DOMAIN issues'
    /\ \A n \in DOMAIN issues :
          /\ issues'[n].body.action = issues[n].body.action
          /\ \A a \in Notes : issues'[n].said[a] >= issues[n].said[a]

IssueUntouched(d) ==
    d \notin disturbed' =>
       /\ d \notin disturbed
       /\ gh[d].op # "idle" /\ gh[d].number \in DOMAIN issues =>
             issues'[gh[d].number] = issues[gh[d].number]

NoneNewFor(d) ==
    GhCreating(d) /\ gh[d].action # "none" =>
        Existing(gh[d].action)' \subseteq Existing(gh[d].action)

-----------------------------------------------------------------------------

LEMMA Smallest ==
    ASSUME NEW S \in SUBSET Nat, S # {}
    PROVE  \E x \in S : \A y \in S : x <= y
<1> DEFINE R == {p \in Nat \X Nat : p[1] < p[2]}
<1>1. OpToRel(<, Nat) = R  BY Zenon DEF OpToRel
<1>2. IsWellFoundedOn(R, Nat)  BY <1>1, NatLessThanWellFounded, Zenon
<1> HIDE DEF R
<1>3. PICK x \in S : \A y \in S : ~(<<y, x>> \in R)  BY <1>2, WFMin
<1>4. \A y \in S : ~(y < x)  BY <1>3 DEF R
<1>5. QED  BY <1>4

LEMMA Largest ==
    ASSUME NEW N \in Nat, NEW S \in SUBSET (0 .. N), S # {}
    PROVE  Max(S) \in S
<1> DEFINE T == {N - x : x \in S}
<1>1. T \in SUBSET Nat  OBVIOUS
<1>0. T # {} 
  <2>1. PICK x \in S : TRUE  OBVIOUS
  <2>2. N - x \in T  BY <2>1
  <2>3. QED  BY <2>2
<1>2. PICK t \in T : \A u \in T : t <= u  BY <1>0, <1>1, Smallest
<1>3. PICK x \in S : t = N - x  BY <1>2
<1>4. \A y \in S : x >= y
  <2> TAKE y \in S
  <2>1. N - y \in T  OBVIOUS
  <2>2. N - x <= N - y  BY <1>2, <1>3, <2>1
  <2>3. QED  BY <2>2
<1>5. QED  BY <1>3, <1>4 DEF Max

LEMMA RecordOfIssue ==
    ASSUME NEW s \in Seq(IssueRecords), NEW n \in DOMAIN s
    PROVE  /\ n \in 1 .. Len(s) /\ s[n] \in IssueRecords
           /\ s[n].said \in [Notes -> Nat] /\ s[n].body \in GhBodies
           /\ \A a \in Notes : s[n].said[a] \in Nat
<1>1. n \in 1 .. Len(s)  OBVIOUS
<1>2. s[n] \in IssueRecords  BY <1>1, ElementOfSeq
<1>3. QED  BY <1>1, <1>2 DEF IssueRecords

(* Which operation it is says which record it is. *)
LEMMA OperationOf ==
    ASSUME NEW o \in GhStates
    PROVE  /\ o.op = "create" => o \in GhCreates
           /\ o.op = "status" => o \in GhStatusSets
           /\ o.op = "priority" => o \in GhPrioritySets
           /\ o.op = "comment" => o \in GhComments
           /\ o.op = "idle" => o = GhIdle
           /\ o.op \in {"create", "status", "priority", "comment", "idle"}
BY DEF GhStates, GhCreates, GhStatusSets, GhPrioritySets, GhComments, GhIdle

LEMMA GitHubInitially == GitHubInit => GitHubInv
<1> SUFFICES ASSUME GitHubInit PROVE GitHubInv  OBVIOUS
<1> USE DEF GitHubInit
<1>1. GitHubTyped
    BY GitHubAssumption DEF GitHubTyped, GhStates
<1>2. OneIssue /\ OneGhCreator
    BY DEF OneIssue, Existing, Children, OneGhCreator, GhCreating, GhIdle
<1>3. PostsAreCalled
  <2>1. Posting = {}  BY DEF Posting, GhIdle
  <2>2. QED  BY <2>1, FS_EmptySet DEF PostsAreCalled
<1>4. \A c \in GhClients : GhClientInv(c)
    BY DEF GhClientInv, GhCreateSees, GhReadsBody, GhWrites, GhHolds, GhIdle
<1>5. QED  BY <1>1, <1>2, <1>3, <1>4 DEF GitHubInv

(* What holds of an operation goes on to hold while others work. *)
LEMMA OtherKeeps ==
    ASSUME GitHubInv, GitHubTyped', NEW d \in GhClients, gh'[d] = gh[d], IssuesGrow,
           IssueUntouched(d), NoneNewFor(d)
    PROVE  GhClientInv(d)'
<1>1. gh[d] \in GhStates /\ GhClientInv(d)
    BY DEF GitHubInv, GitHubTyped
<1>2. GhCreateSees(d)'
  <2> SUFFICES ASSUME gh[d].op = "create", gh[d].at = "create", gh[d].action # "none"
               PROVE  Existing(gh[d].action)' = {}
      BY DEF GhCreateSees
  <2>1. Existing(gh[d].action) = {}  BY <1>1 DEF GhClientInv, GhCreateSees
  <2>2. GhCreating(d)  BY DEF GhCreating
  <2>3. QED  BY <2>1, <2>2 DEF NoneNewFor
<1>3. GhReadsBody(d)'
    BY <1>1 DEF GhClientInv, GhReadsBody, IssuesGrow
<1>4. GhWrites(d)'
  <2>1. CASE gh[d].op = "comment"
    <3> SUFFICES ASSUME gh[d].at \in {"exact", "answered"}
                 PROVE  issues'[gh[d].number].said[gh[d].action] > 0
        BY <2>1 DEF GhWrites, GhHolds
    <3> DEFINE n == gh[d].number
    <3>1. /\ n \in DOMAIN issues /\ n \in DOMAIN issues'
          /\ issues[n].said[gh[d].action] > 0
        BY <1>1, <2>1 DEF GhClientInv, GhReadsBody, GhWrites, GhHolds, IssuesGrow
    <3>2. gh[d].action \in Notes
        BY <1>1, <2>1, OperationOf DEF GhComments
    <3>3. issues[n].said[gh[d].action] \in Nat
        BY <3>1, <3>2, RecordOfIssue DEF GitHubInv, GitHubTyped
    <3>4. issues'[n].said[gh[d].action] \in Nat
        BY <3>1, <3>2, RecordOfIssue DEF GitHubTyped
    <3>5. QED  BY <3>1, <3>2, <3>3, <3>4 DEF IssuesGrow
  <2>2. CASE gh[d].op \in {"status", "priority"}
    <3>1. gh[d].number \in DOMAIN issues
        BY <1>1, <2>2 DEF GhClientInv, GhReadsBody
    <3>2. d \notin disturbed' =>
             d \notin disturbed /\ issues'[gh[d].number] = issues[gh[d].number]
        BY <2>2, <3>1 DEF IssueUntouched
    <3>3. QED  BY <1>1, <2>2, <3>2 DEF GhClientInv, GhWrites, GhHolds
  <2>3. CASE gh[d].op \notin {"status", "priority", "comment"}
      BY <2>3 DEF GhWrites, GhHolds
  <2>4. QED  BY <2>1, <2>2, <2>3
<1>5. QED  BY <1>2, <1>3, <1>4 DEF GhClientInv

(* A step of one client. *)
LEMMA GhClientStep ==
    ASSUME GitHubInv, NEW c \in GhClients, GitHubTyped', OneIssue', OneGhCreator',
           PostsAreCalled', GhClientInv(c)', IssuesGrow,
           \A d \in GhClients : d # c => gh'[d] = gh[d] /\ IssueUntouched(d) /\ NoneNewFor(d)
    PROVE  GitHubInv'
<1>1. \A d \in GhClients : GhClientInv(d)'
  <2> TAKE d \in GhClients
  <2>1. CASE d = c  BY <2>1
  <2>2. CASE d # c  BY <2>2, OtherKeeps
  <2>3. QED  BY <2>1, <2>2
<1>2. QED  BY <1>1 DEF GitHubInv

LEMMA GhBecomes ==
    ASSUME GitHubInv, NEW c \in GhClients, NEW o \in GhStates, gh' = [gh EXCEPT ![c] = o]
    PROVE  /\ gh' \in [GhClients -> GhStates] /\ gh'[c] = o
           /\ \A d \in GhClients : d # c => gh'[d] = gh[d]
BY DEF GitHubInv, GitHubTyped

LEMMA OneGhCreatorKept ==
    ASSUME GitHubInv, NEW c \in GhClients, \A d \in GhClients : d # c => gh'[d] = gh[d],
           GhCreating(c)' => GhCreating(c) /\ gh'[c].action = gh[c].action
    PROVE  OneGhCreator'
BY DEF GitHubInv, OneGhCreator, GhCreating

(* No comment is made, and none is begun. *)
LEMMA PostsKept ==
    ASSUME GitHubInv, GitHubTyped', Posting' \subseteq Posting, ghCalls' = ghCalls,
           \A n \in DOMAIN issues', a \in Notes :
              issues'[n].said[a] = 0
              \/ (n \in DOMAIN issues /\ issues'[n].said[a] = issues[n].said[a])
    PROVE  PostsAreCalled'
<1>1. /\ IsFiniteSet(Posting') /\ Cardinality(Posting') <= Cardinality(Posting)
      /\ Cardinality(Posting) \in Nat /\ Cardinality(Posting') \in Nat
    BY FS_Subset, FS_CardinalityType DEF GitHubInv, PostsAreCalled
<1>2. ghCalls \in Nat  BY GitHubAssumption DEF GitHubInv, GitHubTyped
<1>3. \A n \in DOMAIN issues, a \in Notes : issues[n].said[a] \in Nat
    BY RecordOfIssue DEF GitHubInv, GitHubTyped
<1>4. QED  BY <1>1, <1>2, <1>3 DEF GitHubInv, PostsAreCalled

(* A step of one client that leaves the tracker as it is, and begins nothing. *)
LEMMA GhQuietStep ==
    ASSUME GitHubInv, NEW c \in GhClients, GhStays(c), NEW o \in GhStates,
           gh' = [gh EXCEPT ![c] = o],
           o.op = "create" /\ o.at # "answered" => GhCreating(c) /\ o.action = gh[c].action,
           o.op = "comment" /\ o.at \in {"before", "post"} => c \in Posting,
           GhCreateSees(c)', GhReadsBody(c)', GhWrites(c)'
    PROVE  GitHubInv'
<1>1. /\ gh' \in [GhClients -> GhStates] /\ gh'[c] = o
      /\ \A d \in GhClients : d # c => gh'[d] = gh[d]
    BY GhBecomes
<1>2. GitHubTyped' /\ OneIssue'
    BY <1>1 DEF GitHubInv, GitHubTyped, GhStays, OneIssue, Existing, Children
<1>3. OneGhCreator'  BY <1>1, OneGhCreatorKept DEF GhCreating
<1>4. PostsAreCalled'
  <2>1. Posting' \subseteq Posting  BY <1>1 DEF Posting
  <2>2. QED  BY <1>2, <2>1, PostsKept DEF GhStays
<1>5. IssuesGrow
  <2>1. \A n \in DOMAIN issues, a \in Notes : issues[n].said[a] \in Nat
      BY RecordOfIssue DEF GitHubInv, GitHubTyped
  <2>2. QED  BY <2>1 DEF IssuesGrow, GhStays
<1>6. ASSUME NEW d \in GhClients, d # c PROVE IssueUntouched(d) /\ NoneNewFor(d)
  <2>1. IssueUntouched(d)  BY DEF IssueUntouched, GhStays
  <2>2. gh'[d] = gh[d]  BY <1>1, <1>6
  <2>3. Existing(gh[d].action)' = Existing(gh[d].action)
      BY <2>2 DEF Existing, Children, GhStays
  <2>4. QED  BY <2>1, <2>3 DEF NoneNewFor
<1>7. GhClientInv(c)'  BY DEF GhClientInv
<1>8. QED  BY <1>1, <1>2, <1>3, <1>4, <1>5, <1>6, <1>7, GhClientStep

(* An operation begins. *)
LEMMA GhBeginsKeeps ==
    ASSUME GitHubInv, NEW c \in GhClients, NEW o \in GhStates, GhBegins(c, o),
           o.op \in {"create", "status", "priority", "comment"},
           o.at \in {"list", "view", "before"},
           o.op # "create" => o.number \in DOMAIN issues,
           o.op = "create" /\ o.action # "none" =>
              \A d \in GhClients : ~(GhCreating(d) /\ gh[d].action = o.action)
    PROVE  GitHubInv'
<1>1. /\ gh' \in [GhClients -> GhStates] /\ gh'[c] = o
      /\ \A d \in GhClients : d # c => gh'[d] = gh[d]
    BY GhBecomes DEF GhBegins
<1>2. GitHubTyped' /\ OneIssue'
    BY <1>1, GitHubAssumption
       DEF GitHubInv, GitHubTyped, GhBegins, OneIssue, Existing, Children
<1>3. OneGhCreator'
    BY <1>1 DEF GitHubInv, OneGhCreator, GhCreating
<1>4. GhClientInv(c)'
    BY <1>1 DEF GhClientInv, GhCreateSees, GhReadsBody, GhWrites, GhHolds, GhBegins
<1>5. PostsAreCalled'
  <2>1. IsFiniteSet(Posting) /\ Cardinality(Posting) \in Nat
      BY FS_CardinalityType DEF GitHubInv, PostsAreCalled
  <2>2. Posting' \subseteq Posting \cup {c}
      BY <1>1 DEF Posting
  <2>3. /\ IsFiniteSet(Posting') /\ Cardinality(Posting') \in Nat
        /\ Cardinality(Posting') <= Cardinality(Posting) + 1
      BY <2>1, <2>2, OneMore
  <2>4. /\ issues' = issues /\ ghCalls' = ghCalls + 1 /\ ghCalls \in Nat
        /\ \A n \in DOMAIN issues, a \in Notes : issues[n].said[a] \in Nat
      BY RecordOfIssue, GitHubAssumption DEF GhBegins, GitHubInv, GitHubTyped
  <2>5. QED  BY <2>1, <2>3, <2>4 DEF GitHubInv, PostsAreCalled
<1>6. IssuesGrow
  <2>1. \A n \in DOMAIN issues, a \in Notes : issues[n].said[a] \in Nat
      BY RecordOfIssue DEF GitHubInv, GitHubTyped
  <2>2. QED  BY <2>1 DEF IssuesGrow, GhBegins
<1>7. ASSUME NEW d \in GhClients, d # c PROVE IssueUntouched(d) /\ NoneNewFor(d)
  <2>1. IssueUntouched(d)  BY <1>7 DEF IssueUntouched, GhBegins
  <2>2. gh'[d] = gh[d]  BY <1>1, <1>7
  <2>3. Existing(gh[d].action)' = Existing(gh[d].action)
      BY <2>2 DEF Existing, Children, GhBegins
  <2>4. QED  BY <2>1, <2>3 DEF NoneNewFor
<1>8. QED  BY <1>1, <1>2, <1>3, <1>4, <1>5, <1>6, <1>7, GhClientStep

-----------------------------------------------------------------------------
LEMMA IssueNumbers ==
    ASSUME GitHubInv
    PROVE  DOMAIN issues \subseteq 1 .. MaxIssues
<1>1. Len(issues) \in Nat /\ Len(issues) <= MaxIssues /\ DOMAIN issues = 1 .. Len(issues)
    BY LenProperties DEF GitHubInv, GitHubTyped
<1>2. QED  BY <1>1, GitHubAssumption

LEMMA NoBodyIsBody == NoBody \in GhBodies
BY DEF NoBody, GhBodies, GhPriorities

LEMMA GhBeginCreateKeeps ==
    ASSUME GitHubInv, NEW c \in GhClients, BeginCreate(c)
    PROVE  GitHubInv'
<1>1. PICK a \in GhActions \cup {"none"} :
       /\ a # "none" => \A d \in GhClients : ~(gh[d].op = "create" /\ gh[d].at # "answered"
                                               /\ gh[d].action = a)
       /\ GhBegins(c, [op |-> "create", action |-> a, at |-> "list", number |-> 0,
                       body |-> NoBody])
    BY DEF BeginCreate
<1> DEFINE o == [op |-> "create", action |-> a, at |-> "list", number |-> 0, body |-> NoBody]
<1>2. /\ o \in GhCreates /\ o.op = "create" /\ o.at = "list" /\ o.action = a
    BY GitHubAssumption DEF GhCreates, Notes
<1> HIDE DEF o
<1>3. GhBegins(c, o)  BY <1>1 DEF o
<1>4. o \in GhStates  BY <1>2 DEF GhStates
<1>5. QED  BY <1>1, <1>2, <1>3, <1>4, GhBeginsKeeps DEF GhCreating

LEMMA GhBeginOnIssueKeeps ==
    ASSUME GitHubInv, NEW c \in GhClients, BeginOnIssue(c)
    PROVE  GitHubInv'
<1>1. PICK n \in DOMAIN issues :
       \/ \E s \in GhStatuses :
             GhBegins(c, [op |-> "status", want |-> s, at |-> "view", number |-> n,
                          body |-> NoBody])
       \/ \E p \in GhPriorities :
             GhBegins(c, [op |-> "priority", want |-> p, at |-> "before", number |-> n,
                          body |-> NoBody])
       \/ \E a \in Notes :
             GhBegins(c, [op |-> "comment", action |-> a, at |-> "before", number |-> n,
                          body |-> NoBody])
    BY DEF BeginOnIssue
<1>2. n \in 1 .. MaxIssues  BY IssueNumbers
<1>3. ASSUME NEW s \in GhStatuses,
             GhBegins(c, [op |-> "status", want |-> s, at |-> "view", number |-> n,
                          body |-> NoBody])
      PROVE  GitHubInv'
  <2> DEFINE o == [op |-> "status", want |-> s, at |-> "view", number |-> n, body |-> NoBody]
  <2>1. o \in GhStates /\ o.op = "status" /\ o.at = "view" /\ o.number = n
      BY <1>2, NoBodyIsBody DEF GhStatusSets, GhStates
  <2> HIDE DEF o
  <2>2. GhBegins(c, o)  BY <1>3 DEF o
  <2>3. QED  BY <2>1, <2>2, GhBeginsKeeps
<1>4. ASSUME NEW p \in GhPriorities,
             GhBegins(c, [op |-> "priority", want |-> p, at |-> "before", number |-> n,
                          body |-> NoBody])
      PROVE  GitHubInv'
  <2> DEFINE o == [op |-> "priority", want |-> p, at |-> "before", number |-> n, body |-> NoBody]
  <2>1. o \in GhStates /\ o.op = "priority" /\ o.at = "before" /\ o.number = n
      BY <1>2, NoBodyIsBody DEF GhPrioritySets, GhStates
  <2> HIDE DEF o
  <2>2. GhBegins(c, o)  BY <1>4 DEF o
  <2>3. QED  BY <2>1, <2>2, GhBeginsKeeps
<1>5. ASSUME NEW a \in Notes,
             GhBegins(c, [op |-> "comment", action |-> a, at |-> "before", number |-> n,
                          body |-> NoBody])
      PROVE  GitHubInv'
  <2> DEFINE o == [op |-> "comment", action |-> a, at |-> "before", number |-> n, body |-> NoBody]
  <2>1. o \in GhStates /\ o.op = "comment" /\ o.at = "before" /\ o.number = n
      BY <1>2 DEF GhComments, GhStates
  <2> HIDE DEF o
  <2>2. GhBegins(c, o)  BY <1>5 DEF o
  <2>3. QED  BY <2>1, <2>2, GhBeginsKeeps
<1>6. QED  BY <1>1, <1>3, <1>4, <1>5

LEMMA GhFailsKeeps ==
    ASSUME GitHubInv, NEW c \in GhClients, GhFails(c)
    PROVE  GitHubInv'
<1>1. /\ GhStays(c) /\ gh' = [gh EXCEPT ![c] = GhIdle] /\ GhIdle \in GhStates
      /\ GhIdle.op = "idle"
    BY DEF GhFails, GhStates, GhIdle
<1>2. gh'[c].op = "idle"  BY <1>1, GhBecomes
<1>3. GhCreateSees(c)' /\ GhReadsBody(c)' /\ GhWrites(c)'
    BY <1>2 DEF GhCreateSees, GhReadsBody, GhWrites, GhHolds
<1>4. QED  BY <1>1, <1>3, GhQuietStep

LEMMA ListChildrenKeeps ==
    ASSUME GitHubInv, NEW c \in GhClients, ListChildren(c)
    PROVE  GitHubInv'
<1> DEFINE found == Existing(gh[c].action)
           at == IF found = {} THEN "create" ELSE "answered"
           number == IF found = {} THEN 0 ELSE Max(found)
           o == [gh[c] EXCEPT !.at = at, !.number = number]
<1>1. /\ gh[c].op = "create" /\ gh[c].at = "list" /\ GhStays(c)
      /\ gh' = [gh EXCEPT ![c].at = at, ![c].number = number]
    BY DEF ListChildren
<1>2. gh[c] \in GhCreates  BY <1>1, OperationOf DEF GitHubInv, GitHubTyped
<1>3. number \in 0 .. MaxIssues
  <2>1. found \subseteq 1 .. MaxIssues  BY IssueNumbers DEF Existing, Children
  <2>2. MaxIssues \in Nat /\ found \subseteq 0 .. MaxIssues  BY <2>1, GitHubAssumption
  <2> HIDE DEF found
  <2>3. found # {} => Max(found) \in found  BY <2>2, Largest
  <2>4. CASE found = {}  BY <2>2, <2>4
  <2>5. CASE found # {}  BY <2>2, <2>3, <2>5
  <2>6. QED  BY <2>4, <2>5
<1>4. at \in {"create", "answered"} /\ (at = "create" => found = {})  OBVIOUS
<1>5. gh' = [gh EXCEPT ![c] = o]  BY <1>1 DEF GitHubInv, GitHubTyped
<1> HIDE DEF at, number, found
<1>6. o \in GhCreates /\ o.op = "create" /\ o.at = at /\ o.action = gh[c].action
    BY <1>2, <1>3, <1>4 DEF GhCreates
<1>7. o \in GhStates  BY <1>6 DEF GhStates
<1> HIDE DEF o
<1>8. gh'[c] = o  BY <1>5, <1>7, GhBecomes
<1>9. GhReadsBody(c)' /\ GhWrites(c)'
    BY <1>6, <1>8 DEF GhReadsBody, GhWrites, GhHolds
<1>10. GhCreateSees(c)'
  <2>1. Existing(gh[c].action)' = Existing(gh'[c].action)
      BY <1>1 DEF Existing, Children, GhStays
  <2>2. gh'[c].action = gh[c].action  BY <1>6, <1>8
  <2>3. gh'[c].at = "create" => Existing(gh[c].action) = {}
      BY <1>4, <1>6, <1>8 DEF found
  <2>4. QED  BY <2>1, <2>2, <2>3 DEF GhCreateSees
<1>11. GhCreating(c)  BY <1>1 DEF GhCreating
<1>12. QED  BY <1>1, <1>5, <1>6, <1>7, <1>9, <1>10, <1>11, GhQuietStep

LEMMA GhCreateKeeps ==
    ASSUME GitHubInv, NEW c \in GhClients, CreateIssue(c)
    PROVE  GitHubInv'
<1> DEFINE b == [NoBody EXCEPT !.status = "todo", !.action = gh[c].action]
           t == [body |-> b, open |-> TRUE, said |-> [a \in Notes |-> 0]]
           new == Len(issues) + 1
<1>1. /\ gh[c].op = "create" /\ gh[c].at = "create" /\ Len(issues) < MaxIssues
      /\ issues' = Append(issues, t)
      /\ UNCHANGED <<disturbed, ghCalls, peopleEdits>>
      /\ issues \in Seq(IssueRecords) /\ GhClientInv(c)
    BY DEF CreateIssue, GitHubInv, GitHubTyped
<1>2. gh[c] \in GhCreates /\ gh[c].action \in Notes
    BY <1>1, OperationOf DEF GitHubInv, GitHubTyped, GhCreates
<1>3. b \in GhBodies /\ b.action = gh[c].action
    BY <1>2 DEF GhBodies, NoBody, GhStatuses, GhPriorities, Notes
<1> HIDE DEF b
<1>4. t \in IssueRecords /\ t.body.action = gh[c].action /\ \A a \in Notes : t.said[a] = 0
    BY <1>3 DEF IssueRecords
<1> HIDE DEF t
<1>5. /\ issues' \in Seq(IssueRecords) /\ Len(issues') = new
      /\ DOMAIN issues = 1 .. Len(issues) /\ DOMAIN issues' = 1 .. new
      /\ Len(issues) \in Nat
      /\ \A n \in DOMAIN issues : issues'[n] = issues[n]
      /\ issues'[new] = t
    BY <1>1, <1>4, AppendProperties, LenProperties
<1>6. new \in 1 .. MaxIssues /\ DOMAIN issues' = DOMAIN issues \cup {new}
      /\ new \notin DOMAIN issues
    BY <1>1, <1>5, GitHubAssumption
<1>7. PICK o \in GhStates :
         /\ gh' = [gh EXCEPT ![c] = o]
         /\ o = GhIdle \/ (o.op = "create" /\ o.at = "exact" /\ o.action = gh[c].action)
  <2>1. CASE gh' = [gh EXCEPT ![c] = GhIdle]
      BY <2>1 DEF GhStates
  <2>2. CASE gh' = [gh EXCEPT ![c].at = "exact", ![c].number = new]
    <3> HIDE DEF new
    <3> DEFINE o == [gh[c] EXCEPT !.at = "exact", !.number = new]
    <3>1. gh' = [gh EXCEPT ![c] = o]  BY <2>2 DEF GitHubInv, GitHubTyped
    <3>2. new \in 0 .. MaxIssues  BY <1>6, GitHubAssumption
    <3>3. o \in GhCreates /\ o.op = "create" /\ o.at = "exact" /\ o.action = gh[c].action
        BY <1>2, <3>2 DEF GhCreates
    <3> HIDE DEF o
    <3>4. QED  BY <3>1, <3>3 DEF GhStates
  <2>3. QED  BY <2>1, <2>2 DEF CreateIssue
<1>8. /\ gh' \in [GhClients -> GhStates] /\ gh'[c] = o
      /\ \A d \in GhClients : d # c => gh'[d] = gh[d]
    BY <1>7, GhBecomes
<1>9. GitHubTyped'
    BY <1>1, <1>5, <1>6, <1>8 DEF GitHubInv, GitHubTyped
<1>10. IssuesGrow
  <2>1. \A n \in DOMAIN issues, a \in Notes : issues[n].said[a] \in Nat
      BY <1>1, RecordOfIssue
  <2>2. QED  BY <1>5, <1>6, <2>1 DEF IssuesGrow
<1>11. \A a : Existing(a)' \subseteq Existing(a) \cup (IF gh[c].action = a THEN {new} ELSE {})
    BY <1>4, <1>5, <1>6 DEF Existing, Children
<1>12. OneIssue'
  <2> SUFFICES ASSUME NEW a \in GhActions, NEW m \in Existing(a)', NEW n \in Existing(a)'
               PROVE  m = n
      BY DEF OneIssue
  <2>1. CASE gh[c].action = a
    <3>1. a # "none"  BY GitHubAssumption
    <3>2. Existing(a) = {}  BY <1>1, <2>1, <3>1 DEF GhClientInv, GhCreateSees
    <3>3. QED  BY <1>11, <2>1, <3>2
  <2>2. CASE gh[c].action # a
      BY <1>11, <2>2 DEF GitHubInv, OneIssue
  <2>3. QED  BY <2>1, <2>2
<1>13. OneGhCreator'
  <2>1. GhCreating(c)' => GhCreating(c) /\ gh'[c].action = gh[c].action
      BY <1>1, <1>7, <1>8 DEF GhCreating, GhIdle
  <2>2. QED  BY <1>8, <2>1, OneGhCreatorKept
<1>14. PostsAreCalled'
  <2>1. Posting' \subseteq Posting
      BY <1>7, <1>8 DEF Posting, GhIdle
  <2>2. ASSUME NEW n \in DOMAIN issues', NEW a \in Notes
        PROVE  issues'[n].said[a] = 0
               \/ (n \in DOMAIN issues /\ issues'[n].said[a] = issues[n].said[a])
    <3>1. CASE n = new
      <4>1. issues'[n] = t  BY <1>5, <3>1
      <4>2. t.said[a] = 0  BY <1>4
      <4>3. QED  BY <4>1, <4>2
    <3>2. CASE n \in DOMAIN issues  BY <1>5, <3>2
    <3>3. QED  BY <1>6, <3>1, <3>2
  <2>3. ghCalls' = ghCalls  BY <1>1
  <2>4. QED  BY <1>9, <2>1, <2>2, <2>3, PostsKept
<1>15. GhClientInv(c)'
    BY <1>7, <1>8 DEF GhClientInv, GhCreateSees, GhReadsBody, GhWrites, GhHolds, GhIdle
<1>16. ASSUME NEW d \in GhClients, d # c PROVE IssueUntouched(d) /\ NoneNewFor(d)
  <2>1. IssueUntouched(d)  BY <1>1, <1>5 DEF IssueUntouched
  <2>2. NoneNewFor(d)
    <3> SUFFICES ASSUME GhCreating(d), gh[d].action # "none"
                 PROVE  Existing(gh[d].action)' \subseteq Existing(gh[d].action)
        BY DEF NoneNewFor
    <3>1. GhCreating(c)  BY <1>1 DEF GhCreating
    <3>2. gh[d].action # gh[c].action
        BY <1>16, <3>1 DEF GitHubInv, OneGhCreator
    <3>3. gh'[d] = gh[d]  BY <1>8, <1>16
    <3>4. QED  BY <1>11, <3>2, <3>3
  <2>3. QED  BY <2>1, <2>2
<1>17. QED
    BY <1>8, <1>9, <1>10, <1>12, <1>13, <1>14, <1>15, <1>16, GhClientStep

(* An operation on an issue goes on to where it may be, and leaves the tracker. *)
GhMoves(c, at) ==
    \/ gh[c].op = "create" /\ at = "answered"
    \/ gh[c].op = "status" /\ at \in {"close", "exact", "answered"}
    \/ gh[c].op = "priority" /\ at \in {"view", "exact", "answered"}
    \/ gh[c].op = "comment" /\ at \in {"post", "exact", "answered"}

GhMoved(c, o, at) ==
    /\ o.op = gh[c].op /\ o.at = at /\ o.number = gh[c].number /\ o.body = gh[c].body
    /\ o.op \in {"create", "comment"} => o.action = gh[c].action
    /\ o.op \in {"status", "priority"} => o.want = gh[c].want

LEMMA GhGoesTo ==
    ASSUME GitHubInv, NEW c \in GhClients, NEW at, GhMoves(c, at), GhGoes(c, at)
    PROVE  \E o \in GhStates : gh' = [gh EXCEPT ![c] = o] /\ GhMoved(c, o, at)
<1> DEFINE o == [gh[c] EXCEPT !.at = at]
<1>1. gh' = [gh EXCEPT ![c] = o]  BY DEF GhGoes, GitHubInv, GitHubTyped
<1>2. gh[c] \in GhStates  BY DEF GitHubInv, GitHubTyped
<1>3. o \in GhStates /\ GhMoved(c, o, at)
  <2>1. CASE gh[c].op = "create"
    <3>1. gh[c] \in GhCreates /\ at = "answered"  BY <1>2, <2>1, OperationOf DEF GhMoves
    <3>2. o \in GhCreates  BY <3>1 DEF GhCreates
    <3>3. QED  BY <2>1, <3>1, <3>2 DEF GhStates, GhCreates, GhMoved
  <2>2. CASE gh[c].op = "status"
    <3>1. gh[c] \in GhStatusSets /\ at \in {"close", "exact", "answered"}
        BY <1>2, <2>2, OperationOf DEF GhMoves
    <3>2. o \in GhStatusSets  BY <3>1 DEF GhStatusSets
    <3>3. QED  BY <2>2, <3>1, <3>2 DEF GhStates, GhStatusSets, GhMoved
  <2>3. CASE gh[c].op = "priority"
    <3>1. gh[c] \in GhPrioritySets /\ at \in {"view", "exact", "answered"}
        BY <1>2, <2>3, OperationOf DEF GhMoves
    <3>2. o \in GhPrioritySets  BY <3>1 DEF GhPrioritySets
    <3>3. QED  BY <2>3, <3>1, <3>2 DEF GhStates, GhPrioritySets, GhMoved
  <2>4. CASE gh[c].op = "comment"
    <3>1. gh[c] \in GhComments /\ at \in {"post", "exact", "answered"}
        BY <1>2, <2>4, OperationOf DEF GhMoves
    <3>2. o \in GhComments  BY <3>1 DEF GhComments
    <3>3. QED  BY <2>4, <3>1, <3>2 DEF GhStates, GhComments, GhMoved
  <2>5. QED  BY <2>1, <2>2, <2>3, <2>4 DEF GhMoves
<1>4. QED  BY <1>1, <1>3

(* An operation moves on and leaves the tracker as it is. *)
LEMMA GhMoveStep ==
    ASSUME GitHubInv, NEW c \in GhClients, NEW at, GhMoves(c, at), GhGoes(c, at), GhStays(c),
           GhHolds(c, at), at = "post" => c \in Posting
    PROVE  GitHubInv'
<1>1. PICK o \in GhStates :
         gh' = [gh EXCEPT ![c] = o] /\ GhMoved(c, o, at)
    BY GhGoesTo
<1> USE DEF GhMoved
<1>2. gh'[c] = o  BY <1>1, GhBecomes
<1>3. issues' = issues /\ disturbed' = disturbed  BY DEF GhStays
<1>4. GhCreateSees(c)'  BY <1>1, <1>2 DEF GhCreateSees, GhMoves
<1>5. GhReadsBody(c)'
    BY <1>1, <1>2, <1>3 DEF GhReadsBody, GhMoves, GitHubInv, GhClientInv
<1>6. GhWrites(c)'  BY <1>1, <1>2, <1>3 DEF GhWrites, GhHolds
<1>7. o.op = "create" => o.at = "answered"  BY <1>1 DEF GhMoves
<1>8. o.op = "comment" /\ o.at \in {"before", "post"} => c \in Posting
    BY <1>1 DEF GhMoves
<1>9. QED  BY <1>1, <1>4, <1>5, <1>6, <1>7, <1>8, GhQuietStep

LEMMA ReadCreatedMoves ==
    ASSUME GitHubInv, NEW c \in GhClients, ReadCreated(c)
    PROVE  GitHubInv'
<1>1. GhMoves(c, "answered") /\ GhHolds(c, "answered")
    BY DEF ReadCreated, GhMoves, GhHolds
<1>2. QED  BY <1>1, GhMoveStep DEF ReadCreated

LEMMA ReadBeforeMoves ==
    ASSUME GitHubInv, NEW c \in GhClients, ReadBefore(c)
    PROVE  GitHubInv'
<1> DEFINE at == IF issues[gh[c].number].body.priority = gh[c].want THEN "answered" ELSE "view"
<1>1. gh[c].op = "priority" /\ GhGoes(c, at) /\ GhStays(c)  BY DEF ReadBefore
<1>2. GhMoves(c, at) /\ GhHolds(c, at) /\ at # "post"
    BY <1>1 DEF GhMoves, GhHolds
<1> HIDE DEF at
<1>3. QED  BY <1>1, <1>2, GhMoveStep

LEMMA ReadWrittenMoves ==
    ASSUME GitHubInv, NEW c \in GhClients, ReadWritten(c)
    PROVE  GitHubInv'
<1>1. GhMoves(c, "answered") /\ GhHolds(c, "answered")
    BY DEF ReadWritten, GhMoves, GhHolds, GitHubInv, GhClientInv, GhWrites
<1>2. QED  BY <1>1, GhMoveStep DEF ReadWritten

LEMMA ReadCommentsMoves ==
    ASSUME GitHubInv, NEW c \in GhClients, ReadComments(c)
    PROVE  GitHubInv'
<1> DEFINE at == IF issues[gh[c].number].said[gh[c].action] > 0 THEN "answered" ELSE "post"
<1>1. gh[c].op = "comment" /\ gh[c].at = "before" /\ GhGoes(c, at) /\ GhStays(c)
    BY DEF ReadComments
<1>2. GhMoves(c, at) /\ GhHolds(c, at) /\ c \in Posting
    BY <1>1 DEF GhMoves, GhHolds, Posting
<1> HIDE DEF at
<1>3. QED  BY <1>1, <1>2, GhMoveStep

LEMMA ReadPostedMoves ==
    ASSUME GitHubInv, NEW c \in GhClients, ReadPosted(c)
    PROVE  GitHubInv'
<1>1. GhMoves(c, "answered") /\ GhHolds(c, "answered")
    BY DEF ReadPosted, GhMoves, GhHolds, GitHubInv, GhClientInv, GhWrites
<1>2. QED  BY <1>1, GhMoveStep DEF ReadPosted

LEMMA ViewIssueKeeps ==
    ASSUME GitHubInv, NEW c \in GhClients, ViewIssue(c)
    PROVE  GitHubInv'
<1> DEFINE b == issues[gh[c].number].body
           o == [gh[c] EXCEPT !.body = b, !.at = "edit"]
<1>1. /\ gh[c].op \in {"status", "priority"} /\ gh[c].at = "view" /\ GhStays(c)
      /\ gh' = [gh EXCEPT ![c].body = b, ![c].at = "edit"]
    BY DEF ViewIssue
<1>2. gh[c].number \in DOMAIN issues
    BY <1>1 DEF GitHubInv, GhClientInv, GhReadsBody
<1>3. b \in GhBodies  BY <1>2, RecordOfIssue DEF GitHubInv, GitHubTyped
<1>4. gh' = [gh EXCEPT ![c] = o]  BY <1>1 DEF GitHubInv, GitHubTyped
<1> HIDE DEF b
<1>5. o \in GhStates /\ o.op = gh[c].op /\ o.at = "edit" /\ o.body = b /\ o.number = gh[c].number
  <2>1. CASE gh[c].op = "status"
    <3>1. gh[c] \in GhStatusSets  BY <2>1, OperationOf DEF GitHubInv, GitHubTyped
    <3>2. o \in GhStatusSets  BY <1>3, <3>1 DEF GhStatusSets
    <3>3. QED  BY <3>1, <3>2 DEF GhStates, GhStatusSets
  <2>2. CASE gh[c].op = "priority"
    <3>1. gh[c] \in GhPrioritySets  BY <2>2, OperationOf DEF GitHubInv, GitHubTyped
    <3>2. o \in GhPrioritySets  BY <1>3, <3>1 DEF GhPrioritySets
    <3>3. QED  BY <3>1, <3>2 DEF GhStates, GhPrioritySets
  <2>3. QED  BY <1>1, <2>1, <2>2
<1> HIDE DEF o
<1>6. gh'[c] = o  BY <1>4, <1>5, GhBecomes
<1>7. GhCreateSees(c)' /\ GhWrites(c)'
    BY <1>1, <1>5, <1>6 DEF GhCreateSees, GhWrites, GhHolds
<1>8. GhReadsBody(c)'
    BY <1>1, <1>2, <1>5, <1>6 DEF GhReadsBody, GhStays, b
<1>9. QED  BY <1>1, <1>4, <1>5, <1>7, <1>8, GhQuietStep

-----------------------------------------------------------------------------
(* One issue is written over. *)
LEMMA OnIssueFacts ==
    ASSUME GitHubInv, NEW c \in GhClients, NEW n \in DOMAIN issues, NEW u \in IssueRecords,
           issues' = [issues EXCEPT ![n] = u], u.body.action = issues[n].body.action,
           \A a \in Notes : u.said[a] >= issues[n].said[a]
    PROVE  /\ issues' \in Seq(IssueRecords) /\ Len(issues') = Len(issues)
           /\ DOMAIN issues' = DOMAIN issues /\ issues'[n] = u
           /\ \A m \in DOMAIN issues : m # n => issues'[m] = issues[m]
           /\ IssuesGrow /\ OneIssue' /\ \A a : Existing(a)' = Existing(a)
<1>1. issues \in Seq(IssueRecords) /\ DOMAIN issues = 1 .. Len(issues)
    BY LenProperties DEF GitHubInv, GitHubTyped
<1>2. /\ issues' \in Seq(IssueRecords) /\ Len(issues') = Len(issues)
      /\ DOMAIN issues' = DOMAIN issues /\ issues'[n] = u
      /\ \A m \in DOMAIN issues : m # n => issues'[m] = issues[m]
    BY <1>1, ExceptSeq
<1>3. \A a : Existing(a)' = Existing(a)
    BY <1>2 DEF Existing, Children
<1>4. OneIssue'  BY <1>3 DEF GitHubInv, OneIssue
<1>5. IssuesGrow
  <2>1. \A m \in DOMAIN issues, a \in Notes : issues[m].said[a] \in Nat
      BY <1>1, RecordOfIssue
  <2>2. QED  BY <1>2, <2>1 DEF IssuesGrow
<1>6. QED  BY <1>2, <1>3, <1>4, <1>5

LEMMA OnIssueOthers ==
    ASSUME GitHubInv, NEW c \in GhClients, NEW n \in DOMAIN issues, Disturbs(c, n),
           \A m \in DOMAIN issues : m # n => issues'[m] = issues[m],
           \A a : Existing(a)' = Existing(a),
           NEW d \in GhClients, d # c, gh'[d] = gh[d]
    PROVE  IssueUntouched(d) /\ NoneNewFor(d)
<1>1. IssueUntouched(d)  BY DEF IssueUntouched, Disturbs
<1>2. Existing(gh[d].action)' = Existing(gh[d].action)  OBVIOUS
<1>3. QED  BY <1>1, <1>2 DEF NoneNewFor

(* The operation fails after it wrote, or goes on to read what it wrote. *)
LEMMA OnIssueStep ==
    ASSUME GitHubInv, NEW c \in GhClients, NEW u \in IssueRecords,
           gh[c].number \in DOMAIN issues,
           OnIssue(c, gh[c].number, u), u.body.action = issues[gh[c].number].body.action,
           \A a \in Notes : u.said[a] >= issues[gh[c].number].said[a],
           NEW at \in {"close", "exact"}, GhMoves(c, at),
           GhGoes(c, at) \/ gh' = [gh EXCEPT ![c] = GhIdle],
           gh[c].op # "comment" => u.said = issues[gh[c].number].said,
           gh[c].op = "comment" =>
              /\ c \in Posting /\ u.said[gh[c].action] > 0
              /\ \A a \in Notes : u.said[a] <= issues[gh[c].number].said[a] + 1,
           gh[c].op = "status" => u.body.status = gh[c].want \/ c \in disturbed,
           gh[c].op = "status" /\ at = "exact" => (gh[c].want \in TerminalStatuses => ~u.open),
           gh[c].op = "priority" => u.body.priority = gh[c].want
    PROVE  GitHubInv'
<1> DEFINE n == gh[c].number
<1>1. /\ issues' = [issues EXCEPT ![n] = u] /\ Disturbs(c, n)
      /\ UNCHANGED <<ghCalls, peopleEdits>>
    BY DEF OnIssue
<1>2. /\ issues' \in Seq(IssueRecords) /\ Len(issues') = Len(issues)
      /\ DOMAIN issues' = DOMAIN issues /\ issues'[n] = u
      /\ \A m \in DOMAIN issues : m # n => issues'[m] = issues[m]
      /\ IssuesGrow /\ OneIssue' /\ \A a : Existing(a)' = Existing(a)
    BY <1>1, OnIssueFacts
<1>3. PICK o \in GhStates :
         /\ gh' = [gh EXCEPT ![c] = o]
         /\ \/ o = GhIdle
            \/ /\ o.op = gh[c].op /\ o.at = at /\ o.number = n /\ o.body = gh[c].body
               /\ o.op = "comment" => o.action = gh[c].action
               /\ o.op \in {"status", "priority"} => o.want = gh[c].want
  <2>1. CASE GhGoes(c, at)
    <3>1. PICK p \in GhStates : gh' = [gh EXCEPT ![c] = p] /\ GhMoved(c, p, at)
        BY <2>1, GhGoesTo
    <3>2. QED  BY <3>1 DEF GhMoved
  <2>2. CASE gh' = [gh EXCEPT ![c] = GhIdle]  BY <2>2 DEF GhStates
  <2>3. QED  BY <2>1, <2>2
<1>4. /\ gh' \in [GhClients -> GhStates] /\ gh'[c] = o
      /\ \A d \in GhClients : d # c => gh'[d] = gh[d]
    BY <1>3, GhBecomes
<1>5. GitHubTyped'
    BY <1>1, <1>2, <1>4 DEF GitHubInv, GitHubTyped, Disturbs
<1>6. gh[c].op \in {"status", "priority", "comment"} /\ (gh[c].op = "comment" => at = "exact")
    BY DEF GhMoves
<1>7. OneGhCreator'
  <2>1. ~GhCreating(c)'  BY <1>3, <1>4, <1>6 DEF GhCreating, GhIdle
  <2>2. QED  BY <1>4, <2>1, OneGhCreatorKept
<1>8. c \notin Posting' /\ Posting' \subseteq Posting
    BY <1>3, <1>4 DEF Posting, GhIdle
<1>9. \A m \in DOMAIN issues, a \in Notes :
          issues[m].said[a] \in Nat /\ issues'[m].said[a] \in Nat
    BY <1>2, RecordOfIssue DEF GitHubInv, GitHubTyped
<1>10. PostsAreCalled'
  <2>1. CASE gh[c].op # "comment"
    <3>1. \A m \in DOMAIN issues', a \in Notes :
              issues'[m].said[a] = 0
              \/ (m \in DOMAIN issues /\ issues'[m].said[a] = issues[m].said[a])
        BY <1>2, <2>1
    <3>2. ghCalls' = ghCalls  BY <1>1
    <3>3. QED  BY <1>5, <1>8, <3>1, <3>2, PostsKept
  <2>2. CASE gh[c].op = "comment"
    <3>1. c \in Posting /\ Posting' \subseteq Posting \ {c}  BY <1>8, <2>2
    <3>2. /\ IsFiniteSet(Posting) /\ Cardinality(Posting) <= ghCalls /\ ghCalls \in Nat
          /\ Cardinality(Posting) \in Nat
          /\ \A m \in DOMAIN issues, a \in Notes :
                issues[m].said[a] + Cardinality(Posting) <= ghCalls
        BY FS_CardinalityType, GitHubAssumption DEF GitHubInv, PostsAreCalled, GitHubTyped
    <3>3. /\ IsFiniteSet(Posting') /\ Cardinality(Posting') \in Nat
          /\ Cardinality(Posting') + 1 <= Cardinality(Posting)
        BY <3>1, <3>2, OneLess
    <3>4. \A m \in DOMAIN issues, a \in Notes : issues'[m].said[a] <= issues[m].said[a] + 1
        BY <1>2, <1>9, <2>2
    <3>5. ghCalls' = ghCalls /\ DOMAIN issues' = DOMAIN issues  BY <1>1, <1>2
    <3>6. Cardinality(Posting') <= ghCalls'  BY <3>2, <3>3, <3>5
    <3>7. ASSUME NEW m \in DOMAIN issues', NEW a \in Notes
          PROVE  issues'[m].said[a] + Cardinality(Posting') <= ghCalls'
        BY <1>9, <3>2, <3>3, <3>4, <3>5
    <3>8. QED  BY <3>3, <3>6, <3>7 DEF PostsAreCalled
  <2>3. QED  BY <2>1, <2>2
<1>11. GhClientInv(c)'
  <2>1. CASE o = GhIdle
      BY <1>4, <2>1 DEF GhClientInv, GhCreateSees, GhReadsBody, GhWrites, GhHolds, GhIdle
  <2>2. CASE o # GhIdle
    <3>1. GhCreateSees(c)'  BY <1>3, <1>4, <1>6, <2>2 DEF GhCreateSees
    <3>2. GhReadsBody(c)'  BY <1>2, <1>3, <1>4, <2>2 DEF GhReadsBody
    <3>3. c \notin disturbed' => c \notin disturbed  BY <1>1 DEF Disturbs
    <3>4. GhWrites(c)'
        BY <1>2, <1>3, <1>4, <1>6, <2>2, <3>3 DEF GhWrites, GhHolds
    <3>5. QED  BY <3>1, <3>2, <3>4 DEF GhClientInv
  <2>3. QED  BY <2>1, <2>2
<1>12. \A d \in GhClients : d # c => IssueUntouched(d) /\ NoneNewFor(d)
    BY <1>1, <1>2, <1>4, OnIssueOthers
<1>13. QED
    BY <1>2, <1>4, <1>5, <1>7, <1>10, <1>11, <1>12, GhClientStep

LEMMA EditIssueKeeps ==
    ASSUME GitHubInv, NEW c \in GhClients, EditIssue(c)
    PROVE  GitHubInv'
<1> DEFINE n == gh[c].number
           b == Rewritten(gh[c])
           u == [issues[n] EXCEPT !.body = b]
           at == IF gh[c].op = "status" THEN "close" ELSE "exact"
<1>1. /\ gh[c].at = "edit" /\ OnIssue(c, n, u)
      /\ GhGoes(c, at) \/ gh' = [gh EXCEPT ![c] = GhIdle]
    BY DEF EditIssue
<1>2. gh[c] \in GhStates  BY DEF GitHubInv, GitHubTyped
<1>3. gh[c].op \in {"status", "priority"}
    BY <1>1, <1>2, OperationOf DEF GhIdle, GhCreates, GhComments
<1>4. n \in DOMAIN issues /\ gh[c].body.action = issues[n].body.action
    BY <1>1, <1>3 DEF GitHubInv, GhClientInv, GhReadsBody
<1>5. /\ b \in GhBodies /\ b.action = gh[c].body.action
      /\ gh[c].op = "status" => b.status = gh[c].want
      /\ gh[c].op = "priority" => b.priority = gh[c].want
  <2>1. CASE gh[c].op = "status"
    <3>1. gh[c] \in GhStatusSets  BY <1>2, <2>1, OperationOf
    <3>2. QED  BY <2>1, <3>1 DEF Rewritten, GhStatusSets, GhBodies
  <2>2. CASE gh[c].op = "priority"
    <3>1. gh[c] \in GhPrioritySets  BY <1>2, <2>2, OperationOf
    <3>2. QED  BY <2>2, <3>1 DEF Rewritten, GhPrioritySets, GhBodies
  <2>3. QED  BY <1>3, <2>1, <2>2
<1>6. issues[n] \in IssueRecords /\ \A a \in Notes : issues[n].said[a] \in Nat
    BY <1>4, RecordOfIssue DEF GitHubInv, GitHubTyped
<1> HIDE DEF b
<1>7. u \in IssueRecords /\ u.body = b /\ u.said = issues[n].said
    BY <1>5, <1>6 DEF IssueRecords
<1>8. /\ GhMoves(c, at) /\ at \in {"close", "exact"}
      /\ ~(gh[c].op = "status" /\ at = "exact")
    BY <1>3 DEF GhMoves
<1> HIDE DEF u, at
<1>9. QED  BY <1>1, <1>3, <1>4, <1>5, <1>6, <1>7, <1>8, OnIssueStep

LEMMA CloseOrReopenKeeps ==
    ASSUME GitHubInv, NEW c \in GhClients, CloseOrReopen(c)
    PROVE  GitHubInv'
<1> DEFINE n == gh[c].number
           closed == gh[c].want \notin TerminalStatuses
           u == [issues[n] EXCEPT !.open = closed]
<1>1. /\ gh[c].op = "status" /\ gh[c].at = "close" /\ GhGoes(c, "exact")
      /\ OnIssue(c, n, u) \/ (closed /\ GhStays(c))
  <2>1. (~(gh[c].want \in TerminalStatuses)) = closed  OBVIOUS
  <2>2. QED  BY <2>1 DEF CloseOrReopen
<1>2. n \in DOMAIN issues /\ (issues[n].body.status = gh[c].want \/ c \in disturbed)
    BY <1>1 DEF GitHubInv, GhClientInv, GhReadsBody, GhWrites, GhHolds
<1>3. GhMoves(c, "exact")  BY <1>1 DEF GhMoves
<1>4. CASE OnIssue(c, n, u)
  <2>1. issues[n] \in IssueRecords /\ \A a \in Notes : issues[n].said[a] \in Nat
      BY <1>2, RecordOfIssue DEF GitHubInv, GitHubTyped
  <2>2. closed \in BOOLEAN  OBVIOUS
  <2>3. closed => gh[c].want \notin TerminalStatuses  OBVIOUS
  <2>4. ~closed => gh[c].want \in TerminalStatuses  OBVIOUS
  <2> HIDE DEF closed
  <2>5. /\ u \in IssueRecords /\ u.body = issues[n].body /\ u.said = issues[n].said
        /\ u.open = closed
      BY <2>1, <2>2 DEF IssueRecords
  <2> HIDE DEF u
  <2>6. gh[c].want \in TerminalStatuses => ~u.open  BY <2>3, <2>5
  <2>7. QED  BY <1>1, <1>2, <1>3, <1>4, <2>1, <2>5, <2>6, OnIssueStep
<1>5. CASE closed /\ GhStays(c)
  <2>1. GhHolds(c, "exact")  BY <1>1, <1>2, <1>5 DEF GhHolds
  <2>2. QED  BY <1>1, <1>3, <1>5, <2>1, GhMoveStep
<1>6. QED  BY <1>1, <1>4, <1>5

LEMMA PostCommentKeeps ==
    ASSUME GitHubInv, NEW c \in GhClients, PostComment(c)
    PROVE  GitHubInv'
<1> DEFINE n == gh[c].number
           said == [issues[n].said EXCEPT ![gh[c].action] = @ + 1]
           u == [issues[n] EXCEPT !.said = said]
<1>1. gh[c].op = "comment" /\ gh[c].at = "post"
    BY DEF PostComment
<1>2. gh[c].action \in Notes
    BY <1>1, OperationOf DEF GitHubInv, GitHubTyped, GhComments
<1>3. n \in DOMAIN issues
    BY <1>1 DEF GitHubInv, GhClientInv, GhReadsBody
<1>4. issues[n] \in IssueRecords /\ issues[n].said \in [Notes -> Nat]
    BY <1>3, RecordOfIssue DEF GitHubInv, GitHubTyped
<1>5. /\ said \in [Notes -> Nat] /\ said[gh[c].action] > 0
      /\ \A a \in Notes : said[a] >= issues[n].said[a] /\ said[a] <= issues[n].said[a] + 1
    BY <1>2, <1>4
<1>6. [issues[n] EXCEPT !.said[gh[c].action] = @ + 1] = u
    BY <1>2, <1>4 DEF IssueRecords
<1>7. OnIssue(c, n, u)  BY <1>6 DEF PostComment
<1> HIDE DEF said
<1>8. u \in IssueRecords /\ u.body = issues[n].body /\ u.said = said
    BY <1>4, <1>5 DEF IssueRecords
<1> HIDE DEF u
<1>9. GhMoves(c, "exact") /\ c \in Posting
    BY <1>1 DEF GhMoves, Posting
<1>10. GhGoes(c, "exact") \/ gh' = [gh EXCEPT ![c] = GhIdle]  BY DEF PostComment
<1>11. QED  BY <1>1, <1>3, <1>5, <1>7, <1>8, <1>9, <1>10, OnIssueStep

LEMMA PeopleEditKeeps ==
    ASSUME GitHubInv, PeopleEdit
    PROVE  GitHubInv'
<1>1. PICK n \in DOMAIN issues :
         /\ \/ issues' = [issues EXCEPT ![n].open = ~@]
            \/ issues' = [issues EXCEPT ![n].body.status = "none"]
         /\ disturbed' = disturbed \cup {d \in GhClients : gh[d].op # "idle" /\ gh[d].number = n}
    BY DEF PeopleEdit
<1>2. UNCHANGED <<gh, ghCalls>> /\ peopleEdits' \in 0 .. MaxPeopleEdits
    BY GitHubAssumption DEF PeopleEdit, GitHubInv, GitHubTyped
<1>3. issues[n] \in IssueRecords /\ issues[n].body \in GhBodies
      /\ \A a \in Notes : issues[n].said[a] \in Nat
    BY RecordOfIssue DEF GitHubInv, GitHubTyped
<1>4. PICK u \in IssueRecords :
         /\ issues' = [issues EXCEPT ![n] = u]
         /\ u.body.action = issues[n].body.action /\ u.said = issues[n].said
  <2>1. CASE issues' = [issues EXCEPT ![n].open = ~@]
    <3> DEFINE b == ~issues[n].open
               v == [issues[n] EXCEPT !.open = b]
    <3>1. b \in BOOLEAN  OBVIOUS
    <3>2. issues' = [issues EXCEPT ![n] = v]  BY <2>1
    <3> HIDE DEF b
    <3>3. v \in IssueRecords /\ v.body = issues[n].body /\ v.said = issues[n].said
        BY <1>3, <3>1 DEF IssueRecords
    <3> HIDE DEF v
    <3>4. QED  BY <3>2, <3>3
  <2>2. CASE issues' = [issues EXCEPT ![n].body.status = "none"]
    <3> DEFINE b == [issues[n].body EXCEPT !.status = "none"]
               v == [issues[n] EXCEPT !.body = b]
    <3>1. issues' = [issues EXCEPT ![n] = v]
        BY <1>3, <2>2 DEF IssueRecords
    <3>2. b \in GhBodies /\ b.action = issues[n].body.action
        BY <1>3 DEF GhBodies
    <3> HIDE DEF b
    <3>3. v \in IssueRecords /\ v.body = b /\ v.said = issues[n].said
        BY <1>3, <3>2 DEF IssueRecords
    <3> HIDE DEF v
    <3>4. QED  BY <3>1, <3>2, <3>3
  <2>3. QED  BY <1>1, <2>1, <2>2
<1>5. /\ issues' \in Seq(IssueRecords) /\ Len(issues') = Len(issues)
      /\ DOMAIN issues' = DOMAIN issues /\ issues'[n] = u
      /\ \A m \in DOMAIN issues : m # n => issues'[m] = issues[m]
      /\ \A m \in DOMAIN issues : issues'[m].body.action = issues[m].body.action
                                  /\ issues'[m].said = issues[m].said
  <2>1. issues \in Seq(IssueRecords) /\ DOMAIN issues = 1 .. Len(issues)
      BY LenProperties DEF GitHubInv, GitHubTyped
  <2>2. QED  BY <1>4, <2>1, ExceptSeq
<1>6. GitHubTyped'
    BY <1>1, <1>2, <1>5 DEF GitHubInv, GitHubTyped
<1>7. \A a : Existing(a)' = Existing(a)
    BY <1>5 DEF Existing, Children
<1>8. OneIssue' /\ OneGhCreator'
    BY <1>2, <1>7 DEF GitHubInv, OneIssue, OneGhCreator, GhCreating
<1>9. \A m \in DOMAIN issues, a \in Notes : issues[m].said[a] \in Nat
    BY RecordOfIssue DEF GitHubInv, GitHubTyped
<1>10. PostsAreCalled'
  <2>1. Posting' \subseteq Posting  BY <1>2 DEF Posting
  <2>2. \A m \in DOMAIN issues', a \in Notes :
            issues'[m].said[a] = 0
            \/ (m \in DOMAIN issues /\ issues'[m].said[a] = issues[m].said[a])
      BY <1>5
  <2>3. QED  BY <1>2, <1>6, <2>1, <2>2, PostsKept
<1>11. IssuesGrow  BY <1>5, <1>9 DEF IssuesGrow
<1>12. ASSUME NEW d \in GhClients PROVE GhClientInv(d)'
  <2>1. gh'[d] = gh[d]  BY <1>2
  <2>2. NoneNewFor(d)
    <3>1. Existing(gh[d].action)' = Existing(gh[d].action)  BY <1>7, <2>1
    <3>2. QED  BY <3>1 DEF NoneNewFor
  <2>3. IssueUntouched(d)  BY <1>1, <1>5 DEF IssueUntouched
  <2>4. QED  BY <1>6, <1>11, <2>1, <2>2, <2>3, OtherKeeps
<1>13. QED
    BY <1>6, <1>8, <1>10, <1>12 DEF GitHubInv

LEMMA GitHubStep ==
    ASSUME GitHubInv, [GitHubNext]_githubVars
    PROVE  GitHubInv'
<1>1. ASSUME NEW c \in GhClients,
             \/ BeginCreate(c) \/ BeginOnIssue(c) \/ GhFails(c)
             \/ ListChildren(c) \/ CreateIssue(c) \/ ReadCreated(c)
             \/ ReadBefore(c) \/ ViewIssue(c) \/ EditIssue(c) \/ CloseOrReopen(c)
             \/ ReadWritten(c) \/ ReadComments(c) \/ PostComment(c) \/ ReadPosted(c)
      PROVE  GitHubInv'
    BY <1>1, GhBeginCreateKeeps, GhBeginOnIssueKeeps, GhFailsKeeps, ListChildrenKeeps,
       GhCreateKeeps, ReadCreatedMoves, ReadBeforeMoves, ViewIssueKeeps, EditIssueKeeps,
       CloseOrReopenKeeps, ReadWrittenMoves, ReadCommentsMoves, PostCommentKeeps,
       ReadPostedMoves
<1>2. CASE PeopleEdit  BY <1>2, PeopleEditKeeps
<1>3. CASE UNCHANGED githubVars
  <2>1. UNCHANGED <<issues, gh, disturbed, ghCalls, peopleEdits>>
      BY <1>3 DEF githubVars
  <2>2. GitHubTyped' /\ OneIssue' /\ OneGhCreator' /\ PostsAreCalled'
      BY <2>1 DEF GitHubInv, GitHubTyped, OneIssue, OneGhCreator, PostsAreCalled, Posting,
                  Existing, Children, GhCreating
  <2>3. \A c \in GhClients : GhClientInv(c)'
      BY <2>1 DEF GitHubInv, GhClientInv, GhCreateSees, GhReadsBody, GhWrites, GhHolds,
                  Existing, Children
  <2>4. QED  BY <2>2, <2>3 DEF GitHubInv
<1>4. QED  BY <1>1, <1>2, <1>3 DEF GitHubNext

LEMMA GitHubAlways == GitHubSpec => []GitHubInv
BY GitHubInitially, GitHubStep, PTL DEF GitHubSpec

LEMMA GitHubImplications ==
    ASSUME GitHubInv
    PROVE  GitHubTypeOK /\ GitHubKeepsItsWord
<1>1. issues \in Seq(Issues)
  <2>1. issues \in Seq(IssueRecords) /\ PostsAreCalled /\ GitHubTyped
      BY DEF GitHubInv, GitHubTyped
  <2>2. ASSUME NEW n \in 1 .. Len(issues) PROVE issues[n] \in Issues
    <3>1. n \in DOMAIN issues  BY <2>1, LenProperties
    <3>2. issues[n] \in IssueRecords /\ issues[n].said \in [Notes -> Nat]
        BY <2>1, <3>1, RecordOfIssue
    <3>3. ASSUME NEW a \in Notes PROVE issues[n].said[a] \in 0 .. MaxGhCalls
      <4>1. Cardinality(Posting) \in Nat  BY <2>1, FS_CardinalityType DEF PostsAreCalled
      <4>2. issues[n].said[a] + Cardinality(Posting) <= ghCalls /\ ghCalls \in 0 .. MaxGhCalls
          BY <2>1, <3>1 DEF PostsAreCalled, GitHubTyped
      <4>3. QED  BY <3>2, <4>1, <4>2, GitHubAssumption
    <3>4. issues[n].said \in [Notes -> 0 .. MaxGhCalls]  BY <3>2, <3>3
    <3>5. QED  BY <3>2, <3>4 DEF IssueRecords, Issues
  <2>3. QED  BY <2>1, <2>2, SeqDef, LenProperties
<1>2. ASSUME NEW c \in GhClients
      PROVE  \/ gh[c] = GhIdle
             \/ gh[c] \in GhOperations
             \/ \E o \in GhOperations : gh[c] = AtAnswer(o)
  <2>1. gh[c] \in GhStates  BY DEF GitHubInv, GitHubTyped
  <2> DEFINE o == [gh[c] EXCEPT !.at = "exact"]
  <2>2. CASE gh[c].op = "create"
    <3>1. gh[c] \in GhCreates  BY <2>1, <2>2, OperationOf
    <3>2. CASE gh[c].at # "answered"
        BY <3>1, <3>2 DEF GhCreates, GhOperations, Notes
    <3>3. CASE gh[c].at = "answered"
      <4>1. o \in GhOperations  BY <3>1 DEF GhCreates, GhOperations, Notes
      <4>2. gh[c] = AtAnswer(o)  BY <3>1, <3>3 DEF AtAnswer, GhCreates
      <4>3. QED  BY <4>1, <4>2
    <3>4. QED  BY <3>2, <3>3
  <2>3. CASE gh[c].op = "status"
    <3>1. gh[c] \in GhStatusSets  BY <2>1, <2>3, OperationOf
    <3>2. CASE gh[c].at # "answered"
        BY <3>1, <3>2 DEF GhStatusSets, GhOperations
    <3>3. CASE gh[c].at = "answered"
      <4>1. o \in GhOperations  BY <3>1 DEF GhStatusSets, GhOperations
      <4>2. gh[c] = AtAnswer(o)  BY <3>1, <3>3 DEF AtAnswer, GhStatusSets
      <4>3. QED  BY <4>1, <4>2
    <3>4. QED  BY <3>2, <3>3
  <2>4. CASE gh[c].op = "priority"
    <3>1. gh[c] \in GhPrioritySets  BY <2>1, <2>4, OperationOf
    <3>2. CASE gh[c].at # "answered"
        BY <3>1, <3>2 DEF GhPrioritySets, GhOperations
    <3>3. CASE gh[c].at = "answered"
      <4>1. o \in GhOperations  BY <3>1 DEF GhPrioritySets, GhOperations
      <4>2. gh[c] = AtAnswer(o)  BY <3>1, <3>3 DEF AtAnswer, GhPrioritySets
      <4>3. QED  BY <4>1, <4>2
    <3>4. QED  BY <3>2, <3>3
  <2>5. CASE gh[c].op = "comment"
    <3>1. gh[c] \in GhComments  BY <2>1, <2>5, OperationOf
    <3>2. CASE gh[c].at # "answered"
        BY <3>1, <3>2 DEF GhComments, GhOperations
    <3>3. CASE gh[c].at = "answered"
      <4>1. o \in GhOperations  BY <3>1 DEF GhComments, GhOperations
      <4>2. gh[c] = AtAnswer(o)  BY <3>1, <3>3 DEF AtAnswer, GhComments
      <4>3. QED  BY <4>1, <4>2
    <3>4. QED  BY <3>2, <3>3
  <2>6. QED  BY <2>1, <2>2, <2>3, <2>4, <2>5, OperationOf
<1>3. GitHubTypeOK
    BY <1>1, <1>2 DEF GitHubTypeOK, GitHubInv, GitHubTyped
<1>4. AnswersAreSo
    BY DEF AnswersAreSo, GitHubInv, GhClientInv, GhWrites, GhHolds
<1>5. OneIssuePerAction
  <2> SUFFICES ASSUME NEW a \in GhActions
               PROVE  Cardinality({n \in DOMAIN issues : issues[n].body.action = a}) <= 1
      BY DEF OneIssuePerAction
  <2>1. Existing(a) = {n \in DOMAIN issues : issues[n].body.action = a}
      BY DEF Existing, Children
  <2>2. CASE Existing(a) = {}  BY <2>1, <2>2, FS_EmptySet
  <2>3. CASE Existing(a) # {}
    <3>1. PICK n : n \in Existing(a)  BY <2>3
    <3>2. Existing(a) = {n}  BY <3>1 DEF GitHubInv, OneIssue
    <3>3. Cardinality({n}) = 1  BY FS_Singleton
    <3>4. Cardinality(Existing(a)) <= 1  BY <3>2, <3>3
    <3>5. QED  BY <2>1, <3>4
  <2>4. QED  BY <2>2, <2>3
<1>6. QED  BY <1>3, <1>4, <1>5 DEF GitHubKeepsItsWord

(* For any number of clients, issues, lost answers and edits by people, what the GitHub
   backend answered is so unless somebody else changed the issue since, and one
   strategic action has one issue (tickets/github.ts behind tickets/provider.ts); and
   the state has its type. *)
THEOREM GitHubCorrect == GitHubSpec => [](GitHubTypeOK /\ GitHubKeepsItsWord)
BY GitHubAlways, GitHubImplications, PTL

-----------------------------------------------------------------------------
(* Finalizer. A check accounts for the items in order: those before the one it is at
   were open, or proved by a record of the run (ItemProved). *)
Checks == [stage : {"ticket", "mutation", "PASS", "FAIL"}, response : Responses,
           run : LedgerRuns, at : 1 .. 3, proved : BOOLEAN]

Checked == check.stage \in {"ticket", "mutation", "PASS", "FAIL"}

ItemProved(i) ==
    LET id == check.response.items[i].identity IN
    /\ id # Monitoring => id.ticket \in openSince
    /\ id.disposition = "MUTATED" =>
          \E p \in proofs : p.ticket = id.ticket /\ p.run = check.run /\ p.success

FinalizerInv ==
    /\ FinalizerTypeOK
    /\ check # NoCheck => OpenTickets \subseteq openSince
    /\ Checked =>
          /\ Structured(check.response)
          /\ check.proved =>
                \A i \in DOMAIN check.response.items : i < check.at => ItemProved(i)
    /\ check.stage \in {"ticket", "mutation"} => check.at <= Len(check.response.items)
    /\ check.stage = "mutation" =>
          /\ Identity # Monitoring /\ (check.proved => Identity.ticket \in openSince)
    /\ check.stage = "PASS" => check.proved /\ check.at > Len(check.response.items)

-----------------------------------------------------------------------------

LEMMA SeqOfUpTo ==
    ASSUME NEW S, NEW n \in Nat, NEW s \in UpTo(n, S)
    PROVE  /\ Len(s) \in 0 .. n /\ DOMAIN s = 1 .. Len(s)
           /\ \A i \in DOMAIN s : i \in Nat /\ s[i] \in S
<1>1. PICK k \in 0 .. n : s \in [1 .. k -> S]  BY DEF UpTo
<1>2. s \in Seq(S) /\ Len(s) = k  BY <1>1, SeqDef
<1>3. QED  BY <1>1, <1>2

(* Lines take different items, so that there is one for each. *)
LEMMA CoveredMatches ==
    ASSUME NEW r \in Responses, Covered(r)
    PROVE  \E f \in [DOMAIN r.prose -> DOMAIN r.items] :
              \A m, n \in DOMAIN r.prose :
                 /\ r.items[f[n]].identity = r.prose[n]
                 /\ f[m] = f[n] => m = n
<1> DEFINE same(f, n) == {i \in Unmatched(r, f, n) : r.items[i].identity = r.prose[n]}
<1>1. PICK f \in [DOMAIN r.prose -> DOMAIN r.items] :
         \A n \in DOMAIN r.prose : same(f, n) # {} /\ f[n] = FirstOf(same(f, n))
    BY DEF Covered
<1>2. r.items \in UpTo(2, Items) /\ r.prose \in UpTo(2, Lines)  BY DEF Responses
<1>3. /\ \A i \in DOMAIN r.items : i \in Nat
      /\ DOMAIN r.prose = 1 .. Len(r.prose) /\ Len(r.prose) \in Nat
    BY <1>2, SeqOfUpTo
<1>4. ASSUME NEW n \in DOMAIN r.prose PROVE f[n] \in same(f, n)
  <2>1. same(f, n) \subseteq Nat /\ same(f, n) # {}  BY <1>1, <1>3 DEF Unmatched
  <2> HIDE DEF same
  <2>2. \E x \in same(f, n) : \A y \in same(f, n) : x <= y  BY <2>1, Smallest
  <2>3. FirstOf(same(f, n)) \in same(f, n)  BY <2>2 DEF FirstOf
  <2>4. f[n] = FirstOf(same(f, n))  BY <1>1
  <2>5. QED  BY <2>3, <2>4
<1>5. ASSUME NEW m \in DOMAIN r.prose, NEW n \in DOMAIN r.prose, m < n PROVE f[m] # f[n]
  <2>1. f[n] \in Unmatched(r, f, n)  BY <1>4
  <2>2. m \in 1 .. n - 1  BY <1>3, <1>5
  <2>3. QED  BY <2>1, <2>2 DEF Unmatched
<1>6. ASSUME NEW m \in DOMAIN r.prose, NEW n \in DOMAIN r.prose
      PROVE  /\ r.items[f[n]].identity = r.prose[n]
             /\ f[m] = f[n] => m = n
  <2>1. m \in Nat /\ n \in Nat  BY <1>3
  <2>2. m = n \/ m < n \/ n < m  BY <2>1
  <2>3. QED  BY <1>4, <1>5, <2>2
<1>7. QED  BY <1>6

LEMMA FinalizerInitially == FinalizerInit => FinalizerInv
BY DEF FinalizerInit, FinalizerInv, FinalizerTypeOK, Checked, NoCheck

LEMMA CheckedRecord ==
    ASSUME FinalizerInv, Checked
    PROVE  /\ check \in Checks /\ check # NoCheck
           /\ Len(check.response.items) \in 0 .. 2
           /\ DOMAIN check.response.items = 1 .. Len(check.response.items)
           /\ \A i \in DOMAIN check.response.items : check.response.items[i] \in Items
<1>1. check \in Checks
    BY DEF FinalizerInv, FinalizerTypeOK, Checked, Checks, NoCheck, Refused
<1>2. check.response.items \in UpTo(2, Items)  BY <1>1 DEF Checks, Responses
<1>3. check # NoCheck  BY DEF Checked, NoCheck
<1>4. QED  BY <1>1, <1>2, <1>3, SeqOfUpTo

LEMMA CheckBeginsKeeps ==
    ASSUME FinalizerInv, CheckBegins
    PROVE  FinalizerInv'
<1>1. PICK r \in Responses, run \in LedgerRuns :
          check' = IF Structured(r)
                   THEN [stage |-> IF r.items = <<>> THEN "PASS" ELSE "ticket",
                         response |-> r, run |-> run, at |-> 1, proved |-> TRUE]
                   ELSE Refused
    BY DEF CheckBegins
<1>2. /\ openSince' = OpenTickets /\ tracker' = tracker /\ proofs' = proofs
      /\ OpenTickets' = OpenTickets
    BY DEF CheckBegins, OpenTickets
<1>3. CASE ~Structured(r)
  <2>1. check' = Refused  BY <1>1, <1>3
  <2>2. QED
      BY <1>2, <2>1 DEF FinalizerInv, FinalizerTypeOK, Checked, Refused, OpenTickets
<1>4. CASE Structured(r)
  <2> DEFINE st == IF r.items = <<>> THEN "PASS" ELSE "ticket"
  <2>1. check' = [stage |-> st, response |-> r, run |-> run, at |-> 1, proved |-> TRUE]
      BY <1>1, <1>4
  <2>2. /\ st \in {"PASS", "ticket"} /\ Len(r.items) \in Nat
        /\ st = "PASS" => 1 > Len(r.items)
        /\ st = "ticket" => 1 <= Len(r.items)
    <3>1. PICK k \in 0 .. 2 : r.items \in [1 .. k -> Items]  BY DEF Responses, UpTo
    <3>2. r.items \in Seq(Items) /\ Len(r.items) = k  BY <3>1, SeqDef
    <3>3. r.items = <<>> <=> Len(r.items) = 0  BY <3>2, EmptySeq
    <3>4. QED  BY <3>2, <3>3
  <2> HIDE DEF st
  <2>3. FinalizerTypeOK'
      BY <1>2, <2>1, <2>2 DEF FinalizerInv, FinalizerTypeOK, OpenTickets
  <2>4. \A i \in DOMAIN r.items : ~(i < 1)
      BY SeqOfUpTo DEF Responses
  <2>5. QED
      BY <1>2, <1>4, <2>1, <2>2, <2>3, <2>4 DEF FinalizerInv, Checked, NoCheck
<1>5. QED  BY <1>3, <1>4

(* The check of one item ends, proved or not. *)
LEMMA AdvanceKeeps ==
    ASSUME FinalizerInv, check.stage \in {"ticket", "mutation"}, NEW b \in BOOLEAN, Advance(b),
           UNCHANGED <<tracker, proofs, openSince>>, check.proved /\ b => ItemProved(check.at)
    PROVE  FinalizerInv'
<1>1. Checked /\ check.at <= Len(check.response.items)  BY DEF FinalizerInv, Checked
<1>2. /\ check \in Checks /\ check # NoCheck /\ Len(check.response.items) \in 0 .. 2
      /\ DOMAIN check.response.items = 1 .. Len(check.response.items)
    BY <1>1, CheckedRecord
<1> DEFINE next == check.at + 1
           n == Len(check.response.items)
           p == check.proved /\ b
           st == IF ~(next > n) THEN "ticket" ELSE IF p THEN "PASS" ELSE "FAIL"
<1>3. check' = [check EXCEPT !.at = next, !.proved = p, !.stage = st]
    BY DEF Advance
<1>4. /\ next \in 1 .. 3 /\ p \in BOOLEAN /\ st \in {"ticket", "PASS", "FAIL"}
      /\ st = "ticket" => next <= n
      /\ st = "PASS" => p /\ next > n
  <2>1. check.at \in 1 .. 3 /\ n \in 0 .. 2 /\ check.at <= n  BY <1>1, <1>2 DEF Checks
  <2>2. next \in 1 .. 3 /\ (next <= n \/ next > n) /\ ~(next <= n /\ next > n)
    <3>1. \A a \in 1 .. 3, k \in 0 .. 2 : a <= k =>
              a + 1 \in 1 .. 3 /\ (a + 1 <= k \/ a + 1 > k) /\ ~(a + 1 <= k /\ a + 1 > k)
        OBVIOUS
    <3>2. QED  BY <2>1, <3>1
  <2>3. p \in BOOLEAN  OBVIOUS
  <2> HIDE DEF p, next, n
  <2>4. CASE next > n  BY <2>2, <2>3, <2>4
  <2>5. CASE next <= n  BY <2>2, <2>3, <2>5
  <2>6. QED  BY <2>2, <2>4, <2>5
<1>5. p => check.proved /\ ItemProved(check.at)  OBVIOUS
<1> HIDE DEF p, st
<1>6. /\ check' \in Checks /\ check'.response = check.response /\ check'.run = check.run
      /\ check'.at = next /\ check'.proved = p /\ check'.stage = st
    BY <1>2, <1>3, <1>4 DEF Checks
<1>7. \A i : ItemProved(i) => ItemProved(i)'
    BY <1>6 DEF ItemProved
<1>8. Structured(check'.response)  BY <1>1, <1>6 DEF FinalizerInv
<1>9. ASSUME p, NEW i \in DOMAIN check'.response.items, i < next PROVE ItemProved(i)'
  <2>1. i < check.at \/ i = check.at  BY <1>2, <1>6, <1>9 DEF Checks
  <2>2. ItemProved(i)  BY <1>1, <1>5, <1>6, <1>9, <2>1 DEF FinalizerInv
  <2>3. QED  BY <1>7, <2>2
<1>10. FinalizerTypeOK'
    BY <1>6 DEF FinalizerInv, FinalizerTypeOK, Checks
<1>11. OpenTickets' \subseteq openSince'
    BY <1>2 DEF FinalizerInv, OpenTickets
<1>12. QED
    BY <1>4, <1>6, <1>8, <1>9, <1>10, <1>11 DEF FinalizerInv, Checked

LEMMA SkipMonitoredKeeps ==
    ASSUME FinalizerInv, SkipMonitored
    PROVE  FinalizerInv'
<1>1. check.response.items[check.at].identity = Monitoring
    BY DEF SkipMonitored, Identity
<1>2. Monitoring.disposition # "MUTATED"  BY DEF Monitoring
<1>3. ItemProved(check.at)  BY <1>1, <1>2 DEF ItemProved
<1>4. QED  BY <1>3, AdvanceKeeps DEF SkipMonitored

LEMMA CurrentIdentity ==
    ASSUME FinalizerInv, check.stage \in {"ticket", "mutation"}, Identity # Monitoring
    PROVE  /\ Identity.ticket \in LedgerTickets /\ Identity.disposition \in {"TRACKED", "MUTATED"}
           /\ check.at \in DOMAIN check.response.items
<1>1. Checked  BY DEF Checked
<1>2. /\ check \in Checks /\ check.at <= Len(check.response.items)
      /\ Len(check.response.items) \in 0 .. 2
      /\ DOMAIN check.response.items = 1 .. Len(check.response.items)
      /\ \A i \in DOMAIN check.response.items : check.response.items[i] \in Items
    BY <1>1, CheckedRecord DEF FinalizerInv
<1>3. check.at \in DOMAIN check.response.items  BY <1>2 DEF Checks
<1>4. Identity \in Identities  BY <1>2, <1>3 DEF Identity, Items
<1>5. QED  BY <1>3, <1>4 DEF Identities

LEMMA ReadTicketKeeps ==
    ASSUME FinalizerInv, ReadTicket
    PROVE  FinalizerInv'
<1> DEFINE b == tracker[Identity.ticket] = "open"
<1>1. /\ check.stage = "ticket" /\ Identity # Monitoring /\ Checked
      /\ UNCHANGED <<tracker, proofs, openSince>>
    BY DEF ReadTicket, Checked
<1>2. Identity.ticket \in LedgerTickets /\ Identity.disposition \in {"TRACKED", "MUTATED"}
    BY <1>1, CurrentIdentity
<1>3. check # NoCheck /\ check \in Checks  BY <1>1, CheckedRecord
<1>4. b => Identity.ticket \in openSince
    BY <1>2, <1>3 DEF FinalizerInv, OpenTickets
<1>5. CASE Identity.disposition = "TRACKED" /\ Advance(b)
  <2>1. b => ItemProved(check.at)
      BY <1>4, <1>5 DEF ItemProved, Identity
  <2>2. b \in BOOLEAN  OBVIOUS
  <2> HIDE DEF b
  <2>3. QED  BY <1>1, <1>5, <2>1, <2>2, AdvanceKeeps
<1>6. CASE Identity.disposition = "MUTATED"
           /\ check' = [check EXCEPT !.stage = "mutation", !.proved = @ /\ b]
  <2> DEFINE p == check.proved /\ b
  <2>1. p \in BOOLEAN /\ (p => check.proved /\ Identity.ticket \in openSince)  BY <1>4
  <2>2. check' = [check EXCEPT !.stage = "mutation", !.proved = p]  BY <1>6
  <2> HIDE DEF p
  <2>3. /\ check' \in Checks /\ check'.response = check.response /\ check'.run = check.run
        /\ check'.at = check.at /\ check'.proved = p /\ check'.stage = "mutation"
      BY <1>3, <2>1, <2>2 DEF Checks
  <2>4. FinalizerTypeOK'
      BY <1>1, <2>3 DEF FinalizerInv, FinalizerTypeOK, Checks
  <2>5. Identity' = Identity  BY <2>3 DEF Identity
  <2>6. \A i : ItemProved(i) => ItemProved(i)'
      BY <1>1, <2>3 DEF ItemProved
  <2>7. OpenTickets' \subseteq openSince'
      BY <1>1, <1>3 DEF FinalizerInv, OpenTickets
  <2>8. QED
      BY <1>1, <2>1, <2>3, <2>4, <2>5, <2>6, <2>7 DEF FinalizerInv, Checked
<1>7. QED  BY <1>5, <1>6 DEF ReadTicket

LEMMA ReadMutationsKeeps ==
    ASSUME FinalizerInv, ReadMutations
    PROVE  FinalizerInv'
<1>1. check.stage = "mutation"  BY DEF ReadMutations
<1>2. Identity # Monitoring /\ (check.proved => Identity.ticket \in openSince)
    BY <1>1 DEF FinalizerInv
<1>3. CASE Advance(FALSE)
    BY <1>1, <1>3, AdvanceKeeps DEF ReadMutations
<1>4. CASE Advance(MutationProved)
  <2> DEFINE b == MutationProved
  <2>1. check.proved /\ b => ItemProved(check.at)
      BY <1>2 DEF ItemProved, Identity, MutationProved
  <2>2. b \in BOOLEAN  BY DEF MutationProved
  <2> HIDE DEF b
  <2>3. Advance(b)  BY <1>4 DEF b
  <2>4. QED  BY <1>1, <2>1, <2>2, <2>3, AdvanceKeeps DEF ReadMutations
<1>5. QED  BY <1>3, <1>4 DEF ReadMutations

(* The tracker and the log change, and what was proved stays so. *)
LEMMA OutsideKeeps ==
    ASSUME FinalizerInv, check' = check, FinalizerTypeOK', proofs \subseteq proofs',
           openSince \subseteq openSince', OpenTickets' \subseteq OpenTickets \cup openSince'
    PROVE  FinalizerInv'
<1>1. \A i : ItemProved(i) => ItemProved(i)'  BY DEF ItemProved
<1>2. Identity' = Identity  BY DEF Identity
<1>3. check # NoCheck => OpenTickets' \subseteq openSince'  BY DEF FinalizerInv
<1>4. QED  BY <1>1, <1>2, <1>3 DEF FinalizerInv, Checked

LEMMA FinalizerStep ==
    ASSUME FinalizerInv, [FinalizerNext]_finalizerVars
    PROVE  FinalizerInv'
<1>1. CASE CheckBegins  BY <1>1, CheckBeginsKeeps
<1>2. CASE SkipMonitored  BY <1>2, SkipMonitoredKeeps
<1>3. CASE ReadTicket  BY <1>3, ReadTicketKeeps
<1>4. CASE TrackerUnreadable  BY <1>4, AdvanceKeeps DEF TrackerUnreadable
<1>5. CASE ReadMutations  BY <1>5, ReadMutationsKeeps
<1>6. CASE RecordMutationProof
  <2>1. FinalizerTypeOK' /\ proofs \subseteq proofs' /\ check' = check
      BY <1>6 DEF RecordMutationProof, FinalizerInv, FinalizerTypeOK
  <2>2. openSince' = openSince /\ OpenTickets' = OpenTickets
      BY <1>6 DEF RecordMutationProof, OpenTickets
  <2>3. QED  BY <2>1, <2>2, OutsideKeeps
<1>7. CASE TrackerChanges
  <2>1. FinalizerTypeOK' /\ check' = check /\ proofs' = proofs
      BY <1>7 DEF TrackerChanges, FinalizerInv, FinalizerTypeOK
  <2>2. openSince \subseteq openSince' /\ OpenTickets' \subseteq openSince'
      BY <1>7 DEF TrackerChanges, OpenTickets
  <2>3. QED  BY <2>1, <2>2, OutsideKeeps
<1>8. CASE UNCHANGED finalizerVars
  <2>1. UNCHANGED <<tracker, proofs, check, openSince>>  BY <1>8 DEF finalizerVars
  <2>2. FinalizerTypeOK' /\ OpenTickets' = OpenTickets
      BY <2>1 DEF FinalizerInv, FinalizerTypeOK, OpenTickets
  <2>3. QED  BY <2>1, <2>2, OutsideKeeps
<1>9. QED
    BY <1>1, <1>2, <1>3, <1>4, <1>5, <1>6, <1>7, <1>8 DEF FinalizerNext

LEMMA FinalizerAlways == FinalizerSpec => []FinalizerInv
BY FinalizerInitially, FinalizerStep, PTL DEF FinalizerSpec

LEMMA PassFollows ==
    ASSUME FinalizerInv
    PROVE  PassIsProved
<1> SUFFICES ASSUME check.stage = "PASS" PROVE PassIsProved  BY DEF PassIsProved
<1>1. Checked  BY DEF Checked
<1>2. /\ check \in Checks /\ Len(check.response.items) \in 0 .. 2
      /\ DOMAIN check.response.items = 1 .. Len(check.response.items)
    BY <1>1, CheckedRecord
<1>3. Structured(check.response) /\ check.proved /\ check.at > Len(check.response.items)
    BY <1>1 DEF FinalizerInv
<1>4. ASSUME NEW i \in DOMAIN check.response.items PROVE ItemProved(i)
  <2>1. i < check.at  BY <1>2, <1>3 DEF Checks
  <2>2. QED  BY <1>1, <1>3, <2>1 DEF FinalizerInv
<1>5. check.response \in Responses  BY <1>2 DEF Checks
<1>6. \E f \in [DOMAIN check.response.prose -> DOMAIN check.response.items] :
          \A m, n \in DOMAIN check.response.prose :
             /\ check.response.items[f[n]].identity = check.response.prose[n]
             /\ f[m] = f[n] => m = n
    BY <1>3, <1>5, CoveredMatches DEF Structured
<1>7. QED  BY <1>3, <1>4, <1>6 DEF PassIsProved, ItemProved, Structured

(* For any ledger, any announcements and any changes of the tracker during a check, a
   response that passed is accounted for item by item, its tickets were open at some
   moment of the check, and what it says was done has a successful record of that run
   (finalizer.ts, finalizeContinuationLedgerLive; mutation-proof.ts); and the state has
   its type. *)
THEOREM FinalizerCorrect == FinalizerSpec => [](FinalizerTypeOK /\ PassIsProved)
<1>1. FinalizerInv => FinalizerTypeOK  BY DEF FinalizerInv
<1>2. QED  BY <1>1, FinalizerAlways, PassFollows, PTL

-----------------------------------------------------------------------------
(* CostPolicy. A pure evaluation: what it passes is what the reference definition
   passes, whose counts are bounded by the smallest counterexample instead of an
   induction. *)
(* What a trace is made of. *)
TraceParts(t) ==
    /\ t.stages \in [1 .. 5 -> Outcomes]
    /\ t.roster \in Rosters
    /\ t.twice \in BOOLEAN
    /\ \E n \in Nat : t.calls \in [1 .. n -> Calls]

LEMMA TracesAre == ASSUME NEW t \in Traces PROVE TraceParts(t)
<1>1. CASE t \in [stages : [1 .. 5 -> Outcomes],
                  roster : {[m \in PolicyModels |-> [rank |-> 0, capable |-> TRUE]]},
                  twice : BOOLEAN, calls : {<<>>, <<PlainCall(1)>>}]
  <2>1. PlainCall(1) \in Calls  BY PolicyAssumption DEF PlainCall, Calls
  <2>2. <<>> \in [1 .. 0 -> Calls] /\ <<PlainCall(1)>> \in [1 .. 1 -> Calls]  BY <2>1
  <2>3. [m \in PolicyModels |-> [rank |-> 0, capable |-> TRUE]] \in Rosters  BY DEF Rosters
  <2>4. t.calls \in {<<>>, <<PlainCall(1)>>}  BY <1>1
  <2>5. \E n \in Nat : t.calls \in [1 .. n -> Calls]  BY <2>2, <2>4
  <2>6. QED  BY <1>1, <2>3, <2>5 DEF TraceParts
<1>2. CASE t \in [stages : {Ladder(5)}, roster : Rosters, twice : {FALSE},
                  calls : UNION {[1 .. n -> Calls] : n \in 0 .. MaxCalls}]
  <2>1. Ladder(5) \in [1 .. 5 -> Outcomes]  BY DEF Ladder, Outcomes
  <2>2. \E n \in Nat : t.calls \in [1 .. n -> Calls]  BY <1>2, PolicyAssumption
  <2>3. QED  BY <1>2, <2>1, <2>2 DEF TraceParts
<1>3. QED  BY <1>1, <1>2 DEF Traces

(* The first stage that sufficed. *)
LEMMA SufficientIndexIs ==
    ASSUME NEW t, TraceParts(t)
    PROVE  \/ SufficientIndex(t) = 6 /\ \A j \in 1 .. 5 : t.stages[j] # "sufficient"
           \/ /\ SufficientIndex(t) \in 1 .. 5 /\ t.stages[SufficientIndex(t)] = "sufficient"
              /\ \A j \in 1 .. 5 : j < SufficientIndex(t) => t.stages[j] # "sufficient"
<1> DEFINE found == {i \in 1 .. 5 : t.stages[i] = "sufficient"}
<1>1. CASE found = {}
  <2>1. SufficientIndex(t) = 6  BY <1>1 DEF SufficientIndex
  <2>2. QED  BY <1>1, <2>1
<1>2. CASE found # {}
  <2>1. found \in SUBSET Nat  OBVIOUS
  <2>2. \E i \in found : \A j \in found : i <= j  BY <1>2, <2>1, Smallest
  <2>3. SufficientIndex(t) = CHOOSE i \in found : \A j \in found : i <= j
      BY <1>2 DEF SufficientIndex
  <2>4. SufficientIndex(t) \in found /\ \A j \in found : SufficientIndex(t) <= j
      BY <2>2, <2>3
  <2>5. QED  BY <2>4
<1>3. QED  BY <1>1, <1>2

LEMMA StagesOfLadder ==
    ASSUME NEW t, TraceParts(t), NEW n \in 1 .. 5, t.stages = Ladder(n)
    PROVE  SufficientIndex(t) = n
<1>1. \A j \in 1 .. 5 : t.stages[j] = "sufficient" <=> j = n  BY DEF Ladder
<1>2. QED  BY <1>1, SufficientIndexIs

(* A trace accounts for its stages exactly when they are a ladder. *)
LEMMA StagesAccounted ==
    ASSUME NEW t, TraceParts(t)
    PROVE  StageReasons(t) = {} <=> \E n \in 1 .. 5 : t.stages = Ladder(n)
<1> DEFINE first == SufficientIndex(t)
           A == {j \in 1 .. 5 : t.stages[j] = "unreasoned"}
           B == {j \in 1 .. 5 : j < first /\ t.stages[j] = "unevidenced"}
           C == {j \in 1 .. 5 : t.stages[j] = "invalid" \/ (j > first /\ t.stages[j] # "skipped")}
           D == {j \in 1 .. 5 : j < first /\ first < 6 /\ t.stages[j] = "skipped"}
           E == {j \in {6} : first = j}
<1>1. StageReasons(t) = {} <=> A = {} /\ B = {} /\ C = {} /\ D = {} /\ E = {}
  <2>1. StageReasons(t) = {<<"POLICY_STAGE_REASON_MISSING", i>> : i \in A}
            \cup {<<"POLICY_STAGE_EVIDENCE_MISSING", i>> : i \in B}
            \cup {<<"POLICY_STAGE_INVALID", i>> : i \in C}
            \cup {<<"POLICY_STAGE_SKIPPED", i>> : i \in D}
            \cup {<<"POLICY_NO_SUFFICIENT_STAGE", i>> : i \in E}
      BY DEF StageReasons
  <2> HIDE DEF A, B, C, D, E
  <2>2. /\ {<<"POLICY_STAGE_REASON_MISSING", i>> : i \in A} = {} <=> A = {}
        /\ {<<"POLICY_STAGE_EVIDENCE_MISSING", i>> : i \in B} = {} <=> B = {}
        /\ {<<"POLICY_STAGE_INVALID", i>> : i \in C} = {} <=> C = {}
        /\ {<<"POLICY_STAGE_SKIPPED", i>> : i \in D} = {} <=> D = {}
        /\ {<<"POLICY_NO_SUFFICIENT_STAGE", i>> : i \in E} = {} <=> E = {}
      OBVIOUS
  <2>3. QED  BY <2>1, <2>2, Zenon
<1>2. first = 6 \/ first \in 1 .. 5  BY SufficientIndexIs
<1>3. ASSUME A = {}, B = {}, C = {}, D = {}, E = {}
      PROVE  \E n \in 1 .. 5 : t.stages = Ladder(n)
  <2>1. first \in 1 .. 5  BY <1>2, <1>3
  <2>2. t.stages[first] = "sufficient" /\ \A j \in 1 .. 5 : j < first => t.stages[j] # "sufficient"
      BY <2>1, SufficientIndexIs
  <2>3. ASSUME NEW j \in 1 .. 5  PROVE t.stages[j] = Ladder(first)[j]
    <3>1. t.stages[j] \in Outcomes  BY DEF TraceParts
    <3>2. CASE j < first  BY <1>3, <2>1, <2>2, <3>1, <3>2 DEF Outcomes, Ladder
    <3>3. CASE j = first  BY <2>2, <3>3 DEF Ladder
    <3>4. CASE j > first  BY <1>3, <2>1, <3>4 DEF Ladder
    <3>5. QED  BY <2>1, <3>2, <3>3, <3>4
  <2>4. t.stages = Ladder(first)  BY <2>3 DEF TraceParts, Ladder
  <2>5. QED  BY <2>1, <2>4
<1>4. ASSUME NEW n \in 1 .. 5, t.stages = Ladder(n)
      PROVE  A = {} /\ B = {} /\ C = {} /\ D = {} /\ E = {}
  <2>1. first = n  BY <1>4, StagesOfLadder
  <2>2. \A j \in 1 .. 5 :
           t.stages[j] = IF j < n THEN "attempted" ELSE IF j = n THEN "sufficient" ELSE "skipped"
      BY <1>4 DEF Ladder
  <2> HIDE DEF first
  <2>3. QED  BY <2>1, <2>2
<1>5. QED  BY <1>1, <1>3, <1>4

(* A ladder asks for model calls exactly when it ends at the model. *)
LEMMA LadderAccounted ==
    ASSUME NEW t, TraceParts(t), NEW n \in 1 .. 5, t.stages = Ladder(n)
    PROVE  LadderReasons(t) = {} <=> ((n = 5 <=> t.calls # <<>>) /\ ~t.twice)
<1> DEFINE first == SufficientIndex(t)
           P == {j \in 1 .. 4 : first = j /\ t.calls # <<>>}
           M == {j \in {5} : t.stages[j] = "sufficient" /\ t.calls = <<>>}
           W == {j \in {0} : t.twice}
<1>1. LadderReasons(t) = {} <=> P = {} /\ M = {} /\ W = {}
  <2>1. LadderReasons(t) = {<<"PRE_MODEL_STAGE_MODEL_CALL", i>> : i \in P}
            \cup {<<"MODEL_STAGE_WITHOUT_CALL", i>> : i \in M}
            \cup {<<"MODEL_ROSTER_INVALID", i>> : i \in W}
      BY DEF LadderReasons
  <2> HIDE DEF P, M, W
  <2>2. /\ {<<"PRE_MODEL_STAGE_MODEL_CALL", i>> : i \in P} = {} <=> P = {}
        /\ {<<"MODEL_STAGE_WITHOUT_CALL", i>> : i \in M} = {} <=> M = {}
        /\ {<<"MODEL_ROSTER_INVALID", i>> : i \in W} = {} <=> W = {}
      OBVIOUS
  <2>3. QED  BY <2>1, <2>2, Zenon
<1>2. first = n  BY StagesOfLadder
<1>3. t.stages[5] = "sufficient" <=> n = 5  BY DEF Ladder
<1> HIDE DEF first
<1>4. P = {} <=> ~(n # 5 /\ t.calls # <<>>)  BY <1>2
<1>5. M = {} <=> ~(n = 5 /\ t.calls = <<>>)  BY <1>3
<1>6. W = {} <=> ~t.twice  OBVIOUS
<1> HIDE DEF P, M, W
<1>7. QED  BY <1>1, <1>4, <1>5, <1>6

(* The lowest rank of some models is that of one of them. *)
LEMMA LowestRankIs ==
    ASSUME NEW t, TraceParts(t), NEW S \in SUBSET PolicyModels, S # {}
    PROVE  /\ LowestRank(t, S) \in 0 .. 1
           /\ \E m \in S : t.roster[m].rank = LowestRank(t, S)
           /\ \A m \in S : LowestRank(t, S) <= t.roster[m].rank
<1>1. \A m \in S : t.roster[m].rank \in 0 .. 1  BY DEF TraceParts, Rosters
<1>2. \E r \in 0 .. 1 : /\ \E m \in S : t.roster[m].rank = r
                        /\ \A m \in S : r <= t.roster[m].rank
  <2>1. CASE \E m \in S : t.roster[m].rank = 0  BY <1>1, <2>1
  <2>2. CASE \A m \in S : t.roster[m].rank # 0
    <3>1. \A m \in S : t.roster[m].rank = 1  BY <1>1, <2>2
    <3>2. QED  BY <3>1
  <2>3. QED  BY <2>1, <2>2
<1>3. QED  BY <1>2 DEF LowestRank

(* Whether a call was of the model to choose. *)
Chosen(t, call) ==
    /\ call.model # 0
    /\ t.roster[call.model].capable
    /\ \A m \in PolicyModels :
          /\ t.roster[m].rank < t.roster[call.model].rank => call.escalated
          /\ t.roster[m].rank = t.roster[call.model].rank /\ t.roster[m].capable
                => m >= call.model

LEMMA ChoiceAccounted ==
    ASSUME NEW t, TraceParts(t), NEW call \in Calls
    PROVE  ChoiceReasons(t, call) = {} <=> Chosen(t, call)
<1>1. call.model \in PolicyModels \cup {0} /\ call.escalated \in BOOLEAN  BY DEF Calls
<1>2. CASE call.model = 0  BY <1>2 DEF ChoiceReasons, Chosen
<1>3. CASE call.model # 0 /\ call.model \notin Capable(t)
    BY <1>1, <1>3 DEF ChoiceReasons, Chosen, Capable
<1>4. CASE call.model # 0 /\ call.model \in Capable(t)
  <2>1. call.model \in PolicyModels /\ Capable(t) \in SUBSET PolicyModels /\ Capable(t) # {}
        /\ PolicyModels \in SUBSET PolicyModels /\ PolicyModels # {}
      BY <1>4 DEF Capable
  <2> DEFINE k == t.roster[call.model].rank
             u == LowestRank(t, Capable(t))
             v == LowestRank(t, PolicyModels)
             X == {r \in {"MODEL_NOT_CHEAPEST_CAPABLE"} : k > u /\ ~call.escalated}
             Y == {r \in {"MODEL_ESCALATION_REASON_MISSING"} : k > v /\ ~call.escalated}
             Z == {r \in {"MODEL_TIE_BREAK_MISMATCH"} :
                     \E m \in Capable(t) : t.roster[m].rank = k /\ m < call.model}
  <2>2. ChoiceReasons(t, call) = X \cup Y \cup Z  BY <1>4 DEF ChoiceReasons
  <2>3. \A m \in PolicyModels : t.roster[m].rank \in 0 .. 1 /\ m \in Nat
      BY PolicyAssumption DEF TraceParts, Rosters
  <2>4. /\ u \in 0 .. 1 /\ v \in 0 .. 1 /\ k \in 0 .. 1
        /\ \A m \in PolicyModels : v <= t.roster[m].rank
        /\ \E m \in PolicyModels : v = t.roster[m].rank
        /\ \E m \in PolicyModels : u = t.roster[m].rank
      BY <2>1, <2>3, LowestRankIs
  <2>5. X = {} <=> ~(k > u /\ ~call.escalated)  OBVIOUS
  <2>6. Y = {} <=> ~(k > v /\ ~call.escalated)  OBVIOUS
  <2>7. Z = {} <=> ~\E m \in Capable(t) : t.roster[m].rank = k /\ m < call.model  OBVIOUS
  <2>8. ChoiceReasons(t, call) = {} <=> X = {} /\ Y = {} /\ Z = {}  BY <2>2
  <2> HIDE DEF X, Y, Z, u, v
  <2>9. Y = {} => X = {}  BY <2>4, <2>5, <2>6
  <2>10. Y = {} <=> \A m \in PolicyModels : t.roster[m].rank < k => call.escalated
      BY <1>1, <2>3, <2>4, <2>6
  <2>11. Z = {} <=> \A m \in PolicyModels :
                       t.roster[m].rank = k /\ t.roster[m].capable => m >= call.model
      BY <2>1, <2>3, <2>7 DEF Capable
  <2>12. t.roster[call.model].capable  BY <1>4 DEF Capable
  <2>13. Chosen(t, call) <=> Y = {} /\ Z = {}
      BY <1>4, <2>10, <2>11, <2>12 DEF Chosen
  <2>14. QED  BY <2>8, <2>9, <2>13
<1>5. QED  BY <1>2, <1>3, <1>4

(* More than one is two that differ. *)
LEMMA MoreThanOne ==
    ASSUME NEW S, IsFiniteSet(S)
    PROVE  Cardinality(S) > 1 <=> \E i, j \in S : i # j
<1>1. Cardinality(S) \in Nat  BY FS_CardinalityType
<1>2. ASSUME \A i, j \in S : i = j  PROVE Cardinality(S) <= 1
  <2>1. CASE S = {}  BY <2>1, FS_EmptySet
  <2>2. CASE S # {}
    <3>1. PICK i \in S : S = {i}  BY <1>2, <2>2
    <3>2. QED  BY <3>1, FS_Singleton
  <2>3. QED  BY <2>1, <2>2
<1>3. ASSUME NEW i \in S, NEW j \in S, i # j  PROVE Cardinality(S) > 1
  <2>1. IsFiniteSet({i}) /\ Cardinality({i}) = 1  BY FS_Singleton
  <2>2. /\ IsFiniteSet({i} \cup {j})
        /\ Cardinality({i} \cup {j}) = IF j \in {i} THEN Cardinality({i}) ELSE Cardinality({i}) + 1
      BY <2>1, FS_AddElement, Zenon
  <2>6. j \notin {i}  BY <1>3
  <2>7. Cardinality({i} \cup {j}) = 2  BY <2>1, <2>2, <2>6
  <2>3. {i} \cup {j} \subseteq S  OBVIOUS
  <2>4. Cardinality({i} \cup {j}) <= Cardinality(S)  BY <2>3, FS_Subset
  <2>5. QED  BY <1>1, <2>7, <2>4
<1>4. QED  BY <1>1, <1>2, <1>3

(* The calls of a trace are accounted for one by one, but for the corrections. *)
LEMMA CallsAccounted ==
    ASSUME NEW t, TraceParts(t)
    PROVE  CallReasons(t) = {} <=>
             /\ \A i \in DOMAIN t.calls :
                   /\ Chosen(t, t.calls[i])
                   /\ t.calls[i].role # "judge" /\ ~t.calls[i].recursive /\ t.calls[i].agrees
             /\ \A i, j \in DOMAIN t.calls :
                   t.calls[i].role = "correction" /\ t.calls[j].role = "correction" => i = j
<1> DEFINE R(i) == ChoiceReasons(t, t.calls[i])
              \cup {s \in {"AUXILIARY_JUDGE_FORBIDDEN"} : t.calls[i].role = "judge"}
              \cup {s \in {"RECURSIVE_AGENT_FORBIDDEN"} : t.calls[i].recursive}
              \cup {s \in {"MODEL_REQUIREMENTS_MISMATCH"} : ~t.calls[i].agrees}
           B == {j \in {0} : Cardinality(Corrections(t)) > 1}
<1>1. PICK n \in Nat : t.calls \in [1 .. n -> Calls]  BY DEF TraceParts
<1>2. CallReasons(t) = {} <=> (\A i \in DOMAIN t.calls : R(i) = {}) /\ B = {}
  <2>1. CallReasons(t) = (UNION {{<<r, i>> : r \in R(i)} : i \in DOMAIN t.calls})
            \cup {<<"CORRECTION_BUDGET_EXCEEDED", i>> : i \in B}
      BY DEF CallReasons
  <2> HIDE DEF R, B
  <2>2. \A i \in DOMAIN t.calls : \A r \in R(i) : <<r, i>> \in CallReasons(t)  BY <2>1
  <2>3. \A i \in B : <<"CORRECTION_BUDGET_EXCEEDED", i>> \in CallReasons(t)  BY <2>1
  <2>4. \A x \in CallReasons(t) : (\E i \in DOMAIN t.calls : R(i) # {}) \/ B # {}  BY <2>1
  <2>5. QED  BY <2>2, <2>3, <2>4
<1>3. ASSUME NEW i \in DOMAIN t.calls
      PROVE  R(i) = {} <=> /\ Chosen(t, t.calls[i]) /\ t.calls[i].role # "judge"
                           /\ ~t.calls[i].recursive /\ t.calls[i].agrees
  <2>1. t.calls[i] \in Calls  BY <1>1
  <2>2. ChoiceReasons(t, t.calls[i]) = {} <=> Chosen(t, t.calls[i])  BY <2>1, ChoiceAccounted
  <2>3. R(i) = {} <=> /\ ChoiceReasons(t, t.calls[i]) = {} /\ t.calls[i].role # "judge"
                      /\ ~t.calls[i].recursive /\ t.calls[i].agrees
      OBVIOUS
  <2> HIDE DEF R
  <2>4. QED  BY <2>2, <2>3
<1>4. B = {} <=> \A i, j \in DOMAIN t.calls :
                   t.calls[i].role = "correction" /\ t.calls[j].role = "correction" => i = j
  <2>1. Corrections(t) \subseteq 1 .. n  BY <1>1 DEF Corrections
  <2>2. IsFiniteSet(1 .. n)  BY FS_Interval
  <2>3. IsFiniteSet(Corrections(t))  BY <2>1, <2>2, FS_Subset
  <2>4. B = {} <=> ~(Cardinality(Corrections(t)) > 1)  OBVIOUS
  <2>5. B = {} <=> ~\E i, j \in Corrections(t) : i # j  BY <2>3, <2>4, MoreThanOne
  <2> HIDE DEF B
  <2>6. QED  BY <2>5 DEF Corrections
<1> HIDE DEF R, B
<1>5. QED  BY <1>2, <1>3, <1>4

(* The evaluation of any trace, in the bounds of the model or not. *)
LEMMA EvaluationIs ==
    ASSUME NEW t, TraceParts(t)
    PROVE  EvaluateExecutionPolicy(t) = "PASS" <=> LeastCost(t)
<1>1. EvaluateExecutionPolicy(t) = "PASS" <=>
        StageReasons(t) = {} /\ LadderReasons(t) = {} /\ CallReasons(t) = {}
    BY DEF EvaluateExecutionPolicy
<1>2. StageReasons(t) = {} /\ LadderReasons(t) = {} <=>
        /\ \E n \in 1 .. 5 : t.stages = Ladder(n) /\ (n = 5 <=> t.calls # <<>>)
        /\ ~t.twice
    BY StagesAccounted, LadderAccounted
<1>3. \A i \in DOMAIN t.calls :
         t.calls[i].role # "judge" <=> t.calls[i].role \in {"executor", "correction"}
    BY DEF TraceParts, Calls
<1>4. QED  BY <1>1, <1>2, <1>3, CallsAccounted DEF LeastCost, Chosen

(* The evaluation of an execution policy passes a trace exactly when the trace climbed
   the ladder stage by stage, stopped at the first that sufficed and called only the
   cheapest models that could do the work, for any roster of models and any number of
   calls. (continuation/cost-policy.ts, evaluateExecutionPolicy) *)
THEOREM PolicyCostsLeast == PolicySpec => []PolicyIsLeastCost
<1>1. PolicyInit => PolicyIsLeastCost  BY DEF PolicyInit, PolicyIsLeastCost
<1>2. PolicyIsLeastCost /\ [PolicyNext]_policyVars => PolicyIsLeastCost'
  <2>1. ASSUME Evaluate PROVE PolicyIsLeastCost'
    <3>1. PICK t \in Traces : trace' = t /\ verdict' = EvaluateExecutionPolicy(t)
        BY <2>1 DEF Evaluate
    <3>2. EvaluateExecutionPolicy(t) = "PASS" <=> LeastCost(t)  BY TracesAre, EvaluationIs
    <3>3. QED  BY <3>1, <3>2 DEF PolicyIsLeastCost
  <2>2. CASE UNCHANGED policyVars  BY <2>2 DEF policyVars, PolicyIsLeastCost, LeastCost, Ladder
  <2>3. QED  BY <2>1, <2>2 DEF PolicyNext
<1>3. QED  BY <1>1, <1>2, PTL DEF PolicySpec

-----------------------------------------------------------------------------
(* PmLoop. The receipts of an invocation follow on each other (PreparedInOrder,
   HandedOffInOrder, ReviewedInOrder), and none is rewritten. *)
(* A ticket is announced before its prepare receipt is claimed. *)
PreparedInOrder(i) ==
    /\ prepares[i].state \in {"prepared", "claimed"} => prepares[i].selected \in PmTickets
    /\ prepares[i].state = "claimed" => Announcement(i) \in comments

(* What is handed off is what the worker signed that bound the claim. *)
HandedOffInOrder(i) ==
    /\ claims[i] # NoClaim => prepares[i].state = "claimed"
    /\ handoffs[i] \subseteq {claims[i]}

(* A review was checked against the handoff, and its receipt is there before
   anything is done about its findings. *)
ReviewedInOrder(i) ==
    /\ reviewing[i] # NotReviewing =>
          /\ claims[i] \in handoffs[i]
          /\ reviewing[i].report.reviewer # claims[i].worker
          /\ Consistent(i, reviewing[i].report)
          /\ reviewing[i].report.finding = "low" => PmTickets # {TicketOf(i)}
    /\ reviewing[i].stage \in {"stored", "absent", "found"} => reviews[i] # NoReview
    /\ reviews[i] # NoReview =>
          /\ claims[i] \in handoffs[i]
          /\ reviews[i].report.reviewer # claims[i].worker
          /\ Consistent(i, reviews[i].report)

PmInv ==
    /\ PmTypeOK
    /\ \A i \in PmInvocations : PreparedInOrder(i) /\ HandedOffInOrder(i) /\ ReviewedInOrder(i)

PrepareReceipts == {NoPrepare} \cup
    [state : {"prepared", "claimed", "no_selection", "blocked"},
     selected : PmTickets \cup {NoTicket}]
PmComments == [ticket : PmTickets, kind : {"prepare", "finding", "blocker"},
               of : PmInvocations, about : Statuses]
RunningReviews ==
    [stage : {"planned", "stored", "absent", "found"}, report : Reports, proof : Statuses,
     planned : Statuses]
ReviewingStates == {NotReviewing} \cup RunningReviews
PmSchedules == [of : PmInvocations, review : ReviewReceipts, natural : BOOLEAN]

LEMMA PmTypes ==
    PmTypeOK <=>
    /\ board \in [PmTickets -> [fit : Fits, status : Statuses]]
    /\ comments \subseteq PmComments
    /\ corrections \in [PmTickets -> Nat]
    /\ prepares \in [PmInvocations -> PrepareReceipts]
    /\ claims \in [PmInvocations -> {NoClaim} \cup Payloads]
    /\ handoffs \in [PmInvocations -> SUBSET Payloads]
    /\ output \in [PmInvocations -> {1, 2}]
    /\ reviews \in [PmInvocations -> {NoReview} \cup ReviewReceipts]
    /\ reviewing \in [PmInvocations -> ReviewingStates]
    /\ pmGaps \subseteq PmInvocations
    /\ schedule \subseteq PmSchedules
    /\ withdrawn \subseteq PmActors
    /\ boardChanges \in 0 .. MaxBoardChanges
BY DEF PmTypeOK, PrepareReceipts, PmComments, RunningReviews, ReviewingStates, PmSchedules

LEMMA PmTypesNext ==
    PmTypeOK' <=>
    /\ board' \in [PmTickets -> [fit : Fits, status : Statuses]]
    /\ comments' \subseteq PmComments
    /\ corrections' \in [PmTickets -> Nat]
    /\ prepares' \in [PmInvocations -> PrepareReceipts]
    /\ claims' \in [PmInvocations -> {NoClaim} \cup Payloads]
    /\ handoffs' \in [PmInvocations -> SUBSET Payloads]
    /\ output' \in [PmInvocations -> {1, 2}]
    /\ reviews' \in [PmInvocations -> {NoReview} \cup ReviewReceipts]
    /\ reviewing' \in [PmInvocations -> ReviewingStates]
    /\ pmGaps' \subseteq PmInvocations
    /\ schedule' \subseteq PmSchedules
    /\ withdrawn' \subseteq PmActors
    /\ boardChanges' \in 0 .. MaxBoardChanges
BY DEF PmTypeOK, PrepareReceipts, PmComments, RunningReviews, ReviewingStates, PmSchedules

LEMMA PmNames ==
    /\ NoPrepare.state = "none" /\ NoReview.state = "none" /\ NotReviewing.stage = "none"
    /\ \A w \in RunningReviews : w # NotReviewing
    /\ \A v \in ReviewReceipts : v # NoReview
    /\ \A p \in Payloads : p # NoClaim /\ p.outcome \in RunOutcomes
    /\ NoClaim \notin Payloads
<1>1. /\ NoPrepare.state = "none" /\ NoReview.state = "none" /\ NotReviewing.stage = "none"
      /\ NoClaim.outcome = "none"
    BY DEF NoPrepare, NoReview, NotReviewing, NoClaim
<1>2. \A w \in RunningReviews : w # NotReviewing  BY <1>1 DEF RunningReviews
<1>3. \A v \in ReviewReceipts : v # NoReview  BY <1>1 DEF ReviewReceipts
<1>4. \A p \in Payloads : p # NoClaim /\ p.outcome \in RunOutcomes
    BY <1>1 DEF Payloads, RunOutcomes
<1>5. QED  BY <1>1, <1>2, <1>3, <1>4

LEMMA MinIsIn == ASSUME NEW S \in SUBSET Nat, S # {} PROVE Min(S) \in S
BY Smallest DEF Min

LEMMA PmInitially == PmInit => PmInv
<1> SUFFICES ASSUME PmInit PROVE PmInv  OBVIOUS
<1>1. PmTypeOK
  <2>1. board \in [PmTickets -> [fit : Fits, status : Statuses]]  BY DEF PmInit, Statuses
  <2>2. boardChanges \in 0 .. MaxBoardChanges  BY PmAssumption DEF PmInit
  <2>3. QED  BY <2>1, <2>2 DEF PmInit, PmTypeOK
<1>2. ASSUME NEW i \in PmInvocations
      PROVE  PreparedInOrder(i) /\ HandedOffInOrder(i) /\ ReviewedInOrder(i)
    BY PmNames DEF PmInit, PreparedInOrder, HandedOffInOrder, ReviewedInOrder
<1>3. QED  BY <1>1, <1>2 DEF PmInv

(* What is said of an invocation depends only on its own receipts, and survives
   the comments added. *)
LEMMA PmUntouched ==
    ASSUME PmInv, NEW i \in PmInvocations, comments \subseteq comments',
           prepares'[i] = prepares[i], claims'[i] = claims[i], handoffs'[i] = handoffs[i],
           reviews'[i] = reviews[i], reviewing'[i] = reviewing[i]
    PROVE  PreparedInOrder(i)' /\ HandedOffInOrder(i)' /\ ReviewedInOrder(i)'
<1>1. PreparedInOrder(i)'  BY DEF PmInv, PreparedInOrder, Announcement, Comment
<1>2. HandedOffInOrder(i)'  BY DEF PmInv, HandedOffInOrder
<1>3. ReviewedInOrder(i)'
    BY DEF PmInv, ReviewedInOrder, Consistent, VerdictEarned, TicketOf
<1>4. QED  BY <1>1, <1>2, <1>3

(* A step of one invocation. *)
LEMMA PmOthers ==
    ASSUME PmInv, NEW i \in PmInvocations, PmTypeOK', comments \subseteq comments',
           \A j \in PmInvocations : j # i =>
              /\ prepares'[j] = prepares[j] /\ claims'[j] = claims[j] /\ handoffs'[j] = handoffs[j]
              /\ reviews'[j] = reviews[j] /\ reviewing'[j] = reviewing[j],
           PreparedInOrder(i)' /\ HandedOffInOrder(i)' /\ ReviewedInOrder(i)'
    PROVE  PmInv'
<1>1. ASSUME NEW j \in PmInvocations
      PROVE  PreparedInOrder(j)' /\ HandedOffInOrder(j)' /\ ReviewedInOrder(j)'
    BY PmUntouched
<1>2. QED  BY <1>1 DEF PmInv

LEMMA PrepareKeeps == ASSUME PmInv, NEW i \in PmInvocations, Prepare(i) PROVE PmInv'
<1>1. Eligible \subseteq PmTickets  BY DEF Eligible
<1>2. Eligible # {} => Min(Eligible) \in PmTickets
    BY <1>1, MinIsIn, PmAssumption
<1> DEFINE d == Decision
<1>3. /\ d \in PrepareReceipts /\ d.state # "claimed"
      /\ d.state = "prepared" => d.selected \in PmTickets
    BY <1>2 DEF Decision, PrepareReceipts
<1>4. prepares' = [prepares EXCEPT ![i] = d]  BY DEF Prepare
<1> HIDE DEF d
<1>5. PmTypeOK'
    BY <1>3, <1>4, PmTypes, PmTypesNext DEF PmInv, Prepare, remoteVars, outsideVars
<1>6. prepares'[i] = d  BY <1>4, PmTypes DEF PmInv
<1>7. UNCHANGED <<claims, handoffs, reviews, reviewing, comments>> /\ prepares[i] = NoPrepare
    BY DEF Prepare, remoteVars
<1>8. claims[i] = NoClaim /\ claims[i] \notin handoffs[i]
    BY <1>7, PmTypes, PmNames DEF PmInv, HandedOffInOrder
<1>9. PreparedInOrder(i)' /\ HandedOffInOrder(i)' /\ ReviewedInOrder(i)'
    BY <1>3, <1>6, <1>7, <1>8 DEF PmInv, PreparedInOrder, HandedOffInOrder, ReviewedInOrder
<1>10. QED  BY <1>4, <1>5, <1>7, <1>9, PmTypes, PmOthers DEF PmInv

LEMMA AnnounceKeeps == ASSUME PmInv, NEW i \in PmInvocations, Announce(i) PROVE PmInv'
<1>1. prepares[i].selected \in PmTickets  BY DEF PmInv, PreparedInOrder, Announce
<1>2. Announcement(i) \in PmComments
    BY <1>1 DEF PmComments, Announcement, Comment, Statuses
<1>3. PmTypeOK'
    BY <1>2, PmTypes, PmTypesNext DEF PmInv, Announce, receiptVars, outsideVars
<1>4. comments \subseteq comments' /\ UNCHANGED <<prepares, claims, handoffs, reviews, reviewing>>
    BY DEF Announce, receiptVars
<1>5. QED  BY <1>3, <1>4, PmUntouched DEF PmInv

LEMMA ClaimKeeps == ASSUME PmInv, NEW i \in PmInvocations, Claim(i) PROVE PmInv'
<1>1. prepares[i] \in PrepareReceipts /\ prepares[i].state = "prepared"
    BY PmTypes DEF PmInv, Claim
<1> DEFINE d == [prepares[i] EXCEPT !.state = "claimed"]
<1>2. d \in PrepareReceipts /\ d.state = "claimed" /\ d.selected = prepares[i].selected
    BY <1>1, PmNames DEF PrepareReceipts
<1>3. prepares' = [prepares EXCEPT ![i] = d]  BY DEF Claim
<1> HIDE DEF d
<1>4. PmTypeOK'
    BY <1>2, <1>3, PmTypes, PmTypesNext DEF PmInv, Claim, remoteVars, outsideVars
<1>5. prepares'[i] = d  BY <1>3, PmTypes DEF PmInv
<1>6. UNCHANGED <<claims, handoffs, reviews, reviewing, comments>> /\ Announcement(i) \in comments
    BY DEF Claim, remoteVars
<1>7. claims[i] = NoClaim /\ claims[i] \notin handoffs[i]
    BY <1>1, PmTypes, PmNames DEF PmInv, HandedOffInOrder
<1>8. Announcement(i)' = Announcement(i)  BY <1>2, <1>5 DEF Announcement
<1>9. PreparedInOrder(i)' /\ HandedOffInOrder(i)' /\ ReviewedInOrder(i)'
    BY <1>1, <1>2, <1>5, <1>6, <1>7, <1>8
       DEF PmInv, PreparedInOrder, HandedOffInOrder, ReviewedInOrder
<1>10. QED  BY <1>3, <1>4, <1>6, <1>9, PmTypes, PmOthers DEF PmInv

LEMMA BindWorkerClaimKeeps ==
    ASSUME PmInv, NEW i \in PmInvocations, NEW p \in PmRuns, BindWorkerClaim(i, p)
    PROVE  PmInv'
<1>1. p \in Payloads  BY PmAssumption
<1>2. claims' = [claims EXCEPT ![i] = p] /\ claims[i] \in {NoClaim, p}
    BY DEF BindWorkerClaim, MayBind
<1>3. PmTypeOK'
    BY <1>1, <1>2, PmTypes, PmTypesNext DEF PmInv, BindWorkerClaim, remoteVars, outsideVars
<1>4. claims'[i] = p  BY <1>2, PmTypes DEF PmInv
<1>5. /\ UNCHANGED <<prepares, handoffs, reviews, reviewing, comments>>
      /\ prepares[i].state = "claimed"
    BY DEF BindWorkerClaim, remoteVars, HandingOff
<1>6. handoffs[i] \subseteq {p} /\ (handoffs[i] # {} => claims[i] = p)
    BY <1>1, <1>2, PmTypes, PmNames DEF PmInv, HandedOffInOrder
<1>7. PreparedInOrder(i)'
    BY <1>5 DEF PmInv, PreparedInOrder, Announcement
<1>8. HandedOffInOrder(i)'  BY <1>4, <1>5, <1>6 DEF HandedOffInOrder
<1>9. ReviewedInOrder(i)'
  <2>1. handoffs[i] # {} => ReviewedInOrder(i)'
      BY <1>4, <1>5, <1>6
         DEF PmInv, ReviewedInOrder, Consistent, VerdictEarned, TicketOf
  <2>2. handoffs[i] = {} => ReviewedInOrder(i)'
      BY <1>5 DEF PmInv, ReviewedInOrder
  <2>3. QED  BY <2>1, <2>2
<1>10. QED  BY <1>2, <1>3, <1>5, <1>7, <1>8, <1>9, PmTypes, PmOthers DEF PmInv

LEMMA WriteHandoffKeeps ==
    ASSUME PmInv, NEW i \in PmInvocations, NEW p \in PmRuns, WriteHandoff(i, p)
    PROVE  PmInv'
<1>1. p \in Payloads  BY PmAssumption
<1>2. handoffs' = [handoffs EXCEPT ![i] = handoffs[i] \cup {p}] /\ claims[i] = p
    BY DEF WriteHandoff
<1>3. PmTypeOK'
    BY <1>1, <1>2, PmTypes, PmTypesNext DEF PmInv, WriteHandoff, remoteVars, outsideVars
<1>4. handoffs'[i] = handoffs[i] \cup {p}  BY <1>2, PmTypes DEF PmInv
<1>5. UNCHANGED <<prepares, claims, reviews, reviewing, comments>>
    BY DEF WriteHandoff, remoteVars
<1>6. PreparedInOrder(i)'
    BY <1>5 DEF PmInv, PreparedInOrder, Announcement
<1>7. HandedOffInOrder(i)'  BY <1>2, <1>4, <1>5 DEF PmInv, HandedOffInOrder
<1>8. ReviewedInOrder(i)'
    BY <1>4, <1>5 DEF PmInv, ReviewedInOrder, Consistent, VerdictEarned, TicketOf
<1>9. QED  BY <1>2, <1>3, <1>5, <1>6, <1>7, <1>8, PmTypes, PmOthers DEF PmInv

(* A step of the review of one invocation. *)
LEMMA PmReviewSteps ==
    ASSUME PmInv, NEW i \in PmInvocations, PmTypeOK', comments \subseteq comments',
           UNCHANGED <<prepares, claims, handoffs>>,
           \A j \in PmInvocations : j # i =>
              reviews'[j] = reviews[j] /\ reviewing'[j] = reviewing[j],
           ReviewedInOrder(i)'
    PROVE  PmInv'
<1>1. PreparedInOrder(i)' /\ HandedOffInOrder(i)'
    BY DEF PmInv, PreparedInOrder, HandedOffInOrder, Announcement
<1>2. QED  BY <1>1, PmOthers

(* What a running review, or a stored one, stands on. *)
LEMMA ReviewStandsOn ==
    ASSUME PmInv, NEW i \in PmInvocations, claims[i] \in handoffs[i]
    PROVE  /\ claims[i] \in Payloads /\ prepares[i].state = "claimed"
           /\ TicketOf(i) \in PmTickets /\ Announcement(i) \in comments
<1>1. claims[i] \in Payloads  BY PmTypes DEF PmInv
<1>2. QED  BY <1>1, PmNames DEF PmInv, HandedOffInOrder, PreparedInOrder, TicketOf

LEMMA RunningIs ==
    ASSUME PmInv, NEW i \in PmInvocations,
           reviewing[i].stage \in {"planned", "stored", "absent", "found"}
    PROVE  reviewing[i] \in RunningReviews /\ reviewing[i] # NotReviewing
BY PmTypes, PmNames DEF PmInv, ReviewingStates

LEMMA FollowUpIs ==
    ASSUME PmInv, NEW i \in PmInvocations, PmTickets # {TicketOf(i)}, TicketOf(i) \in PmTickets
    PROVE  FollowUp(i) \in PmTickets
<1>1. PmTickets \ {prepares[i].selected} # {}  BY DEF TicketOf
<1>2. PmTickets \ {prepares[i].selected} \in SUBSET Nat  BY PmAssumption
<1>3. QED  BY <1>1, <1>2, MinIsIn DEF FollowUp

LEMMA TicketStatus == ASSUME PmInv, NEW t \in PmTickets PROVE board[t].status \in Statuses
BY PmTypes DEF PmInv

LEMMA PlanReviewKeeps ==
    ASSUME PmInv, NEW i \in PmInvocations, NEW r \in PmReports, PlanReview(i, r)
    PROVE  PmInv'
<1>1. r \in Reports  BY PmAssumption
<1>2. /\ claims[i] \in handoffs[i] /\ r.reviewer # claims[i].worker /\ Consistent(i, r)
      /\ r.finding = "low" => PmTickets # {TicketOf(i)}
    BY DEF PlanReview, WorkerHolds, Chained, Independent
<1>3. TicketOf(i) \in PmTickets  BY <1>2, ReviewStandsOn
<1>4. PICK proof \in Statuses, planned \in Statuses :
         reviewing' = [reviewing EXCEPT ![i] =
            [stage |-> "planned", report |-> r, proof |-> proof, planned |-> planned]]
  <2>1. board[TicketOf(i)].status \in Statuses  BY <1>3, TicketStatus
  <2>2. (IF r.finding = "low" THEN board[FollowUp(i)].status ELSE "open") \in Statuses
      BY <1>2, <1>3, FollowUpIs, TicketStatus DEF Statuses
  <2>3. QED  BY <2>1, <2>2 DEF PlanReview
<1> DEFINE w == [stage |-> "planned", report |-> r, proof |-> proof, planned |-> planned]
<1>5. w \in RunningReviews /\ w.stage = "planned" /\ w.report = r  BY <1>1 DEF RunningReviews
<1>6. reviewing' = [reviewing EXCEPT ![i] = w]  BY <1>4
<1> HIDE DEF w
<1>7. PmTypeOK'
    BY <1>5, <1>6, PmTypes, PmTypesNext
       DEF PmInv, PlanReview, remoteVars, receiptVars, outsideVars, ReviewingStates
<1>8. reviewing'[i] = w  BY <1>6, PmTypes DEF PmInv
<1>9. UNCHANGED <<prepares, claims, handoffs, reviews, comments>>
    BY DEF PlanReview, remoteVars, receiptVars
<1>10. ReviewedInOrder(i)'
    BY <1>2, <1>5, <1>8, <1>9
       DEF PmInv, ReviewedInOrder, Consistent, VerdictEarned, TicketOf
<1>11. QED  BY <1>6, <1>7, <1>9, <1>10, PmTypes, PmReviewSteps DEF PmInv

(* A running review that goes on to another stage. *)
LEMMA ReviewingMoves ==
    ASSUME PmInv, NEW i \in PmInvocations, reviewing[i] \in RunningReviews,
           NEW s \in {"planned", "stored", "absent", "found"},
           reviewing' = [reviewing EXCEPT ![i].stage = s]
    PROVE  /\ reviewing' \in [PmInvocations -> ReviewingStates]
           /\ reviewing'[i].stage = s /\ reviewing'[i].report = reviewing[i].report
           /\ \A j \in PmInvocations : j # i => reviewing'[j] = reviewing[j]
<1> DEFINE w == [reviewing[i] EXCEPT !.stage = s]
<1>1. w \in RunningReviews /\ w.stage = s /\ w.report = reviewing[i].report  BY DEF RunningReviews
<1>2. reviewing' = [reviewing EXCEPT ![i] = w]  OBVIOUS
<1> HIDE DEF w
<1>3. QED  BY <1>1, <1>2, PmTypes DEF PmInv, ReviewingStates

LEMMA StoreReviewKeeps ==
    ASSUME PmInv, NEW i \in PmInvocations, StoreReview(i)  PROVE PmInv'
<1>1. reviewing[i] \in RunningReviews /\ reviewing[i] # NotReviewing
    BY RunningIs DEF StoreReview
<1>2. PICK w \in RunningReviews : w = reviewing[i]  BY <1>1
<1> DEFINE d == [state |-> "pending_disposition", report |-> w.report, proof |-> w.proof,
                 planned |-> w.planned, disposed |-> w.planned]
<1>3. d \in ReviewReceipts /\ d.report = w.report  BY DEF ReviewReceipts, RunningReviews
<1>4. reviews' = [reviews EXCEPT ![i] = IF reviews[i] = NoReview THEN d ELSE reviews[i]]
    BY <1>2 DEF StoreReview
<1> HIDE DEF d
<1>5. /\ reviewing' \in [PmInvocations -> ReviewingStates]
      /\ reviewing'[i].stage = "stored" /\ reviewing'[i].report = reviewing[i].report
      /\ \A j \in PmInvocations : j # i => reviewing'[j] = reviewing[j]
    BY <1>1, ReviewingMoves DEF StoreReview
<1>6. UNCHANGED <<remoteVars, prepares, claims, handoffs, pmGaps, outsideVars>>
    BY DEF StoreReview
<1>7. PmTypeOK'
    BY <1>3, <1>4, <1>5, <1>6, PmTypes, PmTypesNext DEF PmInv, remoteVars, outsideVars
<1>8. reviews'[i] = IF reviews[i] = NoReview THEN d ELSE reviews[i]
    BY <1>4, PmTypes DEF PmInv
<1>9. reviews'[i] # NoReview  BY <1>3, <1>8, PmNames
<1>10. ReviewedInOrder(i)'
    BY <1>1, <1>2, <1>3, <1>5, <1>6, <1>8, <1>9
       DEF PmInv, ReviewedInOrder, Consistent, VerdictEarned, TicketOf
<1>11. QED
    BY <1>4, <1>5, <1>6, <1>7, <1>10, PmTypes, PmReviewSteps DEF PmInv, remoteVars

(* A review that goes on without a receipt being written. *)
LEMMA ReviewGoesOn ==
    ASSUME PmInv, NEW i \in PmInvocations, reviewing[i] \in RunningReviews,
           reviews[i] # NoReview, NEW s \in {"stored", "absent", "found"},
           reviewing' = [reviewing EXCEPT ![i].stage = s],
           corrections' \in [PmTickets -> Nat],
           UNCHANGED <<board, comments, receiptVars, outsideVars>>
    PROVE  PmInv'
<1>1. /\ reviewing' \in [PmInvocations -> ReviewingStates]
      /\ reviewing'[i].stage = s /\ reviewing'[i].report = reviewing[i].report
      /\ \A j \in PmInvocations : j # i => reviewing'[j] = reviewing[j]
    BY ReviewingMoves
<1>2. PmTypeOK'
    BY <1>1, PmTypes, PmTypesNext DEF PmInv, receiptVars, outsideVars
<1>3. reviewing[i] # NotReviewing  BY PmNames
<1>4. ReviewedInOrder(i)'
    BY <1>1, <1>3 DEF PmInv, ReviewedInOrder, Consistent, VerdictEarned, TicketOf, receiptVars
<1>5. QED  BY <1>1, <1>2, <1>4, PmReviewSteps DEF receiptVars

LEMMA FindCorrectionKeeps ==
    ASSUME PmInv, NEW i \in PmInvocations, FindCorrection(i)  PROVE PmInv'
<1>1. reviewing[i] \in RunningReviews /\ reviews[i] # NoReview
    BY RunningIs DEF FindCorrection, PmInv, ReviewedInOrder
<1>2. PICK s \in {"absent", "found"} : reviewing' = [reviewing EXCEPT ![i].stage = s]
    BY DEF FindCorrection
<1>3. UNCHANGED <<remoteVars, receiptVars, outsideVars>>  BY DEF FindCorrection
<1>4. QED  BY <1>1, <1>2, <1>3, PmTypes, ReviewGoesOn DEF PmInv, remoteVars

LEMMA FileCorrectionKeeps ==
    ASSUME PmInv, NEW i \in PmInvocations, FileCorrection(i)  PROVE PmInv'
<1>1. reviewing[i] \in RunningReviews /\ reviews[i] # NoReview
    BY RunningIs DEF FileCorrection, PmInv, ReviewedInOrder
<1>2. reviewing' = [reviewing EXCEPT ![i].stage = "stored"]
      /\ UNCHANGED <<board, comments, receiptVars, outsideVars>>
    BY DEF FileCorrection
<1>3. corrections' \in [PmTickets -> Nat]
  <2>1. claims[i] \in handoffs[i]  BY RunningIs DEF PmInv, ReviewedInOrder, FileCorrection
  <2>2. PICK t \in PmTickets : t = TicketOf(i)  BY <2>1, ReviewStandsOn
  <2>3. corrections' = [corrections EXCEPT ![t] = corrections[t] + 1]
      BY <2>2 DEF FileCorrection
  <2>4. QED  BY <2>3, PmTypes DEF PmInv
<1>4. QED  BY <1>1, <1>2, <1>3, ReviewGoesOn

LEMMA DisposeKeeps ==
    ASSUME PmInv, NEW i \in PmInvocations, Dispose(i)  PROVE PmInv'
<1>1. /\ reviewing[i] \in RunningReviews /\ reviewing[i] # NotReviewing /\ reviews[i] # NoReview
      /\ reviewing[i].report \in Reports
    BY RunningIs DEF Dispose, PmInv, ReviewedInOrder, RunningReviews
<1>2. /\ claims[i] \in handoffs[i]
      /\ reviewing[i].report.finding = "low" => PmTickets # {TicketOf(i)}
    BY <1>1 DEF PmInv, ReviewedInOrder
<1>3. TicketOf(i) \in PmTickets  BY <1>2, ReviewStandsOn
<1>4. PICK status \in Statuses :
         status = IF reviewing[i].report.finding = "low" THEN board[FollowUp(i)].status ELSE "open"
    BY <1>2, <1>3, FollowUpIs, TicketStatus DEF Statuses
<1>5. PICK v \in ReviewReceipts : v = reviews[i]  BY <1>1, PmTypes DEF PmInv
<1>6. PICK w \in RunningReviews : w = reviewing[i]  BY <1>1
<1> DEFINE final == [v EXCEPT !.state = "reviewed", !.disposed = status, !.planned = w.planned]
<1>7. final \in ReviewReceipts /\ final.report = v.report
    BY DEF ReviewReceipts, RunningReviews
<1>8. reviews' = [reviews EXCEPT ![i] = IF v.state = "reviewed" THEN v ELSE final]
    BY <1>4, <1>5, <1>6 DEF Dispose
<1> HIDE DEF final
<1>9. reviews'[i] \in ReviewReceipts /\ reviews'[i].report = reviews[i].report
    BY <1>5, <1>7, <1>8, PmTypes DEF PmInv
<1>10. comments \subseteq comments' /\ comments' \subseteq PmComments
  <2>1. Comment(TicketOf(i), "blocker", i, "open") \in PmComments
      BY <1>3 DEF PmComments, Comment, Statuses
  <2>2. Comment(TicketOf(i), "finding", i, status) \in PmComments
      BY <1>3 DEF PmComments, Comment, Statuses
  <2>3. QED  BY <1>4, <2>1, <2>2, PmTypes DEF Dispose, PmInv
<1>11. /\ reviewing' = [reviewing EXCEPT ![i] = NotReviewing]
       /\ UNCHANGED <<board, corrections, prepares, claims, handoffs, pmGaps, outsideVars>>
    BY DEF Dispose
<1>12. PmTypeOK'
    BY <1>5, <1>7, <1>8, <1>10, <1>11, PmTypes, PmTypesNext DEF PmInv, outsideVars, ReviewingStates
<1>13. reviewing'[i] = NotReviewing  BY <1>11, PmTypes DEF PmInv
<1>14. ReviewedInOrder(i)'
    BY <1>1, <1>9, <1>11, <1>13, PmNames
       DEF PmInv, ReviewedInOrder, Consistent, VerdictEarned, TicketOf
<1>15. QED  BY <1>8, <1>10, <1>11, <1>12, <1>14, PmTypes, PmReviewSteps DEF PmInv

LEMMA StopReviewKeeps ==
    ASSUME PmInv, NEW i \in PmInvocations, StopReview(i)  PROVE PmInv'
<1>1. /\ reviewing' = [reviewing EXCEPT ![i] = NotReviewing]
      /\ UNCHANGED <<remoteVars, receiptVars, outsideVars>>
    BY DEF StopReview
<1>2. PmTypeOK'
    BY <1>1, PmTypes, PmTypesNext DEF PmInv, remoteVars, receiptVars, outsideVars, ReviewingStates
<1>3. reviewing'[i] = NotReviewing  BY <1>1, PmTypes DEF PmInv
<1>4. ReviewedInOrder(i)'
    BY <1>1, <1>3, PmNames
       DEF PmInv, ReviewedInOrder, Consistent, VerdictEarned, TicketOf, receiptVars
<1>5. QED
    BY <1>1, <1>2, <1>4, PmTypes, PmReviewSteps DEF PmInv, remoteVars, receiptVars

(* A step that touches nothing the invariant speaks of but the types. *)
LEMMA PmAside ==
    ASSUME PmInv, PmTypeOK', UNCHANGED <<comments, prepares, claims, handoffs, reviews, reviewing>>
    PROVE  PmInv'
<1>1. QED  BY PmUntouched DEF PmInv

LEMMA RecordGapKeeps ==
    ASSUME PmInv, NEW i \in PmInvocations, RecordGap(i)  PROVE PmInv'
<1>1. PmTypeOK'
    BY PmTypes, PmTypesNext DEF PmInv, RecordGap, remoteVars, outsideVars
<1>2. QED  BY <1>1, PmAside DEF RecordGap, remoteVars

LEMMA SignScheduleKeeps ==
    ASSUME PmInv, NEW i \in PmInvocations, NEW natural \in BOOLEAN, SignSchedule(i, natural)
    PROVE  PmInv'
<1>1. reviews[i] \in ReviewReceipts  BY PmTypes DEF PmInv, SignSchedule
<1>2. [of |-> i, review |-> reviews[i], natural |-> natural] \in PmSchedules
    BY <1>1 DEF PmSchedules
<1>3. boardChanges' \in 0 .. MaxBoardChanges
    BY PmTypes, PmAssumption DEF PmInv, SignSchedule
<1>4. PmTypeOK'
    BY <1>2, <1>3, PmTypes, PmTypesNext DEF PmInv, SignSchedule, remoteVars, receiptVars
<1>5. QED  BY <1>4, PmAside DEF SignSchedule, remoteVars, receiptVars

LEMMA ChangesKeep == ASSUME PmInv, Changes  PROVE PmInv'
<1>1. boardChanges' \in 0 .. MaxBoardChanges
    BY PmTypes, PmAssumption DEF PmInv, Changes
<1>2. board' \in [PmTickets -> [fit : Fits, status : Statuses]]
    BY PmTypes DEF PmInv, Changes
<1>3. output' \in [PmInvocations -> {1, 2}] /\ withdrawn' \subseteq PmActors
    BY PmTypes DEF PmInv, Changes
<1>4. PmTypeOK'
    BY <1>1, <1>2, <1>3, PmTypes, PmTypesNext DEF PmInv, Changes, receiptVars
<1>5. QED  BY <1>4, PmAside DEF Changes, receiptVars

LEMMA PmKept == PmInv /\ [PmNext]_pmVars => PmInv'
<1> SUFFICES ASSUME PmInv, [PmNext]_pmVars PROVE PmInv'  OBVIOUS
<1>1. CASE UNCHANGED pmVars
  <2>1. PmTypeOK'  BY <1>1, PmTypes, PmTypesNext DEF PmInv, pmVars
  <2>2. QED  BY <1>1, <2>1, PmAside DEF pmVars
<1>2. CASE PmNext
    BY <1>2, PrepareKeeps, AnnounceKeeps, ClaimKeeps, BindWorkerClaimKeeps, WriteHandoffKeeps,
       PlanReviewKeeps, StoreReviewKeeps, FindCorrectionKeeps, FileCorrectionKeeps, DisposeKeeps,
       StopReviewKeeps, RecordGapKeeps, SignScheduleKeeps, ChangesKeep
       DEF PmNext
<1>3. QED  BY <1>1, <1>2

LEMMA PmHolds == ASSUME PmInv PROVE PmReceiptsHold
<1>1. OneWorker
  <2> SUFFICES ASSUME NEW i \in PmInvocations
               PROVE  /\ handoffs[i] \subseteq {claims[i]}
                      /\ handoffs[i] # {} => Announcement(i) \in comments
                      /\ reviews[i] # NoReview =>
                            handoffs[i] # {} /\ reviews[i].report.reviewer # claims[i].worker
      BY DEF OneWorker
  <2>1. handoffs[i] \subseteq {claims[i]}  BY DEF PmInv, HandedOffInOrder
  <2>2. handoffs[i] # {} => Announcement(i) \in comments  BY <2>1, ReviewStandsOn
  <2>3. QED  BY <2>1, <2>2 DEF PmInv, ReviewedInOrder
<1>2. GateIsEarned
  <2> SUFFICES ASSUME NEW s \in schedule, NEW i \in PmInvocations, Gate(i, s) = "PASS"
               PROVE  /\ s.natural /\ s.review.state = "reviewed"
                      /\ \E p \in handoffs[i] : p.outcome = "completed" /\ p.content = output[i]
                      /\ reviews[i].report.finding # "high" /\ reviews[i].report.phase4 = "PASS"
      BY DEF GateIsEarned
  <2>1. Authenticated(i) /\ s.review = reviews[i]  BY DEF Gate, Binds
  <2>2. reviews[i].report.verdict = "PASS" /\ s.natural  BY <2>1 DEF Gate
  <2>3. /\ claims[i] \in handoffs[i] /\ claims[i].content = output[i]
        /\ reviews[i] # NoReview /\ reviews[i].state = "reviewed"
      BY <2>1 DEF Authenticated, WorkerHolds, Chained
  <2>4. VerdictEarned(i, reviews[i].report)  BY <2>3 DEF PmInv, ReviewedInOrder, Consistent
  <2>5. QED  BY <2>1, <2>2, <2>3, <2>4 DEF VerdictEarned
<1>3. QED  BY <1>1, <1>2 DEF PmReceiptsHold

(* The state of the PM loop has its type. *)
THEOREM PmTyped == PmSpec => []PmTypeOK
<1>1. PmInv => PmTypeOK  BY DEF PmInv
<1>2. QED  BY PmInitially, PmKept, <1>1, PTL DEF PmSpec

(* For any invocations, tickets, actors, runs, reviews and changes from outside, all that
   was handed off for a claim is what its one worker signed, a review is somebody
   else's and is about exactly that, and the gate passes only on a completed run whose
   finished review the scheduler signed (pm.ts, handoffPm, reviewPm, statusPm). *)
THEOREM PmReceiptsAreHeld == PmSpec => []PmReceiptsHold
<1>1. PmInv => PmReceiptsHold  BY PmHolds
<1>2. QED  BY PmInitially, PmKept, <1>1, PTL DEF PmSpec
=============================================================================
