------------------------ MODULE Continuation_proofs ------------------------
(***************************************************************************)
(* Proofs about continuations, for every set of workers, contracts and      *)
(* ticket identities, any number of faults, and a lease that may be taken   *)
(* from a running worker at any time.                                      *)
(*                                                                         *)
(* The last part is about behaviours in which the lease is not taken over:  *)
(* then one worker at a time is past the acquisition, and what it read,     *)
(* wrote and was answered agrees with the record (HolderKnows), so that no  *)
(* write replaces the recorded identity or contract.                       *)
(***************************************************************************)
EXTENDS Continuation, TLAPS

(* Where a worker is, or will be once its write is read back. *)
Heading(w) == IF pc[w] = "reread" THEN job[w].next ELSE pc[w]

(* The tracker's answer to the create call is in use. *)
Answered == {"record", "explain", "get", "getting", "set", "setting", "list",
             "listing", "metaFailed", "final", "finishing"}

(* The live ticket was compared with the contract. *)
Compared == {"set", "setting", "list", "listing", "metaFailed", "final", "finishing"}

(* A write leads to none of the labels behind the comparison. *)
WritesLeadBack ==
    \A w \in Workers : pc[w] = "reread" =>
        job[w].next \in {"create", "get", "explain", "leave"}

IdKnown ==
    \A w \in Workers : Heading(w) \in Answered =>
        job[w].id \in Ids /\ tickets[job[w].id] # NoTicket

ComparedMatches ==
    \A w \in Workers : pc[w] \in Compared =>
        tickets[job[w].id].contract = job[w].contract

(* No job claims metadata before the tracker listed it ... *)
MetaUnclaimed ==
    \A w \in Workers : Heading(w) \notin {"idle", "final", "finishing", "leave"} =>
        job[w].meta # "verified"

(* ... and one that does claims a tag that is there. *)
MetaClaimed ==
    \A w \in Workers : pc[w] \in {"final", "finishing"} /\ job[w].meta = "verified" =>
        tickets[job[w].id].tagged

IInv ==
    /\ WorkTypeOK
    /\ WritesLeadBack
    /\ IdKnown
    /\ ComparedMatches
    /\ MetaUnclaimed
    /\ MetaClaimed
    /\ VerifiedIsWhatWasAsked
    /\ MetadataIsThere

USE DEF remote, lockVars

(* What happens to the tickets that exist: they stay, for the contract they
   were created for, and keep their tag. *)
TicketsGrow ==
    \A i \in Ids : tickets[i] # NoTicket =>
        /\ tickets'[i] # NoTicket
        /\ tickets'[i].contract = tickets[i].contract
        /\ tickets[i].tagged => tickets'[i].tagged

-----------------------------------------------------------------------------
(* A ticket may be tagged, progressed, rewritten or deleted, and stays a ticket. *)
LEMMA TicketEdits ==
    ASSUME NEW t \in Tickets
    PROVE  /\ [t EXCEPT !.tagged = TRUE] \in Tickets
           /\ [t EXCEPT !.tagged = TRUE].contract = t.contract
           /\ [t EXCEPT !.tagged = TRUE].tagged
           /\ \A m \in {"progressed", "rewritten"} :
                /\ [t EXCEPT !.mutableState = m] \in Tickets
                /\ [t EXCEPT !.mutableState = m].contract = t.contract
                /\ [t EXCEPT !.mutableState = m].tagged = t.tagged
           /\ [t EXCEPT !.live = FALSE] \in Tickets
           /\ [t EXCEPT !.live = FALSE].contract = t.contract
           /\ [t EXCEPT !.live = FALSE].tagged = t.tagged
  BY DEF Tickets

(* Putting a ticket where there was none, or an edited one in place of a ticket,
   lets the tickets grow. *)
LEMMA TicketPut ==
    ASSUME WorkTypeOK, NEW i \in Ids, NEW t \in Tickets,
           tickets' = [tickets EXCEPT ![i] = t],
           tickets[i] # NoTicket =>
               t.contract = tickets[i].contract /\ (tickets[i].tagged => t.tagged)
    PROVE  /\ tickets' \in [Ids -> Tickets \cup {NoTicket}]
           /\ TicketsGrow
           /\ tickets'[i] # NoTicket
<1>1. tickets' \in [Ids -> Tickets \cup {NoTicket}]
  BY DEF WorkTypeOK
<1>2. tickets'[i] = t /\ t # NoTicket
  BY AbsentAssumption DEF WorkTypeOK
<1>3. ASSUME NEW j \in Ids, tickets[j] # NoTicket
      PROVE  /\ tickets'[j] # NoTicket
             /\ tickets'[j].contract = tickets[j].contract
             /\ tickets[j].tagged => tickets'[j].tagged
  <2>1. CASE j = i
    BY <1>2, <1>3, <2>1, Zenon
  <2>2. CASE j # i
    <3>1. tickets'[j] = tickets[j]
      BY <2>2 DEF WorkTypeOK
    <3> QED
      BY <1>3, <3>1, Zenon
  <2> QED
    BY <2>1, <2>2
<1> QED
  BY <1>1, <1>2, <1>3 DEF TicketsGrow

(* An idempotent create leaves the tickets that exist alone. *)
LEMMA CreateGrows ==
    ASSUME WorkTypeOK, NEW c \in Contracts, NEW i \in Ids, ServerCreate(c, i)
    PROVE  /\ tickets' \in [Ids -> Tickets \cup {NoTicket}]
           /\ TicketsGrow
           /\ tickets'[i] # NoTicket
<1> DEFINE new == [contract |-> c, mutableState |-> "asCreated", tagged |-> FALSE, live |-> TRUE]
<1>1. new \in Tickets
  BY DEF Tickets
<1>2. \/ i \in LiveIds /\ UNCHANGED tickets
      \/ i \in Unused /\ tickets' = [tickets EXCEPT ![i] = new]
  BY DEF ServerCreate
<1> HIDE DEF new
<1>3. CASE i \in LiveIds /\ UNCHANGED tickets
  BY <1>3 DEF WorkTypeOK, LiveIds, TicketsGrow
<1>4. CASE i \in Unused /\ tickets' = [tickets EXCEPT ![i] = new]
  BY <1>1, <1>4, TicketPut DEF Unused
<1> QED
  BY <1>2, <1>3, <1>4

(* Every step keeps the tickets' type, and the tickets. *)
LEMMA TicketsKept ==
    ASSUME WorkTypeOK, IdKnown, [Next]_vars
    PROVE  tickets' \in [Ids -> Tickets \cup {NoTicket}] /\ TicketsGrow
<1>1. ASSUME NEW w \in Workers, Created(w)
      PROVE  tickets' \in [Ids -> Tickets \cup {NoTicket}] /\ TicketsGrow
  <2>1. job[w].contract \in Contracts
    BY <1>1 DEF Created, WorkTypeOK, Jobs
  <2> QED
    BY <1>1, <2>1, CreateGrows DEF Created
<1>2. ASSUME NEW w \in Workers, MetadataSet(w)
      PROVE  tickets' \in [Ids -> Tickets \cup {NoTicket}] /\ TicketsGrow
  <2>1. job[w].id \in Ids /\ tickets[job[w].id] \in Tickets /\ tickets[job[w].id] # NoTicket
    BY <1>2 DEF MetadataSet, WorkTypeOK, IdKnown, Heading, Answered
  <2> DEFINE t == [tickets[job[w].id] EXCEPT !.tagged = TRUE]
  <2>2. UNCHANGED tickets \/ tickets' = [tickets EXCEPT ![job[w].id] = t]
    BY <1>2 DEF MetadataSet, WorkTypeOK
  <2>3. /\ t \in Tickets
        /\ t.contract = tickets[job[w].id].contract
        /\ t.tagged
    BY <2>1, TicketEdits
  <2> HIDE DEF t
  <2>4. CASE tickets' = [tickets EXCEPT ![job[w].id] = t]
    BY <2>1, <2>3, <2>4, TicketPut
  <2>5. CASE UNCHANGED tickets
    BY <2>5 DEF WorkTypeOK, TicketsGrow
  <2> QED
    BY <2>2, <2>4, <2>5
<1>3. CASE LateCreate \/ ForeignCreate
  BY <1>3, CreateGrows DEF LateCreate, ForeignCreate, WorkTypeOK
<1>4. CASE Progress \/ Meddle
  <2>0. PICK i \in LiveIds :
          \E t \in {[tickets[i] EXCEPT !.mutableState = "progressed"],
                    [tickets[i] EXCEPT !.mutableState = "rewritten"],
                    [tickets[i] EXCEPT !.live = FALSE]} :
              tickets' = [tickets EXCEPT ![i] = t]
    BY <1>4 DEF Progress, Meddle, WorkTypeOK, LiveIds
  <2>1. PICK t \in {[tickets[i] EXCEPT !.mutableState = "progressed"],
                    [tickets[i] EXCEPT !.mutableState = "rewritten"],
                    [tickets[i] EXCEPT !.live = FALSE]} :
              tickets' = [tickets EXCEPT ![i] = t]
    BY <2>0
  <2>2. i \in Ids /\ tickets[i] \in Tickets
    BY DEF WorkTypeOK, LiveIds
  <2>3. t \in Tickets /\ t.contract = tickets[i].contract /\ t.tagged = tickets[i].tagged
    BY <2>2, TicketEdits
  <2> QED
    BY <2>1, <2>2, <2>3, TicketPut
<1>5. ASSUME UNCHANGED tickets
      PROVE  tickets' \in [Ids -> Tickets \cup {NoTicket}] /\ TicketsGrow
  BY <1>5 DEF WorkTypeOK, TicketsGrow
<1>6. ASSUME NEW w \in Workers, Ensure(w) \/ Retry(w) \/ Crash(w) PROVE UNCHANGED tickets
  BY <1>6 DEF Ensure, Retry, Start, Crash
<1>7. ASSUME NEW w \in Workers, Step(w), ~Created(w), ~MetadataSet(w) PROVE UNCHANGED tickets
  BY <1>7 DEF Step, Enter, GiveUp, ReadRecord, WritePending, Reread, Beat, CreateFails,
     RecordCreated, Explain, Got, MetadataListed, MetaFailed, WriteVerified, Leave
<1>8. ASSUME Dispossess \/ UNCHANGED vars PROVE UNCHANGED tickets
  BY <1>8 DEF Dispossess, vars
<1>9. CASE Environment
  BY <1>3, <1>4, <1>5, <1>8, <1>9 DEF Environment
<1>10. CASE \E w \in Workers : Ensure(w) \/ Retry(w) \/ Step(w) \/ Crash(w)
  BY <1>1, <1>2, <1>5, <1>6, <1>7, <1>10
<1> QED
  BY <1>5, <1>8, <1>9, <1>10 DEF Next

(* Every step keeps the lease variables in their type. *)
LEMMA LockKept ==
    ASSUME Lock!LockTypeOK, NEW w \in Workers,
           \/ Lock!Enter(w) \/ Lock!Call(w) \/ Lock!Return(w) \/ Lock!Leave(w)
           \/ Lock!Dispossess \/ UNCHANGED lockVars
    PROVE  Lock!LockTypeOK'
  BY ConstantsAssumption DEF Lock!LockTypeOK, Lock!Enter, Lock!Call, Lock!Return, Lock!Leave,
     Lock!Dispossess

(* A new job claims nothing. *)
LEMMA NewJobType ==
    ASSUME NEW c \in Contracts, NEW q \in Policies
    PROVE  NewJob(c, q) \in Jobs /\ NewJob(c, q).meta # "verified"
  BY DEF NewJob, Jobs, Policies, MetaStates, Labels

(* What a write of the record changes in the writer's job. *)
LEMMA JobNext ==
    ASSUME NEW j \in Jobs, NEW n \in Labels, NEW k, k = [j EXCEPT !.next = n]
    PROVE  k \in Jobs /\ k.next = n /\ k.contract = j.contract /\ k.id = j.id /\ k.meta = j.meta
  BY DEF Jobs

(* What the metadata calls change. *)
LEMMA JobMeta ==
    ASSUME NEW j \in Jobs, NEW m \in MetaStates, NEW k, k = [j EXCEPT !.meta = m]
    PROVE  k \in Jobs /\ k.meta = m /\ k.contract = j.contract /\ k.id = j.id
  BY DEF Jobs

-----------------------------------------------------------------------------
(* The steps that write the record. *)

(* What a write changes. *)
Wrote(w, state, id, meta, next) ==
    /\ record' \in Records /\ record' # NoRecord
    /\ record'.state = state /\ record'.remote = id /\ record'.meta = meta
    /\ record'.contract = job[w].contract
    /\ pc' \in [Workers -> Labels] /\ pc'[w] = "reread"
    /\ job' \in [Workers -> Jobs \cup {NoJob}] /\ job'[w] # NoJob
    /\ job'[w].next = next
    /\ job'[w].contract = job[w].contract
    /\ job'[w].id = job[w].id
    /\ job'[w].meta = job[w].meta
    /\ \A v \in Workers \ {w} : pc'[v] = pc[v] /\ job'[v] = job[v]

(* Write does what Wrote says. *)
LEMMA WriteFrame ==
    ASSUME WorkTypeOK, NEW w \in Workers, pc[w] # "idle",
           NEW state \in {"pending", "created_unverified", "verified"},
           NEW id \in Ids \cup {NoId}, NEW meta \in MetaStates, NEW next \in Labels,
           Write(w, state, id, meta, next)
    PROVE  Wrote(w, state, id, meta, next)
<1>1. job[w] \in Jobs
  BY DEF WorkTypeOK
<1> DEFINE j == [job[w] EXCEPT !.next = next]
<1>2. job' = [job EXCEPT ![w] = j]
  BY DEF Write, WorkTypeOK
<1>3. /\ j \in Jobs
      /\ j.next = next /\ j.contract = job[w].contract /\ j.id = job[w].id
      /\ j.meta = job[w].meta
  BY <1>1, JobNext
<1>4. /\ record' = [state |-> state, contract |-> job[w].contract, remote |-> id,
                    meta |-> meta, by |-> w]
      /\ pc' = [pc EXCEPT ![w] = "reread"]
  BY DEF Write, Goto
<1>5. record' \in Records /\ record' # NoRecord
  BY <1>1, <1>4, AbsentAssumption DEF Records, Jobs
<1>6. /\ record'.state = state /\ record'.remote = id /\ record'.meta = meta
      /\ record'.contract = job[w].contract
  BY <1>4
<1> HIDE DEF j
<1>7. /\ pc' \in [Workers -> Labels] /\ pc'[w] = "reread"
      /\ job' \in [Workers -> Jobs \cup {NoJob}] /\ job'[w] = j /\ j # NoJob
      /\ \A v \in Workers \ {w} : pc'[v] = pc[v] /\ job'[v] = job[v]
  BY <1>2, <1>3, <1>4, AbsentAssumption DEF WorkTypeOK, Labels
<1> QED
  BY <1>3, <1>5, <1>6, <1>7 DEF Wrote

(* A write keeps IInv if it verifies only a ticket that was compared, and leads
   on only with an answered create. *)
LEMMA WriteKeeps ==
    ASSUME IInv, NEW w \in Workers, pc[w] # "idle",
           NEW state \in {"pending", "created_unverified", "verified"},
           NEW id \in Ids \cup {NoId}, NEW meta \in MetaStates,
           NEW next \in {"create", "get", "explain", "leave"},
           Write(w, state, id, meta, next),
           state # "pending" => id # NoId,
           next \in {"get", "explain"} => job[w].id \in Ids /\ tickets[job[w].id] # NoTicket,
           next # "leave" => job[w].meta # "verified",
           state = "verified" => /\ id \in Ids /\ tickets[id] # NoTicket
                                 /\ tickets[id].contract = job[w].contract
                                 /\ meta = "verified" => tickets[id].tagged,
           TicketsGrow, tickets' \in [Ids -> Tickets \cup {NoTicket}],
           UNCHANGED <<late, faults>>, Lock!LockTypeOK'
    PROVE  IInv'
<1>1. Wrote(w, state, id, meta, next)
  BY WriteFrame DEF IInv, Labels
<1> USE DEF IInv, WorkTypeOK, Wrote
<1>2. WorkTypeOK'
  BY <1>1
<1>3. WritesLeadBack' /\ IdKnown' /\ ComparedMatches'
  BY <1>1 DEF WritesLeadBack, IdKnown, ComparedMatches, Heading, Answered, Compared,
              TicketsGrow
<1>4. MetaUnclaimed' /\ MetaClaimed'
  BY <1>1 DEF MetaUnclaimed, MetaClaimed, IdKnown, Heading, Answered, TicketsGrow
<1>5. VerifiedIsWhatWasAsked' /\ MetadataIsThere'
  BY <1>1, ConstantsAssumption
     DEF VerifiedIsWhatWasAsked, MetadataIsThere, Verified, TicketsGrow
<1> QED
  BY <1>2, <1>3, <1>4, <1>5

(* The record's writers keep IInv. *)
LEMMA WritersKeep ==
    ASSUME IInv, NEW w \in Workers,
           \/ WritePending(w) \/ RecordCreated(w) \/ Explain(w) \/ WriteVerified(w)
           \/ MetaFailed(w) /\ job[w].policy = "required",
           TicketsGrow, tickets' \in [Ids -> Tickets \cup {NoTicket}]
    PROVE  IInv'
<1>1. pc[w] # "idle" /\ job[w] \in Jobs
  BY DEF WritePending, RecordCreated, Explain, WriteVerified, MetaFailed, IInv, WorkTypeOK
<1>2. /\ job[w].known \in Ids \cup {NoId} /\ job[w].id \in Ids \cup {NoId}
      /\ job[w].meta \in MetaStates
  BY <1>1 DEF Jobs
<1>3. Lock!LockTypeOK'
  BY LockKept DEF IInv, WorkTypeOK, WritePending, RecordCreated, Explain, WriteVerified, MetaFailed
<1>4. UNCHANGED <<late, faults>>
  BY DEF WritePending, RecordCreated, Explain, WriteVerified, MetaFailed
<1>5. pc[w] # "pend" => job[w].id \in Ids /\ tickets[job[w].id] # NoTicket
  BY DEF IInv, IdKnown, Heading, Answered, WritePending, RecordCreated, Explain, WriteVerified,
         MetaFailed
<1>6. CASE WritePending(w)
  <2>1. pc[w] = "pend" /\ Write(w, "pending", job[w].known, job[w].meta, "create")
    BY <1>6 DEF WritePending
  <2>2. job[w].meta # "verified"
    BY <2>1 DEF IInv, MetaUnclaimed, Heading
  <2> QED
    BY <1>1, <1>2, <1>3, <1>4, <2>1, <2>2, WriteKeeps
<1>7. CASE RecordCreated(w)
  <2>1. pc[w] = "record"
    BY <1>7 DEF RecordCreated
  <2>2. job[w].meta # "verified"
    BY <2>1 DEF IInv, MetaUnclaimed, Heading
  <2>3. CASE IdentityConflict(w)
    <3>1. Write(w, "created_unverified", job[w].known, job[w].meta, "leave")
      BY <1>7, <2>3 DEF RecordCreated
    <3>2. job[w].known # NoId
      BY <2>3 DEF IdentityConflict
    <3> QED
      BY <1>1, <1>2, <1>3, <1>4, <3>1, <3>2, WriteKeeps
  <2>4. CASE ~IdentityConflict(w)
    <3>1. \E next \in {"get", "explain"} :
              Write(w, "created_unverified", job[w].id, job[w].meta, next)
      BY <1>7, <2>4 DEF RecordCreated
    <3> QED
      BY <1>1, <1>2, <1>3, <1>4, <1>5, <2>1, <2>2, <3>1, WriteKeeps, ConstantsAssumption
  <2> QED
    BY <2>3, <2>4
<1>8. CASE Explain(w)
  <2>1. pc[w] = "explain"
        /\ Write(w, "created_unverified", job[w].id, job[w].meta, "leave")
    BY <1>8 DEF Explain
  <2> QED
    BY <1>1, <1>2, <1>3, <1>4, <1>5, <2>1, WriteKeeps, ConstantsAssumption
<1>9. CASE MetaFailed(w) /\ job[w].policy = "required"
  <2>1. pc[w] = "metaFailed"
        /\ Write(w, "created_unverified", job[w].id, "unverified", "leave")
    BY <1>9 DEF MetaFailed
  <2> QED
    BY <1>1, <1>2, <1>3, <1>4, <1>5, <2>1, WriteKeeps, ConstantsAssumption DEF MetaStates
(* Only here is something verified: what was compared, and the listed tag. *)
<1>10. CASE WriteVerified(w)
  <2>1. pc[w] = "finishing" /\ Write(w, "verified", job[w].id, job[w].meta, "leave")
    BY <1>10 DEF WriteVerified
  <2>2. /\ tickets[job[w].id].contract = job[w].contract
        /\ job[w].meta = "verified" => tickets[job[w].id].tagged
    BY <2>1 DEF IInv, ComparedMatches, MetaClaimed, Compared
  <2> QED
    BY <1>1, <1>2, <1>3, <1>4, <1>5, <2>1, <2>2, WriteKeeps, ConstantsAssumption
<1> QED
  BY <1>6, <1>7, <1>8, <1>9, <1>10

-----------------------------------------------------------------------------
(* The steps that change what a worker knows. *)

(* A worker whose job becomes j and that goes to label keeps IInv if j supports
   what the label claims. *)
LEMMA JobKeeps ==
    ASSUME IInv, NEW w \in Workers, NEW j \in Jobs, NEW label \in Labels \ {"reread", "idle"},
           job' = [job EXCEPT ![w] = j],
           pc' = [pc EXCEPT ![w] = label],
           label \in Answered => j.id \in Ids /\ tickets'[j.id] # NoTicket,
           label \in Compared => tickets'[j.id].contract = j.contract,
           label \notin {"final", "finishing", "leave"} => j.meta # "verified",
           label \in {"final", "finishing"} /\ j.meta = "verified" => tickets'[j.id].tagged,
           TicketsGrow, tickets' \in [Ids -> Tickets \cup {NoTicket}],
           UNCHANGED record, late' \subseteq Contracts, faults' \in 0 .. MaxFaults,
           Lock!LockTypeOK'
    PROVE  IInv'
<1>1. /\ pc' \in [Workers -> Labels] /\ pc'[w] = label
      /\ job' \in [Workers -> Jobs \cup {NoJob}] /\ job'[w] = j /\ j # NoJob
      /\ \A v \in Workers \ {w} : pc'[v] = pc[v] /\ job'[v] = job[v]
  BY AbsentAssumption DEF IInv, WorkTypeOK
<1> USE DEF IInv, WorkTypeOK
<1>2. WorkTypeOK'
  BY <1>1
<1>3. WritesLeadBack' /\ IdKnown' /\ ComparedMatches'
  BY <1>1 DEF WritesLeadBack, IdKnown, ComparedMatches, Heading, Answered, Compared,
              TicketsGrow
<1>4. MetaUnclaimed' /\ MetaClaimed'
  BY <1>1 DEF MetaUnclaimed, MetaClaimed, IdKnown, Heading, Answered, TicketsGrow
<1>5. VerifiedIsWhatWasAsked' /\ MetadataIsThere'
  BY ConstantsAssumption
     DEF VerifiedIsWhatWasAsked, MetadataIsThere, Verified, TicketsGrow, Records
<1> QED
  BY <1>2, <1>3, <1>4, <1>5

(* The steps that learn something keep IInv. *)
LEMMA LearnersKeep ==
    ASSUME IInv, NEW w \in Workers,
           \/ ReadRecord(w) \/ Created(w) \/ MetadataListed(w)
           \/ MetaFailed(w) /\ job[w].policy # "required",
           TicketsGrow, tickets' \in [Ids -> Tickets \cup {NoTicket}]
    PROVE  IInv'
<1>1. job[w] \in Jobs /\ job[w] # NoJob
  BY DEF ReadRecord, Created, MetaFailed, MetadataListed, IInv, WorkTypeOK
<1>2. Lock!LockTypeOK'
  BY LockKept DEF IInv, WorkTypeOK, ReadRecord, Created, MetaFailed, MetadataListed
<1>3. /\ UNCHANGED record
      /\ late' \subseteq Contracts
      /\ faults' \in 0 .. MaxFaults
  <2>1. UNCHANGED <<record, late>>
    BY DEF ReadRecord, Created, MetaFailed, MetadataListed
  <2>2. UNCHANGED faults \/ Fault
    BY DEF ReadRecord, Created, MetaFailed, MetadataListed
  <2> QED
    BY <2>1, <2>2, ConstantsAssumption DEF Fault, IInv, WorkTypeOK
(* The job stays: the step fails, or there was no record to read. *)
<1>4. ASSUME UNCHANGED job, NEW label \in {"leave", "pend", "metaFailed"}, Goto(w, label),
             label = "pend" => pc[w] = "read",
             label = "metaFailed" => pc[w] = "listing"
      PROVE  IInv'
  <2>1. job' = [job EXCEPT ![w] = job[w]] /\ pc' = [pc EXCEPT ![w] = label]
    BY <1>4 DEF IInv, WorkTypeOK, Goto
  <2>2. label \in Labels \ {"reread", "idle"}
    BY DEF Labels
  <2>3. label # "leave" => job[w].meta # "verified"
    BY <1>4 DEF IInv, MetaUnclaimed, Heading
  <2>4. label = "metaFailed" =>
            /\ job[w].id \in Ids /\ tickets'[job[w].id] # NoTicket
            /\ tickets'[job[w].id].contract = job[w].contract
    BY <1>4 DEF IInv, IdKnown, ComparedMatches, Heading, Answered, Compared, TicketsGrow
  <2> QED
    BY <1>1, <1>2, <1>3, <2>1, <2>2, <2>3, <2>4, JobKeeps DEF Answered, Compared
<1>5. CASE ReadRecord(w) /\ record # NoRecord /\ record.contract = job[w].contract
  <2> DEFINE verified == record.state = "verified"
             j == [job[w] EXCEPT !.known = record.remote, !.wasVerified = verified]
  <2>1. /\ pc[w] = "read" /\ pc' = [pc EXCEPT ![w] = "pend"]
        /\ record # NoRecord
        /\ job' = [job EXCEPT ![w] = j]
    BY <1>5 DEF ReadRecord, Goto, IInv, WorkTypeOK
  <2>2. record.remote \in Ids \cup {NoId} /\ verified \in BOOLEAN
    BY <2>1 DEF IInv, WorkTypeOK, Records
  <2>3. j \in Jobs /\ j.meta = job[w].meta
    <3> HIDE DEF verified
    <3> QED
      BY <1>1, <2>2 DEF Jobs
  <2>4. job[w].meta # "verified"
    BY <2>1 DEF IInv, MetaUnclaimed, Heading
  <2> HIDE DEF j
  <2> QED
    BY <1>2, <1>3, <2>1, <2>3, <2>4, JobKeeps DEF Labels, Answered, Compared
<1>6. CASE Created(w) /\ Goto(w, "record")
  <2>1. /\ pc[w] = "creating" /\ pc' = [pc EXCEPT ![w] = "record"]
        /\ \E i \in Ids : /\ ServerCreate(job[w].contract, i)
                          /\ \/ job' = [job EXCEPT ![w] = [job[w] EXCEPT !.id = i, !.keyed = TRUE]]
                             \/ job' = [job EXCEPT ![w] = [job[w] EXCEPT !.id = i]]
    BY <1>6 DEF Created, Goto, IInv, WorkTypeOK
  <2>2. PICK i \in Ids : /\ ServerCreate(job[w].contract, i)
                         /\ \/ job' = [job EXCEPT ![w] = [job[w] EXCEPT !.id = i, !.keyed = TRUE]]
                            \/ job' = [job EXCEPT ![w] = [job[w] EXCEPT !.id = i]]
    BY <2>1
  <2>3. PICK j : /\ job' = [job EXCEPT ![w] = j]
                 /\ \/ j = [job[w] EXCEPT !.id = i, !.keyed = TRUE]
                    \/ j = [job[w] EXCEPT !.id = i]
    BY <2>2
  <2>4. j \in Jobs /\ j.id = i /\ j.meta = job[w].meta
    BY <1>1, <2>3 DEF Jobs
  <2>5. tickets'[i] # NoTicket
    BY <1>1, <2>2, CreateGrows DEF IInv, Jobs
  <2>6. job[w].meta # "verified"
    BY <2>1 DEF IInv, MetaUnclaimed, Heading
  <2>7. pc' = [pc EXCEPT ![w] = "record"] /\ job' = [job EXCEPT ![w] = j]
    BY <2>1, <2>3
  <2> QED
    BY <1>2, <1>3, <2>4, <2>5, <2>6, <2>7, JobKeeps DEF Labels, Answered, Compared
<1>7. CASE \/ MetadataListed(w) /\ Goto(w, "final")
           \/ MetaFailed(w) /\ job[w].policy # "required"
  <2>1. /\ pc[w] \in {"listing", "metaFailed"} /\ pc' = [pc EXCEPT ![w] = "final"]
        /\ \E m \in {"verified", "unverified"} :
              /\ job' = [job EXCEPT ![w] = [job[w] EXCEPT !.meta = m]]
              /\ m = "verified" => tickets[job[w].id].tagged
    BY <1>7 DEF MetadataListed, MetaFailed, Goto, IInv, WorkTypeOK
  <2>2. PICK m \in {"verified", "unverified"} :
              /\ job' = [job EXCEPT ![w] = [job[w] EXCEPT !.meta = m]]
              /\ m = "verified" => tickets[job[w].id].tagged
    BY <2>1
  <2> DEFINE j == [job[w] EXCEPT !.meta = m]
  <2>3. j \in Jobs /\ j.id = job[w].id /\ j.contract = job[w].contract /\ j.meta = m
    BY <1>1, JobMeta DEF MetaStates
  <2>4. /\ job[w].id \in Ids /\ tickets'[job[w].id] # NoTicket
        /\ tickets'[job[w].id].contract = job[w].contract
        /\ m = "verified" => tickets'[job[w].id].tagged
    BY <2>1, <2>2 DEF IInv, IdKnown, ComparedMatches, Heading, Answered, Compared, TicketsGrow
  <2>5. pc' = [pc EXCEPT ![w] = "final"] /\ job' = [job EXCEPT ![w] = j]
    BY <2>1, <2>2
  <2> HIDE DEF j
  <2> QED
    BY <1>2, <1>3, <2>3, <2>4, <2>5, JobKeeps DEF Labels
<1>8. CASE ReadRecord(w)
  BY <1>4, <1>5, <1>8 DEF ReadRecord
<1>9. CASE Created(w)
  <2>1. Goto(w, "record") \/ (Goto(w, "leave") /\ UNCHANGED job)
    BY <1>9 DEF Created
  <2> QED
    BY <1>4, <1>6, <1>9, <2>1
<1>10. CASE MetadataListed(w)
  <2>1. pc[w] = "listing" /\ (Goto(w, "final") \/ (Goto(w, "metaFailed") /\ UNCHANGED job))
    BY <1>10 DEF MetadataListed
  <2> QED
    BY <1>4, <1>7, <1>10, <2>1
<1> QED
  BY <1>7, <1>8, <1>9, <1>10

-----------------------------------------------------------------------------
(* The other steps. *)

(* Starting, waiting for the lease and going on keep IInv. *)
LEMMA OthersKeep ==
    ASSUME IInv, NEW w \in Workers,
           \/ Ensure(w) \/ Retry(w) \/ Enter(w) \/ GiveUp(w) \/ Reread(w)
           \/ CreateFails(w) \/ Got(w) \/ MetadataSet(w) \/ Leave(w) \/ Crash(w),
           TicketsGrow, tickets' \in [Ids -> Tickets \cup {NoTicket}]
    PROVE  IInv'
<1> USE DEF IInv, Goto, Labels
<1> DEFINE Parts == /\ WritesLeadBack /\ IdKnown /\ ComparedMatches /\ MetaUnclaimed
                    /\ MetaClaimed /\ VerifiedIsWhatWasAsked /\ MetadataIsThere
<1>1. ASSUME NEW c \in Contracts, NEW policy \in Policies, Start(w, c, policy) PROVE IInv'
  <2>1. WorkTypeOK'
    BY <1>1, NewJobType, LockKept, AbsentAssumption DEF WorkTypeOK, Start
  <2>2. Parts'
    BY <1>1, NewJobType DEF Start, WorkTypeOK, WritesLeadBack, IdKnown, ComparedMatches,
       MetaUnclaimed, MetaClaimed, VerifiedIsWhatWasAsked, MetadataIsThere, Verified,
       Heading, Answered, Compared
  <2> QED
    BY <2>1, <2>2
<1>2. CASE Ensure(w) \/ Retry(w)
  BY <1>1, <1>2 DEF Ensure, Retry, WorkTypeOK, Records, Policies
<1> HIDE DEF IInv
<1>3. CASE Enter(w) \/ GiveUp(w)
  <2>1. WorkTypeOK'
    BY <1>3, LockKept, ConstantsAssumption, AbsentAssumption
       DEF IInv, WorkTypeOK, Jobs, WritesLeadBack, Enter, GiveUp
  <2>2. Parts'
    BY <1>3 DEF IInv, WorkTypeOK, Records, WritesLeadBack, IdKnown, ComparedMatches,
       MetaUnclaimed, MetaClaimed, VerifiedIsWhatWasAsked, MetadataIsThere, Verified,
       Heading, Answered, Compared, TicketsGrow, Enter, GiveUp
  <2> QED
    BY <2>1, <2>2 DEF IInv
<1>4. CASE Reread(w)
  <2>1. WorkTypeOK'
    BY <1>4, LockKept, ConstantsAssumption, AbsentAssumption
       DEF IInv, WorkTypeOK, Jobs, WritesLeadBack, Reread
  <2>2. Parts'
    BY <1>4 DEF IInv, WorkTypeOK, Records, WritesLeadBack, IdKnown, ComparedMatches,
       MetaUnclaimed, MetaClaimed, VerifiedIsWhatWasAsked, MetadataIsThere, Verified,
       Heading, Answered, Compared, TicketsGrow, Reread
  <2> QED
    BY <2>1, <2>2 DEF IInv
<1>5. CASE CreateFails(w)
  <2>1. WorkTypeOK'
    BY <1>5, LockKept, ConstantsAssumption, AbsentAssumption
       DEF IInv, WorkTypeOK, Jobs, WritesLeadBack, CreateFails, Fault
  <2>2. Parts'
    BY <1>5 DEF IInv, WorkTypeOK, Records, WritesLeadBack, IdKnown, ComparedMatches,
       MetaUnclaimed, MetaClaimed, VerifiedIsWhatWasAsked, MetadataIsThere, Verified,
       Heading, Answered, Compared, TicketsGrow, CreateFails, Fault
  <2> QED
    BY <2>1, <2>2 DEF IInv
<1>6. CASE Got(w)
  <2>1. WorkTypeOK'
    BY <1>6, LockKept, ConstantsAssumption, AbsentAssumption
       DEF IInv, WorkTypeOK, Jobs, WritesLeadBack, Got, Matches, Fault
  <2>2. Parts'
    BY <1>6 DEF IInv, WorkTypeOK, Records, WritesLeadBack, IdKnown, ComparedMatches,
       MetaUnclaimed, MetaClaimed, VerifiedIsWhatWasAsked, MetadataIsThere, Verified,
       Heading, Answered, Compared, TicketsGrow, Got, Matches, Fault
  <2> QED
    BY <2>1, <2>2 DEF IInv
<1>7. CASE MetadataSet(w)
  <2>1. WorkTypeOK'
    BY <1>7, LockKept, ConstantsAssumption, AbsentAssumption
       DEF IInv, WorkTypeOK, Jobs, WritesLeadBack, MetadataSet, Fault
  <2>2. Parts'
    BY <1>7 DEF IInv, WorkTypeOK, Records, WritesLeadBack, IdKnown, ComparedMatches,
       MetaUnclaimed, MetaClaimed, VerifiedIsWhatWasAsked, MetadataIsThere, Verified,
       Heading, Answered, Compared, TicketsGrow, MetadataSet, Fault
  <2> QED
    BY <2>1, <2>2 DEF IInv
<1>8. CASE Leave(w)
  <2>1. WorkTypeOK'
    BY <1>8, LockKept, ConstantsAssumption, AbsentAssumption
       DEF IInv, WorkTypeOK, Jobs, WritesLeadBack, Leave
  <2>2. Parts'
    BY <1>8 DEF IInv, WorkTypeOK, Records, WritesLeadBack, IdKnown, ComparedMatches,
       MetaUnclaimed, MetaClaimed, VerifiedIsWhatWasAsked, MetadataIsThere, Verified,
       Heading, Answered, Compared, TicketsGrow, Leave
  <2> QED
    BY <2>1, <2>2 DEF IInv
<1>9. CASE Crash(w)
  <2>1. WorkTypeOK'
    BY <1>9, LockKept, ConstantsAssumption, AbsentAssumption
       DEF IInv, WorkTypeOK, Jobs, WritesLeadBack, Crash, Fault
  <2>2. Parts'
    BY <1>9 DEF IInv, WorkTypeOK, Records, WritesLeadBack, IdKnown, ComparedMatches,
       MetaUnclaimed, MetaClaimed, VerifiedIsWhatWasAsked, MetadataIsThere, Verified,
       Heading, Answered, Compared, TicketsGrow, Crash, Fault
  <2> QED
    BY <2>1, <2>2 DEF IInv
<1> QED
  BY <1>2, <1>3, <1>4, <1>5, <1>6, <1>7, <1>8, <1>9

(* A heartbeat and what follows it keep IInv. *)
LEMMA BeatKeeps ==
    ASSUME IInv, NEW w \in Workers, UNCHANGED tickets,
           \/ Beat(w, "create", "creating", "leave") \/ Beat(w, "get", "getting", "leave")
           \/ Beat(w, "set", "setting", "metaFailed") \/ Beat(w, "list", "listing", "metaFailed")
           \/ Beat(w, "final", "finishing", "leave")
    PROVE  IInv'
<1> USE DEF Beat, Goto
<1>1. WorkTypeOK'
  BY LockKept DEF IInv, WorkTypeOK, Labels
<1>2. /\ WritesLeadBack' /\ IdKnown' /\ ComparedMatches' /\ MetaUnclaimed'
      /\ MetaClaimed' /\ VerifiedIsWhatWasAsked' /\ MetadataIsThere'
  BY DEF IInv, WorkTypeOK, WritesLeadBack, IdKnown, ComparedMatches, MetaUnclaimed, MetaClaimed,
     VerifiedIsWhatWasAsked, MetadataIsThere, Verified, Heading, Answered, Compared
<1> QED
  BY <1>1, <1>2 DEF IInv

(* The tracker, its users, other clones and lease takeovers keep IInv. *)
LEMMA EnvironmentKeeps ==
    ASSUME IInv, Environment \/ UNCHANGED vars,
           TicketsGrow, tickets' \in [Ids -> Tickets \cup {NoTicket}]
    PROVE  IInv'
<1>1. UNCHANGED <<record, pc, job>>
  BY DEF Environment, Dispossess, LateCreate, ForeignCreate, Progress, Meddle, vars
<1>2. Lock!LockTypeOK'
  BY ConstantsAssumption
     DEF Environment, Dispossess, LateCreate, ForeignCreate, Progress, Meddle, vars,
         IInv, WorkTypeOK, Lock!LockTypeOK, Lock!Dispossess
<1>3. late' \subseteq Contracts /\ faults' \in 0 .. MaxFaults
  BY ConstantsAssumption
     DEF Environment, Dispossess, LateCreate, ForeignCreate, Progress, Meddle, vars,
         IInv, WorkTypeOK, Fault
<1>4. WorkTypeOK'
  BY <1>1, <1>2, <1>3 DEF IInv, WorkTypeOK
<1>5. /\ WritesLeadBack' /\ IdKnown' /\ ComparedMatches' /\ MetaUnclaimed' /\ MetaClaimed'
  BY <1>1 DEF IInv, WritesLeadBack, IdKnown, ComparedMatches, MetaUnclaimed, MetaClaimed,
     Heading, Answered, Compared, TicketsGrow
<1>6. VerifiedIsWhatWasAsked' /\ MetadataIsThere'
  BY <1>1, ConstantsAssumption
     DEF IInv, WorkTypeOK, VerifiedIsWhatWasAsked, MetadataIsThere, Verified, Records, TicketsGrow
<1> QED
  BY <1>4, <1>5, <1>6 DEF IInv

-----------------------------------------------------------------------------
(* The inductive invariant holds initially ... *)
LEMMA InitIInv == Init => IInv
  BY ConstantsAssumption
     DEF Init, IInv, WorkTypeOK, Labels, Lock!LockInit, Lock!LockTypeOK, WritesLeadBack, IdKnown,
         ComparedMatches, MetaUnclaimed, MetaClaimed, VerifiedIsWhatWasAsked, MetadataIsThere,
         Verified, Heading, Answered, Compared

(* ... and every step keeps it. *)
LEMMA NextIInv == IInv /\ [Next]_vars => IInv'
<1> SUFFICES ASSUME IInv, [Next]_vars PROVE IInv'
  OBVIOUS
<1>1. TicketsGrow /\ tickets' \in [Ids -> Tickets \cup {NoTicket}]
  BY TicketsKept DEF IInv
<1>2. ASSUME NEW w \in Workers, Ensure(w) \/ Retry(w) \/ Step(w) \/ Crash(w) PROVE IInv'
  <2>1. ASSUME \/ Beat(w, "create", "creating", "leave") \/ Beat(w, "get", "getting", "leave")
               \/ Beat(w, "set", "setting", "metaFailed")
               \/ Beat(w, "list", "listing", "metaFailed")
               \/ Beat(w, "final", "finishing", "leave")
        PROVE  IInv'
    <3>1. UNCHANGED tickets
      BY <2>1 DEF Beat
    <3> QED
      BY <2>1, <3>1, BeatKeeps
  <2>2. ASSUME \/ WritePending(w) \/ RecordCreated(w) \/ Explain(w) \/ WriteVerified(w)
               \/ MetaFailed(w) /\ job[w].policy = "required"
        PROVE  IInv'
    BY <1>1, <2>2, WritersKeep
  <2>3. ASSUME \/ ReadRecord(w) \/ Created(w) \/ MetadataListed(w)
               \/ MetaFailed(w) /\ job[w].policy # "required"
        PROVE  IInv'
    BY <1>1, <2>3, LearnersKeep
  <2>4. ASSUME \/ Ensure(w) \/ Retry(w) \/ Enter(w) \/ GiveUp(w) \/ Reread(w)
               \/ CreateFails(w) \/ Got(w) \/ MetadataSet(w) \/ Leave(w) \/ Crash(w)
        PROVE  IInv'
    BY <1>1, <2>4, OthersKeep
  <2> QED
    BY <1>2, <2>1, <2>2, <2>3, <2>4 DEF Step
<1>3. CASE Environment \/ UNCHANGED vars
  BY <1>1, <1>3, EnvironmentKeeps
<1> QED
  BY <1>2, <1>3 DEF Next

(* The types, and the invariant the others follow from, hold in every reachable
   state. *)
THEOREM Invariant == Spec => []IInv
  BY InitIInv, NextIInv, PTL DEF Spec

(* The type invariant of continuations. *)
THEOREM TypeCorrect == Spec => []TypeOK
<1>1. IInv /\ contested \in BOOLEAN => TypeOK
  BY DEF IInv, TypeOK
<1>2. Init => contested \in BOOLEAN
  BY ConstantsAssumption DEF Init
<1>3. contested \in BOOLEAN /\ [Next]_vars => (contested \in BOOLEAN)'
  BY DEF Next, vars
<1> QED
  BY <1>1, <1>2, <1>3, Invariant, PTL DEF Spec

(* A verified record names a ticket created for exactly its contract, even with
   writes of workers that lost the lease. *)
THEOREM VerifiedTicketIsTheOneAsked == Spec => []VerifiedIsWhatWasAsked
<1>1. IInv => VerifiedIsWhatWasAsked
  BY DEF IInv
<1> QED
  BY <1>1, Invariant, PTL

(* Metadata recorded as verified is on the recorded ticket. *)
THEOREM VerifiedMetadataIsThere == Spec => []MetadataIsThere
<1>1. IInv => MetadataIsThere
  BY DEF IInv
<1> QED
  BY <1>1, Invariant, PTL

-----------------------------------------------------------------------------
(* What a stored record keeps while the lease is not taken over. *)

UsesKnown == {"create", "creating", "record"}

UsesId == {"explain", "get", "getting", "set", "setting", "list", "listing", "metaFailed",
           "final", "finishing"}

(* What the holder of the lease read, wrote and was answered agrees with the
   record. *)
RecordFits(w) ==
    /\ pc[w] \notin {"read", "leave"} /\ record # NoRecord =>
           record.contract = job[w].contract
    /\ pc[w] = "pend" => job[w].known = IF record = NoRecord THEN NoId ELSE record.remote
    /\ Heading(w) \in UsesKnown => record # NoRecord /\ record.remote = job[w].known
    /\ Heading(w) \in UsesId => record # NoRecord /\ record.remote = job[w].id

(* Before it has read the record, a job knows no identity. *)
NothingKnown == \A w \in Workers : pc[w] \in {"enter", "read"} => job[w].known = NoId

(* While the lease is not contested, whoever is past the acquisition holds it,
   and knows the record. *)
HolderKnows ==
    ~contested => \A w \in Workers : pc[w] \notin {"idle", "enter"} =>
                      valid = w /\ RecordFits(w)

KInv == IInv /\ NothingKnown /\ HolderKnows

(* The step of one worker. *)
Moves(v) == Ensure(v) \/ Retry(v) \/ Step(v) \/ Crash(v)

(* A worker's step leaves the others where they are. *)
LEMMA OthersStay ==
    ASSUME IInv, NEW v \in Workers, Moves(v), NEW w \in Workers \ {v}
    PROVE  pc'[w] = pc[w] /\ job'[w] = job[w]
<1>1. pc \in [Workers -> Labels] /\ job \in [Workers -> Jobs \cup {NoJob}]
  BY DEF IInv, WorkTypeOK
<1>2. \E label : pc' = [pc EXCEPT ![v] = label]
  BY DEF Moves, Ensure, Retry, Start, Crash, Step, Enter, GiveUp, ReadRecord, WritePending,
     Reread, Beat, Created, CreateFails, RecordCreated, Explain, Got, MetadataSet,
     MetadataListed, MetaFailed, WriteVerified, Leave, Write, Goto
<1>3. UNCHANGED job \/ \E j : job' = [job EXCEPT ![v] = j]
  <2>1. CASE Ensure(v) \/ Retry(v) \/ Crash(v) \/ GiveUp(v) \/ Leave(v)
    BY <2>1 DEF Ensure, Retry, Start, Crash, GiveUp, Leave
  <2>2. CASE ReadRecord(v)
    BY <1>1, <2>2 DEF ReadRecord
  <2>3. CASE Created(v)
    BY <1>1, <2>3 DEF Created
  <2>4. CASE WritePending(v) \/ RecordCreated(v) \/ Explain(v) \/ MetaFailed(v) \/ WriteVerified(v)
    BY <1>1, <2>4 DEF WritePending, RecordCreated, Explain, MetaFailed, WriteVerified, Write
  <2>5. CASE MetadataListed(v)
    BY <1>1, <2>5 DEF MetadataListed
  <2>6. CASE Enter(v) \/ Reread(v) \/ CreateFails(v) \/ Got(v) \/ MetadataSet(v)
             \/ Beat(v, "create", "creating", "leave") \/ Beat(v, "get", "getting", "leave")
             \/ Beat(v, "set", "setting", "metaFailed")
             \/ Beat(v, "list", "listing", "metaFailed")
             \/ Beat(v, "final", "finishing", "leave")
    BY <2>6 DEF Enter, Reread, CreateFails, Got, MetadataSet, Beat
  <2> QED
    BY <2>1, <2>2, <2>3, <2>4, <2>5, <2>6 DEF Moves, Step
<1> QED
  BY <1>1, <1>2, <1>3

(* Who does not hold an uncontested lease changes neither it nor the record,
   unless it acquires it while it is free. *)
LEMMA OutsidersWait ==
    ASSUME KInv, ~contested, NEW v \in Workers, Moves(v), valid # v
    PROVE  /\ UNCHANGED record
           /\ UNCHANGED valid \/ valid = NoWorker
<1>1. pc[v] \in {"idle", "enter"}
  BY DEF KInv, HolderKnows
<1>2. Ensure(v) \/ Retry(v) \/ Enter(v) \/ GiveUp(v) \/ Crash(v)
  BY <1>1 DEF Moves, Step, ReadRecord, WritePending, Reread, Beat, Created, CreateFails,
     RecordCreated, Explain, Got, MetadataSet, MetadataListed, MetaFailed, WriteVerified, Leave
<1> QED
  BY <1>2 DEF Ensure, Retry, Start, Enter, GiveUp, Crash, Lock!Enter, Lock!Leave

(* A written record fits the job of who wrote it, if it keeps the identity that
   the next label relies on. *)
LEMMA WriterFits ==
    ASSUME IInv, NEW w \in Workers, pc[w] # "idle",
           NEW state \in {"pending", "created_unverified", "verified"},
           NEW id \in Ids \cup {NoId}, NEW meta \in MetaStates,
           NEW next \in {"create", "get", "explain", "leave"},
           Write(w, state, id, meta, next),
           next = "create" => id = job[w].known,
           next \in {"get", "explain"} => id = job[w].id
    PROVE  RecordFits(w)'
<1>1. Wrote(w, state, id, meta, next)
  BY WriteFrame DEF IInv, Labels
<1>2. job'[w].known = job[w].known
  <2>1. job[w] \in Jobs /\ job \in [Workers -> Jobs \cup {NoJob}]
    BY DEF IInv, WorkTypeOK
  <2>2. job' = [job EXCEPT ![w] = [job[w] EXCEPT !.next = next]]
    BY <2>1 DEF Write
  <2> QED
    BY <2>1, <2>2 DEF Jobs
<1> QED
  BY <1>1, <1>2 DEF Wrote, RecordFits, Heading, UsesKnown, UsesId

(* The record's writers keep its identity and contract, and their jobs fit it. *)
LEMMA HolderWrites ==
    ASSUME KInv, ~contested, NEW w \in Workers, pc[w] \notin {"idle", "enter"},
           \/ WritePending(w) \/ RecordCreated(w) \/ Explain(w) \/ WriteVerified(w)
           \/ MetaFailed(w) /\ job[w].policy = "required"
    PROVE  /\ RecordFits(w)' /\ UNCHANGED valid
           /\ record # NoRecord => record'.contract = record.contract
           /\ record # NoRecord /\ record.remote # NoId => record'.remote = record.remote
<1>1. job[w] \in Jobs /\ IInv /\ RecordFits(w)
  BY DEF KInv, HolderKnows, IInv, WorkTypeOK
<1>2. /\ job[w].known \in Ids \cup {NoId} /\ job[w].id \in Ids \cup {NoId}
      /\ job[w].meta \in MetaStates
  BY <1>1 DEF Jobs
<1>3. UNCHANGED valid
  BY DEF WritePending, RecordCreated, Explain, WriteVerified, MetaFailed, Lock!Return
<1>4. record'.contract = job[w].contract
  BY DEF WritePending, RecordCreated, Explain, WriteVerified, MetaFailed, Write
<1>5. record # NoRecord => record'.contract = record.contract
  BY <1>1, <1>4 DEF RecordFits, WritePending, RecordCreated, Explain, WriteVerified, MetaFailed
<1>6. CASE WritePending(w)
  <2>1. pc[w] = "pend" /\ Write(w, "pending", job[w].known, job[w].meta, "create")
    BY <1>6 DEF WritePending
  <2>2. RecordFits(w)'
    BY <1>1, <1>2, <2>1, WriterFits
  <2>3. record # NoRecord => record'.remote = record.remote
    BY <1>1, <2>1 DEF RecordFits, Write
  <2> QED
    BY <1>3, <1>5, <2>2, <2>3
<1>7. CASE RecordCreated(w)
  <2>1. pc[w] = "record" /\ record.remote = job[w].known
    BY <1>1, <1>7 DEF RecordCreated, RecordFits, Heading, UsesKnown
  <2>2. CASE IdentityConflict(w)
    <3>1. Write(w, "created_unverified", job[w].known, job[w].meta, "leave")
      BY <1>7, <2>2 DEF RecordCreated
    <3>2. RecordFits(w)'
      BY <1>1, <1>2, <2>1, <3>1, WriterFits
    <3>3. record'.remote = record.remote
      BY <2>1, <3>1 DEF Write
    <3> QED
      BY <1>3, <1>5, <3>2, <3>3
  <2>3. CASE ~IdentityConflict(w)
    <3>1. PICK next \in {"get", "explain"} :
              Write(w, "created_unverified", job[w].id, job[w].meta, next)
      BY <1>7, <2>3 DEF RecordCreated
    <3>2. RecordFits(w)'
      BY <1>1, <1>2, <2>1, <3>1, WriterFits
    <3>3. record.remote # NoId => record'.remote = record.remote
      BY <2>1, <2>3, <3>1 DEF Write, IdentityConflict
    <3> QED
      BY <1>3, <1>5, <3>2, <3>3
  <2> QED
    BY <2>2, <2>3
<1>8. CASE Explain(w)
  <2>1. /\ Write(w, "created_unverified", job[w].id, job[w].meta, "leave")
        /\ pc[w] = "explain" /\ record.remote = job[w].id
    BY <1>1, <1>8 DEF Explain, RecordFits, Heading, UsesId
  <2>2. RecordFits(w)'
    BY <1>1, <1>2, <2>1, WriterFits
  <2>3. record'.remote = record.remote
    BY <2>1 DEF Write
  <2> QED
    BY <1>3, <1>5, <2>2, <2>3
<1>9. CASE WriteVerified(w)
  <2>1. /\ Write(w, "verified", job[w].id, job[w].meta, "leave")
        /\ pc[w] = "finishing" /\ record.remote = job[w].id
    BY <1>1, <1>9 DEF WriteVerified, RecordFits, Heading, UsesId
  <2>2. RecordFits(w)'
    BY <1>1, <1>2, <2>1, WriterFits
  <2>3. record'.remote = record.remote
    BY <2>1 DEF Write
  <2> QED
    BY <1>3, <1>5, <2>2, <2>3
<1>10. CASE MetaFailed(w) /\ job[w].policy = "required"
  <2>1. /\ Write(w, "created_unverified", job[w].id, "unverified", "leave")
        /\ pc[w] = "metaFailed" /\ record.remote = job[w].id
    BY <1>1, <1>10 DEF MetaFailed, RecordFits, Heading, UsesId
  <2>2. RecordFits(w)'
    BY <1>1, <1>2, <2>1, WriterFits DEF MetaStates
  <2>3. record'.remote = record.remote
    BY <2>1 DEF Write
  <2> QED
    BY <1>3, <1>5, <2>2, <2>3
<1> QED
  BY <1>6, <1>7, <1>8, <1>9, <1>10

(* The other steps of the holder leave the record, and its job still fits. *)
LEMMA HolderGoesOn ==
    ASSUME KInv, ~contested, NEW w \in Workers, pc[w] \notin {"idle", "enter"}, Moves(w),
           ~(\/ WritePending(w) \/ RecordCreated(w) \/ Explain(w) \/ WriteVerified(w)
             \/ MetaFailed(w) /\ job[w].policy = "required")
    PROVE  /\ UNCHANGED record
           /\ pc'[w] # "idle" => RecordFits(w)' /\ UNCHANGED valid
<1>1. /\ job[w] \in Jobs /\ valid = w /\ RecordFits(w)
      /\ pc \in [Workers -> Labels] /\ job \in [Workers -> Jobs \cup {NoJob}]
      /\ pc[w] = "reread" => job[w].next \in {"create", "get", "explain", "leave"}
      /\ pc[w] = "read" => job[w].known = NoId
      /\ record # NoRecord => record \in Records
  BY DEF KInv, NothingKnown, HolderKnows, IInv, WorkTypeOK, WritesLeadBack
<1>2. CASE Leave(w) \/ Crash(w)
  <2>1. UNCHANGED record
    BY <1>2 DEF Leave, Crash
  <2>2. pc' = [pc EXCEPT ![w] = "idle"]
    BY <1>2 DEF Leave, Crash, Goto
  <2>3. pc'[w] = "idle"
    BY <1>1, <2>2
  <2> QED
    BY <2>1, <2>3
<1>3. CASE ReadRecord(w)
  <2>1. UNCHANGED <<record, valid>>
    BY <1>3 DEF ReadRecord
  <2>2. CASE pc' = [pc EXCEPT ![w] = "leave"]
    BY <1>1, <2>1, <2>2 DEF RecordFits, Heading, UsesKnown, UsesId
  <2>3. CASE record = NoRecord /\ UNCHANGED job /\ pc' = [pc EXCEPT ![w] = "pend"]
    BY <1>1, <1>3, <2>1, <2>3 DEF RecordFits, Heading, UsesKnown, UsesId, ReadRecord
  <2>4. CASE /\ record # NoRecord /\ record.contract = job[w].contract
             /\ pc' = [pc EXCEPT ![w] = "pend"]
             /\ job' = [job EXCEPT ![w].known = record.remote,
                                   ![w].wasVerified = (record.state = "verified")]
    <3> DEFINE verified == record.state = "verified"
    <3>1. job'[w] = [job[w] EXCEPT !.known = record.remote, !.wasVerified = verified]
      BY <1>1, <2>4
    <3> HIDE DEF verified
    <3>2. job'[w].known = record.remote /\ job'[w].contract = job[w].contract
      BY <1>1, <3>1 DEF Jobs
    <3> QED
      BY <1>1, <2>1, <2>4, <3>2 DEF RecordFits, Heading, UsesKnown, UsesId
  <2> QED
    BY <1>3, <2>2, <2>3, <2>4 DEF ReadRecord, Goto
<1>4. CASE Reread(w)
  BY <1>1, <1>4 DEF Reread, Goto, RecordFits, Heading, UsesKnown, UsesId
<1>5. CASE \/ Beat(w, "create", "creating", "leave") \/ Beat(w, "get", "getting", "leave")
           \/ Beat(w, "set", "setting", "metaFailed") \/ Beat(w, "list", "listing", "metaFailed")
           \/ Beat(w, "final", "finishing", "leave")
  BY <1>1, <1>5 DEF Beat, Goto, Lock!Call, RecordFits, Heading, UsesKnown, UsesId
<1>6. CASE Created(w)
  <2>1. UNCHANGED <<record, valid>> /\ pc[w] = "creating"
    BY <1>6 DEF Created, Lock!Return
  <2>2. PICK i \in Ids :
            \/ /\ pc' = [pc EXCEPT ![w] = "record"]
               /\ \/ job' = [job EXCEPT ![w] = [job[w] EXCEPT !.id = i, !.keyed = TRUE]]
                  \/ job' = [job EXCEPT ![w] = [job[w] EXCEPT !.id = i]]
            \/ pc' = [pc EXCEPT ![w] = "leave"]
    BY <1>1, <1>6 DEF Created, Goto
  <2>3. CASE pc' = [pc EXCEPT ![w] = "leave"]
    BY <1>1, <2>1, <2>3 DEF RecordFits, Heading, UsesKnown, UsesId
  <2>4. CASE pc' = [pc EXCEPT ![w] = "record"] /\ pc'[w] # "leave"
    <3>1. job'[w].known = job[w].known /\ job'[w].contract = job[w].contract
      BY <1>1, <2>2, <2>4 DEF Jobs
    <3> QED
      BY <1>1, <2>1, <2>4, <3>1 DEF RecordFits, Heading, UsesKnown, UsesId
  <2> QED
    BY <1>1, <2>2, <2>3, <2>4
<1>7. CASE CreateFails(w) \/ Got(w) \/ MetadataSet(w)
  BY <1>1, <1>7 DEF CreateFails, Got, MetadataSet, Goto, Lock!Return, RecordFits, Heading,
     UsesKnown, UsesId
<1>8. CASE MetadataListed(w) \/ (MetaFailed(w) /\ job[w].policy # "required")
  <2>1. /\ UNCHANGED <<record, valid>> /\ pc[w] \in {"listing", "metaFailed"}
        /\ pc' = [pc EXCEPT ![w] = "final"] \/ pc' = [pc EXCEPT ![w] = "metaFailed"]
    BY <1>8 DEF MetadataListed, MetaFailed, Lock!Return, Goto
  <2>2. job'[w].id = job[w].id /\ job'[w].contract = job[w].contract
    <3>1. UNCHANGED job \/ \E m \in {"verified", "unverified"} :
                               job' = [job EXCEPT ![w] = [job[w] EXCEPT !.meta = m]]
      BY <1>1, <1>8 DEF MetadataListed, MetaFailed
    <3> QED
      BY <1>1, <3>1 DEF Jobs
  <2> QED
    BY <1>1, <2>1, <2>2 DEF RecordFits, Heading, UsesKnown, UsesId
<1>9. ~(Ensure(w) \/ Retry(w) \/ Enter(w) \/ GiveUp(w))
  BY DEF Ensure, Retry, Start, Enter, GiveUp
<1> QED
  BY <1>2, <1>3, <1>4, <1>5, <1>6, <1>7, <1>8, <1>9 DEF Moves, Step, MetaFailed

(* A step of the environment under an uncontested lease leaves the record, the
   lease and the workers alone. *)
LEMMA EnvironmentWaits ==
    ASSUME ~contested, Environment \/ UNCHANGED vars
    PROVE  UNCHANGED <<record, valid, pc, job>>
  BY DEF Environment, Dispossess, LateCreate, ForeignCreate, Progress, Meddle, vars

(* Every step keeps what the holder knows. *)
LEMMA NextKInv == KInv /\ [Next]_vars => KInv'
<1> SUFFICES ASSUME KInv, [Next]_vars PROVE KInv'
  OBVIOUS
<1>1. IInv'
  BY NextIInv DEF KInv
<1>2. UNCHANGED contested
  BY DEF Next, vars
<1>3. NothingKnown'
  <2>1. CASE Environment \/ UNCHANGED vars
    <3>1. UNCHANGED <<pc, job>>
      BY <2>1 DEF Environment, Dispossess, LateCreate, ForeignCreate, Progress, Meddle, vars
    <3> QED
      BY <3>1 DEF KInv, NothingKnown
  <2>2. ASSUME NEW v \in Workers, Moves(v) PROVE NothingKnown'
    <3>1. ASSUME NEW w \in Workers, w # v, pc'[w] \in {"enter", "read"}
          PROVE  job'[w].known = NoId
      <4>1. pc'[w] = pc[w] /\ job'[w] = job[w]
        BY <2>2, <3>1, OthersStay DEF KInv
      <4> QED
        BY <3>1, <4>1 DEF KInv, NothingKnown
    <3>2. ASSUME pc'[v] \in {"enter", "read"} PROVE job'[v].known = NoId
      <4>1. pc \in [Workers -> Labels] /\ job \in [Workers -> Jobs \cup {NoJob}]
        BY DEF KInv, IInv, WorkTypeOK
      <4>2. CASE Enter(v)
        BY <4>1, <4>2 DEF Enter, Goto, KInv, NothingKnown
      <4>3. ASSUME NEW c, NEW policy, Start(v, c, policy) PROVE job'[v].known = NoId
        BY <4>1, <4>3 DEF Start, NewJob
      <4>4. CASE Ensure(v) \/ Retry(v)
        BY <4>3, <4>4 DEF Ensure, Retry
      <4>5. CASE GiveUp(v) \/ Crash(v) \/ Leave(v)
        BY <3>2, <4>1, <4>5 DEF GiveUp, Crash, Leave, Goto
      <4>6. CASE Reread(v)
        BY <3>2, <4>1, <4>6 DEF Reread, Goto, KInv, IInv, WritesLeadBack
      <4>7. CASE Step(v) /\ ~Enter(v) /\ ~GiveUp(v) /\ ~Leave(v) /\ ~Reread(v)
        BY <3>2, <4>1, <4>7 DEF Step, ReadRecord, WritePending, Beat, Created, CreateFails,
           RecordCreated, Explain, Got, MetadataSet, MetadataListed, MetaFailed,
           WriteVerified, Write, Goto
      <4> QED
        BY <2>2, <4>2, <4>4, <4>5, <4>6, <4>7 DEF Moves
    <3> QED
      BY <3>1, <3>2 DEF NothingKnown
  <2> QED
    BY <2>1, <2>2 DEF Next, Moves
<1>4. HolderKnows'
  <2> SUFFICES ASSUME ~contested, NEW w \in Workers, pc'[w] \notin {"idle", "enter"}
               PROVE  valid' = w /\ RecordFits(w)'
    BY <1>2 DEF HolderKnows
  <2>1. CASE Environment \/ UNCHANGED vars
    <3>1. UNCHANGED <<record, valid, pc, job>>
      BY <2>1, EnvironmentWaits
    <3> QED
      BY <3>1 DEF KInv, HolderKnows, RecordFits, Heading
  <2>2. ASSUME NEW v \in Workers, Moves(v), v # w PROVE valid' = w /\ RecordFits(w)'
    <3>1. pc'[w] = pc[w] /\ job'[w] = job[w]
      BY <2>2, OthersStay DEF KInv
    <3>2. valid = w /\ RecordFits(w)
      BY <3>1 DEF KInv, HolderKnows
    <3>3. UNCHANGED <<record, valid>>
      BY <2>2, <3>2, OutsidersWait, ConstantsAssumption
    <3> QED
      BY <3>1, <3>2, <3>3 DEF RecordFits, Heading
  <2>3. CASE Moves(w)
    <3>1. pc \in [Workers -> Labels] /\ job \in [Workers -> Jobs \cup {NoJob}]
      BY DEF KInv, IInv, WorkTypeOK
    <3>2. CASE pc[w] \in {"idle", "enter"}
      <4>1. Enter(w) \/ Ensure(w) \/ Retry(w) \/ GiveUp(w) \/ Crash(w)
        BY <2>3, <3>2 DEF Moves, Step, ReadRecord, WritePending, Reread, Beat, Created,
           CreateFails, RecordCreated, Explain, Got, MetadataSet, MetadataListed, MetaFailed,
           WriteVerified, Leave
      <4>2. Enter(w)
        BY <3>1, <4>1 DEF Ensure, Retry, Start, GiveUp, Crash, Goto
      <4>3. valid' = w /\ pc'[w] = "read"
        BY <3>1, <4>2 DEF Enter, Lock!Enter, Goto
      <4> QED
        BY <4>3 DEF RecordFits, Heading, UsesKnown, UsesId
    <3>3. CASE pc[w] \notin {"idle", "enter"}
      <4>1. valid = w
        BY <3>3 DEF KInv, HolderKnows
      <4>2. valid' = valid /\ RecordFits(w)'
        BY <2>3, <3>3, HolderWrites, HolderGoesOn
      <4> QED
        BY <4>1, <4>2
    <3> QED
      BY <3>2, <3>3
  <2> QED
    BY <2>1, <2>2, <2>3 DEF Next, Moves
<1> QED
  BY <1>1, <1>3, <1>4 DEF KInv

LEMMA InitKInv == Init => KInv
  BY InitIInv DEF Init, KInv, NothingKnown, HolderKnows

(* No step forgets or replaces the recorded identity or the recorded contract. *)
LEMMA RecordKept ==
    ASSUME KInv, [Next]_vars, ~contested, record # NoRecord
    PROVE  /\ record'.contract = record.contract
           /\ record.remote # NoId => record'.remote = record.remote
<1>1. CASE Environment \/ UNCHANGED vars
  BY <1>1, EnvironmentWaits
<1>2. ASSUME NEW v \in Workers, Moves(v)
      PROVE  /\ record'.contract = record.contract
             /\ record.remote # NoId => record'.remote = record.remote
  <2>1. CASE pc[v] \in {"idle", "enter"}
    <3>1. Enter(v) \/ Ensure(v) \/ Retry(v) \/ GiveUp(v) \/ Crash(v)
      BY <1>2, <2>1 DEF Moves, Step, ReadRecord, WritePending, Reread, Beat, Created,
         CreateFails, RecordCreated, Explain, Got, MetadataSet, MetadataListed, MetaFailed,
         WriteVerified, Leave
    <3> QED
      BY <3>1 DEF Enter, Ensure, Retry, Start, GiveUp, Crash
  <2>2. CASE pc[v] \notin {"idle", "enter"}
    BY <1>2, <2>2, HolderWrites, HolderGoesOn
  <2> QED
    BY <2>1, <2>2
<1> QED
  BY <1>1, <1>2 DEF Next, Moves

(* The identity of a created ticket is never forgotten or replaced while the
   lease is not taken from a running worker. *)
THEOREM RemoteIsKept == Spec => RemoteNeverForgotten
<1>1. KInv /\ [Next]_vars =>
          [~contested /\ record # NoRecord /\ record.remote # NoId =>
               record'.remote = record.remote]_vars
  BY RecordKept
<1> QED
  BY <1>1, InitKInv, NextKInv, PTL DEF Spec, RemoteNeverForgotten

(* A request that shares the key but not the contract never replaces the stored
   one while the lease is not taken from a running worker. *)
THEOREM ContractIsKept == Spec => ContractStable
<1>1. KInv /\ [Next]_vars =>
          [~contested /\ record # NoRecord => record'.contract = record.contract]_vars
  BY RecordKept
<1> QED
  BY <1>1, InitKInv, NextKInv, PTL DEF Spec, ContractStable
=============================================================================
