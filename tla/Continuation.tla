---------------------------- MODULE Continuation ----------------------------
(***************************************************************************)
(* ensureContinuation and retryContinuations of autonomy/coordination.ts:  *)
(* one durable follow-up ticket per stable key, created on a remote tracker *)
(* under the filesystem lease and recorded in                              *)
(* autonomy/continuations/<key>.json.                                      *)
(*                                                                         *)
(* One key is modelled.  Requests that share the key may still differ (the *)
(* key covers title, problem and source class only): the part that differs *)
(* is the request's contract.  The lease is the FencedLock that module     *)
(* Lease is proved to implement; record reads and writes, heartbeats and    *)
(* remote calls are separate steps.                                        *)
(*                                                                         *)
(* The tracker is external: a create with an idempotency key returns the   *)
(* live ticket that has the key, or a new one.  Faults (an outage, a lost   *)
(* answer, a crash, a meddling operator) draw on the budget MaxFaults.      *)
(***************************************************************************)
EXTENDS Naturals, FiniteSets

CONSTANTS Workers,      \* processes that ensure or retry the continuation
          NoWorker,
          Contracts,    \* the requests that share the key
          Ids,          \* identities the tracker may give to tickets
          NoId,
          NoRecord,
          NoTicket,
          NoJob,
          MaxFaults,
          MayTakeOver,  \* whether there are behaviours in which the lease is contested
          MayProgress,  \* whether the tracker's users retitle or move tickets
          MayMeddle     \* whether someone rewrites or deletes them while nobody contests the lease

ASSUME ConstantsAssumption ==
    /\ NoWorker \notin Workers
    /\ NoId \notin Ids
    /\ MaxFaults \in Nat
    /\ MayTakeOver \in BOOLEAN
    /\ MayProgress \in BOOLEAN
    /\ MayMeddle \in BOOLEAN

VARIABLES
    record,    \* the stored continuation record
    tickets,   \* the tracker's tickets that carry the key
    late,      \* contracts of create requests whose sender is gone
    inside, valid, calling,   \* the lease (FencedLock)
    pc,        \* where each worker is
    job,       \* what the worker's local variables hold
    contested, \* whether the lease may be taken from a running worker
    faults     \* faults left

Lock == INSTANCE FencedLock WITH Procs <- Workers, NoProc <- NoWorker

remote == <<tickets, late>>
lockVars == <<inside, valid, calling>>
vars == <<record, remote, lockVars, pc, job, contested, faults>>

Labels == {"idle", "enter", "read", "pend", "reread", "create", "creating",
           "record", "explain", "get", "getting", "set", "setting", "list",
           "listing", "metaFailed", "final", "finishing", "leave"}

Policies == {"none", "optional", "required"}
MetaStates == {"not_requested", "pending", "verified", "unverified"}

Records == [state : {"pending", "created_unverified", "verified"},
            contract : Contracts,
            remote : Ids \cup {NoId},
            meta : MetaStates,
            by : Workers]     \* stands for updated_at and attempts: whose write it is

(* mutableState: title and status are as created, or its users moved it on, or
   something the contract fixes was rewritten. *)
Tickets == [contract : Contracts,
            mutableState : {"asCreated", "progressed", "rewritten"},
            tagged : BOOLEAN,
            live : BOOLEAN]

Jobs == [contract : Contracts,
         policy : Policies,
         known : Ids \cup {NoId},    \* existing.remote
         wasVerified : BOOLEAN,
         id : Ids \cup {NoId},       \* identity the create call returned
         keyed : BOOLEAN,            \* the answer carried key and digest
         meta : MetaStates,
         next : Labels]              \* where a confirmed write leads

ASSUME AbsentAssumption ==
    NoRecord \notin Records /\ NoTicket \notin Tickets /\ NoJob \notin Jobs

(* The types of everything a step may change, and of what it may not. *)
WorkTypeOK ==
    /\ record \in Records \cup {NoRecord}
    /\ record # NoRecord /\ record.state # "pending" => record.remote # NoId
    /\ tickets \in [Ids -> Tickets \cup {NoTicket}]
    /\ late \subseteq Contracts
    /\ Lock!LockTypeOK
    /\ pc \in [Workers -> Labels]
    /\ job \in [Workers -> Jobs \cup {NoJob}]
    /\ \A w \in Workers : pc[w] # "idle" => job[w] # NoJob
    /\ faults \in 0 .. MaxFaults

TypeOK == WorkTypeOK /\ contested \in BOOLEAN

Init ==
    /\ record = NoRecord
    /\ tickets = [i \in Ids |-> NoTicket]
    /\ late = {}
    /\ Lock!LockInit
    /\ pc = [w \in Workers |-> "idle"]
    /\ job = [w \in Workers |-> NoJob]
    /\ contested \in {FALSE, MayTakeOver}
    /\ faults = IF contested /\ MaxFaults > 0 THEN MaxFaults - 1 ELSE MaxFaults

Goto(w, label) == pc' = [pc EXCEPT ![w] = label]

Fault == faults > 0 /\ faults' = faults - 1

NewJob(c, policy) ==
    [contract |-> c, policy |-> policy, known |-> NoId, wasVerified |-> FALSE,
     id |-> NoId, keyed |-> FALSE,
     meta |-> IF policy = "none" THEN "not_requested" ELSE "pending",
     next |-> "leave"]

-----------------------------------------------------------------------------
(* The tracker. *)

LiveIds == {i \in Ids : tickets[i] # NoTicket /\ tickets[i].live}

Unused == {i \in Ids : tickets[i] = NoTicket}

(* An idempotent create: the live ticket of the key, or a new one. *)
ServerCreate(c, i) ==
    \/ /\ i \in LiveIds
       /\ UNCHANGED tickets
    \/ /\ LiveIds = {}
       /\ i \in Unused
       /\ tickets' = [tickets EXCEPT ![i] =
              [contract |-> c, mutableState |-> "asCreated", tagged |-> FALSE, live |-> TRUE]]

-----------------------------------------------------------------------------
(* Starting, and the lease. *)

Start(w, c, policy) ==
    /\ pc[w] = "idle"
    /\ job' = [job EXCEPT ![w] = NewJob(c, policy)]
    /\ Goto(w, "enter")
    /\ UNCHANGED <<record, remote, lockVars, faults>>

Ensure(w) == \E c \in Contracts, policy \in Policies : Start(w, c, policy)

(* Mutant: only records that never got an answer are retried. *)
BugRetry(w) ==
    /\ record # NoRecord
    /\ record.state = "pending"
    /\ \E policy \in Policies :
          Start(w, record.contract, IF record.meta = "not_requested" THEN "none" ELSE policy)

(* retryContinuations picks a record that is not verified, without the lease,
   and ensures the request stored in it. *)
Retry(w) ==
    /\ record # NoRecord
    /\ record.state # "verified"
    /\ \E policy \in Policies :
          Start(w, record.contract, IF record.meta = "not_requested" THEN "none" ELSE policy)

Enter(w) ==
    /\ pc[w] = "enter"
    /\ valid = NoWorker \/ contested
    /\ Lock!Enter(w)
    /\ Goto(w, "read")
    /\ UNCHANGED <<record, remote, job, faults>>

(* continuation_lock_timeout *)
GiveUp(w) ==
    /\ pc[w] = "enter"
    /\ valid # NoWorker
    /\ Goto(w, "idle")
    /\ job' = [job EXCEPT ![w] = NoJob]
    /\ UNCHANGED <<record, remote, lockVars, faults>>

(* A heartbeat, and then the remote call at once; a lost lease ends up at
   label "lost". *)
Beat(w, from, to, lost) ==
    /\ pc[w] = from
    /\ \/ /\ Lock!Call(w)
          /\ Goto(w, to)
       \/ /\ valid # w
          /\ Goto(w, lost)
          /\ UNCHANGED lockVars
    /\ UNCHANGED <<record, remote, job, faults>>

(* The finally block. *)
Leave(w) ==
    /\ pc[w] = "leave"
    /\ Lock!Leave(w)
    /\ Goto(w, "idle")
    /\ job' = [job EXCEPT ![w] = NoJob]
    /\ UNCHANGED <<record, remote, faults>>

-----------------------------------------------------------------------------
(* The record. *)

(* Mutant: a stored record of another contract is replayed. *)
BugReadRecord(w) ==
    /\ pc[w] = "read"
    /\ IF record = NoRecord
       THEN UNCHANGED job
       ELSE job' = [job EXCEPT ![w].known = record.remote,
                               ![w].wasVerified = (record.state = "verified")]
    /\ Goto(w, "pend")
    /\ UNCHANGED <<record, remote, lockVars, faults>>

ReadRecord(w) ==
    /\ pc[w] = "read"
    /\ \/ /\ record = NoRecord
          /\ Goto(w, "pend")
          /\ UNCHANGED job
       \/ /\ record # NoRecord
          /\ record.contract # job[w].contract       \* continuation_conflict
          /\ Goto(w, "leave")
          /\ UNCHANGED job
       \/ /\ record # NoRecord
          /\ record.contract = job[w].contract
          /\ job' = [job EXCEPT ![w].known = record.remote,
                                ![w].wasVerified = (record.state = "verified")]
          /\ Goto(w, "pend")
    /\ UNCHANGED <<record, remote, lockVars, faults>>

(* writeContinuationRecord: the write, which no heartbeat precedes ... *)
Write(w, state, id, meta, next) ==
    /\ record' = [state |-> state, contract |-> job[w].contract, remote |-> id,
                  meta |-> meta, by |-> w]
    /\ job' = [job EXCEPT ![w].next = next]
    /\ Goto(w, "reread")

(* ... and its readback (continuation_state_readback_failed). *)
Reread(w) ==
    /\ pc[w] = "reread"
    /\ Goto(w, IF record.by = w THEN job[w].next ELSE "leave")
    /\ UNCHANGED <<record, remote, lockVars, job, faults>>

(* Mutant: a replay starts from a record without the remote identity. *)
BugWritePending(w) ==
    /\ pc[w] = "pend"
    /\ Write(w, "pending", NoId, job[w].meta, "create")
    /\ UNCHANGED <<remote, lockVars, faults>>

WritePending(w) ==
    /\ pc[w] = "pend"
    /\ Write(w, "pending", job[w].known, job[w].meta, "create")
    /\ UNCHANGED <<remote, lockVars, faults>>

(* The tracker's identity for the key differs from the recorded one. *)
IdentityConflict(w) == job[w].known \notin {NoId, job[w].id}

RecordCreated(w) ==
    /\ pc[w] = "record"
    /\ IF IdentityConflict(w)
       THEN Write(w, "created_unverified", job[w].known, job[w].meta, "leave")
       ELSE Write(w, "created_unverified", job[w].id, job[w].meta,
                  IF job[w].keyed THEN "get" ELSE "explain")
    /\ UNCHANGED <<remote, lockVars, faults>>

(* create_contract_invalid or readback_mismatch is recorded as the reason. *)
Explain(w) ==
    /\ pc[w] = "explain"
    /\ Write(w, "created_unverified", job[w].id, job[w].meta, "leave")
    /\ UNCHANGED <<remote, lockVars, faults>>

(* Mutant: metadata that could not be verified is recorded as verified. *)
BugMetaFailed(w) ==
    /\ pc[w] = "metaFailed"
    /\ \/ /\ job[w].policy = "required"
          /\ Write(w, "created_unverified", job[w].id, "unverified", "leave")
       \/ /\ job[w].policy # "required"
          /\ job' = [job EXCEPT ![w].meta = "verified"]
          /\ Goto(w, "final")
          /\ UNCHANGED record
    /\ UNCHANGED <<remote, lockVars, faults>>

(* The catch block around the metadata calls. *)
MetaFailed(w) ==
    /\ pc[w] = "metaFailed"
    /\ \/ /\ job[w].policy = "required"
          /\ Write(w, "created_unverified", job[w].id, "unverified", "leave")
       \/ /\ job[w].policy # "required"
          /\ job' = [job EXCEPT ![w].meta = "unverified"]
          /\ Goto(w, "final")
          /\ UNCHANGED record
    /\ UNCHANGED <<remote, lockVars, faults>>

(* The last heartbeat was the fence of this write. *)
WriteVerified(w) ==
    /\ pc[w] = "finishing"
    /\ Lock!Return(w)
    /\ Write(w, "verified", job[w].id, job[w].meta, "leave")
    /\ UNCHANGED <<remote, faults>>

-----------------------------------------------------------------------------
(* Remote calls. *)

(* issue create: the answer arrives, with or without key and digest, or it is
   lost after the tracker acted. *)
Created(w) ==
    /\ pc[w] = "creating"
    /\ \E i \in Ids :
          /\ ServerCreate(job[w].contract, i)
          /\ \/ /\ job' = [job EXCEPT ![w].id = i, ![w].keyed = TRUE]
                /\ Goto(w, "record")
                /\ UNCHANGED faults
             \/ /\ job' = [job EXCEPT ![w].id = i]
                /\ Goto(w, "record")
                /\ Fault
             \/ /\ Goto(w, "leave")
                /\ Fault
                /\ UNCHANGED job
    /\ Lock!Return(w)
    /\ UNCHANGED <<record, late>>

(* issue create fails: the request never arrives, or arrives after its sender
   has given up. *)
CreateFails(w) ==
    /\ pc[w] = "creating"
    /\ Fault
    /\ \/ UNCHANGED late
       \/ late' = late \cup {job[w].contract}
    /\ Goto(w, "leave")
    /\ Lock!Return(w)
    /\ UNCHANGED <<record, tickets, job>>

(* Mutant: what the ticket was created for is not compared. *)
BugMatches(w, t) ==
    \/ t.mutableState = "asCreated"
    \/ t.mutableState = "progressed" /\ job[w].wasVerified /\ job[w].known = job[w].id

Matches(w, t) ==
    /\ t.contract = job[w].contract
    /\ \/ t.mutableState = "asCreated"
       \/ t.mutableState = "progressed" /\ job[w].wasVerified /\ job[w].known = job[w].id

(* issue get: the live ticket is compared with the contract. *)
Got(w) ==
    /\ pc[w] = "getting"
    /\ LET t == tickets[job[w].id]
       IN  \/ /\ t.live /\ Matches(w, t)
              /\ Goto(w, IF job[w].policy = "none" THEN "final" ELSE "set")
              /\ UNCHANGED faults
           \/ /\ t.live /\ ~Matches(w, t)
              /\ Goto(w, "explain")
              /\ UNCHANGED faults
           \/ /\ ~t.live
              /\ Goto(w, "leave")
              /\ UNCHANGED faults
           \/ /\ Goto(w, "leave")
              /\ Fault
    /\ Lock!Return(w)
    /\ UNCHANGED <<record, remote, job>>

(* issue metadata set; a failure may come before or after the tracker acted. *)
MetadataSet(w) ==
    /\ pc[w] = "setting"
    /\ LET i == job[w].id
           tag == tickets' = [tickets EXCEPT ![i] = [@ EXCEPT !.tagged = TRUE]]
       IN  \/ /\ tickets[i].live
              /\ tag
              /\ Goto(w, "list")
              /\ UNCHANGED faults
           \/ /\ ~tickets[i].live
              /\ Goto(w, "metaFailed")
              /\ UNCHANGED <<tickets, faults>>
           \/ /\ tag \/ UNCHANGED tickets
              /\ Goto(w, "metaFailed")
              /\ Fault
    /\ Lock!Return(w)
    /\ UNCHANGED <<record, late, job>>

(* issue metadata list *)
MetadataListed(w) ==
    /\ pc[w] = "listing"
    /\ LET t == tickets[job[w].id]
       IN  \/ /\ t.live /\ t.tagged
              /\ job' = [job EXCEPT ![w].meta = "verified"]
              /\ Goto(w, "final")
              /\ UNCHANGED faults
           \/ /\ ~(t.live /\ t.tagged)
              /\ Goto(w, "metaFailed")
              /\ UNCHANGED <<job, faults>>
           \/ /\ Goto(w, "metaFailed")
              /\ Fault
              /\ UNCHANGED job
    /\ Lock!Return(w)
    /\ UNCHANGED <<record, remote>>

-----------------------------------------------------------------------------
(* The environment. *)

(* A worker is killed anywhere; a create it had sent may still arrive. *)
Crash(w) ==
    /\ pc[w] # "idle"
    /\ Fault
    /\ late' = IF pc[w] = "creating" THEN late \cup {job[w].contract} ELSE late
    /\ IF w \in inside THEN Lock!Leave(w) ELSE UNCHANGED lockVars
    /\ Goto(w, "idle")
    /\ job' = [job EXCEPT ![w] = NoJob]
    /\ UNCHANGED <<record, tickets>>

(* The lease of a running worker is taken over. *)
Dispossess ==
    /\ contested
    /\ valid # NoWorker
    /\ Lock!Dispossess
    /\ UNCHANGED <<record, remote, pc, job, faults>>

(* A delayed create request, or one from another clone of the repository. *)
LateCreate ==
    /\ \E c \in late, i \in Ids :
          /\ ServerCreate(c, i)
          /\ late' = late \ {c}
    /\ UNCHANGED <<record, lockVars, pc, job, faults>>

ForeignCreate ==
    /\ Fault
    /\ \E c \in Contracts, i \in Ids : ServerCreate(c, i)
    /\ UNCHANGED <<record, late, lockVars, pc, job>>

(* The tracker's users retitle the ticket or move it to another status. *)
Progress ==
    /\ MayProgress
    /\ \E i \in LiveIds :
          /\ tickets[i].mutableState = "asCreated"
          /\ tickets' = [tickets EXCEPT ![i] = [@ EXCEPT !.mutableState = "progressed"]]
    /\ UNCHANGED <<record, late, lockVars, pc, job, faults>>

(* Someone rewrites what the contract fixes, or deletes the ticket. *)
Meddle ==
    /\ MayMeddle /\ ~contested
    /\ Fault
    /\ \E i \in LiveIds :
          \/ tickets' = [tickets EXCEPT ![i] = [@ EXCEPT !.mutableState = "rewritten"]]
          \/ tickets' = [tickets EXCEPT ![i] = [@ EXCEPT !.live = FALSE]]
    /\ UNCHANGED <<record, late, lockVars, pc, job>>

-----------------------------------------------------------------------------
Step(w) ==
    \/ Enter(w) \/ GiveUp(w) \/ ReadRecord(w) \/ WritePending(w) \/ Reread(w)
    \/ Beat(w, "create", "creating", "leave") \/ Created(w) \/ CreateFails(w)
    \/ RecordCreated(w) \/ Explain(w)
    \/ Beat(w, "get", "getting", "leave") \/ Got(w)
    \/ Beat(w, "set", "setting", "metaFailed") \/ MetadataSet(w)
    \/ Beat(w, "list", "listing", "metaFailed") \/ MetadataListed(w) \/ MetaFailed(w)
    \/ Beat(w, "final", "finishing", "leave") \/ WriteVerified(w)
    \/ Leave(w)

Environment ==
    Dispossess \/ LateCreate \/ ForeignCreate \/ Progress \/ Meddle

Next ==
    /\ \/ \E w \in Workers : Ensure(w) \/ Retry(w) \/ Step(w) \/ Crash(w)
       \/ Environment
    /\ UNCHANGED contested

Spec == Init /\ [][Next]_vars

(* A running worker keeps going, one that waits for the lease gets it when it
   is free again and again, and the scheduled loop keeps retrying. *)
FairSpec ==
    /\ Spec
    /\ \A w \in Workers :
          /\ WF_vars(Step(w) /\ UNCHANGED contested)
          /\ SF_vars(Enter(w) /\ UNCHANGED contested)
          /\ SF_vars(Retry(w) /\ UNCHANGED contested)

-----------------------------------------------------------------------------
(* Properties. *)

Verified == record # NoRecord /\ record.state = "verified"

(* A verified record names a ticket that was created for exactly the recorded
   contract, whichever clone, delayed request or displaced worker created it
   and however writes of workers that lost the lease land. *)
VerifiedIsWhatWasAsked ==
    Verified =>
        /\ record.remote # NoId
        /\ tickets[record.remote] # NoTicket
        /\ tickets[record.remote].contract = record.contract

(* Metadata recorded as verified is on the recorded ticket, even when some of
   the calls failed, timed out after acting, or were made without the lease. *)
MetadataIsThere ==
    Verified /\ record.meta = "verified" =>
        tickets[record.remote].tagged

(* The identity of a created ticket is never forgotten or replaced: crashes,
   lost answers and a tracker that answers with another ticket leave it. *)
RemoteNeverForgotten ==
    [][~contested /\ record # NoRecord /\ record.remote # NoId =>
           record'.remote = record.remote]_vars

(* A request that shares the key but not the contract never replaces the
   stored one. *)
ContractStable ==
    [][~contested /\ record # NoRecord => record'.contract = record.contract]_vars

(* A recorded continuation ends up verified once outages stop: whatever failed,
   crashed or arrived late before, a retry completes it. *)
Converges == record # NoRecord ~> Verified

(* A continuation that was verified is verified again after any outage.  The
   test tests/autonomy-coordination.test.ts:838 says that a crash and an outage
   remain recoverable, and the one at :759 that a verified ticket that was
   retitled or closed is replayed. *)
VerifiedRecovers == [](Verified => []<>Verified)
=============================================================================
