------------------------------ MODULE Finalizer ------------------------------
(***************************************************************************)
(* The finalizer of a response: the response announces continuations in its *)
(* prose and accounts for them in a ledger, and it passes when the ledger   *)
(* is complete, covers the prose, and every item is proved by its ticket as *)
(* the tracker has it and, for an item said to be done, by the log of       *)
(* mutations.  Tickets change and mutations are recorded while it reads.    *)
(***************************************************************************)
EXTENDS Integers, Sequences, FiniteSets

CONSTANTS LedgerTickets,   \* tickets a ledger may name
          LedgerRuns,      \* runs (with their sessions) that record mutations
          MaxProofs        \* mutation records

ASSUME FinalizerAssumption == MaxProofs \in Nat

VARIABLES
    tracker,     \* whether a ticket is open; closed stands for all that disproves it
    proofs,      \* the mutation records
    check,       \* the check of one response
    openSince    \* tickets that were open at some moment of the check

finalizerVars == <<tracker, proofs, check, openSince>>

(* What tells continuations apart: disposition and ticket stand for the lane, the
   action, the disposition and the ticket. *)
Monitoring == [disposition |-> "MONITORING ONLY", ticket |-> "none"]
Identities == [disposition : {"TRACKED", "MUTATED"}, ticket : LedgerTickets] \cup {Monitoring}

Items == [identity : Identities, complete : BOOLEAN]

(* A line of the prose may have a form no identity can be drawn from. *)
Lines == Identities \cup {[disposition |-> "none", ticket |-> "none"]}

UpTo(n, S) == UNION {[1 .. k -> S] : k \in 0 .. n}

(* A response without exactly one well-formed ledger fails as one with an item
   that is not complete does. *)
Responses == [items : UpTo(2, Items), prose : UpTo(2, Lines)]

Proofs == [ticket : LedgerTickets, run : LedgerRuns, success : BOOLEAN]

NoCheck == [stage |-> "none"]
Refused == [stage |-> "refused"]

FinalizerTypeOK ==
    /\ tracker \in [LedgerTickets -> {"open", "closed"}]
    /\ proofs \subseteq Proofs
    /\ check \in {NoCheck, Refused} \/ check \in [stage : {"ticket", "mutation", "PASS", "FAIL"},
                                      response : Responses, run : LedgerRuns,
                                      at : 1 .. 3, proved : BOOLEAN]
    /\ openSince \subseteq LedgerTickets

FinalizerInit ==
    /\ tracker \in [LedgerTickets -> {"open", "closed"}]
    /\ proofs = {}
    /\ check = NoCheck
    /\ openSince = {}

-----------------------------------------------------------------------------
(* finalizeContinuationLedger *)

FirstOf(S) == CHOOSE i \in S : \A j \in S : i <= j

(* The items that the lines before line n left.  Mutant: an item stays there to be matched
   by the next line. *)
BugUnmatched(r, match, n) == DOMAIN r.items

Unmatched(r, match, n) == {i \in DOMAIN r.items : \A m \in 1 .. n - 1 : match[m] # i}

(* Each line of the prose takes the first item of its identity that is left. *)
Covered(r) ==
    \E match \in [DOMAIN r.prose -> DOMAIN r.items] :
       \A n \in DOMAIN r.prose :
          LET same == {i \in Unmatched(r, match, n) : r.items[i].identity = r.prose[n]}
          IN  same # {} /\ match[n] = FirstOf(same)

Structured(r) ==
    /\ \A i \in DOMAIN r.items : r.items[i].complete
    /\ Covered(r)

-----------------------------------------------------------------------------
(* finalizeContinuationLedgerLive: item after item, with a read of the tracker
   for each that has a ticket and one of the log for each said to be mutated. *)

Identity == check.response.items[check.at].identity
OpenTickets == {t \in LedgerTickets : tracker[t] = "open"}

Advance(proved) ==
    LET next == check.at + 1
        done == next > Len(check.response.items)
    IN  check' = [check EXCEPT !.at = next, !.proved = @ /\ proved,
                               !.stage = IF ~done THEN "ticket"
                                         ELSE IF check.proved /\ proved THEN "PASS" ELSE "FAIL"]

CheckBegins ==
    /\ check = NoCheck
    /\ \E r \in Responses, run \in LedgerRuns :
          check' = IF Structured(r)
                   THEN [stage |-> IF r.items = <<>> THEN "PASS" ELSE "ticket",
                         response |-> r, run |-> run, at |-> 1, proved |-> TRUE]
                   ELSE Refused
    /\ openSince' = OpenTickets
    /\ UNCHANGED <<tracker, proofs>>

SkipMonitored ==
    /\ check.stage = "ticket"
    /\ Identity = Monitoring
    /\ Advance(TRUE)
    /\ UNCHANGED <<tracker, proofs, openSince>>

(* ticketReason: a ticket that is not found, of another parent or content, or
   closed, disproves its item; a tracker that cannot be read ends with the item. *)
ReadTicket ==
    /\ check.stage = "ticket"
    /\ Identity # Monitoring
    /\ \/ /\ Identity.disposition = "TRACKED"
          /\ Advance(tracker[Identity.ticket] = "open")
       \/ /\ Identity.disposition = "MUTATED"
          /\ check' = [check EXCEPT !.stage = "mutation",
                                    !.proved = @ /\ tracker[Identity.ticket] = "open"]
    /\ UNCHANGED <<tracker, proofs, openSince>>

TrackerUnreadable ==
    /\ check.stage = "ticket"
    /\ Identity # Monitoring
    /\ Advance(FALSE)
    /\ UNCHANGED <<tracker, proofs, openSince>>

(* mutationReason: one successful record of the ticket by this run is enough,
   whatever other records there are. *)
MutationProved ==
    \E p \in proofs : p.ticket = Identity.ticket /\ p.run = check.run /\ p.success

ReadMutations ==
    /\ check.stage = "mutation"
    /\ \/ Advance(MutationProved)
       \/ Advance(FALSE)
    /\ UNCHANGED <<tracker, proofs, openSince>>

-----------------------------------------------------------------------------
(* recordMutationProof: a record is one file named by what it says, and a second
   record of the same changes nothing. *)
RecordMutationProof ==
    /\ \E p \in Proofs : /\ Cardinality(proofs \cup {p}) <= MaxProofs
                         /\ proofs' = proofs \cup {p}
    /\ UNCHANGED <<tracker, check, openSince>>

TrackerChanges ==
    /\ \E t \in LedgerTickets, to \in {"open", "closed"} : tracker' = [tracker EXCEPT ![t] = to]
    /\ openSince' = openSince \cup {t \in LedgerTickets : tracker'[t] = "open"}
    /\ UNCHANGED <<proofs, check>>

FinalizerNext ==
    \/ CheckBegins \/ SkipMonitored \/ ReadTicket \/ TrackerUnreadable \/ ReadMutations
    \/ RecordMutationProof \/ TrackerChanges

FinalizerSpec == FinalizerInit /\ [][FinalizerNext]_finalizerVars

-----------------------------------------------------------------------------
(* A response that passed announced nothing its ledger does not account for, item
   for announcement; each ticket of its ledger was open at some moment of the check,
   and each item said to be done has a successful record by that very run.
   (finalizer.ts, finalizeContinuationLedgerLive) *)
PassIsProved ==
    check.stage = "PASS" =>
        LET r == check.response IN
        /\ \E f \in [DOMAIN r.prose -> DOMAIN r.items] :
              \A m, n \in DOMAIN r.prose :
                 /\ r.items[f[n]].identity = r.prose[n]
                 /\ f[m] = f[n] => m = n
        /\ \A i \in DOMAIN r.items :
              LET id == r.items[i].identity IN
              /\ r.items[i].complete
              /\ id # Monitoring => id.ticket \in openSince
              /\ id.disposition = "MUTATED" =>
                    \E p \in proofs : p.ticket = id.ticket /\ p.run = check.run /\ p.success
=============================================================================
