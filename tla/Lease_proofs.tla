---------------------------- MODULE Lease_proofs ----------------------------
(***************************************************************************)
(* Proofs about the filesystem lease, for every set of processes and hosts, *)
(* every lease length and every environment of module Lease.               *)
(***************************************************************************)
EXTENDS Lease, TLAPS

(* A process that wrote the owner file of an attempt and has not claimed yet. *)
Claiming(p) == pc[p] \in {"mkdir", "claimDir", "claimRename"}

(* Exactly the processes in an attempt or in possession have a nonce. *)
HasNonce ==
    \A p \in Procs : (Claiming(p) \/ Holding(p)) <=> nonce[p] # NoNonce

(* Two processes never work under one nonce. *)
DistinctNonces ==
    \A p, q \in Procs : nonce[p] # NoNonce /\ nonce[p] = nonce[q] => p = q

(* Nobody has seen the nonce of an attempt before its claim is written, and its
   owner file is in place. *)
UnseenBeforeClaim ==
    \A p \in Procs : Claiming(p) =>
        /\ claim # nonce[p]
        /\ \A q \in Procs : seen[q] # nonce[p]
        /\ ownerFile[nonce[p]] # NoFile
        /\ ownerFile[nonce[p]].by = p

(* The nonce of a stale lock being retired is no longer the claim of a holder. *)
RetiredIsGone ==
    \A p, q \in Procs :
        pc[q] = "retire" /\ Holding(p) /\ seen[q] = nonce[p] => claim # nonce[p]

(* What a waiter judges a standing claim by is the holder's own owner file. *)
JudgedByOwnFile ==
    \A p, q \in Procs :
        pc[q] \in {"judge", "move"} /\ Holding(p) /\ seen[q] = nonce[p] /\ claim = nonce[p] =>
            seenOwner[q] # NoFile /\ seenOwner[q].by = p

(* A claim is a file of the lock directory, and so is the temporary file it is
   written to. *)
ClaimNeedsDir ==
    /\ lockDir = NoNonce => claim = NoNonce
    /\ \A p \in Procs : pc[p] = "claimRename" => tmpIn[p] # NoNonce

IInv ==
    /\ TypeOK
    /\ ClaimNeedsDir
    /\ HasNonce
    /\ DistinctNonces
    /\ UnseenBeforeClaim
    /\ HolderIntact
    /\ RetiredIsGone
    /\ JudgedByOwnFile
    /\ LiveHolderNotJudged

USE DEF files, view

-----------------------------------------------------------------------------
(* Ages stay within the bound when time passes, and a file keeps its owner. *)
LEMMA OlderFileType ==
    ASSUME NEW f \in Owners \cup {NoFile}
    PROVE  /\ OlderFile(f) \in Owners \cup {NoFile}
           /\ OlderFile(f) = NoFile <=> f = NoFile
           /\ f # NoFile => OlderFile(f).by = f.by
<1>1. MaxAge \in Nat
  BY ConstantsAssumption DEF MaxAge
<1>2. NoFile \notin Owners
  BY <1>1, ConstantsAssumption DEF Owners
<1>3. CASE f = NoFile
  BY <1>3 DEF OlderFile
<1>4. CASE f \in Owners
  <2>1. f # NoFile
    BY <1>2, <1>4
  <2>2. Older(f.age) \in 0 .. MaxAge
    BY <1>1, <1>4 DEF Owners, Older
  <2>3. OlderFile(f) \in Owners /\ OlderFile(f).by = f.by
    BY <2>1, <2>2, <1>4 DEF OlderFile, Owners
  <2> QED
    BY <1>2, <2>1, <2>3
<1> QED
  BY <1>3, <1>4

(* A new owner file is well formed. *)
LEMMA NewFileType ==
    ASSUME NEW p \in Procs
    PROVE  [by |-> p, age |-> 0] \in Owners /\ NoFile \notin Owners
<1>1. MaxAge \in Nat
  BY ConstantsAssumption DEF MaxAge
<1> QED
  BY <1>1, ConstantsAssumption DEF Owners

(* The initial state is well typed. *)
LEMMA InitTypeOK == Init => TypeOK
<1>1. MaxAge \in Nat
  BY ConstantsAssumption DEF MaxAge
<1> QED
  BY <1>1 DEF Init, TypeOK, Labels

(* Every step keeps every variable in its type. *)
LEMMA NextTypeOK == TypeOK /\ [Next]_vars => TypeOK'
<1> SUFFICES ASSUME TypeOK, [Next]_vars PROVE TypeOK'
  OBVIOUS
<1> USE DEF TypeOK, Goto, Labels
<1>0. MaxAge \in Nat /\ 0 \in 0 .. MaxAge
  BY ConstantsAssumption DEF MaxAge
<1>1. ASSUME NEW p \in Procs, Request(p) PROVE TypeOK'
  BY <1>1 DEF Request
<1>2. ASSUME NEW p \in Procs, Acquire(p) PROVE TypeOK'
  <2>1. CASE Attempt(p)
    BY <2>1, NewFileType DEF Attempt
  <2>2. CASE Mkdir(p)
    BY <2>2, <1>0 DEF Mkdir
  <2>3. CASE ClaimDir(p)
    BY <2>3, <1>0 DEF ClaimDir
  <2>4. CASE ClaimRename(p)
    BY <2>4, <1>0 DEF ClaimRename
  <2>5. CASE ReadClaim(p)
    BY <2>5 DEF ReadClaim
  <2>6. CASE ReadOwner(p)
    BY <2>6 DEF ReadOwner
  <2>7. CASE Judge(p)
    BY <2>7 DEF Judge, PollOrTimeOut, Forget
  <2>8. CASE Move(p)
    BY <2>8, <1>0 DEF Move, PollOrTimeOut, Forget
  <2>9. CASE Retire(p)
    BY <2>9 DEF Retire, Forget
  <2> QED
    BY <1>2, <2>1, <2>2, <2>3, <2>4, <2>5, <2>6, <2>7, <2>8, <2>9 DEF Acquire
<1>3. ASSUME NEW p \in Procs, Use(p) PROVE TypeOK'
  <2>1. CASE Heartbeat(p)
    BY <2>1 DEF Heartbeat
  <2>2. CASE HeartbeatWrite(p)
    BY <2>2, NewFileType DEF HeartbeatWrite
  <2>3. CASE HeartbeatReread(p)
    BY <2>3 DEF HeartbeatReread
  <2>4. CASE CallDone(p)
    BY <2>4 DEF CallDone
  <2>5. CASE Release(p)
    BY <2>5 DEF Release
  <2> QED
    BY <1>3, <2>1, <2>2, <2>3, <2>4, <2>5 DEF Use
<1>4. ASSUME NEW p \in Procs, Crash(p) PROVE TypeOK'
  BY <1>4 DEF Crash, Forget
<1>5. CASE Tick
  <2>1. dirAge' \in 0 .. MaxAge
    BY <1>5, <1>0 DEF Tick, Older
  <2> QED
    BY <1>5, <2>1, OlderFileType DEF Tick
<1>6. CASE UNCHANGED vars
  BY <1>6 DEF vars
<1> QED
  BY <1>1, <1>2, <1>3, <1>4, <1>5, <1>6 DEF Next

(* The type invariant of the lease holds in every reachable state. *)
THEOREM TypeCorrect == Spec => []TypeOK
  BY InitTypeOK, NextTypeOK, PTL DEF Spec

-----------------------------------------------------------------------------
(* IInv is inductive: one step per action, and under it one per part of IInv
   that the action could disturb.  It holds initially. *)
LEMMA InitIInv == Init => IInv
  BY InitTypeOK DEF Init, IInv, ClaimNeedsDir, HasNonce, DistinctNonces, UnseenBeforeClaim,
     HolderIntact, RetiredIsGone, JudgedByOwnFile, LiveHolderNotJudged, Claiming,
     Holding

(* Every step keeps the inductive invariant. *)
LEMMA NextIInv == IInv /\ [Next]_vars => IInv'
<1> SUFFICES ASSUME IInv, [Next]_vars PROVE IInv'
  OBVIOUS
<1> DEFINE Parts == /\ HasNonce /\ DistinctNonces /\ UnseenBeforeClaim /\ HolderIntact
                    /\ RetiredIsGone /\ JudgedByOwnFile /\ LiveHolderNotJudged
<1>1. TypeOK'
  BY NextTypeOK DEF IInv
<1>2. ClaimNeedsDir'
  <2> USE DEF IInv, TypeOK, ClaimNeedsDir, Goto, Labels
  <2>1. ASSUME NEW p \in Procs, Acquire(p) PROVE ClaimNeedsDir'
    BY <2>1, ConstantsAssumption DEF HasNonce, Claiming, Holding, Forget, PollOrTimeOut,
       Acquire, Attempt, Mkdir, ClaimDir, ClaimRename, ReadClaim, ReadOwner, Judge, Move,
       Retire
  <2>2. ASSUME NEW p \in Procs, Request(p) \/ Use(p) \/ Crash(p) PROVE ClaimNeedsDir'
    BY <2>2 DEF Forget, Request, Use, Heartbeat, HeartbeatWrite,
                HeartbeatReread, CallDone, Release, Crash
  <2>3. CASE Tick \/ UNCHANGED vars
    BY <2>3 DEF Tick, vars
  <2> QED
    BY <2>1, <2>2, <2>3 DEF Next
<1> SUFFICES Parts'
  BY <1>1, <1>2 DEF IInv
<1> USE DEF IInv, TypeOK, Goto, Labels, Claiming, Holding
(* Nothing but the program counter moves. *)
<1>3. ASSUME NEW p \in Procs,
             Request(p) \/ Heartbeat(p) \/ HeartbeatReread(p) \/ CallDone(p)
      PROVE  Parts'
  BY <1>3, ConstantsAssumption DEF HasNonce, DistinctNonces, UnseenBeforeClaim,
     HolderIntact, RetiredIsGone, JudgedByOwnFile, LiveHolderNotJudged,
     Request, Heartbeat, HeartbeatReread, CallDone
(* The fresh nonce is mentioned by no file and no process. *)
<1>4. ASSUME NEW p \in Procs, Attempt(p) PROVE Parts'
  <2>1. DistinctNonces'
    BY <1>4, NewFileType, ConstantsAssumption DEF DistinctNonces, HasNonce,
       Attempt, Mentioned
  <2>2. UnseenBeforeClaim'
    BY <1>4, NewFileType, ConstantsAssumption DEF UnseenBeforeClaim,
       DistinctNonces, HasNonce, Attempt, Mentioned
  <2>3. /\ HasNonce'
        /\ HolderIntact'
        /\ RetiredIsGone'
        /\ JudgedByOwnFile'
        /\ LiveHolderNotJudged'
    BY <1>4, ConstantsAssumption DEF HasNonce, DistinctNonces,
       UnseenBeforeClaim, HolderIntact, RetiredIsGone, JudgedByOwnFile,
       LiveHolderNotJudged, Attempt, Mentioned
  <2> QED
    BY <2>1, <2>2, <2>3
(* A new directory has no claim; a loser removes its own owner file only. *)
<1>5. ASSUME NEW p \in Procs, Mkdir(p) PROVE Parts'
  <2>1. UnseenBeforeClaim'
    BY <1>5, ConstantsAssumption DEF UnseenBeforeClaim, DistinctNonces,
       HasNonce, Mkdir
  <2>2. HolderIntact'
    BY <1>5, ConstantsAssumption DEF HolderIntact, UnseenBeforeClaim,
       DistinctNonces, HasNonce, RetiredIsGone, Mkdir
  <2>3. /\ HasNonce'
        /\ DistinctNonces'
        /\ RetiredIsGone'
        /\ JudgedByOwnFile'
        /\ LiveHolderNotJudged'
    BY <1>5, ConstantsAssumption DEF HasNonce, DistinctNonces,
       UnseenBeforeClaim, HolderIntact, RetiredIsGone, JudgedByOwnFile,
       LiveHolderNotJudged, Mkdir
  <2> QED
    BY <2>1, <2>2, <2>3
(* A directory re-created after it was moved away has no claim either. *)
<1>6. ASSUME NEW p \in Procs, ClaimDir(p) PROVE Parts'
  BY <1>6, ConstantsAssumption DEF HasNonce, DistinctNonces, UnseenBeforeClaim,
     HolderIntact, RetiredIsGone, JudgedByOwnFile, LiveHolderNotJudged, ClaimDir
(* The claim becomes a nonce nobody has seen, whose owner file is in place. *)
<1>7. ASSUME NEW p \in Procs, ClaimRename(p) PROVE Parts'
  <2>1. UnseenBeforeClaim'
    BY <1>7, ConstantsAssumption DEF UnseenBeforeClaim, DistinctNonces,
       HasNonce, ClaimRename
  <2>2. HolderIntact'
    BY <1>7, ConstantsAssumption DEF HolderIntact, UnseenBeforeClaim,
       DistinctNonces, HasNonce, RetiredIsGone, ClaimRename
  <2>3. RetiredIsGone'
    BY <1>7, ConstantsAssumption DEF RetiredIsGone, UnseenBeforeClaim, HasNonce,
       ClaimRename
  <2>4. JudgedByOwnFile'
    BY <1>7, ConstantsAssumption DEF JudgedByOwnFile, UnseenBeforeClaim,
       HolderIntact, HasNonce, ClaimRename
  <2>5. /\ HasNonce'
        /\ DistinctNonces'
        /\ LiveHolderNotJudged'
    BY <1>7, ConstantsAssumption DEF HasNonce, DistinctNonces,
       UnseenBeforeClaim, HolderIntact, RetiredIsGone, JudgedByOwnFile,
       LiveHolderNotJudged, ClaimRename
  <2> QED
    BY <2>1, <2>2, <2>3, <2>4, <2>5
(* What is read is a claim, so never the nonce of an attempt. *)
<1>8. ASSUME NEW p \in Procs, ReadClaim(p) PROVE Parts'
  <2>1. UnseenBeforeClaim'
    BY <1>8, ConstantsAssumption DEF UnseenBeforeClaim, DistinctNonces,
       HasNonce, ReadClaim
  <2>2. JudgedByOwnFile'
    BY <1>8, ConstantsAssumption DEF JudgedByOwnFile, UnseenBeforeClaim,
       HolderIntact, HasNonce, ReadClaim
  <2>3. /\ HasNonce'
        /\ DistinctNonces'
        /\ HolderIntact'
        /\ RetiredIsGone'
        /\ LiveHolderNotJudged'
    BY <1>8, ConstantsAssumption DEF HasNonce, DistinctNonces,
       UnseenBeforeClaim, HolderIntact, RetiredIsGone, JudgedByOwnFile,
       LiveHolderNotJudged, ReadClaim
  <2> QED
    BY <2>1, <2>2, <2>3
(* The owner file of a standing claim is the holder's. *)
<1>9. ASSUME NEW p \in Procs, ReadOwner(p) PROVE Parts'
  <2>1. JudgedByOwnFile'
    BY <1>9, ConstantsAssumption DEF JudgedByOwnFile, UnseenBeforeClaim,
       HolderIntact, HasNonce, ReadOwner
  <2>2. /\ HasNonce'
        /\ DistinctNonces'
        /\ UnseenBeforeClaim'
        /\ HolderIntact'
        /\ RetiredIsGone'
        /\ LiveHolderNotJudged'
    BY <1>9, ConstantsAssumption DEF HasNonce, DistinctNonces,
       UnseenBeforeClaim, HolderIntact, RetiredIsGone, JudgedByOwnFile,
       LiveHolderNotJudged, ReadOwner
  <2> QED
    BY <2>1, <2>2
(* A holder is alive, so only a foreign host may judge its claim stale. *)
<1>10. ASSUME NEW p \in Procs, Judge(p) PROVE Parts'
  <2>1. LiveHolderNotJudged'
    BY <1>10, ConstantsAssumption DEF LiveHolderNotJudged, JudgedByOwnFile,
       MayTake, CanTakeReleased, CanTakeSameHost, CanTakeUnknown, Alive, Judge,
       Forget, PollOrTimeOut
  <2>2. /\ HasNonce'
        /\ DistinctNonces'
        /\ UnseenBeforeClaim'
        /\ HolderIntact'
        /\ RetiredIsGone'
        /\ JudgedByOwnFile'
    BY <1>10, ConstantsAssumption DEF HasNonce, DistinctNonces,
       UnseenBeforeClaim, HolderIntact, RetiredIsGone, JudgedByOwnFile,
       LiveHolderNotJudged, Judge, Forget, PollOrTimeOut
  <2> QED
    BY <2>1, <2>2
(* The claim goes with the directory. *)
<1>11. ASSUME NEW p \in Procs, Move(p) PROVE Parts'
  <2>1. RetiredIsGone'
    BY <1>11, ConstantsAssumption DEF RetiredIsGone, UnseenBeforeClaim, HasNonce,
       Move, Forget, PollOrTimeOut
  <2>2. /\ HasNonce'
        /\ DistinctNonces'
        /\ UnseenBeforeClaim'
        /\ HolderIntact'
        /\ JudgedByOwnFile'
        /\ LiveHolderNotJudged'
    BY <1>11, ConstantsAssumption DEF HasNonce, DistinctNonces,
       UnseenBeforeClaim, HolderIntact, RetiredIsGone, JudgedByOwnFile,
       LiveHolderNotJudged, Move, Forget, PollOrTimeOut
  <2> QED
    BY <2>1, <2>2
(* The owner file removed is not that of a standing claim. *)
<1>12. ASSUME NEW p \in Procs, Retire(p) PROVE Parts'
  <2>1. UnseenBeforeClaim'
    BY <1>12, ConstantsAssumption DEF UnseenBeforeClaim, DistinctNonces,
       HasNonce, Retire, Forget
  <2>2. HolderIntact'
    BY <1>12, ConstantsAssumption DEF HolderIntact, UnseenBeforeClaim,
       DistinctNonces, HasNonce, RetiredIsGone, Retire, Forget
  <2>3. /\ HasNonce'
        /\ DistinctNonces'
        /\ RetiredIsGone'
        /\ JudgedByOwnFile'
        /\ LiveHolderNotJudged'
    BY <1>12, ConstantsAssumption DEF HasNonce, DistinctNonces,
       UnseenBeforeClaim, HolderIntact, RetiredIsGone, JudgedByOwnFile,
       LiveHolderNotJudged, Retire, Forget
  <2> QED
    BY <2>1, <2>2, <2>3
(* The holder writes its own owner file. *)
<1>13. ASSUME NEW p \in Procs, HeartbeatWrite(p) PROVE Parts'
  <2>1. HolderIntact'
    BY <1>13, NewFileType, ConstantsAssumption DEF HolderIntact,
       UnseenBeforeClaim, DistinctNonces, HasNonce, RetiredIsGone,
       HeartbeatWrite
  <2>2. /\ HasNonce'
        /\ DistinctNonces'
        /\ UnseenBeforeClaim'
        /\ RetiredIsGone'
        /\ JudgedByOwnFile'
        /\ LiveHolderNotJudged'
    BY <1>13, ConstantsAssumption DEF HasNonce, DistinctNonces,
       UnseenBeforeClaim, HolderIntact, RetiredIsGone, JudgedByOwnFile,
       LiveHolderNotJudged, HeartbeatWrite
  <2> QED
    BY <2>1, <2>2
(* The owner file removed carries the nonce of no other process. *)
<1>14. ASSUME NEW p \in Procs, Release(p) PROVE Parts'
  <2>1. HolderIntact'
    BY <1>14, ConstantsAssumption DEF HolderIntact, UnseenBeforeClaim,
       DistinctNonces, HasNonce, RetiredIsGone, Release
  <2>2. /\ HasNonce'
        /\ DistinctNonces'
        /\ UnseenBeforeClaim'
        /\ RetiredIsGone'
        /\ JudgedByOwnFile'
        /\ LiveHolderNotJudged'
    BY <1>14, ConstantsAssumption DEF HasNonce, DistinctNonces,
       UnseenBeforeClaim, HolderIntact, RetiredIsGone, JudgedByOwnFile,
       LiveHolderNotJudged, Release
  <2> QED
    BY <2>1, <2>2
(* A process that died holds nothing. *)
<1>15. ASSUME NEW p \in Procs, Crash(p) PROVE Parts'
  BY <1>15, ConstantsAssumption DEF HasNonce, DistinctNonces, UnseenBeforeClaim,
     HolderIntact, RetiredIsGone, JudgedByOwnFile, LiveHolderNotJudged, Crash,
     Forget
(* Time changes ages, never owners. *)
<1>16. CASE Tick
  BY <1>16, OlderFileType DEF HasNonce, DistinctNonces, UnseenBeforeClaim,
     HolderIntact, RetiredIsGone, JudgedByOwnFile, LiveHolderNotJudged, Tick
<1>17. CASE UNCHANGED vars
  BY <1>17 DEF HasNonce, DistinctNonces, UnseenBeforeClaim, HolderIntact,
     RetiredIsGone, JudgedByOwnFile, LiveHolderNotJudged, vars
<1> HIDE DEF Parts
<1> QED
  BY <1>3, <1>4, <1>5, <1>6, <1>7, <1>8, <1>9, <1>10, <1>11, <1>12, <1>13,
     <1>14, <1>15, <1>16, <1>17 DEF Next, Acquire, Use

(* The invariant that the others follow from. *)
THEOREM Invariant == Spec => []IInv
  BY InitIInv, NextIInv, PTL DEF Spec

(* A holder with its claim has its owner file, so its heartbeat cannot fail. *)
THEOREM HolderKeepsItsFile == Spec => []HolderIntact
<1>1. IInv => HolderIntact
  BY DEF IInv
<1> QED
  BY <1>1, Invariant, PTL

(* A running holder is never taken over from its own host. *)
THEOREM LiveHolderSafeOnItsHost == Spec => []LiveHolderNotJudged
<1>1. IInv => LiveHolderNotJudged
  BY DEF IInv
<1> QED
  BY <1>1, Invariant, PTL

(* A holder without its claim cannot regain it. *)
LEMMA NotRegained ==
    ASSUME IInv, [Next]_vars, NEW p \in Procs,
           Holding(p), claim # nonce[p], nonce'[p] = nonce[p]
    PROVE  claim' # nonce[p]
<1> USE DEF IInv, TypeOK, HasNonce, Holding, Claiming
<1>1. ASSUME NEW q \in Procs, ClaimRename(q) PROVE claim' # nonce[p]
  BY <1>1 DEF ClaimRename, DistinctNonces, Goto
<1>2. ASSUME NEW q \in Procs, Mkdir(q) \/ ClaimDir(q) \/ Move(q) PROVE claim' # nonce[p]
  BY <1>2 DEF Mkdir, ClaimDir, Move
<1>3. ASSUME NEW q \in Procs,
             \/ Request(q) \/ Attempt(q) \/ ReadClaim(q) \/ ReadOwner(q) \/ Judge(q)
             \/ Retire(q) \/ Use(q) \/ Crash(q)
      PROVE  claim' = claim
  BY <1>3 DEF Request, Attempt, ReadClaim, ReadOwner, Judge, Retire, Use, Heartbeat,
              HeartbeatWrite, HeartbeatReread, CallDone, Release, Crash
<1>4. CASE Tick \/ UNCHANGED vars
  BY <1>4 DEF Tick, vars
<1> QED
  BY <1>1, <1>2, <1>3, <1>4 DEF Next, Acquire

(* After one failed heartbeat every later one fails: a lost lease stays lost. *)
THEOREM LostStaysLost == Spec => LostForGood
<1>1. IInv /\ [Next]_vars =>
        [\A p \in Procs : Holding(p) /\ claim # nonce[p] /\ nonce'[p] = nonce[p]
                               => claim' # nonce[p]]_vars
  BY NotRegained
<1> QED
  BY <1>1, Invariant, PTL DEF Spec, LostForGood

(* What takes a lease away is a takeover or a competing claim, nothing else. *)
LEMMA LostOnlyToTakeover ==
    ASSUME IInv, [Next]_vars, NEW p \in Procs,
           Holding(p), claim = nonce[p], claim' # nonce[p]
    PROVE  \E q \in Procs \ {p} : \/ pc[q] = "move" /\ pc'[q] = "retire"
                                  \/ pc[q] = "claimRename" /\ pc'[q] = "held"
<1> USE DEF IInv, TypeOK, HasNonce, Holding, Claiming, Goto
<1>1. ASSUME NEW q \in Procs, ClaimRename(q)
      PROVE  pc[q] = "claimRename" /\ pc'[q] = "held" /\ q # p
  BY <1>1 DEF ClaimRename
<1>2. ASSUME NEW q \in Procs, Move(q)
      PROVE  pc[q] = "move" /\ pc'[q] = "retire" /\ q # p
  BY <1>2 DEF Move
<1>3. ASSUME NEW q \in Procs, Mkdir(q) \/ ClaimDir(q) PROVE FALSE
  BY <1>3 DEF Mkdir, ClaimDir, ClaimNeedsDir
<1>4. ASSUME NEW q \in Procs,
             \/ Request(q) \/ Attempt(q) \/ ReadClaim(q) \/ ReadOwner(q) \/ Judge(q)
             \/ Retire(q) \/ Use(q) \/ Crash(q)
      PROVE  claim' = claim
  BY <1>4 DEF Request, Attempt, ReadClaim, ReadOwner, Judge, Retire, Use, Heartbeat,
              HeartbeatWrite, HeartbeatReread, CallDone, Release, Crash
<1>5. CASE Tick \/ UNCHANGED vars
  BY <1>5 DEF Tick, vars
<1> QED
  BY <1>1, <1>2, <1>3, <1>4, <1>5 DEF Next, Acquire

(* Late releases, waiters that give up and crashes never cost a holder its lease. *)
THEOREM OnlyTakeoversDispossess == Spec => LeaseLostOnlyToTakeover
<1>1. IInv /\ [Next]_vars =>
        [\A p \in Procs : Holding(p) /\ claim = nonce[p] /\ claim' # nonce[p] =>
            \E q \in Procs \ {p} : \/ pc[q] = "move" /\ pc'[q] = "retire"
                                   \/ pc[q] = "claimRename" /\ pc'[q] = "held"]_vars
  BY LostOnlyToTakeover
<1> QED
  BY <1>1, Invariant, PTL DEF Spec, LeaseLostOnlyToTakeover

-----------------------------------------------------------------------------
(* Refinement: every step of the lease is a step of the fenced lock. *)

(* At most one process can find its own nonce in the claim. *)
ClaimantIsValid ==
    /\ \A p \in Holders : claim = nonce[p] => ValidHolder = p
    /\ (\A p \in Holders : claim # nonce[p]) => ValidHolder = NobodyHolds

(* The inductive invariant makes the valid holder of the refinement unique. *)
LEMMA ValidHolderIs == IInv => ClaimantIsValid
<1> SUFFICES ASSUME IInv PROVE ClaimantIsValid
  OBVIOUS
<1>1. ASSUME NEW p \in Holders, claim = nonce[p] PROVE ValidHolder = p
  <2>1. \A q \in Holders : claim = nonce[q] => q = p
    BY <1>1 DEF IInv, HasNonce, DistinctNonces, Holders
  <2> QED
    BY <1>1, <2>1 DEF ValidHolder
<1>2. ASSUME \A p \in Holders : claim # nonce[p] PROVE ValidHolder = NobodyHolds
  BY <1>2 DEF ValidHolder
<1> QED
  BY <1>1, <1>2 DEF ClaimantIsValid

(* Initially nobody is in the fenced lock. *)
LEMMA FenceInit == Init => Fence!LockInit
<1> SUFFICES ASSUME Init PROVE Fence!LockInit
  OBVIOUS
<1>1. Holders = {} /\ {p \in Procs : pc[p] = "calling"} = {}
  BY DEF Init, Holders, Holding
<1>2. ValidHolder = NobodyHolds
  BY <1>1 DEF ValidHolder
<1> QED
  BY <1>1, <1>2 DEF Fence!LockInit

(* Every step of the lease is a step of the fenced lock or leaves it alone. *)
LEMMA FenceStep == IInv /\ IInv' /\ [Next]_vars => [Fence!LockNext]_(Fence!lockVars)
<1> SUFFICES ASSUME IInv, IInv', [Next]_vars PROVE [Fence!LockNext]_(Fence!lockVars)
  OBVIOUS
<1> DEFINE Calling == {p \in Procs : pc[p] = "calling"}
           Standing == /\ Holders' = Holders
                       /\ \A p \in Holders : nonce'[p] = nonce[p]
<1>0. ClaimantIsValid /\ ClaimantIsValid'
  BY ValidHolderIs, PTL
<1> USE DEF Goto
(* Steps that leave the claim and every holder alone. *)
<1>1. ASSUME Standing, claim' = claim PROVE ValidHolder' = ValidHolder
  BY <1>1, <1>0 DEF ClaimantIsValid
<1>2. ASSUME NEW p \in Procs,
             \/ Request(p) \/ Attempt(p) \/ ReadClaim(p) \/ ReadOwner(p) \/ Judge(p)
             \/ Retire(p) \/ Heartbeat(p) \/ HeartbeatWrite(p)
      PROVE  Standing /\ claim' = claim /\ Calling' = Calling
  BY <1>2 DEF IInv, TypeOK, Holders, Holding, Request, Attempt, ReadClaim, ReadOwner, Judge,
              Retire, Heartbeat, HeartbeatWrite, Forget, PollOrTimeOut
<1>3. CASE Tick \/ UNCHANGED vars
  <2>1. Standing /\ claim' = claim /\ Calling' = Calling
    BY <1>3 DEF Tick, vars, Holders, Holding
  <2> QED
    BY <2>1, <1>1 DEF Fence!lockVars
(* A new, moved or re-created directory has no claim. *)
<1>4. ASSUME NEW p \in Procs, Mkdir(p) \/ ClaimDir(p) \/ Move(p)
      PROVE  Fence!Dispossess \/ UNCHANGED Fence!lockVars
  <2>1. Standing /\ Calling' = Calling
    BY <1>4 DEF IInv, TypeOK, Holders, Holding, Mkdir, ClaimDir, Move, Forget, PollOrTimeOut
  <2>2. CASE claim' = claim
    BY <2>1, <2>2, <1>1 DEF Fence!lockVars
  <2>3. CASE claim' # claim
    <3>1. claim' = NoNonce
      BY <1>4, <2>3 DEF Mkdir, ClaimDir, Move
    <3>2. \A q \in Holders' : claim' # nonce'[q]
      BY <3>1, IInv' DEF IInv, HasNonce, Holders
    <3> QED
      BY <2>1, <3>2, <1>0 DEF Fence!Dispossess, ClaimantIsValid
  <2> QED
    BY <2>2, <2>3
(* Claiming the directory enters the lock; failing to leaves it alone. *)
<1>5. ASSUME NEW p \in Procs, ClaimRename(p)
      PROVE  Fence!Enter(p) \/ UNCHANGED Fence!lockVars
  <2> USE <1>5 DEF ClaimRename, IInv, TypeOK, Holders, Holding
  <2>1. CASE lockDir = tmpIn[p]
    <3>1. p \notin Holders /\ Holders' = Holders \cup {p} /\ Calling' = Calling
      BY <2>1
    <3>2. claim' = nonce'[p]
      BY <2>1
    <3>3. ValidHolder' = p
      BY <3>1, <3>2, <1>0 DEF ClaimantIsValid
    <3> QED
      BY <3>1, <3>3 DEF Fence!Enter
  <2>2. CASE lockDir # tmpIn[p]
    <3>1. Standing /\ claim' = claim /\ Calling' = Calling
      BY <2>2
    <3> QED
      BY <3>1, <1>1 DEF Fence!lockVars
  <2> QED
    BY <2>1, <2>2
(* A call starts only after the claim was found in place. *)
<1>6. ASSUME NEW p \in Procs, HeartbeatReread(p)
      PROVE  Fence!Call(p) \/ UNCHANGED Fence!lockVars
  <2> USE <1>6 DEF HeartbeatReread, IInv, TypeOK, Holders, Holding
  <2>1. Standing /\ claim' = claim /\ p \in Holders
    OBVIOUS
  <2>2. CASE claim = nonce[p]
    <3>1. Calling' = Calling \cup {p}
      BY <2>2
    <3>2. ValidHolder = p
      BY <2>1, <2>2, <1>0 DEF ClaimantIsValid
    <3> QED
      BY <2>1, <3>1, <3>2, <1>1 DEF Fence!Call
  <2>3. CASE claim # nonce[p]
    <3>1. Calling' = Calling
      BY <2>3
    <3> QED
      BY <2>1, <3>1, <1>1 DEF Fence!lockVars
  <2> QED
    BY <2>2, <2>3
<1>7. ASSUME NEW p \in Procs, CallDone(p) PROVE Fence!Return(p)
  <2>1. Standing /\ claim' = claim /\ Calling' = Calling \ {p}
    BY <1>7 DEF CallDone, IInv, TypeOK, Holders, Holding
  <2> QED
    BY <2>1, <1>1 DEF Fence!Return
(* Releasing and dying leave the lock; a waiter that dies was not in it. *)
<1>8. ASSUME NEW p \in Procs, Release(p) \/ Crash(p)
      PROVE  Fence!Leave(p) \/ UNCHANGED Fence!lockVars
  <2> USE <1>8 DEF Release, Crash, Forget, IInv, TypeOK, Holders, Holding
  <2>1. /\ claim' = claim
        /\ Holders' = Holders \ {p}
        /\ Calling' = Calling \ {p}
        /\ \A q \in Holders' : nonce'[q] = nonce[q]
    OBVIOUS
  <2>2. CASE p \notin Holders
    <3>1. Standing /\ Calling' = Calling
      BY <2>1, <2>2
    <3> QED
      BY <2>1, <3>1, <1>1 DEF Fence!lockVars
  <2>3. CASE p \in Holders
    <3>1. ValidHolder' = IF ValidHolder = p THEN NobodyHolds ELSE ValidHolder
      <4>1. CASE claim = nonce[p]
        <5>1. ValidHolder = p
          BY <2>3, <4>1, <1>0 DEF ClaimantIsValid
        <5>2. \A q \in Holders' : claim' # nonce'[q]
          BY <2>1, <2>3, <4>1 DEF DistinctNonces, HasNonce
        <5> QED
          BY <5>1, <5>2, <1>0 DEF ClaimantIsValid
      <4>2. CASE claim # nonce[p]
        <5>1. CASE \E q \in Holders : claim = nonce[q]
          <6>1. PICK q \in Holders : claim = nonce[q]
            BY <5>1
          <6>2. ValidHolder = q /\ q # p /\ ValidHolder' = q
            BY <6>1, <4>2, <2>1, <1>0 DEF ClaimantIsValid
          <6> QED
            BY <6>2
        <5>2. CASE \A q \in Holders : claim # nonce[q]
          BY <5>2, <2>1, <1>0 DEF ClaimantIsValid
        <5> QED
          BY <5>1, <5>2
      <4> QED
        BY <4>1, <4>2
    <3> QED
      BY <2>1, <2>3, <3>1 DEF Fence!Leave
  <2> QED
    BY <2>2, <2>3
<1> QED
  BY <1>1, <1>2, <1>3, <1>4, <1>5, <1>6, <1>7, <1>8
     DEF Next, Acquire, Use, Fence!LockNext, Fence!lockVars

(* The lease implements the fenced lock: a remote call starts only while its
   caller's claim stands, and only the claimant of the directory is valid. *)
THEOREM Implements == Spec => ImplementsFence
<1>1. Init => Fence!LockInit
  BY FenceInit
<1>2. IInv /\ IInv' /\ [Next]_vars => [Fence!LockNext]_(Fence!lockVars)
  BY FenceStep
<1> QED
  BY <1>1, <1>2, Invariant, PTL DEF Spec, ImplementsFence, Fence!LockSpec
=============================================================================
