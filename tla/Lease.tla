------------------------------- MODULE Lease -------------------------------
(***************************************************************************)
(* The filesystem lease of autonomy/coordination.ts: acquireContinuationLock*)
(* and staleLock, used by ensureContinuation directly and by every other   *)
(* autonomy store through withCoordinationLease.                           *)
(*                                                                         *)
(* One lease key is modelled: the lock directory <key>.lock, the claim     *)
(* <key>.lock/owner.json inside it, and one owner file                     *)
(* <key>.lock.<nonce>.owner.json beside it per attempt.  The filesystem    *)
(* gives an atomic mkdir, rename and rm and nothing else, so every await of *)
(* the code that reads or writes a shared file is a step of its own.       *)
(*                                                                         *)
(* A nonce is a UUID.  The model draws it from a finite pool, from those    *)
(* no file and no process mentions any more; a directory has the nonce of   *)
(* the attempt that created it as its identity (its inode in the system).  *)
(* Ages count lease ticks and saturate at twice the lease, the largest age  *)
(* any decision compares with.                                             *)
(***************************************************************************)
EXTENDS Naturals

CONSTANTS Procs,       \* processes that may ask for the lease
          Nonces,      \* the pool of attempt identities
          NoNonce,
          NoFile,      \* an owner file that does not exist
          Host,        \* the hostname of each process
          LeaseTicks,  \* lockLeaseMs
          MayCrash,    \* processes that may be killed
          MayAge,      \* whether enough time can pass for a lease to expire
          MayStall,    \* whether it can pass between mkdir and the claim write
          MayTimeOut   \* whether a waiter gives up at its deadline

ASSUME ConstantsAssumption ==
    /\ NoNonce \notin Nonces
    /\ LeaseTicks \in Nat \ {0}
    /\ NoFile \notin [by : Procs, age : Nat]
    /\ MayCrash \subseteq Procs
    /\ MayAge \in BOOLEAN
    /\ MayStall \in BOOLEAN
    /\ MayTimeOut \in BOOLEAN

VARIABLES
    ownerFile,   \* owner file of each nonce: its process and the age of its heartbeat_at
    lockDir,     \* identity of the lock directory, NoNonce if there is none
    dirAge,      \* age of the mtime of the lock directory
    claim,       \* nonce in owner.json inside the lock directory
    moved,       \* stale-locks/<key>/<nonce>.lock directories not yet removed
    pc,          \* where each process is
    nonce,       \* the nonce of its current attempt
    tmpIn,       \* the directory its temporary claim file was written into
    seen,        \* the claim it last read
    seenOwner    \* the owner file it read for that claim

vars == <<ownerFile, lockDir, dirAge, claim, moved, pc, nonce, tmpIn, seen, seenOwner>>
files == <<ownerFile, lockDir, dirAge, claim, moved>>
view == <<seen, seenOwner>>

Labels == {"idle", "attempt", "mkdir", "claimDir", "claimRename",
           "readClaim", "readOwner", "judge", "move", "retire",
           "held", "beat", "beatReread", "calling", "lost", "crashed"}

MaxAge == 2 * LeaseTicks

Owners == [by : Procs, age : 0 .. MaxAge]

TypeOK ==
    /\ ownerFile \in [Nonces -> Owners \cup {NoFile}]
    /\ lockDir \in Nonces \cup {NoNonce}
    /\ dirAge \in 0 .. MaxAge
    /\ claim \in Nonces \cup {NoNonce}
    /\ moved \subseteq Nonces
    /\ pc \in [Procs -> Labels]
    /\ nonce \in [Procs -> Nonces \cup {NoNonce}]
    /\ tmpIn \in [Procs -> Nonces \cup {NoNonce}]
    /\ seen \in [Procs -> Nonces \cup {NoNonce}]
    /\ seenOwner \in [Procs -> Owners \cup {NoFile}]

(* Inside the operation the lease protects, up to the release. *)
Holding(p) == pc[p] \in {"held", "beat", "beatReread", "calling", "lost"}

(* In the acquisition loop. *)
Trying(p) == pc[p] \in {"attempt", "mkdir", "claimDir", "claimRename",
                        "readClaim", "readOwner", "judge", "move", "retire"}

Alive(p) == pc[p] # "crashed"

(* Identities a file or a process still mentions; randomUUID returns another. *)
Mentioned ==
    {claim, lockDir} \cup moved
        \cup {n \in Nonces : ownerFile[n] # NoFile}
        \cup {nonce[p] : p \in Procs}
        \cup {seen[p] : p \in Procs}
        \cup {tmpIn[p] : p \in Procs}

Init ==
    /\ ownerFile = [n \in Nonces |-> NoFile]
    /\ lockDir = NoNonce
    /\ dirAge = 0
    /\ claim = NoNonce
    /\ moved = {}
    /\ pc = [p \in Procs |-> "idle"]
    /\ nonce = [p \in Procs |-> NoNonce]
    /\ tmpIn = [p \in Procs |-> NoNonce]
    /\ seen = [p \in Procs |-> NoNonce]
    /\ seenOwner = [p \in Procs |-> NoFile]

Goto(p, label) == pc' = [pc EXCEPT ![p] = label]

-----------------------------------------------------------------------------
(* The acquisition loop. *)

(* A process calls acquireContinuationLock. *)
Request(p) ==
    /\ pc[p] = "idle"
    /\ Goto(p, "attempt")
    /\ UNCHANGED <<files, nonce, tmpIn, view>>

(* The owner file of a new attempt is written. *)
Attempt(p) ==
    /\ pc[p] = "attempt"
    /\ \E n \in Nonces \ Mentioned :
          /\ nonce' = [nonce EXCEPT ![p] = n]
          /\ ownerFile' = [ownerFile EXCEPT ![n] = [by |-> p, age |-> 0]]
    /\ Goto(p, "mkdir")
    /\ UNCHANGED <<lockDir, dirAge, claim, moved, tmpIn, view>>

(* mkdir of the lock directory: created, or EEXIST and the attempt's own
   owner file is removed. *)
Mkdir(p) ==
    /\ pc[p] = "mkdir"
    /\ \/ /\ lockDir = NoNonce
          /\ lockDir' = nonce[p]
          /\ claim' = NoNonce
          /\ dirAge' = 0
          /\ Goto(p, "claimDir")
          /\ UNCHANGED <<ownerFile, nonce>>
       \/ /\ lockDir # NoNonce
          /\ ownerFile' = [ownerFile EXCEPT ![nonce[p]] = NoFile]
          /\ nonce' = [nonce EXCEPT ![p] = NoNonce]
          /\ Goto(p, "readClaim")
          /\ UNCHANGED <<lockDir, claim, dirAge>>
    /\ UNCHANGED <<moved, tmpIn, view>>

(* writeJsonAtomic(claimFile), first half: ensureDir re-creates the directory
   if it was moved away meanwhile, and the temporary file is written into
   whatever directory is there now. *)
ClaimDir(p) ==
    /\ pc[p] = "claimDir"
    /\ \/ /\ lockDir = NoNonce
          /\ lockDir' = nonce[p]
          /\ claim' = NoNonce
          /\ tmpIn' = [tmpIn EXCEPT ![p] = nonce[p]]
       \/ /\ lockDir # NoNonce
          /\ tmpIn' = [tmpIn EXCEPT ![p] = lockDir]
          /\ UNCHANGED <<lockDir, claim>>
    /\ dirAge' = 0
    /\ Goto(p, "claimRename")
    /\ UNCHANGED <<ownerFile, moved, nonce, view>>

(* writeJsonAtomic(claimFile), second half: the rename installs the claim, or
   fails with ENOENT when the temporary file went away with its directory;
   that error is rethrown after the attempt's owner file is removed. *)
ClaimRename(p) ==
    /\ pc[p] = "claimRename"
    /\ \/ /\ lockDir = tmpIn[p]
          /\ claim' = nonce[p]
          /\ dirAge' = 0
          /\ Goto(p, "held")
          /\ UNCHANGED <<ownerFile, nonce>>
       \/ /\ lockDir # tmpIn[p]
          /\ ownerFile' = [ownerFile EXCEPT ![nonce[p]] = NoFile]
          /\ nonce' = [nonce EXCEPT ![p] = NoNonce]
          /\ Goto(p, "idle")
          /\ UNCHANGED <<claim, dirAge>>
    /\ tmpIn' = [tmpIn EXCEPT ![p] = NoNonce]
    /\ UNCHANGED <<lockDir, moved, view>>

(* The waiter reads the claim ... *)
ReadClaim(p) ==
    /\ pc[p] = "readClaim"
    /\ seen' = [seen EXCEPT ![p] = claim]
    /\ Goto(p, "readOwner")
    /\ UNCHANGED <<files, nonce, tmpIn, seenOwner>>

(* ... and then the owner file of the nonce it read. *)
ReadOwner(p) ==
    /\ pc[p] = "readOwner"
    /\ seenOwner' = [seenOwner EXCEPT ![p] =
                        IF seen[p] = NoNonce THEN NoFile ELSE ownerFile[seen[p]]]
    /\ Goto(p, "judge")
    /\ UNCHANGED <<files, nonce, tmpIn, seen>>

CanTakeReleased(p) == seen[p] # NoNonce /\ seenOwner[p] = NoFile

(* Mutant: the pid is not probed. *)
BugCanTakeSameHost(p) ==
    /\ seenOwner[p] # NoFile
    /\ Host[seenOwner[p].by] = Host[p]
    /\ seenOwner[p].age >= LeaseTicks

CanTakeSameHost(p) ==
    /\ seenOwner[p] # NoFile
    /\ Host[seenOwner[p].by] = Host[p]
    /\ seenOwner[p].age >= LeaseTicks
    /\ ~Alive(seenOwner[p].by)

(* Mutant: a directory without a claim is never taken over. *)
BugCanTakeUnknown(p) ==
    /\ seenOwner[p] # NoFile
    /\ Host[seenOwner[p].by] # Host[p]
    /\ seenOwner[p].age >= MaxAge

CanTakeUnknown(p) ==
    IF seenOwner[p] = NoFile
    THEN dirAge >= MaxAge
    ELSE Host[seenOwner[p].by] # Host[p] /\ seenOwner[p].age >= MaxAge

MayTake(p) == CanTakeReleased(p) \/ CanTakeSameHost(p) \/ CanTakeUnknown(p)

Forget(p) ==
    /\ seen' = [seen EXCEPT ![p] = NoNonce]
    /\ seenOwner' = [seenOwner EXCEPT ![p] = NoFile]

(* The end of a round that took nothing: poll again, or the deadline has
   passed and acquisition fails with continuation_lock_timeout. *)
PollOrTimeOut(p) ==
    /\ \/ Goto(p, "attempt")
       \/ MayTimeOut /\ Goto(p, "idle")
    /\ Forget(p)

(* stat of the lock directory and the decision on what was read. *)
Judge(p) ==
    /\ pc[p] = "judge"
    /\ \/ /\ lockDir = NoNonce
          /\ Goto(p, "attempt")
          /\ Forget(p)
       \/ /\ lockDir # NoNonce
          /\ MayTake(p)
          /\ Goto(p, "move")
          /\ UNCHANGED view
       \/ /\ lockDir # NoNonce
          /\ ~MayTake(p)
          /\ PollOrTimeOut(p)
    /\ UNCHANGED <<files, nonce, tmpIn>>

(* staleLock renames the lock directory away: whatever directory has the path
   now, not the one the decision was about.  When the target name is still
   occupied the rename fails and acquisition throws, unless the occupant is
   empty or the platform reports EEXIST and a second name is tried. *)
Move(p) ==
    /\ pc[p] = "move"
    /\ \/ /\ lockDir = NoNonce
          /\ PollOrTimeOut(p)
          /\ UNCHANGED <<lockDir, dirAge, claim, moved>>
       \/ /\ lockDir # NoNonce
          /\ lockDir' = NoNonce
          /\ dirAge' = 0
          /\ claim' = NoNonce
          /\ moved' = moved \cup ({seen[p]} \ {NoNonce})
          /\ Goto(p, "retire")
          /\ UNCHANGED view
       \/ /\ lockDir # NoNonce
          /\ seen[p] \in moved
          /\ Goto(p, "idle")
          /\ Forget(p)
          /\ UNCHANGED <<lockDir, dirAge, claim, moved>>
    /\ UNCHANGED <<ownerFile, nonce, tmpIn>>

(* The rest of staleLock: the evidence is kept, the judged nonce's owner file
   and the moved directory are removed, and the loop starts over. *)
Retire(p) ==
    /\ pc[p] = "retire"
    /\ ownerFile' = [n \in Nonces |-> IF n = seen[p] THEN NoFile ELSE ownerFile[n]]
    /\ moved' = moved \ {seen[p]}
    /\ Goto(p, "attempt")
    /\ Forget(p)
    /\ UNCHANGED <<lockDir, dirAge, claim, nonce, tmpIn>>

-----------------------------------------------------------------------------
(* The lease in use. *)

(* heartbeat: claim and owner file must still carry the holder's nonce. *)
Heartbeat(p) ==
    /\ pc[p] = "held"
    /\ IF claim = nonce[p] /\ ownerFile[nonce[p]] # NoFile
       THEN Goto(p, "beat")
       ELSE Goto(p, "lost")
    /\ UNCHANGED <<files, nonce, tmpIn, view>>

(* Mutant: the heartbeat renews the claim as well as the owner file. *)
BugHeartbeatWrite(p) ==
    /\ pc[p] = "beat"
    /\ ownerFile' = [ownerFile EXCEPT ![nonce[p]] = [by |-> p, age |-> 0]]
    /\ claim' = IF lockDir = NoNonce THEN claim ELSE nonce[p]
    /\ Goto(p, "beatReread")
    /\ UNCHANGED <<lockDir, dirAge, moved, nonce, tmpIn, view>>

(* heartbeat: the owner file is written back with a new heartbeat_at, even if
   it was removed since it was read. *)
HeartbeatWrite(p) ==
    /\ pc[p] = "beat"
    /\ ownerFile' = [ownerFile EXCEPT ![nonce[p]] = [by |-> p, age |-> 0]]
    /\ Goto(p, "beatReread")
    /\ UNCHANGED <<lockDir, dirAge, claim, moved, nonce, tmpIn, view>>

(* Mutant: the claim is not read again after the owner file was written. *)
BugHeartbeatReread(p) ==
    /\ pc[p] = "beatReread"
    /\ Goto(p, "calling")
    /\ UNCHANGED <<files, nonce, tmpIn, view>>

(* heartbeat: the claim is read once more; the remote call follows at once. *)
HeartbeatReread(p) ==
    /\ pc[p] = "beatReread"
    /\ IF claim = nonce[p] THEN Goto(p, "calling") ELSE Goto(p, "lost")
    /\ UNCHANGED <<files, nonce, tmpIn, view>>

(* The remote call that a heartbeat fenced has come back. *)
CallDone(p) ==
    /\ pc[p] = "calling"
    /\ Goto(p, "held")
    /\ UNCHANGED <<files, nonce, tmpIn, view>>

(* Mutant: release removes the owner file the claim names. *)
BugReleaseClaimed(p) ==
    /\ pc[p] \in {"held", "lost"}
    /\ ownerFile' = [n \in Nonces |-> IF n = claim THEN NoFile ELSE ownerFile[n]]
    /\ nonce' = [nonce EXCEPT ![p] = NoNonce]
    /\ Goto(p, "idle")
    /\ UNCHANGED <<lockDir, dirAge, claim, moved, tmpIn, view>>

(* Mutant: release removes the lock directory too. *)
BugReleaseDir(p) ==
    /\ pc[p] \in {"held", "lost"}
    /\ ownerFile' = [ownerFile EXCEPT ![nonce[p]] = NoFile]
    /\ nonce' = [nonce EXCEPT ![p] = NoNonce]
    /\ lockDir' = NoNonce
    /\ claim' = NoNonce
    /\ dirAge' = 0
    /\ Goto(p, "idle")
    /\ UNCHANGED <<moved, tmpIn, view>>

(* release: only the holder's own owner file goes; directory and claim stay
   for the next acquirer to take over. *)
Release(p) ==
    /\ pc[p] \in {"held", "lost"}
    /\ ownerFile' = [ownerFile EXCEPT ![nonce[p]] = NoFile]
    /\ nonce' = [nonce EXCEPT ![p] = NoNonce]
    /\ Goto(p, "idle")
    /\ UNCHANGED <<lockDir, dirAge, claim, moved, tmpIn, view>>

-----------------------------------------------------------------------------
(* The environment. *)

(* A process is killed anywhere; its files stay. *)
Crash(p) ==
    /\ p \in MayCrash
    /\ pc[p] \notin {"idle", "crashed"}
    /\ Goto(p, "crashed")
    /\ nonce' = [nonce EXCEPT ![p] = NoNonce]
    /\ tmpIn' = [tmpIn EXCEPT ![p] = NoNonce]
    /\ Forget(p)
    /\ UNCHANGED files

Older(a) == IF a < MaxAge THEN a + 1 ELSE a

OlderFile(f) == IF f = NoFile THEN NoFile ELSE [f EXCEPT !.age = Older(f.age)]

(* Time passes for every timestamp at once. *)
Tick ==
    /\ MayAge
    /\ MayStall \/ \A p \in Procs : pc[p] \notin {"claimDir", "claimRename"}
    /\ ownerFile' = [n \in Nonces |-> OlderFile(ownerFile[n])]
    /\ seenOwner' = [p \in Procs |-> OlderFile(seenOwner[p])]
    /\ dirAge' = IF lockDir = NoNonce THEN dirAge ELSE Older(dirAge)
    /\ UNCHANGED <<lockDir, claim, moved, pc, nonce, tmpIn, seen>>

-----------------------------------------------------------------------------
Acquire(p) == \/ Attempt(p) \/ Mkdir(p) \/ ClaimDir(p) \/ ClaimRename(p)
              \/ ReadClaim(p) \/ ReadOwner(p) \/ Judge(p) \/ Move(p) \/ Retire(p)

Use(p) == \/ Heartbeat(p) \/ HeartbeatWrite(p) \/ HeartbeatReread(p)
          \/ CallDone(p) \/ Release(p)

Next == \/ \E p \in Procs : Request(p) \/ Acquire(p) \/ Use(p) \/ Crash(p)
        \/ Tick

Spec == Init /\ [][Next]_vars

(* A running process keeps taking steps, an operation that holds the lease
   ends (every provider call has a timeout), and the clock does not stop. *)
FairSpec ==
    /\ Spec
    /\ \A p \in Procs : WF_vars(Acquire(p)) /\ WF_vars(Use(p)) /\ SF_vars(Release(p))
    /\ WF_vars(Tick)

-----------------------------------------------------------------------------
(* The abstract lock the lease implements: the valid holder is the process
   whose nonce is in the claim. *)
NobodyHolds == "nobody"

Holders == {p \in Procs : Holding(p)}

ValidHolder ==
    IF \E p \in Holders : claim = nonce[p]
    THEN CHOOSE p \in Holders : claim = nonce[p]
    ELSE NobodyHolds

Fence == INSTANCE FencedLock WITH
            NoProc <- NobodyHolds,
            inside <- Holders,
            valid <- ValidHolder,
            calling <- {p \in Procs : pc[p] = "calling"}

-----------------------------------------------------------------------------
(* Properties. *)

(* The lease implements the fenced lock: however acquisitions, stale takeovers,
   heartbeats and crashes interleave, a remote call starts only while its
   caller's claim is in place, and losing the claim is final. *)
ImplementsFence == Fence!LockSpec

(* Two remote calls under one lease key are never in flight together: each is
   made right after a heartbeat found the caller's claim in place.  The test
   tests/autonomy-coordination.test.ts:747 asserts this of two concurrent
   ensureContinuation calls (maxActiveCreates is 1). *)
OneActiveCall ==
    \A p, q \in Procs : pc[p] = "calling" /\ pc[q] = "calling" => p = q

(* A holder whose claim is in place also has its own owner file in place, so
   its heartbeat cannot fail and no waiter can take its lease for a released
   one.  Every stale takeover, failed attempt and release removes owner files
   by nonce; none may hit the current holder's. *)
HolderIntact ==
    \A p \in Procs : Holding(p) /\ claim = nonce[p] =>
        ownerFile[nonce[p]] # NoFile /\ ownerFile[nonce[p]].by = p

(* A waiter about to take over never acts on the nonce of a process of its own
   host that is running and still has its claim: for its own host it probes the
   pid, however old the heartbeat is.  Only a foreign host may be dispossessed
   while alive. *)
LiveHolderNotJudged ==
    \A p, q \in Procs :
        pc[q] = "move" /\ Holding(p) /\ seen[q] = nonce[p] =>
            Host[p] # Host[q] \/ claim # nonce[p]

(* A holder loses its claim only to another process that takes the directory
   away or writes its own claim: an earlier holder that releases late, a waiter
   that gives up or a crash never touches it. *)
LeaseLostOnlyToTakeover ==
    [][\A p \in Procs : Holding(p) /\ claim = nonce[p] /\ claim' # nonce[p] =>
          \E q \in Procs \ {p} : \/ pc[q] = "move" /\ pc'[q] = "retire"
                                 \/ pc[q] = "claimRename" /\ pc'[q] = "held"]_vars

(* A lease that was lost stays lost: no interleaving of waiters, renames and
   late claim writes gives a dispossessed holder its claim back, so after the
   first failed heartbeat none would ever succeed. *)
LostForGood ==
    [][\A p \in Procs :
          Holding(p) /\ claim # nonce[p] /\ nonce'[p] = nonce[p] => claim' # nonce[p]]_vars

(* Whatever a crash left behind - a directory without a claim, a released
   claim, the owner file of a dead process, a half removed stale lock - the
   processes that want the lease are not stuck behind it: one gets in, or none
   is left trying. *)
Reclaimed ==
    (\E p \in Procs : Trying(p)) ~>
        (\E p \in Procs : Holding(p)) \/ (\A p \in Procs : ~Trying(p))
=============================================================================
