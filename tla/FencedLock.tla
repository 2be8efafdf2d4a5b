----------------------------- MODULE FencedLock -----------------------------
(***************************************************************************)
(* What the lease of autonomy/coordination.ts promises the operations that *)
(* run under it, without files, waiters or clocks.                         *)
(*                                                                         *)
(* It is not mutual exclusion: a process may enter while another is still  *)
(* inside.  Entering makes one process the valid holder; a process that is *)
(* no longer valid stays invalid until it leaves; and a remote call under  *)
(* the lease starts only while its caller is the valid holder.             *)
(***************************************************************************)
CONSTANTS Procs, NoProc

VARIABLES inside,   \* processes between acquisition and release
          valid,    \* the process whose claim is in place, or NoProc
          calling   \* processes with a fenced remote call in flight

lockVars == <<inside, valid, calling>>

LockTypeOK ==
    /\ inside \subseteq Procs
    /\ valid \in inside \cup {NoProc}
    /\ calling \subseteq inside

LockInit == inside = {} /\ valid = NoProc /\ calling = {}

Enter(p) ==
    /\ p \notin inside
    /\ inside' = inside \cup {p}
    /\ valid' = p
    /\ UNCHANGED calling

Dispossess ==
    /\ valid' = NoProc
    /\ UNCHANGED <<inside, calling>>

Call(p) ==
    /\ valid = p
    /\ calling' = calling \cup {p}
    /\ UNCHANGED <<inside, valid>>

Return(p) ==
    /\ calling' = calling \ {p}
    /\ UNCHANGED <<inside, valid>>

(* Release, or the process dies. *)
Leave(p) ==
    /\ p \in inside
    /\ inside' = inside \ {p}
    /\ calling' = calling \ {p}
    /\ valid' = IF valid = p THEN NoProc ELSE valid

LockNext ==
    \/ \E p \in Procs : Enter(p) \/ Call(p) \/ Return(p) \/ Leave(p)
    \/ Dispossess

LockSpec == LockInit /\ [][LockNext]_lockVars
=============================================================================
