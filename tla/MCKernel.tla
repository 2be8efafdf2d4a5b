------------------------------ MODULE MCKernel ------------------------------
(* Instances of Kernel for TLC. *)
EXTENDS Kernel, TLC

CONSTANTS p1, p2, g1, g2, t1, t2, c1, c2

GoalCommandsAndTickets == GoalCommands \cup TicketCommands

(* t1 changes code, t2 waits for t1. *)
OneGoal == [t \in Tickets |-> g1]
Chain == [t \in Tickets |-> IF t = t2 THEN {t1} \cap Tickets ELSE {}]

(* The commands that write a status or an evidence pointer the invariants of
   overlapping commands speak of. *)
Racing == {"goal create", "goal activate", "goal abandon",
           "goal enforce on", "ticket create", "ticket submit",
           "ticket done", "verify run"}

Symmetry == Permutations(Procs) \cup Permutations(Commits)
=============================================================================
