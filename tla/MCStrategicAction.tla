------------------------- MODULE MCStrategicAction -------------------------
(* Instances of StrategicAction for TLC. *)
EXTENDS StrategicAction, TLC

CONSTANTS p1, p2, a1, a2, a3

Asks(operation, target) == [operation |-> operation, target |-> target]

(* Two pauses of the loop and a rollback of the first; a priority, a comment and
   a rollback of the priority on one ticket; two follow-ups of one root cause. *)
ThreeCases ==
    {(a1 :> Asks("pause", NoAction) @@ a2 :> Asks("pause", NoAction)
        @@ a3 :> Asks("rollback", a1)),
     (a1 :> Asks("priority", NoAction) @@ a2 :> Asks("comment", NoAction)
        @@ a3 :> Asks("rollback", a1)),
     (a1 :> Asks("create", NoAction) @@ a2 :> Asks("create", NoAction)
        @@ a3 :> Asks("comment", NoAction))}

ProcSymmetry == Permutations(Procs)
=============================================================================
