------------------------------ MODULE MCLease ------------------------------
(* Instances of Lease for TLC. *)
EXTENDS Lease, TLC

CONSTANTS p1, p2, p3, n1, n2, n3, n4, n5, n6

OneHost == [p \in Procs |-> "hostA"]
PairAndOther == [p \in Procs |-> IF p = p3 THEN "hostB" ELSE "hostA"]

NonceSymmetry == Permutations(Nonces)

(* Where this holds, the pool of nonces is never exhausted and stands for
   unlimited UUIDs. *)
PoolSuffices == \A p \in Procs : pc[p] = "attempt" => Nonces \ Mentioned # {}
=============================================================================
