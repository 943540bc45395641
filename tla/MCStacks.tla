------------------------------ MODULE MCStacks ------------------------------
(* Stacks with two services: the first revision has one, the second both. *)
EXTENDS Stacks, TLC

CONSTANTS a, b, r1, r2

MCServicesOf == (r1 :> {a}) @@ (r2 :> {a, b})

(* Each fault of a set, once. *)
Once(fs) == [f \in Faults |-> IF f \in fs THEN 1 ELSE 0]

NoFault == Once({})
Restart == Once({"crash"})
Drop    == Once({"drop"})
Losses  == Once(Faults \ {"drop"})
=============================================================================
