----------------------------- MODULE MCGateway -----------------------------
(* Gateway with one agent, two sockets, one operation and one log stream. *)
EXTENDS Gateway, TLC

(* Each of a set of events, once. *)
Once(fs) == [f \in Faults |-> IF f \in fs THEN 1 ELSE 0]

FaultOnce   == Once({"fault"})
Everything  == Once(Faults)
=============================================================================
