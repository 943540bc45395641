----------------------- MODULE MCContainerManagement -----------------------
(* ContainerManagement on one host with a few calls. *)
EXTENDS ContainerManagement, TLC

CONSTANTS c1, c2, n1, n2, o1, o2, s1

(* One container managed from the start and one that a call may create. *)
NameEach == [c \in Containers |-> IF c = c1 THEN n1 ELSE n2]

(* Each fault of a set, once. *)
Once(fs) == [f \in Faults |-> IF f \in fs THEN 1 ELSE 0]

NoFault == Once({})
Crashes == Once({"crash", "drop", "leak", "throw"})
Meddled == Once({"crash", "external"})
NobodyInterferes == Once(Faults \ {"external", "throw"})
=============================================================================
