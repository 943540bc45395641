-------------------------- MODULE StackClassifiers --------------------------
(* What an operation on a stack turned out to have done, as pure functions of *)
(* what was read (api/src/stacks/stack-deployment.ts, stack-lifecycle.ts and  *)
(* stack-delete.ts).                                                          *)
(*                                                                            *)
(* An observed service is a record of the container row that holds it: its    *)
(* service, the Docker container it names (None: none), the revision that     *)
(* container carries, whether it runs, and since when (None: not known).      *)
EXTENDS FiniteSets
CONSTANT None

Live(observed) == {x \in observed : x.docker # None}

(* Mutant: a revision counts as applied once its services are there. *)
matchesByName(live, expected, revision, requireRunning) ==
  \A s \in expected : \E x \in live : x.svc = s /\ (requireRunning => x.up)

matches(live, expected, revision, requireRunning) ==
  /\ Cardinality(live) = Cardinality(expected)
  /\ \A x \in live : /\ x.svc \in expected
                     /\ x.rev = revision
                     /\ requireRunning => x.up

(* in: from and target revision, the services of each, observed, complete. *)
classifyStackApply(in) ==
  LET live == Live(in.observed)
  IN IF ~in.complete THEN "unknown"
     ELSE IF \E x, y \in live : x # y /\ x.svc = y.svc THEN "needs_attention"
     ELSE IF live = {}
       THEN IF in.from = None THEN "finalize_not_applied" ELSE "needs_attention"
     ELSE IF matches(live, in.targetServices, in.target, TRUE) THEN "finalize_target"
     ELSE IF in.from # None /\ matches(live, in.fromServices, in.from, FALSE)
       THEN "finalize_from"
     ELSE "needs_attention"

(* before: per service, the container and its start time at the dispatch. *)
restartOutcome(services, before) ==
  LET same(x)  == x.docker = before[x.svc].docker
      dated(x) == before[x.svc].since # None /\ x.since # None
      later(x) == x.since # before[x.svc].since
  IN IF \E x \in services : ~x.up THEN "needs_attention"
     ELSE IF \E x \in services : ~same(x) \/ ~dated(x) THEN "unknown"
     ELSE IF \A x \in services : later(x) THEN "applied"
     ELSE IF \A x \in services : ~later(x) THEN "not_applied"
     ELSE "needs_attention"

(* in: the operation, the deployed revision and its services, observed,       *)
(* complete, and for a restart the fingerprint.                               *)
classifyStackLifecycle(in) ==
  LET live    == Live(in.observed)
      running == {x \in live : x.up}
      settled(none, all) ==
        IF running = {} THEN none ELSE IF running = live THEN all ELSE "needs_attention"
  IN IF ~in.complete THEN "unknown"
     ELSE IF \E s \in in.services : ~\E x \in live : x.svc = s /\ x.rev \in {None, in.revision}
       THEN "needs_attention"
     ELSE IF \E x \in live : x.svc \notin in.services THEN "needs_attention"
     ELSE CASE in.operation = "stop"    -> settled("applied", "not_applied")
            [] in.operation = "start"   -> settled("not_applied", "applied")
            [] in.operation = "restart" -> restartOutcome(live, in.fingerprint)

(* Mutant: a stack that is partly gone counts as gone. *)
classifyStackDeletePartly(in) ==
  LET present == Live(in.observed)
  IN IF ~in.complete THEN "unknown"
     ELSE IF {x.svc : x \in present} = in.services THEN "finalize_not_applied"
     ELSE "finalize_deleted"

classifyStackDelete(in) ==
  LET present == Live(in.observed)
  IN IF ~in.complete THEN "unknown"
     ELSE IF present = {} THEN "finalize_deleted"
     ELSE IF \E x \in present : x.svc \notin in.services THEN "needs_attention"
     ELSE IF {x.svc : x \in present} = in.services THEN "finalize_not_applied"
     ELSE "needs_attention"
=============================================================================
