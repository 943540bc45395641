------------------------------ MODULE Recovery ------------------------------
(* What an unfinished container operation turned out to mean, as a pure      *)
(* function of what was observed (api/src/containers/recovery.ts).           *)
CONSTANT None          \* "no value": no configuration, no container, no row

(* The decisions of classifyRecovery; a decision that names a configuration  *)
(* carries it, the others carry None.                                        *)
DecisionKinds ==
  {"no_action", "identity_conflict", "needs_attention", "finalize_remove",
   "fail_operation", "discard_pending", "promote_pending"}

Decision(k, cfg) == [kind |-> k, config |-> cfg]
Plain(k) == Decision(k, None)

(* Mutant: a single claim is taken for the candidate without comparing. *)
classifyAnyClaim(in) ==
  IF in.conflict THEN Plain("identity_conflict")
  ELSE IF ~in.complete THEN Plain("no_action")
  ELSE IF in.operation = "remove" THEN Plain("finalize_remove")
  ELSE IF in.pending = None THEN Plain("no_action")
  ELSE Decision("promote_pending", in.pending)

(* An input: the operation, the two configurations on record, the            *)
(* configurations carried by the containers that claim the resource (a set   *)
(* of pairs of Docker id and configuration), whether the reading was         *)
(* complete, whether nothing in memory owns it, and whether a conflict is    *)
(* on record.                                                                *)
classifyRecovery(in) ==
  LET claim  == CHOOSE x \in in.claims : TRUE
      absent == in.claims = {}
      known  == {in.current, in.pending} \ {None}
  IN IF ~in.eligible THEN Plain("no_action")
     ELSE IF in.conflict \/ \E x, y \in in.claims : x # y
       THEN Plain("identity_conflict")
     ELSE IF ~in.complete THEN Plain("no_action")
     ELSE IF ~absent /\ claim.config \notin known THEN Plain("needs_attention")
     ELSE IF in.operation = "remove"
       THEN Plain(IF absent THEN "finalize_remove" ELSE "fail_operation")
     ELSE IF in.pending = None THEN Plain("no_action")
     ELSE IF absent /\ in.operation = "replace" THEN Plain("needs_attention")
     ELSE IF ~absent /\ claim.config = in.pending
       THEN Decision("promote_pending", in.pending)
     ELSE Decision("discard_pending", in.pending)
=============================================================================
