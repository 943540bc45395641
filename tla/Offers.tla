-------------------------------- MODULE Offers --------------------------------
(***************************************************************************)
(* What the pages of a container and of a stack offer to do, and what the   *)
(* guards of the control server say when it is asked for.  The application  *)
(* and the server decide separately, each from its own reading of the same  *)
(* rows; here both read at the same moment, so whatever they disagree about *)
(* is not a page that is out of date.                                       *)
(*                                                                          *)
(* `facts' is the state of the rows and of the connection.  A press of an   *)
(* offered button is answered with a code, or carried out.                  *)
(***************************************************************************)
EXTENDS Naturals, Sequences

VARIABLES facts, answer

offerVars == <<facts, answer>>

ContainerActs == {"start", "stop", "restart", "update", "remove"}
StackActs == {"apply", "applyRevision", "startStack", "stopStack", "restartStack", "delete"}

(* The permission the page looks for, and the one the controller requires.    *)
PermissionOf ==
  [start |-> "containers.start", stop |-> "containers.stop", restart |-> "containers.restart",
   update |-> "containers.update", remove |-> "containers.delete",
   apply |-> "stacks.deploy", applyRevision |-> "stacks.deploy",
   startStack |-> "stacks.deploy", stopStack |-> "stacks.deploy", restartStack |-> "stacks.deploy", delete |-> "stacks.delete"]

RequirePermissions ==
  [start |-> "containers.start", stop |-> "containers.stop", restart |-> "containers.restart",
   update |-> "containers.update", remove |-> "containers.delete",
   apply |-> "stacks.deploy", applyRevision |-> "stacks.deploy",
   startStack |-> "stacks.deploy", stopStack |-> "stacks.deploy", restartStack |-> "stacks.deploy", delete |-> "stacks.delete"]

Permissions == {PermissionOf[a] : a \in ContainerActs \cup StackActs}

(* agents and hosts: revoked or not, connected or not, too old to report      *)
(* which stack its containers belong to; the host archived, and observed      *)
(* recently, long ago or never.                                               *)
Hosts == [revoked : BOOLEAN, connected : BOOLEAN, old : BOOLEAN, archived : BOOLEAN,
          observed : {"never", "recent", "past"}]

(* A container's row, its configurations and its unfinished actions.  Only    *)
(* one Dockplane built has those; only one it claims can be claimed twice.    *)
ContainerRows ==
  { c \in [origin : {"managed", "stack", "project", "external"},
           configs : SUBSET {"current", "pending"}, unfinished : BOOLEAN,
           conflict : BOOLEAN, state : {"running", "restarting", "exited", "paused"},
           observed : {"never", "recent", "past"}] :
      /\ c.origin = "managed" <=> c.configs # {}
      /\ c.unfinished => c.origin = "managed"
      /\ c.conflict => c.origin \in {"managed", "stack"} }

(* A stack's row: the revision it is deployed with and the newest, attempts   *)
(* and operations that have not resolved, and the containers it holds; and    *)
(* the revision chosen from its history.                                      *)
StackRows ==
  { s \in [status : {"not_deployed", "deploying", "running", "stopped", "needs_attention"},
           unresolved : BOOLEAN, current : 0 .. 2, latest : 1 .. 2, chosen : 1 .. 2,
           attempted : BOOLEAN, holds : {"none", "some", "all"}] :
      /\ s.current <= s.latest /\ s.chosen <= s.latest
      /\ s.status = "not_deployed" => s.current = 0 /\ ~s.unresolved
      /\ s.status \in {"running", "stopped"} => s.current > 0
      /\ s.status = "deploying" => s.unresolved
      /\ s.status = "needs_attention" => ~s.unresolved
      /\ s.current > 0 \/ s.unresolved \/ s.status = "needs_attention" => s.attempted }

QuietStack == [status |-> "running", unresolved |-> FALSE, current |-> 1, latest |-> 1,
               chosen |-> 1, attempted |-> TRUE, holds |-> "all"]
SomeContainer == [origin |-> "stack", configs |-> {}, unfinished |-> FALSE, conflict |-> FALSE,
                  state |-> "running", observed |-> "recent"]

(* MutationRegistry, for the container or the stack of the page: free, or     *)
(* held for a request of this page or of somebody else.                       *)
Locks == {"free", "here", "elsewhere"}

(* Everything is permitted, whoever holds the lock, or, on a host that answers, *)
(* everything but one of the acts of the page.                                *)
HeldAndLock(h, acts) ==
  ({Permissions} \X Locks)
    \cup (IF h.connected /\ ~h.revoked /\ ~h.archived /\ h.observed = "recent"
          THEN {<<Permissions \ {PermissionOf[a]}, "free">> : a \in acts} ELSE {})

(* The stack of a container: its own, or none that matters.                   *)
StacksOf(c) == IF c.origin = "stack"
               THEN {s \in StackRows : s.current = 1 /\ s.latest = 1 /\ s.holds = "all"}
               ELSE {QuietStack}

OffersInit ==
  /\ \/ \E h \in {g \in Hosts : ~g.old /\ g.observed # "never"},
           c \in {d \in ContainerRows : d.observed # "never"} :
          \E s \in StacksOf(c), p \in HeldAndLock(h, ContainerActs) :
            facts = [about |-> "container", host |-> h, container |-> c, stack |-> s,
                     held |-> p[1], lock |-> p[2]]
     \/ \E h \in Hosts, s \in StackRows : \E p \in HeldAndLock(h, StackActs) :
          facts = [about |-> "stack", host |-> h, container |-> SomeContainer, stack |-> s,
                   held |-> p[1], lock |-> p[2]]
  /\ answer = "none"

-----------------------------------------------------------------------------
(* InventoryService and the application's reading of it. *)

(* freshness, of an observation of a host with an agent. *)
stale(observed) == observed = "never" \/ ~facts.host.connected \/ observed = "past"

toHostStatus == IF facts.host.revoked THEN "critical"
                ELSE IF ~facts.host.connected THEN "offline"
                ELSE IF stale(facts.host.observed) THEN "unknown" ELSE "healthy"

isReporting(status) == status \notin {"offline", "unknown"}

(* managementFor and toManagement. *)
management ==
  LET c == facts.container
  IN [kind |-> IF c.origin \in {"stack", "project"} THEN "stack"
               ELSE IF c.configs # {} THEN "managed" ELSE "external",
      reconciling |-> "pending" \in c.configs \/ c.unfinished,
      identityConflict |-> c.conflict]

toContainerState == IF facts.container.state \in {"exited", "paused"} THEN "stopped"
                    ELSE facts.container.state

containerStateBadge == IF stale(facts.container.observed) THEN "last known" ELSE "live"

-----------------------------------------------------------------------------
(* Mutant: an archived host is asked like any other. *)
reachableArchived == isReporting(toHostStatus)

(* ContainerDetail: what can be pressed. *)
reachable == isReporting(toHostStatus) /\ ~facts.host.archived

undetermined == management.identityConflict \/ management.reconciling

(* running, and busy of a stack's dialogs: only a request of this very page.   *)
running == facts.lock = "here"

isRunning == toContainerState \in {"running", "restarting"}

ContainerOffered(a) ==
  IF a \in {"update", "remove"} THEN management.kind = "managed"
  ELSE reachable /\ ~running /\ ~undetermined /\ (isRunning <=> a # "start")

(* stackState, and the stack's page. *)
hostReachable == ~facts.host.revoked /\ facts.host.connected

stackState ==
  LET s == facts.stack
  IN IF s.status = "needs_attention" THEN "needs_attention"
     ELSE IF s.unresolved \/ s.status = "deploying" THEN "reconciling"
     ELSE IF s.current = 0 THEN "not_deployed"
     ELSE IF s.status = "stopped" THEN "stopped"
     ELSE IF s.latest # s.current THEN "changes_pending" ELSE "running"

stackOperations == CASE stackState = "stopped" -> {"startStack"}
                     [] stackState \in {"running", "changes_pending"} -> {"stopStack", "restartStack"}
                     [] OTHER -> {}

(* The revision an act would apply: the newest from the head of the page, any *)
(* of the history from its tab.                                               *)
Target(a) == IF a = "applyRevision" THEN facts.stack.chosen ELSE facts.stack.latest

(* A revision that is there already is not applied again, but to repair it.   *)
Applicable(a) == facts.stack.current # Target(a) \/ stackState = "needs_attention"

(* applicable and blocked of the page; actionFor and blocked of its history,  *)
(* which does not look whether the host is reachable.                         *)
ApplyOffered == stackState # "reconciling" /\ hostReachable /\ Applicable("apply")

RevisionOffered == stackState # "reconciling" /\ Applicable("applyRevision")

(* available and blocked of the two dialogs. *)
DeleteOffered == /\ stackState \notin {"needs_attention", "reconciling"}
                 /\ facts.stack.current # 0 => hostReachable

OperationOffered(a) == a \in stackOperations /\ hostReachable

StackOffered(a) == /\ ~running
                   /\ CASE a = "apply" -> ApplyOffered
                        [] a = "applyRevision" -> RevisionOffered
                        [] a = "delete" -> DeleteOffered
                        [] OTHER -> OperationOffered(a)

ActsHere == IF facts.about = "container" THEN ContainerActs ELSE StackActs

Offered(a) == /\ PermissionOf[a] \in facts.held
              /\ IF a \in ContainerActs THEN ContainerOffered(a) ELSE StackOffered(a)

(* applyKind: what the button calls it. *)
applyKind(a) == IF stackState = "needs_attention" THEN "repair"
                ELSE IF facts.stack.current = 0 THEN "deploy"
                ELSE IF Target(a) < facts.stack.current THEN "rollback" ELSE "redeploy"

-----------------------------------------------------------------------------
(* The control server.  A list of guards answers with the first that refuses. *)
Verdict(guards) ==
  LET refusing == {i \in DOMAIN guards : guards[i][1]}
  IN IF refusing = {} THEN "accepted"
     ELSE guards[CHOOSE i \in refusing : \A j \in refusing : i <= j][2]

(* PendingMutationGuard. *)
assertResolved == << <<"pending" \in facts.container.configs \/ facts.container.unfinished,
                       "ACTION_CONFLICT">> >>

assertStackSettled ==
  << <<facts.container.origin = "stack" /\ facts.stack.unresolved, "STACK_UNRESOLVED">>,
     <<facts.container.origin = "stack" /\ facts.stack.status = "needs_attention",
       "STACK_NEEDS_ATTENTION">> >>

assertOperable == assertResolved \o assertStackSettled
                    \o << <<facts.container.conflict, "CONTAINER_IDENTITY_CONFLICT">> >>

assertNotArchived == << <<facts.host.archived, "HOST_ARCHIVED">> >>

connectedAgent == << <<facts.host.revoked, "AGENT_REVOKED">>,
                     <<~facts.host.connected, "AGENT_OFFLINE">> >>

(* mutations.acquire. *)
acquireLock == << <<facts.lock # "free", "ACTION_CONFLICT">> >>

(* LifecycleService.run, and mutable of ContainerManagementService with the   *)
(* lock replace and remove then take.                                         *)
run == assertOperable \o assertNotArchived \o connectedAgent \o acquireLock

mutable == assertOperable
             \o << <<facts.container.origin \in {"stack", "project"}, "MANAGED_BY_STACK">>,
                   <<facts.container.configs = {}, "CONTAINER_NOT_MANAGED">> >>
             \o connectedAgent \o acquireLock

(* The stack services ask more of the agent. *)
attributingAgent == << <<facts.host.revoked, "AGENT_REVOKED">>,
                       <<facts.host.old, "AGENT_UPGRADE_REQUIRED">>,
                       <<~facts.host.connected, "AGENT_OFFLINE">> >>

assertNothingUnresolved == << <<facts.stack.unresolved, "STACK_UNRESOLVED">> >>

needsAttention == << <<facts.stack.status = "needs_attention", "STACK_NEEDS_ATTENTION">> >>

deployedServices == << <<facts.stack.holds # "all", "STACK_SERVICE_MISSING">> >>

(* kindOf, "none" being a revision that is already there. *)
kindOf(a) == IF facts.stack.status = "needs_attention" THEN "repair"
             ELSE IF facts.stack.current = 0 THEN "deploy"
             ELSE IF facts.stack.current = Target(a) THEN "none"
             ELSE IF Target(a) < facts.stack.current THEN "rollback" ELSE "redeploy"

deploy(a) == assertNotArchived \o << <<kindOf(a) = "none", "STACK_REVISION_ALREADY_DEPLOYED">> >>
            \o attributingAgent \o assertNothingUnresolved \o acquireLock

operable == assertNotArchived
              \o << <<facts.stack.current = 0, "STACK_NOT_DEPLOYED">> >>
              \o needsAttention \o assertNothingUnresolved
              \o attributingAgent \o acquireLock \o deployedServices

deletable == assertNotArchived \o needsAttention \o assertNothingUnresolved \o acquireLock

deleteNeverDeployed ==
  << <<facts.stack.holds # "none", "STACK_STATE_AMBIGUOUS">>,
     <<facts.stack.attempted /\ (facts.host.old \/ facts.host.revoked),
       "AGENT_UPGRADE_REQUIRED">> >>

Guards(a) ==
  CASE a \in {"start", "stop", "restart"} -> run
    [] a \in {"update", "remove"} -> mutable
    [] a \in {"apply", "applyRevision"} -> deploy(a)
    [] a = "delete" -> deletable \o (IF facts.stack.current = 0 THEN deleteNeverDeployed
                                     ELSE attributingAgent \o deployedServices)
    [] OTHER -> operable

Answers(a) == IF RequirePermissions[a] \notin facts.held THEN "FORBIDDEN"
              ELSE Verdict(Guards(a))

(* A button is pressed, and the answer shown. *)
press(a) ==
  /\ answer = "none" /\ a \in ActsHere
  /\ Offered(a)
  /\ answer' = Answers(a)
  /\ UNCHANGED facts

OffersNext == \E a \in ContainerActs \cup StackActs : press(a)

OffersSpec == OffersInit /\ [][OffersNext]_offerVars

-----------------------------------------------------------------------------
Codes == {"accepted", "none", "ACTION_CONFLICT", "STACK_UNRESOLVED", "STACK_NEEDS_ATTENTION",
          "CONTAINER_IDENTITY_CONFLICT", "HOST_ARCHIVED", "AGENT_REVOKED", "AGENT_OFFLINE",
          "AGENT_UPGRADE_REQUIRED", "STACK_SERVICE_MISSING", "STACK_STATE_AMBIGUOUS"}

(* The answers an offered button can get: it is never refused as forbidden,   *)
(* unknown, external, never deployed or already deployed.                     *)
OffersTypeOK == answer \in Codes

(* What ContainerDetail says of its buttons: `An enabled control missing any  *)
(* of them would promise something the control server refuses', `them' being  *)
(* the permission, the state, the host and that `no other operation is        *)
(* running on this container'.  A start, stop or restart that is offered is   *)
(* carried out, with three exceptions, each of which the comment rules out or *)
(* leaves unsaid: an agent that was revoked, whose host is shown as critical  *)
(* and taken to be reporting; a container of a stack that is not settled, of  *)
(* which the container's own page knows nothing; and an operation somebody    *)
(* else has running, of which it knows its own only (reachable, ready,        *)
(* assertOperable, connectedAgent, acquire).                                  *)
RefusalsAreKnown ==
  \A a \in {op \in {"start", "stop", "restart"} : op \in ActsHere /\ Offered(op)} :
    \/ Answers(a) = "accepted"
    \/ facts.host.revoked
    \/ facts.lock = "elsewhere" /\ Answers(a) = "ACTION_CONFLICT"
    \/ /\ facts.container.origin = "stack"
       /\ facts.stack.unresolved \/ facts.stack.status = "needs_attention"

(* The page hides no operation the server would carry out on a container in a *)
(* state it applies to, but for a host that nothing has been heard of lately  *)
(* (isReporting, undetermined against run's guards).                          *)
NothingWithheld ==
  \A a \in {"start", "stop", "restart"} :
    (a \in ActsHere /\ (isRunning <=> a # "start") /\ Answers(a) = "accepted")
      => Offered(a) \/ stale(facts.host.observed)

(* What a stack's page offers is refused only for what the page is not told:  *)
(* an archived host, an agent too old for stacks, containers the host has     *)
(* lost or shows unasked, an operation somebody else has running; and the     *)
(* history also for a host that is gone (blocked, available, actionFor        *)
(* against deploy, operable, deletable).                                      *)
StackRefusalsAreKnown ==
  \A a \in StackActs \cap ActsHere :
    Offered(a) =>
      \/ Answers(a) \in {"accepted", "HOST_ARCHIVED", "AGENT_UPGRADE_REQUIRED",
                         "STACK_SERVICE_MISSING", "STACK_STATE_AMBIGUOUS"}
      \/ facts.lock = "elsewhere" /\ Answers(a) = "ACTION_CONFLICT"
      \/ a = "applyRevision" /\ ~hostReachable

(* The word on the button is the kind of deployment that is then recorded     *)
(* (applyKind and kindOf are written twice, in two languages of states).      *)
KindsAgree == \A a \in {"apply", "applyRevision"} \cap ActsHere :
                Offered(a) => applyKind(a) = kindOf(a)

(* No container is shown as live beside a host that is shown as gone          *)
(* (freshness, containerStateBadge and toHostStatus).                         *)
NoContradiction ==
  containerStateBadge = "live" => toHostStatus # "offline"

(* The pages and the server agree on what may be done and what would be done, *)
(* but for the exceptions named.                                              *)
OffersAreKept ==
  RefusalsAreKnown /\ NothingWithheld /\ StackRefusalsAreKnown /\ KindsAgree /\ NoContradiction
=============================================================================
