------------------------- MODULE ContainerManagement -------------------------
(***************************************************************************)
(* Creating, replacing, removing and operating the containers of one host: *)
(* the control server's container-management and lifecycle services, the   *)
(* lock and the guards they go through, the discovery passes that read the *)
(* host back, and the recovery that settles an operation which lost its    *)
(* owner.  The agent's work is reduced to its effects on the host.         *)
(*                                                                         *)
(* An operation o in Ops stands for one API call and for everything it     *)
(* names: its action row, the candidate configuration it writes and the    *)
(* Docker container the agent builds for it.  So the Docker container with *)
(* configuration o is the one operation o built, and Genesis is what a     *)
(* container managed from the start was built from.                        *)
(***************************************************************************)
EXTENDS Recovery, Naturals, FiniteSets

CONSTANTS Containers,  \* Dockplane resource ids
          Managed,     \* the resources that exist, settled, at the start
          Names,       \* names on the host
          NameOf,      \* the name of each resource
          Ops,         \* API calls
          Kinds,       \* what the calls may ask for
          Runners,     \* runs of the discovery scheduler
          Genesis,     \* the configuration of the initial containers
          Budget,      \* how often each fault happens
          MaxPasses    \* how many discovery passes may be under way at once

AllKinds == {"create", "replace", "remove", "lifecycle"}
(* timeout: a request outlives its deadline; drop: the connection is lost;    *)
(* crash, agentcrash: a process restarts; gap: a discovery request fails;     *)
(* leak: a Docker call fails where the agent cannot undo it; external:        *)
(* somebody removes a container by hand; throw: a database write fails.       *)
Faults == {"timeout", "drop", "crash", "agentcrash", "gap", "leak",
           "external", "throw"}

ASSUME ConstantsAssumption ==
  /\ Managed \subseteq Containers
  /\ NameOf \in [Containers -> Names]
  /\ Kinds \subseteq AllKinds
  /\ Budget \in [Faults -> Nat]
  /\ MaxPasses \in Nat
  /\ None \notin Ops /\ None # Genesis /\ Genesis \notin Ops
  /\ None \notin Runners
  /\ Ops \cap Runners = {}
  /\ Containers \cap Names = {}

Configs == Ops \cup {Genesis}
Workers == Ops \cup Runners          \* whoever runs a discovery pass
Keys    == Containers \cup Names     \* what a lock is held on

VARIABLES
  (* PostgreSQL: survives a restart of the control server *)
  rows,      \* the resources that have a row
  docker,    \* containers.docker_id, with the configuration it was seen to carry
  conflict,  \* the resources with containers.identity_conflict set
  snap,      \* containers.snapshot_id: the last pass that stamped the row
  current,   \* the configuration in state 'current'
  pending,   \* the configuration in state 'pending'
  action,    \* actions.status
  (* the control server's memory *)
  kind, target, address, \* the call: what, on which resource, at which Docker id
  pc,        \* where each call and each scheduler run is
  held,      \* MutationRegistry.held
  pass,      \* the discovery pass of each worker
  verdict,   \* the decision a worker is about to finalise
  todo,      \* the unfinished operations a run has still to look at
  subject,   \* the operation a run is reconciling
  live,      \* the runs whose schedule has not been stopped
  (* the connection and the host *)
  connected, \* the agent has a registered connection
  request,   \* each call's request, from the wire to the answer
  host,      \* the Docker containers that exist
  built,     \* history: the operations whose container was ever built
  budget     \* faults that may still happen

db     == <<rows, docker, conflict, snap, current, pending, action>>
call   == <<kind, target, address>>
runs   == <<todo, subject, live>>
env    == <<connected, request, host, built, budget>>
vars   == <<db, call, pc, held, pass, verdict, runs, env>>

Statuses == {"none", "running", "succeeded", "failed", "timed_out"}
Places   == {"idle", "guarded", "locked", "prepared", "waiting", "report",
             "resync", "decide", "done", "pass", "recover"}
Holding  == {"locked", "prepared", "waiting", "report", "resync", "decide"}
Requests == {"none", "wire", "exec", "built", "ok", "err", "gone"}
Claims   == [container : Containers, config : Configs]
PassStates == {"off", "asked", "listed", "applied", "done"}
Passes   == [st : PassStates, list : SUBSET Claims, complete : BOOLEAN]

NoPass == [st |-> "off", list |-> {}, complete |-> FALSE]

(* One type invariant for all of it. *)
TypeOK ==
  /\ rows \subseteq Containers
  /\ docker \in [Containers -> Configs \cup {None}]
  /\ conflict \subseteq Containers
  /\ snap \in [Containers -> Workers \cup {None}]
  /\ current \in [Containers -> Configs \cup {None}]
  /\ pending \in [Containers -> Ops \cup {None}]
  /\ action \in [Ops -> Statuses]
  /\ kind \in [Ops -> AllKinds \cup {None}]
  /\ target \in [Ops -> Containers \cup {None}]
  /\ address \in [Ops -> Configs \cup {None}]
  /\ pc \in [Workers -> Places]
  /\ held \in [Keys -> Ops \cup {None}]
  /\ pass \in [Workers -> Passes]
  /\ verdict \in [Workers -> [kind : DecisionKinds, config : Configs \cup {None}]]
  /\ todo \in [Runners -> SUBSET Ops]
  /\ subject \in [Runners -> Ops \cup {None}]
  /\ live \subseteq Runners
  /\ connected \in BOOLEAN
  /\ request \in [Ops -> Requests]
  /\ host \subseteq Claims
  /\ built \subseteq Ops
  /\ budget \in [Faults -> Nat]

Init ==
  /\ rows = Managed
  /\ docker = [c \in Containers |-> IF c \in Managed THEN Genesis ELSE None]
  /\ conflict = {}
  /\ snap = [c \in Containers |-> None]
  /\ current = [c \in Containers |-> IF c \in Managed THEN Genesis ELSE None]
  /\ pending = [c \in Containers |-> None]
  /\ action = [o \in Ops |-> "none"]
  /\ kind = [o \in Ops |-> None]
  /\ target = [o \in Ops |-> None]
  /\ address = [o \in Ops |-> None]
  /\ pc = [w \in Workers |-> "idle"]
  /\ held = [k \in Keys |-> None]
  /\ pass = [w \in Workers |-> NoPass]
  /\ verdict = [w \in Workers |-> Plain("no_action")]
  /\ todo = [s \in Runners |-> {}]
  /\ subject = [s \in Runners |-> None]
  /\ live = {}
  /\ connected = TRUE
  /\ request = [o \in Ops |-> "none"]
  /\ host = {[container |-> c, config |-> Genesis] : c \in Managed}
  /\ built = {}
  /\ budget = Budget

-----------------------------------------------------------------------------
Management == {"create", "replace", "remove"}   \* what recovery settles

Spend(f) == budget[f] > 0 /\ budget' = [budget EXCEPT ![f] = @ - 1]

(* MutationRegistry: a create holds the name, everything else the container. *)
Key(o) == IF kind[o] = "create" THEN NameOf[target[o]] ELSE target[o]

(* Mutant: the registry is asked and the answer ignored. *)
isBusyIgnored(k) == FALSE

isBusy(k) == held[k] # None

(* The release function acquire returned, called by whoever got it. *)
Released(o) == [k \in Keys |-> IF held[k] = o THEN None ELSE held[k]]

(* PendingMutationGuard.assertResolved: no candidate, no unfinished action. *)
assertResolved(c) ==
  /\ pending[c] = None
  /\ ~\E o \in Ops : target[o] = c /\ action[o] = "running" /\ kind[o] \in Management

(* PendingMutationGuard.assertOperable, for a container of no stack. *)
assertOperable(c) == assertResolved(c) /\ c \notin conflict

(* PendingMutationGuard.assertNameFree. *)
assertNameFree(n) == \A c \in rows : NameOf[c] # n

(* ContainerManagementService.mutable: exists, operable, managed. *)
mutable(c) ==
  /\ c \in rows
  /\ assertOperable(c)
  /\ current[c] # None \/ pending[c] # None

(* Deleting a row takes its configurations with it (onDelete cascade). *)
DeleteRows(gone) ==
  /\ rows' = rows \ gone
  /\ docker' = [c \in Containers |-> IF c \in gone THEN None ELSE docker[c]]
  /\ conflict' = conflict \ gone
  /\ snap' = [c \in Containers |-> IF c \in gone THEN None ELSE snap[c]]
  /\ current' = [c \in Containers |-> IF c \in gone THEN None ELSE current[c]]
  /\ pending' = [c \in Containers |-> IF c \in gone THEN None ELSE pending[c]]

-----------------------------------------------------------------------------
(* The API calls. *)

(* create / replace / remove / run, up to the lock: the guards, read from the *)
(* database, and connectedAgent.  A lifecycle call resolves its Docker id     *)
(* here; the others do so under the lock.                                     *)
Begin(o, k, c) ==
  /\ pc[o] = "idle" /\ k \in Kinds
  /\ connected
  /\ CASE k = "create"    -> /\ c \notin rows
                             /\ \A p \in Ops : target[p] # c
                             /\ c \notin Managed
                             /\ assertNameFree(NameOf[c])
       [] k = "lifecycle" -> c \in rows /\ assertOperable(c) /\ docker[c] # None
       [] OTHER           -> mutable(c)
  /\ kind' = [kind EXCEPT ![o] = k]
  /\ target' = [target EXCEPT ![o] = c]
  /\ address' = [address EXCEPT ![o] = IF k = "lifecycle" THEN docker[c] ELSE None]
  /\ pc' = [pc EXCEPT ![o] = "guarded"]
  /\ UNCHANGED <<db, held, pass, verdict, runs, env>>

(* MutationRegistry.acquire: the lock, or a refusal. *)
acquire(o) ==
  /\ pc[o] = "guarded"
  /\ \/ /\ ~isBusy(Key(o))
        /\ held' = [held EXCEPT ![Key(o)] = o]
        /\ pc' = [pc EXCEPT ![o] = "locked"]
     \/ /\ isBusy(Key(o))
        /\ pc' = [pc EXCEPT ![o] = "done"]
        /\ UNCHANGED held
  /\ UNCHANGED <<db, call, pass, verdict, runs, env>>

(* prepareCreate: the row, the action and the candidate in one transaction.   *)
(* The partial unique index on unfinished names refuses a second one.         *)
prepareCreate(o) ==
  /\ kind[o] = "create"
  /\ ~\E c \in rows : docker[c] = None /\ NameOf[c] = NameOf[target[o]]
  /\ rows' = rows \cup {target[o]}
  /\ pending' = [pending EXCEPT ![target[o]] = o]
  /\ action' = [action EXCEPT ![o] = "running"]
  /\ UNCHANGED <<docker, conflict, snap, current, address>>

(* dockerId and prepareReplace: a current configuration is needed, and the    *)
(* unique index allows one candidate.                                         *)
prepareReplace(o) ==
  /\ kind[o] = "replace"
  /\ docker[target[o]] # None
  /\ current[target[o]] # None
  /\ pending[target[o]] = None
  /\ address' = [address EXCEPT ![o] = docker[target[o]]]
  /\ pending' = [pending EXCEPT ![target[o]] = o]
  /\ action' = [action EXCEPT ![o] = "running"]
  /\ UNCHANGED <<rows, docker, conflict, snap, current>>

(* dockerId and the action of a removal. *)
prepareRemove(o) ==
  /\ kind[o] = "remove"
  /\ docker[target[o]] # None
  /\ address' = [address EXCEPT ![o] = docker[target[o]]]
  /\ action' = [action EXCEPT ![o] = "running"]
  /\ UNCHANGED <<rows, docker, conflict, snap, current, pending>>

(* The action of a lifecycle call. *)
prepareLifecycle(o) ==
  /\ kind[o] = "lifecycle"
  /\ action' = [action EXCEPT ![o] = "running"]
  /\ UNCHANGED <<rows, docker, conflict, snap, current, pending, address>>

Preparable(o) ==
  CASE kind[o] = "create"  -> ~\E c \in rows : docker[c] = None /\ NameOf[c] = NameOf[target[o]]
    [] kind[o] = "replace" -> /\ docker[target[o]] # None
                              /\ current[target[o]] # None
                              /\ pending[target[o]] = None
    [] kind[o] = "remove"  -> docker[target[o]] # None
    [] OTHER               -> TRUE

prepare(o) ==
  \/ prepareCreate(o) \/ prepareReplace(o) \/ prepareRemove(o) \/ prepareLifecycle(o)

(* Under the lock: write down what is about to be asked, or throw before or   *)
(* (auditRequested) after it is written.  The management calls hold the lock  *)
(* inside try ... finally; a lifecycle call enters its try block only after   *)
(* the action and the audit are written.                                      *)
Prepare(o) ==
  /\ pc[o] = "locked"
  /\ \/ /\ prepare(o)
        /\ pc' = [pc EXCEPT ![o] = "prepared"]
        /\ UNCHANGED <<held, budget>>
     \/ /\ ~Preparable(o)
        /\ pc' = [pc EXCEPT ![o] = "done"]
        /\ held' = Released(o)
        /\ UNCHANGED <<db, address, budget>>
     \/ /\ Spend("throw")
        /\ prepare(o) \/ UNCHANGED <<db, address>>
        /\ pc' = [pc EXCEPT ![o] = "done"]
        /\ held' = IF kind[o] = "lifecycle" THEN held ELSE Released(o)
  /\ UNCHANGED <<kind, target, pass, verdict, runs, connected, request, host, built>>

(* What a call does when its answer will not come: unresolved leaves a        *)
(* management action open, fail closes a lifecycle action.                    *)
GivenUp(gone, status) ==
  /\ pc' = [w \in Workers |-> IF w \in gone THEN "done" ELSE pc[w]]
  /\ held' = [k \in Keys |-> IF held[k] \in gone THEN None ELSE held[k]]
  /\ action' = [o \in Ops |-> IF o \in gone /\ kind[o] = "lifecycle"
                                THEN status ELSE action[o]]

(* AgentDispatchService.request: sent on the current connection, or refused. *)
dispatch(o) ==
  /\ pc[o] = "prepared"
  /\ \/ /\ connected
        /\ request' = [request EXCEPT ![o] = "wire"]
        /\ pc' = [pc EXCEPT ![o] = "waiting"]
        /\ UNCHANGED <<held, action>>
     \/ /\ ~connected
        /\ GivenUp({o}, "failed")
        /\ UNCHANGED request
  /\ UNCHANGED <<rows, docker, conflict, snap, current, pending, call, pass,
                 verdict, runs, connected, host, built, budget>>

(* The request's timer: AGENT_REQUEST_TIMEOUT. *)
Timeout(o) ==
  /\ pc[o] = "waiting"
  /\ Spend("timeout")
  /\ GivenUp({o}, "timed_out")
  /\ UNCHANGED <<rows, docker, conflict, snap, current, pending, call, pass,
                 verdict, runs, connected, request, host, built>>

(* settle: the reply matches.  A lifecycle call records it (succeed, fail);   *)
(* the others read the host back, whatever the reply said.                    *)
Reply(o) ==
  /\ pc[o] = "waiting" /\ connected /\ request[o] \in {"ok", "err"}
  /\ request' = [request EXCEPT ![o] = "gone"]
  /\ \/ /\ kind[o] = "lifecycle" /\ request[o] = "err"
        /\ GivenUp({o}, "failed")
     \/ /\ kind[o] = "lifecycle" /\ request[o] = "ok"
        /\ action' = [action EXCEPT ![o] = "succeeded"]
        /\ pc' = [pc EXCEPT ![o] = "report"]
        /\ UNCHANGED held
     \/ /\ kind[o] # "lifecycle"
        /\ pc' = [pc EXCEPT ![o] = "resync"]
        /\ UNCHANGED <<held, action>>
  /\ UNCHANGED <<rows, docker, conflict, snap, current, pending, call, pass,
                 verdict, runs, connected, host, built, budget>>

(* The rest of succeed: the audit entry, the event, the container read again. *)
(* A write that throws lands in run's catch block, which calls fail.          *)
Report(o) ==
  /\ pc[o] = "report"
  /\ \/ /\ pc' = [pc EXCEPT ![o] = "done"]
        /\ held' = Released(o)
        /\ UNCHANGED <<action, budget>>
     \/ /\ Spend("throw")
        /\ GivenUp({o}, "failed")
  /\ UNCHANGED <<rows, docker, conflict, snap, current, pending, call, pass,
                 verdict, runs, connected, request, host, built>>

-----------------------------------------------------------------------------
(* DiscoveryService.sync, one pass: ask, read the host, write what was read,  *)
(* sweep what a complete pass did not see.                                    *)

(* Worker w's pass moves on. *)
PassTo(w, st, list, complete) ==
  pass' = [pass EXCEPT ![w] = [st |-> st, list |-> list, complete |-> complete]]

UnderWay == {w \in Workers : pass[w].st \in {"asked", "listed", "applied"}}

(* A snapshot id is compared with nothing but the pass that made it, so the   *)
(* worker's name stands for it and a new pass forgets the old stamps.         *)
PassStart(w) ==
  /\ pc[w] \in {"resync", "pass"} /\ pass[w].st = "off"
  /\ Cardinality(UnderWay) < MaxPasses
  /\ PassTo(w, "asked", {}, TRUE)
  /\ snap' = [c \in Containers |-> IF snap[c] = w THEN None ELSE snap[c]]
  /\ UNCHANGED <<rows, docker, conflict, current, pending, action, call, pc,
                 held, verdict, runs, env>>

(* container.list answered, host.inventory and host.metrics before it perhaps *)
(* not.                                                                       *)
PassList(w) ==
  /\ pass[w].st = "asked" /\ connected
  /\ \/ /\ PassTo(w, "listed", host, pass[w].complete)
        /\ UNCHANGED budget
     \/ /\ Spend("gap")
        /\ PassTo(w, "listed", host, FALSE)
  /\ UNCHANGED <<db, call, pc, held, verdict, runs, connected, request, host, built>>

(* container.list failed: nothing is written and the pass is not complete. *)
PassFail(w) ==
  /\ pass[w].st = "asked"
  /\ IF connected THEN Spend("gap") ELSE UNCHANGED budget
  /\ PassTo(w, "done", {}, FALSE)
  /\ UNCHANGED <<db, call, pc, held, verdict, runs, connected, request, host, built>>

(* The containers of a reading that carry the identity of c. *)
ClaimsOf(list, c) == {d \in list : d.container = c}

Contested(list) == {c \in Containers : Cardinality(ClaimsOf(list, c)) > 1}

(* applyContainers.  mutating() is false throughout: nothing calls            *)
(* registerInFlight.                                                          *)
applyContainers(w) ==
  LET list == pass[w].list
      seen == {c \in rows : ClaimsOf(list, c) # {}}
      sole == seen \ Contested(list)
  IN /\ pass[w].st = "listed"
     /\ conflict' = conflict \cup (seen \cap Contested(list))
     /\ docker' = [c \in Containers |->
          IF c \in sole THEN (CHOOSE d \in ClaimsOf(list, c) : TRUE).config
                        ELSE docker[c]]
     /\ snap' = [c \in Containers |-> IF c \in seen THEN w ELSE snap[c]]
     /\ PassTo(w, "applied", {}, pass[w].complete)
     /\ UNCHANGED <<rows, current, pending, action, call, pc, held, verdict, runs, env>>

(* reconcile, only when every step of the pass succeeded; compose.list is the *)
(* last of them.                                                              *)
PassEnd(w) ==
  LET stale == {c \in rows : docker[c] # None /\ snap[c] # w}
  IN /\ pass[w].st = "applied"
     /\ \/ /\ pass[w].complete /\ connected
           /\ DeleteRows(stale)
           /\ PassTo(w, "done", {}, TRUE)
           /\ UNCHANGED budget
        \/ /\ IF pass[w].complete /\ connected THEN Spend("gap") ELSE UNCHANGED budget
           /\ PassTo(w, "done", {}, FALSE)
           /\ UNCHANGED <<rows, docker, conflict, snap, current, pending>>
     /\ UNCHANGED <<action, call, pc, held, verdict, runs, connected, request, host, built>>

-----------------------------------------------------------------------------
(* ReconciliationService and RecoveryFinalizer, for a call or for recovery. *)

(* The operation a worker is settling. *)
Subject(w) == IF w \in Ops THEN w ELSE subject[w]

(* classify: the row as it is now, after the worker's own pass. *)
classify(w) ==
  LET o == Subject(w)
      c == target[o]
  IN /\ pc[w] = "resync" /\ pass[w].st = "done"
     /\ verdict' = [verdict EXCEPT ![w] = classifyRecovery(
          [operation |-> kind[o], current |-> current[c], pending |-> pending[c],
           claims |-> IF docker[c] = None THEN {} ELSE {[config |-> docker[c]]},
           complete |-> pass[w].complete, eligible |-> TRUE,
           conflict |-> c \in conflict])]
     /\ pc' = [pc EXCEPT ![w] = "decide"]
     /\ pass' = [pass EXCEPT ![w] = NoPass]
     /\ UNCHANGED <<db, call, held, runs, env>>

Finish(o, status) == action' = [action EXCEPT ![o] = status]

promote(o, c, cfg) ==
  /\ IF pending[c] = cfg
       THEN /\ current' = [current EXCEPT ![c] = cfg]
            /\ pending' = [pending EXCEPT ![c] = None]
            /\ Finish(o, "succeeded")
       ELSE UNCHANGED <<current, pending, action>>       \* StaleRecovery
  /\ UNCHANGED <<rows, docker, conflict, snap>>

(* Mutant: the candidate goes and the action is left as it was. *)
discardOpen(o, c, cfg) ==
  /\ IF pending[c] = cfg THEN pending' = [pending EXCEPT ![c] = None]
                         ELSE UNCHANGED pending
  /\ UNCHANGED <<rows, docker, conflict, snap, current, action>>

discard(o, c, cfg) ==
  IF kind[o] = "create"
    THEN IF c \in rows /\ docker[c] = None
           THEN DeleteRows({c}) /\ Finish(o, "failed")
           ELSE UNCHANGED db
    ELSE IF pending[c] = cfg
           THEN /\ pending' = [pending EXCEPT ![c] = None]
                /\ Finish(o, "failed")
                /\ UNCHANGED <<rows, docker, conflict, snap, current>>
           ELSE UNCHANGED db

finalizeRemove(o, c) == DeleteRows({c}) /\ Finish(o, "succeeded")

failOperation(o) ==
  Finish(o, "failed") /\ UNCHANGED <<rows, docker, conflict, snap, current, pending>>

recordConflict(o, c) ==
  /\ conflict' = conflict \cup (rows \cap {c})
  /\ Finish(o, "failed")
  /\ UNCHANGED <<rows, docker, snap, current, pending>>

needsAttention(o) ==
  Finish(o, "failed") /\ UNCHANGED <<rows, docker, conflict, snap, current, pending>>

(* Mutant: the decision is applied without asking who was first. *)
claimAlways(o) == TRUE

(* claim: whoever finds the action still open does the work. *)
claim(o) == action[o] = "running"

finalize(o, v) ==
  \/ /\ claim(o)
     /\ \/ v.kind = "promote_pending" /\ promote(o, target[o], v.config)
        \/ v.kind = "discard_pending" /\ discard(o, target[o], v.config)
        \/ v.kind = "finalize_remove" /\ finalizeRemove(o, target[o])
        \/ v.kind = "fail_operation" /\ failOperation(o)
        \/ v.kind = "identity_conflict" /\ recordConflict(o, target[o])
        \/ v.kind = "needs_attention" /\ needsAttention(o)
  \/ /\ ~claim(o) \/ v.kind = "no_action"
     /\ UNCHANGED db

(* A call reports and releases its lock; recovery goes on to the next one. *)
Finalize(w) ==
  /\ pc[w] = "decide"
  /\ finalize(Subject(w), verdict[w])
  /\ verdict' = [verdict EXCEPT ![w] = Plain("no_action")]
  /\ pc' = [pc EXCEPT ![w] = IF w \in Ops THEN "done" ELSE "recover"]
  /\ held' = IF w \in Ops THEN Released(w) ELSE held
  /\ subject' = IF w \in Ops THEN subject ELSE [subject EXCEPT ![w] = None]
  /\ UNCHANGED <<call, pass, todo, live, env>>

(* The transaction fails: a call releases its lock and leaves the operation   *)
(* open, a scheduler run is given up.                                         *)
FinalizeThrows(w) ==
  /\ pc[w] = "decide" /\ verdict[w].kind # "no_action"
  /\ Spend("throw")
  /\ verdict' = [verdict EXCEPT ![w] = Plain("no_action")]
  /\ pc' = [pc EXCEPT ![w] = IF w \in Ops THEN "done" ELSE "idle"]
  /\ held' = IF w \in Ops THEN Released(w) ELSE held
  /\ subject' = IF w \in Ops THEN subject ELSE [subject EXCEPT ![w] = None]
  /\ todo' = IF w \in Ops THEN todo ELSE [todo EXCEPT ![w] = {}]
  /\ live' = live \ {w}
  /\ UNCHANGED <<db, call, pass, connected, request, host, built>>

-----------------------------------------------------------------------------
(* DiscoveryScheduler.run and RecoveryOrchestrator.recoverHost. *)

(* A schedule does not overlap itself, but the schedule of a new connection   *)
(* does not wait for a run that the old one left behind.                      *)
RunStart(s) ==
  /\ connected /\ pc[s] = "idle" /\ live = {}
  /\ pc' = [pc EXCEPT ![s] = "pass"]
  /\ live' = {s}
  /\ UNCHANGED <<db, call, held, pass, verdict, todo, subject, env>>

(* Mutant: an inner join, so a resource that is gone hides its operation. *)
unresolvedWithRow ==
  {o \in Ops : action[o] = "running" /\ kind[o] \in Management /\ target[o] \in rows}

unresolvedOperations == {o \in Ops : action[o] = "running" /\ kind[o] \in Management}

RunPassed(s) ==
  /\ pc[s] = "pass" /\ pass[s].st = "done"
  /\ \/ /\ pass[s].complete
        /\ todo' = [todo EXCEPT ![s] = unresolvedOperations]
        /\ pc' = [pc EXCEPT ![s] = "recover"]
        /\ UNCHANGED live
     \/ /\ ~pass[s].complete
        /\ pc' = [pc EXCEPT ![s] = "idle"]
        /\ live' = live \ {s}
        /\ UNCHANGED todo
  /\ pass' = [pass EXCEPT ![s] = NoPass]
  /\ UNCHANGED <<db, call, held, verdict, subject, env>>

(* Mutant: recovery does not ask whether somebody is running it. *)
recoverHostAll(s, o) ==
  /\ pc[s] = "recover" /\ o \in todo[s]
  /\ todo' = [todo EXCEPT ![s] = @ \ {o}]
  /\ subject' = [subject EXCEPT ![s] = o]
  /\ pc' = [pc EXCEPT ![s] = "resync"]
  /\ UNCHANGED <<db, call, held, pass, verdict, live, env>>

recoverHost(s, o) ==
  /\ pc[s] = "recover" /\ o \in todo[s]
  /\ todo' = [todo EXCEPT ![s] = @ \ {o}]
  /\ \/ /\ isBusy(target[o])
        /\ UNCHANGED <<pc, subject>>
     \/ /\ ~isBusy(target[o])
        /\ subject' = [subject EXCEPT ![s] = o]
        /\ pc' = [pc EXCEPT ![s] = "resync"]
  /\ UNCHANGED <<db, call, held, pass, verdict, live, env>>

RunEnd(s) ==
  /\ pc[s] = "recover" /\ todo[s] = {}
  /\ pc' = [pc EXCEPT ![s] = "idle"]
  /\ live' = live \ {s}
  /\ UNCHANGED <<db, call, held, pass, verdict, todo, subject, env>>

-----------------------------------------------------------------------------
(* The agent and the host (agent/internal/docker/manage.go, lifecycle.go).    *)

Own(o) == [container |-> target[o], config |-> o]           \* what o builds
Addressed(o) == [container |-> target[o], config |-> address[o]]

(* An answer written to a connection that is gone is lost with it. *)
Answer(o, r) == request' = [request EXCEPT ![o] = IF connected THEN r ELSE "gone"]

serverSide == <<db, call, pc, held, pass, verdict, runs>>

(* handleRequest: a request whose time has run out is refused, any other is   *)
(* started in a goroutine of its own.                                         *)
Accept(o) ==
  /\ request[o] = "wire"
  /\ request' = [request EXCEPT ![o] = IF pc[o] = "waiting" THEN "exec" ELSE "err"]
  /\ UNCHANGED <<serverSide, connected, host, built, budget>>

(* A handler that fails before it has changed anything. *)
Refuse(o) ==
  /\ request[o] = "exec"
  /\ Answer(o, "err")
  /\ UNCHANGED <<serverSide, connected, host, built, budget>>

(* Create: Docker has the container.  One container per name. *)
Create(o) ==
  /\ request[o] = "exec" /\ kind[o] = "create"
  /\ \A d \in host : NameOf[d.container] # NameOf[target[o]]
  /\ host' = host \cup {Own(o)}
  /\ built' = built \cup {o}
  /\ request' = [request EXCEPT ![o] = "built"]
  /\ UNCHANGED <<serverSide, connected, budget>>

(* Replace, up to both containers existing under one identity. *)
Replace(o) ==
  /\ request[o] = "exec" /\ kind[o] = "replace"
  /\ Addressed(o) \in host
  /\ host' = host \cup {Own(o)}
  /\ built' = built \cup {o}
  /\ request' = [request EXCEPT ![o] = "built"]
  /\ UNCHANGED <<serverSide, connected, budget>>

(* The new container runs; the original of a replacement goes, unless its     *)
(* removal fails, which is ignored.                                           *)
Commit(o) ==
  /\ request[o] = "built"
  /\ \/ /\ host' = IF kind[o] = "replace" THEN host \ {Addressed(o)} ELSE host
        /\ UNCHANGED budget
     \/ /\ kind[o] = "replace" /\ Spend("leak")
        /\ UNCHANGED host
  /\ Answer(o, "ok")
  /\ UNCHANGED <<serverSide, connected, built>>

(* It did not come up: the new container is removed, unless that fails too. *)
Rollback(o) ==
  /\ request[o] = "built"
  /\ \/ /\ host' = host \ {Own(o)}
        /\ UNCHANGED budget
     \/ /\ Spend("leak")
        /\ UNCHANGED host
  /\ Answer(o, "err")
  /\ UNCHANGED <<serverSide, connected, built>>

Remove(o) ==
  /\ request[o] = "exec" /\ kind[o] = "remove"
  /\ Addressed(o) \in host
  /\ host' = host \ {Addressed(o)}
  /\ Answer(o, "ok")
  /\ UNCHANGED <<serverSide, connected, built, budget>>

Lifecycle(o) ==
  /\ request[o] = "exec" /\ kind[o] = "lifecycle"
  /\ Addressed(o) \in host
  /\ Answer(o, "ok")
  /\ UNCHANGED <<serverSide, connected, host, built, budget>>

-----------------------------------------------------------------------------
(* What goes wrong around them. *)

(* The connection is gone: abandon rejects what waited on it, release stops   *)
(* the schedule, and what was on the wire is lost.  The agent's handlers run  *)
(* on.                                                                        *)
Lost(unfinished) ==
  /\ connected' = FALSE
  /\ request' = [o \in Ops |-> IF request[o] \in unfinished THEN "gone" ELSE request[o]]
  /\ GivenUp({o \in Ops : pc[o] = "waiting"}, "failed")
  /\ live' = {}
  /\ pass' = [w \in Workers |-> IF pass[w].st = "asked"
                                  THEN [pass[w] EXCEPT !.complete = FALSE] ELSE pass[w]]
  /\ UNCHANGED <<rows, docker, conflict, snap, current, pending, call, verdict,
                 todo, subject, host, built>>

OnTheWire == {"wire", "ok", "err"}

Disconnect == connected /\ Spend("drop") /\ Lost(OnTheWire)

AgentRestart == Spend("agentcrash") /\ Lost(OnTheWire \cup {"exec", "built"})

(* A reply nobody waits for any more ends the connection it arrived on. *)
LateReply(o) ==
  /\ connected /\ request[o] \in {"ok", "err"} /\ pc[o] # "waiting"
  /\ Lost(OnTheWire)
  /\ UNCHANGED budget

(* The session ends only when every handler has returned, and only then does  *)
(* the agent dial again.                                                      *)
Reconnect ==
  /\ ~connected
  /\ \A o \in Ops : request[o] \notin {"exec", "built"}
  /\ connected' = TRUE
  /\ UNCHANGED <<serverSide, request, host, built, budget>>

(* The control server restarts: memory is empty, PostgreSQL is not. *)
ServerRestart ==
  /\ Spend("crash")
  /\ connected' = FALSE
  /\ request' = [o \in Ops |-> IF request[o] \in OnTheWire THEN "gone" ELSE request[o]]
  /\ pc' = [w \in Workers |-> IF w \in Runners \/ pc[w] = "idle" THEN "idle" ELSE "done"]
  /\ held' = [k \in Keys |-> None]
  /\ pass' = [w \in Workers |-> NoPass]
  /\ verdict' = [w \in Workers |-> Plain("no_action")]
  /\ todo' = [s \in Runners |-> {}]
  /\ subject' = [s \in Runners |-> None]
  /\ live' = {}
  /\ UNCHANGED <<db, call, host, built>>

(* Somebody removes a container of the host without Dockplane. *)
ExternalRemove(d) ==
  /\ d \in host /\ Spend("external")
  /\ host' = host \ {d}
  /\ UNCHANGED <<serverSide, connected, request, built>>

-----------------------------------------------------------------------------
CallStep(o) ==
  \/ acquire(o) \/ Prepare(o) \/ dispatch(o) \/ Reply(o) \/ Report(o)

AgentStep(o) ==
  \/ Accept(o) \/ Refuse(o) \/ Create(o) \/ Replace(o) \/ Commit(o)
  \/ Rollback(o) \/ Remove(o) \/ Lifecycle(o)

PassStep(w) ==
  \/ PassStart(w) \/ PassList(w) \/ PassFail(w) \/ applyContainers(w)
  \/ PassEnd(w) \/ classify(w) \/ Finalize(w) \/ FinalizeThrows(w)

RunStep(s) ==
  \/ RunStart(s) \/ RunPassed(s) \/ RunEnd(s) \/ \E o \in Ops : recoverHost(s, o)

Next ==
  \/ \E o \in Ops, k \in AllKinds, c \in Containers : Begin(o, k, c)
  \/ \E o \in Ops : CallStep(o) \/ AgentStep(o) \/ Timeout(o) \/ LateReply(o)
  \/ \E w \in Workers : PassStep(w)
  \/ \E s \in Runners : RunStep(s)
  \/ Disconnect \/ AgentRestart \/ Reconnect \/ ServerRestart
  \/ \E d \in Claims : ExternalRemove(d)

Spec == Init /\ [][Next]_vars

(* The event loop runs what is ready, the agent finishes or fails what it     *)
(* accepted, the agent reconnects, and the scheduler keeps polling.  Nobody   *)
(* is obliged to call the API, and no fault is obliged to happen.  A pass     *)
(* start is strongly fair only because MaxPasses makes workers queue for one. *)
Fairness ==
  /\ \A o \in Ops : WF_vars(CallStep(o)) /\ WF_vars(AgentStep(o)) /\ WF_vars(LateReply(o))
  /\ \A w \in Workers : WF_vars(PassStep(w)) /\ SF_vars(PassStart(w))
  /\ \A s \in Runners : WF_vars(RunStep(s))
  /\ WF_vars(Reconnect)

FairSpec == Spec /\ Fairness

-----------------------------------------------------------------------------
(* What the code promises. *)

(* A call past the lock and before its report owns its key: no other call is  *)
(* there on the same container or name, through crashes and lost answers.     *)
OneOwner ==
  \A o \in Ops : pc[o] \in Holding => held[Key(o)] = o

(* A candidate belongs to the resource its operation was for, and to an       *)
(* operation that has not succeeded; and as long as a create or a replacement *)
(* is open and its resource exists its candidate is there, so that the guard  *)
(* that reads it goes on refusing (container_desired_pending_unique, promote, *)
(* discard, unresolved).                                                      *)
CandidatesAreOpen ==
  /\ \A c \in Containers : pending[c] # None =>
       /\ c \in rows
       /\ target[pending[c]] = c
       /\ kind[pending[c]] \in {"create", "replace"}
       /\ action[pending[c]] \in {"running", "failed"}
  /\ \A o \in Ops :
       (action[o] = "running" /\ kind[o] \in {"create", "replace"} /\ target[o] \in rows)
         => pending[target[o]] = o

(* What the record says a container is was really built on the host, by an    *)
(* operation recorded as succeeded (promote after an observation).            *)
CurrentWasBuilt ==
  \A c \in Containers : current[c] \in Ops =>
    /\ current[c] \in built
    /\ target[current[c]] = c
    /\ action[current[c]] = "succeeded"

(* Two passes may reach one unfinished operation; only one of them settles    *)
(* it, and a settled operation stays as it was settled (claim).               *)
SettledOnce ==
  [][\A o \in Ops : (kind[o] \in Management /\ action[o] \in {"succeeded", "failed"})
                      => action'[o] = action[o]]_vars

(* While the call that started an operation is still running it, nobody else  *)
(* settles the operation (recoverHost's isBusy test).                         *)
LiveOwnerUndisturbed ==
  \A o \in Ops :
    (pc[o] \in {"prepared", "waiting", "resync", "decide"}) => action[o] = "running"

RemovalFound ==
  \A o \in Ops : (kind[o] = "remove" /\ action[o] = "running" /\ action'[o] = "succeeded")
                   => ClaimsOf(host, target[o]) = {}

(* A removal recorded as succeeded left nothing behind (finalizeRemove).      *)
RemovedIsGone == [][RemovalFound]_vars

(* What the server gives up is gone from the host: a container whose removal  *)
(* it records as succeeded (finalizeRemove); a candidate it throws away,      *)
(* which the host then does not run (discard); and a row the sweep takes,     *)
(* whose container is not there (reconcile, and the snapshot id every pass    *)
(* stamps; settling an operation changes its action, the sweep changes none). *)
GivenUpIsGone ==
  [][ /\ RemovalFound
      /\ \A o \in Ops : (kind[o] = "replace" /\ action[o] = "running"
                           /\ action'[o] = "failed" /\ pending'[target[o]] = None)
                          => Own(o) \notin host
      /\ \A c \in rows \ rows' :
           (docker[c] # None /\ action' = action) => ClaimsOf(host, c) = {} ]_vars

(* Every operation that was written down is settled in the end, whoever dies  *)
(* on the way: recoverHost comes back to what no call owns any more.          *)
EveryOperationSettles ==
  \A o \in Ops : (action[o] = "running" /\ kind[o] \in Management)
                   ~> (action[o] # "running")
=============================================================================
