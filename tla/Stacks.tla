------------------------------- MODULE Stacks -------------------------------
(***************************************************************************)
(* One stack on one host: deploying a revision to it, starting, stopping   *)
(* and restarting its services, deleting it, and settling from the host an *)
(* attempt that lost its owner (api/src/stacks), with the agent's work on  *)
(* the host service by service (agent/internal/docker/stack_*.go).         *)
(*                                                                         *)
(* A call o in Calls stands for one API call, for the deployment or        *)
(* operation row it writes, for the identities it allocates and for the    *)
(* containers the agent creates for it: a service has one container per    *)
(* deployment, so <<service, call>> is a Docker id.                        *)
(***************************************************************************)
EXTENDS StackClassifiers, Naturals

CONSTANTS Services,    \* service names
          Revisions,   \* the stack's saved revisions
          ServicesOf,  \* the services each of them describes
          Starts,      \* the revisions it may start from; None: never deployed
          Genesis,     \* who deployed it
          Found,       \* a row identity given by discovery, not by a deployment
          Calls,       \* API calls
          Kinds,       \* what they may ask for
          Runners,     \* runs of the discovery scheduler
          Budget,      \* how often each fault happens
          MaxPasses,   \* how many discovery passes may be under way at once
          MaxCalls     \* how many calls may be under way at once

AllKinds == {"deploy", "start", "stop", "restart", "delete"}
(* timeout: a request, of a call or of a discovery pass, is not answered in   *)
(* time; drop: the connection is lost; crash, agentcrash: a process restarts; *)
(* docker: a Docker call of the agent's clean-up fails.                       *)
Faults == {"timeout", "drop", "crash", "agentcrash", "docker"}

ASSUME StacksAssumption ==
  /\ ServicesOf \in [Revisions -> (SUBSET Services) \ {{}}]
  /\ Starts \subseteq Revisions \cup {None}
  /\ Kinds \subseteq AllKinds
  /\ Budget \in [Faults -> Nat]
  /\ MaxPasses \in Nat /\ MaxCalls \in Nat
  /\ None \notin Calls \cup Revisions \cup Runners \cup Services
  /\ Genesis \notin Calls \cup {None} /\ Found \notin Calls \cup {None, Genesis}
  /\ Calls \cap Runners = {}

Workers    == Calls \cup Runners
Deployers  == Calls \cup {Genesis}
Identities == Deployers \cup {Found}
DockerIds  == Services \X Deployers
Container  == [svc : Services, by : Deployers, id : Identities,
               rev : Revisions, up : BOOLEAN, since : Deployers]
NoRow      == [id |-> None, docker |-> None, rev |-> None, up |-> FALSE]
Unresolved == {"running", "interrupted"}
Resolved   == {"succeeded", "rolled_back", "failed", "needs_attention"}
Working    == {"stage", "start", "retire", "down", "up", "remove"}

VARIABLES
  (* PostgreSQL: survives a restart of the control server *)
  status,    \* stacks.status; "gone" once the stack is deleted
  current,   \* stacks.current_revision_id
  desired,   \* stacks.desired_revision_id
  row,       \* the containers row that holds each service
  att,       \* the status of each call's deployment or operation row
  mark,      \* stack_operations.fingerprint
  (* the control server's memory *)
  req,       \* what each call asks for, and the revision it read as current
  pc,        \* where each call and each scheduler run is
  held,      \* the call that holds the stack's key in MutationRegistry
  plan,      \* the row identity each deployment or operation named per service
  pass,      \* the discovery pass of each worker
  verdict,   \* what a worker is about to record, and for which attempt
  todo,      \* the unfinished attempts a run has still to look at
  (* the connection and the host *)
  connected,
  job,       \* the agent's handler of each call's request
  host,      \* the stack's containers
  budget

stackRow == <<status, current, desired>>
db       == <<stackRow, row, att, mark>>
call     == <<req, plan>>
server   == <<pc, held, pass, verdict, todo>>
vars     == <<db, call, server, connected, job, host, budget>>

DockerId(c) == <<c.svc, c.by>>
RowOf(c, id) == [id |-> id, docker |-> DockerId(c), rev |-> c.rev, up |-> c.up]
NoJob  == [st |-> "no", aside |-> {}, left |-> {}]
NoPass == [st |-> "none", snap |-> {}, complete |-> FALSE]

Spend(f) == budget[f] > 0 /\ budget' = [budget EXCEPT ![f] = @ - 1]

StartsFrom(start) ==
  LET built(s) == [svc |-> s, by |-> Genesis, id |-> Genesis, rev |-> start,
                   up |-> TRUE, since |-> Genesis]
      there == IF start = None THEN {} ELSE ServicesOf[start]
  IN /\ status = IF start = None THEN "not_deployed" ELSE "running"
     /\ current = start
     /\ desired = None
     /\ row = [s \in Services |->
                 IF s \in there THEN RowOf(built(s), Genesis) ELSE NoRow]
     /\ att = [o \in Calls |-> "none"]
     /\ mark = [o \in Calls |-> [s \in Services |-> [docker |-> None, since |-> None]]]
     /\ req = [o \in Calls |-> [kind |-> "none", rev |-> None, from |-> None]]
     /\ plan = [o \in Calls |-> [s \in Services |-> None]]
     /\ pc = [w \in Workers |-> "idle"]
     /\ held = None
     /\ pass = [w \in Workers |-> NoPass]
     /\ verdict = [w \in Workers |-> [op |-> None, kind |-> "none"]]
     /\ todo = [w \in Runners |-> {}]
     /\ connected = TRUE
     /\ job = [o \in Calls |-> NoJob]
     /\ host = {built(s) : s \in there}
     /\ budget = Budget

Init == \E start \in Starts : StartsFrom(start)

-----------------------------------------------------------------------------
(* What is open                                                              *)

IsDeployment(o) == req[o].kind = "deploy"

unresolved(o) == att[o] \in Unresolved

(* The services an attempt is about. *)
Expected(o) == ServicesOf[IF IsDeployment(o) THEN req[o].rev ELSE req[o].from]

Held == {s \in Services : row[s] # NoRow}

-----------------------------------------------------------------------------
(* A call                                                                    *)

Goto(w, l) == pc' = [pc EXCEPT ![w] = l]

UnderWay == {o \in Calls : pc[o] \notin {"idle", "done"}}

(* The stack's row is read, and what it says decides whether to go on.       *)
kindOfAllows(rev) == status = "needs_attention" \/ current # rev

operable == current # None /\ status # "needs_attention"

deletable == status # "needs_attention"

Begin(o, kind, rev) ==
  /\ pc[o] = "idle"
  /\ Cardinality(UnderWay) < MaxCalls
  /\ status # "gone"
  /\ IF kind = "deploy" THEN rev # None /\ kindOfAllows(rev)
     ELSE rev = current /\ IF kind = "delete" THEN deletable ELSE operable
  /\ req' = [req EXCEPT ![o] = [kind |-> kind, rev |-> rev, from |-> current]]
  /\ Goto(o, "guard")
  /\ UNCHANGED <<db, plan, held, pass, verdict, todo, connected, job, host, budget>>

assertNothingUnresolved == \A o \in Calls : ~unresolved(o)

(* The unresolved attempts and the agent's connection are read, still        *)
(* before the lock; a delete asks for the agent only once it holds it.       *)
Guard(o) ==
  /\ pc[o] = "guard"
  /\ Goto(o, IF /\ assertNothingUnresolved
                /\ req[o].kind = "delete" \/ connected
             THEN "lock" ELSE "done")
  /\ UNCHANGED <<db, call, held, pass, verdict, todo, connected, job, host, budget>>

(* Mutant: the key is taken whoever holds it. *)
AcquireAnyway(o) ==
  /\ pc[o] = "lock"
  /\ held' = o /\ Goto(o, "prepare")
  /\ UNCHANGED <<db, call, pass, verdict, todo, connected, job, host, budget>>

(* MutationRegistry.acquire: refuses rather than waits. *)
Acquire(o) ==
  /\ pc[o] = "lock"
  /\ IF held = None THEN held' = o /\ Goto(o, "prepare")
                    ELSE UNCHANGED held /\ Goto(o, "done")
  /\ UNCHANGED <<db, call, pass, verdict, todo, connected, job, host, budget>>

Release(o) == held' = IF held = o THEN None ELSE held

(* Whatever makes a call throw once it holds the lock and before anything is *)
(* written: a revision that no longer compiles, a name that is taken, a      *)
(* service with no container, a unique index, a stack that has gone.         *)
Refused(o) ==
  /\ pc[o] = "prepare"
  /\ Goto(o, "done")
  /\ Release(o)
  /\ UNCHANGED <<db, call, pass, verdict, todo, connected, job, host, budget>>

(* A service that has a row keeps it; one this revision introduces gets a    *)
(* new one.  The index on unresolved deployments refuses a second one.       *)
prepareDeploy(o) ==
  /\ pc[o] = "prepare" /\ IsDeployment(o) /\ status # "gone"
  /\ \A p \in Calls : IsDeployment(p) => ~unresolved(p)
  /\ LET new == {s \in Expected(o) : row[s] = NoRow}
     IN /\ plan' = [plan EXCEPT ![o] = [s \in Services |->
              IF s \notin Expected(o) THEN None
              ELSE IF s \in new THEN o ELSE row[s].id]]
        /\ row' = [s \in Services |->
              IF s \in new THEN [NoRow EXCEPT !.id = o] ELSE row[s]]
  /\ desired' = req[o].rev
  /\ status' = "deploying"
  /\ att' = [att EXCEPT ![o] = "running"]
  /\ Goto(o, "dispatch")
  /\ UNCHANGED <<current, mark, req, held, pass, verdict, todo, connected, job,
                 host, budget>>

(* What a forced container detail says of a service's start time: what the   *)
(* host says, or what was stored when it was last asked.                     *)
StartTime(s, stored) ==
  IF connected
    THEN IF \E c \in host : DockerId(c) = row[s].docker
         THEN (CHOOSE c \in host : DockerId(c) = row[s].docker).since
         ELSE None
    ELSE stored

(* deployedServices: every service has a row that names a container. *)
deployedServices(o) == \A s \in Expected(o) : row[s].docker # None

(* A lifecycle operation, or the removal of a deployed stack: the operation  *)
(* row, and for a restart the fingerprint.                                   *)
prepareOperation(o) ==
  /\ pc[o] = "prepare" /\ ~IsDeployment(o) /\ req[o].from # None /\ status # "gone"
  /\ req[o].kind = "delete" => connected
  /\ \A p \in Calls : ~IsDeployment(p) => ~unresolved(p)
  /\ deployedServices(o)
  /\ plan' = [plan EXCEPT ![o] = [s \in Services |->
        IF s \in Expected(o) THEN row[s].id ELSE None]]
  /\ mark' = IF req[o].kind # "restart" THEN mark ELSE
       [mark EXCEPT ![o] = [s \in Services |->
          [docker |-> row[s].docker, since |-> StartTime(s, None)]]]
  /\ att' = [att EXCEPT ![o] = "running"]
  /\ Goto(o, "dispatch")
  /\ UNCHANGED <<stackRow, row, req, held, pass, verdict, todo, connected, job,
                 host, budget>>

(* The stack's row goes, and the rows of its attempts with it. *)
purge ==
  /\ status' = "gone" /\ current' = None /\ desired' = None
  /\ row' = [s \in Services |-> NoRow]
  /\ att' = [o \in Calls |-> IF att[o] = "none" THEN "none" ELSE "gone"]

(* A stack that was never deployed goes if no row names a container. *)
deleteNeverDeployed(o) ==
  /\ pc[o] = "prepare" /\ req[o].kind = "delete" /\ req[o].from = None
  /\ \A s \in Services : row[s].docker = None
  /\ purge
  /\ Goto(o, "done")
  /\ Release(o)
  /\ UNCHANGED <<mark, call, pass, verdict, todo, connected, job, host, budget>>

(* The request goes out, or there is no connection to send it on. *)
Dispatch(o) ==
  /\ pc[o] = "dispatch"
  /\ IF connected
       THEN /\ job' = [job EXCEPT ![o] = [NoJob EXCEPT !.st = "wire"]]
            /\ Goto(o, "waiting")
       ELSE UNCHANGED job /\ Goto(o, "unknown")
  /\ UNCHANGED <<db, call, held, pass, verdict, todo, connected, host, budget>>

(* The audit record before the dispatch fails, and the call throws. *)
AuditFails(o) ==
  /\ pc[o] = "dispatch"
  /\ Goto(o, "done")
  /\ Release(o)
  /\ UNCHANGED <<db, call, pass, verdict, todo, connected, job, host, budget>>

TimeOut(o) ==
  /\ pc[o] = "waiting"
  /\ Spend("timeout")
  /\ Goto(o, "unknown")
  /\ UNCHANGED <<db, call, held, pass, verdict, todo, connected, job, host>>

(* Nothing is concluded: the attempt stays open and the lock goes. *)
interrupted(o) ==
  /\ pc[o] = "unknown"
  /\ att' = [att EXCEPT ![o] = IF @ = "gone" THEN @ ELSE "interrupted"]
  /\ Goto(o, "done")
  /\ Release(o)
  /\ UNCHANGED <<stackRow, row, mark, call, pass, verdict, todo, connected, job,
                 host, budget>>

-----------------------------------------------------------------------------
(* A discovery pass, by a call (resync) or by a scheduler run                *)

InPass == {w \in Workers : pass[w].st = "read"}

PassTo(w, st, snap, complete) ==
  pass' = [pass EXCEPT ![w] = [st |-> st, snap |-> snap, complete |-> complete]]

Reading(w) == pc[w] \in {"resync", "sync", "reread"} /\ pass[w].st = "none"

(* The agent lists the host's containers. *)
PassRead(w) ==
  /\ Reading(w)
  /\ Cardinality(InPass) < MaxPasses
  /\ connected
  /\ PassTo(w, "read", host, TRUE)
  /\ UNCHANGED <<db, call, pc, held, verdict, todo, connected, job, host, budget>>

(* Or the request fails, and nothing is written. *)
PassFails(w) ==
  /\ Reading(w)
  /\ IF connected THEN Spend("timeout") ELSE UNCHANGED budget
  /\ PassTo(w, "over", {}, FALSE)
  /\ UNCHANGED <<db, call, pc, held, verdict, todo, connected, job, host>>

(* applyContainers: the containers of a snapshot that may take a service's   *)
(* row.  One that shares its identity with another is left out; so is one    *)
(* whose service another row holds.                                          *)
Contested(snap, c) == \E d \in snap \ {c} : d.svc = c.svc /\ d.id = c.id

Claims(snap, s) ==
  {c \in snap : /\ c.svc = s
                /\ ~Contested(snap, c)
                /\ row[s] = NoRow \/ row[s].id = c.id \/ row[s].docker = DockerId(c)}

(* keep: the row of a contested identity is stamped and not moved. *)
Kept(snap, s) == \E c \in snap : c.svc = s /\ Contested(snap, c) /\ c.id = row[s].id

(* The rows a snapshot may leave: a claimed row follows its container, and a *)
(* complete pass sweeps the rows of containers it did not see.               *)
applyContainers(snap, sweep) ==
  LET seen(s) == {RowOf(c, IF row[s] = NoRow THEN Found ELSE row[s].id)
                    : c \in Claims(snap, s)}
      unseen(s) == IF sweep /\ row[s].docker # None /\ ~Kept(snap, s)
                   THEN NoRow ELSE row[s]
      after(s) == IF seen(s) # {} THEN seen(s) ELSE {unseen(s)}
  IN {r \in [Services -> UNION {after(s) : s \in Services}] :
        \A s \in Services : r[s] \in after(s)}

(* The listing is written; unless the request that follows it fails, what it *)
(* did not see is swept.  A stack that is gone has no rows to write.         *)
PassApply(w, complete) ==
  /\ pass[w].st = "read"
  /\ complete => connected
  /\ IF complete \/ ~connected THEN UNCHANGED budget ELSE Spend("timeout")
  /\ row' \in IF status = "gone" THEN {row}
              ELSE applyContainers(pass[w].snap, complete)
  /\ PassTo(w, "over", {}, complete)
  /\ UNCHANGED <<stackRow, att, mark, call, pc, held, verdict, todo, connected, job,
                 host>>

-----------------------------------------------------------------------------
(* What an attempt turned out to have done                                   *)

(* The services of the stack as the rows show them.  A restart asks the host *)
(* when each was started.                                                    *)
Observed(o) ==
  {[svc |-> s, docker |-> row[s].docker, rev |-> row[s].rev, up |-> row[s].up,
    since |-> IF req[o].kind = "restart" /\ row[s].docker # None
              THEN StartTime(s, mark[o][s].since) ELSE None] : s \in Held}

Outcome(o, complete) ==
  CASE req[o].kind = "deploy" ->
         classifyStackApply([from |-> req[o].from, target |-> req[o].rev,
            targetServices |-> Expected(o), observed |-> Observed(o),
            fromServices |-> IF req[o].from = None THEN {} ELSE ServicesOf[req[o].from],
            complete |-> complete])
    [] req[o].kind = "delete" ->
         classifyStackDelete([services |-> Expected(o), observed |-> Observed(o),
            complete |-> complete])
    [] OTHER ->
         classifyStackLifecycle([operation |-> req[o].kind, revision |-> req[o].from,
            services |-> Expected(o), observed |-> Observed(o),
            fingerprint |-> mark[o], complete |-> complete])

Applied    == {"finalize_target", "finalize_deleted", "applied"}
NotApplied == {"finalize_from", "finalize_not_applied", "not_applied"}

(* The deployment or operation row, if the stack still has it. *)
Resolve(o, st) == att' = [att EXCEPT ![o] = IF @ = "gone" THEN @ ELSE st]

StackBecomes(st) == status' = IF status = "gone" THEN status ELSE st

DropRows(gone) == row' = [s \in Services |-> IF s \in gone THEN NoRow ELSE row[s]]

unclaimed == {s \in Held : row[s].docker = None}

(* Rows of services the applied deployment did not allocate. *)
orphanedServices(o) == {s \in Held : plan[o][s] # row[s].id}

(* The transaction that settles a deployment: by its owner, or by recovery,  *)
(* which deletes the rows without a container instead of the unallocated.    *)
recordDeployment(o, outcome, owner) ==
  /\ desired' = None
  /\ \/ /\ outcome \in Applied
        /\ Resolve(o, "succeeded")
        /\ StackBecomes("running")
        /\ current' = IF status = "gone" THEN None ELSE req[o].rev
        /\ DropRows(IF owner THEN orphanedServices(o) ELSE unclaimed)
     \/ /\ outcome \in NotApplied
        /\ Resolve(o, IF req[o].from = None THEN "failed" ELSE "rolled_back")
        /\ StackBecomes(IF req[o].from = None THEN "not_deployed" ELSE "running")
        /\ DropRows(unclaimed)
        /\ UNCHANGED current
     \/ /\ outcome = "needs_attention"
        /\ Resolve(o, "needs_attention")
        /\ StackBecomes("needs_attention")
        /\ UNCHANGED <<current, row>>

recordOperation(o, outcome) ==
  /\ UNCHANGED <<current, desired, row>>
  /\ \/ /\ outcome \in Applied
        /\ Resolve(o, "succeeded")
        /\ StackBecomes(IF req[o].kind = "stop" THEN "stopped" ELSE "running")
     \/ /\ outcome \in NotApplied
        /\ Resolve(o, "failed")
        /\ UNCHANGED status
     \/ /\ outcome = "needs_attention"
        /\ Resolve(o, "needs_attention")
        /\ StackBecomes("needs_attention")

recordDeletion(o, outcome) ==
  \/ outcome \in Applied /\ purge
  \/ outcome \notin Applied /\ recordOperation(o, outcome)

Record(o, outcome, owner) ==
  CASE req[o].kind = "deploy" -> recordDeployment(o, outcome, owner)
    [] req[o].kind = "delete" -> recordDeletion(o, outcome)
    [] OTHER                  -> recordOperation(o, outcome)

(* A call classifies the rows its own pass left; a run those that a complete *)
(* pass of its own left.                                                     *)
observe(o) ==
  /\ pc[o] = "resync" /\ pass[o].st = "over"
  /\ LET outcome == Outcome(o, pass[o].complete)
     IN /\ verdict' = [verdict EXCEPT ![o] = [op |-> o, kind |-> outcome]]
        /\ Goto(o, IF outcome = "unknown" THEN "unknown" ELSE "settle")
  /\ pass' = [pass EXCEPT ![o] = NoPass]
  /\ UNCHANGED <<db, call, held, todo, connected, job, host, budget>>

settle(o) ==
  /\ pc[o] = "settle"
  /\ Record(o, verdict[o].kind, TRUE)
  /\ Goto(o, "done")
  /\ Release(o)
  /\ verdict' = [verdict EXCEPT ![o] = [op |-> None, kind |-> "none"]]
  /\ UNCHANGED <<mark, call, pass, todo, connected, job, host, budget>>

-----------------------------------------------------------------------------
(* A scheduler run: a pass, then the stack recovery                          *)

Run(w) ==
  /\ pc[w] = "idle" /\ w \in Runners
  /\ connected
  /\ Goto(w, "sync")
  /\ UNCHANGED <<db, call, held, pass, verdict, todo, connected, job, host, budget>>

(* Mutant: recovery looks only for attempts that were marked. *)
unfinishedMarked == {o \in Calls : att[o] = "interrupted"}

unfinished == {o \in Calls : unresolved(o)}

(* A run that read the host completely lists what is open, once. *)
recoverHost(w) ==
  /\ pc[w] = "sync" /\ pass[w].st = "over"
  /\ IF pass[w].complete /\ unfinished # {}
       THEN /\ todo' = [todo EXCEPT ![w] = unfinished]
            /\ Goto(w, "reread")
       ELSE UNCHANGED todo /\ Goto(w, "idle")
  /\ pass' = [pass EXCEPT ![w] = NoPass]
  /\ UNCHANGED <<db, call, held, verdict, connected, job, host, budget>>

(* It reads the host again, and gives up unless that was complete. *)
readCompletely(w) ==
  /\ pc[w] = "reread" /\ pass[w].st = "over"
  /\ IF pass[w].complete
       THEN UNCHANGED todo /\ Goto(w, "recover")
       ELSE todo' = [todo EXCEPT ![w] = {}] /\ Goto(w, "idle")
  /\ pass' = [pass EXCEPT ![w] = NoPass]
  /\ UNCHANGED <<db, call, held, verdict, connected, job, host, budget>>

(* The next attempt of the list, whatever its row says by now.  One whose    *)
(* stack a call holds is left to it; one that cannot be told stays open.     *)
NextAttempt(w, o) ==
  /\ pc[w] = "recover"
  /\ o \in todo[w]
  /\ todo' = [todo EXCEPT ![w] = @ \ {o}]
  /\ LET outcome == Outcome(o, TRUE)
     IN IF held # None \/ outcome = "unknown" THEN UNCHANGED <<verdict, pc>>
        ELSE /\ verdict' = [verdict EXCEPT ![w] = [op |-> o, kind |-> outcome]]
             /\ Goto(w, "record")
  /\ UNCHANGED <<db, call, held, pass, connected, job, host, budget>>

(* The transaction does not ask whether the attempt is still open. *)
recordRecovered(w) ==
  /\ pc[w] = "record"
  /\ Record(verdict[w].op, verdict[w].kind, FALSE)
  /\ verdict' = [verdict EXCEPT ![w] = [op |-> None, kind |-> "none"]]
  /\ Goto(w, "recover")
  /\ UNCHANGED <<mark, call, held, pass, todo, connected, job, host, budget>>

RunEnds(w) ==
  /\ pc[w] = "recover" /\ todo[w] = {}
  /\ Goto(w, "idle")
  /\ UNCHANGED <<db, call, held, pass, verdict, todo, connected, job, host, budget>>

-----------------------------------------------------------------------------
(* The agent's handlers                                                      *)

JobTo(o, st, aside, left) ==
  job' = [job EXCEPT ![o] = [st |-> st, aside |-> aside, left |-> left]]

Replying(o) == JobTo(o, "reply", {}, {})

Agent == <<db, call, server, connected, budget>>   \* what a handler leaves alone

(* stackCandidates: no service twice, none under another identity. *)
stackCandidates(o) ==
  \A c \in host : /\ \A d \in host : c.svc = d.svc => c = d
                  /\ c.svc \in Expected(o) => c.id = plan[o][c.svc]

(* resolveStackServices: exactly one container for every service the         *)
(* operation names, of its identity and revision, and no other.              *)
resolveStackServices(o) ==
  /\ {c.svc : c \in host} = Expected(o)
  /\ \A c \in host : /\ \A d \in host : c.svc = d.svc => c = d
                     /\ c.id = plan[o][c.svc]
                     /\ c.rev = req[o].from

FirstPhase == [deploy |-> "stage", stop |-> "down", restart |-> "down",
               start |-> "up", delete |-> "remove"]

(* A request is taken up, if the host is what it says. *)
handleRequest(o) ==
  /\ job[o].st = "wire" /\ connected
  /\ IF IsDeployment(o) THEN stackCandidates(o) ELSE resolveStackServices(o)
  /\ JobTo(o, FirstPhase[req[o].kind], {}, Expected(o))
  /\ UNCHANGED <<Agent, host>>

(* Or refused before anything is touched. *)
refuse(o) ==
  /\ job[o].st = "wire" /\ connected
  /\ Replying(o)
  /\ UNCHANGED <<Agent, host>>

Set(c, up, since) == [c EXCEPT !.up = up, !.since = since]

Swap(c, d) == host' = (host \ {c}) \cup {d}

Originals(o) == {c \in host : c.by # o}
Built(o)     == {c \in host : c.by = o}

(* stageAside: each container of the stack is stopped and renamed. *)
stageAside(o) ==
  /\ job[o].st = "stage"
  /\ IF \E c \in Originals(o) : \A d \in job[o].aside : DockerId(d) # DockerId(c)
       THEN \E c \in Originals(o) :
              /\ \A d \in job[o].aside : DockerId(d) # DockerId(c)
              /\ JobTo(o, "stage", job[o].aside \cup {c}, job[o].left)
              /\ Swap(c, Set(c, FALSE, c.since))
       ELSE JobTo(o, "start", job[o].aside, job[o].left) /\ UNCHANGED host
  /\ UNCHANGED Agent

(* startService: a container is created, then started and seen running. *)
startService(o, s) ==
  /\ job[o].st = "start" /\ s \in job[o].left
  /\ LET c == [svc |-> s, by |-> o, id |-> plan[o][s], rev |-> req[o].rev,
               up |-> FALSE, since |-> o]
     IN IF c \notin host
          THEN host' = host \cup {c} /\ UNCHANGED job
          ELSE /\ Swap(c, Set(c, TRUE, o))
               /\ JobTo(o, IF job[o].left = {s} THEN "retire" ELSE "start",
                        job[o].aside, job[o].left \ {s})
  /\ UNCHANGED Agent

(* The target is up: the originals go, and what Docker says is not looked at. *)
Retire(o) ==
  /\ job[o].st = "retire"
  /\ IF job[o].aside = {} THEN Replying(o) /\ UNCHANGED <<host, budget>>
     ELSE \E d \in job[o].aside :
            /\ JobTo(o, "retire", job[o].aside \ {d}, {})
            /\ \/ host' = {c \in host : DockerId(c) # DockerId(d)} /\ UNCHANGED budget
               \/ Spend("docker") /\ UNCHANGED host
  /\ UNCHANGED <<db, call, server, connected>>

(* undo and restore: what was created goes and what was moved comes back and *)
(* runs again if it ran.  Where a Docker call fails a created container      *)
(* stays, or a moved one stays as it is.                                     *)
undo(o) ==
  /\ job[o].st \in {"stage", "start"}
  /\ \E stays \in SUBSET Built(o), down \in SUBSET job[o].aside :
       /\ IF stays = {} /\ down = {} THEN UNCHANGED budget ELSE Spend("docker")
       /\ host' = stays
            \cup {c \in host : c.by # o /\ \A d \in job[o].aside \ down : DockerId(d) # DockerId(c)}
            \cup {Set(d, d.up, IF d.up THEN o ELSE d.since) : d \in job[o].aside \ down}
  /\ Replying(o)
  /\ UNCHANGED <<db, call, server, connected>>

(* A lifecycle operation, service by service: down, then up for a restart. *)
stopServices(o, c) ==
  /\ job[o].st = "down" /\ c.svc \in job[o].left
  /\ Swap(c, Set(c, FALSE, c.since))
  /\ IF job[o].left # {c.svc} THEN JobTo(o, "down", {}, job[o].left \ {c.svc})
     ELSE IF req[o].kind = "restart" THEN JobTo(o, "up", {}, Expected(o))
     ELSE Replying(o)
  /\ UNCHANGED Agent

startServices(o, c) ==
  /\ job[o].st = "up" /\ c.svc \in job[o].left
  /\ Swap(c, IF c.up THEN c ELSE Set(c, TRUE, o))
  /\ IF job[o].left # {c.svc} THEN JobTo(o, "up", {}, job[o].left \ {c.svc})
     ELSE Replying(o)
  /\ UNCHANGED Agent

(* RemoveStack: stopped, then removed, service by service. *)
RemoveStack(o, c) ==
  /\ job[o].st = "remove" /\ c.svc \in job[o].left
  /\ IF c.up THEN Swap(c, Set(c, FALSE, c.since)) /\ UNCHANGED job
     ELSE /\ host' = host \ {c}
          /\ IF job[o].left = {c.svc} THEN Replying(o)
             ELSE JobTo(o, "remove", {}, job[o].left \ {c.svc})
  /\ UNCHANGED Agent

(* A Docker call fails: nothing is undone. *)
incomplete(o) ==
  /\ job[o].st \in {"down", "up", "remove"}
  /\ Replying(o)
  /\ UNCHANGED <<Agent, host>>

-----------------------------------------------------------------------------
(* The connection                                                            *)

(* What the loss of the connection does to a handler: a request or a reply   *)
(* under way is lost, a handler at work goes on.                             *)
Cut(j) == [o \in Calls |-> IF j[o].st \in {"wire", "reply"} THEN NoJob ELSE j[o]]

(* AgentDispatch.abandon: whoever waits learns that the outcome is unknown.  *)
Abandoned == [w \in Workers |-> IF pc[w] = "waiting" THEN "unknown" ELSE pc[w]]

(* The reply arrives.  One nobody waits for any more ends the connection.    *)
Reply(o) ==
  /\ job[o].st = "reply" /\ connected
  /\ \/ /\ pc[o] = "waiting"
        /\ Goto(o, "resync")
        /\ job' = [job EXCEPT ![o] = NoJob]
        /\ UNCHANGED connected
     \/ /\ pc[o] # "waiting"
        /\ connected' = FALSE
        /\ job' = Cut(job)
        /\ pc' = Abandoned
  /\ UNCHANGED <<db, call, held, pass, verdict, todo, host, budget>>

(* A handler that finishes with no connection has nowhere to reply. *)
ReplyLost(o) ==
  /\ job[o].st = "reply" /\ ~connected
  /\ job' = [job EXCEPT ![o] = NoJob]
  /\ UNCHANGED <<db, call, server, connected, host, budget>>

Disconnect ==
  /\ connected
  /\ Spend("drop")
  /\ connected' = FALSE
  /\ job' = Cut(job)
  /\ pc' = Abandoned
  /\ UNCHANGED <<db, call, held, pass, verdict, todo, host>>

(* Mutant: the agent connects again while handlers of its last session run. *)
ReconnectAtOnce ==
  /\ ~connected
  /\ connected' = TRUE
  /\ UNCHANGED <<db, call, server, job, host, budget>>

(* The agent waits for the handlers of its last session before it connects.  *)
Reconnect ==
  /\ ~connected
  /\ \A o \in Calls : job[o].st = "no"
  /\ connected' = TRUE
  /\ UNCHANGED <<db, call, server, job, host, budget>>

AgentRestart ==
  /\ Spend("agentcrash")
  /\ connected' = FALSE
  /\ job' = [o \in Calls |-> NoJob]
  /\ pc' = Abandoned
  /\ UNCHANGED <<db, call, held, pass, verdict, todo, host>>

ServerRestart ==
  /\ Spend("crash")
  /\ pc' = [w \in Workers |->
              IF w \in Runners \/ pc[w] = "idle" THEN "idle" ELSE "done"]
  /\ held' = None
  /\ pass' = [w \in Workers |-> NoPass]
  /\ verdict' = [w \in Workers |-> [op |-> None, kind |-> "none"]]
  /\ todo' = [w \in Runners |-> {}]
  /\ connected' = FALSE
  /\ job' = Cut(job)
  /\ UNCHANGED <<db, call, host>>

-----------------------------------------------------------------------------
Call(o) ==
  \/ Guard(o) \/ Acquire(o) \/ Refused(o)
  \/ prepareDeploy(o) \/ prepareOperation(o) \/ deleteNeverDeployed(o)
  \/ Dispatch(o) \/ AuditFails(o) \/ interrupted(o) \/ observe(o) \/ settle(o)

Pass(w) ==
  PassRead(w) \/ PassFails(w) \/ \E complete \in BOOLEAN : PassApply(w, complete)

Recovery(w) ==
  \/ Run(w) \/ recoverHost(w) \/ readCompletely(w) \/ RunEnds(w)
  \/ (\E o \in Calls : NextAttempt(w, o)) \/ recordRecovered(w)

Handler(o) ==
  \/ handleRequest(o) \/ refuse(o) \/ stageAside(o) \/ Retire(o) \/ undo(o)
  \/ (\E s \in Services : startService(o, s))
  \/ (\E c \in host : stopServices(o, c) \/ startServices(o, c) \/ RemoveStack(o, c))
  \/ incomplete(o)

Next ==
  \/ \E o \in Calls, kind \in Kinds, rev \in Revisions \cup {None} : Begin(o, kind, rev)
  \/ \E o \in Calls : Call(o) \/ TimeOut(o) \/ Handler(o) \/ Reply(o) \/ ReplyLost(o)
  \/ \E w \in Workers : Pass(w)
  \/ \E w \in Runners : Recovery(w)
  \/ Disconnect \/ Reconnect \/ AgentRestart \/ ServerRestart

Spec == Init /\ [][Next]_vars

(* A call under way, a handler at work, a pass and the scheduler all go on:  *)
(* they wait for a reply, for Docker or for a timer, never for one another.  *)
(* The agent connects again, backing off at most a minute.                   *)
Fairness ==
  /\ \A o \in Calls : WF_vars(Call(o)) /\ WF_vars(Handler(o))
                      /\ WF_vars(Reply(o) \/ ReplyLost(o))
  /\ \A w \in Workers : WF_vars(Pass(w))
  /\ \A w \in Runners : WF_vars(Recovery(w))
  /\ WF_vars(Reconnect)

FairSpec == Spec /\ Fairness

-----------------------------------------------------------------------------
(* Properties                                                                *)

TypeOK ==
  /\ status \in {"not_deployed", "deploying", "running", "stopped",
                 "needs_attention", "gone"}
  /\ current \in Revisions \cup {None}
  /\ desired \in Revisions \cup {None}
  /\ row \in [Services -> {NoRow} \cup
       [id : Identities, docker : DockerIds \cup {None},
        rev : Revisions \cup {None}, up : BOOLEAN]]
  /\ att \in [Calls -> {"none", "gone"} \cup Unresolved \cup Resolved]
  /\ mark \in [Calls -> [Services -> [docker : DockerIds \cup {None},
                                      since : Deployers \cup {None}]]]
  /\ req \in [Calls -> [kind : AllKinds \cup {"none"}, rev : Revisions \cup {None},
                        from : Revisions \cup {None}]]
  /\ plan \in [Calls -> [Services -> Identities \cup {None}]]
  /\ pc \in [Workers -> {"idle", "guard", "lock", "prepare", "dispatch", "waiting",
                         "unknown", "resync", "settle", "done",
                         "sync", "reread", "recover", "record"}]
  /\ held \in Calls \cup {None}
  /\ pass \in [Workers -> [st : {"none", "read", "over"}, snap : SUBSET Container,
                           complete : BOOLEAN]]
  /\ verdict \in [Workers -> [op : Calls \cup {None},
       kind : Applied \cup NotApplied \cup {"none", "unknown", "needs_attention"}]]
  /\ todo \in [Runners -> SUBSET Calls]
  /\ connected \in BOOLEAN
  /\ job \in [Calls -> [st : Working \cup {"no", "wire", "reply"},
                        aside : SUBSET Container, left : SUBSET Services]]
  /\ host \subseteq Container
  /\ budget \in [Faults -> Nat]

(* The agent never has two handlers at work on the stack at once, although   *)
(* the guards are read before the lock and a call that lost its connection   *)
(* lets go of the lock while its handler runs on.                            *)
AgentJobsExclusive ==
  \A o, p \in Calls : job[o].st \in Working /\ job[p].st \in Working => o = p

(* What the stack's services are when a revision is applied: exactly those   *)
(* of the revision, one running container each.                              *)
IsRunning(rev) ==
  /\ {c.svc : c \in host} = ServicesOf[rev]
  /\ Cardinality(host) = Cardinality(ServicesOf[rev])
  /\ \A c \in host : c.rev = rev /\ c.up

(* A deployment is recorded as succeeded only at a moment when the host runs *)
(* exactly its revision (recordApplied, and recovery's settle).              *)
AppliedIsThere ==
  [][\A o \in Calls :
       IsDeployment(o) /\ att[o] # "succeeded" /\ att'[o] = "succeeded"
         => IsRunning(req[o].rev)]_vars

(* A deployment recorded as rolled back or failed left no container of its   *)
(* own on the host (recordNotApplied: "the host is as it was").              *)
NothingLeftBehind ==
  \A o \in Calls : IsDeployment(o) /\ att[o] \in {"rolled_back", "failed"}
                     => Built(o) = {}

(* The record of a stack goes only when nothing of it is on the host, or     *)
(* still to be put there (deleteNeverDeployed, classifyStackDelete).         *)
DeletedIsGone ==
  status = "gone" => host = {} /\ \A o \in Calls : job[o].st \notin Working \ {"retire"}

(* A deployment, start, stop or deletion that is open is resolved in the     *)
(* end, whatever became of the call that made it                             *)
(* (StackRecoveryService.recoverHost).  Not so a restart, and the run leaves *)
(* it out: without a start time to compare with, `absence is never taken' as *)
(* evidence, and it stays open (stack-lifecycle.ts:60, 204).                 *)
EveryAttemptSettles ==
  \A o \in Calls : unresolved(o) ~> ~unresolved(o)

(* An attempt is settled once (stack-deployment.service.ts, recordApplied:   *)
(* "Another pass may have settled this attempt first, and writing over that  *)
(* would record the older of two answers").                                  *)
SettledOnce ==
  [][\A o \in Calls : att[o] \in Resolved => att'[o] \in {att[o], "gone"}]_vars
=============================================================================
