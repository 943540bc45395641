---------------------------- MODULE StacksProofs ----------------------------
(* What holds of a stack for every set of services, revisions, calls and      *)
(* scheduler runs, and for every budget of faults.                            *)
EXTENDS Stacks, TLAPS

(* The parts of the type invariant, by what survives what.                    *)

Statuses == {"not_deployed", "deploying", "running", "stopped", "needs_attention", "gone"}
Attempts == {"none", "gone"} \cup Unresolved \cup Resolved
Rows     == {NoRow} \cup [id : Identities, docker : DockerIds \cup {None},
                          rev : Revisions \cup {None}, up : BOOLEAN]
Outcomes == Applied \cup NotApplied \cup {"unknown", "needs_attention"}
Marks    == [docker : DockerIds \cup {None}, since : Deployers \cup {None}]
Jobs     == [st : Working \cup {"no", "wire", "reply"}, aside : SUBSET Container,
             left : SUBSET Services]
Passes   == [st : {"none", "read", "over"}, snap : SUBSET Container, complete : BOOLEAN]
Places   == {"idle", "guard", "lock", "prepare", "dispatch", "waiting", "unknown",
             "resync", "settle", "done", "sync", "reread", "recover", "record"}
Verdicts == [op : Calls \cup {None}, kind : Outcomes \cup {"none"}]
Requests == [kind : AllKinds \cup {"none"}, rev : Revisions \cup {None},
             from : Revisions \cup {None}]

TypeDb ==
  /\ status \in Statuses
  /\ current \in Revisions \cup {None} /\ desired \in Revisions \cup {None}
  /\ row \in [Services -> Rows]
  /\ att \in [Calls -> Attempts]
  /\ mark \in [Calls -> [Services -> Marks]]

TypeCall ==
  /\ req \in [Calls -> Requests]
  /\ plan \in [Calls -> [Services -> Identities \cup {None}]]

TypeServer ==
  /\ pc \in [Workers -> Places]
  /\ held \in Calls \cup {None}
  /\ pass \in [Workers -> Passes]
  /\ verdict \in [Workers -> Verdicts]
  /\ todo \in [Runners -> SUBSET Calls]

TypeEnv ==
  /\ connected \in BOOLEAN
  /\ job \in [Calls -> Jobs]
  /\ host \subseteq Container
  /\ budget \in [Faults -> Nat]

(* The type invariant is its four parts.                                      *)
LEMMA TypeParts == TypeOK <=> TypeDb /\ TypeCall /\ TypeServer /\ TypeEnv
<1>1. Outcomes \cup {"none"} = Applied \cup NotApplied \cup {"none", "unknown", "needs_attention"}
  BY DEF Outcomes
<1> QED BY Zenon, <1>1 DEF TypeOK, TypeDb, TypeCall, TypeServer, TypeEnv, Statuses, Attempts, Rows,
    Marks, Jobs, Passes, Places, Verdicts, Requests

(* ... and so after a step.                                                   *)
LEMMA TypePartsNext == TypeDb' /\ TypeCall' /\ TypeServer' /\ TypeEnv' => TypeOK'
<1>1. Outcomes \cup {"none"} = Applied \cup NotApplied \cup {"none", "unknown", "needs_attention"}
  BY DEF Outcomes
<1> QED BY Zenon, <1>1 DEF TypeOK, TypeDb, TypeCall, TypeServer, TypeEnv, Statuses, Attempts, Rows,
    Marks, Jobs, Passes, Places, Verdicts, Requests

-----------------------------------------------------------------------------
(* What a classifier answers is an outcome.                                   *)
LEMMA OutcomeType ==
  ASSUME NEW o \in Calls, NEW complete, req[o].kind \in AllKinds
  PROVE  Outcome(o, complete) \in Outcomes
<1> USE DEF Outcomes, Applied, NotApplied
<1>1. \A in : classifyStackApply(in) \in Outcomes
  BY Zenon DEF classifyStackApply
<1>2. \A in : classifyStackDelete(in) \in Outcomes
  BY Zenon DEF classifyStackDelete
<1>3. \A services, before : restartOutcome(services, before) \in Outcomes
  BY Zenon DEF restartOutcome
<1>4. ASSUME NEW in, in.operation \in {"stop", "start", "restart"}
      PROVE  classifyStackLifecycle(in) \in Outcomes
  BY Zenon, <1>3, <1>4 DEF classifyStackLifecycle
<1> HIDE DEF Outcomes, Applied, NotApplied
<1>5. CASE req[o].kind = "deploy"
  BY Zenon, <1>1, <1>5 DEF Outcome
<1>6. CASE req[o].kind = "delete"
  BY <1>2, <1>6 DEF Outcome
<1>7. CASE req[o].kind \in {"stop", "start", "restart"}
  BY <1>4, <1>7 DEF Outcome
<1> QED BY <1>5, <1>6, <1>7 DEF AllKinds

(* Rows stay rows when a listing is applied.                                  *)
LEMMA ApplyType ==
  ASSUME TypeDb, NEW snap \in SUBSET Container, NEW sweep, NEW r \in applyContainers(snap, sweep)
  PROVE  r \in [Services -> Rows]
<1> DEFINE seen(s) == {RowOf(c, IF row[s] = NoRow THEN Found ELSE row[s].id)
                         : c \in Claims(snap, s)}
           unseen(s) == IF sweep /\ row[s].docker # None /\ ~Kept(snap, s)
                        THEN NoRow ELSE row[s]
           after(s) == IF seen(s) # {} THEN seen(s) ELSE {unseen(s)}
<1>1. /\ r \in [Services -> UNION {after(s) : s \in Services}]
      /\ \A s \in Services : r[s] \in after(s)
  BY Zenon DEF applyContainers
<1>2. ASSUME NEW s \in Services PROVE r[s] \in Rows
  <2>1. row[s] \in Rows /\ NoRow \in Rows
    BY Zenon DEF TypeDb, Rows
  <2>2. unseen(s) \in Rows
    BY Zenon, <2>1
  <2>3. ASSUME NEW c \in Claims(snap, s)
        PROVE  RowOf(c, IF row[s] = NoRow THEN Found ELSE row[s].id) \in Rows
    <3>1. c \in Container
      BY Zenon DEF Claims
    <3>2. (IF row[s] = NoRow THEN Found ELSE row[s].id) \in Identities
      BY <2>1 DEF Rows, Identities
    <3>3. DockerId(c) \in DockerIds /\ c.rev \in Revisions /\ c.up \in BOOLEAN
      BY <3>1 DEF Container, DockerId, DockerIds
    <3> QED BY <3>2, <3>3 DEF RowOf, Rows
  <2>4. seen(s) \subseteq Rows
    BY Zenon, <2>3
  <2> QED BY Zenon, <1>1, <2>2, <2>4
<1> QED BY Zenon, <1>1, <1>2

(* A start time is that of a container, or the one stored, or not known.      *)
LEMMA StartTimeType ==
  ASSUME TypeDb, TypeEnv, NEW s \in Services, NEW stored \in Deployers \cup {None}
  PROVE  StartTime(s, stored) \in Deployers \cup {None}
<1>1. ASSUME NEW c \in host PROVE c.since \in Deployers
  BY DEF TypeEnv, Container
<1> QED BY <1>1 DEF StartTime

(* A worker goes from a place to a place.                                     *)
LEMMA GotoType ==
  ASSUME TypeServer, NEW w \in Workers, NEW l \in Places, Goto(w, l)
  PROVE  pc' \in [Workers -> Places]
  BY Zenon DEF TypeServer, Goto

(* The lock goes to nobody.                                                   *)
LEMMA ReleaseType ==
  ASSUME TypeServer, NEW o, Release(o) PROVE held' \in Calls \cup {None}
  BY Zenon DEF TypeServer, Release

(* A fault is one less to come.                                               *)
LEMMA SpendType ==
  ASSUME TypeEnv, NEW f \in Faults, Spend(f) PROVE budget' \in [Faults -> Nat]
  BY DEF TypeEnv, Spend

(* A handler is at work, or has replied.                                      *)
LEMMA JobType ==
  ASSUME TypeEnv, NEW o \in Calls, NEW st \in Working \cup {"no", "wire", "reply"},
         NEW aside \in SUBSET Container, NEW left \in SUBSET Services, JobTo(o, st, aside, left)
  PROVE  job' \in [Calls -> Jobs]
<1>1. [st |-> st, aside |-> aside, left |-> left] \in Jobs
  BY DEF Jobs
<1> QED BY Zenon, <1>1 DEF TypeEnv, JobTo

(* A pass has been read, or is over.                                          *)
LEMMA PassType ==
  ASSUME TypeServer, NEW w \in Workers, NEW st \in {"none", "read", "over"},
         NEW snap \in SUBSET Container, NEW complete \in BOOLEAN, PassTo(w, st, snap, complete)
  PROVE  pass' \in [Workers -> Passes]
<1>1. [st |-> st, snap |-> snap, complete |-> complete] \in Passes
  BY DEF Passes
<1> QED BY Zenon, <1>1 DEF TypeServer, PassTo

(* No pass, no handler and no verdict are what they are before and after.     *)
LEMMA Nothings ==
  NoPass \in Passes /\ NoJob \in Jobs /\ [op |-> None, kind |-> "none"] \in Verdicts
  BY DEF NoPass, Passes, NoJob, Jobs, Verdicts

(* A lost connection takes handlers that were at work on to their end.        *)
LEMMA CutType ==
  ASSUME TypeEnv PROVE Cut(job) \in [Calls -> Jobs]
  BY Zenon, Nothings DEF TypeEnv, Cut

(* Whoever waited for an answer is somewhere else.                            *)
LEMMA AbandonedType ==
  ASSUME TypeServer PROVE Abandoned \in [Workers -> Places]
<1>1. "unknown" \in Places
  BY DEF Places
<1> QED BY Zenon, <1>1 DEF TypeServer, Abandoned

(* A container that is started or stopped is a container.                     *)
LEMMA SetType ==
  ASSUME NEW c \in Container, NEW up \in BOOLEAN, NEW since \in Deployers
  PROVE  Set(c, up, since) \in Container
  BY ZenonT(60) DEF Set, Container

(* What settling an attempt writes.                                           *)
LEMMA RecordType ==
  ASSUME TypeDb, TypeCall, NEW o \in Calls, NEW outcome, NEW owner, Record(o, outcome, owner),
         UNCHANGED mark
  PROVE  TypeDb'
<1>0. NoRow \in Rows
  BY Zenon DEF Rows
<1>1. ASSUME NEW st \in Resolved, Resolve(o, st) PROVE att' \in [Calls -> Attempts]
  BY Zenon, <1>1 DEF TypeDb, Resolve, Attempts
<1>2. ASSUME NEW st \in Statuses, StackBecomes(st) PROVE status' \in Statuses
  BY Zenon, <1>2 DEF TypeDb, StackBecomes
<1>3. ASSUME NEW gone, DropRows(gone) PROVE row' \in [Services -> Rows]
  BY Zenon, <1>0, <1>3 DEF TypeDb, DropRows
<1>4. /\ {"succeeded", "failed", "rolled_back", "needs_attention"} \subseteq Resolved
      /\ {"running", "stopped", "not_deployed", "needs_attention"} \subseteq Statuses
  BY DEF Resolved, Statuses
<1>5. req[o].rev \in Revisions \cup {None}
  BY DEF TypeCall, Requests
<1>6. ASSUME recordDeployment(o, outcome, owner) PROVE TypeDb'
  <2>1. att' \in [Calls -> Attempts]
    BY Zenon, <1>1, <1>4, <1>6 DEF recordDeployment
  <2>2. status' \in Statuses
    BY Zenon, <1>2, <1>4, <1>6 DEF recordDeployment
  <2>3. row' \in [Services -> Rows]
    BY Zenon, <1>3, <1>6 DEF recordDeployment, TypeDb
  <2>4. current' \in Revisions \cup {None} /\ desired' \in Revisions \cup {None}
    BY Zenon, <1>5, <1>6 DEF recordDeployment, TypeDb
  <2> QED BY Zenon, <2>1, <2>2, <2>3, <2>4 DEF TypeDb
<1>7. ASSUME recordOperation(o, outcome) PROVE TypeDb'
  <2>1. att' \in [Calls -> Attempts]
    BY Zenon, <1>1, <1>4, <1>7 DEF recordOperation
  <2>2. status' \in Statuses
    BY Zenon, <1>2, <1>4, <1>7 DEF recordOperation, TypeDb
  <2> QED BY Zenon, <1>7, <2>1, <2>2 DEF TypeDb, recordOperation
<1>8. ASSUME purge PROVE TypeDb'
  <2>1. "gone" \in Statuses /\ "none" \in Attempts /\ "gone" \in Attempts
    BY DEF Statuses, Attempts
  <2> QED BY Zenon, <1>0, <1>8, <2>1 DEF TypeDb, purge
<1> QED BY Zenon, <1>6, <1>7, <1>8 DEF Record, recordDeletion

-----------------------------------------------------------------------------
(* What is known of a call: one that has begun asked for something; one that  *)
(* has a deployment or operation row is about a revision, and a deployment    *)
(* has named an identity for each of its services.  What waits, works, or is  *)
(* being recovered has such a row.                                            *)

About(o) == IF IsDeployment(o) THEN req[o].rev ELSE req[o].from

Tracked == {"dispatch", "waiting", "unknown", "resync", "settle"}

Known ==
  /\ \A o \in Calls : pc[o] # "idle" =>
       req[o].kind \in AllKinds /\ (IsDeployment(o) => req[o].rev \in Revisions)
  /\ \A o \in Calls : att[o] # "none" =>
       /\ pc[o] # "idle" /\ About(o) \in Revisions
       /\ IsDeployment(o) => \A s \in Expected(o) : plan[o][s] \in Identities
  /\ \A o \in Calls : pc[o] \in Tracked \/ job[o].st # "no" => att[o] # "none"
  /\ \A o \in Calls : job[o].st \in {"stage", "start"} =>
       IsDeployment(o) /\ job[o].left \subseteq Expected(o)
  /\ \A w \in Runners : \A o \in todo[w] : att[o] # "none"
  /\ \A w \in Runners : pc[w] = "record" =>
       verdict[w].op \in Calls /\ att[verdict[w].op] # "none"

(* An attempt is about services of the stack.                                 *)
LEMMA ExpectedType ==
  ASSUME Known, NEW o \in Calls, att[o] # "none" PROVE Expected(o) \in SUBSET Services
<1>1. About(o) \in Revisions /\ Expected(o) = ServicesOf[About(o)]
  BY Zenon DEF Known, About, Expected
<1> QED BY Zenon, <1>1, StacksAssumption

(* The agent's handlers.                                                      *)
LEMMA HandlerType ==
  ASSUME TypeOK, Known, NEW o \in Calls, Handler(o)
  PROVE  TypeEnv' /\ UNCHANGED <<db, call, server, connected>>
<1>0. /\ TypeEnv /\ host \subseteq Container /\ job[o] \in Jobs /\ o \in Deployers
      /\ TypeDb /\ TypeCall /\ connected \in BOOLEAN /\ budget \in [Faults -> Nat]
  BY Zenon, TypeParts DEF TypeEnv, Deployers
<1>00. /\ job[o].aside \subseteq Container /\ job[o].left \subseteq Services
       /\ job[o].st \in Working \cup {"no", "wire", "reply"}
  BY <1>0 DEF Jobs
<1>000. /\ {"stage", "start", "retire", "down", "up", "remove"} \subseteq Working
        /\ "docker" \in Faults /\ {"stage", "start", "retire", "down", "up", "remove", "reply"}
                                    \subseteq Working \cup {"no", "wire", "reply"}
  BY DEF Working, Faults
<1>1. ASSUME NEW c \in host, NEW d \in Container, Swap(c, d) PROVE host' \subseteq Container
  BY Zenon, <1>0, <1>1 DEF Swap
<1>2. ASSUME NEW c \in host, NEW up \in BOOLEAN
      PROVE  /\ Set(c, up, c.since) \in Container /\ Set(c, up, o) \in Container
             /\ c.svc \in Services
  <2>1. c \in Container /\ c.since \in Deployers /\ c.svc \in Services
    BY <1>0 DEF Container
  <2> QED BY Zenon, <1>0, <2>1, SetType
<1>3. ASSUME Replying(o) PROVE job' \in [Calls -> Jobs]
  <2>1. {} \in SUBSET Container /\ {} \in SUBSET Services
    BY Zenon
  <2>2. "reply" \in Working \cup {"no", "wire", "reply"}
    BY Zenon
  <2> QED BY Zenon, <1>0, <1>3, <2>1, <2>2, JobType DEF Replying
<1>4. CASE handleRequest(o)
  <2>1. job[o].st = "wire" /\ "wire" # "no"
    BY <1>4 DEF handleRequest
  <2>2. Expected(o) \in SUBSET Services
    BY Zenon, <2>1, ExpectedType DEF Known
  <2>3. req[o].kind \in AllKinds
    BY Zenon, <2>1 DEF Known
  <2>4. FirstPhase[req[o].kind] \in Working
    BY <2>3 DEF FirstPhase, AllKinds, Working
  <2>5. JobTo(o, FirstPhase[req[o].kind], {}, Expected(o))
    BY Zenon, <1>4 DEF handleRequest
  <2>6. job' \in [Calls -> Jobs]
    BY Zenon, <1>0, <2>2, <2>4, <2>5, JobType
  <2> QED BY Zenon, <1>0, <1>4, <2>6 DEF handleRequest, Agent, TypeEnv
<1>5. CASE refuse(o) \/ incomplete(o)
  BY Zenon, <1>0, <1>3, <1>5 DEF refuse, incomplete, Agent, TypeEnv
<1>6. CASE stageAside(o)
  <2>1. job' \in [Calls -> Jobs]
    BY Zenon, <1>0, <1>00, <1>000, <1>6, JobType DEF stageAside, Originals
  <2>2. host' \subseteq Container
    BY Zenon, <1>0, <1>1, <1>2, <1>6 DEF stageAside, Originals
  <2> QED BY Zenon, <1>0, <1>6, <2>1, <2>2 DEF stageAside, Agent, TypeEnv
<1>7. ASSUME NEW s \in Services, startService(o, s)
      PROVE  TypeEnv' /\ UNCHANGED <<db, call, server, connected>>
  <2> DEFINE c == [svc |-> s, by |-> o, id |-> plan[o][s], rev |-> req[o].rev,
                   up |-> FALSE, since |-> o]
  <2>1. job[o].st = "start" /\ "start" # "no"
    BY <1>7 DEF startService
  <2>2. att[o] # "none" /\ IsDeployment(o) /\ s \in Expected(o)
    BY Zenon, <1>7, <2>1 DEF Known, startService
  <2>3. plan[o][s] \in Identities /\ req[o].rev \in Revisions
    BY Zenon, <2>2 DEF Known, About
  <2>4. c \in Container
    BY <1>0, <2>3 DEF Container
  <2>5. Set(c, TRUE, o) \in Container
    BY Zenon, <1>0, <2>4, SetType
  <2> HIDE DEF c
  <2>6. CASE c \notin host /\ host' = host \cup {c} /\ UNCHANGED job
    BY Zenon, <1>0, <1>7, <2>4, <2>6 DEF startService, Agent, TypeEnv
  <2>7. CASE /\ Swap(c, Set(c, TRUE, o)) /\ c \in host
             /\ JobTo(o, IF job[o].left = {s} THEN "retire" ELSE "start",
                      job[o].aside, job[o].left \ {s})
    <3>1. job' \in [Calls -> Jobs]
      <4>1. job[o].left \ {s} \in SUBSET Services /\ job[o].aside \in SUBSET Container
        BY Zenon, <1>00
      <4>2. (IF job[o].left = {s} THEN "retire" ELSE "start")
              \in Working \cup {"no", "wire", "reply"}
        BY Zenon, <1>000
      <4> QED BY Zenon, <1>0, <2>7, <4>1, <4>2, JobType
    <3>2. host' \subseteq Container
      BY Zenon, <1>1, <2>5, <2>7
    <3> QED BY Zenon, <1>0, <1>7, <3>1, <3>2 DEF startService, Agent, TypeEnv
  <2> QED BY Zenon, <1>7, <2>6, <2>7 DEF startService, c
<1>8. CASE Retire(o)
  <2>1. job' \in [Calls -> Jobs]
    <3>1. ASSUME NEW d, JobTo(o, "retire", job[o].aside \ {d}, {})
          PROVE  job' \in [Calls -> Jobs]
      <4>1. {} \in SUBSET Services /\ job[o].aside \ {d} \in SUBSET Container
        BY Zenon, <1>00
      <4>2. "retire" \in Working \cup {"no", "wire", "reply"}
        BY Zenon, <1>000
      <4> QED BY Zenon, <1>0, <3>1, <4>1, <4>2, JobType
    <3> QED BY Zenon, <1>3, <1>8, <3>1 DEF Retire
  <2>2. host' \subseteq Container
    BY Zenon, <1>0, <1>8 DEF Retire
  <2>3. budget' \in [Faults -> Nat]
    BY Zenon, <1>0, <1>000, <1>8, SpendType DEF Retire
  <2> QED BY Zenon, <1>0, <1>8, <2>1, <2>2, <2>3 DEF Retire, TypeEnv
<1>9. CASE undo(o)
  <2>1. job' \in [Calls -> Jobs]
    BY Zenon, <1>3, <1>9 DEF undo
  <2>2. budget' \in [Faults -> Nat]
    BY Zenon, <1>0, <1>000, <1>9, SpendType DEF undo
  <2>3. ASSUME NEW d \in job[o].aside
        PROVE  Set(d, d.up, IF d.up THEN o ELSE d.since) \in Container
    <3>1. d \in Container /\ d.up \in BOOLEAN /\ d.since \in Deployers
      BY <1>00 DEF Container
    <3> QED BY Zenon, <1>0, <3>1, SetType
  <2>4. host' \subseteq Container
    BY Zenon, <1>0, <1>9, <2>3 DEF undo, Built
  <2> QED BY Zenon, <1>0, <1>9, <2>1, <2>2, <2>4 DEF undo, TypeEnv
<1>10. ASSUME NEW c \in host, stopServices(o, c) \/ startServices(o, c) \/ RemoveStack(o, c)
       PROVE  TypeEnv' /\ UNCHANGED <<db, call, server, connected>>
  <2>1. host' \subseteq Container
    BY Zenon, <1>0, <1>1, <1>2, <1>10 DEF stopServices, startServices, RemoveStack
  <2>2. ASSUME stopServices(o, c) PROVE Expected(o) \in SUBSET Services
    <3>1. job[o].st # "no"
      BY <2>2 DEF stopServices
    <3> QED BY Zenon, <3>1, ExpectedType DEF Known
  <2>3. job' \in [Calls -> Jobs]
    <3>1. ASSUME NEW st \in {"down", "up", "remove"}, NEW left \in SUBSET Services,
                 JobTo(o, st, {}, left)
          PROVE  job' \in [Calls -> Jobs]
      <4>1. {} \in SUBSET Container /\ st \in Working \cup {"no", "wire", "reply"}
        BY Zenon, <1>000, <3>1
      <4> QED BY Zenon, <1>0, <3>1, <4>1, JobType
    <3>2. job[o].left \ {c.svc} \in SUBSET Services
      BY Zenon, <1>00
    <3>3. "down" \in {"down", "up", "remove"} /\ "up" \in {"down", "up", "remove"}
            /\ "remove" \in {"down", "up", "remove"}
      BY Zenon
    <3>4. CASE stopServices(o, c)
      BY Zenon, <1>3, <2>2, <3>1, <3>2, <3>3, <3>4 DEF stopServices
    <3>5. CASE startServices(o, c)
      BY Zenon, <1>3, <3>1, <3>2, <3>3, <3>5 DEF startServices
    <3>6. CASE RemoveStack(o, c)
      BY Zenon, <1>0, <1>3, <3>1, <3>2, <3>3, <3>6 DEF RemoveStack, TypeEnv
    <3> QED BY Zenon, <1>10, <3>4, <3>5, <3>6
  <2> QED BY Zenon, <1>0, <1>10, <2>1, <2>3
             DEF stopServices, startServices, RemoveStack, Agent, TypeEnv
<1> QED BY Zenon, <1>4, <1>5, <1>6, <1>7, <1>8, <1>9, <1>10 DEF Handler

(* The calls.                                                                 *)
LEMMA CallType ==
  ASSUME TypeOK, Known, NEW o \in Calls, Call(o)
  PROVE  TypeDb' /\ TypeCall' /\ TypeServer' /\ TypeEnv'
<1>0. TypeDb /\ TypeCall /\ TypeServer /\ TypeEnv /\ o \in Workers
  BY Zenon, TypeParts DEF Workers
<1>00. \A l \in Places : Goto(o, l) => pc' \in [Workers -> Places]
  BY Zenon, <1>0, GotoType
<1>000. /\ "guard" \in Places /\ "lock" \in Places /\ "prepare" \in Places /\ "dispatch" \in Places
        /\ "waiting" \in Places /\ "unknown" \in Places /\ "settle" \in Places /\ "done" \in Places
  BY DEF Places
<1>a. ASSUME UNCHANGED db PROVE TypeDb'
  BY Zenon, <1>0, <1>a DEF db, stackRow, TypeDb
<1>b. ASSUME UNCHANGED call PROVE TypeCall'
  BY Zenon, <1>0, <1>b DEF call, TypeCall
<1>c. ASSUME UNCHANGED <<connected, job, host, budget>> PROVE TypeEnv'
  BY Zenon, <1>0, <1>c DEF TypeEnv
<1>d. ASSUME UNCHANGED <<pass, verdict, todo>>, pc' \in [Workers -> Places],
             UNCHANGED held \/ Release(o)
      PROVE  TypeServer'
  BY Zenon, <1>0, <1>d, ReleaseType DEF TypeServer
<1>e. "running" \in Attempts /\ "interrupted" \in Attempts /\ NoRow \in Rows
        /\ "deploying" \in Statuses
  BY DEF Attempts, Unresolved, Rows, Statuses
<1>1. CASE Guard(o)
  <2>1. pc' \in [Workers -> Places]
    BY Zenon, <1>1, <1>00, <1>000 DEF Guard
  <2> QED BY Zenon, <1>1, <1>a, <1>b, <1>c, <1>d, <2>1 DEF Guard
<1>2. CASE Acquire(o)
  <2>1. pc' \in [Workers -> Places] /\ held' \in Calls \cup {None}
    BY Zenon, <1>0, <1>2, <1>00, <1>000 DEF Acquire, TypeServer
  <2>2. TypeServer'
    BY Zenon, <1>0, <1>2, <2>1 DEF Acquire, TypeServer
  <2> QED BY Zenon, <1>2, <1>a, <1>b, <1>c, <2>2 DEF Acquire
<1>3. CASE Refused(o) \/ AuditFails(o)
  <2>1. pc' \in [Workers -> Places]
    BY Zenon, <1>3, <1>00, <1>000 DEF Refused, AuditFails
  <2> QED BY Zenon, <1>3, <1>a, <1>b, <1>c, <1>d, <2>1 DEF Refused, AuditFails
<1>4. CASE prepareDeploy(o)
  <2>1. pc' \in [Workers -> Places]
    BY Zenon, <1>4, <1>00, <1>000 DEF prepareDeploy
  <2>2. TypeServer'
    BY Zenon, <1>4, <1>d, <2>1 DEF prepareDeploy
  <2>3. TypeEnv'
    BY Zenon, <1>4, <1>c DEF prepareDeploy
  <2>4. [NoRow EXCEPT !.id = o] \in Rows
    BY ZenonT(60) DEF NoRow, Rows, Identities, Deployers
  <2>5. row' \in [Services -> Rows]
    BY Zenon, <1>0, <1>4, <2>4 DEF prepareDeploy, TypeDb
  <2>6. ASSUME NEW s \in Services
        PROVE  o \in Identities /\ row[s].id \in Identities \cup {None}
    <3>1. row[s] \in Rows
      BY Zenon, <1>0 DEF TypeDb
    <3> QED BY <3>1 DEF Rows, NoRow, Identities, Deployers
  <2>7. TypeCall'
    BY Zenon, <1>0, <1>4, <2>6 DEF prepareDeploy, TypeCall
  <2>8. req[o].rev \in Revisions \cup {None}
    BY <1>0 DEF TypeCall, Requests
  <2>9. TypeDb'
    BY Zenon, <1>0, <1>4, <1>e, <2>5, <2>8 DEF prepareDeploy, TypeDb
  <2> QED BY Zenon, <2>2, <2>3, <2>7, <2>9
<1>5. CASE prepareOperation(o)
  <2>1. pc' \in [Workers -> Places]
    BY Zenon, <1>5, <1>00, <1>000 DEF prepareOperation
  <2>2. TypeServer'
    BY Zenon, <1>5, <1>d, <2>1 DEF prepareOperation
  <2>3. TypeEnv'
    BY Zenon, <1>5, <1>c DEF prepareOperation
  <2>4. ASSUME NEW s \in Services
        PROVE  row[s].id \in Identities \cup {None} /\ row[s].docker \in DockerIds \cup {None}
    <3>1. row[s] \in Rows
      BY Zenon, <1>0 DEF TypeDb
    <3> QED BY <3>1 DEF Rows, NoRow
  <2>5. TypeCall'
    BY Zenon, <1>0, <1>5, <2>4 DEF prepareOperation, TypeCall
  <2>6. ASSUME NEW s \in Services
        PROVE  [docker |-> row[s].docker, since |-> StartTime(s, None)] \in Marks
    <3>1. StartTime(s, None) \in Deployers \cup {None}
      BY Zenon, <1>0, StartTimeType
    <3> QED BY <2>4, <3>1 DEF Marks
  <2>7. mark' \in [Calls -> [Services -> Marks]]
    BY Zenon, <1>0, <1>5, <2>6 DEF prepareOperation, TypeDb
  <2>8. TypeDb'
    BY Zenon, <1>0, <1>5, <1>e, <2>7 DEF prepareOperation, TypeDb, stackRow
  <2> QED BY Zenon, <2>2, <2>3, <2>5, <2>8
<1>6. CASE deleteNeverDeployed(o)
  <2>1. pc' \in [Workers -> Places]
    BY Zenon, <1>6, <1>00, <1>000 DEF deleteNeverDeployed
  <2>2. "gone" \in Statuses /\ "none" \in Attempts /\ "gone" \in Attempts
    BY DEF Statuses, Attempts
  <2>3. TypeDb'
    BY Zenon, <1>0, <1>6, <1>e, <2>2 DEF deleteNeverDeployed, purge, TypeDb
  <2> QED BY Zenon, <1>6, <1>b, <1>c, <1>d, <2>1, <2>3 DEF deleteNeverDeployed
<1>7. CASE Dispatch(o)
  <2>1. pc' \in [Workers -> Places]
    BY Zenon, <1>7, <1>00, <1>000 DEF Dispatch
  <2>2. [NoJob EXCEPT !.st = "wire"] \in Jobs
    BY DEF NoJob, Jobs
  <2>3. TypeEnv'
    BY Zenon, <1>0, <1>7, <2>2 DEF Dispatch, TypeEnv
  <2> QED BY Zenon, <1>7, <1>a, <1>b, <1>d, <2>1, <2>3 DEF Dispatch
<1>8. CASE interrupted(o)
  <2>1. pc' \in [Workers -> Places]
    BY Zenon, <1>8, <1>00, <1>000 DEF interrupted
  <2>2. TypeDb'
    BY Zenon, <1>0, <1>8, <1>e DEF interrupted, TypeDb, stackRow
  <2> QED BY Zenon, <1>8, <1>b, <1>c, <1>d, <2>1, <2>2 DEF interrupted
<1>9. CASE observe(o)
  <2>1. pc' \in [Workers -> Places]
    BY Zenon, <1>9, <1>00, <1>000 DEF observe
  <2>2. req[o].kind \in AllKinds
    BY <1>9 DEF Known, observe
  <2>3. [op |-> o, kind |-> Outcome(o, pass[o].complete)] \in Verdicts
    BY <2>2, OutcomeType DEF Verdicts
  <2>4. TypeServer'
    BY Zenon, <1>0, <1>9, <2>1, <2>3, Nothings DEF observe, TypeServer
  <2> QED BY Zenon, <1>9, <1>a, <1>b, <1>c, <2>4 DEF observe
<1>10. CASE settle(o)
  <2>1. pc' \in [Workers -> Places]
    BY Zenon, <1>10, <1>00, <1>000 DEF settle
  <2>2. TypeDb'
    BY Zenon, <1>0, <1>10, RecordType DEF settle
  <2>3. TypeServer'
    BY Zenon, <1>0, <1>10, <2>1, Nothings, ReleaseType DEF settle, TypeServer
  <2> QED BY Zenon, <1>10, <1>b, <1>c, <2>2, <2>3 DEF settle
<1> QED BY Zenon, <1>1, <1>2, <1>3, <1>4, <1>5, <1>6, <1>7, <1>8, <1>9, <1>10 DEF Call

(* The discovery passes and the scheduler's runs.                             *)
LEMMA PassRunType ==
  ASSUME TypeOK, Known, NEW w \in Workers, Pass(w) \/ (w \in Runners /\ Recovery(w))
  PROVE  TypeDb' /\ TypeCall' /\ TypeServer' /\ TypeEnv'
<1>0. TypeDb /\ TypeCall /\ TypeServer /\ TypeEnv /\ "timeout" \in Faults
  BY Zenon, TypeParts DEF Faults
<1>00. \A l \in Places : Goto(w, l) => pc' \in [Workers -> Places]
  BY Zenon, <1>0, GotoType
<1>000. /\ "idle" \in Places /\ "sync" \in Places /\ "reread" \in Places /\ "recover" \in Places
        /\ "record" \in Places
  BY DEF Places
<1>a. ASSUME UNCHANGED db PROVE TypeDb'
  BY Zenon, <1>0, <1>a DEF db, stackRow, TypeDb
<1>b. ASSUME UNCHANGED call PROVE TypeCall'
  BY Zenon, <1>0, <1>b DEF call, TypeCall
<1>c. ASSUME UNCHANGED <<connected, job, host>>, UNCHANGED budget \/ Spend("timeout") PROVE TypeEnv'
  BY Zenon, <1>0, <1>c, SpendType DEF TypeEnv
<1>d. ASSUME UNCHANGED held, pc' \in [Workers -> Places], pass' \in [Workers -> Passes],
             verdict' \in [Workers -> Verdicts], todo' \in [Runners -> SUBSET Calls]
      PROVE  TypeServer'
  BY Zenon, <1>0, <1>d DEF TypeServer
<1>e. /\ pc \in [Workers -> Places] /\ pass \in [Workers -> Passes]
      /\ verdict \in [Workers -> Verdicts] /\ todo \in [Runners -> SUBSET Calls]
      /\ host \subseteq Container
  BY Zenon, <1>0 DEF TypeServer, TypeEnv
<1>1. CASE PassRead(w)
  <2>1. pass' \in [Workers -> Passes]
    <3>1. host \in SUBSET Container /\ TRUE \in BOOLEAN /\ "read" \in {"none", "read", "over"}
      BY Zenon, <1>e
    <3> QED BY Zenon, <1>0, <1>1, <3>1, PassType DEF PassRead
  <2> QED BY Zenon, <1>1, <1>a, <1>b, <1>c, <1>d, <1>e, <2>1 DEF PassRead
<1>2. ASSUME NEW complete \in BOOLEAN, PassTo(w, "over", {}, complete)
      PROVE  pass' \in [Workers -> Passes]
  <2>1. {} \in SUBSET Container /\ "over" \in {"none", "read", "over"}
    BY Zenon
  <2> QED BY Zenon, <1>0, <1>2, <2>1, PassType
<1>3. CASE PassFails(w)
  <2>1. pass' \in [Workers -> Passes]
    BY Zenon, <1>2, <1>3 DEF PassFails
  <2>2. TypeDb' /\ TypeCall' /\ TypeServer'
    BY Zenon, <1>3, <1>a, <1>b, <1>d, <1>e, <2>1 DEF PassFails
  <2> QED BY Zenon, <1>3, <1>c, <2>2 DEF PassFails
<1>4. ASSUME NEW complete \in BOOLEAN, PassApply(w, complete)
      PROVE  TypeDb' /\ TypeCall' /\ TypeServer' /\ TypeEnv'
  <2>1. pass' \in [Workers -> Passes]
    BY Zenon, <1>2, <1>4 DEF PassApply
  <2>2. pass[w].snap \in SUBSET Container
    BY <1>e DEF Passes
  <2>3. row' \in [Services -> Rows]
    BY Zenon, <1>0, <1>4, <2>2, ApplyType DEF PassApply, TypeDb
  <2>4. TypeDb'
    BY Zenon, <1>0, <1>4, <2>3 DEF PassApply, TypeDb, stackRow
  <2>5. TypeServer' /\ TypeCall'
    BY Zenon, <1>4, <1>b, <1>d, <1>e, <2>1 DEF PassApply
  <2> QED BY Zenon, <1>4, <1>c, <2>4, <2>5 DEF PassApply
<1>5. CASE w \in Runners /\ (Run(w) \/ RunEnds(w))
  <2>1. pc' \in [Workers -> Places]
    BY Zenon, <1>5, <1>00, <1>000 DEF Run, RunEnds
  <2> QED BY Zenon, <1>5, <1>a, <1>b, <1>c, <1>d, <1>e, <2>1 DEF Run, RunEnds
<1>6. CASE w \in Runners /\ (recoverHost(w) \/ readCompletely(w))
  <2>1. pc' \in [Workers -> Places]
    BY Zenon, <1>6, <1>00, <1>000 DEF recoverHost, readCompletely
  <2>2. pass' \in [Workers -> Passes]
    BY Zenon, <1>6, <1>e, Nothings DEF recoverHost, readCompletely
  <2>3. todo' \in [Runners -> SUBSET Calls]
    BY ZenonT(60), <1>6, <1>e DEF recoverHost, readCompletely, unfinished
  <2> QED BY Zenon, <1>6, <1>a, <1>b, <1>c, <1>d, <1>e, <2>1, <2>2, <2>3
             DEF recoverHost, readCompletely
<1>7. ASSUME w \in Runners, NEW o \in Calls, NextAttempt(w, o)
      PROVE  TypeDb' /\ TypeCall' /\ TypeServer' /\ TypeEnv'
  <2>1. pc' \in [Workers -> Places]
    BY Zenon, <1>7, <1>00, <1>000, <1>e DEF NextAttempt
  <2>2. todo' \in [Runners -> SUBSET Calls]
    BY Zenon, <1>7, <1>e DEF NextAttempt
  <2>3. req[o].kind \in AllKinds
    BY Zenon, <1>7 DEF Known, NextAttempt
  <2>4. [op |-> o, kind |-> Outcome(o, TRUE)] \in Verdicts
    BY ZenonT(60), <2>3, OutcomeType DEF Verdicts
  <2>5. verdict' \in [Workers -> Verdicts]
    BY Zenon, <1>7, <1>e, <2>4 DEF NextAttempt
  <2> QED BY Zenon, <1>7, <1>a, <1>b, <1>c, <1>d, <1>e, <2>1, <2>2, <2>5 DEF NextAttempt
<1>8. CASE w \in Runners /\ recordRecovered(w)
  <2>1. pc' \in [Workers -> Places]
    BY Zenon, <1>8, <1>00, <1>000 DEF recordRecovered
  <2>2. verdict' \in [Workers -> Verdicts]
    BY Zenon, <1>8, <1>e, Nothings DEF recordRecovered
  <2>3. verdict[w].op \in Calls
    BY Zenon, <1>8 DEF recordRecovered, Known
  <2>4. TypeDb'
    BY Zenon, <1>0, <1>8, <2>3, RecordType DEF recordRecovered
  <2> QED BY Zenon, <1>8, <1>b, <1>c, <1>d, <1>e, <2>1, <2>2, <2>4 DEF recordRecovered
<1> QED BY Zenon, <1>1, <1>3, <1>4, <1>5, <1>6, <1>7, <1>8 DEF Pass, Recovery

(* The connection, the restarts and the arrival of calls.                     *)
LEMMA RestType ==
  ASSUME TypeOK,
         \/ \E o \in Calls, kind \in Kinds, rev \in Revisions \cup {None} : Begin(o, kind, rev)
         \/ \E o \in Calls : TimeOut(o) \/ Reply(o) \/ ReplyLost(o)
         \/ Disconnect \/ Reconnect \/ AgentRestart \/ ServerRestart
  PROVE  TypeDb' /\ TypeCall' /\ TypeServer' /\ TypeEnv'
<1>0. /\ TypeDb /\ TypeCall /\ TypeServer /\ TypeEnv
      /\ "timeout" \in Faults /\ "drop" \in Faults /\ "crash" \in Faults /\ "agentcrash" \in Faults
  BY Zenon, TypeParts DEF Faults
<1>00. \A o \in Calls : \A l \in Places : Goto(o, l) => pc' \in [Workers -> Places]
  BY Zenon, <1>0, GotoType DEF Workers
<1>000. "guard" \in Places /\ "unknown" \in Places /\ "resync" \in Places /\ "idle" \in Places
          /\ "done" \in Places
  BY DEF Places
<1>a. ASSUME UNCHANGED db PROVE TypeDb'
  BY Zenon, <1>0, <1>a DEF db, stackRow, TypeDb
<1>b. ASSUME UNCHANGED call PROVE TypeCall'
  BY Zenon, <1>0, <1>b DEF call, TypeCall
<1>c. ASSUME pc' \in [Workers -> Places], UNCHANGED <<held, pass, verdict, todo>>
      PROVE  TypeServer'
  BY Zenon, <1>0, <1>c DEF TypeServer
<1>d. ASSUME connected' \in BOOLEAN, job' \in [Calls -> Jobs], UNCHANGED host,
             budget' \in [Faults -> Nat]
      PROVE  TypeEnv'
  BY Zenon, <1>0, <1>d DEF TypeEnv
<1>e. connected \in BOOLEAN /\ job \in [Calls -> Jobs] /\ budget \in [Faults -> Nat]
        /\ pc \in [Workers -> Places]
  BY Zenon, <1>0 DEF TypeEnv, TypeServer
<1>1. ASSUME NEW o \in Calls, NEW kind \in Kinds, NEW rev \in Revisions \cup {None},
             Begin(o, kind, rev)
      PROVE  TypeDb' /\ TypeCall' /\ TypeServer' /\ TypeEnv'
  <2>1. pc' \in [Workers -> Places]
    BY Zenon, <1>1, <1>00, <1>000 DEF Begin
  <2>2. kind \in AllKinds /\ current \in Revisions \cup {None}
    BY Zenon, <1>0, StacksAssumption DEF TypeDb
  <2>3. [kind |-> kind, rev |-> rev, from |-> current] \in Requests
    BY <2>2 DEF Requests
  <2>4. TypeCall'
    BY Zenon, <1>0, <1>1, <2>3 DEF Begin, TypeCall
  <2> QED BY Zenon, <1>1, <1>a, <1>c, <1>d, <1>e, <2>1, <2>4 DEF Begin
<1>2. ASSUME NEW o \in Calls, TimeOut(o) PROVE TypeDb' /\ TypeCall' /\ TypeServer' /\ TypeEnv'
  <2>1. pc' \in [Workers -> Places] /\ budget' \in [Faults -> Nat]
    BY Zenon, <1>0, <1>2, <1>00, <1>000, SpendType DEF TimeOut
  <2> QED BY Zenon, <1>2, <1>a, <1>b, <1>c, <1>d, <1>e, <2>1 DEF TimeOut
<1>3. ASSUME NEW o \in Calls, Reply(o) PROVE TypeDb' /\ TypeCall' /\ TypeServer' /\ TypeEnv'
  <2>1. pc' \in [Workers -> Places]
    BY Zenon, <1>0, <1>3, <1>00, <1>000, AbandonedType DEF Reply
  <2>2. job' \in [Calls -> Jobs] /\ connected' \in BOOLEAN
    BY Zenon, <1>0, <1>3, <1>e, CutType, Nothings DEF Reply
  <2> QED BY Zenon, <1>3, <1>a, <1>b, <1>c, <1>d, <1>e, <2>1, <2>2 DEF Reply
<1>4. ASSUME NEW o \in Calls, ReplyLost(o) PROVE TypeDb' /\ TypeCall' /\ TypeServer' /\ TypeEnv'
  <2>1. job' \in [Calls -> Jobs]
    BY Zenon, <1>4, <1>e, Nothings DEF ReplyLost
  <2> QED BY Zenon, <1>4, <1>a, <1>b, <1>c, <1>d, <1>e, <2>1 DEF ReplyLost, server
<1>5. CASE Disconnect \/ AgentRestart
  <2>1. pc' \in [Workers -> Places] /\ connected' \in BOOLEAN
    BY Zenon, <1>0, <1>5, AbandonedType DEF Disconnect, AgentRestart
  <2>2. budget' \in [Faults -> Nat]
    BY Zenon, <1>0, <1>5, SpendType DEF Disconnect, AgentRestart
  <2>3. job' \in [Calls -> Jobs]
    BY Zenon, <1>0, <1>5, CutType, Nothings DEF Disconnect, AgentRestart
  <2> QED BY Zenon, <1>5, <1>a, <1>b, <1>c, <1>d, <2>1, <2>2, <2>3 DEF Disconnect, AgentRestart
<1>6. CASE Reconnect
  <2>1. connected' \in BOOLEAN
    BY Zenon, <1>6 DEF Reconnect
  <2> QED BY Zenon, <1>6, <1>a, <1>b, <1>c, <1>d, <1>e, <2>1 DEF Reconnect, server
<1>7. CASE ServerRestart
  <2>1. budget' \in [Faults -> Nat] /\ connected' \in BOOLEAN
    BY Zenon, <1>0, <1>7, SpendType DEF ServerRestart
  <2>2. job' \in [Calls -> Jobs]
    BY Zenon, <1>0, <1>7, CutType DEF ServerRestart
  <2>3. TypeServer'
    BY Zenon, <1>7, <1>000, Nothings DEF ServerRestart, TypeServer
  <2> QED BY Zenon, <1>7, <1>a, <1>b, <1>d, <2>1, <2>2, <2>3 DEF ServerRestart
<1> QED BY Zenon, <1>1, <1>2, <1>3, <1>4, <1>5, <1>6, <1>7

(* Every step keeps the types.                                                *)
LEMMA TypeStep ==
  ASSUME TypeOK, Known, [Next]_vars PROVE TypeOK'
<1>0. TypeDb /\ TypeCall /\ TypeServer /\ TypeEnv
  BY Zenon, TypeParts
<1>1. ASSUME UNCHANGED <<db, call, server, connected>>, TypeEnv' PROVE TypeOK'
  <2>1. TypeDb' /\ TypeCall' /\ TypeServer'
    BY Zenon, <1>0, <1>1 DEF db, stackRow, call, server, TypeDb, TypeCall, TypeServer
  <2> QED BY Zenon, <1>1, <2>1, TypePartsNext
<1>2. ASSUME TypeDb' /\ TypeCall' /\ TypeServer' /\ TypeEnv' PROVE TypeOK'
  BY Zenon, <1>2, TypePartsNext
<1>3. CASE UNCHANGED vars
  <2>1. TypeEnv' /\ UNCHANGED <<db, call, server, connected>>
    BY Zenon, <1>0, <1>3 DEF vars, TypeEnv
  <2> QED BY Zenon, <1>1, <2>1
<1>4. ASSUME NEW o \in Calls, Handler(o) \/ Call(o) PROVE TypeOK'
  BY Zenon, <1>1, <1>2, <1>4, HandlerType, CallType
<1>5. ASSUME NEW w \in Workers, Pass(w) \/ (w \in Runners /\ Recovery(w)) PROVE TypeOK'
  BY Zenon, <1>2, <1>5, PassRunType
<1>6. Runners \subseteq Workers
  BY Zenon DEF Workers
<1> QED BY Zenon, <1>2, <1>3, <1>4, <1>5, <1>6, RestType DEF Next

-----------------------------------------------------------------------------
(* A call that has begun keeps what it asked for, and does not begin again.   *)
LEMMA AskedFrame ==
  ASSUME TypeOK, [Next]_vars, NEW o \in Calls, pc[o] # "idle"
  PROVE  req'[o] = req[o] /\ pc'[o] # "idle"
<1> USE DEF call, server
<1>0. pc \in [Workers -> Places] /\ req \in [Calls -> Requests] /\ o \in Workers
        /\ o \notin Runners
  BY Zenon, TypeParts, StacksAssumption DEF TypeServer, TypeCall, Workers
<1>1. ASSUME NEW w \in Workers, NEW l \in Places, Goto(w, l), w # o \/ l # "idle"
      PROVE  pc'[o] # "idle"
  BY Zenon, <1>0, <1>1 DEF Goto
<1>2. /\ "guard" \in Places /\ "lock" \in Places /\ "prepare" \in Places /\ "dispatch" \in Places
      /\ "waiting" \in Places /\ "unknown" \in Places /\ "settle" \in Places /\ "done" \in Places
      /\ "resync" \in Places /\ "sync" \in Places /\ "reread" \in Places /\ "recover" \in Places
      /\ "record" \in Places /\ "idle" \in Places
      /\ "guard" # "idle" /\ "lock" # "idle" /\ "prepare" # "idle" /\ "dispatch" # "idle"
      /\ "waiting" # "idle" /\ "unknown" # "idle" /\ "settle" # "idle" /\ "done" # "idle"
      /\ "resync" # "idle"
  BY DEF Places
<1>3. ASSUME NEW p \in Calls, NEW k \in Kinds, NEW r \in Revisions \cup {None}, Begin(p, k, r)
      PROVE  req'[o] = req[o] /\ pc'[o] # "idle"
  <2>1. p # o
    BY Zenon, <1>3 DEF Begin
  <2> QED BY Zenon, <1>0, <1>3, <2>1 DEF Begin, Goto, Workers
<1>4. ASSUME NEW p \in Calls, Call(p) PROVE req'[o] = req[o] /\ pc'[o] # "idle"
  <2>1. UNCHANGED req /\ p \in Workers
    BY Zenon, <1>4 DEF Call, Guard, Acquire, Refused, prepareDeploy, prepareOperation,
       deleteNeverDeployed, Dispatch, AuditFails, interrupted, observe, settle, Workers
  <2>2. \E l \in Places : l # "idle" /\ Goto(p, l)
    BY Zenon, <1>2, <1>4 DEF Call, Guard, Acquire, Refused, prepareDeploy, prepareOperation,
       deleteNeverDeployed, Dispatch, AuditFails, interrupted, observe, settle
  <2> QED BY Zenon, <1>1, <2>1, <2>2
<1>5. ASSUME NEW p \in Calls, TimeOut(p) PROVE req'[o] = req[o] /\ pc'[o] # "idle"
  BY Zenon, <1>1, <1>2, <1>5 DEF TimeOut, Workers
<1>6. pc' = Abandoned => pc'[o] # "idle"
  BY Zenon, <1>0, <1>2 DEF Abandoned
<1>7. ASSUME NEW p \in Calls, Reply(p) PROVE req'[o] = req[o] /\ pc'[o] # "idle"
  BY Zenon, <1>1, <1>2, <1>6, <1>7 DEF Reply, Workers
<1>8. ASSUME NEW p \in Calls, Handler(p) PROVE UNCHANGED <<req, pc>>
  BY Zenon, <1>8 DEF Handler, handleRequest, refuse, stageAside, Retire, undo, startService,
     stopServices, startServices, RemoveStack, incomplete, Agent
<1>9. ASSUME NEW w \in Workers, Pass(w) PROVE UNCHANGED <<req, pc>>
  BY Zenon, <1>9 DEF Pass, PassRead, PassFails, PassApply
<1>10. ASSUME NEW w \in Runners, Recovery(w) PROVE req'[o] = req[o] /\ pc'[o] # "idle"
  <2>1. UNCHANGED req /\ w \in Workers /\ w # o
    BY Zenon, <1>0, <1>10 DEF Recovery, Run, recoverHost, readCompletely, RunEnds, NextAttempt,
       recordRecovered, Workers
  <2>2. UNCHANGED pc \/ \E l \in Places : Goto(w, l)
    BY Zenon, <1>2, <1>10 DEF Recovery, Run, recoverHost, readCompletely, RunEnds, NextAttempt,
       recordRecovered
  <2>3. CASE UNCHANGED pc
    BY <2>1, <2>3
  <2>4. ASSUME NEW l \in Places, Goto(w, l) PROVE pc'[o] # "idle"
    BY Zenon, <1>1, <2>1, <2>4
  <2> QED BY Zenon, <2>1, <2>2, <2>3, <2>4
<1>11. CASE Disconnect \/ AgentRestart
  BY Zenon, <1>6, <1>11 DEF Disconnect, AgentRestart
<1>12. CASE Reconnect
  BY Zenon, <1>12 DEF Reconnect
<1>13. CASE ServerRestart
  BY Zenon, <1>0, <1>2, <1>13 DEF ServerRestart
<1>14. ASSUME NEW p \in Calls, ReplyLost(p) PROVE UNCHANGED <<req, pc>>
  BY Zenon, <1>14 DEF ReplyLost
<1>15. CASE UNCHANGED vars
  BY Zenon, <1>15 DEF vars
<1> QED BY Zenon, <1>3, <1>4, <1>5, <1>7, <1>8, <1>9, <1>10, <1>11, <1>12, <1>13, <1>14, <1>15
           DEF Next

(* A row of an attempt is written by the preparation of its call, which names *)
(* the identities of a deployment's services; it is then never unwritten.     *)
LEMMA AttFrame ==
  ASSUME TypeOK, Known, [Next]_vars, NEW o \in Calls
  PROVE  \/ prepareDeploy(o) \/ prepareOperation(o)
         \/ plan'[o] = plan[o] /\ (att'[o] = "none" <=> att[o] = "none")
<1> USE DEF db, call, server
<1> DEFINE Same == plan'[o] = plan[o] /\ (att'[o] = "none" <=> att[o] = "none")
<1>0. /\ att \in [Calls -> Attempts] /\ plan \in [Calls -> [Services -> Identities \cup {None}]]
  BY Zenon, TypeParts DEF TypeDb, TypeCall
<1>1. ASSUME NEW p \in Calls, att[p] # "none", NEW st, st # "none", Resolve(p, st)
      PROVE  att'[o] = "none" <=> att[o] = "none"
  BY <1>0, <1>1 DEF Resolve
<1>2. purge => (att'[o] = "none" <=> att[o] = "none")
  BY <1>0 DEF purge
<1>3. ASSUME NEW p \in Calls, att[p] # "none", NEW v, NEW owner, Record(p, v, owner)
      PROVE  att'[o] = "none" <=> att[o] = "none"
  <2>1. "succeeded" # "none" /\ "failed" # "none" /\ "rolled_back" # "none"
          /\ "needs_attention" # "none"
    OBVIOUS
  <2>2. purge \/ \E st : st # "none" /\ Resolve(p, st)
    BY Zenon, <1>3, <2>1 DEF Record, recordDeployment, recordOperation, recordDeletion
  <2> QED BY Zenon, <1>1, <1>2, <1>3, <2>2
<1>4. ASSUME NEW p \in Calls, prepareDeploy(p) \/ prepareOperation(p), p # o PROVE Same
  BY Zenon, <1>0, <1>4 DEF prepareDeploy, prepareOperation
<1>5. ASSUME NEW p \in Calls, deleteNeverDeployed(p) PROVE Same
  BY Zenon, <1>2, <1>5 DEF deleteNeverDeployed
<1>6. ASSUME NEW p \in Calls, interrupted(p) PROVE Same
  <2>1. pc[p] \in Tracked
    BY <1>6 DEF interrupted, Tracked
  <2>2. att[p] # "none"
    BY Zenon, <2>1 DEF Known
  <2>3. Resolve(p, "interrupted") /\ "interrupted" # "none"
    BY <1>6 DEF interrupted, Resolve
  <2> QED BY Zenon, <1>1, <1>6, <2>2, <2>3 DEF interrupted
<1>7. ASSUME NEW p \in Calls, settle(p) PROVE Same
  <2>1. pc[p] \in Tracked
    BY <1>7 DEF settle, Tracked
  <2> QED BY Zenon, <1>3, <1>7, <2>1 DEF Known, settle
<1>8. ASSUME NEW p \in Calls, \/ Guard(p) \/ Acquire(p) \/ Refused(p) \/ Dispatch(p)
                              \/ AuditFails(p) \/ observe(p) \/ TimeOut(p) \/ Reply(p)
                              \/ ReplyLost(p)
      PROVE  UNCHANGED <<plan, att>>
  BY Zenon, <1>8
     DEF Guard, Acquire, Refused, Dispatch, AuditFails, observe, TimeOut, Reply, ReplyLost
<1>9. ASSUME NEW p \in Calls, Handler(p) PROVE UNCHANGED <<plan, att>>
  BY Zenon, <1>9 DEF Handler, handleRequest, refuse, stageAside, Retire, undo, startService,
     stopServices, startServices, RemoveStack, incomplete, Agent
<1>10. ASSUME NEW w \in Workers, Pass(w) PROVE UNCHANGED <<plan, att>>
  BY Zenon, <1>10 DEF Pass, PassRead, PassFails, PassApply
<1>11. ASSUME NEW w \in Runners, Recovery(w) PROVE Same
  <2>1. CASE recordRecovered(w)
    BY Zenon, <1>3, <2>1 DEF recordRecovered, Known
  <2>2. CASE ~recordRecovered(w)
    BY Zenon, <1>11, <2>2 DEF Recovery, Run, recoverHost, readCompletely, RunEnds, NextAttempt
  <2> QED BY Zenon, <2>1, <2>2
<1>12. CASE \/ Disconnect \/ AgentRestart \/ Reconnect \/ ServerRestart \/ UNCHANGED vars
            \/ \E p \in Calls, k \in Kinds, r \in Revisions \cup {None} : Begin(p, k, r)
  BY Zenon, <1>12 DEF Disconnect, AgentRestart, Reconnect, ServerRestart, Begin, vars
<1>13. ASSUME NEW p \in Calls, Call(p) PROVE prepareDeploy(o) \/ prepareOperation(o) \/ Same
  BY Zenon, <1>4, <1>5, <1>6, <1>7, <1>8, <1>13 DEF Call
<1> QED BY Zenon, <1>8, <1>9, <1>10, <1>11, <1>12, <1>13 DEF Next

(* A handler is set off by the dispatch of its call.  While it stages or      *)
(* starts, what it has still to start only shrinks.                           *)
LEMMA JobFrame ==
  ASSUME TypeOK, Known, [Next]_vars, NEW o \in Calls
  PROVE  /\ job'[o].st # "no" => job[o].st # "no" \/ pc[o] = "dispatch"
         /\ job'[o].st \in {"stage", "start"} =>
              \/ job[o].st \in {"stage", "start"} /\ job'[o].left \subseteq job[o].left
              \/ IsDeployment(o) /\ job'[o].left = Expected(o) /\ job[o].st = "wire"
<1> USE DEF server
<1> DEFINE Moves == /\ job'[o].st # "no" => job[o].st # "no" \/ pc[o] = "dispatch"
                    /\ job'[o].st \in {"stage", "start"} =>
                         \/ job[o].st \in {"stage", "start"} /\ job'[o].left \subseteq job[o].left
                         \/ IsDeployment(o) /\ job'[o].left = Expected(o) /\ job[o].st = "wire"
<1>0. job \in [Calls -> Jobs] /\ NoJob.st = "no"
  BY TypeParts DEF TypeEnv, NoJob
<1>1. ASSUME job'[o] = job[o] \/ job'[o].st = "no" PROVE Moves
  BY <1>1
<1>2. ASSUME NEW p \in Calls, NEW st, NEW aside, NEW left, JobTo(p, st, aside, left)
      PROVE  /\ p # o => job'[o] = job[o]
             /\ p = o => job'[o].st = st /\ job'[o].left = left
  BY <1>0, <1>2 DEF JobTo
<1>3. ASSUME NEW p \in Calls, Handler(p) PROVE Moves
  <2>1. CASE UNCHANGED job
    BY Zenon, <1>1, <2>1
  <2>2. CASE \E st, aside, left : JobTo(p, st, aside, left) /\ p # o
    BY Zenon, <1>1, <1>2, <2>2
  <2>3. CASE p = o /\ \E st, aside, left : JobTo(p, st, aside, left) /\ st \notin {"stage", "start"}
    <3>1. job[o].st # "no"
      BY ZenonT(60), <1>3, <2>3
         DEF Handler, handleRequest, refuse, stageAside, Retire, undo, startService,
         stopServices, startServices, RemoveStack, incomplete
    <3> QED BY ZenonT(60), <1>2, <2>3, <3>1
  <2>4. CASE p = o /\ handleRequest(o)
    <3>1. job[o].st = "wire" /\ job'[o].left = Expected(o) /\ job'[o].st = FirstPhase[req[o].kind]
      BY Zenon, <1>2, <2>4 DEF handleRequest
    <3>2. FirstPhase[req[o].kind] \in {"stage", "start"} => IsDeployment(o)
      <4>0. job[o].st # "no"
        BY <3>1
      <4>1. req[o].kind \in AllKinds
        BY Zenon, <4>0 DEF Known
      <4> QED BY <4>1 DEF FirstPhase, AllKinds, IsDeployment
    <3> QED BY <3>1, <3>2
  <2>5. CASE p = o /\ stageAside(o)
    <3>1. job[o].st = "stage"
      BY Zenon, <2>5 DEF stageAside
    <3>2. \E st, aside : JobTo(o, st, aside, job[o].left)
      BY Zenon, <2>5 DEF stageAside
    <3>3. job'[o].left = job[o].left
      <4>1. ASSUME NEW st, NEW aside, JobTo(o, st, aside, job[o].left)
            PROVE  job'[o].left = job[o].left
        BY <1>2, <4>1
      <4> QED BY Zenon, <3>2, <4>1
    <3> QED BY <3>1, <3>3
  <2>6. ASSUME p = o, NEW s \in Services, startService(o, s) PROVE Moves
    <3>1. job[o].st = "start"
      BY Zenon, <2>6 DEF startService
    <3>2. UNCHANGED job \/ \E st, aside : JobTo(o, st, aside, job[o].left \ {s})
      BY Zenon, <2>6 DEF startService
    <3>3. ASSUME NEW st, NEW aside, JobTo(o, st, aside, job[o].left \ {s})
          PROVE  job'[o].left = job[o].left \ {s}
      BY Zenon, <1>2, <3>3
    <3>4. CASE job'[o].left = job[o].left \ {s}
      BY <3>1, <3>4
    <3> QED BY Zenon, <1>1, <3>2, <3>3, <3>4
  <2>7. "reply" \notin {"stage", "start"} /\ "retire" \notin {"stage", "start"}
          /\ "down" \notin {"stage", "start"} /\ "up" \notin {"stage", "start"}
          /\ "remove" \notin {"stage", "start"}
    OBVIOUS
  <2>8. \/ UNCHANGED job
        \/ \E st, aside, left : JobTo(p, st, aside, left)
    BY Zenon, <1>3 DEF Handler, handleRequest, refuse, stageAside, Retire, undo, startService,
       stopServices, startServices, RemoveStack, incomplete, Replying
  <2>9. ASSUME ~handleRequest(p), ~stageAside(p), \A s \in Services : ~startService(p, s)
        PROVE  \/ UNCHANGED job
               \/ \E st, aside, left : JobTo(p, st, aside, left) /\ st \notin {"stage", "start"}
    BY Zenon, <1>3, <2>7, <2>9 DEF Handler, refuse, Retire, undo,
       stopServices, startServices, RemoveStack, incomplete, Replying
  <2> QED BY Zenon, <2>1, <2>2, <2>3, <2>4, <2>5, <2>6, <2>8, <2>9
<1>4. ASSUME NEW p \in Calls, Dispatch(p) PROVE Moves
  <2>1. CASE UNCHANGED job \/ p # o
    BY Zenon, <1>0, <1>1, <1>4, <2>1 DEF Dispatch
  <2>2. CASE p = o /\ job' = [job EXCEPT ![o] = [NoJob EXCEPT !.st = "wire"]]
    <3>1. job'[o].st = "wire" /\ pc[o] = "dispatch"
      BY <1>0, <1>4, <2>2 DEF Dispatch, NoJob
    <3> QED BY <3>1
  <2> QED BY Zenon, <1>4, <2>1, <2>2 DEF Dispatch
<1>5. ASSUME NEW p \in Calls, \/ Guard(p) \/ Acquire(p) \/ Refused(p) \/ prepareDeploy(p)
                              \/ prepareOperation(p) \/ deleteNeverDeployed(p) \/ AuditFails(p)
                              \/ interrupted(p) \/ observe(p) \/ settle(p) \/ TimeOut(p)
      PROVE  UNCHANGED job
  BY Zenon, <1>5 DEF Guard, Acquire, Refused, prepareDeploy, prepareOperation, deleteNeverDeployed,
     AuditFails, interrupted, observe, settle, TimeOut
<1>6. job' = Cut(job) => job'[o] = job[o] \/ job'[o].st = "no"
  BY Zenon, <1>0 DEF Cut
<1>7. ASSUME NEW p \in Calls, job' = [job EXCEPT ![p] = NoJob]
      PROVE  job'[o] = job[o] \/ job'[o].st = "no"
  BY Zenon, <1>0, <1>7
<1>8. ASSUME NEW p \in Calls, Reply(p) \/ ReplyLost(p) PROVE Moves
  BY Zenon, <1>1, <1>6, <1>7, <1>8 DEF Reply, ReplyLost
<1>9. CASE Disconnect \/ AgentRestart \/ ServerRestart \/ Reconnect
  <2>1. job' = [p \in Calls |-> NoJob] => job'[o].st = "no"
    BY Zenon, <1>0
  <2> QED BY Zenon, <1>1, <1>6, <1>9, <2>1 DEF Disconnect, AgentRestart, ServerRestart, Reconnect
<1>10. ASSUME NEW w \in Workers, Pass(w) \/ Recovery(w) PROVE UNCHANGED job
  BY Zenon, <1>10 DEF Pass, PassRead, PassFails, PassApply, Recovery, Run, recoverHost,
     readCompletely, RunEnds, NextAttempt, recordRecovered
<1>11. CASE \/ \E p \in Calls, k \in Kinds, r \in Revisions \cup {None} : Begin(p, k, r)
            \/ UNCHANGED vars
  BY Zenon, <1>1, <1>11 DEF Begin, vars
<1>12. ASSUME NEW p \in Calls, Call(p) PROVE Moves
  BY Zenon, <1>1, <1>4, <1>5, <1>12 DEF Call
<1>13. Runners \subseteq Workers
  BY Zenon DEF Workers
<1> QED BY Zenon, <1>1, <1>3, <1>5, <1>8, <1>9, <1>10, <1>11, <1>12, <1>13 DEF Next

(* What a run has still to look at, and what it is about to record, is what   *)
(* was open.                                                                  *)
LEMMA RunFrame ==
  ASSUME TypeOK, [Next]_vars, NEW w \in Runners
  PROVE  /\ todo'[w] \subseteq todo[w] \/ todo'[w] = unfinished
         /\ pc'[w] = "record" =>
              \/ pc[w] = "record" /\ verdict'[w] = verdict[w]
              \/ verdict'[w].op \in todo[w]
<1> USE DEF server
<1> DEFINE Moves == /\ todo'[w] \subseteq todo[w] \/ todo'[w] = unfinished
                    /\ pc'[w] = "record" =>
                         \/ pc[w] = "record" /\ verdict'[w] = verdict[w]
                         \/ verdict'[w].op \in todo[w]
<1>0. /\ pc \in [Workers -> Places] /\ todo \in [Runners -> SUBSET Calls] /\ w \in Workers
      /\ verdict \in [Workers -> Verdicts] /\ w \notin Calls /\ Calls \subseteq Workers
      /\ Runners \subseteq Workers
  BY Zenon, TypeParts, StacksAssumption DEF TypeServer, Workers
<1>1. ASSUME todo'[w] = todo[w], pc'[w] = pc[w], verdict'[w] = verdict[w] PROVE Moves
  BY Zenon, <1>1
<1>2. ASSUME todo'[w] \subseteq todo[w], pc'[w] # "record" PROVE Moves
  BY Zenon, <1>2
<1>3. ASSUME NEW p \in Workers, NEW l, Goto(p, l)
      PROVE  (p # w => pc'[w] = pc[w]) /\ (p = w => pc'[w] = l)
  BY Zenon, <1>0, <1>3 DEF Goto
<1>4. \A p \in Calls : p # w /\ p \in Workers
  BY Zenon, <1>0
<1>5. ASSUME NEW p \in Calls, \/ \E k \in Kinds, r \in Revisions \cup {None} : Begin(p, k, r)
                              \/ Call(p) \/ TimeOut(p)
      PROVE  Moves
  <2>1. \E l : Goto(p, l)
    BY Zenon, <1>5 DEF Begin, Call, Guard, Acquire, Refused, prepareDeploy, prepareOperation,
       deleteNeverDeployed, Dispatch, AuditFails, interrupted, observe, settle, TimeOut
  <2>2. todo' = todo
    BY Zenon, <1>5 DEF Begin, Call, Guard, Acquire, Refused, prepareDeploy, prepareOperation,
       deleteNeverDeployed, Dispatch, AuditFails, interrupted, observe, settle, TimeOut
  <2>3. verdict'[w] = verdict[w]
    BY Zenon, <1>0, <1>4, <1>5 DEF Begin, Call, Guard, Acquire, Refused, prepareDeploy,
       prepareOperation, deleteNeverDeployed, Dispatch, AuditFails, interrupted, observe, settle,
       TimeOut
  <2> QED BY Zenon, <1>1, <1>3, <1>4, <2>1, <2>2, <2>3
<1>6. ASSUME NEW p \in Workers, Pass(p) PROVE UNCHANGED <<pc, todo, verdict>>
  BY Zenon, <1>6 DEF Pass, PassRead, PassFails, PassApply
<1>7. ASSUME NEW p \in Calls, Handler(p) \/ ReplyLost(p) PROVE UNCHANGED <<pc, todo, verdict>>
  BY Zenon, <1>7 DEF Handler, handleRequest, refuse, stageAside, Retire, undo, startService,
     stopServices, startServices, RemoveStack, incomplete, Agent, ReplyLost
<1>8. ASSUME pc' = Abandoned, UNCHANGED <<todo, verdict>> PROVE Moves
  <2>1. pc'[w] = pc[w] \/ pc'[w] = "unknown"
    BY Zenon, <1>0, <1>8 DEF Abandoned
  <2>2. "unknown" # "record"
    OBVIOUS
  <2> QED BY Zenon, <1>1, <1>2, <1>8, <2>1, <2>2
<1>9. ASSUME NEW p \in Calls, Reply(p) PROVE Moves
  <2>1. CASE Goto(p, "resync")
    <3>1. pc'[w] = pc[w]
      BY Zenon, <1>3, <1>4, <2>1
    <3> QED BY Zenon, <1>1, <1>9, <3>1 DEF Reply
  <2> QED BY Zenon, <1>8, <1>9, <2>1 DEF Reply
<1>10. CASE Disconnect \/ AgentRestart
  BY Zenon, <1>8, <1>10 DEF Disconnect, AgentRestart
<1>11. CASE ServerRestart
  <2>1. pc'[w] = "idle" /\ todo'[w] = {} /\ "idle" # "record"
    BY <1>0, <1>11 DEF ServerRestart
  <2> QED BY Zenon, <1>2, <2>1
<1>12. CASE Reconnect \/ UNCHANGED vars
  BY Zenon, <1>1, <1>12 DEF Reconnect, vars
<1>13. ASSUME NEW p \in Runners, p # w, Recovery(p) PROVE Moves
  <2>1. todo'[w] = todo[w]
    BY Zenon, <1>0, <1>13 DEF Recovery, Run, recoverHost, readCompletely, RunEnds, NextAttempt,
       recordRecovered
  <2>2. verdict'[w] = verdict[w]
    BY Zenon, <1>0, <1>13 DEF Recovery, Run, recoverHost, readCompletely, RunEnds, NextAttempt,
       recordRecovered
  <2>3. UNCHANGED pc \/ \E l : Goto(p, l)
    BY Zenon, <1>13 DEF Recovery, Run, recoverHost, readCompletely, RunEnds, NextAttempt,
       recordRecovered
  <2>4. ASSUME NEW l, Goto(p, l) PROVE pc'[w] = pc[w]
    BY Zenon, <1>0, <1>3, <1>13, <2>4
  <2> QED BY Zenon, <1>1, <2>1, <2>2, <2>3, <2>4
<1>14. CASE Run(w) \/ RunEnds(w) \/ recordRecovered(w)
  <2>1. "sync" # "record" /\ "idle" # "record" /\ "recover" # "record"
    OBVIOUS
  <2>2. pc'[w] # "record"
    BY Zenon, <1>0, <1>3, <1>14, <2>1 DEF Run, RunEnds, recordRecovered
  <2> QED BY Zenon, <1>2, <1>14, <2>2 DEF Run, RunEnds, recordRecovered
<1>15. CASE recoverHost(w) \/ readCompletely(w)
  <2>1. "reread" # "record" /\ "idle" # "record" /\ "recover" # "record"
    OBVIOUS
  <2>2. pc'[w] # "record"
    BY Zenon, <1>0, <1>3, <1>15, <2>1 DEF recoverHost, readCompletely
  <2>3. todo'[w] = todo[w] \/ todo'[w] = {} \/ todo'[w] = unfinished
    BY Zenon, <1>0, <1>15 DEF recoverHost, readCompletely
  <2> QED BY Zenon, <2>2, <2>3
<1>16. ASSUME NEW o \in Calls, NextAttempt(w, o) PROVE Moves
  <2>1. todo'[w] \subseteq todo[w] /\ o \in todo[w] /\ pc[w] = "recover" /\ "recover" # "record"
    BY <1>0, <1>16 DEF NextAttempt
  <2>2. CASE UNCHANGED <<verdict, pc>>
    BY Zenon, <1>2, <2>1, <2>2
  <2>3. ASSUME NEW v, verdict' = [verdict EXCEPT ![w] = [op |-> o, kind |-> v]] PROVE Moves
    <3>1. verdict'[w].op = o
      BY <1>0, <2>3
    <3> QED BY Zenon, <2>1, <3>1
  <2> QED BY Zenon, <1>16, <2>2, <2>3 DEF NextAttempt
<1>17. ASSUME NEW p \in Runners, Recovery(p) PROVE Moves
  BY Zenon, <1>13, <1>14, <1>15, <1>16, <1>17 DEF Recovery
<1> QED BY Zenon, <1>1, <1>5, <1>6, <1>7, <1>9, <1>10, <1>11, <1>12, <1>17 DEF Next

(* A call is dispatched, waits or settles only once it is prepared.           *)
LEMMA PlaceFrame ==
  ASSUME TypeOK, [Next]_vars, NEW o \in Calls, pc'[o] \in Tracked
  PROVE  pc[o] \in Tracked \/ prepareDeploy(o) \/ prepareOperation(o)
<1> USE DEF server
<1> DEFINE Moves == pc[o] \in Tracked \/ prepareDeploy(o) \/ prepareOperation(o)
<1>0. /\ pc \in [Workers -> Places] /\ o \in Workers /\ o \notin Runners
      /\ Calls \subseteq Workers /\ Runners \subseteq Workers
  BY Zenon, TypeParts, StacksAssumption DEF TypeServer, Workers
<1>1. /\ "idle" \notin Tracked /\ "guard" \notin Tracked /\ "lock" \notin Tracked
      /\ "prepare" \notin Tracked /\ "done" \notin Tracked
      /\ "dispatch" \in Tracked /\ "waiting" \in Tracked /\ "resync" \in Tracked
  BY DEF Tracked
<1>2. ASSUME NEW p \in Workers, NEW l, Goto(p, l)
      PROVE  (p # o => pc'[o] = pc[o]) /\ (p = o => pc'[o] = l)
  BY Zenon, <1>0, <1>2 DEF Goto
<1>3. ASSUME NEW p \in Workers, p # o, UNCHANGED pc \/ \E l : Goto(p, l) PROVE Moves
  BY Zenon, <1>2, <1>3
<1>4. ASSUME NEW p \in Calls, \/ \E k \in Kinds, r \in Revisions \cup {None} : Begin(p, k, r)
                              \/ Call(p) \/ TimeOut(p)
      PROVE  Moves
  <2>1. CASE p # o
    BY Zenon, <1>0, <1>3, <1>4, <2>1
       DEF Begin, Call, Guard, Acquire, Refused, prepareDeploy, prepareOperation,
           deleteNeverDeployed, Dispatch, AuditFails, interrupted, observe, settle, TimeOut
  <2>2. ASSUME NEW l, Goto(o, l) PROVE l \in Tracked
    BY Zenon, <1>0, <1>2, <2>2
  <2>3. ~\E k \in Kinds, r \in Revisions \cup {None} : Begin(o, k, r)
    BY Zenon, <1>1, <2>2 DEF Begin
  <2>4. ~(Guard(o) \/ Acquire(o) \/ Refused(o) \/ deleteNeverDeployed(o))
    BY Zenon, <1>1, <2>2 DEF Guard, Acquire, Refused, deleteNeverDeployed
  <2>5. ASSUME \/ Dispatch(o) \/ AuditFails(o) \/ interrupted(o) \/ observe(o) \/ settle(o)
               \/ TimeOut(o)
        PROVE  pc[o] \in Tracked
    BY ZenonT(60), <2>5 DEF Tracked, Dispatch, AuditFails, interrupted, observe, settle, TimeOut
  <2> QED BY Zenon, <1>4, <2>1, <2>3, <2>4, <2>5 DEF Call
<1>5. ASSUME pc' = Abandoned PROVE Moves
  BY Zenon, <1>0, <1>1, <1>5 DEF Abandoned
<1>6. ASSUME NEW p \in Calls, Reply(p) PROVE Moves
  BY Zenon, <1>0, <1>1, <1>3, <1>5, <1>6 DEF Reply
<1>7. ASSUME NEW p \in Calls, Handler(p) \/ ReplyLost(p) PROVE UNCHANGED pc
  BY Zenon, <1>7 DEF Handler, handleRequest, refuse, stageAside, Retire, undo, startService,
     stopServices, startServices, RemoveStack, incomplete, Agent, ReplyLost
<1>8. ASSUME NEW w \in Workers, Pass(w) PROVE UNCHANGED pc
  BY Zenon, <1>8 DEF Pass, PassRead, PassFails, PassApply
<1>9. ASSUME NEW w \in Runners, Recovery(w) PROVE Moves
  <2>1. w # o /\ w \in Workers
    BY Zenon, <1>0
  <2>2. UNCHANGED pc \/ \E l : Goto(w, l)
    BY Zenon, <1>9 DEF Recovery, Run, recoverHost, readCompletely, RunEnds, NextAttempt,
       recordRecovered
  <2> QED BY Zenon, <1>3, <2>1, <2>2
<1>10. CASE Disconnect \/ AgentRestart
  BY Zenon, <1>5, <1>10 DEF Disconnect, AgentRestart
<1>11. CASE ServerRestart
  BY Zenon, <1>0, <1>1, <1>11 DEF ServerRestart
<1>12. CASE Reconnect \/ UNCHANGED vars
  BY Zenon, <1>12 DEF Reconnect, vars
<1> QED BY Zenon, <1>4, <1>6, <1>7, <1>8, <1>9, <1>10, <1>11, <1>12 DEF Next

(* Every step keeps what is known of the calls.                               *)
LEMMA KnownStep ==
  ASSUME TypeOK, Known, [Next]_vars PROVE Known'
<1>0. /\ pc \in [Workers -> Places] /\ Calls \subseteq Workers /\ req \in [Calls -> Requests]
      /\ att \in [Calls -> Attempts]
      /\ plan \in [Calls -> [Services -> Identities \cup {None}]]
      /\ todo \in [Runners -> SUBSET Calls] /\ row \in [Services -> Rows]
  BY Zenon, TypeParts DEF TypeServer, TypeCall, TypeDb, Workers
<1>1. ASSUME NEW o \in Calls, pc[o] # "idle"
      PROVE  /\ req'[o] = req[o] /\ pc'[o] # "idle"
             /\ IsDeployment(o)' = IsDeployment(o) /\ About(o)' = About(o)
             /\ Expected(o)' = Expected(o)
  BY Zenon, <1>1, AskedFrame DEF IsDeployment, About, Expected
<1>2. ASSUME NEW o \in Calls, pc'[o] # "idle"
      PROVE  req'[o].kind \in AllKinds /\ (IsDeployment(o)' => req'[o].rev \in Revisions)
  <2>1. CASE pc[o] # "idle"
    BY Zenon, <1>1, <2>1 DEF Known
  <2>2. CASE pc[o] = "idle"
    <3>1. ASSUME ~\E k \in Kinds, r \in Revisions \cup {None} : Begin(o, k, r)
          PROVE  pc'[o] = "idle"
      <4> USE DEF server
      <4>0. o \in Workers /\ o \notin Runners /\ Runners \subseteq Workers
        BY Zenon, StacksAssumption DEF Workers
      <4>1. ASSUME NEW p \in Workers, p # o, UNCHANGED pc \/ \E l : Goto(p, l)
            PROVE  pc'[o] = "idle"
        BY Zenon, <1>0, <2>2, <4>0, <4>1 DEF Goto
      <4>2. ASSUME NEW p \in Calls, \/ \E k \in Kinds, r \in Revisions \cup {None} : Begin(p, k, r)
                                    \/ Call(p) \/ TimeOut(p)
            PROVE  pc'[o] = "idle"
        <5>1. p # o
          BY ZenonT(60), <2>2, <3>1, <4>2
             DEF Call, Guard, Acquire, Refused, prepareDeploy, prepareOperation,
                 deleteNeverDeployed, Dispatch, AuditFails, interrupted, observe, settle, TimeOut
        <5>2. \E l : Goto(p, l)
          BY Zenon, <4>2
             DEF Begin, Call, Guard, Acquire, Refused, prepareDeploy, prepareOperation,
                 deleteNeverDeployed, Dispatch, AuditFails, interrupted, observe, settle, TimeOut
        <5> QED BY ZenonT(60), <1>0, <4>1, <5>1, <5>2
      <4>3. pc' = Abandoned => pc'[o] = "idle"
        BY <1>0, <2>2, <4>0 DEF Abandoned
      <4>4. ASSUME NEW p \in Calls, Reply(p) PROVE pc'[o] = "idle"
        <5>1. CASE pc[p] = "waiting" /\ Goto(p, "resync")
          <6>1. p # o
            BY <2>2, <5>1
          <6> QED BY Zenon, <1>0, <4>1, <5>1, <6>1
        <5> QED BY Zenon, <4>3, <4>4, <5>1 DEF Reply
      <4>5. ASSUME NEW p \in Calls, Handler(p) \/ ReplyLost(p) PROVE UNCHANGED pc
        BY Zenon, <4>5 DEF Handler, handleRequest, refuse, stageAside, Retire, undo, startService,
           stopServices, startServices, RemoveStack, incomplete, Agent, ReplyLost
      <4>6. ASSUME NEW w \in Workers, Pass(w) PROVE UNCHANGED pc
        BY Zenon, <4>6 DEF Pass, PassRead, PassFails, PassApply
      <4>7. ASSUME NEW w \in Runners, Recovery(w) PROVE pc'[o] = "idle"
        <5>1. w # o /\ w \in Workers
          BY Zenon, <4>0
        <5>2. UNCHANGED pc \/ \E l : Goto(w, l)
          BY Zenon, <4>7 DEF Recovery, Run, recoverHost, readCompletely, RunEnds, NextAttempt,
             recordRecovered
        <5> QED BY Zenon, <4>1, <5>1, <5>2
      <4>8. CASE Disconnect \/ AgentRestart \/ Reconnect \/ ServerRestart \/ UNCHANGED vars
        BY Zenon, <2>2, <4>0, <4>3, <4>8
           DEF Disconnect, AgentRestart, Reconnect, ServerRestart, vars
      <4> QED BY Zenon, <2>2, <4>2, <4>4, <4>5, <4>6, <4>7, <4>8 DEF Next
    <3>2. PICK k \in Kinds, r \in Revisions \cup {None} : Begin(o, k, r)
      BY Zenon, <1>2, <3>1
    <3>3. req'[o] = [kind |-> k, rev |-> r, from |-> current]
      BY Zenon, <1>0, <3>2 DEF Begin
    <3>4. k \in AllKinds /\ (k = "deploy" => r \in Revisions)
      BY Zenon, <3>2, StacksAssumption DEF Begin
    <3> QED BY <3>3, <3>4 DEF IsDeployment
  <2> QED BY Zenon, <2>1, <2>2
<1>3. ASSUME NEW o \in Calls, prepareDeploy(o) \/ prepareOperation(o)
      PROVE  /\ pc[o] # "idle" /\ att'[o] = "running" /\ att'[o] # "none"
             /\ About(o) \in Revisions
             /\ IsDeployment(o) => \A s \in Expected(o) : plan'[o][s] \in Identities
  <2>1. pc[o] = "prepare" /\ pc[o] # "idle"
    BY <1>3 DEF prepareDeploy, prepareOperation
  <2>2. att'[o] = "running" /\ "running" # "none"
    BY <1>0, <1>3 DEF prepareDeploy, prepareOperation
  <2>3. About(o) \in Revisions
    <3>1. CASE prepareDeploy(o)
      BY Zenon, <2>1, <3>1 DEF prepareDeploy, About, Known
    <3>2. CASE prepareOperation(o)
      <4>1. req[o].from \in Revisions \cup {None}
        BY <1>0 DEF Requests
      <4> QED BY Zenon, <3>2, <4>1 DEF prepareOperation, About
    <3> QED BY Zenon, <1>3, <3>1, <3>2
  <2>4. ASSUME IsDeployment(o), NEW s \in Expected(o) PROVE plan'[o][s] \in Identities
    <3>1. prepareDeploy(o)
      BY Zenon, <1>3, <2>4 DEF prepareOperation
    <3>2. s \in Services
      BY Zenon, <2>3, StacksAssumption DEF About, Expected
    <3>3. plan'[o][s] = IF row[s] = NoRow THEN o ELSE row[s].id
      BY Zenon, <1>0, <3>1, <3>2 DEF prepareDeploy
    <3>4. row[s] \in Rows
      BY Zenon, <1>0, <3>2
    <3> QED BY <3>3, <3>4 DEF Rows, Identities, Deployers
  <2> QED BY Zenon, <2>1, <2>2, <2>3, <2>4
<1>4. ASSUME NEW o \in Calls, att[o] # "none" PROVE att'[o] # "none"
  BY Zenon, <1>3, <1>4, AttFrame
<1>5. ASSUME NEW o \in Calls, att'[o] # "none"
      PROVE  /\ pc'[o] # "idle" /\ About(o)' \in Revisions
             /\ IsDeployment(o)' => \A s \in Expected(o)' : plan'[o][s] \in Identities
  <2>1. CASE prepareDeploy(o) \/ prepareOperation(o)
    BY Zenon, <1>1, <1>3, <2>1
  <2>2. CASE plan'[o] = plan[o] /\ att[o] # "none"
    BY Zenon, <1>1, <2>2 DEF Known
  <2> QED BY Zenon, <1>5, <2>1, <2>2, AttFrame
<1>6. ASSUME NEW o \in Calls, pc'[o] \in Tracked \/ job'[o].st # "no" PROVE att'[o] # "none"
  <2>1. pc[o] = "dispatch" => pc[o] \in Tracked
    BY DEF Tracked
  <2>2. pc[o] \in Tracked \/ job[o].st # "no" \/ prepareDeploy(o) \/ prepareOperation(o)
    BY Zenon, <1>6, <2>1, PlaceFrame, JobFrame
  <2> QED BY Zenon, <1>3, <1>4, <2>2 DEF Known
<1>7. ASSUME NEW o \in Calls, job'[o].st \in {"stage", "start"}
      PROVE  IsDeployment(o)' /\ job'[o].left \subseteq Expected(o)'
  <2>1. \/ job[o].st \in {"stage", "start"} /\ job'[o].left \subseteq job[o].left
        \/ IsDeployment(o) /\ job'[o].left = Expected(o) /\ job[o].st = "wire"
    BY Zenon, <1>7, JobFrame
  <2>2. job[o].st # "no"
    BY <2>1
  <2>3. pc[o] # "idle"
    BY Zenon, <2>2 DEF Known
  <2>4. IsDeployment(o) /\ job'[o].left \subseteq Expected(o)
    BY Zenon, <2>1 DEF Known
  <2> QED BY Zenon, <1>1, <2>3, <2>4
<1>8. ASSUME NEW w \in Runners, NEW o \in todo'[w] PROVE att'[o] # "none"
  <2>1. o \in Calls /\ att[o] # "none"
    <3>1. CASE todo'[w] \subseteq todo[w]
      BY Zenon, <1>0, <3>1 DEF Known
    <3>2. CASE todo'[w] = unfinished
      BY <3>2 DEF unfinished, unresolved, Unresolved
    <3> QED BY Zenon, <3>1, <3>2, RunFrame
  <2> QED BY Zenon, <1>4, <2>1
<1>9. ASSUME NEW w \in Runners, pc'[w] = "record"
      PROVE  verdict'[w].op \in Calls /\ att'[verdict'[w].op] # "none"
  <2>1. verdict'[w].op \in Calls /\ att[verdict'[w].op] # "none"
    BY Zenon, <1>0, <1>9, RunFrame DEF Known
  <2> QED BY Zenon, <1>4, <2>1
<1> QED BY Zenon, <1>2, <1>5, <1>6, <1>7, <1>8, <1>9 DEF Known

(* A stack starts well typed, with nothing asked of it.                       *)
LEMMA InitTypeKnown == Init => TypeOK /\ Known
<1> SUFFICES ASSUME NEW start \in Starts, StartsFrom(start) PROVE TypeOK /\ Known
  BY Zenon DEF Init
<1> DEFINE built(s) == [svc |-> s, by |-> Genesis, id |-> Genesis, rev |-> start,
                        up |-> TRUE, since |-> Genesis]
           there == IF start = None THEN {} ELSE ServicesOf[start]
<1>0. /\ start \in Revisions \cup {None} /\ there \subseteq Services
      /\ start # None => start \in Revisions
  BY Zenon, StacksAssumption
<1>1. ASSUME NEW s \in there PROVE built(s) \in Container /\ RowOf(built(s), Genesis) \in Rows
  <2>1. s \in Services /\ start \in Revisions
    BY Zenon, <1>0
  <2>2. built(s) \in Container
    BY SMTT(60), <2>1 DEF Container, Deployers, Identities
  <2>3. RowOf(built(s), Genesis) \in Rows
    BY <2>1 DEF RowOf, DockerId, Rows, Identities, Deployers, DockerIds
  <2> QED BY Zenon, <2>2, <2>3
<1> HIDE DEF built
<1>2. NoRow \in Rows /\ "none" \in Attempts /\ "not_deployed" \in Statuses /\ "running" \in Statuses
        /\ "idle" \in Places
  BY DEF Rows, Attempts, Statuses, Places
<1>3. [docker |-> None, since |-> None] \in Marks
        /\ [kind |-> "none", rev |-> None, from |-> None] \in Requests
  BY DEF Marks, Requests
<1>4. row \in [Services -> Rows] /\ host \subseteq Container
  BY Zenon, <1>0, <1>1, <1>2 DEF StartsFrom, built
<1>5. TypeDb
  BY Zenon, <1>0, <1>2, <1>3, <1>4 DEF StartsFrom, TypeDb
<1>6. TypeCall
  BY Zenon, <1>3 DEF StartsFrom, TypeCall
<1>7. TypeServer
  BY Zenon, <1>2, Nothings DEF StartsFrom, TypeServer
<1>8. TypeEnv
  BY Zenon, <1>4, Nothings, StacksAssumption DEF StartsFrom, TypeEnv
<1>9. /\ \A o \in Calls : pc[o] = "idle" /\ att[o] = "none" /\ job[o] = NoJob
      /\ \A w \in Runners : pc[w] = "idle" /\ todo[w] = {}
  BY Zenon DEF StartsFrom, Workers
<1>10. NoJob.st = "no" /\ "idle" \notin Tracked /\ "no" \notin {"stage", "start"}
         /\ "idle" # "record"
  BY DEF NoJob, Tracked
<1> QED BY Zenon, <1>5, <1>6, <1>7, <1>8, <1>9, <1>10, TypeParts DEF Known

(* Every variable of the stack's record, of the control server, of the        *)
(* connection and of the host keeps its type, whatever is asked for and       *)
(* whatever fails; in particular whatever a call or recovery is about to      *)
(* record is one of the outcomes of the classifiers, and a container is       *)
(* always created under an identity its deployment allocated.                 *)
THEOREM TypeCorrect == Spec => []TypeOK
<1>1. TypeOK /\ Known /\ [Next]_vars => (TypeOK /\ Known)'
  BY Zenon, TypeStep, KnownStep
<1> QED BY <1>1, InitTypeKnown, PTL DEF Spec

-----------------------------------------------------------------------------
(* Who works on the host.  A call past its lock holds it; on a live           *)
(* connection a request is at the agent only while its call waits; with no    *)
(* connection no request is under way and nobody waits.                       *)

Holding == Tracked \cup {"prepare"}

Locked == \A o \in Calls : pc[o] \in Holding => held = o

Waited ==
  /\ \A o \in Calls : job[o].st # "no" /\ connected => pc[o] = "waiting"
  /\ \A o \in Calls : job[o].st = "wire" \/ pc[o] = "waiting" => connected

Alone == Locked /\ Waited /\ AgentJobsExclusive /\ budget["timeout"] = 0

(* The lock is taken when it is free and let go by a call that ends.          *)
LEMMA LockFrame ==
  ASSUME TypeOK, [Next]_vars, NEW o \in Calls, pc'[o] \in Holding
  PROVE  \/ held = None /\ held' = o
         \/ pc[o] \in Holding /\ UNCHANGED held
         \/ pc[o] \in Holding /\ \E p \in Calls : p # o /\ held = None /\ held' = p
         \/ pc[o] \in Holding /\ \E p \in Calls : p # o /\ pc[p] \in Holding
<1> USE DEF server
<1>0. /\ pc \in [Workers -> Places] /\ Calls \subseteq Workers /\ o \notin Runners
      /\ Runners \subseteq Workers
  BY Zenon, TypeParts, StacksAssumption DEF TypeServer, Workers
<1>1. /\ "done" \notin Holding /\ "guard" \notin Holding /\ "lock" \notin Holding
      /\ "idle" \notin Holding /\ "prepare" \in Holding /\ "dispatch" \in Holding
      /\ "unknown" \in Holding /\ "settle" \in Holding /\ "waiting" \in Holding
      /\ "resync" \in Holding
  BY DEF Holding, Tracked
<1>2. ASSUME NEW p \in Workers, NEW l, Goto(p, l)
      PROVE  (p # o => pc'[o] = pc[o]) /\ (p = o => pc'[o] = l)
  BY Zenon, <1>0, <1>2 DEF Goto
<1>3. ASSUME NEW p \in Calls, Acquire(p)
      PROVE  \/ held = None /\ held' = o
             \/ pc[o] \in Holding /\ UNCHANGED held
             \/ pc[o] \in Holding /\ \E q \in Calls : q # o /\ held = None /\ held' = q
  <2>0. p \in Workers
    BY Zenon, <1>0
  <2>1. CASE held = None /\ held' = p /\ Goto(p, "prepare")
    <3>1. p = o \/ pc'[o] = pc[o]
      BY Zenon, <1>2, <2>0, <2>1
    <3> QED BY Zenon, <2>1, <3>1
  <2>2. CASE UNCHANGED held /\ Goto(p, "done")
    <3>1. pc'[o] = "done" \/ pc'[o] = pc[o]
      BY Zenon, <1>2, <2>0, <2>2
    <3> QED BY Zenon, <1>1, <2>2, <3>1
  <2> QED BY Zenon, <1>3, <2>1, <2>2 DEF Acquire
<1>4. ASSUME NEW p \in Calls, pc[p] \in Holding, Goto(p, "done")
      PROVE  pc[o] \in Holding /\ \E q \in Calls : q # o /\ pc[q] \in Holding
  BY Zenon, <1>0, <1>1, <1>2, <1>4
<1>5. ASSUME NEW p \in Calls, \/ Refused(p) \/ deleteNeverDeployed(p) \/ AuditFails(p)
                              \/ interrupted(p) \/ settle(p)
      PROVE  pc[o] \in Holding /\ \E q \in Calls : q # o /\ pc[q] \in Holding
  BY Zenon, <1>1, <1>4, <1>5 DEF Refused, deleteNeverDeployed, AuditFails, interrupted, settle
<1>6. ASSUME NEW p \in Calls, \/ \E k \in Kinds, r \in Revisions \cup {None} : Begin(p, k, r)
                              \/ Guard(p)
      PROVE  pc[o] \in Holding /\ UNCHANGED held
  <2>1. UNCHANGED held /\ p \in Workers /\ \E l \in {"guard", "lock", "done"} : Goto(p, l)
    BY Zenon, <1>0, <1>6 DEF Begin, Guard
  <2>2. pc'[o] = pc[o] \/ pc'[o] \in {"guard", "lock", "done"}
    BY Zenon, <1>2, <2>1
  <2> QED BY Zenon, <1>1, <2>1, <2>2
<1>7. ASSUME NEW p \in Calls, \/ prepareDeploy(p) \/ prepareOperation(p) \/ Dispatch(p)
                              \/ observe(p) \/ TimeOut(p)
      PROVE  pc[o] \in Holding /\ UNCHANGED held
  <2>1. pc[p] \in Holding /\ \E l : Goto(p, l)
    BY Zenon, <1>1, <1>7 DEF prepareDeploy, prepareOperation, Dispatch, observe, TimeOut
  <2>2. UNCHANGED held
    BY Zenon, <1>7 DEF prepareDeploy, prepareOperation, Dispatch, observe, TimeOut
  <2> QED BY Zenon, <1>0, <1>2, <2>1, <2>2
<1>8. ASSUME pc' = Abandoned PROVE pc[o] \in Holding
  BY Zenon, <1>0, <1>1, <1>8 DEF Abandoned
<1>9. ASSUME NEW p \in Calls, Reply(p) PROVE pc[o] \in Holding /\ UNCHANGED held
  BY Zenon, <1>0, <1>1, <1>2, <1>8, <1>9 DEF Reply
<1>10. ASSUME NEW p \in Calls, Handler(p) \/ ReplyLost(p) PROVE UNCHANGED <<pc, held>>
  BY Zenon, <1>10 DEF Handler, handleRequest, refuse, stageAside, Retire, undo, startService,
     stopServices, startServices, RemoveStack, incomplete, Agent, ReplyLost
<1>11. ASSUME NEW w \in Workers, Pass(w) PROVE UNCHANGED <<pc, held>>
  BY Zenon, <1>11 DEF Pass, PassRead, PassFails, PassApply
<1>12. ASSUME NEW w \in Runners, Recovery(w) PROVE pc'[o] = pc[o] /\ UNCHANGED held
  <2>1. UNCHANGED pc \/ \E l : Goto(w, l)
    BY Zenon, <1>12 DEF Recovery, Run, recoverHost, readCompletely, RunEnds, NextAttempt,
       recordRecovered
  <2>2. UNCHANGED held
    BY Zenon, <1>12 DEF Recovery, Run, recoverHost, readCompletely, RunEnds, NextAttempt,
       recordRecovered
  <2> QED BY Zenon, <1>0, <1>2, <2>1, <2>2
<1>13. CASE Disconnect \/ AgentRestart
  BY Zenon, <1>8, <1>13 DEF Disconnect, AgentRestart
<1>14. CASE Reconnect \/ UNCHANGED vars
  BY Zenon, <1>14 DEF Reconnect, vars
<1>15. CASE ServerRestart
  BY Zenon, <1>0, <1>1, <1>15 DEF ServerRestart
<1> QED BY Zenon, <1>3, <1>5, <1>6, <1>7, <1>9, <1>10, <1>11, <1>12, <1>13, <1>14, <1>15
           DEF Next, Call

(* Every step leaves the lock with the call that is past it.                  *)
LEMMA LockedStep ==
  ASSUME TypeOK, Locked, [Next]_vars PROVE Locked'
<1> SUFFICES ASSUME NEW o \in Calls, pc'[o] \in Holding PROVE held' = o
  BY Zenon DEF Locked
<1>1. None \notin Calls
  BY Zenon, StacksAssumption
<1> QED BY Zenon, <1>1, LockFrame DEF Locked

(* A fault that is used up stays so.                                          *)
LEMMA BudgetStep ==
  ASSUME TypeOK, [Next]_vars, budget["timeout"] = 0
  PROVE  budget'["timeout"] = 0 /\ ~Spend("timeout")
<1>0. budget \in [Faults -> Nat] /\ "timeout" \in Faults
  BY Zenon, TypeParts DEF TypeEnv, Faults
<1>1. ~Spend("timeout")
  BY <1>0 DEF Spend
<1>2. ASSUME NEW f, Spend(f) PROVE budget'["timeout"] = 0
  <2>1. f # "timeout"
    BY Zenon, <1>1, <1>2
  <2> QED BY Zenon, <1>0, <1>2, <2>1 DEF Spend
<1>3. ASSUME NEW o \in Calls, Handler(o) PROVE UNCHANGED budget \/ Spend("docker")
  BY Zenon, <1>3 DEF Handler, handleRequest, refuse, stageAside, Retire, undo, startService,
     stopServices, startServices, RemoveStack, incomplete, Agent
<1>4. ASSUME NEW o \in Calls, Call(o) PROVE UNCHANGED budget
  BY Zenon, <1>4 DEF Call, Guard, Acquire, Refused, prepareDeploy, prepareOperation,
     deleteNeverDeployed, Dispatch, AuditFails, interrupted, observe, settle
<1>5. ASSUME NEW o \in Calls, TimeOut(o) \/ Reply(o) \/ ReplyLost(o)
      PROVE  UNCHANGED budget \/ Spend("timeout")
  BY Zenon, <1>5 DEF TimeOut, Reply, ReplyLost
<1>6. ASSUME NEW w \in Workers, Pass(w) PROVE UNCHANGED budget \/ Spend("timeout")
  BY Zenon, <1>6 DEF Pass, PassRead, PassFails, PassApply
<1>7. ASSUME NEW w \in Runners, Recovery(w) PROVE UNCHANGED budget
  BY Zenon, <1>7 DEF Recovery, Run, recoverHost, readCompletely, RunEnds, NextAttempt,
     recordRecovered
<1>8. CASE \/ Disconnect \/ AgentRestart \/ Reconnect \/ ServerRestart \/ UNCHANGED vars
           \/ \E o \in Calls, k \in Kinds, r \in Revisions \cup {None} : Begin(o, k, r)
  BY Zenon, <1>1, <1>2, <1>8 DEF Disconnect, AgentRestart, Reconnect, ServerRestart, vars, Begin
<1> QED BY Zenon, <1>1, <1>2, <1>3, <1>4, <1>5, <1>6, <1>7, <1>8 DEF Next

(* Handlers and the connection.                                               *)
LEMMA AloneStep ==
  ASSUME TypeOK, Known, Alone, [Next]_vars PROVE Alone'
<1> USE DEF server
<1>0. /\ pc \in [Workers -> Places] /\ Calls \subseteq Workers /\ job \in [Calls -> Jobs]
      /\ Runners \subseteq Workers /\ None \notin Calls /\ NoJob.st = "no"
      /\ Calls \cap Runners = {} /\ connected \in BOOLEAN
  BY TypeParts, StacksAssumption DEF TypeServer, TypeEnv, Workers, NoJob
<1>1. Locked /\ Waited /\ AgentJobsExclusive /\ budget["timeout"] = 0
  BY Zenon DEF Alone
<1>2. Locked' /\ budget'["timeout"] = 0 /\ ~Spend("timeout")
  BY Zenon, <1>1, LockedStep, BudgetStep
<1>3. \A o \in Calls : pc[o] \in {"waiting", "dispatch"} => held = o
  BY <1>1 DEF Locked, Holding, Tracked
<1>4. /\ \A o \in Calls : job[o].st # "no" /\ connected => pc[o] = "waiting"
      /\ \A o \in Calls : job[o].st = "wire" \/ pc[o] = "waiting" => connected
      /\ \A o, p \in Calls : job[o].st \in Working /\ job[p].st \in Working => o = p
  BY Zenon, <1>1 DEF Waited, AgentJobsExclusive
<1>5. /\ "no" \notin Working /\ "wire" \notin Working /\ "reply" \notin Working
      /\ "wire" # "no" /\ "reply" # "no" /\ "dispatch" # "waiting" /\ "unknown" # "waiting"
      /\ "wire" # "reply"
  BY DEF Working
<1>6. ASSUME connected, NEW o \in Calls, NEW p \in Calls, job[o].st # "no",
             job[p].st # "no" \/ pc[p] = "dispatch"
      PROVE  o = p
  BY Zenon, <1>3, <1>4, <1>6
<1>7. ASSUME \A o \in Calls : job'[o].st # "no" /\ connected' => pc'[o] = "waiting",
             \A o \in Calls : job'[o].st = "wire" \/ pc'[o] = "waiting" => connected',
             \A o, p \in Calls : job'[o].st \in Working /\ job'[p].st \in Working => o = p
      PROVE  Alone'
  BY Zenon, <1>2, <1>7 DEF Alone, Waited, AgentJobsExclusive
<1>8. ASSUME UNCHANGED <<job, connected>>, \A o \in Calls : pc'[o] = "waiting" <=> pc[o] = "waiting"
      PROVE  Alone'
  BY Zenon, <1>4, <1>7, <1>8
<1>9. ASSUME ~connected', \A o \in Calls : pc'[o] # "waiting" /\ job'[o].st # "wire",
             \A o \in Calls : job'[o].st \in Working => job[o].st \in Working
      PROVE  Alone'
  BY Zenon, <1>4, <1>7, <1>9
<1>10. ASSUME NEW p \in Workers, p \in Runners \/ pc[p] # "waiting",
              UNCHANGED pc \/ \E l : l # "waiting" /\ Goto(p, l), UNCHANGED <<job, connected>>
       PROVE  Alone'
  <2>1. ASSUME NEW o \in Calls PROVE pc'[o] = "waiting" <=> pc[o] = "waiting"
    <3>1. ASSUME NEW l, l # "waiting", Goto(p, l) PROVE pc'[o] = "waiting" <=> pc[o] = "waiting"
      BY Zenon, <1>0, <1>10, <3>1 DEF Goto
    <3> QED BY Zenon, <1>10, <3>1
  <2> QED BY Zenon, <1>8, <1>10, <2>1
<1>11. ASSUME NEW p \in Calls, \E k \in Kinds, r \in Revisions \cup {None} : Begin(p, k, r)
       PROVE  Alone'
  <2>1. pc[p] # "waiting" /\ "guard" # "waiting"
    BY <1>11 DEF Begin
  <2> QED BY Zenon, <1>0, <1>10, <1>11, <2>1 DEF Begin
<1>12. ASSUME NEW p \in Calls, \/ Guard(p) \/ Acquire(p) \/ Refused(p) \/ prepareDeploy(p)
                               \/ prepareOperation(p) \/ deleteNeverDeployed(p) \/ AuditFails(p)
                               \/ interrupted(p) \/ observe(p) \/ settle(p)
       PROVE  Alone'
  <2>1. pc[p] # "waiting"
    BY ZenonT(60), <1>12
       DEF Guard, Acquire, Refused, prepareDeploy, prepareOperation, deleteNeverDeployed,
       AuditFails, interrupted, observe, settle
  <2>2. /\ "lock" # "waiting" /\ "done" # "waiting" /\ "prepare" # "waiting"
        /\ "settle" # "waiting"
    OBVIOUS
  <2>3. \E l : l # "waiting" /\ Goto(p, l)
    BY Zenon, <1>5, <1>12, <2>2
       DEF Guard, Acquire, Refused, prepareDeploy, prepareOperation, deleteNeverDeployed,
           AuditFails, interrupted, observe, settle
  <2>4. UNCHANGED <<job, connected>>
    BY Zenon, <1>12
       DEF Guard, Acquire, Refused, prepareDeploy, prepareOperation, deleteNeverDeployed,
           AuditFails, interrupted, observe, settle
  <2> QED BY ZenonT(60), <1>0, <1>10, <2>1, <2>3, <2>4
<1>13. ASSUME NEW p \in Calls, Dispatch(p) PROVE Alone'
  <2>0. pc[p] = "dispatch" /\ UNCHANGED connected
    BY Zenon, <1>13 DEF Dispatch
  <2>1. CASE connected
    <3>1. /\ \A o \in Calls : o # p => job[o].st = "no"
          /\ \A o \in Calls : pc[o] # "waiting"
      BY Zenon, <1>3, <1>5, <1>6, <2>0, <2>1
    <3>2. /\ \A o \in Calls : o # p => job'[o] = job[o] /\ pc'[o] = pc[o]
          /\ job'[p].st = "wire" /\ pc'[p] = "waiting"
      BY <1>0, <1>13, <2>1 DEF Dispatch, Goto, NoJob
    <3> QED BY Zenon, <1>5, <1>7, <2>0, <2>1, <3>1, <3>2
  <2>2. CASE ~connected
    BY Zenon, <1>0, <1>5, <1>10, <1>13, <2>0, <2>2 DEF Dispatch
  <2> QED BY Zenon, <2>1, <2>2
<1>14. ASSUME NEW p \in Calls, TimeOut(p) PROVE FALSE
  BY Zenon, <1>2, <1>14 DEF TimeOut
<1>15. ASSUME NEW p \in Calls, Reply(p) PROVE Alone'
  <2>1. connected /\ job[p].st # "no" /\ pc[p] = "waiting"
    BY Zenon, <1>4, <1>5, <1>15 DEF Reply
  <2>2. job' = [job EXCEPT ![p] = NoJob] /\ Goto(p, "resync") /\ UNCHANGED connected
    BY Zenon, <1>15, <2>1 DEF Reply
  <2>3. \A o \in Calls : job'[o].st = "no"
    BY Zenon, <1>0, <1>6, <2>1, <2>2
  <2> QED BY Zenon, <1>5, <1>7, <2>1, <2>2, <2>3
<1>16. ASSUME NEW p \in Calls, ReplyLost(p) PROVE Alone'
  <2>1. ~connected /\ UNCHANGED <<pc, connected>> /\ job' = [job EXCEPT ![p] = NoJob]
    BY Zenon, <1>16 DEF ReplyLost
  <2>2. \A o \in Calls : job'[o] = job[o] \/ job'[o].st = "no"
    BY Zenon, <1>0, <2>1
  <2>3. \A o \in Calls : job'[o].st \in Working => job[o].st \in Working
    BY Zenon, <1>5, <2>2
  <2> QED BY Zenon, <1>4, <1>5, <1>9, <2>1, <2>2, <2>3
<1>17. CASE Disconnect \/ AgentRestart \/ ServerRestart
  <2>1. \A o \in Calls : pc'[o] # "waiting"
    <3>1. pc' = Abandoned => \A o \in Calls : pc'[o] # "waiting"
      BY Zenon, <1>0, <1>5 DEF Abandoned
    <3>2. "idle" # "waiting" /\ "done" # "waiting"
      OBVIOUS
    <3> QED BY Zenon, <1>0, <1>17, <3>1, <3>2 DEF Disconnect, AgentRestart, ServerRestart
  <2>2. \A o \in Calls : job'[o].st = "no" \/ (job'[o] = job[o] /\ job[o].st # "wire")
    <3>1. job' = Cut(job) => \A o \in Calls : job'[o].st = "no"
                                               \/ (job'[o] = job[o] /\ job[o].st # "wire")
      BY Zenon, <1>0 DEF Cut
    <3> QED BY Zenon, <1>0, <1>17, <3>1 DEF Disconnect, AgentRestart, ServerRestart
  <2>3. \A o \in Calls : job'[o].st # "wire" /\ (job'[o].st \in Working => job[o].st \in Working)
    BY Zenon, <1>5, <2>2
  <2> QED BY Zenon, <1>9, <1>17, <2>1, <2>3 DEF Disconnect, AgentRestart, ServerRestart
<1>18. CASE Reconnect
  <2>1. \A o \in Calls : job'[o].st = "no" /\ pc'[o] # "waiting"
    BY Zenon, <1>4, <1>18 DEF Reconnect
  <2> QED BY Zenon, <1>5, <1>7, <1>18, <2>1 DEF Reconnect
<1>19. ASSUME NEW w \in Workers, Pass(w) PROVE Alone'
  <2>1. UNCHANGED <<pc, job, connected>>
    BY Zenon, <1>19 DEF Pass, PassRead, PassFails, PassApply
  <2> QED BY Zenon, <1>8, <2>1
<1>20. ASSUME NEW w \in Runners, Recovery(w) PROVE Alone'
  <2>1. /\ "sync" # "waiting" /\ "idle" # "waiting" /\ "reread" # "waiting"
        /\ "recover" # "waiting" /\ "record" # "waiting"
    OBVIOUS
  <2>2. UNCHANGED pc \/ \E l : l # "waiting" /\ Goto(w, l)
    BY Zenon, <1>20, <2>1 DEF Recovery, Run, recoverHost, readCompletely, RunEnds, NextAttempt,
       recordRecovered
  <2>3. UNCHANGED <<job, connected>>
    BY Zenon, <1>20 DEF Recovery, Run, recoverHost, readCompletely, RunEnds, NextAttempt,
       recordRecovered
  <2> QED BY Zenon, <1>0, <1>10, <2>2, <2>3
<1>21. ASSUME NEW p \in Calls, Handler(p) PROVE Alone'
  <2>1. UNCHANGED <<pc, connected>>
    BY Zenon, <1>21, HandlerType
  <2>2. UNCHANGED job \/ \E st, aside, left : st # "wire" /\ JobTo(p, st, aside, left)
    <3>1. /\ "reply" # "wire" /\ "stage" # "wire" /\ "start" # "wire" /\ "retire" # "wire"
          /\ "down" # "wire" /\ "up" # "wire" /\ "remove" # "wire"
      OBVIOUS
    <3>2. CASE handleRequest(p)
      <4>1. job[p].st # "no"
        BY <3>2 DEF handleRequest
      <4>2. req[p].kind \in AllKinds
        BY Zenon, <4>1 DEF Known
      <4>3. FirstPhase[req[p].kind] # "wire"
        BY <4>2 DEF FirstPhase, AllKinds
      <4> QED BY Zenon, <3>2, <4>3 DEF handleRequest
    <3>3. CASE stageAside(p) \/ Retire(p) \/ undo(p) \/ incomplete(p) \/ refuse(p)
      BY Zenon, <3>1, <3>3 DEF stageAside, Retire, undo, incomplete, refuse, Replying
    <3>4. ASSUME NEW s \in Services, startService(p, s)
          PROVE  UNCHANGED job \/ \E st, aside, left : st # "wire" /\ JobTo(p, st, aside, left)
      BY Zenon, <3>1, <3>4 DEF startService
    <3>5. ASSUME NEW c \in host, stopServices(p, c) \/ startServices(p, c) \/ RemoveStack(p, c)
          PROVE  UNCHANGED job \/ \E st, aside, left : st # "wire" /\ JobTo(p, st, aside, left)
      BY Zenon, <3>1, <3>5 DEF stopServices, startServices, RemoveStack, Replying
    <3> QED BY Zenon, <1>21, <3>2, <3>3, <3>4, <3>5 DEF Handler
  <2>3. ASSUME NEW o \in Calls
        PROVE  job'[o] = job[o] \/ (o = p /\ job'[o].st # "wire")
    <3>1. ASSUME NEW st, NEW aside, NEW left, st # "wire", JobTo(p, st, aside, left)
          PROVE  job'[o] = job[o] \/ (o = p /\ job'[o].st # "wire")
      BY SMTT(60), <1>0, <3>1 DEF JobTo
    <3> QED BY Zenon, <2>2, <3>1
  <2>4. job[p].st \in Working \/ (job[p].st = "wire" /\ connected)
    BY ZenonT(60), <1>21 DEF Handler, handleRequest, refuse, stageAside, Retire, undo, startService,
       stopServices, startServices, RemoveStack, incomplete, Working
  <2>5. job[p].st # "no"
    BY Zenon, <1>5, <2>4
  <2>6. \A o \in Calls : job'[o].st # "no" => job[o].st # "no"
    BY Zenon, <2>3, <2>5
  <2>7. \A o \in Calls : job'[o].st = "wire" => job[o].st = "wire"
    BY Zenon, <2>3
  <2>8. ASSUME NEW o \in Calls, NEW q \in Calls, job'[o].st \in Working, job'[q].st \in Working
        PROVE  o = q
    <3>1. CASE connected
      <4>1. job[o].st # "no" /\ job[q].st # "no"
        BY Zenon, <1>5, <2>6, <2>8
      <4> QED BY Zenon, <1>6, <3>1, <4>1
    <3>2. CASE ~connected
      <4>1. job[p].st \in Working
        BY Zenon, <2>4, <3>2
      <4>2. job[o].st \in Working /\ job[q].st \in Working
        BY Zenon, <2>3, <2>8, <4>1
      <4> QED BY Zenon, <1>4, <4>2
    <3> QED BY Zenon, <3>1, <3>2
  <2> QED BY Zenon, <1>4, <1>7, <2>1, <2>6, <2>7, <2>8
<1>22. CASE UNCHANGED vars
  BY Zenon, <1>8, <1>22 DEF vars
<1>23. ASSUME NEW p \in Calls, Call(p) PROVE Alone'
  BY Zenon, <1>12, <1>13, <1>23 DEF Call
<1> QED BY ZenonT(60), <1>11, <1>14, <1>15, <1>16, <1>17, <1>18, <1>19, <1>20, <1>21, <1>22, <1>23
           DEF Next

(* Unless a request goes unanswered past its deadline, the agent never has    *)
(* two handlers at work on the stack at once: not though the guards of a call *)
(* are read before its lock, and not when a lost connection or a restart of   *)
(* the control server frees the lock while a handler runs on (acquire in      *)
(* mutation-registry.ts, and the agent's wait for its handlers before it      *)
(* connects again).                                                           *)
THEOREM AgentExclusive ==
  ASSUME Budget["timeout"] = 0
  PROVE  Spec => []AgentJobsExclusive
<1>1. Init => TypeOK /\ Known /\ Alone
  <2> SUFFICES ASSUME NEW start \in Starts, StartsFrom(start) PROVE TypeOK /\ Known /\ Alone
    BY Zenon DEF Init
  <2>1. TypeOK /\ Known
    BY Zenon, InitTypeKnown DEF Init
  <2>2. /\ \A o \in Calls : pc[o] = "idle" /\ job[o] = NoJob
        /\ budget["timeout"] = 0
    BY Zenon DEF StartsFrom, Workers
  <2>3. /\ NoJob.st = "no" /\ "idle" \notin Holding /\ "no" \notin Working /\ "no" # "wire"
        /\ "idle" # "waiting"
    BY DEF NoJob, Holding, Tracked, Working
  <2> QED BY Zenon, <2>1, <2>2, <2>3 DEF Alone, Locked, Waited, AgentJobsExclusive
<1>2. TypeOK /\ Known /\ Alone /\ [Next]_vars => (TypeOK /\ Known /\ Alone)'
  BY Zenon, TypeStep, KnownStep, AloneStep
<1>3. Alone => AgentJobsExclusive
  BY Zenon DEF Alone
<1> QED BY <1>1, <1>2, <1>3, PTL DEF Spec
=============================================================================
