--------------------- MODULE ContainerManagementProofs ---------------------
(* What ContainerManagement promises for every set of resources, calls and    *)
(* scheduler runs, and for every budget of faults.                            *)
EXTENDS ContainerManagement, TLAPS

-----------------------------------------------------------------------------
(* The inductive invariant: the properties themselves do not say enough about *)
(* what is under way to be preserved by a step.                               *)

(* The calls that have begun: every trace of a call is one of those. *)
Begun(o) == pc[o] # "idle"

(* Who refers to a call refers to one that has begun, and a call that has     *)
(* begun has said what it is about.                                           *)
Known ==
  /\ \A o \in Ops : Begun(o) => kind[o] \in AllKinds /\ target[o] \in Containers
  /\ \A o \in Ops : action[o] # "none" \/ request[o] # "none" \/ o \in built => Begun(o)
  /\ \A s \in Runners : \A o \in todo[s] : Begun(o)
  /\ \A s \in Runners : subject[s] # None => Begun(subject[s])
  /\ \A s \in Runners : pc[s] \in {"resync", "decide"} => subject[s] # None

(* Nothing is on record of a call that is not past its lock; a create that is *)
(* not has its resource to itself.                                            *)
Unwritten ==
  /\ \A o \in Ops : pc[o] \in {"idle", "guarded", "locked"} => action[o] = "none"
  /\ \A o \in Ops : (Begun(o) /\ kind[o] = "create" /\ action[o] = "none") =>
       /\ target[o] \notin rows
       /\ \A p \in Ops : p # o => target[p] # target[o]

-----------------------------------------------------------------------------
(* A decision of classifyRecovery is a decision, and a configuration it names *)
(* is the candidate it was given.                                             *)
LEMMA ClassifyType ==
  ASSUME NEW in, in.pending \in Ops \cup {None}
  PROVE  classifyRecovery(in) \in [kind : DecisionKinds, config : Configs \cup {None}]
  BY Zenon DEF classifyRecovery, Plain, Decision, DecisionKinds, Configs

(* Deleting rows leaves every column of the table well typed. *)
LEMMA DeleteRowsType ==
  ASSUME TypeOK, NEW gone, DeleteRows(gone)
  PROVE  /\ rows' \subseteq Containers /\ conflict' \subseteq Containers
         /\ docker' \in [Containers -> Configs \cup {None}]
         /\ snap' \in [Containers -> Workers \cup {None}]
         /\ current' \in [Containers -> Configs \cup {None}]
         /\ pending' \in [Containers -> Ops \cup {None}]
  BY Zenon DEF TypeOK, DeleteRows

(* Giving calls up keeps the type of what it changes, and nobody goes back to *)
(* idle by it.                                                                *)
LEMMA GivenUpType ==
  ASSUME TypeOK, NEW gone, NEW status \in Statuses, GivenUp(gone, status)
  PROVE  /\ pc' \in [Workers -> Places]
         /\ held' \in [Keys -> Ops \cup {None}]
         /\ action' \in [Ops -> Statuses]
  BY Zenon DEF TypeOK, GivenUp, Places

(* A pass moved on is a pass. *)
LEMMA PassToType ==
  ASSUME TypeOK, NEW w \in Workers, NEW st \in PassStates, NEW list \in SUBSET Claims,
         NEW complete \in BOOLEAN, PassTo(w, st, list, complete)
  PROVE  pass' \in [Workers -> Passes]
  BY Zenon DEF TypeOK, PassTo, Passes

(* A unit of the budget spent leaves a budget. *)
LEMMA SpendType ==
  ASSUME TypeOK, NEW f \in Faults, Spend(f)
  PROVE  budget' \in [Faults -> Nat]
  BY DEF TypeOK, Spend

(* Every step keeps the types. *)
LEMMA TypeStep ==
  ASSUME TypeOK, Known, [Next]_vars
  PROVE  TypeOK'
<1> USE DEF db, call, runs, env, serverSide
<1>0. /\ pc \in [Workers -> Places] /\ Ops \subseteq Workers /\ Runners \subseteq Workers
      /\ subject \in [Runners -> Ops \cup {None}]
  BY Zenon DEF TypeOK, Workers
<1>1. ASSUME NEW o \in Ops, NEW k \in AllKinds, NEW c \in Containers, Begin(o, k, c)
      PROVE  TypeOK'
  BY Zenon, <1>1 DEF TypeOK, Begin, Configs, Workers, Places
<1>2. ASSUME NEW o \in Ops, acquire(o) PROVE TypeOK'
  <2>1. held' \in [Keys -> Ops \cup {None}]
    BY Zenon, <1>2 DEF TypeOK, acquire
  <2>2. pc' \in [Workers -> Places]
    <3>1. \E pl \in {"locked", "done"} : pc' = [pc EXCEPT ![o] = pl]
      BY Zenon, <1>2 DEF acquire
    <3> QED BY Zenon, <1>0, <3>1 DEF Places
  <2> QED BY Zenon, <1>2, <2>1, <2>2 DEF TypeOK, acquire
<1>3. ASSUME NEW o \in Ops, Prepare(o) PROVE TypeOK'
  <2>1. target[o] \in Containers
    BY Zenon, <1>3 DEF Prepare, Known, Begun
  <2>2. ASSUME prepare(o)
        PROVE  /\ rows' \subseteq Containers
               /\ pending' \in [Containers -> Ops \cup {None}]
               /\ action' \in [Ops -> Statuses]
               /\ address' \in [Ops -> Configs \cup {None}]
               /\ UNCHANGED <<docker, conflict, snap, current>>
    <3>1. CASE prepareCreate(o)
      BY Zenon, <2>1, <3>1 DEF TypeOK, prepareCreate, Statuses
    <3>2. CASE prepareReplace(o)
      BY Zenon, <2>1, <3>2 DEF TypeOK, prepareReplace, Statuses
    <3>3. CASE prepareRemove(o)
      BY Zenon, <2>1, <3>3 DEF TypeOK, prepareRemove, Statuses
    <3>4. CASE prepareLifecycle(o)
      BY Zenon, <3>4 DEF TypeOK, prepareLifecycle, Statuses
    <3> QED BY Zenon, <2>2, <3>1, <3>2, <3>3, <3>4 DEF prepare
  <2>3. pc' \in [Workers -> Places]
    <3>1. \E pl \in {"prepared", "done"} : pc' = [pc EXCEPT ![o] = pl]
      BY Zenon, <1>3 DEF Prepare
    <3> QED BY Zenon, <1>0, <3>1 DEF Places
  <2>4. held' \in [Keys -> Ops \cup {None}]
    BY <1>3 DEF TypeOK, Prepare, Released
  <2>5. budget' \in [Faults -> Nat]
    BY Zenon, <1>3, SpendType DEF TypeOK, Prepare, Faults
  <2>6. UNCHANGED <<kind, target, pass, verdict, runs, connected, request, host, built>>
    BY Zenon, <1>3 DEF Prepare
  <2>7. prepare(o) \/ UNCHANGED <<db, address>>
    BY Zenon, <1>3 DEF Prepare
  <2>8. CASE prepare(o)
    BY Zenon, <2>2, <2>3, <2>4, <2>5, <2>6, <2>8 DEF TypeOK
  <2>9. CASE UNCHANGED <<db, address>>
    BY Zenon, <2>3, <2>4, <2>5, <2>6, <2>9 DEF TypeOK
  <2> QED BY Zenon, <2>7, <2>8, <2>9
<1>4. ASSUME NEW o \in Ops, dispatch(o) PROVE TypeOK'
  <2>1. CASE connected
    <3>1. pc' \in [Workers -> Places] /\ UNCHANGED <<held, action>>
      BY SMTT(60), <1>4, <2>1 DEF TypeOK, dispatch, Places, Workers
    <3>2. request' \in [Ops -> Requests]
      BY Zenon, <1>4, <2>1 DEF TypeOK, dispatch, Requests
    <3> QED BY Zenon, <1>4, <3>1, <3>2 DEF TypeOK, dispatch
  <2>2. CASE ~connected
    BY Zenon, <1>4, <2>2, GivenUpType DEF TypeOK, dispatch, Statuses
  <2> QED BY Zenon, <2>1, <2>2
<1>5. ASSUME NEW o \in Ops, Timeout(o) PROVE TypeOK'
  BY Zenon, <1>5, GivenUpType, SpendType DEF TypeOK, Timeout, Statuses, Faults
<1>6. ASSUME NEW o \in Ops, Reply(o) PROVE TypeOK'
  <2>1. request' \in [Ops -> Requests]
    BY Zenon, <1>6 DEF TypeOK, Reply, Requests
  <2>2. /\ pc' \in [Workers -> Places]
        /\ held' \in [Keys -> Ops \cup {None}]
        /\ action' \in [Ops -> Statuses]
    <3>1. CASE GivenUp({o}, "failed")
      BY Zenon, <3>1, GivenUpType DEF Statuses
    <3>2. CASE /\ action' = [action EXCEPT ![o] = "succeeded"]
               /\ pc' = [pc EXCEPT ![o] = "report"] /\ UNCHANGED held
      BY Zenon, <3>2 DEF TypeOK, Statuses, Places
    <3>3. CASE pc' = [pc EXCEPT ![o] = "resync"] /\ UNCHANGED <<held, action>>
      BY Zenon, <3>3 DEF TypeOK, Places
    <3> QED BY Zenon, <1>6, <3>1, <3>2, <3>3 DEF Reply
  <2> QED BY Zenon, <1>6, <2>1, <2>2 DEF TypeOK, Reply
<1>7. ASSUME NEW o \in Ops, Report(o) PROVE TypeOK'
  <2>1. CASE /\ pc' = [pc EXCEPT ![o] = "done"] /\ held' = Released(o)
             /\ UNCHANGED <<action, budget>>
    <3>1. pc' \in [Workers -> Places] /\ held' \in [Keys -> Ops \cup {None}]
      BY Zenon, <2>1 DEF TypeOK, Places, Released
    <3> QED BY Zenon, <1>7, <2>1, <3>1 DEF TypeOK, Report
  <2>2. CASE Spend("throw") /\ GivenUp({o}, "failed")
    BY Zenon, <1>7, <2>2, GivenUpType, SpendType DEF TypeOK, Report, Statuses, Faults
  <2> QED BY Zenon, <1>7, <2>1, <2>2 DEF Report
<1>8. ASSUME NEW w \in Workers, PassStart(w) PROVE TypeOK'
  <2>1. pass' \in [Workers -> Passes]
    BY Zenon, <1>8 DEF TypeOK, PassStart, PassTo, Passes, PassStates
  <2>2. snap' \in [Containers -> Workers \cup {None}]
    BY Zenon, <1>8 DEF TypeOK, PassStart
  <2> QED BY Zenon, <1>8, <2>1, <2>2 DEF TypeOK, PassStart
<1>9. ASSUME NEW w \in Workers, PassList(w) PROVE TypeOK'
  <2>1. pass' \in [Workers -> Passes]
    <3>1. pass[w].complete \in BOOLEAN /\ host \subseteq Claims
      BY Zenon DEF TypeOK, Passes
    <3>2. CASE PassTo(w, "listed", host, pass[w].complete)
      BY Zenon, <3>1, <3>2, PassToType DEF PassStates
    <3>3. CASE PassTo(w, "listed", host, FALSE)
      BY Zenon, <3>1, <3>3, PassToType DEF PassStates
    <3> QED BY Zenon, <1>9, <3>2, <3>3 DEF PassList
  <2>2. budget' \in [Faults -> Nat]
    BY Zenon, <1>9, SpendType DEF TypeOK, PassList, Faults
  <2> QED BY Zenon, <1>9, <2>1, <2>2 DEF TypeOK, PassList
<1>10. ASSUME NEW w \in Workers, PassFail(w) PROVE TypeOK'
  <2>1. pass' \in [Workers -> Passes]
    BY Zenon, <1>10 DEF TypeOK, PassFail, PassTo, Passes, PassStates
  <2>2. budget' \in [Faults -> Nat]
    BY Zenon, <1>10, SpendType DEF TypeOK, PassFail, Faults
  <2> QED BY Zenon, <1>10, <2>1, <2>2 DEF TypeOK, PassFail
<1>11. ASSUME NEW w \in Workers, applyContainers(w) PROVE TypeOK'
  <2>1. pass[w].list \subseteq Claims
    BY Zenon, <1>11 DEF TypeOK, Passes
  <2>2. \A c \in Containers : ClaimsOf(pass[w].list, c) # {} =>
          (CHOOSE d \in ClaimsOf(pass[w].list, c) : TRUE).config \in Configs
    BY Zenon, <2>1 DEF ClaimsOf, Claims
  <2>3. docker' \in [Containers -> Configs \cup {None}]
    BY Zenon, <1>11, <2>2 DEF TypeOK, applyContainers
  <2>4. snap' \in [Containers -> Workers \cup {None}]
    BY Zenon, <1>11 DEF TypeOK, applyContainers
  <2>5. conflict' \subseteq Containers
    BY Zenon, <1>11 DEF TypeOK, applyContainers
  <2>6. pass' \in [Workers -> Passes]
    BY Zenon, <1>11 DEF TypeOK, applyContainers, PassTo, Passes, PassStates
  <2> QED BY Zenon, <1>11, <2>3, <2>4, <2>5, <2>6 DEF TypeOK, applyContainers
<1>12. ASSUME NEW w \in Workers, PassEnd(w) PROVE TypeOK'
  <2>1. pass' \in [Workers -> Passes]
    <3>1. CASE PassTo(w, "done", {}, TRUE)
      BY Zenon, <3>1, PassToType DEF PassStates
    <3>2. CASE PassTo(w, "done", {}, FALSE)
      BY Zenon, <3>2, PassToType DEF PassStates
    <3> QED BY Zenon, <1>12, <3>1, <3>2 DEF PassEnd
  <2>2. budget' \in [Faults -> Nat]
    BY Zenon, <1>12, SpendType DEF TypeOK, PassEnd, Faults
  <2>3. /\ rows' \subseteq Containers /\ conflict' \subseteq Containers
        /\ docker' \in [Containers -> Configs \cup {None}]
        /\ snap' \in [Containers -> Workers \cup {None}]
        /\ current' \in [Containers -> Configs \cup {None}]
        /\ pending' \in [Containers -> Ops \cup {None}]
    <3>1. CASE UNCHANGED <<rows, docker, conflict, snap, current, pending>>
      BY Zenon, <3>1 DEF TypeOK
    <3>2. CASE \E gone : DeleteRows(gone)
      BY Zenon, <3>2, DeleteRowsType
    <3> QED BY Zenon, <1>12, <3>1, <3>2 DEF PassEnd
  <2> QED BY Zenon, <1>12, <2>1, <2>2, <2>3 DEF TypeOK, PassEnd
<1>13. ASSUME NEW w \in Workers, classify(w) PROVE TypeOK'
  <2>1. Subject(w) \in Ops /\ Begun(Subject(w))
    BY Zenon, <1>13 DEF TypeOK, classify, Subject, Known, Begun, Workers
  <2>2. pending[target[Subject(w)]] \in Ops \cup {None}
    BY Zenon, <2>1 DEF TypeOK, Known
  <2>3. verdict' \in [Workers -> [kind : DecisionKinds, config : Configs \cup {None}]]
    BY Zenon, <1>13, <2>2, ClassifyType DEF TypeOK, classify
  <2>4. pc' \in [Workers -> Places]
    BY Zenon, <1>13 DEF TypeOK, classify, Places
  <2>5. pass' \in [Workers -> Passes]
    BY Zenon, <1>13 DEF TypeOK, classify, Passes, PassStates, NoPass
  <2> QED BY Zenon, <1>13, <2>3, <2>4, <2>5 DEF TypeOK, classify
<1>14. ASSUME NEW w \in Workers, Finalize(w) PROVE TypeOK'
  <2>1. /\ rows' \subseteq Containers /\ conflict' \subseteq Containers
        /\ docker' \in [Containers -> Configs \cup {None}]
        /\ snap' \in [Containers -> Workers \cup {None}]
        /\ current' \in [Containers -> Configs \cup {None}]
        /\ pending' \in [Containers -> Ops \cup {None}]
        /\ action' \in [Ops -> Statuses]
    <3> DEFINE o == Subject(w)  c == target[o]  cfg == verdict[w].config
    <3>1. cfg \in Configs \cup {None}
      BY Zenon DEF TypeOK
    <3>2. CASE UNCHANGED db
      BY Zenon, <3>2 DEF TypeOK
    <3>3. CASE promote(o, c, cfg)
      BY Zenon, <3>1, <3>3 DEF TypeOK, promote, Finish, Statuses
    <3>4. CASE discard(o, c, cfg)
      BY <3>4, DeleteRowsType DEF TypeOK, discard, Finish, Statuses
    <3>5. CASE finalizeRemove(o, c)
      BY Zenon, <3>5, DeleteRowsType DEF TypeOK, finalizeRemove, Finish, Statuses
    <3>6. CASE failOperation(o) \/ needsAttention(o)
      BY Zenon, <3>6 DEF TypeOK, failOperation, needsAttention, Finish, Statuses
    <3>7. CASE recordConflict(o, c)
      BY Zenon, <3>7 DEF TypeOK, recordConflict, Finish, Statuses
    <3> QED BY Zenon, <1>14, <3>2, <3>3, <3>4, <3>5, <3>6, <3>7 DEF Finalize, finalize
  <2>2. verdict' \in [Workers -> [kind : DecisionKinds, config : Configs \cup {None}]]
    BY Zenon, <1>14 DEF TypeOK, Finalize, Plain, Decision, DecisionKinds
  <2>3. pc' \in [Workers -> Places] /\ held' \in [Keys -> Ops \cup {None}]
    BY Zenon, <1>14 DEF TypeOK, Finalize, Places, Released
  <2>4. subject' \in [Runners -> Ops \cup {None}]
    BY Zenon, <1>14 DEF TypeOK, Finalize
  <2> QED BY Zenon, <1>14, <2>1, <2>2, <2>3, <2>4 DEF TypeOK, Finalize
<1>15. ASSUME NEW w \in Workers, FinalizeThrows(w) PROVE TypeOK'
  <2>1. verdict' \in [Workers -> [kind : DecisionKinds, config : Configs \cup {None}]]
    BY Zenon, <1>15 DEF TypeOK, FinalizeThrows, Plain, Decision, DecisionKinds
  <2>2. pc' \in [Workers -> Places] /\ held' \in [Keys -> Ops \cup {None}]
    BY Zenon, <1>15 DEF TypeOK, FinalizeThrows, Places, Released
  <2>3. /\ subject' \in [Runners -> Ops \cup {None}]
        /\ todo' \in [Runners -> SUBSET Ops]
        /\ live' \subseteq Runners
    BY Zenon, <1>15 DEF TypeOK, FinalizeThrows
  <2>4. budget' \in [Faults -> Nat]
    BY Zenon, <1>15, SpendType DEF FinalizeThrows, Faults
  <2> QED BY Zenon, <1>15, <2>1, <2>2, <2>3, <2>4 DEF TypeOK, FinalizeThrows
<1>16. ASSUME NEW s \in Runners, RunStart(s) PROVE TypeOK'
  BY Zenon, <1>16 DEF TypeOK, RunStart, Places, Workers
<1>17. ASSUME NEW s \in Runners, RunPassed(s) PROVE TypeOK'
  <2>1. pc' \in [Workers -> Places]
    <3>1. \E p \in {"recover", "idle"} : pc' = [pc EXCEPT ![s] = p]
      BY Zenon, <1>17 DEF RunPassed
    <3> QED BY Zenon, <3>1 DEF TypeOK, Places
  <2>2. todo' \in [Runners -> SUBSET Ops] /\ live' \subseteq Runners
    <3>1. todo \in [Runners -> SUBSET Ops] /\ live \subseteq Runners
      BY Zenon DEF TypeOK
    <3>2. \/ UNCHANGED todo
          \/ todo' = [todo EXCEPT ![s] = unresolvedOperations]
      BY Zenon, <1>17 DEF RunPassed
    <3>3. unresolvedOperations \subseteq Ops
      BY Zenon DEF unresolvedOperations
    <3>4. live' \subseteq live
      BY Zenon, <1>17 DEF RunPassed
    <3> QED BY Zenon, <3>1, <3>2, <3>3, <3>4
  <2>3. pass' \in [Workers -> Passes]
    BY Zenon, <1>17 DEF TypeOK, RunPassed, Passes, PassStates, NoPass
  <2> QED BY Zenon, <1>17, <2>1, <2>2, <2>3 DEF TypeOK, RunPassed
<1>18. ASSUME NEW s \in Runners, NEW o \in Ops, recoverHost(s, o) PROVE TypeOK'
  <2>1. todo' \in [Runners -> SUBSET Ops]
    BY Zenon, <1>18 DEF TypeOK, recoverHost
  <2>2. pc' \in [Workers -> Places] /\ subject' \in [Runners -> Ops \cup {None}]
    <3>1. CASE UNCHANGED <<pc, subject>>
      BY Zenon, <1>0, <3>1
    <3>2. CASE /\ subject' = [subject EXCEPT ![s] = o]
               /\ pc' = [pc EXCEPT ![s] = "resync"]
      BY Zenon, <1>0, <3>2 DEF Places
    <3> QED BY Zenon, <1>18, <3>1, <3>2 DEF recoverHost
  <2> QED BY Zenon, <1>18, <2>1, <2>2 DEF TypeOK, recoverHost
<1>19. ASSUME NEW s \in Runners, RunEnd(s) PROVE TypeOK'
  BY Zenon, <1>19 DEF TypeOK, RunEnd, Places, Workers
<1>20. ASSUME NEW o \in Ops, Accept(o) PROVE TypeOK'
  BY Zenon, <1>20 DEF TypeOK, Accept, Requests
<1>21. ASSUME NEW o \in Ops,
              Refuse(o) \/ Create(o) \/ Replace(o) \/ Commit(o) \/ Rollback(o)
                \/ Remove(o) \/ Lifecycle(o)
       PROVE  TypeOK'
  <2>1. Own(o) \in Claims
    BY Zenon, <1>21 DEF Known, Begun, Own, Claims, Configs, Refuse, Create, Replace, Commit,
                 Rollback, Remove, Lifecycle
  <2>2. request' \in [Ops -> Requests]
    BY Zenon, <1>21 DEF TypeOK, Requests, Answer, Refuse, Create, Replace, Commit, Rollback,
                 Remove, Lifecycle
  <2>3. host' \subseteq Claims /\ built' \subseteq Ops
    BY Zenon, <1>21, <2>1 DEF TypeOK, Refuse, Create, Replace, Commit, Rollback, Remove, Lifecycle
  <2>4. budget' \in [Faults -> Nat]
    BY Zenon, <1>21, SpendType DEF TypeOK, Faults, Refuse, Create, Replace, Commit, Rollback,
                            Remove, Lifecycle
  <2>5. UNCHANGED <<serverSide, connected>>
    BY Zenon, <1>21 DEF Refuse, Create, Replace, Commit, Rollback, Remove, Lifecycle
  <2> QED BY Zenon, <2>2, <2>3, <2>4, <2>5 DEF TypeOK
<1>22. ASSUME NEW lost \in SUBSET Requests, Lost(lost), budget' \in [Faults -> Nat]
       PROVE  TypeOK'
  <2>1. request' \in [Ops -> Requests]
    BY Zenon, <1>22 DEF TypeOK, Lost, Requests
  <2>2. /\ pc' \in [Workers -> Places]
        /\ held' \in [Keys -> Ops \cup {None}]
        /\ action' \in [Ops -> Statuses]
    <3>1. GivenUp({o \in Ops : pc[o] = "waiting"}, "failed") /\ "failed" \in Statuses
      BY Zenon, <1>22 DEF Lost, Statuses
    <3> QED BY Zenon, <3>1, GivenUpType
  <2>3. pass' \in [Workers -> Passes]
    <3>1. pass \in [Workers -> Passes]
      BY Zenon DEF TypeOK
    <3>2. pass' = [w \in Workers |-> IF pass[w].st = "asked"
                     THEN [pass[w] EXCEPT !.complete = FALSE] ELSE pass[w]]
      BY Zenon, <1>22 DEF Lost
    <3>3. ASSUME NEW p \in Passes PROVE [p EXCEPT !.complete = FALSE] \in Passes
      BY Zenon DEF Passes
    <3> QED BY Zenon, <3>1, <3>2, <3>3
  <2>4. /\ connected' = FALSE /\ live' = {}
        /\ UNCHANGED <<rows, docker, conflict, snap, current, pending, call, verdict,
                       todo, subject, host, built>>
    BY Zenon, <1>22 DEF Lost
  <2> HIDE DEF Lost
  <2> QED BY Zenon, <1>22, <2>1, <2>2, <2>3, <2>4 DEF TypeOK, call
<1>23. ASSUME Disconnect \/ AgentRestart \/ \E o \in Ops : LateReply(o) PROVE TypeOK'
  <2>1. budget' \in [Faults -> Nat]
    BY Zenon, <1>23, SpendType DEF TypeOK, Disconnect, AgentRestart, LateReply, Faults
  <2>2. \E lost \in SUBSET Requests : Lost(lost)
    BY Zenon, <1>23 DEF Disconnect, AgentRestart, LateReply, OnTheWire, Requests
  <2> QED BY Zenon, <1>22, <2>1, <2>2
<1>24. ASSUME Reconnect PROVE TypeOK'
  BY Zenon, <1>24 DEF TypeOK, Reconnect
<1>25. ASSUME ServerRestart PROVE TypeOK'
  <2>1. request' \in [Ops -> Requests]
    BY Zenon, <1>25 DEF TypeOK, ServerRestart, Requests
  <2>2. pc' \in [Workers -> Places] /\ held' \in [Keys -> Ops \cup {None}]
    BY Zenon, <1>25 DEF TypeOK, ServerRestart, Places
  <2>3. /\ pass' \in [Workers -> Passes]
        /\ verdict' \in [Workers -> [kind : DecisionKinds, config : Configs \cup {None}]]
    BY Zenon, <1>25 DEF ServerRestart, NoPass, Passes, PassStates, Plain, Decision, DecisionKinds
  <2>4. /\ todo' \in [Runners -> SUBSET Ops] /\ subject' \in [Runners -> Ops \cup {None}]
        /\ live' \subseteq Runners /\ budget' \in [Faults -> Nat]
    BY Zenon, <1>25, SpendType DEF ServerRestart, Faults
  <2> QED BY Zenon, <1>25, <2>1, <2>2, <2>3, <2>4 DEF TypeOK, ServerRestart
<1>26. ASSUME NEW d \in Claims, ExternalRemove(d) PROVE TypeOK'
  BY Zenon, <1>26, SpendType DEF TypeOK, ExternalRemove, Faults
<1>27. CASE UNCHANGED vars
  BY Zenon, <1>27 DEF TypeOK, vars
<1> QED
  BY Zenon, <1>1, <1>2, <1>3, <1>4, <1>5, <1>6, <1>7, <1>8, <1>9, <1>10, <1>11, <1>12, <1>13,
     <1>14, <1>15, <1>16, <1>17, <1>18, <1>19, <1>20, <1>21, <1>23, <1>24, <1>25,
     <1>26, <1>27
     DEF Next, CallStep, AgentStep, PassStep, RunStep

-----------------------------------------------------------------------------
(* What a step leaves of a call: once begun it stays begun, for the same      *)
(* thing; and only Begin begins one.                                          *)
LEMMA CallFrame ==
  ASSUME TypeOK, [Next]_vars, NEW o \in Ops
  PROVE  /\ Begun(o) => Begun(o)' /\ kind'[o] = kind[o] /\ target'[o] = target[o]
         /\ Begun(o)' => \/ Begun(o)
                         \/ \E k \in AllKinds, c \in Containers : Begin(o, k, c)
         /\ \/ target'[o] = target[o]
            \/ \E k \in AllKinds, c \in Containers : Begin(o, k, c)
<1> DEFINE Frame == /\ Begun(o) <=> Begun(o)'
                    /\ kind'[o] = kind[o] /\ target'[o] = target[o]
<1> USE DEF call, Begun
<1>0. /\ pc \in [Workers -> Places] /\ Ops \subseteq Workers /\ o \notin Runners
  BY Zenon, ConstantsAssumption DEF TypeOK, Workers
<1>1. ASSUME NEW p \in Ops, NEW k \in AllKinds, NEW c \in Containers, Begin(p, k, c)
      PROVE  Frame \/ (p = o /\ ~Begun(o))
  <2>1. /\ pc[p] = "idle" /\ pc' = [pc EXCEPT ![p] = "guarded"]
        /\ kind' = [kind EXCEPT ![p] = k] /\ target' = [target EXCEPT ![p] = c]
    BY Zenon, <1>1 DEF Begin
  <2> QED BY Zenon, <2>1 DEF TypeOK, Workers
<1>2. ASSUME NEW p \in Ops, acquire(p) \/ Prepare(p) PROVE Frame
  <2>1. \E pl \in {"locked", "prepared", "done"} : pc' = [pc EXCEPT ![p] = pl]
    BY Zenon, <1>2 DEF acquire, Prepare
  <2>2. pc[p] # "idle" /\ UNCHANGED <<kind, target>>
    BY Zenon, <1>2 DEF acquire, Prepare
  <2> QED BY Zenon, <2>1, <2>2 DEF TypeOK, Workers
<1>3. ASSUME NEW gone, NEW status, GivenUp(gone, status), UNCHANGED call,
             \A p \in gone : pc[p] # "idle"
      PROVE  Frame
  BY Zenon, <1>3 DEF TypeOK, GivenUp, Workers
<1>4. ASSUME NEW p \in Ops, dispatch(p) \/ Timeout(p) \/ Reply(p) \/ Report(p) PROVE Frame
  <2>1. pc[p] # "idle" /\ UNCHANGED call
    BY Zenon, <1>4 DEF dispatch, Timeout, Reply, Report
  <2>2. CASE \E status : GivenUp({p}, status)
    <3>1. PICK status : GivenUp({p}, status)
      BY Zenon, <2>2
    <3>2. pc'[o] = IF o = p THEN "done" ELSE pc[o]
      BY Zenon, <3>1 DEF GivenUp, Workers
    <3> QED BY Zenon, <2>1, <3>2
  <2>3. CASE \E pl \in {"waiting", "report", "resync", "done"} : pc' = [pc EXCEPT ![p] = pl]
    BY Zenon, <1>0, <2>1, <2>3
  <2> QED BY Zenon, <1>4, <2>2, <2>3 DEF dispatch, Timeout, Reply, Report
<1>5. ASSUME UNCHANGED <<pc, call>> PROVE Frame
  BY Zenon, <1>5
<1>6. ASSUME NEW w \in Workers, PassStep(w) PROVE Frame
  <2>1. CASE UNCHANGED <<pc, call>>
    BY Zenon, <2>1, <1>5
  <2>2. CASE classify(w) \/ Finalize(w) \/ FinalizeThrows(w)
    <3>1. /\ pc[w] # "idle" /\ UNCHANGED <<kind, target>>
          /\ \E pl \in {"decide", "done"} : w \in Ops => pc' = [pc EXCEPT ![w] = pl]
          /\ \E pl \in Places : pc' = [pc EXCEPT ![w] = pl]
      BY Zenon, <2>2 DEF classify, Finalize, FinalizeThrows, Places
    <3> QED BY Zenon, <1>0, <3>1 DEF Workers
  <2> QED BY Zenon, <1>6, <2>1, <2>2 DEF PassStep, PassStart, PassList, PassFail, applyContainers,
                                  PassEnd
<1>7. ASSUME NEW s \in Runners, RunStep(s) PROVE Frame
  <2>1. s # o
    BY Zenon, ConstantsAssumption
  <2>2. CASE RunPassed(s)
    <3>1. \E p \in {"recover", "idle"} : pc' = [pc EXCEPT ![s] = p]
      BY Zenon, <2>2 DEF RunPassed
    <3> QED BY Zenon, <2>1, <2>2, <3>1 DEF TypeOK, RunPassed, Workers
  <2>3. CASE RunStart(s) \/ RunEnd(s) \/ \E p \in Ops : recoverHost(s, p)
    BY Zenon, <2>1, <2>3 DEF TypeOK, RunStart, RunEnd, recoverHost, Workers
  <2> QED BY Zenon, <1>7, <2>2, <2>3 DEF RunStep
<1>8. ASSUME NEW p \in Ops, AgentStep(p) PROVE Frame
  <2>1. UNCHANGED serverSide
    BY Zenon, <1>8 DEF AgentStep, Accept, Refuse, Create, Replace, Commit, Rollback, Remove,
                Lifecycle
  <2> QED BY Zenon, <2>1, <1>5 DEF serverSide
<1>9. ASSUME Disconnect \/ AgentRestart \/ \E p \in Ops : LateReply(p) PROVE Frame
  <2>1. \E lost : Lost(lost)
    BY Zenon, <1>9 DEF Disconnect, AgentRestart, LateReply
  <2> DEFINE gone == {p \in Ops : pc[p] = "waiting"}
  <2>2. GivenUp(gone, "failed") /\ UNCHANGED call
    BY Zenon, <2>1 DEF Lost
  <2>3. \A p \in gone : pc[p] # "idle"
    BY Zenon
  <2> HIDE DEF gone
  <2> QED BY Zenon, <2>2, <2>3, <1>3
<1>10. ASSUME ServerRestart PROVE Frame
  BY Zenon, <1>10, ConstantsAssumption DEF TypeOK, ServerRestart, Workers
<1>11. ASSUME Reconnect \/ \E d \in Claims : ExternalRemove(d) PROVE Frame
  BY Zenon, <1>11, <1>5 DEF Reconnect, ExternalRemove, serverSide
<1>12. CASE UNCHANGED vars
  BY Zenon, <1>12, <1>5 DEF vars
<1> QED
  BY Zenon, <1>1, <1>2, <1>4, <1>6, <1>7, <1>8, <1>9, <1>10, <1>11, <1>12 DEF Next, CallStep

(* What a step does to an action row: nothing, or it is written under the     *)
(* lock, or it is a lifecycle call's own, or it was open and is settled by    *)
(* whoever reconciled that very operation.                                    *)
LEMMA ActionFrame ==
  ASSUME TypeOK, Known, [Next]_vars, NEW o \in Ops
  PROVE  \/ action'[o] = action[o]
         \/ pc[o] = "locked" /\ pc'[o] \in {"prepared", "done"} /\ action'[o] = "running"
         \/ kind[o] = "lifecycle" /\ pc[o] \in Holding \ {"locked"}
         \/ /\ action[o] = "running" /\ action'[o] \in {"succeeded", "failed"}
            /\ \E w \in Workers : Finalize(w) /\ Subject(w) = o
<1> USE DEF db
<1>0. action \in [Ops -> Statuses] /\ pc \in [Workers -> Places] /\ Ops \subseteq Workers
  BY Zenon DEF TypeOK, Workers
<1>1. CASE UNCHANGED action
  BY Zenon, <1>1
<1>2. ASSUME NEW p \in Ops, Prepare(p), prepare(p)
      PROVE  action'[o] = action[o]
               \/ (pc[o] = "locked" /\ pc'[o] \in {"prepared", "done"} /\ action'[o] = "running")
  <2>1. action' = [action EXCEPT ![p] = "running"] /\ pc[p] = "locked"
    BY Zenon, <1>2
       DEF Prepare, prepare, prepareCreate, prepareReplace, prepareRemove, prepareLifecycle
  <2>2. \E pl \in {"prepared", "done"} : pc' = [pc EXCEPT ![p] = pl]
    BY Zenon, <1>2 DEF Prepare
  <2> QED BY Zenon, <1>0, <2>1, <2>2
<1>3. ASSUME NEW gone, NEW status, GivenUp(gone, status),
             \A p \in gone : pc[p] \in Holding \ {"locked"}
      PROVE  action'[o] = action[o] \/ (kind[o] = "lifecycle" /\ pc[o] \in Holding \ {"locked"})
  BY Zenon, <1>3 DEF GivenUp
<1>4. ASSUME NEW p \in Ops, dispatch(p) \/ Timeout(p) \/ Reply(p) \/ Report(p)
      PROVE  action'[o] = action[o] \/ (kind[o] = "lifecycle" /\ pc[o] \in Holding \ {"locked"})
  <2>1. pc[p] \in Holding \ {"locked"}
    BY Zenon, <1>4 DEF dispatch, Timeout, Reply, Report, Holding
  <2>2. CASE \E status : GivenUp({p}, status)
    <3>1. PICK status : GivenUp({p}, status)
      BY Zenon, <2>2
    <3>2. action'[o] = action[o] \/ (o = p /\ kind[o] = "lifecycle")
      BY Zenon, <3>1 DEF GivenUp
    <3> QED BY Zenon, <2>1, <3>2
  <2>3. CASE kind[p] = "lifecycle" /\ action' = [action EXCEPT ![p] = "succeeded"]
    BY Zenon, <1>0, <2>1, <2>3
  <2>4. CASE UNCHANGED action
    BY Zenon, <2>4
  <2> QED BY Zenon, <1>4, <2>2, <2>3, <2>4 DEF dispatch, Timeout, Reply, Report
<1>5. ASSUME NEW w \in Workers, Finalize(w)
      PROVE  \/ action'[o] = action[o]
             \/ /\ action[o] = "running" /\ action'[o] \in {"succeeded", "failed"}
                /\ Subject(w) = o
  <2> DEFINE p == Subject(w)
  <2>1. CASE UNCHANGED action
    BY Zenon, <2>1
  <2>2. CASE claim(p) /\ \E st \in {"succeeded", "failed"} : Finish(p, st)
    BY Zenon, <1>0, <2>2 DEF claim, Finish
  <2> QED BY Zenon, <1>5, <2>1, <2>2 DEF Finalize, finalize, promote, discard, finalizeRemove,
                                  failOperation, recordConflict, needsAttention
<1>6. ASSUME Disconnect \/ AgentRestart \/ \E p \in Ops : LateReply(p)
      PROVE  action'[o] = action[o] \/ (kind[o] = "lifecycle" /\ pc[o] \in Holding \ {"locked"})
  <2>1. \E lost : Lost(lost)
    BY Zenon, <1>6 DEF Disconnect, AgentRestart, LateReply
  <2>2. GivenUp({p \in Ops : pc[p] = "waiting"}, "failed")
    BY Zenon, <2>1 DEF Lost
  <2> QED BY <2>2, <1>3 DEF Holding
<1>7. ASSUME NEW w \in Workers, PassStep(w) PROVE Finalize(w) \/ UNCHANGED action
  BY Zenon, <1>7 DEF PassStep, PassStart, PassList, PassFail, applyContainers, PassEnd, classify,
              FinalizeThrows
<1>8. ASSUME NEW s \in Runners, RunStep(s) PROVE UNCHANGED action
  BY Zenon, <1>8 DEF RunStep, RunStart, RunPassed, RunEnd, recoverHost
<1>9. ASSUME NEW p \in Ops, AgentStep(p) PROVE UNCHANGED action
  BY Zenon, <1>9 DEF AgentStep, Accept, Refuse, Create, Replace, Commit, Rollback, Remove,
              Lifecycle, serverSide
<1>10. ASSUME NEW p \in Ops,
              acquire(p) \/ Prepare(p) \/ \E k \in AllKinds, c \in Containers : Begin(p, k, c)
       PROVE  UNCHANGED action \/ (Prepare(p) /\ prepare(p))
  <2>1. CASE Prepare(p)
    BY Zenon, <2>1 DEF Prepare
  <2>2. CASE acquire(p)
    BY Zenon, <2>2 DEF acquire
  <2>3. CASE \E k \in AllKinds, c \in Containers : Begin(p, k, c)
    BY Zenon, <2>3 DEF Begin
  <2> QED BY Zenon, <1>10, <2>1, <2>2, <2>3
<1>11. ASSUME ServerRestart \/ Reconnect \/ \E d \in Claims : ExternalRemove(d)
       PROVE  UNCHANGED action
  BY Zenon, <1>11 DEF ServerRestart, Reconnect, ExternalRemove, serverSide
<1>12. CASE UNCHANGED vars
  BY Zenon, <1>12 DEF vars
<1> QED
  BY Zenon, <1>1, <1>2, <1>4, <1>5, <1>6, <1>7, <1>8, <1>9, <1>10, <1>11, <1>12 DEF Next, CallStep

(* Who refers to a call after a step refers to one that has begun. *)
LEMMA KnownStep ==
  ASSUME TypeOK, Known, [Next]_vars
  PROVE  Known'
<1> USE DEF db, call, runs, env, serverSide
<1>1. ASSUME NEW o \in Ops, Begun(o)' PROVE kind'[o] \in AllKinds /\ target'[o] \in Containers
  <2>1. CASE Begun(o)
    BY Zenon, <2>1, CallFrame DEF Known
  <2>2. ASSUME NEW k \in AllKinds, NEW c \in Containers, Begin(o, k, c)
        PROVE  kind'[o] = k /\ target'[o] = c
    BY Zenon, <2>2 DEF Begin, TypeOK
  <2> QED BY Zenon, <1>1, <2>1, <2>2, CallFrame
<1>2. ASSUME NEW o \in Ops, action'[o] # "none" PROVE Begun(o)'
  <2>1. action[o] # "none" => Begun(o)
    BY Zenon DEF Known
  <2>2. Begun(o)
    <3>1. \/ action'[o] = action[o] \/ pc[o] = "locked"
          \/ pc[o] \in Holding \ {"locked"} \/ action[o] = "running"
      BY Zenon, ActionFrame
    <3> QED BY <1>2, <2>1, <3>1 DEF Begun, Holding
  <2> QED BY Zenon, <2>2, CallFrame
<1>3. ASSUME NEW o \in Ops, request'[o] # "none" \/ o \in built' PROVE Begun(o)'
  <2>0. /\ request \in [Ops -> Requests] /\ pc \in [Workers -> Places] /\ Ops \subseteq Workers
        /\ request[o] # "none" \/ o \in built => Begun(o)
    BY Zenon DEF TypeOK, Known, Workers
  <2>1. ASSUME ~Begun(o) PROVE FALSE
    <3>0. request[o] = "none" /\ o \notin built
      BY Zenon, <2>0, <2>1
    <3>1. ASSUME NEW p \in Ops, dispatch(p) \/ Reply(p) PROVE FALSE
      BY Zenon, <1>3, <2>0, <2>1, <3>0, <3>1 DEF dispatch, Reply, Begun
    <3>2. ASSUME NEW p \in Ops, AgentStep(p) PROVE FALSE
      <4>1. p # o
        BY Zenon, <3>0, <3>2
           DEF AgentStep, Accept, Refuse, Create, Replace, Commit, Rollback, Remove,
                          Lifecycle
      <4>2. request'[o] = request[o] /\ (built' = built \/ built' = built \cup {p})
        BY Zenon, <2>0, <3>2, <4>1 DEF AgentStep, Accept, Refuse, Create, Replace, Commit, Rollback,
                                Remove, Lifecycle, Answer
      <4> QED BY Zenon, <1>3, <3>0, <4>1, <4>2
    <3>3. ASSUME NEW lost, Lost(lost), "none" \notin lost PROVE FALSE
      BY Zenon, <1>3, <3>0, <3>3 DEF Lost
    <3>4. ASSUME Disconnect \/ AgentRestart \/ \E p \in Ops : LateReply(p) PROVE FALSE
      <4>1. \E lost : Lost(lost) /\ "none" \notin lost
        BY <3>4 DEF Disconnect, AgentRestart, LateReply, OnTheWire
      <4> QED BY Zenon, <3>3, <4>1
    <3>5. ASSUME ServerRestart PROVE FALSE
      BY Zenon, <1>3, <3>0, <3>5 DEF ServerRestart, OnTheWire
    <3>6. CASE UNCHANGED <<request, built>>
      BY Zenon, <1>3, <3>0, <3>6
    <3>7. ASSUME NEW p \in Ops, acquire(p) \/ Prepare(p) \/ Timeout(p) \/ Report(p)
          PROVE  UNCHANGED <<request, built>>
      BY Zenon, <3>7 DEF acquire, Prepare, Timeout, Report
    <3>8. ASSUME NEW p \in Ops, NEW k \in AllKinds, NEW c \in Containers, Begin(p, k, c)
          PROVE  UNCHANGED <<request, built>>
      BY Zenon, <3>8 DEF Begin
    <3>9. ASSUME NEW w \in Workers, PassStep(w) PROVE UNCHANGED <<request, built>>
      BY Zenon, <3>9
         DEF PassStep, PassStart, PassList, PassFail, applyContainers, PassEnd, classify,
                  Finalize, FinalizeThrows
    <3>10. ASSUME NEW s \in Runners, RunStep(s) PROVE UNCHANGED <<request, built>>
      BY Zenon, <3>10 DEF RunStep, RunStart, RunPassed, RunEnd, recoverHost
    <3>11. ASSUME Reconnect \/ \E d \in Claims : ExternalRemove(d)
           PROVE  UNCHANGED <<request, built>>
      BY Zenon, <3>11 DEF Reconnect, ExternalRemove
    <3>12. CASE UNCHANGED vars
      BY Zenon, <3>6, <3>12 DEF vars
    <3> QED BY Zenon, <3>1, <3>2, <3>4, <3>5, <3>6, <3>7, <3>8, <3>9, <3>10, <3>11, <3>12
               DEF Next, CallStep
  <2> QED BY Zenon, <2>1, CallFrame
<1>4. ASSUME NEW s \in Runners, NEW o \in todo'[s] PROVE o \in Ops /\ Begun(o)'
  <2>0. /\ todo \in [Runners -> SUBSET Ops]
        /\ \A p \in todo[s] : Begun(p)
        /\ \A p \in unresolvedOperations : p \in Ops /\ Begun(p)
    BY Zenon DEF TypeOK, Known, unresolvedOperations
  <2>1. todo'[s] \subseteq todo[s] \cup unresolvedOperations
    <3>1. CASE UNCHANGED todo
      BY Zenon, <3>1
    <3>2. ASSUME NEW r \in Runners, RunPassed(r) \/ \E p \in Ops : recoverHost(r, p)
          PROVE  todo'[s] \subseteq todo[s] \cup unresolvedOperations
      BY <2>0, <3>2 DEF RunPassed, recoverHost
    <3>3. ASSUME NEW w \in Workers, FinalizeThrows(w)
          PROVE  todo'[s] \subseteq todo[s] \cup unresolvedOperations
      BY Zenon, <2>0, <3>3 DEF FinalizeThrows
    <3>4. ASSUME ServerRestart PROVE todo'[s] = {}
      BY Zenon, <3>4 DEF ServerRestart
    <3>5. ASSUME NEW p \in Ops, CallStep(p) \/ Timeout(p) PROVE UNCHANGED todo
      BY Zenon, <3>5 DEF CallStep, acquire, Prepare, dispatch, Reply, Report, Timeout
    <3>6. ASSUME NEW p \in Ops, NEW k \in AllKinds, NEW c \in Containers, Begin(p, k, c)
          PROVE  UNCHANGED todo
      BY Zenon, <3>6 DEF Begin
    <3>7. ASSUME NEW w \in Workers, PassStep(w) PROVE UNCHANGED todo \/ FinalizeThrows(w)
      BY Zenon, <3>7
         DEF PassStep, PassStart, PassList, PassFail, applyContainers, PassEnd, classify,
                  Finalize
    <3>8. ASSUME NEW p \in Ops, AgentStep(p) PROVE UNCHANGED todo
      BY Zenon, <3>8
         DEF AgentStep, Accept, Refuse, Create, Replace, Commit, Rollback, Remove, Lifecycle
    <3>9. ASSUME Disconnect \/ AgentRestart \/ Reconnect \/ (\E p \in Ops : LateReply(p))
                   \/ (\E d \in Claims : ExternalRemove(d))
          PROVE  UNCHANGED todo
      BY Zenon, <3>9 DEF Disconnect, AgentRestart, Reconnect, LateReply, ExternalRemove, Lost
    <3>10. ASSUME NEW r \in Runners, RunStart(r) \/ RunEnd(r) PROVE UNCHANGED todo
      BY Zenon, <3>10 DEF RunStart, RunEnd
    <3>11. CASE UNCHANGED vars
      BY Zenon, <3>1, <3>11 DEF vars
    <3> QED BY Zenon, <3>1, <3>2, <3>3, <3>4, <3>5, <3>6, <3>7, <3>8, <3>9, <3>10, <3>11
               DEF Next, RunStep
  <2> QED BY Zenon, <2>0, <2>1, CallFrame
<1>5. ASSUME NEW s \in Runners
      PROVE  /\ subject'[s] \in {subject[s], None} \cup todo[s]
             /\ pc'[s] \in {"resync", "decide"} =>
                  \/ subject'[s] = subject[s] /\ pc[s] \in {"resync", "decide"}
                  \/ subject'[s] \in todo[s]
  <2> DEFINE Same == subject'[s] = subject[s] /\ pc'[s] = pc[s]
             Off  == subject'[s] \in {subject[s], None} /\ pc'[s] \notin {"resync", "decide"}
             Took == subject'[s] \in todo[s]
             Went == subject'[s] = subject[s] /\ pc[s] = "resync"
  <2>0. /\ subject \in [Runners -> Ops \cup {None}] /\ pc \in [Workers -> Places]
        /\ s \in Workers /\ Ops \subseteq Workers /\ s \notin Ops
    BY Zenon, ConstantsAssumption DEF TypeOK, Workers
  <2>1. ASSUME NEW p \in Ops, NEW k \in AllKinds, NEW c \in Containers, Begin(p, k, c)
        PROVE  Same
    <3>1. pc' = [pc EXCEPT ![p] = "guarded"] /\ UNCHANGED subject
      BY Zenon, <2>1 DEF Begin
    <3> QED BY Zenon, <2>0, <3>1
  <2>2. ASSUME NEW p \in Ops, CallStep(p) \/ Timeout(p) PROVE Same
    <3>1. UNCHANGED subject
      BY Zenon, <2>2 DEF CallStep, acquire, Prepare, dispatch, Reply, Report, Timeout
    <3>2. \/ \E pl \in Places : pc' = [pc EXCEPT ![p] = pl]
          \/ \E st : GivenUp({p}, st)
      BY Zenon, <2>2 DEF CallStep, acquire, Prepare, dispatch, Reply, Report, Timeout, Places
    <3> QED BY Zenon, <2>0, <3>1, <3>2 DEF GivenUp
  <2>3. ASSUME NEW w \in Workers, PassStep(w) PROVE Same \/ Off \/ Went
    <3>1. CASE classify(w)
      BY Zenon, <2>0, <3>1 DEF classify
    <3>2. CASE Finalize(w)
      BY Zenon, <2>0, <3>2 DEF Finalize
    <3>3. CASE FinalizeThrows(w)
      BY Zenon, <2>0, <3>3 DEF FinalizeThrows
    <3>4. CASE UNCHANGED <<pc, subject>>
      BY Zenon, <3>4
    <3> QED BY Zenon, <2>3, <3>1, <3>2, <3>3, <3>4
               DEF PassStep, PassStart, PassList, PassFail, applyContainers, PassEnd
  <2>4. ASSUME NEW r \in Runners, RunStep(r) PROVE Same \/ Off \/ Took
    <3>1. CASE RunPassed(r)
      <4>1. \E pl \in {"recover", "idle"} : pc' = [pc EXCEPT ![r] = pl]
        BY Zenon, <3>1 DEF RunPassed
      <4> QED BY Zenon, <2>0, <3>1, <4>1 DEF RunPassed
    <3>2. CASE RunStart(r) \/ RunEnd(r)
      BY Zenon, <2>0, <3>2 DEF RunStart, RunEnd
    <3>3. CASE \E p \in Ops : recoverHost(r, p)
      BY <2>0, <3>3 DEF recoverHost
    <3> QED BY Zenon, <2>4, <3>1, <3>2, <3>3 DEF RunStep
  <2>5. ASSUME NEW p \in Ops, AgentStep(p) PROVE Same
    BY Zenon, <2>5
       DEF AgentStep, Accept, Refuse, Create, Replace, Commit, Rollback, Remove, Lifecycle
  <2>6. ASSUME Disconnect \/ AgentRestart \/ \E p \in Ops : LateReply(p) PROVE Same
    <3>1. \E lost : Lost(lost)
      BY Zenon, <2>6 DEF Disconnect, AgentRestart, LateReply
    <3>2. GivenUp({p \in Ops : pc[p] = "waiting"}, "failed") /\ UNCHANGED subject
      BY Zenon, <3>1 DEF Lost
    <3> QED BY Zenon, <2>0, <3>2 DEF GivenUp
  <2>7. ASSUME ServerRestart PROVE Off
    BY Zenon, <2>0, <2>7 DEF ServerRestart
  <2>8. ASSUME Reconnect \/ \E d \in Claims : ExternalRemove(d) PROVE Same
    BY Zenon, <2>8 DEF Reconnect, ExternalRemove
  <2> HIDE DEF Same, Off, Took, Went
  <2>10. Same \/ Off \/ Took \/ Went
    <3>1. CASE UNCHANGED vars
      <4>1. Same
        BY Zenon, <3>1 DEF vars, Same
      <4> QED BY Zenon, <4>1
    <3>2. CASE Next
      BY Zenon, <3>2, <2>1, <2>2, <2>3, <2>4, <2>5, <2>6, <2>7, <2>8 DEF Next
    <3> QED BY Zenon, <3>1, <3>2
  <2> QED BY Zenon, <2>10 DEF Same, Off, Took, Went
<1>6. ASSUME NEW s \in Runners, subject'[s] # None PROVE pc'[subject'[s]] # "idle"
  <2>1. subject[s] \in Ops \cup {None} /\ todo[s] \subseteq Ops
    BY Zenon DEF TypeOK
  <2>2. subject'[s] \in Ops /\ Begun(subject'[s])
    BY Zenon, <1>5, <1>6, <2>1 DEF Known
  <2>3. ASSUME NEW o \in Ops, Begun(o) PROVE pc'[o] # "idle"
    BY Zenon, <2>3, CallFrame DEF Begun
  <2> QED BY Zenon, <2>2, <2>3
<1>7. ASSUME NEW s \in Runners, pc'[s] \in {"resync", "decide"} PROVE subject'[s] # None
  <2>1. todo[s] \subseteq Ops
    BY Zenon DEF TypeOK
  <2> QED BY Zenon, <1>5, <1>7, <2>1, ConstantsAssumption DEF Known
<1> QED BY Zenon, <1>1, <1>2, <1>3, <1>4, <1>6, <1>7 DEF Known, Begun

(* It all holds of the initial state. *)
LEMMA InitTypeKnown == Init => TypeOK /\ Known
<1> SUFFICES ASSUME Init PROVE TypeOK /\ Known
  BY Zenon
<1>1. /\ rows \subseteq Containers /\ conflict \subseteq Containers
      /\ docker \in [Containers -> Configs \cup {None}]
      /\ snap \in [Containers -> Workers \cup {None}]
      /\ current \in [Containers -> Configs \cup {None}]
      /\ pending \in [Containers -> Ops \cup {None}]
      /\ action \in [Ops -> Statuses]
  BY Zenon, ConstantsAssumption DEF Init, Configs, Statuses
<1>2. /\ kind \in [Ops -> AllKinds \cup {None}] /\ target \in [Ops -> Containers \cup {None}]
      /\ address \in [Ops -> Configs \cup {None}]
      /\ pc \in [Workers -> Places] /\ held \in [Keys -> Ops \cup {None}]
  BY Zenon DEF Init, Places
<1>3. pass \in [Workers -> Passes]
  <2>1. NoPass \in Passes
    BY Zenon DEF NoPass, Passes, PassStates
  <2> QED BY Zenon, <2>1 DEF Init
<1>4. verdict \in [Workers -> [kind : DecisionKinds, config : Configs \cup {None}]]
  <2>1. Plain("no_action") \in [kind : DecisionKinds, config : Configs \cup {None}]
    BY Zenon DEF Plain, Decision, DecisionKinds
  <2>2. verdict = [w \in Workers |-> Plain("no_action")]
    BY Zenon DEF Init
  <2> HIDE DEF Init
  <2> QED BY Zenon, <2>1, <2>2
<1>5. /\ todo \in [Runners -> SUBSET Ops] /\ subject \in [Runners -> Ops \cup {None}]
      /\ live \subseteq Runners /\ connected \in BOOLEAN /\ request \in [Ops -> Requests]
      /\ built \subseteq Ops /\ budget \in [Faults -> Nat]
  <2>1. /\ todo = [s \in Runners |-> {}] /\ subject = [s \in Runners |-> None]
        /\ live = {} /\ connected = TRUE /\ request = [o \in Ops |-> "none"]
        /\ built = {} /\ budget = Budget
    BY Zenon DEF Init
  <2> QED BY Zenon, <2>1, ConstantsAssumption DEF Requests
<1>6. host \subseteq Claims
  <2>1. host = {[container |-> c, config |-> Genesis] : c \in Managed}
    BY Zenon DEF Init
  <2> HIDE DEF Init
  <2>2. ASSUME NEW c \in Managed PROVE [container |-> c, config |-> Genesis] \in Claims
    BY Zenon, ConstantsAssumption DEF Claims, Configs
  <2> QED BY Zenon, <2>1, <2>2
<1>7. Known
  BY Zenon DEF Init, Known, Begun, Workers
<1> QED BY Zenon, <1>1, <1>2, <1>3, <1>4, <1>5, <1>6, <1>7 DEF TypeOK

(* Every variable keeps its type, through every interleaving and fault of     *)
(* the management calls, discovery and recovery.                              *)
THEOREM TypeCorrect == Spec => []TypeOK
<1>1. TypeOK /\ Known /\ [Next]_vars => TypeOK' /\ Known'
  BY Zenon, TypeStep, KnownStep
<1> QED BY <1>1, InitTypeKnown, PTL DEF Spec

-----------------------------------------------------------------------------
(* A call goes through its places in order, and may be cut short from any.    *)
LEMMA PlaceFrame ==
  ASSUME TypeOK, [Next]_vars, NEW o \in Ops
  PROVE  \/ pc'[o] = pc[o]
         \/ pc[o] = "idle" /\ pc'[o] = "guarded"
         \/ pc[o] = "guarded" /\ pc'[o] = "locked" /\ acquire(o)
         \/ pc[o] = "locked" /\ pc'[o] = "prepared" /\ prepare(o)
         \/ pc[o] \in Holding \ {"locked"} /\ pc'[o] \in Holding \ {"locked", "prepared"}
         \/ pc[o] # "idle" /\ pc'[o] = "done"
<1> DEFINE Cut == pc'[o] = pc[o] \/ (pc[o] # "idle" /\ pc'[o] = "done")
           Later == pc[o] \in Holding \ {"locked"} /\ pc'[o] \in Holding \ {"locked", "prepared"}
<1>0. pc \in [Workers -> Places] /\ Ops \subseteq Workers /\ o \notin Runners
  BY Zenon, ConstantsAssumption DEF TypeOK, Workers
<1>1. ASSUME NEW p \in Ops, NEW k \in AllKinds, NEW c \in Containers, Begin(p, k, c)
      PROVE  pc'[o] = pc[o] \/ (pc[o] = "idle" /\ pc'[o] = "guarded")
  <2>1. pc[p] = "idle" /\ pc' = [pc EXCEPT ![p] = "guarded"]
    BY Zenon, <1>1 DEF Begin
  <2> QED BY Zenon, <1>0, <2>1
<1>2. ASSUME NEW p \in Ops, acquire(p)
      PROVE  Cut \/ (pc[o] = "guarded" /\ pc'[o] = "locked" /\ acquire(o))
  <2>1. pc[p] = "guarded" /\ \E pl \in {"locked", "done"} : pc' = [pc EXCEPT ![p] = pl]
    BY Zenon, <1>2 DEF acquire
  <2>2. CASE p = o
    BY Zenon, <1>0, <1>2, <2>1, <2>2
  <2>3. CASE p # o
    BY Zenon, <1>0, <2>1, <2>3
  <2> QED BY Zenon, <2>2, <2>3
<1>3. ASSUME NEW p \in Ops, Prepare(p)
      PROVE  Cut \/ (pc[o] = "locked" /\ pc'[o] = "prepared" /\ prepare(o))
  <2>1. /\ pc[p] = "locked"
        /\ \/ pc' = [pc EXCEPT ![p] = "done"]
           \/ pc' = [pc EXCEPT ![p] = "prepared"] /\ prepare(p)
    BY Zenon, <1>3 DEF Prepare
  <2>2. CASE p = o
    BY Zenon, <1>0, <2>1, <2>2
  <2>3. CASE p # o
    BY Zenon, <1>0, <2>1, <2>3
  <2> QED BY Zenon, <2>2, <2>3
<1>4. ASSUME NEW gone, NEW status, GivenUp(gone, status), \A p \in gone : pc[p] # "idle"
      PROVE  Cut
  BY Zenon, <1>0, <1>4 DEF GivenUp
<1>5. ASSUME NEW p \in Ops, dispatch(p) \/ Timeout(p) \/ Reply(p) \/ Report(p)
      PROVE  Cut \/ Later
  <2>1. pc[p] \in Holding \ {"locked"}
    BY Zenon, <1>5 DEF dispatch, Timeout, Reply, Report, Holding
  <2>2. CASE \E status : GivenUp({p}, status)
    <3>1. pc[p] # "idle"
      BY Zenon, <2>1 DEF Holding
    <3>2. PICK status : GivenUp({p}, status)
      BY Zenon, <2>2
    <3> QED BY <1>4, <3>1, <3>2
  <2>3. CASE \E pl \in {"waiting", "report", "resync", "done"} : pc' = [pc EXCEPT ![p] = pl]
    BY Zenon, <1>0, <2>1, <2>3 DEF Holding
  <2> QED BY Zenon, <1>5, <2>2, <2>3 DEF dispatch, Timeout, Reply, Report
<1>6. ASSUME NEW w \in Workers, PassStep(w) PROVE Cut \/ Later
  <2>1. CASE classify(w)
    BY Zenon, <1>0, <2>1 DEF classify, Holding
  <2>2. CASE Finalize(w) \/ FinalizeThrows(w)
    BY Zenon, <1>0, <2>2 DEF Finalize, FinalizeThrows
  <2>3. CASE UNCHANGED pc
    BY Zenon, <2>3
  <2> QED BY Zenon, <1>6, <2>1, <2>2, <2>3 DEF PassStep, PassStart, PassList, PassFail,
                                        applyContainers, PassEnd
<1>7. ASSUME NEW s \in Runners, RunStep(s) PROVE Cut
  <2>1. CASE RunPassed(s)
    <3>1. \E pl \in {"recover", "idle"} : pc' = [pc EXCEPT ![s] = pl]
      BY Zenon, <2>1 DEF RunPassed
    <3> QED BY Zenon, <1>0, <3>1
  <2>2. CASE RunStart(s) \/ RunEnd(s) \/ \E p \in Ops : recoverHost(s, p)
    BY Zenon, <1>0, <2>2 DEF RunStart, RunEnd, recoverHost
  <2> QED BY Zenon, <1>7, <2>1, <2>2 DEF RunStep
<1>8. ASSUME NEW p \in Ops, AgentStep(p) PROVE Cut
  BY Zenon, <1>8
     DEF AgentStep, Accept, Refuse, Create, Replace, Commit, Rollback, Remove, Lifecycle,
              serverSide
<1>9. ASSUME Disconnect \/ AgentRestart \/ \E p \in Ops : LateReply(p) PROVE Cut
  <2>1. \E lost : Lost(lost)
    BY Zenon, <1>9 DEF Disconnect, AgentRestart, LateReply
  <2>2. GivenUp({p \in Ops : pc[p] = "waiting"}, "failed")
    BY Zenon, <2>1 DEF Lost
  <2> QED BY <1>4, <2>2
<1>10. ASSUME ServerRestart PROVE Cut
  BY Zenon, <1>0, <1>10 DEF ServerRestart
<1>11. ASSUME Reconnect \/ \E d \in Claims : ExternalRemove(d) PROVE Cut
  BY Zenon, <1>11 DEF Reconnect, ExternalRemove, serverSide
<1>12. CASE UNCHANGED vars
  BY Zenon, <1>12 DEF vars
<1>13. CASE Next
  <2> HIDE DEF Cut, Later
  <2>1. \/ Cut \/ Later
        \/ pc[o] = "idle" /\ pc'[o] = "guarded"
        \/ pc[o] = "guarded" /\ pc'[o] = "locked" /\ acquire(o)
        \/ pc[o] = "locked" /\ pc'[o] = "prepared" /\ prepare(o)
    BY Zenon, <1>13, <1>1, <1>2, <1>3, <1>5, <1>6, <1>7, <1>8, <1>9, <1>10, <1>11
       DEF Next, CallStep, Cut
  <2> QED BY Zenon, <2>1 DEF Cut, Later
<1> QED BY Zenon, <1>12, <1>13

(* A row appears only with the create that writes it. *)
LEMMA RowsFrame ==
  ASSUME TypeOK, [Next]_vars
  PROVE  \/ rows' \subseteq rows
         \/ \E p \in Ops : Prepare(p) /\ prepareCreate(p) /\ rows' = rows \cup {target[p]}
<1> USE DEF db
<1>1. ASSUME NEW p \in Ops, Prepare(p)
      PROVE  rows' \subseteq rows \/ (prepareCreate(p) /\ rows' = rows \cup {target[p]})
  BY Zenon, <1>1
     DEF Prepare, prepare, prepareCreate, prepareReplace, prepareRemove, prepareLifecycle
<1>2. ASSUME NEW w \in Workers, PassStep(w) PROVE rows' \subseteq rows
  <2>1. CASE Finalize(w)
    BY Zenon, <2>1 DEF Finalize, finalize, promote, discard, finalizeRemove, failOperation,
                recordConflict, needsAttention, DeleteRows
  <2>2. CASE PassEnd(w)
    BY Zenon, <2>2 DEF PassEnd, DeleteRows
  <2> QED BY Zenon, <1>2, <2>1, <2>2 DEF PassStep, PassStart, PassList, PassFail, applyContainers,
                                  classify, FinalizeThrows
<1>3. ASSUME NEW p \in Ops,
             acquire(p) \/ dispatch(p) \/ Reply(p) \/ Report(p) \/ Timeout(p) \/ LateReply(p)
      PROVE  UNCHANGED rows
  BY Zenon, <1>3 DEF acquire, dispatch, Reply, Report, Timeout, LateReply, Lost
<1>4. ASSUME NEW p \in Ops, NEW k \in AllKinds, NEW c \in Containers, Begin(p, k, c)
      PROVE  UNCHANGED rows
  BY Zenon, <1>4 DEF Begin
<1>5. ASSUME NEW s \in Runners, RunStep(s) PROVE UNCHANGED rows
  BY Zenon, <1>5 DEF RunStep, RunStart, RunPassed, RunEnd, recoverHost
<1>6. ASSUME NEW p \in Ops, AgentStep(p) PROVE UNCHANGED rows
  BY Zenon, <1>6
     DEF AgentStep, Accept, Refuse, Create, Replace, Commit, Rollback, Remove, Lifecycle,
              serverSide
<1>7. ASSUME Disconnect \/ AgentRestart \/ Reconnect \/ ServerRestart
               \/ (\E d \in Claims : ExternalRemove(d))
      PROVE  UNCHANGED rows
  BY Zenon, <1>7
     DEF Disconnect, AgentRestart, Reconnect, ServerRestart, ExternalRemove, Lost, serverSide
<1>8. CASE UNCHANGED vars
  BY Zenon, <1>8 DEF vars
<1> QED BY Zenon, <1>1, <1>2, <1>3, <1>4, <1>5, <1>6, <1>7, <1>8 DEF Next, CallStep

(* Nothing is on record of a call before it is past its lock. *)
LEMMA UnwrittenStep ==
  ASSUME TypeOK, Known, Unwritten, [Next]_vars
  PROVE  Unwritten'
<1>1. ASSUME NEW o \in Ops, pc'[o] \in {"idle", "guarded", "locked"} PROVE action'[o] = "none"
  <2>1. pc[o] \in {"idle", "guarded", "locked"}
    BY Zenon, <1>1, PlaceFrame DEF Holding
  <2>2. action[o] = "none"
    BY Zenon, <2>1 DEF Unwritten
  <2> QED BY Zenon, <1>1, <2>1, <2>2, ActionFrame DEF Holding
<1>2. ASSUME NEW o \in Ops, Begun(o)', kind'[o] = "create", action'[o] = "none"
      PROVE  /\ target'[o] \notin rows'
             /\ \A p \in Ops : p # o => target'[p] # target'[o]
  <2>1. action[o] = "none"
    <3>1. kind[o] = "lifecycle" /\ pc[o] \in Holding \ {"locked"} => FALSE
      BY Zenon, <1>2, CallFrame DEF Begun, Holding
    <3> QED BY Zenon, <1>2, <3>1, ActionFrame
  <2>2. CASE Begun(o)
    <3>1. /\ kind'[o] = kind[o] /\ target'[o] = target[o] /\ target[o] \in Containers
          /\ target[o] \notin rows /\ \A p \in Ops : p # o => target[p] # target[o]
      BY Zenon, <1>2, <2>1, <2>2, CallFrame DEF Unwritten, Known
    <3>2. target[o] \notin rows'
      <4>1. ASSUME NEW p \in Ops, Prepare(p), prepareCreate(p), rows' = rows \cup {target[p]}
            PROVE  p # o
        <5>1. action' = [action EXCEPT ![p] = "running"]
          BY Zenon, <4>1 DEF prepareCreate
        <5> QED BY Zenon, <1>2, <5>1 DEF TypeOK
      <4> QED BY Zenon, <3>1, <4>1, RowsFrame
    <3>3. ASSUME NEW p \in Ops, p # o PROVE target'[p] # target[o]
      <4>1. CASE target'[p] = target[p]
        BY Zenon, <3>1, <3>3, <4>1
      <4>2. CASE \E k \in AllKinds, c \in Containers : Begin(p, k, c)
        <5>1. PICK k \in AllKinds, c \in Containers : Begin(p, k, c)
          BY Zenon, <4>2
        <5>2. target'[p] = c
          BY Zenon, <5>1 DEF Begin, TypeOK
        <5>3. c # target[o]
          BY Zenon, <3>1, <5>1 DEF Begin, mutable
        <5> QED BY Zenon, <5>2, <5>3
      <4> QED BY Zenon, <4>1, <4>2, CallFrame
    <3> QED BY Zenon, <3>1, <3>2, <3>3
  <2>3. CASE ~Begun(o)
    <3>1. PICK k \in AllKinds, c \in Containers : Begin(o, k, c)
      BY Zenon, <1>2, <2>3, CallFrame
    <3>2. /\ kind' = [kind EXCEPT ![o] = k] /\ target' = [target EXCEPT ![o] = c]
          /\ rows' = rows
      BY Zenon, <3>1 DEF Begin, db
    <3>3. k = "create"
      BY Zenon, <1>2, <3>2 DEF TypeOK
    <3>4. c \notin rows /\ \A p \in Ops : target[p] # c
      BY Zenon, <3>1, <3>3 DEF Begin
    <3> QED BY Zenon, <3>2, <3>4 DEF TypeOK
  <2> QED BY Zenon, <2>2, <2>3
<1> QED BY Zenon, <1>1, <1>2 DEF Unwritten, Begun

(* A settled management operation stays as it was settled.                    *)
LEMMA SettledStep ==
  ASSUME TypeOK, Known, Unwritten, [Next]_vars
  PROVE  \A o \in Ops : (kind[o] \in Management /\ action[o] \in {"succeeded", "failed"})
                          => action'[o] = action[o]
<1> SUFFICES ASSUME NEW o \in Ops, kind[o] \in Management, action[o] \in {"succeeded", "failed"}
             PROVE  action'[o] = action[o]
  BY Zenon
<1>1. pc[o] # "locked"
  BY Zenon DEF Unwritten
<1> QED BY Zenon, <1>1, ActionFrame DEF Management

(* Two passes may reach one unfinished operation, a call and recovery may     *)
(* both be finalising it: it is settled once (claim in recovery-finalizer.ts).*)
THEOREM SettledOnceHolds == Spec => SettledOnce
<1>1. Init => TypeOK /\ Known /\ Unwritten
  <2>1. Init => Unwritten
    BY Zenon DEF Init, Unwritten, Begun, Workers
  <2> QED BY Zenon, <2>1, InitTypeKnown
<1>2. TypeOK /\ Known /\ Unwritten /\ [Next]_vars => (TypeOK /\ Known /\ Unwritten)'
  BY Zenon, TypeStep, KnownStep, UnwrittenStep
<1>3. TypeOK /\ Known /\ Unwritten /\ [Next]_vars =>
        [\A o \in Ops : (kind[o] \in Management /\ action[o] \in {"succeeded", "failed"})
                          => action'[o] = action[o]]_vars
  BY Zenon, SettledStep
<1> QED BY <1>1, <1>2, <1>3, PTL DEF Spec, SettledOnce

-----------------------------------------------------------------------------
(* A key is taken only when it is free, and given back only by its holder.    *)
LEMMA LockFrame ==
  ASSUME TypeOK, [Next]_vars, NEW o \in Ops, NEW k \in Keys, held[k] = o
  PROVE  held'[k] = o \/ pc'[o] \in {"idle", "done"}
<1> DEFINE Kept == held'[k] = o \/ pc'[o] \in {"idle", "done"}
<1>0. /\ pc \in [Workers -> Places] /\ held \in [Keys -> Ops \cup {None}]
      /\ Ops \subseteq Workers /\ None \notin Ops /\ Workers = Ops \cup Runners
  BY Zenon, ConstantsAssumption DEF TypeOK, Workers
<1>1. CASE UNCHANGED held
  BY Zenon, <1>1
<1>2. ASSUME NEW p \in Ops, acquire(p) PROVE Kept
  <2>1. CASE held' = [held EXCEPT ![Key(p)] = p] /\ ~isBusy(Key(p))
    BY Zenon, <1>0, <2>1 DEF isBusy
  <2> QED BY Zenon, <1>1, <1>2, <2>1 DEF acquire
<1>3. ASSUME NEW p \in Ops, held' = Released(p), pc' = [pc EXCEPT ![p] = "done"] PROVE Kept
  BY Zenon, <1>0, <1>3 DEF Released
<1>4. ASSUME NEW gone, NEW status, GivenUp(gone, status) PROVE Kept
  BY Zenon, <1>0, <1>4 DEF GivenUp
<1>5. ASSUME NEW p \in Ops, Prepare(p) PROVE Kept
  BY Zenon, <1>1, <1>3, <1>5 DEF Prepare
<1>6. ASSUME NEW p \in Ops, dispatch(p) \/ Timeout(p) \/ Reply(p) \/ Report(p) PROVE Kept
  BY Zenon, <1>1, <1>3, <1>4, <1>6 DEF dispatch, Timeout, Reply, Report
<1>7. ASSUME NEW w \in Workers, Finalize(w) \/ FinalizeThrows(w) PROVE Kept
  <2>1. CASE w \in Ops
    <3>1. held' = Released(w) /\ pc' = [pc EXCEPT ![w] = "done"]
      BY Zenon, <1>7, <2>1 DEF Finalize, FinalizeThrows
    <3> QED BY Zenon, <1>3, <2>1, <3>1
  <2>2. CASE w \notin Ops
    BY Zenon, <1>1, <1>7, <2>2 DEF Finalize, FinalizeThrows
  <2> QED BY Zenon, <2>1, <2>2
<1>8. ASSUME NEW w \in Workers, PassStep(w)
      PROVE  UNCHANGED held \/ Finalize(w) \/ FinalizeThrows(w)
  BY Zenon, <1>8 DEF PassStep, PassStart, PassList, PassFail, applyContainers, PassEnd, classify
<1>9. ASSUME NEW s \in Runners, RunStep(s) PROVE UNCHANGED held
  BY Zenon, <1>9 DEF RunStep, RunStart, RunPassed, RunEnd, recoverHost
<1>10. ASSUME NEW p \in Ops, AgentStep(p) PROVE UNCHANGED held
  BY Zenon, <1>10
     DEF AgentStep, Accept, Refuse, Create, Replace, Commit, Rollback, Remove, Lifecycle,
               serverSide
<1>11. ASSUME Disconnect \/ AgentRestart \/ \E p \in Ops : LateReply(p) PROVE Kept
  <2>1. \E lost : Lost(lost)
    BY Zenon, <1>11 DEF Disconnect, AgentRestart, LateReply
  <2>2. GivenUp({p \in Ops : pc[p] = "waiting"}, "failed")
    BY Zenon, <2>1 DEF Lost
  <2> QED BY Zenon, <1>4, <2>2
<1>12. ASSUME ServerRestart PROVE Kept
  BY Zenon, <1>0, <1>12 DEF ServerRestart
<1>13. ASSUME NEW p \in Ops, NEW kd \in AllKinds, NEW c \in Containers, Begin(p, kd, c)
       PROVE  UNCHANGED held
  BY Zenon, <1>13 DEF Begin
<1>14. ASSUME Reconnect \/ \E d \in Claims : ExternalRemove(d) PROVE UNCHANGED held
  BY Zenon, <1>14 DEF Reconnect, ExternalRemove, serverSide
<1>15. CASE UNCHANGED vars
  BY Zenon, <1>1, <1>15 DEF vars
<1>16. CASE Next
  <2> HIDE DEF Kept
  <2>1. UNCHANGED held => Kept
    BY Zenon, <1>1 DEF Kept
  <2>2. Kept
    BY Zenon, <1>16, <2>1, <1>2, <1>5, <1>6, <1>7, <1>8, <1>9, <1>10, <1>11, <1>12, <1>13, <1>14
       DEF Next, CallStep
  <2> QED BY Zenon, <2>2 DEF Kept
<1> QED BY Zenon, <1>15, <1>16

(* Mutual exclusion is inductive once calls are known to keep their key. *)
LEMMA OneOwnerStep ==
  ASSUME TypeOK, Known, OneOwner, [Next]_vars
  PROVE  OneOwner'
<1> SUFFICES ASSUME NEW o \in Ops, pc'[o] \in Holding
             PROVE  held'[Key(o)'] = o
  BY Zenon DEF OneOwner
<1>1. pc[o] # "idle"
  BY Zenon, PlaceFrame DEF Holding
<1>2. Key(o)' = Key(o) /\ Key(o) \in Keys
  <2>1. kind'[o] = kind[o] /\ target'[o] = target[o] /\ target[o] \in Containers
    BY Zenon, <1>1, CallFrame DEF Begun, Known
  <2> QED BY Zenon, <2>1, ConstantsAssumption DEF Key, Keys
<1>3. CASE pc[o] \in Holding
  <2>1. held[Key(o)] = o
    BY Zenon, <1>3 DEF OneOwner
  <2> QED BY Zenon, <1>2, <2>1, LockFrame DEF Holding
<1>4. CASE pc[o] \notin Holding
  <2>1. acquire(o) /\ pc'[o] = "locked"
    BY Zenon, <1>1, <1>4, PlaceFrame DEF Holding
  <2>2. held' = [held EXCEPT ![Key(o)] = o]
    <3>1. CASE pc' = [pc EXCEPT ![o] = "done"]
      BY Zenon, <2>1, <3>1 DEF TypeOK, Workers
    <3> QED BY Zenon, <2>1, <3>1 DEF acquire
  <2>3. held \in [Keys -> Ops \cup {None}]
    BY Zenon DEF TypeOK
  <2> QED BY Zenon, <1>2, <2>2, <2>3
<1> QED BY Zenon, <1>3, <1>4

(* Two calls are never between acquire and release on one key, whatever       *)
(* crashes, timeouts and lost connections come between                        *)
(* (mutation-registry.ts, and the try ... finally of every caller).           *)
THEOREM MutualExclusion == Spec => []OneOwner
<1>1. Init => TypeOK /\ Known /\ OneOwner
  <2>1. Init => OneOwner
    BY Zenon DEF Init, OneOwner, Holding, Workers
  <2> QED BY Zenon, <2>1, InitTypeKnown
<1>2. TypeOK /\ Known /\ OneOwner /\ [Next]_vars => (TypeOK /\ Known /\ OneOwner)'
  BY Zenon, TypeStep, KnownStep, OneOwnerStep
<1> QED BY <1>1, <1>2, PTL DEF Spec

-----------------------------------------------------------------------------
(* The inductive invariant: what else is true of the record, of what a pass   *)
(* has read and of what a worker is about to decide.                          *)

Making == {"create", "replace"}

(* A resource without a row has no configuration (the foreign keys).          *)
Cascade == \A c \in Containers : current[c] # None => c \in rows

(* Whatever carries an operation's configuration was built by the operation:  *)
(* on the host, in a reading of it, and in the record of one.                 *)
Seen ==
  /\ \A d \in host : d.config \in Ops => d.config \in built
  /\ \A w \in Workers : \A d \in pass[w].list : d.config \in Ops => d.config \in built
  /\ \A c \in Containers : docker[c] \in Ops => docker[c] \in built

(* What is reconciled is a management operation; a decision about a           *)
(* configuration is made for a create or a replacement, and one to promote    *)
(* names what was seen.                                                       *)
Decided ==
  /\ \A s \in Runners : \A o \in todo[s] : kind[o] \in Management
  /\ \A w \in Workers : pc[w] \in {"resync", "decide"} => kind[Subject(w)] \in Management
  /\ \A w \in Workers :
       (pc[w] = "decide" /\ verdict[w].kind \in {"promote_pending", "discard_pending"}) =>
         /\ kind[Subject(w)] \in Making
         /\ verdict[w].config \in Ops
         /\ verdict[w].kind = "promote_pending" => verdict[w].config \in built

(* A current configuration is one that was being made.                        *)
Made == \A c \in Containers : current[c] \in Ops => kind[current[c]] \in Making

RecordInv ==
  /\ Cascade /\ Seen /\ Decided /\ Made
  /\ CandidatesAreOpen /\ CurrentWasBuilt

-----------------------------------------------------------------------------
(* What was built stays built. *)
LEMMA BuiltStays ==
  ASSUME [Next]_vars PROVE built \subseteq built'
<1> USE DEF env
<1>1. ASSUME NEW o \in Ops, AgentStep(o) PROVE built \subseteq built'
  BY Zenon, <1>1 DEF AgentStep, Accept, Refuse, Create, Replace, Commit, Rollback, Remove, Lifecycle
<1>2. ASSUME NEW w \in Workers, PassStep(w) PROVE UNCHANGED built
  BY Zenon, <1>2 DEF PassStep, PassStart, PassList, PassFail, applyContainers, PassEnd, classify,
              Finalize, FinalizeThrows
<1>3. ASSUME NEW s \in Runners, RunStep(s) PROVE UNCHANGED built
  BY Zenon, <1>3 DEF RunStep, RunStart, RunPassed, RunEnd, recoverHost
<1>4. ASSUME NEW o \in Ops, CallStep(o) \/ Timeout(o) \/ LateReply(o) PROVE UNCHANGED built
  BY Zenon, <1>4 DEF CallStep, acquire, Prepare, dispatch, Reply, Report, Timeout, LateReply, Lost
<1>5. ASSUME NEW o \in Ops, NEW k \in AllKinds, NEW c \in Containers, Begin(o, k, c)
      PROVE  UNCHANGED built
  BY Zenon, <1>5 DEF Begin
<1>6. ASSUME Disconnect \/ AgentRestart \/ Reconnect \/ ServerRestart
               \/ \E d \in Claims : ExternalRemove(d)
      PROVE  UNCHANGED built
  BY Zenon, <1>6 DEF Disconnect, AgentRestart, Reconnect, ServerRestart, ExternalRemove, Lost
<1>7. CASE UNCHANGED vars
  BY Zenon, <1>7 DEF vars
<1> QED
  BY Zenon, <1>1, <1>2, <1>3, <1>4, <1>5, <1>6, <1>7 DEF Next

(* What a step does to what has been seen: nothing new, or the agent builds   *)
(* its own container, or a pass reads the host, or writes what it read.       *)
LEMMA SeenFrame ==
  ASSUME TypeOK, Known, [Next]_vars
  PROVE  /\ \/ host' \subseteq host
            \/ \E o \in Ops : host' \subseteq host \cup {Own(o)} /\ o \in built'
         /\ \A w \in Workers : pass'[w].list \in {pass[w].list, {}, host}
         /\ \A c \in Containers :
              \/ docker'[c] = docker[c] \/ docker'[c] = None
              \/ \E w \in Workers : \E d \in pass[w].list : docker'[c] = d.config
<1> DEFINE HostKept == \/ host' \subseteq host
                       \/ \E o \in Ops : host' \subseteq host \cup {Own(o)} /\ o \in built'
           Read == \A w \in Workers : pass'[w].list \in {pass[w].list, {}, host}
           Written == \A c \in Containers :
                        \/ docker'[c] = docker[c] \/ docker'[c] = None
                        \/ \E w \in Workers : \E d \in pass[w].list : docker'[c] = d.config
<1> USE DEF env, db
<1>0. pass \in [Workers -> Passes]
  BY Zenon DEF TypeOK
<1>1. ASSUME NEW o \in Ops, AgentStep(o) PROVE HostKept /\ UNCHANGED <<pass, docker>>
  BY Zenon, <1>1
     DEF AgentStep, Accept, Refuse, Create, Replace, Commit, Rollback, Remove, Lifecycle,
              serverSide
<1>2. ASSUME NEW w \in Workers, PassStart(w) \/ PassList(w) \/ PassFail(w)
      PROVE  UNCHANGED <<host, docker>> /\ Read
  <2>1. UNCHANGED <<host, docker>>
    BY Zenon, <1>2 DEF PassStart, PassList, PassFail
  <2>2. \E st \in PassStates, l \in {{}, host}, b \in BOOLEAN : PassTo(w, st, l, b)
    BY Zenon, <1>0, <1>2 DEF PassStart, PassList, PassFail, PassStates, Passes
  <2> QED BY <1>0, <2>1, <2>2 DEF PassTo
<1>3. ASSUME NEW w \in Workers, applyContainers(w) PROVE UNCHANGED host /\ Read /\ Written
  <2>1. UNCHANGED host /\ PassTo(w, "applied", {}, pass[w].complete)
    BY Zenon, <1>3 DEF applyContainers
  <2>2. Read
    BY Zenon, <1>0, <2>1 DEF PassTo
  <2>3. ASSUME NEW c \in Containers, ClaimsOf(pass[w].list, c) # {}
        PROVE  (CHOOSE d \in ClaimsOf(pass[w].list, c) : TRUE) \in pass[w].list
    BY Zenon, <2>3 DEF ClaimsOf
  <2>4. Written
    BY Zenon, <1>3, <2>3 DEF applyContainers
  <2> QED BY Zenon, <2>1, <2>2, <2>4
<1>4. ASSUME NEW w \in Workers, PassEnd(w) PROVE UNCHANGED host /\ Read /\ Written
  <2>1. UNCHANGED host /\ \E b \in BOOLEAN : PassTo(w, "done", {}, b)
    BY Zenon, <1>4 DEF PassEnd
  <2>2. Written
    BY ZenonT(60), <1>4 DEF PassEnd, DeleteRows
  <2> QED BY <1>0, <2>1, <2>2 DEF PassTo
<1>5. ASSUME NEW w \in Workers, classify(w) PROVE UNCHANGED <<host, docker>> /\ Read
  BY Zenon, <1>0, <1>5 DEF classify, NoPass
<1>6. ASSUME NEW w \in Workers, Finalize(w) PROVE UNCHANGED <<host, pass>> /\ Written
  <2>1. UNCHANGED docker \/ \E gone : DeleteRows(gone)
    BY Zenon, <1>6 DEF Finalize, finalize, promote, discard, finalizeRemove, failOperation,
                recordConflict, needsAttention
  <2>2. Written
    BY Zenon, <2>1 DEF DeleteRows
  <2> QED BY Zenon, <1>6, <2>2 DEF Finalize
<1>7. ASSUME NEW w \in Workers, FinalizeThrows(w) PROVE UNCHANGED <<host, pass, docker>>
  BY Zenon, <1>7 DEF FinalizeThrows
<1>8. ASSUME NEW s \in Runners, RunStep(s) PROVE UNCHANGED <<host, docker>> /\ Read
  <2>1. CASE RunPassed(s)
    BY Zenon, <1>0, <2>1 DEF RunPassed, NoPass
  <2> QED BY Zenon, <1>8, <2>1 DEF RunStep, RunStart, RunEnd, recoverHost
<1>9. ASSUME NEW o \in Ops, CallStep(o) \/ Timeout(o) PROVE UNCHANGED <<host, pass, docker>>
  BY Zenon, <1>9 DEF CallStep, acquire, Prepare, dispatch, Reply, Report, Timeout, prepare,
              prepareCreate, prepareReplace, prepareRemove, prepareLifecycle
<1>10. ASSUME NEW o \in Ops, NEW k \in AllKinds, NEW c \in Containers, Begin(o, k, c)
       PROVE  UNCHANGED <<host, pass, docker>>
  BY Zenon, <1>10 DEF Begin
<1>11. ASSUME NEW lost, Lost(lost) PROVE UNCHANGED <<host, docker>> /\ Read
  <2>1. \A w \in Workers : pass'[w].list = pass[w].list
    BY Zenon, <1>0, <1>11 DEF Lost, Passes
  <2> QED BY Zenon, <1>11, <2>1 DEF Lost
<1>12. ASSUME ServerRestart PROVE UNCHANGED <<host, docker>> /\ Read
  BY Zenon, <1>12 DEF ServerRestart, NoPass
<1>13. ASSUME Reconnect \/ \E d \in Claims : ExternalRemove(d)
       PROVE  HostKept /\ UNCHANGED <<pass, docker>>
  BY Zenon, <1>13 DEF Reconnect, ExternalRemove, serverSide
<1>14. CASE UNCHANGED vars
  BY Zenon, <1>14 DEF vars
<1>15. /\ UNCHANGED host => HostKept
       /\ UNCHANGED pass => Read
       /\ UNCHANGED docker => Written
  BY Zenon
<1>16. CASE Next
  <2> HIDE DEF HostKept, Read, Written
  <2>1. ASSUME Disconnect \/ AgentRestart \/ \E o \in Ops : LateReply(o)
        PROVE  HostKept /\ Read /\ Written
    BY Zenon, <2>1, <1>11, <1>15 DEF Disconnect, AgentRestart, LateReply
  <2>2. ASSUME NEW w \in Workers, PassStep(w) PROVE HostKept /\ Read /\ Written
    BY Zenon, <2>2, <1>2, <1>3, <1>4, <1>5, <1>6, <1>7, <1>15 DEF PassStep
  <2>3. HostKept /\ Read /\ Written
    BY Zenon, <1>16, <2>1, <2>2, <1>1, <1>8, <1>9, <1>10, <1>12, <1>13, <1>15 DEF Next
  <2> QED BY Zenon, <2>3 DEF HostKept, Read, Written
<1> QED BY Zenon, <1>14, <1>15, <1>16

(* Nothing carries a configuration that was not built.                        *)
LEMMA SeenStep ==
  ASSUME TypeOK, Known, Seen, [Next]_vars
  PROVE  Seen'
<1>1. built \subseteq built'
  BY Zenon, BuiltStays
<1>2. \A d \in host' : d.config \in Ops => d.config \in built'
  BY <1>1, SeenFrame DEF Seen, Own
<1>3. ASSUME NEW w \in Workers, NEW d \in pass'[w].list, d.config \in Ops
      PROVE  d.config \in built'
  <2>1. d \in pass[w].list \/ d \in host
    BY Zenon, <1>3, SeenFrame
  <2> QED BY Zenon, <1>1, <1>3, <2>1 DEF Seen
<1>4. ASSUME NEW c \in Containers, docker'[c] \in Ops PROVE docker'[c] \in built'
  BY Zenon, <1>1, <1>4, SeenFrame, ConstantsAssumption DEF Seen
<1> QED BY Zenon, <1>2, <1>3, <1>4 DEF Seen

-----------------------------------------------------------------------------
(* A worker that is reading the host back, or deciding, for an operation was  *)
(* doing so before, for the same one; or it has just come to it.              *)
LEMMA DecisionFrame ==
  ASSUME TypeOK, Known, [Next]_vars, NEW w \in Workers, pc'[w] \in {"resync", "decide"}
  PROVE  \/ /\ pc[w] = pc'[w] /\ Subject(w)' = Subject(w)
            /\ pc[w] = "decide" => verdict'[w] = verdict[w]
         \/ /\ pc'[w] = "resync"
            /\ \/ w \in Ops /\ kind[w] # "lifecycle" /\ pc[w] = "waiting"
               \/ w \in Runners /\ \E o \in todo[w] : subject'[w] = o
         \/ classify(w)
<1> DEFINE Kept == /\ pc[w] = pc'[w] /\ Subject(w)' = Subject(w)
                   /\ pc[w] = "decide" => verdict'[w] = verdict[w]
           Comes == /\ pc'[w] = "resync"
                    /\ \/ w \in Ops /\ kind[w] # "lifecycle" /\ pc[w] = "waiting"
                       \/ w \in Runners /\ \E o \in todo[w] : subject'[w] = o
<1> USE DEF call, runs
<1>0. /\ pc \in [Workers -> Places] /\ Ops \subseteq Workers /\ Runners \subseteq Workers
      /\ Ops \cap Runners = {} /\ Workers = Ops \cup Runners
      /\ subject \in [Runners -> Ops \cup {None}]
      /\ verdict \in [Workers -> [kind : DecisionKinds, config : Configs \cup {None}]]
  BY Zenon, ConstantsAssumption DEF TypeOK, Workers
<1>1. ASSUME UNCHANGED <<subject, verdict>>, pc'[w] = pc[w] PROVE Kept
  BY Zenon, <1>1 DEF Subject
<1>2. ASSUME NEW p \in Ops, acquire(p) \/ Prepare(p) \/ dispatch(p) \/ Timeout(p) \/ Report(p)
      PROVE  Kept
  <2>1. UNCHANGED <<subject, verdict>>
    BY Zenon, <1>2 DEF acquire, Prepare, dispatch, Timeout, Report
  <2>2. pc'[w] = pc[w] \/ pc'[w] \in {"locked", "done", "prepared", "waiting"}
    <3>1. CASE \E pl \in {"locked", "done", "prepared", "waiting"} : pc' = [pc EXCEPT ![p] = pl]
      BY Zenon, <1>0, <3>1
    <3>2. CASE \E status : GivenUp({p}, status)
      BY Zenon, <1>0, <3>2 DEF GivenUp
    <3> QED BY Zenon, <1>2, <3>1, <3>2 DEF acquire, Prepare, dispatch, Timeout, Report
  <2> QED BY <1>1, <2>1, <2>2
<1>3. ASSUME NEW p \in Ops, Reply(p) PROVE Kept \/ Comes
  <2>1. UNCHANGED <<subject, verdict>> /\ pc[p] = "waiting"
    BY Zenon, <1>3 DEF Reply
  <2>2. CASE pc' = [pc EXCEPT ![p] = "resync"] /\ kind[p] # "lifecycle"
    <3>1. CASE p = w
      BY Zenon, <1>0, <2>1, <2>2, <3>1
    <3>2. CASE p # w
      BY Zenon, <1>0, <1>1, <2>1, <2>2, <3>2
    <3> QED BY Zenon, <3>1, <3>2
  <2>3. CASE pc' = [pc EXCEPT ![p] = "report"] \/ GivenUp({p}, "failed")
    <3>1. pc'[w] = pc[w] \/ pc'[w] \in {"report", "done"}
      BY Zenon, <1>0, <2>3 DEF GivenUp
    <3> QED BY <1>1, <2>1, <3>1
  <2> QED BY Zenon, <1>3, <2>2, <2>3 DEF Reply
<1>4. ASSUME NEW p \in Ops, NEW k \in AllKinds, NEW c \in Containers, Begin(p, k, c) PROVE Kept
  <2>1. UNCHANGED <<subject, verdict>> /\ pc' = [pc EXCEPT ![p] = "guarded"]
    BY Zenon, <1>4 DEF Begin
  <2>2. pc'[w] = pc[w] \/ pc'[w] = "guarded"
    BY Zenon, <1>0, <2>1
  <2> QED BY <1>1, <2>1, <2>2
<1>5. ASSUME NEW v \in Workers, PassStart(v) \/ PassList(v) \/ PassFail(v) \/ applyContainers(v)
                                  \/ PassEnd(v)
      PROVE  Kept
  <2>1. UNCHANGED <<subject, verdict, pc>>
    BY Zenon, <1>5 DEF PassStart, PassList, PassFail, applyContainers, PassEnd
  <2> QED BY Zenon, <1>1, <2>1
<1>6. ASSUME NEW v \in Workers, classify(v) PROVE Kept \/ classify(w)
  <2>1. CASE v = w
    BY Zenon, <1>6, <2>1
  <2>2. CASE v # w
    <3>1. pc'[w] = pc[w] /\ verdict'[w] = verdict[w] /\ UNCHANGED subject
      BY Zenon, <1>0, <1>6, <2>2 DEF classify
    <3> QED BY Zenon, <3>1 DEF Subject
  <2> QED BY Zenon, <2>1, <2>2
<1>7. ASSUME NEW v \in Workers, Finalize(v) \/ FinalizeThrows(v) PROVE Kept
  <2>1. \E pl \in {"done", "recover", "idle"} : pc' = [pc EXCEPT ![v] = pl]
    BY Zenon, <1>7 DEF Finalize, FinalizeThrows
  <2>2. v # w /\ pc'[w] = pc[w]
    BY <1>0, <2>1
  <2>3. verdict' = [verdict EXCEPT ![v] = Plain("no_action")]
    BY Zenon, <1>7 DEF Finalize, FinalizeThrows
  <2>4. verdict'[w] = verdict[w]
    BY Zenon, <1>0, <2>2, <2>3
  <2>5. subject' = IF v \in Ops THEN subject ELSE [subject EXCEPT ![v] = None]
    BY Zenon, <1>7 DEF Finalize, FinalizeThrows
  <2>6. Subject(w)' = Subject(w)
    <3>1. CASE w \in Ops
      BY Zenon, <3>1 DEF Subject
    <3>2. CASE w \in Runners
      BY Zenon, <1>0, <2>2, <2>5, <3>2 DEF Subject
    <3> QED BY Zenon, <1>0, <3>1, <3>2
  <2> QED BY Zenon, <2>2, <2>4, <2>6
<1>8. ASSUME NEW s \in Runners, RunStart(s) \/ RunPassed(s) \/ RunEnd(s) PROVE Kept
  <2>1. UNCHANGED <<subject, verdict>>
    BY Zenon, <1>8 DEF RunStart, RunPassed, RunEnd
  <2>2. \E pl \in {"pass", "recover", "idle"} : pc' = [pc EXCEPT ![s] = pl]
    BY Zenon, <1>8 DEF RunStart, RunPassed, RunEnd
  <2>3. pc'[w] = pc[w] \/ pc'[w] \in {"pass", "recover", "idle"}
    BY Zenon, <1>0, <2>2
  <2> QED BY <1>1, <2>1, <2>3
<1>9. ASSUME NEW s \in Runners, NEW o \in Ops, recoverHost(s, o) PROVE Kept \/ Comes
  <2>1. UNCHANGED verdict /\ o \in todo[s]
    BY Zenon, <1>9 DEF recoverHost
  <2>2. CASE UNCHANGED <<pc, subject>>
    BY Zenon, <1>1, <2>1, <2>2
  <2>3. CASE subject' = [subject EXCEPT ![s] = o] /\ pc' = [pc EXCEPT ![s] = "resync"]
    <3>1. CASE s = w
      BY Zenon, <1>0, <2>1, <2>3, <3>1
    <3>2. CASE s # w
      <4>1. pc'[w] = pc[w] /\ verdict'[w] = verdict[w]
        BY Zenon, <1>0, <2>1, <2>3, <3>2
      <4>2. Subject(w)' = Subject(w)
        BY Zenon, <1>0, <2>3, <3>2 DEF Subject
      <4> QED BY Zenon, <4>1, <4>2
    <3> QED BY Zenon, <3>1, <3>2
  <2> QED BY Zenon, <1>9, <2>2, <2>3 DEF recoverHost
<1>10. ASSUME NEW p \in Ops, AgentStep(p) PROVE Kept
  <2>1. UNCHANGED serverSide
    BY Zenon, <1>10 DEF AgentStep, Accept, Refuse, Create, Replace, Commit, Rollback, Remove,
                        Lifecycle
  <2> QED BY Zenon, <1>1, <2>1 DEF serverSide
<1>11. ASSUME NEW lost, Lost(lost) PROVE Kept
  <2>1. UNCHANGED <<subject, verdict>> /\ (pc'[w] = pc[w] \/ pc'[w] = "done")
    BY Zenon, <1>0, <1>11 DEF Lost, GivenUp
  <2> QED BY <1>1, <2>1
<1>12. ASSUME ServerRestart PROVE FALSE
  <2>1. pc'[w] \in {"idle", "done"}
    BY Zenon, <1>12 DEF ServerRestart
  <2> QED BY <2>1
<1>13. ASSUME Reconnect \/ \E d \in Claims : ExternalRemove(d) PROVE Kept
  BY Zenon, <1>1, <1>13 DEF Reconnect, ExternalRemove, serverSide
<1>14. CASE UNCHANGED vars
  BY Zenon, <1>1, <1>14 DEF vars
<1>15. CASE Next
  <2> HIDE DEF Kept, Comes
  <2>1. ASSUME NEW v \in Workers, PassStep(v) PROVE Kept \/ Comes \/ classify(w)
    BY Zenon, <2>1, <1>5, <1>6, <1>7 DEF PassStep
  <2>2. ASSUME NEW s \in Runners, RunStep(s) PROVE Kept \/ Comes
    BY Zenon, <2>2, <1>8, <1>9 DEF RunStep
  <2>3. ASSUME NEW p \in Ops, CallStep(p) \/ AgentStep(p) \/ Timeout(p) \/ LateReply(p)
        PROVE  Kept \/ Comes
    BY Zenon, <2>3, <1>2, <1>3, <1>10, <1>11 DEF CallStep, LateReply
  <2>4. ASSUME Disconnect \/ AgentRestart PROVE Kept
    BY Zenon, <2>4, <1>11 DEF Disconnect, AgentRestart
  <2>5. Kept \/ Comes \/ classify(w)
    BY Zenon, <1>15, <2>1, <2>2, <2>3, <2>4, <1>4, <1>12, <1>13 DEF Next
  <2> QED BY Zenon, <2>5 DEF Kept, Comes
<1> QED BY Zenon, <1>14, <1>15

(* A run has to look at what it had to, or at what it finds unfinished.       *)
LEMMA TodoFrame ==
  ASSUME TypeOK, [Next]_vars, NEW s \in Runners
  PROVE  todo'[s] \subseteq todo[s] \cup unresolvedOperations
<1> DEFINE Fewer == todo'[s] \subseteq todo[s] \cup unresolvedOperations
<1> USE DEF runs
<1>0. todo \in [Runners -> SUBSET Ops]
  BY Zenon DEF TypeOK
<1>1. ASSUME UNCHANGED todo PROVE Fewer
  BY Zenon, <1>1
<1>2. ASSUME NEW r \in Runners, RunPassed(r) PROVE Fewer
  <2>1. UNCHANGED todo \/ todo' = [todo EXCEPT ![r] = unresolvedOperations]
    BY Zenon, <1>2 DEF RunPassed
  <2> QED BY <1>0, <2>1
<1>3. ASSUME NEW r \in Runners, NEW o \in Ops, recoverHost(r, o) PROVE Fewer
  <2>1. todo' = [todo EXCEPT ![r] = @ \ {o}]
    BY Zenon, <1>3 DEF recoverHost
  <2> QED BY <1>0, <2>1
<1>4. ASSUME NEW w \in Workers, FinalizeThrows(w) PROVE Fewer
  <2>1. UNCHANGED todo \/ todo' = [todo EXCEPT ![w] = {}]
    BY Zenon, <1>4 DEF FinalizeThrows
  <2> QED BY <1>0, <2>1
<1>5. ASSUME ServerRestart PROVE Fewer
  BY Zenon, <1>5 DEF ServerRestart
<1>6. ASSUME NEW w \in Workers, PassStep(w) PROVE UNCHANGED todo \/ FinalizeThrows(w)
  BY Zenon, <1>6 DEF PassStep, PassStart, PassList, PassFail, applyContainers, PassEnd, classify,
                     Finalize
<1>7. ASSUME NEW r \in Runners, RunStart(r) \/ RunEnd(r) PROVE UNCHANGED todo
  BY Zenon, <1>7 DEF RunStart, RunEnd
<1>8. ASSUME NEW p \in Ops, CallStep(p) \/ Timeout(p) \/ LateReply(p) PROVE UNCHANGED todo
  BY Zenon, <1>8 DEF CallStep, acquire, Prepare, dispatch, Reply, Report, Timeout, LateReply, Lost
<1>9. ASSUME NEW p \in Ops, AgentStep(p) PROVE UNCHANGED todo
  BY Zenon, <1>9 DEF AgentStep, Accept, Refuse, Create, Replace, Commit, Rollback, Remove,
                     Lifecycle, serverSide
<1>10. ASSUME NEW p \in Ops, NEW k \in AllKinds, NEW c \in Containers, Begin(p, k, c)
       PROVE  UNCHANGED todo
  BY Zenon, <1>10 DEF Begin
<1>11. ASSUME Disconnect \/ AgentRestart \/ Reconnect \/ \E d \in Claims : ExternalRemove(d)
       PROVE  UNCHANGED todo
  BY Zenon, <1>11 DEF Disconnect, AgentRestart, Lost, Reconnect, ExternalRemove, serverSide
<1>12. CASE UNCHANGED vars
  BY Zenon, <1>1, <1>12 DEF vars
<1>13. CASE Next
  <2> HIDE DEF Fewer
  <2>1. Fewer
    BY ZenonT(60), <1>13, <1>1, <1>2, <1>3, <1>4, <1>5, <1>6, <1>7, <1>8, <1>9, <1>10, <1>11
       DEF Next, RunStep
  <2> QED BY Zenon, <2>1 DEF Fewer
<1> QED BY Zenon, <1>12, <1>13

(* classifyRecovery decides about a configuration only for a create or a      *)
(* replacement, and then about its candidate; it promotes only what the sole  *)
(* claim carries.                                                             *)
LEMMA ClassifyDecides ==
  ASSUME NEW in, in.operation \in Management,
         classifyRecovery(in).kind \in {"promote_pending", "discard_pending"}
  PROVE  /\ in.operation \in Making
         /\ classifyRecovery(in).config = in.pending /\ in.pending # None
         /\ classifyRecovery(in).kind = "promote_pending" =>
              /\ in.claims # {}
              /\ (CHOOSE x \in in.claims : TRUE).config = in.pending
<1>1. /\ in.operation # "remove" /\ in.pending # None
      /\ classifyRecovery(in).config = in.pending
  BY DEF classifyRecovery, Plain, Decision
<1>2. classifyRecovery(in).kind = "promote_pending" =>
        in.claims # {} /\ (CHOOSE x \in in.claims : TRUE).config = in.pending
  BY DEF classifyRecovery, Plain, Decision
<1> QED
  BY <1>1, <1>2 DEF Management, Making

(* Who settles an operation goes on settling the same one, with a decision    *)
(* about its candidate.                                                       *)
LEMMA DecidedStep ==
  ASSUME TypeOK, Known, Seen, Decided, [Next]_vars
  PROVE  Decided'
<1>0. /\ None \notin Ops /\ Workers = Ops \cup Runners /\ built \subseteq built'
      /\ subject \in [Runners -> Ops \cup {None}]
  BY Zenon, ConstantsAssumption, BuiltStays DEF Workers, TypeOK
<1>1. ASSUME NEW s \in Runners, NEW o \in todo'[s] PROVE kind'[o] \in Management
  <2>1. o \in todo[s] \/ o \in unresolvedOperations
    BY Zenon, <1>1, TodoFrame
  <2>2. o \in Ops /\ Begun(o) /\ kind[o] \in Management
    <3>1. CASE o \in todo[s]
      BY Zenon, <3>1 DEF TypeOK, Known, Decided
    <3>2. CASE o \in unresolvedOperations
      <4>1. o \in Ops /\ action[o] = "running" /\ kind[o] \in Management
        BY Zenon, <3>2 DEF unresolvedOperations
      <4>2. action[o] # "none"
        BY <4>1
      <4> QED BY Zenon, <4>1, <4>2 DEF Known
    <3> QED BY Zenon, <2>1, <3>1, <3>2
  <2> QED BY Zenon, <2>2, CallFrame
<1>2. ASSUME NEW w \in Workers, pc[w] \in {"resync", "decide"}
      PROVE  /\ Subject(w) \in Ops /\ Begun(Subject(w)) /\ kind[Subject(w)] \in Management
             /\ kind'[Subject(w)] = kind[Subject(w)]
  <2>1. Subject(w) \in Ops /\ Begun(Subject(w))
    <3>1. CASE w \in Ops
      BY <1>2, <3>1 DEF Subject, Begun
    <3>2. CASE w \in Runners /\ w \notin Ops
      BY Zenon, <1>0, <1>2, <3>2 DEF Subject, Known
    <3> QED BY Zenon, <1>0, <3>1, <3>2
  <2> QED BY Zenon, <1>2, <2>1, CallFrame DEF Decided
<1>3. ASSUME NEW w \in Workers, pc'[w] \in {"resync", "decide"}
      PROVE  kind'[Subject(w)'] \in Management
  <2>1. CASE pc[w] = pc'[w] /\ Subject(w)' = Subject(w)
    BY Zenon, <1>2, <1>3, <2>1
  <2>2. CASE w \in Ops /\ kind[w] # "lifecycle" /\ pc[w] = "waiting"
    <3>1. Begun(w)
      BY <2>2 DEF Begun
    <3>2. kind[w] \in AllKinds /\ kind'[w] = kind[w]
      BY Zenon, <2>2, <3>1, CallFrame DEF Known
    <3> QED BY <2>2, <3>2 DEF Subject, AllKinds, Management
  <2>3. CASE w \in Runners /\ \E o \in todo[w] : subject'[w] = o
    <3>1. PICK o \in todo[w] : subject'[w] = o
      BY Zenon, <2>3
    <3>2. o \in Ops /\ Begun(o) /\ kind[o] \in Management /\ w \notin Ops
      BY Zenon, <2>3, <3>1, ConstantsAssumption DEF TypeOK, Known, Decided
    <3> QED BY Zenon, <3>1, <3>2, CallFrame DEF Subject
  <2>4. CASE classify(w)
    <3>1. pc[w] = "resync" /\ Subject(w)' = Subject(w)
      BY Zenon, <2>4 DEF classify, runs, Subject
    <3> QED BY Zenon, <1>2, <3>1
  <2> QED BY Zenon, <1>3, <2>1, <2>2, <2>3, <2>4, DecisionFrame
<1>4. ASSUME NEW w \in Workers, pc'[w] = "decide",
             verdict'[w].kind \in {"promote_pending", "discard_pending"}
      PROVE  /\ kind'[Subject(w)'] \in Making
             /\ verdict'[w].config \in Ops
             /\ verdict'[w].kind = "promote_pending" => verdict'[w].config \in built'
  <2>1. CASE pc[w] = "decide" /\ Subject(w)' = Subject(w) /\ verdict'[w] = verdict[w]
    BY Zenon, <1>0, <1>2, <1>4, <2>1 DEF Decided
  <2>2. CASE classify(w)
    <3> DEFINE o == Subject(w)
               c == target[o]
               in == [operation |-> kind[o], current |-> current[c], pending |-> pending[c],
                      claims |-> IF docker[c] = None THEN {} ELSE {[config |-> docker[c]]},
                      complete |-> pass[w].complete, eligible |-> TRUE,
                      conflict |-> c \in conflict]
    <3>1. /\ pc[w] = "resync" /\ Subject(w)' = o
          /\ verdict' = [verdict EXCEPT ![w] = classifyRecovery(in)]
      BY Zenon, <2>2 DEF classify, runs, Subject
    <3>2. verdict'[w] = classifyRecovery(in)
      BY Zenon, <3>1 DEF TypeOK
    <3>3. o \in Ops /\ kind[o] \in Management /\ kind'[o] = kind[o] /\ c \in Containers
      BY Zenon, <1>2, <3>1 DEF Known
    <3>4. /\ in.operation = kind[o] /\ in.pending = pending[c]
          /\ in.claims = IF docker[c] = None THEN {} ELSE {[config |-> docker[c]]}
      BY Zenon
    <3>5. pending[c] \in Ops \cup {None}
      BY Zenon, <3>3 DEF TypeOK
    <3> HIDE DEF in
    <3>6. /\ kind[o] \in Making /\ verdict'[w].config = pending[c] /\ pending[c] # None
          /\ verdict'[w].kind = "promote_pending" =>
               /\ in.claims # {} /\ (CHOOSE x \in in.claims : TRUE).config = pending[c]
      BY Zenon, <1>4, <3>2, <3>3, <3>4, ClassifyDecides
    <3>7. verdict'[w].kind = "promote_pending" => docker[c] = pending[c]
      BY <3>4, <3>6
    <3>8. docker[c] \in Ops => docker[c] \in built
      BY Zenon, <3>3 DEF Seen
    <3> QED BY Zenon, <1>0, <3>1, <3>3, <3>5, <3>6, <3>7, <3>8
  <2> QED BY <1>4, <2>1, <2>2, DecisionFrame
<1> QED BY Zenon, <1>1, <1>3, <1>4 DEF Decided

-----------------------------------------------------------------------------
(* A step that leaves the table and the configurations alone settles no       *)
(* create and no replacement.                                                 *)
Quiet ==
  /\ UNCHANGED <<rows, current, pending>>
  /\ \A o \in Ops : kind[o] \in Making => action'[o] = action[o]

(* What a step does to the record: nothing, a call writes its candidate down, *)
(* a sweep takes rows, or somebody settles an operation.                      *)
LEMMA RecordFrame ==
  ASSUME TypeOK, Known, [Next]_vars
  PROVE  \/ Quiet
         \/ \E p \in Ops : pc[p] = "locked" /\ (prepareCreate(p) \/ prepareReplace(p))
         \/ UNCHANGED action /\ \E gone : DeleteRows(gone)
         \/ \E w \in Workers : Finalize(w)
<1> USE DEF db
<1>0. action \in [Ops -> Statuses]
  BY Zenon DEF TypeOK
<1>1. ASSUME UNCHANGED <<rows, current, pending, action>> PROVE Quiet
  BY Zenon, <1>1 DEF Quiet
<1>2. ASSUME NEW p \in Ops, Prepare(p)
      PROVE  Quiet \/ (pc[p] = "locked" /\ (prepareCreate(p) \/ prepareReplace(p)))
  <2>1. pc[p] = "locked" /\ (prepare(p) \/ UNCHANGED <<db, address>>)
    BY Zenon, <1>2 DEF Prepare
  <2>2. CASE prepareRemove(p) \/ prepareLifecycle(p)
    <3>1. /\ action' = [action EXCEPT ![p] = "running"] /\ UNCHANGED <<rows, current, pending>>
          /\ kind[p] \in {"remove", "lifecycle"}
      BY Zenon, <2>2 DEF prepareRemove, prepareLifecycle
    <3>2. \A o \in Ops : kind[o] \in Making => o # p
      BY <3>1 DEF Making
    <3> QED BY Zenon, <1>0, <3>1, <3>2 DEF Quiet
  <2> QED BY Zenon, <1>1, <2>1, <2>2 DEF prepare
<1>3. ASSUME NEW gone, NEW status, GivenUp(gone, status), UNCHANGED <<rows, current, pending>>
      PROVE  Quiet
  <2>1. \A o \in Ops : kind[o] \in Making => kind[o] # "lifecycle"
    BY DEF Making
  <2> QED BY Zenon, <1>3, <2>1 DEF GivenUp, Quiet
<1>4. ASSUME NEW p \in Ops, dispatch(p) \/ Timeout(p) \/ Reply(p) \/ Report(p) PROVE Quiet
  <2>1. UNCHANGED <<rows, current, pending>>
    BY Zenon, <1>4 DEF dispatch, Timeout, Reply, Report
  <2>2. CASE kind[p] = "lifecycle" /\ action' = [action EXCEPT ![p] = "succeeded"]
    <3>1. \A o \in Ops : kind[o] \in Making => o # p
      BY <2>2 DEF Making
    <3> QED BY Zenon, <1>0, <2>1, <2>2, <3>1 DEF Quiet
  <2>3. UNCHANGED action \/ (\E status : GivenUp({p}, status))
          \/ (kind[p] = "lifecycle" /\ action' = [action EXCEPT ![p] = "succeeded"])
    BY Zenon, <1>4 DEF dispatch, Timeout, Reply, Report
  <2> QED BY Zenon, <1>1, <1>3, <2>1, <2>2, <2>3
<1>5. ASSUME NEW w \in Workers, PassStep(w)
      PROVE  Quiet \/ (UNCHANGED action /\ \E gone : DeleteRows(gone)) \/ Finalize(w)
  <2>1. CASE PassEnd(w)
    BY Zenon, <1>1, <2>1 DEF PassEnd
  <2>2. CASE PassStart(w) \/ PassList(w) \/ PassFail(w) \/ applyContainers(w) \/ classify(w)
               \/ FinalizeThrows(w)
    BY Zenon, <1>1, <2>2 DEF PassStart, PassList, PassFail, applyContainers, classify,
                             FinalizeThrows
  <2> QED BY Zenon, <1>5, <2>1, <2>2 DEF PassStep
<1>6. ASSUME NEW s \in Runners, RunStep(s) PROVE Quiet
  BY Zenon, <1>1, <1>6 DEF RunStep, RunStart, RunPassed, RunEnd, recoverHost
<1>7. ASSUME NEW p \in Ops, AgentStep(p) PROVE Quiet
  BY Zenon, <1>1, <1>7 DEF AgentStep, Accept, Refuse, Create, Replace, Commit, Rollback, Remove,
                           Lifecycle, serverSide
<1>8. ASSUME NEW p \in Ops,
             acquire(p) \/ \E k \in AllKinds, c \in Containers : Begin(p, k, c)
      PROVE  Quiet
  BY Zenon, <1>1, <1>8 DEF acquire, Begin
<1>9. ASSUME Disconnect \/ AgentRestart \/ \E p \in Ops : LateReply(p) PROVE Quiet
  <2>1. PICK lost : Lost(lost)
    BY Zenon, <1>9 DEF Disconnect, AgentRestart, LateReply
  <2>2. /\ GivenUp({p \in Ops : pc[p] = "waiting"}, "failed")
        /\ UNCHANGED <<rows, current, pending>>
    BY Zenon, <2>1 DEF Lost
  <2> QED BY Zenon, <1>3, <2>2
<1>10. ASSUME ServerRestart \/ Reconnect \/ \E d \in Claims : ExternalRemove(d) PROVE Quiet
  BY Zenon, <1>1, <1>10 DEF ServerRestart, Reconnect, ExternalRemove, serverSide
<1>11. CASE UNCHANGED vars
  BY Zenon, <1>1, <1>11 DEF vars
<1> QED
  BY Zenon, <1>2, <1>4, <1>5, <1>6, <1>7, <1>8, <1>9, <1>10, <1>11 DEF Next, CallStep

(* How an operation is settled: not at all; its candidate becomes current; a  *)
(* row goes; its candidate goes; or only its action is closed.                *)
LEMMA FinalizeIs ==
  ASSUME TypeOK, Known, Decided, CandidatesAreOpen, NEW w \in Workers, Finalize(w),
         NEW o, o = Subject(w), NEW c, c = target[o]
  PROVE  /\ o \in Ops /\ c \in Containers /\ kind[o] \in Management
         /\ \/ UNCHANGED <<rows, current, pending, action>>
            \/ /\ action[o] = "running"
               /\ \/ /\ kind[o] \in Making /\ pending[c] = o /\ o \in built
                     /\ current' = [current EXCEPT ![c] = o]
                     /\ pending' = [pending EXCEPT ![c] = None]
                     /\ action' = [action EXCEPT ![o] = "succeeded"]
                     /\ UNCHANGED rows
                  \/ /\ DeleteRows({c})
                     /\ \E st \in {"succeeded", "failed"} : action' = [action EXCEPT ![o] = st]
                  \/ /\ pending[c] = o
                     /\ pending' = [pending EXCEPT ![c] = None]
                     /\ action' = [action EXCEPT ![o] = "failed"]
                     /\ UNCHANGED <<rows, current>>
                  \/ /\ action' = [action EXCEPT ![o] = "failed"]
                     /\ UNCHANGED <<rows, current, pending>>
<1> DEFINE v == verdict[w]
<1> USE DEF db
<1>1. pc[w] = "decide" /\ finalize(o, v)
  BY Zenon DEF Finalize
<1>2. o \in Ops /\ kind[o] \in Management
  <2>1. pc[w] \in {"resync", "decide"}
    BY Zenon, <1>1
  <2>2. w \in Ops \/ (w \in Runners /\ w \notin Ops)
    BY Zenon DEF Workers
  <2> QED BY Zenon, <2>1, <2>2 DEF Subject, Known, Decided, TypeOK
<1>3. Begun(o)
  <2>1. CASE w \in Ops
    BY <1>1, <2>1 DEF Subject, Begun
  <2>2. CASE w \notin Ops
    <3>1. w \in Runners /\ o = subject[w]
      BY Zenon, <2>2 DEF Workers, Subject
    <3>2. subject[w] # None
      BY Zenon, <1>1, <3>1 DEF Known
    <3> QED BY Zenon, <3>1, <3>2 DEF Known
  <2> QED BY Zenon, <2>1, <2>2
<1>4. c \in Containers
  BY Zenon, <1>2, <1>3 DEF Known
<1>5. ASSUME action[o] = "running", kind[o] \in Making, v.config \in Ops, pending[c] = v.config
      PROVE  v.config = o
  <2>1. pending[c] # None
    BY Zenon, <1>5, ConstantsAssumption
  <2>2. c \in rows
    BY Zenon, <1>4, <2>1 DEF CandidatesAreOpen
  <2> QED BY Zenon, <1>2, <1>5, <2>2 DEF CandidatesAreOpen, Making
<1>6. CASE claim(o) /\ v.kind = "promote_pending" /\ promote(o, c, v.config)
  <2>1. kind[o] \in Making /\ v.config \in Ops /\ v.config \in built
    BY Zenon, <1>1, <1>6 DEF Decided
  <2> QED BY Zenon, <1>2, <1>4, <1>5, <1>6, <2>1 DEF claim, promote, Finish
<1>7. CASE claim(o) /\ v.kind = "discard_pending" /\ discard(o, c, v.config)
  <2>1. kind[o] \in Making /\ v.config \in Ops
    BY Zenon, <1>1, <1>7 DEF Decided
  <2> QED BY Zenon, <1>2, <1>4, <1>5, <1>7, <2>1 DEF claim, discard, Finish
<1>8. CASE claim(o) /\ finalizeRemove(o, c)
  BY Zenon, <1>2, <1>4, <1>8 DEF claim, finalizeRemove, Finish
<1>9. CASE claim(o) /\ (failOperation(o) \/ recordConflict(o, c) \/ needsAttention(o))
  BY Zenon, <1>2, <1>4, <1>9 DEF claim, failOperation, recordConflict, needsAttention, Finish
<1>10. CASE UNCHANGED db
  BY Zenon, <1>2, <1>4, <1>10
<1> QED
  BY Zenon, <1>1, <1>6, <1>7, <1>8, <1>9, <1>10 DEF finalize

(* A call whose action is on record has begun, and stays what it is.          *)
LEMMA WrittenIsBegun ==
  ASSUME TypeOK, Known, [Next]_vars, NEW o \in Ops, action[o] # "none" \/ action'[o] # "none"
  PROVE  Begun(o) /\ kind'[o] = kind[o] /\ target'[o] = target[o]
<1>1. Begun(o)
  <2>1. CASE action[o] # "none"
    BY Zenon, <2>1 DEF Known
  <2>2. CASE action[o] = "none"
    BY <2>2, ActionFrame DEF Begun, Holding
  <2> QED BY Zenon, <2>1, <2>2
<1> QED BY Zenon, <1>1, CallFrame

(* A current configuration is that of a recorded container.                   *)
LEMMA CascadeStep ==
  ASSUME TypeOK, Known, Decided, CandidatesAreOpen, Cascade, [Next]_vars
  PROVE  Cascade'
<1>0. current \in [Containers -> Configs \cup {None}] /\ None \notin Ops
  BY Zenon, ConstantsAssumption DEF TypeOK
<1>1. CASE Quiet
  BY Zenon, <1>1 DEF Quiet, Cascade
<1>2. CASE \E p \in Ops : prepareCreate(p) \/ prepareReplace(p)
  BY Zenon, <1>2 DEF prepareCreate, prepareReplace, Cascade
<1>3. ASSUME NEW gone, DeleteRows(gone) PROVE Cascade'
  BY Zenon, <1>3 DEF DeleteRows, Cascade
<1>4. ASSUME NEW w \in Workers, Finalize(w) PROVE Cascade'
  <2> DEFINE o == Subject(w)
             c == target[o]
  <2>1. o \in Ops /\ c \in Containers
    BY Zenon, <1>4, FinalizeIs
  <2>2. CASE UNCHANGED <<rows, current>>
    BY Zenon, <2>2 DEF Cascade
  <2>3. CASE DeleteRows({c})
    BY Zenon, <1>3, <2>3
  <2>4. CASE pending[c] = o /\ current' = [current EXCEPT ![c] = o] /\ UNCHANGED rows
    <3>1. c \in rows
      <4>1. pending[c] # None
        BY <1>0, <2>1, <2>4
      <4> QED BY Zenon, <2>1, <4>1 DEF CandidatesAreOpen
    <3> QED BY Zenon, <1>0, <2>1, <2>4, <3>1 DEF Cascade
  <2> QED BY Zenon, <1>4, <2>2, <2>3, <2>4, FinalizeIs
<1> QED BY Zenon, <1>1, <1>2, <1>3, <1>4, RecordFrame

(* What is current stays what was built, by an operation that stays settled.  *)
LEMMA CurrentStep ==
  ASSUME TypeOK, Known, Unwritten, Decided, CandidatesAreOpen, Made, CurrentWasBuilt,
         [Next]_vars
  PROVE  (Made /\ CurrentWasBuilt)'
<1>0. /\ current \in [Containers -> Configs \cup {None}] /\ None \notin Ops
      /\ action \in [Ops -> Statuses]
  BY Zenon, ConstantsAssumption DEF TypeOK
<1> SUFFICES ASSUME NEW c \in Containers, current'[c] \in Ops
             PROVE  /\ current'[c] \in built' /\ target'[current'[c]] = c
                    /\ action'[current'[c]] = "succeeded" /\ kind'[current'[c]] \in Making
  BY Zenon DEF Made, CurrentWasBuilt
<1> DEFINE p == current'[c]
<1>1. CASE current'[c] = current[c]
  <2>1. p \in built /\ target[p] = c /\ action[p] = "succeeded" /\ kind[p] \in Making
    BY Zenon, <1>1 DEF Made, CurrentWasBuilt
  <2>2. kind'[p] = kind[p] /\ target'[p] = target[p]
    <3>1. action[p] # "none"
      BY <2>1
    <3> QED BY Zenon, <3>1, WrittenIsBegun
  <2>3. action'[p] = action[p]
    <3>1. kind[p] \in Management /\ action[p] \in {"succeeded", "failed"}
      BY <2>1 DEF Making, Management
    <3> QED BY Zenon, <3>1, SettledStep
  <2> QED BY Zenon, <2>1, <2>2, <2>3, BuiltStays
<1>2. CASE current'[c] # current[c]
  <2>1. CASE Quiet \/ \E q \in Ops : prepareCreate(q) \/ prepareReplace(q)
    BY Zenon, <1>2, <2>1 DEF Quiet, prepareCreate, prepareReplace
  <2>2. ASSUME NEW gone, DeleteRows(gone) PROVE FALSE
    BY Zenon, <1>0, <1>2, <2>2 DEF DeleteRows
  <2>3. ASSUME NEW w \in Workers, Finalize(w)
        PROVE  /\ p \in built' /\ target'[p] = c /\ action'[p] = "succeeded"
               /\ kind'[p] \in Making
    <3> DEFINE o == Subject(w)
               b == target[o]
    <3>1. o \in Ops /\ b \in Containers
      BY Zenon, <2>3, FinalizeIs
    <3>2. ~UNCHANGED current /\ ~DeleteRows({b})
      BY Zenon, <1>2, <2>2
    <3>3. /\ kind[o] \in Making /\ pending[b] = o /\ o \in built
          /\ current' = [current EXCEPT ![b] = o]
          /\ action' = [action EXCEPT ![o] = "succeeded"]
      BY Zenon, <2>3, <3>2, FinalizeIs
    <3>4. p = o /\ c = b
      BY Zenon, <1>0, <1>2, <3>1, <3>3
    <3>5. action'[o] = "succeeded"
      BY Zenon, <1>0, <3>1, <3>3
    <3>6. action'[o] # "none"
      BY <3>5
    <3>7. kind'[o] = kind[o] /\ target'[o] = target[o]
      BY Zenon, <3>1, <3>6, WrittenIsBegun
    <3> QED BY Zenon, <3>3, <3>4, <3>5, <3>7, BuiltStays
  <2> QED BY Zenon, <2>1, <2>2, <2>3, RecordFrame
<1> QED BY Zenon, <1>1, <1>2

(* A candidate stays one of an open operation on a recorded container, and an *)
(* operation that is running keeps its candidate.                             *)
LEMMA CandidatesStep ==
  ASSUME TypeOK, Known, Unwritten, Cascade, Decided, CandidatesAreOpen, [Next]_vars
  PROVE  CandidatesAreOpen'
<1> DEFINE Open(c, p) == /\ c \in rows' /\ target[p] = c /\ kind[p] \in Making
                         /\ action'[p] \in {"running", "failed"}
           Kept(o) == (action'[o] = "running" /\ kind[o] \in Making /\ target[o] \in rows')
                        => pending'[target[o]] = o
<1>0. /\ pending \in [Containers -> Ops \cup {None}] /\ None \notin Ops
      /\ action \in [Ops -> Statuses] /\ rows \subseteq Containers
  BY Zenon, ConstantsAssumption DEF TypeOK
<1>1. ASSUME NEW c \in Containers, pending[c] # None
      PROVE  /\ pending[c] \in Ops /\ c \in rows /\ target[pending[c]] = c
             /\ kind[pending[c]] \in Making /\ action[pending[c]] \in {"running", "failed"}
  <2>1. pending[c] \in Ops
    BY Zenon, <1>0, <1>1
  <2>2. \A b \in Containers : pending[b] # None =>
          /\ b \in rows /\ target[pending[b]] = b
          /\ kind[pending[b]] \in Making /\ action[pending[b]] \in {"running", "failed"}
    BY Zenon DEF CandidatesAreOpen, Making
  <2> QED BY Zenon, <1>1, <2>1, <2>2
<1>2. ASSUME NEW o \in Ops, action[o] = "running", kind[o] \in Making, target[o] \in rows
      PROVE  pending[target[o]] = o
  <2>1. \A p \in Ops : (action[p] = "running" /\ kind[p] \in Making /\ target[p] \in rows)
          => pending[target[p]] = p
    BY Zenon DEF CandidatesAreOpen, Making
  <2> QED BY Zenon, <1>2, <2>1
<1>3. ASSUME \A c \in Containers :
               pending'[c] # None => pending'[c] \in Ops /\ Open(c, pending'[c]),
             \A o \in Ops : Kept(o)
      PROVE  CandidatesAreOpen'
  <2>1. ASSUME NEW c \in Containers, pending'[c] # None
        PROVE  /\ c \in rows' /\ target'[pending'[c]] = c
               /\ kind'[pending'[c]] \in Making /\ action'[pending'[c]] \in {"running", "failed"}
    <3>1. pending'[c] \in Ops /\ Open(c, pending'[c])
      BY Zenon, <1>3, <2>1
    <3>2. action'[pending'[c]] # "none"
      BY <3>1
    <3> QED BY Zenon, <3>1, <3>2, WrittenIsBegun
  <2>2. ASSUME NEW o \in Ops, action'[o] = "running", kind'[o] \in Making, target'[o] \in rows'
        PROVE  pending'[target'[o]] = o
    <3>1. action'[o] # "none"
      BY <2>2
    <3>2. kind'[o] = kind[o] /\ target'[o] = target[o]
      BY Zenon, <3>1, WrittenIsBegun
    <3> QED BY Zenon, <1>3, <2>2, <3>2
  <2> QED BY Zenon, <2>1, <2>2 DEF CandidatesAreOpen, Making
<1>4. CASE Quiet
  <2>1. ASSUME NEW c \in Containers, pending'[c] # None
        PROVE  pending'[c] \in Ops /\ Open(c, pending'[c])
    BY Zenon, <1>1, <1>4, <2>1 DEF Quiet
  <2>2. ASSUME NEW o \in Ops PROVE Kept(o)
    BY Zenon, <1>2, <1>4 DEF Quiet
  <2> QED BY Zenon, <1>3, <2>1, <2>2
<1>5. ASSUME NEW q \in Ops, pc[q] = "locked", prepareCreate(q) \/ prepareReplace(q)
      PROVE  CandidatesAreOpen'
  <2> DEFINE t == target[q]
  <2>0. /\ t \in Containers /\ kind[q] \in Making /\ action[q] = "none"
        /\ pending' = [pending EXCEPT ![t] = q] /\ action' = [action EXCEPT ![q] = "running"]
        /\ rows' = rows \cup {t}
    <3>1. action[q] = "none" /\ t \in Containers
      <4>1. Begun(q)
        BY <1>5 DEF Begun
      <4> QED BY Zenon, <1>5, <4>1 DEF Unwritten, Known
    <3>2. CASE prepareCreate(q)
      BY Zenon, <1>0, <3>1, <3>2 DEF prepareCreate, Making
    <3>3. CASE prepareReplace(q)
      <4>1. t \in rows
        BY Zenon, <3>1, <3>3 DEF prepareReplace, Cascade
      <4> QED BY Zenon, <1>0, <3>1, <3>3, <4>1 DEF prepareReplace, Making
    <3> QED BY Zenon, <1>5, <3>2, <3>3
  <2>1. ASSUME NEW c \in Containers, pending'[c] # None
        PROVE  pending'[c] \in Ops /\ Open(c, pending'[c])
    <3>1. CASE c = t
      BY Zenon, <1>0, <2>0, <3>1
    <3>2. CASE c # t
      <4>1. pending'[c] = pending[c]
        BY Zenon, <1>0, <2>0, <3>2
      <4>2. pending[c] # q
        BY <1>1, <2>0, <2>1, <4>1
      <4> QED BY Zenon, <1>0, <1>1, <2>0, <2>1, <4>1, <4>2
    <3> QED BY Zenon, <3>1, <3>2
  <2>2. ASSUME NEW o \in Ops, action'[o] = "running", kind[o] \in Making, target[o] \in rows'
        PROVE  pending'[target[o]] = o
    <3>1. CASE o = q
      BY Zenon, <1>0, <2>0, <3>1
    <3>2. CASE o # q
      <4>1. action[o] = "running"
        BY Zenon, <1>0, <2>0, <2>2, <3>2
      <4>2. target[o] # t
        <5>1. CASE prepareCreate(q)
          <6>1. Begun(q) /\ kind[q] = "create"
            BY <1>5, <5>1 DEF Begun, prepareCreate
          <6> QED BY Zenon, <2>0, <3>2, <6>1 DEF Unwritten
        <5>2. CASE prepareReplace(q)
          <6>1. t \in rows /\ pending[t] = None
            BY Zenon, <2>0, <5>2 DEF prepareReplace, Cascade
          <6> QED BY Zenon, <1>0, <1>2, <2>2, <4>1, <6>1
        <5> QED BY Zenon, <1>5, <5>1, <5>2
      <4>3. pending[target[o]] = o
        BY Zenon, <1>2, <2>0, <2>2, <4>1, <4>2
      <4> QED BY <1>0, <2>0, <4>2, <4>3
    <3> QED BY Zenon, <3>1, <3>2
  <2> QED BY Zenon, <1>3, <2>1, <2>2
<1>6. ASSUME NEW gone, DeleteRows(gone),
             \A o \in Ops : action'[o] = action[o] \/ ~(action'[o] = "running"),
             \A c \in Containers \ gone :
               pending[c] # None => action'[pending[c]] \in {"running", "failed"}
      PROVE  CandidatesAreOpen'
  <2>1. ASSUME NEW c \in Containers, pending'[c] # None
        PROVE  pending'[c] \in Ops /\ Open(c, pending'[c])
    <3>1. c \notin gone /\ pending'[c] = pending[c]
      BY Zenon, <1>6, <2>1 DEF DeleteRows
    <3>2. c \in rows'
      BY Zenon, <1>1, <1>6, <2>1, <3>1 DEF DeleteRows
    <3> QED BY Zenon, <1>1, <1>6, <2>1, <3>1, <3>2
  <2>2. ASSUME NEW o \in Ops, action'[o] = "running", kind[o] \in Making, target[o] \in rows'
        PROVE  pending'[target[o]] = o
    <3>1. target[o] \in rows /\ target[o] \notin gone /\ target[o] \in Containers
      BY Zenon, <1>0, <1>6, <2>2 DEF DeleteRows
    <3>2. pending[target[o]] = o
      BY Zenon, <1>2, <1>6, <2>2, <3>1
    <3> QED BY Zenon, <1>6, <3>1, <3>2 DEF DeleteRows
  <2> QED BY Zenon, <1>3, <2>1, <2>2
<1>7. ASSUME NEW w \in Workers, Finalize(w) PROVE CandidatesAreOpen'
  <2> DEFINE o == Subject(w)
             b == target[o]
  <2>0. o \in Ops /\ b \in Containers
    BY Zenon, <1>7, FinalizeIs
  <2>1. CASE UNCHANGED <<rows, current, pending, action>>
    BY Zenon, <1>4, <2>1 DEF Quiet
  <2>2. ASSUME NEW st \in {"succeeded", "failed"}, pending[b] = o, UNCHANGED rows,
               pending' = [pending EXCEPT ![b] = None], action' = [action EXCEPT ![o] = st]
        PROVE  CandidatesAreOpen'
    <3>1. ASSUME NEW c \in Containers, pending'[c] # None
          PROVE  pending'[c] \in Ops /\ Open(c, pending'[c])
      <4>1. c # b /\ pending'[c] = pending[c]
        BY Zenon, <1>0, <2>0, <2>2, <3>1
      <4>2. pending[c] # o
        BY Zenon, <1>1, <3>1, <4>1
      <4> QED BY Zenon, <1>0, <1>1, <2>0, <2>2, <3>1, <4>1, <4>2
    <3>2. ASSUME NEW p \in Ops, action'[p] = "running", kind[p] \in Making, target[p] \in rows'
          PROVE  pending'[target[p]] = p
      <4>1. st # "running"
        BY <2>2
      <4>2. p # o /\ action[p] = "running"
        BY Zenon, <1>0, <2>0, <2>2, <3>2, <4>1
      <4>3. pending[target[p]] = p
        BY Zenon, <1>2, <2>2, <3>2, <4>2
      <4> QED BY <1>0, <2>0, <2>2, <4>2, <4>3
    <3> QED BY Zenon, <1>3, <3>1, <3>2
  <2>3. ASSUME NEW st \in {"succeeded", "failed"}, DeleteRows({b}),
               action' = [action EXCEPT ![o] = st]
        PROVE  CandidatesAreOpen'
    <3>1. st # "running"
      BY <2>3
    <3>2. \A p \in Ops : action'[p] = action[p] \/ ~(action'[p] = "running")
      BY Zenon, <1>0, <2>0, <2>3, <3>1
    <3>3. ASSUME NEW c \in Containers \ {b}, pending[c] # None
          PROVE  action'[pending[c]] \in {"running", "failed"}
      <4>1. c \in Containers /\ c # b
        BY Zenon
      <4>2. pending[c] # o
        BY Zenon, <1>1, <3>3, <4>1
      <4> QED BY Zenon, <1>0, <1>1, <2>0, <2>3, <3>3, <4>1, <4>2
    <3> QED BY Zenon, <1>6, <2>3, <3>2, <3>3
  <2>4. CASE action' = [action EXCEPT ![o] = "failed"] /\ UNCHANGED <<rows, current, pending>>
    <3>1. ASSUME NEW c \in Containers, pending'[c] # None
          PROVE  pending'[c] \in Ops /\ Open(c, pending'[c])
      BY Zenon, <1>0, <1>1, <2>0, <2>4, <3>1
    <3>2. ASSUME NEW p \in Ops, action'[p] = "running", kind[p] \in Making, target[p] \in rows'
          PROVE  pending'[target[p]] = p
      <4>1. "failed" # "running"
        OBVIOUS
      <4>2. p # o /\ action[p] = "running"
        BY Zenon, <1>0, <2>0, <2>4, <3>2, <4>1
      <4> QED BY Zenon, <1>2, <2>4, <3>2, <4>2
    <3> QED BY Zenon, <1>3, <3>1, <3>2
  <2>5. "succeeded" \in {"succeeded", "failed"} /\ "failed" \in {"succeeded", "failed"}
    OBVIOUS
  <2> QED BY Zenon, <1>7, <2>1, <2>2, <2>3, <2>4, <2>5, FinalizeIs
<1>8. CASE UNCHANGED action /\ \E gone : DeleteRows(gone)
  BY Zenon, <1>1, <1>6, <1>8
<1> QED BY Zenon, <1>4, <1>5, <1>7, <1>8, RecordFrame

-----------------------------------------------------------------------------
(* The invariant holds of the adopted containers the record starts with.      *)
LEMMA RecordInit == Init => RecordInv
<1> SUFFICES ASSUME Init PROVE RecordInv
  BY Zenon
<1>0. None \notin Ops /\ Genesis \notin Ops /\ Genesis # None
  BY Zenon, ConstantsAssumption
<1>1. Cascade
  BY Zenon DEF Init, Cascade
<1>2. \A c \in Containers : current[c] \notin Ops /\ docker[c] \notin Ops
  BY Zenon, <1>0 DEF Init
<1>3. Seen
  BY SMTT(60), <1>0, <1>2 DEF Init, Seen, NoPass
<1>4. Decided
  BY SMTT(60) DEF Init, Decided
<1>5. CandidatesAreOpen
  BY DEF Init, CandidatesAreOpen
<1> QED BY Zenon, <1>1, <1>2, <1>3, <1>4, <1>5 DEF RecordInv, Made, CurrentWasBuilt

(* The whole invariant holds of the record in every reachable state.          *)
LEMMA RecordHolds == Spec => [](TypeOK /\ Known /\ Unwritten /\ RecordInv)
<1>1. Init => TypeOK /\ Known /\ Unwritten /\ RecordInv
  <2>1. Init => Unwritten
    BY Zenon DEF Init, Unwritten, Begun, Workers
  <2> QED BY Zenon, <2>1, InitTypeKnown, RecordInit
<1>2. TypeOK /\ Known /\ Unwritten /\ RecordInv /\ [Next]_vars
        => (TypeOK /\ Known /\ Unwritten /\ RecordInv)'
  <2> SUFFICES ASSUME TypeOK, Known, Unwritten, RecordInv, [Next]_vars
               PROVE  (TypeOK /\ Known /\ Unwritten /\ RecordInv)'
    BY Zenon
  <2>1. Cascade /\ Seen /\ Decided /\ Made /\ CandidatesAreOpen /\ CurrentWasBuilt
    BY Zenon DEF RecordInv
  <2>2. TypeOK' /\ Known' /\ Unwritten'
    BY Zenon, TypeStep, KnownStep, UnwrittenStep
  <2>3. Cascade' /\ Seen' /\ Decided'
    BY Zenon, <2>1, CascadeStep, SeenStep, DecidedStep
  <2>4. CandidatesAreOpen' /\ (Made /\ CurrentWasBuilt)'
    BY Zenon, <2>1, CandidatesStep, CurrentStep
  <2> QED BY Zenon, <2>2, <2>3, <2>4 DEF RecordInv
<1> QED BY <1>1, <1>2, PTL DEF Spec

(* A pending configuration belongs to a create or replacement of its own      *)
(* container that is running or has failed, on a container that is recorded;  *)
(* a running create or replacement of a recorded container still has its      *)
(* candidate (prepareCreate, prepareReplace, recovery-finalizer.ts).          *)
THEOREM CandidatesHold == Spec => []CandidatesAreOpen
<1>1. RecordInv => CandidatesAreOpen
  BY Zenon DEF RecordInv
<1> QED BY <1>1, RecordHolds, PTL

(* What the record calls a container's current configuration was built on the *)
(* host by an operation on that container that is recorded as succeeded, in   *)
(* every interleaving of calls, passes, faults and restarts (promote in       *)
(* recovery-finalizer.ts).                                                    *)
THEOREM CurrentHolds == Spec => []CurrentWasBuilt
<1>1. RecordInv => CurrentWasBuilt
  BY Zenon DEF RecordInv
<1> QED BY <1>1, RecordHolds, PTL

-----------------------------------------------------------------------------
(* Who settles what a call is running.                                        *)

(* Where a call relies on its operation being open. *)
Running == {"prepared", "waiting", "resync", "decide"}

(* Whatever is not a create is open while its call runs it; a create is, too, *)
(* where no recovery runs.                                                    *)
OwnersOpen ==
  \A o \in Ops : (kind[o] # "create" \/ Runners = {}) /\ pc[o] \in Running => action[o] = "running"

(* A call asks for one of the kinds there are. *)
KindsKept == \A o \in Ops : Begun(o) => kind[o] \in Kinds

(* A run lists what has been written down, and reconciles, creates apart,     *)
(* what no call runs any more: the lock it asks about is the call's own.      *)
ListedIsWritten ==
  \A s \in Runners : \A o \in todo[s] : pc[o] \notin {"idle", "guarded", "locked"}

NotUnderWay ==
  \A s \in Runners : pc[s] \in {"resync", "decide"} =>
    kind[subject[s]] = "create" \/ pc[subject[s]] \notin {"idle", "guarded"} \cup Holding

OwnerInv == OwnersOpen /\ ListedIsWritten /\ NotUnderWay

(* A call that settles its own operation is on its way out.                   *)
LEMMA SettleFrame ==
  ASSUME TypeOK, Known, [Next]_vars, NEW o \in Ops
  PROVE  /\ \/ action'[o] = action[o] \/ pc[o] = "locked" \/ pc'[o] \in {"report", "done"}
            \/ \E w \in Workers : Finalize(w) /\ Subject(w) = o
         /\ pc[o] = "report" => pc'[o] \in {"report", "done"}
<1> DEFINE Out == /\ action'[o] = action[o] \/ pc'[o] \in {"report", "done"}
                  /\ pc[o] = "report" => pc'[o] \in {"report", "done"}
<1>0. action \in [Ops -> Statuses] /\ pc \in [Workers -> Places] /\ Ops \subseteq Workers
      /\ o \notin Runners
  BY Zenon, ConstantsAssumption DEF TypeOK, Workers
<1>1. ASSUME NEW gone, NEW status, GivenUp(gone, status) PROVE Out
  BY Zenon, <1>0, <1>1 DEF GivenUp
<1>2. ASSUME NEW p \in Ops, dispatch(p) \/ Timeout(p) \/ Reply(p) \/ Report(p) PROVE Out
  <2>1. CASE \E status : GivenUp({p}, status)
    BY Zenon, <1>1, <2>1
  <2>2. CASE pc[p] \in {"prepared", "waiting"} /\ pc' = [pc EXCEPT ![p] = "waiting"] /\ UNCHANGED action
    BY Zenon, <1>0, <2>2
  <2>3. CASE pc[p] = "waiting" /\ pc' = [pc EXCEPT ![p] = "resync"] /\ UNCHANGED action
    BY Zenon, <1>0, <2>3
  <2>4. CASE pc' = [pc EXCEPT ![p] = "report"] /\ action' = [action EXCEPT ![p] = "succeeded"]
    BY Zenon, <1>0, <2>4
  <2>5. CASE pc' = [pc EXCEPT ![p] = "done"] /\ UNCHANGED action
    BY Zenon, <1>0, <2>5
  <2> QED BY Zenon, <1>2, <2>1, <2>2, <2>3, <2>4, <2>5 DEF dispatch, Timeout, Reply, Report
<1>3. ASSUME Disconnect \/ AgentRestart \/ \E p \in Ops : LateReply(p) PROVE Out
  <2>1. \E lost : Lost(lost)
    BY Zenon, <1>3 DEF Disconnect, AgentRestart, LateReply
  <2> QED BY Zenon, <1>1, <2>1 DEF Lost
<1>4. ASSUME NEW w \in Workers, PassStep(w)
      PROVE  /\ action'[o] = action[o] \/ (Finalize(w) /\ Subject(w) = o)
             /\ pc[o] = "report" => pc'[o] \in {"report", "done"}
  <2>1. action'[o] = action[o] \/ (Finalize(w) /\ Subject(w) = o)
    <3>1. CASE Finalize(w)
      <4> DEFINE p == Subject(w)
      <4>1. CASE UNCHANGED action
        BY Zenon, <4>1
      <4>2. CASE \E st \in {"succeeded", "failed"} : Finish(p, st)
        BY Zenon, <1>0, <3>1, <4>2 DEF Finish
      <4> QED BY Zenon, <3>1, <4>1, <4>2 DEF Finalize, finalize, promote, discard, finalizeRemove,
                                  failOperation, recordConflict, needsAttention, db
    <3>2. CASE ~Finalize(w)
      BY Zenon, <1>4, <3>2 DEF PassStep, PassStart, PassList, PassFail, applyContainers, PassEnd,
                               classify, FinalizeThrows, db
    <3> QED BY Zenon, <3>1, <3>2
  <2>2. pc[o] = "report" => pc'[o] = pc[o]
    <3>1. CASE classify(w)
      BY Zenon, <1>0, <3>1 DEF classify
    <3>2. CASE Finalize(w) \/ FinalizeThrows(w)
      BY Zenon, <1>0, <3>2 DEF Finalize, FinalizeThrows
    <3>3. CASE UNCHANGED pc
      BY Zenon, <3>3
    <3> QED BY Zenon, <1>4, <3>1, <3>2, <3>3 DEF PassStep, PassStart, PassList, PassFail,
                                        applyContainers, PassEnd
  <2> QED BY Zenon, <2>1, <2>2
<1>5. ASSUME NEW p \in Ops, acquire(p) \/ Prepare(p) \/ \E k \in AllKinds, c \in Containers : Begin(p, k, c)
      PROVE  (action'[o] = action[o] \/ pc[o] = "locked") /\ (pc[o] = "report" => pc'[o] = pc[o])
  <2>1. /\ pc[p] \in {"idle", "guarded", "locked"}
        /\ \E pl \in Places : pc' = [pc EXCEPT ![p] = pl]
    BY Zenon, <1>5 DEF acquire, Prepare, Begin, Places
  <2>2. UNCHANGED action \/ (pc[p] = "locked" /\ action' = [action EXCEPT ![p] = "running"])
    BY Zenon, <1>5 DEF acquire, Prepare, Begin, prepare, prepareCreate, prepareReplace, prepareRemove,
                  prepareLifecycle, db
  <2> QED BY Zenon, <1>0, <2>1, <2>2
<1>6. ASSUME NEW s \in Runners, RunStep(s) PROVE UNCHANGED action /\ pc'[o] = pc[o]
  <2>1. UNCHANGED action
    BY Zenon, <1>6 DEF RunStep, RunStart, RunPassed, RunEnd, recoverHost, db
  <2>2. UNCHANGED pc \/ \E pl \in Places : pc' = [pc EXCEPT ![s] = pl]
    BY Zenon, <1>6 DEF RunStep, RunStart, RunPassed, RunEnd, recoverHost, Places
  <2> QED BY Zenon, <1>0, <2>1, <2>2
<1>7. ASSUME NEW p \in Ops, AgentStep(p) PROVE UNCHANGED <<action, pc>>
  BY Zenon, <1>7 DEF AgentStep, Accept, Refuse, Create, Replace, Commit, Rollback, Remove,
              Lifecycle, serverSide, db
<1>8. ASSUME ServerRestart PROVE Out
  BY Zenon, <1>0, <1>8 DEF ServerRestart, db
<1>9. ASSUME Reconnect \/ \E d \in Claims : ExternalRemove(d) PROVE UNCHANGED <<action, pc>>
  BY Zenon, <1>9 DEF Reconnect, ExternalRemove, serverSide, db
<1>10. CASE UNCHANGED vars
  BY Zenon, <1>10 DEF vars, db
<1>11. CASE Next
  BY Zenon, <1>11, <1>2, <1>3, <1>4, <1>5, <1>6, <1>7, <1>8, <1>9 DEF Next, CallStep
<1> QED BY Zenon, <1>10, <1>11

(* What a run holds after a step: of the list, what it held or found open; as *)
(* its subject, what it had or has just taken from the list.                  *)
LEMMA RunFrame ==
  ASSUME TypeOK, [Next]_vars, NEW s \in Runners
  PROVE  /\ todo'[s] \subseteq todo[s] \cup unresolvedOperations
         /\ pc'[s] \in {"resync", "decide"} =>
              \/ pc[s] \in {"resync", "decide"} /\ subject'[s] = subject[s]
              \/ subject'[s] \in todo[s] /\ held[target[subject'[s]]] = None
<1>0. /\ todo \in [Runners -> SUBSET Ops] /\ subject \in [Runners -> Ops \cup {None}]
      /\ pc \in [Workers -> Places] /\ Runners \subseteq Workers /\ s \notin Ops
  BY Zenon, ConstantsAssumption DEF TypeOK, Workers
<1> DEFINE Frame == /\ todo'[s] \subseteq todo[s] \cup unresolvedOperations
                    /\ pc'[s] \in {"resync", "decide"} =>
                         \/ pc[s] \in {"resync", "decide"} /\ subject'[s] = subject[s]
                         \/ subject'[s] \in todo[s] /\ held[target[subject'[s]]] = None
<1>1. ASSUME NEW r \in Runners, NEW o \in Ops, recoverHost(r, o) PROVE Frame
  <2>1. CASE r = s
    BY SMTT(60), <1>0, <1>1, <2>1 DEF recoverHost, isBusy
  <2>2. CASE r # s
    BY SMTT(60), <1>0, <1>1, <2>2 DEF recoverHost
  <2> QED BY Zenon, <2>1, <2>2
<1>2. ASSUME NEW r \in Runners, RunPassed(r) PROVE Frame
  BY SMTT(60), <1>0, <1>2 DEF RunPassed
<1>3. ASSUME NEW r \in Runners, RunStart(r) \/ RunEnd(r) PROVE Frame
  BY SMTT(60), <1>0, <1>3 DEF RunStart, RunEnd
<1>4. ASSUME NEW w \in Workers, classify(w) PROVE Frame
  BY SMTT(60), <1>0, <1>4 DEF classify, runs
<1>5. ASSUME NEW w \in Workers, Finalize(w) \/ FinalizeThrows(w) PROVE Frame
  BY SMTT(60), <1>0, <1>5 DEF Finalize, FinalizeThrows
<1>6. ASSUME UNCHANGED <<todo, subject>>, pc'[s] = pc[s] \/ pc'[s] = "idle" PROVE Frame
  BY <1>0, <1>6
<1>7. ASSUME NEW w \in Workers, PassStep(w) PROVE Frame
  <2>1. CASE UNCHANGED <<todo, subject, pc>>
    BY Zenon, <1>6, <2>1
  <2> QED
    BY Zenon, <1>4, <1>5, <1>7, <2>1 DEF PassStep, PassStart, PassList, PassFail, applyContainers, PassEnd, runs
<1>8. ASSUME NEW o \in Ops, CallStep(o) \/ Timeout(o) \/ LateReply(o)
                              \/ \E k \in AllKinds, c \in Containers : Begin(o, k, c)
      PROVE  Frame
  <2>1. UNCHANGED <<todo, subject>>
    BY Zenon, <1>8 DEF CallStep, acquire, Prepare, dispatch, Reply, Report, Timeout, LateReply, Lost,
                       Begin, runs
  <2>2. CASE \E pl \in Places : pc' = [pc EXCEPT ![o] = pl]
    BY Zenon, <1>0, <1>6, <2>1, <2>2
  <2>3. CASE \E gone \in SUBSET Ops, status \in Statuses : GivenUp(gone, status)
    BY Zenon, <1>0, <1>6, <2>1, <2>3 DEF GivenUp
  <2>4. ASSUME LateReply(o) PROVE \E gone \in SUBSET Ops, status \in Statuses : GivenUp(gone, status)
    BY <2>4 DEF LateReply, Lost, Statuses
  <2> QED
    BY Zenon, <1>8, <2>2, <2>3, <2>4
       DEF CallStep, acquire, Prepare, dispatch, Reply, Report, Timeout, Begin, Places, Statuses
<1>9. ASSUME Disconnect \/ AgentRestart PROVE Frame
  <2>1. \E lost : Lost(lost)
    BY Zenon, <1>9 DEF Disconnect, AgentRestart
  <2>2. UNCHANGED <<todo, subject>> /\ GivenUp({p \in Ops : pc[p] = "waiting"}, "failed")
    BY Zenon, <2>1 DEF Lost
  <2> QED BY <1>0, <1>6, <2>2 DEF GivenUp
<1>10. ASSUME ServerRestart PROVE Frame
  BY <1>0, <1>10 DEF ServerRestart
<1>11. ASSUME UNCHANGED serverSide \/ UNCHANGED vars PROVE Frame
  BY Zenon, <1>6, <1>11 DEF serverSide, vars, runs
<1>12. ASSUME NEW o \in Ops, AgentStep(o) PROVE UNCHANGED serverSide
  BY Zenon, <1>12 DEF AgentStep, Accept, Refuse, Create, Replace, Commit, Rollback, Remove, Lifecycle
<1>13. ASSUME Reconnect \/ \E d \in Claims : ExternalRemove(d) PROVE UNCHANGED serverSide
  BY Zenon, <1>13 DEF Reconnect, ExternalRemove
<1> HIDE DEF Frame
<1>14. Frame
  BY Zenon, <1>1, <1>2, <1>3, <1>7, <1>8, <1>9, <1>10, <1>11, <1>12, <1>13 DEF Next, RunStep
<1> QED BY Zenon, <1>14 DEF Frame

(* Every step keeps it: a run that settles an operation took it from its list *)
(* when nobody held the lock of the operation's container, and a call never   *)
(* comes back to what it has left.                                            *)
LEMMA OwnerStep ==
  ASSUME TypeOK, Known, Unwritten, OneOwner, OwnerInv, [Next]_vars
  PROVE  OwnerInv'
<1>0. /\ Ops \subseteq Workers /\ Runners \subseteq Workers /\ Ops \cap Runners = {}
      /\ None \notin Ops /\ None \notin Runners
      /\ todo \in [Runners -> SUBSET Ops] /\ subject \in [Runners -> Ops \cup {None}]
  BY Zenon, ConstantsAssumption DEF TypeOK, Workers
<1>1. ASSUME NEW o \in Ops, kind'[o] # "create" \/ Runners = {}, pc'[o] \in Running
      PROVE  action'[o] = "running"
  <2>1. CASE pc[o] = "locked"
    <3>1. prepare(o)
      BY Zenon, <1>1, <2>1, PlaceFrame DEF Running, Holding
    <3>2. action' = [action EXCEPT ![o] = "running"] /\ action \in [Ops -> Statuses]
      BY Zenon, <3>1 DEF prepare, prepareCreate, prepareReplace, prepareRemove, prepareLifecycle, TypeOK
    <3> QED BY Zenon, <3>2
  <2>2. CASE pc[o] # "locked"
    <3>1. pc[o] \in Running
      BY Zenon, <1>1, <2>2, PlaceFrame, SettleFrame DEF Running, Holding
    <3>2. (kind[o] # "create" \/ Runners = {}) /\ action[o] = "running"
      BY Zenon, <1>1, <3>1, CallFrame DEF Begun, Running, OwnerInv, OwnersOpen
    <3>3. ASSUME NEW w \in Workers, Finalize(w), Subject(w) = o PROVE FALSE
      <4>1. CASE w \in Ops
        <5>1. w = o
          BY Zenon, <3>3, <4>1 DEF Subject
        <5>2. pc' = [pc EXCEPT ![w] = IF w \in Ops THEN "done" ELSE "recover"]
          BY Zenon, <3>3 DEF Finalize
        <5>3. pc \in [Workers -> Places] /\ o \in Workers
          BY Zenon, <1>0 DEF TypeOK
        <5>4. pc'[o] = "done"
          BY Zenon, <4>1, <5>1, <5>2, <5>3
        <5> QED BY Zenon, <1>1, <5>4 DEF Running
      <4>2. CASE w \in Runners
        <5>1. subject[w] = o /\ pc[w] = "decide"
          BY Zenon, <1>0, <3>3, <4>2 DEF Subject, Finalize
        <5> QED BY Zenon, <3>1, <3>2, <4>2, <5>1 DEF OwnerInv, NotUnderWay, Running, Holding
      <4> QED BY Zenon, <4>1, <4>2 DEF Workers
    <3> QED BY Zenon, <1>1, <2>2, <3>2, <3>3, SettleFrame DEF Running
  <2> QED BY Zenon, <2>1, <2>2
<1>2. ASSUME NEW s \in Runners, NEW o \in todo'[s] PROVE pc'[o] \notin {"idle", "guarded", "locked"}
  <2>1. o \in Ops /\ pc[o] \notin {"idle", "guarded", "locked"}
    <3>1. CASE o \in todo[s]
      BY Zenon, <1>0, <3>1 DEF OwnerInv, ListedIsWritten
    <3>2. CASE o \in unresolvedOperations
      BY Zenon, <3>2 DEF unresolvedOperations, Unwritten
    <3> QED BY Zenon, <1>2, <3>1, <3>2, RunFrame
  <2> QED BY Zenon, <2>1, PlaceFrame DEF Holding
<1>3. ASSUME NEW s \in Runners, pc'[s] \in {"resync", "decide"}
      PROVE  kind'[subject'[s]] = "create" \/ pc'[subject'[s]] \notin {"idle", "guarded"} \cup Holding
  <2>1. PICK o \in Ops : o = subject'[s] /\ pc[o] # "idle"
               /\ (kind[o] = "create" \/ pc[o] \notin {"idle", "guarded"} \cup Holding)
    <3>1. CASE pc[s] \in {"resync", "decide"} /\ subject'[s] = subject[s]
      BY Zenon, <1>0, <3>1 DEF OwnerInv, NotUnderWay, Known, Begun
    <3>2. CASE subject'[s] \in todo[s] /\ held[target[subject'[s]]] = None
      <4>1. PICK o \in Ops : o = subject'[s]
        BY Zenon, <1>0, <3>2
      <4>2. pc[o] \notin {"idle", "guarded", "locked"}
        BY Zenon, <3>2, <4>1 DEF OwnerInv, ListedIsWritten
      <4>3. ASSUME kind[o] # "create", pc[o] \in Holding PROVE FALSE
        BY Zenon, <1>0, <3>2, <4>1, <4>3 DEF OneOwner, Key
      <4> QED BY Zenon, <4>1, <4>2, <4>3
    <3> QED BY Zenon, <1>3, <3>1, <3>2, RunFrame
  <2>2. kind'[o] = kind[o]
    BY Zenon, <2>1, CallFrame DEF Begun
  <2>3. pc[o] \notin {"idle", "guarded"} \cup Holding => pc'[o] \notin {"idle", "guarded"} \cup Holding
    BY Zenon, PlaceFrame DEF Holding
  <2> QED BY Zenon, <2>1, <2>2, <2>3
<1> QED BY Zenon, <1>1, <1>2, <1>3 DEF OwnerInv, OwnersOpen, ListedIsWritten, NotUnderWay

LEMMA KindsStep ==
  ASSUME TypeOK, KindsKept, [Next]_vars
  PROVE  KindsKept'
<1> SUFFICES ASSUME NEW o \in Ops, Begun(o)' PROVE kind'[o] \in Kinds
  BY Zenon DEF KindsKept
<1>1. CASE Begun(o)
  BY Zenon, <1>1, CallFrame DEF KindsKept
<1>2. ASSUME NEW k \in AllKinds, NEW c \in Containers, Begin(o, k, c) PROVE kind'[o] \in Kinds
  <2>1. kind' = [kind EXCEPT ![o] = k] /\ k \in Kinds /\ kind \in [Ops -> AllKinds \cup {None}]
    BY Zenon, <1>2 DEF Begin, TypeOK
  <2> QED BY Zenon, <2>1
<1> QED BY Zenon, <1>1, <1>2, CallFrame

(* For any number of calls, runs, passes and faults: while a replacement, a   *)
(* removal or a lifecycle call is running its operation nobody else settles   *)
(* it.  recoverHost asks for the lock of the container, which those calls     *)
(* hold; a create holds the lock of a name instead.                           *)
THEOREM OwnersAreUndisturbed == Spec => [](OwnersOpen /\ KindsKept)
<1> DEFINE All == TypeOK /\ Known /\ Unwritten /\ OneOwner /\ OwnerInv /\ KindsKept
<1>1. Init => All
  <2>1. Init => OneOwner /\ Unwritten
    BY Zenon DEF Init, OneOwner, Holding, Workers, Unwritten, Begun
  <2>2. Init => OwnerInv /\ KindsKept
    BY Zenon DEF Init, OwnerInv, OwnersOpen, ListedIsWritten, NotUnderWay, Running, Workers,
                 KindsKept, Begun
  <2> QED BY Zenon, <2>1, <2>2, InitTypeKnown
<1>2. All /\ [Next]_vars => All'
  BY Zenon, TypeStep, KnownStep, UnwrittenStep, OneOwnerStep, OwnerStep, KindsStep
<1>3. All => OwnersOpen /\ KindsKept
  BY Zenon DEF OwnerInv
<1> QED BY <1>1, <1>2, <1>3, PTL DEF Spec

(* Where no call creates, or no recovery runs beside the calls, the operation *)
(* of every call is open until that call is done with it (recoverHost's       *)
(* isBusy test).                                                              *)
THEOREM LiveOwnerHolds ==
  ASSUME "create" \notin Kinds \/ Runners = {}
  PROVE  Spec => []LiveOwnerUndisturbed
<1>1. OwnersOpen /\ KindsKept => LiveOwnerUndisturbed
  BY Zenon DEF OwnersOpen, KindsKept, Begun, LiveOwnerUndisturbed, Running
<1> QED BY <1>1, OwnersAreUndisturbed, PTL
=============================================================================
