------------------------------- MODULE Gateway -------------------------------
(***************************************************************************)
(* One agent and the control server across connections: the gateway and    *)
(* its connection registry, capability dispatch and log streams, revocation *)
(* and certificate renewal on the server's side; on the agent's side the   *)
(* session, its reader and its loop, and the handlers.                     *)
(*                                                                         *)
(* A connection is a socket: its id is used again once neither side holds   *)
(* it.  Work w is one request to the agent, an operation or a stream, with  *)
(* its identifier and the handler the agent runs for it.  A certificate is  *)
(* the number of renewals it is the result of.                             *)
(***************************************************************************)
EXTENDS Naturals, Sequences

CONSTANTS None, Conns, Requests, Streams,
          Budget     \* how often each of these happens

(* fault: the network loses a connection or a process restarts; renew: a      *)
(* certificate is due; revoke: an operator revokes it.                        *)
Faults == {"fault", "renew", "revoke"}

ASSUME GatewayAssumption ==
  /\ Budget \in [Faults -> Nat]
  /\ None \notin Conns
  /\ Requests \cap Streams = {}
  /\ None \notin Requests \cup Streams

Work == Requests \cup Streams

VARIABLES
  (* the control server *)
  sock,       \* each socket, as the server has it
  identified, \* the connections whose state has an agentId (helloReceived)
  stage,      \* where the handling of a connection's first message is
  registered, \* AgentConnectionManager.connections, for this agent
  polling,    \* DiscoveryScheduler has a schedule for it
  waiting,    \* pending and streams: the socket each piece of work went out on
  result,     \* how far each piece of work is for whoever asked for it
  revoking,   \* revoke has written the row and not yet dropped the connection
  (* PostgreSQL *)
  revoked, cert, \* agents.revoked_at, agents.certificate_fingerprint
  (* the wire *)
  toServer, toAgent,
  gone,       \* the connections whose agent end is closed or cut off
  (* the agent *)
  loop,       \* readLoop, or what became of the process
  taken,      \* readLoop has taken a message and may still be busy with it
  session,    \* Client.conn
  greeted,    \* hello_ack has arrived: the heartbeat ticks
  newKey,     \* renewalKeyPEM is set
  stored,     \* the certificate on disk
  used,       \* the certificate each connection was made with
  job, arrived, \* each handler, and the connection its request arrived on
  budget

memory == <<sock, identified, stage, registered, polling, waiting, result, revoking>>
db     == <<revoked, cert>>
wire   == <<toServer, toAgent, gone>>
agent  == <<loop, taken, session, greeted, newKey, stored, used, job, arrived>>
vars   == <<memory, db, wire, agent, budget>>

SockStates == {"closed", "open", "ending", "destroyed"}
Stages     == {"idle", "known", "unknown", "revoked", "greeting"}
Results    == {"none", "asked", "started", "over"}
LoopStates == {"down", "up", "leaving", "refused", "exited", "panicked"}
JobStates  == {"none", "spawned", "running", "cancelled"}
Certs      == 0 .. Budget["renew"]
ToServer   == [t : {"hello", "heartbeat", "renew"}, x : {None}]
                \cup [t : {"response", "stream_started", "stream_end"}, x : Work]
ToAgent    == [t : {"hello_ack"}, x : {None}]
                \cup [t : {"request", "stream_cancel"}, x : Work]
                \cup [t : {"error"}, x : {"AGENT_REVOKED", "refused"}]
                \cup [t : {"certificate.renewed"}, x : Certs]

TypeOK ==
  /\ sock \in [Conns -> SockStates]
  /\ identified \subseteq Conns
  /\ stage \in [Conns -> Stages]
  /\ registered \in Conns \cup {None}
  /\ polling \in BOOLEAN
  /\ waiting \in [Work -> Conns \cup {None}]
  /\ result \in [Work -> Results]
  /\ revoking \in BOOLEAN
  /\ revoked \in BOOLEAN
  /\ cert \in Certs
  /\ toServer \in [Conns -> Seq(ToServer)]
  /\ toAgent \in [Conns -> Seq(ToAgent)]
  /\ gone \subseteq Conns
  /\ loop \in LoopStates
  /\ taken \in BOOLEAN
  /\ session \in Conns \cup {None}
  /\ greeted \in BOOLEAN
  /\ newKey \in BOOLEAN
  /\ stored \in Certs
  /\ used \in [Conns -> Certs]
  /\ job \in [Work -> JobStates]
  /\ arrived \in [Work -> Conns \cup {None}]
  /\ budget \in [Faults -> Nat]

(* An agent that is enrolled and has not connected yet. *)
Init ==
  /\ sock = [k \in Conns |-> "closed"]
  /\ identified = {}
  /\ stage = [k \in Conns |-> "idle"]
  /\ registered = None
  /\ polling = FALSE
  /\ waiting = [w \in Work |-> None]
  /\ result = [w \in Work |-> "none"]
  /\ revoking = FALSE
  /\ revoked = FALSE
  /\ cert = 0
  /\ toServer = [k \in Conns |-> <<>>]
  /\ toAgent = [k \in Conns |-> <<>>]
  /\ gone = Conns
  /\ loop = "down"
  /\ taken = FALSE
  /\ session = None
  /\ greeted = FALSE
  /\ newKey = FALSE
  /\ stored = 0
  /\ used = [k \in Conns |-> 0]
  /\ job = [w \in Work |-> "none"]
  /\ arrived = [w \in Work |-> None]
  /\ budget = Budget

-----------------------------------------------------------------------------
Spend(f) == budget[f] > 0 /\ budget' = [budget EXCEPT ![f] = @ - 1]

Msg(t, x) == [t |-> t, x |-> x]

(* A write by the server: nothing arrives on a socket that is on its way out, *)
(* and a write after end() destroys it.                                       *)
Sent(k, m) ==
  IF sock[k] = "open" /\ k \notin gone THEN [toAgent EXCEPT ![k] = Append(@, m)] ELSE toAgent
Written(k) == [sock EXCEPT ![k] = IF @ = "ending" THEN "destroyed" ELSE @]

(* writeToConnection: whatever connection the client has now. *)
Told(m) ==
  IF session # None /\ session \notin gone /\ sock[session] = "open"
    THEN [toServer EXCEPT ![session] = Append(@, m)] ELSE toServer

(* The callers of ws have an answer or an error. *)
Settled(ws) ==
  /\ waiting' = [w \in Work |-> IF w \in ws THEN None ELSE waiting[w]]
  /\ result' = [w \in Work |-> IF w \in ws THEN "over" ELSE result[w]]

-----------------------------------------------------------------------------
(* AgentGatewayService: messages, one at a time for each connection.  An      *)
(* agent's first message is its hello, so helloReceived holds for the others. *)

(* Mutant: the row is found by its certificate and revoked_at is not read. *)
resolveIdentityOnly(k) ==
  /\ stage[k] = "idle" /\ toServer[k] # <<>>
  /\ stage' = [stage EXCEPT ![k] = IF used[k] # cert THEN "unknown" ELSE "known"]
  /\ UNCHANGED <<sock, identified, registered, polling, waiting, result, revoking, db, wire,
                 agent, budget>>

(* resolveIdentity: the row of the certificate, read when the query runs. *)
resolveIdentity(k) ==
  /\ stage[k] = "idle" /\ toServer[k] # <<>>
  /\ stage' = [stage EXCEPT ![k] = IF used[k] # cert THEN "unknown"
                                   ELSE IF revoked THEN "revoked" ELSE "known"]
  /\ UNCHANGED <<sock, identified, registered, polling, waiting, result, revoking, db, wire,
                 agent, budget>>

(* fail: the refusal is flushed, the rest of what arrived is dropped. *)
fail(k, code) ==
  /\ toAgent' = Sent(k, Msg("error", code))
  /\ sock' = [sock EXCEPT ![k] = IF @ = "open" THEN "ending" ELSE @]
  /\ toServer' = [toServer EXCEPT ![k] = <<>>]
  /\ stage' = [stage EXCEPT ![k] = "idle"]

Refuse(k) ==
  /\ stage[k] \in {"unknown", "revoked"}
  /\ fail(k, IF stage[k] = "revoked" THEN "AGENT_REVOKED" ELSE "refused")
  /\ UNCHANGED <<identified, registered, polling, waiting, result, revoking,
                 db, gone, agent, budget>>

Handling(k, t) == stage[k] = "known" /\ Head(toServer[k]).t = t

Handled(k) ==
  /\ stage' = [stage EXCEPT ![k] = "idle"]
  /\ toServer' = [toServer EXCEPT ![k] = Tail(@)]

(* onHello, up to the first await: AgentConnectionManager.register. *)
onHello(k) ==
  /\ Handling(k, "hello")
  /\ identified' = identified \cup {k}
  /\ registered' = k
  /\ sock' = [j \in Conns |-> IF j = registered /\ j # k /\ sock[j] # "closed"
                                THEN "destroyed" ELSE sock[j]]
  /\ stage' = [stage EXCEPT ![k] = "greeting"]
  /\ UNCHANGED <<polling, waiting, result, revoking, db, wire, agent, budget>>

(* The rest of onHello, when markConnected has been written: hello_ack, and   *)
(* discovery.start.                                                           *)
Greet(k) ==
  /\ stage[k] = "greeting"
  /\ toAgent' = Sent(k, Msg("hello_ack", None))
  /\ polling' = TRUE
  /\ Handled(k)
  /\ UNCHANGED <<sock, identified, registered, waiting, result, revoking,
                 db, gone, agent, budget>>

(* The acknowledgement tells the agent nothing and is left out. *)
touch(k) ==
  /\ Handling(k, "heartbeat")
  /\ Handled(k)
  /\ UNCHANGED <<sock, identified, registered, polling, waiting, result, revoking, db,
                 toAgent, gone, agent, budget>>

(* onRenewal: replaceCertificate, and the certificate on its way.  What can   *)
(* happen between the two is what can happen to the message.                  *)
onRenewal(k) ==
  /\ Handling(k, "renew")
  /\ cert' = cert + 1
  /\ toAgent' = Sent(k, Msg("certificate.renewed", cert + 1))
  /\ Handled(k)
  /\ UNCHANGED <<sock, identified, registered, polling, waiting, result, revoking,
                 revoked, gone, agent, budget>>

(* settle: the reply of a request that waits on this very socket. *)
settle(k) ==
  /\ Handling(k, "response")
  /\ LET w == Head(toServer[k]).x
     IN /\ w \in Requests /\ waiting[w] = k
        /\ Settled({w})
  /\ Handled(k)
  /\ UNCHANGED <<sock, identified, registered, polling, revoking, db,
                 toAgent, gone, agent, budget>>

(* Any other reply is a protocol violation. *)
Unmatched(k) ==
  /\ Handling(k, "response")
  /\ LET w == Head(toServer[k]).x IN w \in Streams \/ waiting[w] # k
  /\ fail(k, "refused")
  /\ UNCHANGED <<identified, registered, polling, waiting, result, revoking,
                 db, gone, agent, budget>>

(* acceptStreamStart, acceptStreamEnd; a message of no running stream is      *)
(* dropped.                                                                   *)
onStreamMessage(k) ==
  /\ Handling(k, "stream_started") \/ Handling(k, "stream_end")
  /\ LET m == Head(toServer[k])
     IN \/ /\ waiting[m.x] = k /\ m.t = "stream_started"
           /\ result' = [result EXCEPT ![m.x] = "started"]
           /\ UNCHANGED waiting
        \/ /\ waiting[m.x] = k /\ m.t = "stream_end"
           /\ Settled({m.x})
        \/ /\ waiting[m.x] # k
           /\ UNCHANGED <<waiting, result>>
  /\ Handled(k)
  /\ UNCHANGED <<sock, identified, registered, polling, revoking, db,
                 toAgent, gone, agent, budget>>

-----------------------------------------------------------------------------
(* Mutant: streams are left out. *)
abandonRequests(k) == Settled({w \in Requests : waiting[w] = k})

(* AgentDispatchService.abandon. *)
abandon(k) == Settled({w \in Work : waiting[w] = k})

(* Mutant: whoever closes takes the registration along. *)
isCurrentAny(k) == registered # None

(* AgentConnectionManager.release: only the current socket. *)
isCurrent(k) == registered = k

(* The close event of a socket.  recordDisconnect's row is history: nothing   *)
(* decides by agents.status.                                                  *)
Close(k) ==
  /\ sock[k] # "closed"
  /\ sock[k] = "destroyed" \/ k \in gone
  /\ sock' = [sock EXCEPT ![k] = "closed"]
  /\ abandon(k)
  /\ \/ /\ k \in identified /\ isCurrent(k)
        /\ registered' = None
        /\ polling' = FALSE
     \/ /\ ~(k \in identified /\ isCurrent(k))
        /\ UNCHANGED <<registered, polling>>
  /\ UNCHANGED <<identified, stage, revoking, db, wire, agent, budget>>

(* AgentsController.revoke: the row first ... *)
revoke ==
  /\ ~revoked /\ Spend("revoke")
  /\ revoked' = TRUE /\ revoking' = TRUE
  /\ UNCHANGED <<sock, identified, stage, registered, polling, waiting, result,
                 cert, wire, agent>>

(* ... then the schedule, the streams and the connection. *)
disconnect ==
  /\ revoking
  /\ revoking' = FALSE
  /\ polling' = FALSE
  /\ registered' = None
  /\ sock' = [k \in Conns |-> IF k = registered /\ sock[k] # "closed" THEN "destroyed" ELSE sock[k]]
  /\ Settled({s \in Streams : waiting[s] # None})
  /\ UNCHANGED <<identified, stage, db, wire, agent, budget>>

(* AgentDispatchService.request, openStream. *)
request(w) ==
  /\ result[w] = "none" /\ registered # None
  /\ \/ /\ sock[registered] = "open"
        /\ waiting' = [waiting EXCEPT ![w] = registered]
        /\ result' = [result EXCEPT ![w] = "asked"]
     \/ /\ sock[registered] # "open"
        /\ result' = [result EXCEPT ![w] = "over"]
        /\ UNCHANGED waiting
  /\ toAgent' = Sent(registered, Msg("request", w))
  /\ sock' = Written(registered)
  /\ UNCHANGED <<identified, stage, registered, polling, revoking, db,
                 toServer, gone, agent, budget>>

(* The timer of a request, or of a stream the agent has not accepted. *)
TimeOut(w) ==
  /\ waiting[w] # None /\ result[w] = "asked"
  /\ Settled({w})
  /\ UNCHANGED <<sock, identified, stage, registered, polling, revoking,
                 db, wire, agent, budget>>

cancelStream(s) ==
  /\ waiting[s] # None
  /\ toAgent' = Sent(waiting[s], Msg("stream_cancel", s))
  /\ sock' = Written(waiting[s])
  /\ Settled({s})
  /\ UNCHANGED <<identified, stage, registered, polling, revoking, db,
                 toServer, gone, agent, budget>>

(* A new process: resetConnectionState, and nothing in memory. *)
ServerRestart ==
  /\ Spend("fault")
  /\ sock' = [k \in Conns |-> "closed"]
  /\ identified' = {}
  /\ stage' = [k \in Conns |-> "idle"]
  /\ registered' = None /\ polling' = FALSE /\ revoking' = FALSE
  /\ Settled({w \in Work : waiting[w] # None})
  /\ toServer' = [k \in Conns |-> <<>>]
  /\ toAgent' = [k \in Conns |-> <<>>]
  /\ UNCHANGED <<revoked, cert, gone, agent>>

-----------------------------------------------------------------------------
(* The agent: Client.session, its loop, its reader and its handlers. *)

(* A socket nobody holds any more. *)
Unused(k) ==
  /\ sock[k] = "closed" /\ stage[k] = "idle" /\ toServer[k] = <<>>
  /\ registered # k /\ k \in gone

(* session: the stored identity, a connection, the hello. *)
Dial(k) ==
  /\ loop = "down" /\ Unused(k)
  /\ sock' = [sock EXCEPT ![k] = "open"]
  /\ identified' = identified \ {k}
  /\ used' = [used EXCEPT ![k] = stored]
  /\ toServer' = [toServer EXCEPT ![k] = <<Msg("hello", None)>>]
  /\ toAgent' = [toAgent EXCEPT ![k] = <<>>]
  /\ gone' = gone \ {k}
  /\ loop' = "up" /\ session' = k
  /\ UNCHANGED <<stage, registered, polling, waiting, result, revoking, db,
                 taken, greeted, newKey, stored, job, arrived, budget>>

(* readLoop takes a message from its reader. *)
Take(m) ==
  /\ loop = "up" /\ toAgent[session] # <<>>
  /\ m = Head(toAgent[session])
  /\ toAgent' = [toAgent EXCEPT ![session] = Tail(@)]
  /\ taken' = TRUE
  /\ UNCHANGED <<memory, db, toServer, gone, session, used, budget>>

onAck(m) ==
  /\ m.t = "hello_ack"
  /\ greeted' = TRUE
  /\ UNCHANGED <<loop, newKey, stored, job, arrived>>

onRequest(m) ==
  /\ m.t = "request"
  /\ job' = [job EXCEPT ![m.x] = "spawned"]
  /\ arrived' = [arrived EXCEPT ![m.x] = session]
  /\ UNCHANGED <<loop, greeted, newKey, stored>>

(* streams.cancel: only a stream that is in the table. *)
onCancel(m) ==
  /\ m.t = "stream_cancel"
  /\ job' = [job EXCEPT ![m.x] = IF @ = "running" THEN "cancelled" ELSE @]
  /\ UNCHANGED <<loop, greeted, newKey, stored, arrived>>

onError(m) ==
  /\ m.t = "error"
  /\ loop' = IF m.x = "AGENT_REVOKED" THEN "refused" ELSE loop
  /\ UNCHANGED <<greeted, newKey, stored, job, arrived>>

(* completeRenewal, and the session is left for one with the new certificate; *)
(* or it cannot be verified or stored, and the session goes on.               *)
onRenewed(m) ==
  /\ m.t = "certificate.renewed" /\ newKey
  /\ \/ stored' = m.x /\ loop' = "leaving" /\ UNCHANGED newKey
     \/ newKey' = FALSE /\ UNCHANGED <<stored, loop>>
  /\ UNCHANGED <<greeted, job, arrived>>

Receive ==
  \E m \in ToAgent : /\ Take(m)
                     /\ onAck(m) \/ onRequest(m) \/ onCancel(m) \/ onError(m) \/ onRenewed(m)

heartbeat ==
  /\ loop = "up" /\ greeted
  /\ \A i \in DOMAIN toServer[session] : toServer[session][i].t # "heartbeat"
  /\ session \notin gone /\ sock[session] = "open"
  /\ toServer' = Told(Msg("heartbeat", None))
  /\ UNCHANGED <<memory, db, toAgent, gone, agent, budget>>

requestRenewal ==
  /\ loop = "up" /\ greeted /\ ~newKey /\ Spend("renew")
  /\ toServer' = Told(Msg("renew", None))
  /\ newKey' = TRUE
  /\ UNCHANGED <<memory, db, toAgent, gone, loop, taken, session, greeted, stored, used, job, arrived>>

(* The process is gone, and its handlers and its connection with it. *)
Dies(l) ==
  /\ loop' = l
  /\ session' = None
  /\ gone' = gone \cup {session}
  /\ job' = [w \in Work |-> "none"] /\ arrived' = [w \in Work |-> None]
  /\ taken' = FALSE /\ greeted' = FALSE /\ newKey' = FALSE
  /\ UNCHANGED <<memory, db, toServer, toAgent, stored, used>>

(* read reports its error and closes its channel.  A loop that waits in its   *)
(* select takes the error.  One that is still busy with a message comes back  *)
(* to find both ready: the closed channel yields no message, and message.Type *)
(* is read from it.                                                           *)
ReadFails ==
  /\ loop = "up"
  /\ \/ session \in gone \/ sock[session] \in {"destroyed", "closed"}
     \/ sock[session] = "ending" /\ toAgent[session] = <<>>
  /\ \/ /\ loop' = "leaving"
        /\ UNCHANGED <<memory, db, wire, taken, session, greeted, newKey, stored, used,
                       job, arrived>>
     \/ taken /\ Dies("panicked")
  /\ UNCHANGED budget

(* The handler has returned. *)
Over(w) ==
  /\ job' = [job EXCEPT ![w] = "none"]
  /\ arrived' = [arrived EXCEPT ![w] = None]

(* handleRequest and handleStream: the handler runs, or its time is over. *)
handleRequest(w) ==
  /\ job[w] = "spawned"
  /\ \/ /\ job' = [job EXCEPT ![w] = "running"]
        /\ toServer' = IF w \in Streams THEN Told(Msg("stream_started", w)) ELSE toServer
        /\ UNCHANGED arrived
     \/ /\ waiting[w] = None
        /\ Over(w)
        /\ toServer' = Told(Msg("response", w))
  /\ UNCHANGED <<memory, db, toAgent, gone, loop, taken, session, greeted, newKey, stored,
                 used, budget>>

reply(w) ==
  /\ job[w] \in {"running", "cancelled"}
  /\ Over(w)
  /\ toServer' = Told(Msg(IF w \in Streams THEN "stream_end" ELSE "response", w))
  /\ UNCHANGED <<memory, db, toAgent, gone, loop, taken, session, greeted, newKey, stored,
                 used, budget>>

(* Mutant: the session ends while its handlers are still at work. *)
LeaveAtOnce ==
  /\ loop \in {"leaving", "refused"}
  /\ loop' = IF loop = "leaving" THEN "down" ELSE "exited"
  /\ gone' = gone \cup {session}
  /\ session' = None
  /\ taken' = FALSE /\ greeted' = FALSE /\ newKey' = FALSE
  /\ UNCHANGED <<memory, db, toServer, toAgent, stored, used, job, arrived, budget>>

(* Mutant: a session that has been left is left again. *)
LeaveAgain ==
  /\ loop \in {"leaving", "refused", "down"}
  /\ \A w \in Work : job[w] = "none"
  /\ loop' = IF loop = "refused" THEN "exited" ELSE "down"
  /\ gone' = gone \cup {session}
  /\ session' = None
  /\ taken' = FALSE /\ greeted' = FALSE /\ newKey' = FALSE
  /\ UNCHANGED <<memory, db, toServer, toAgent, stored, used, job, arrived, budget>>

(* readLoop returns when every handler has, and the session closes. *)
Leave ==
  /\ loop \in {"leaving", "refused"}
  /\ \A w \in Work : job[w] = "none"
  /\ loop' = IF loop = "leaving" THEN "down" ELSE "exited"
  /\ gone' = gone \cup {session}
  /\ session' = None
  /\ taken' = FALSE /\ greeted' = FALSE /\ newKey' = FALSE
  /\ UNCHANGED <<memory, db, toServer, toAgent, stored, used, job, arrived, budget>>

(* The service manager starts it again (Restart=on-failure). *)
Restarted ==
  /\ loop = "panicked"
  /\ loop' = "down"
  /\ UNCHANGED <<memory, db, wire, taken, session, greeted, newKey, stored, used, job,
                 arrived, budget>>

AgentCrash ==
  /\ loop \in {"up", "leaving"} /\ Spend("fault")
  /\ Dies("down")

(* The network loses a connection, with what had not arrived. *)
Cut(k) ==
  /\ k \notin gone /\ Spend("fault")
  /\ gone' = gone \cup {k}
  /\ toAgent' = [toAgent EXCEPT ![k] = <<>>]
  /\ \/ UNCHANGED toServer
     \/ toServer' = [toServer EXCEPT ![k] = SubSeq(@, 1, IF stage[k] = "idle" THEN 0 ELSE 1)]
  /\ UNCHANGED <<memory, db, agent>>

-----------------------------------------------------------------------------
ServerStep(k) ==
  \/ resolveIdentity(k) \/ Refuse(k) \/ onHello(k) \/ Greet(k)
  \/ touch(k) \/ onRenewal(k) \/ settle(k) \/ Unmatched(k) \/ onStreamMessage(k)

Next ==
  \/ \E k \in Conns : ServerStep(k) \/ Close(k) \/ Dial(k) \/ Cut(k)
  \/ revoke \/ disconnect \/ ServerRestart
  \/ \E w \in Work : request(w) \/ TimeOut(w) \/ handleRequest(w) \/ reply(w)
  \/ \E s \in Streams : cancelStream(s)
  \/ Receive \/ heartbeat \/ requestRenewal \/ ReadFails \/ Leave
  \/ Restarted \/ AgentCrash

Spec == Init /\ [][Next]_vars

-----------------------------------------------------------------------------
(* What a handler writes goes to the connection its request came from: a      *)
(* session ends only when its handlers have returned (streams.go, readLoop).  *)
OnOwnConnection == \A w \in Work : job[w] # "none" => arrived[w] = session

(* No caller waits on a connection that has closed, whether it asked before   *)
(* or after, for an answer or for a stream (abandon).                         *)
NothingWaitsOnClosed ==
  \A w \in Work : waiting[w] # None => sock[waiting[w]] # "closed"

(* Every disconnect is ordinary: no order of messages and of the connection's *)
(* end takes the process down (Client.Run).                                   *)
NoPanic == loop # "panicked"
=============================================================================
