----------------------------- MODULE MCProgress -----------------------------
(***************************************************************************)
(* What must happen in the end, in the components that wait for one another *)
(* over a connection: each by itself, as in MCComponents, with its own      *)
(* fairness while it is the one that moves.                                 *)
(***************************************************************************)
EXTENDS MCGateway, Onboarding, Access, LogStreams

VARIABLE part

progressVars == <<part, vars, onboardingVars, accessVars, streamVars>>

FaultAndRevocation == Once({"fault", "revoke"})
OneOperator == [v \in Viewers |-> v]

ProgressInit ==
  /\ part \in {"gateway", "onboarding", "access", "streams"}
  /\ Init /\ OnboardingInit /\ AccessInit /\ LogStreamsInit
  /\ part = "access" \/ ~account.enabled

ProgressNext ==
  /\ UNCHANGED part
  /\ \/ /\ part = "gateway" /\ Next
        /\ UNCHANGED <<onboardingVars, accessVars, streamVars>>
     \/ /\ part = "onboarding" /\ OnboardingNext
        /\ UNCHANGED <<vars, accessVars, streamVars>>
     \/ /\ part = "access" /\ AccessNext
        /\ UNCHANGED <<vars, onboardingVars, streamVars>>
     \/ /\ part = "streams" /\ LogStreamsNext
        /\ UNCHANGED <<vars, onboardingVars, accessVars>>

(* Fairness of the component that moves.  The connection: a handler goes on,   *)
(* timers fire, the agent reads, beats, dials again and is restarted.         *)
GatewayFairness ==
  /\ \A k \in Conns :
       WF_vars(part = "gateway" /\ ServerStep(k)) /\ WF_vars(part = "gateway" /\ Close(k))
  /\ WF_vars(part = "gateway" /\ \E k \in Conns : Dial(k))
  /\ WF_vars(part = "gateway" /\ disconnect)
  /\ \A w \in Work :
       WF_vars(part = "gateway" /\ (handleRequest(w) \/ reply(w) \/ TimeOut(w)))
  /\ WF_vars(part = "gateway" /\ (Receive \/ ReadFails \/ Leave \/ Restarted))
  /\ WF_vars(part = "gateway" /\ heartbeat)

(* Requests run on, an agent that was installed connects and is asked what    *)
(* its host is, and the dialog polls until it sees the host.                  *)
OnboardingFairness ==
  /\ \A m \in Machines :
       /\ WF_onboardingVars(part = "onboarding" /\ OnServer(m))
       /\ WF_onboardingVars(part = "onboarding" /\ OnHost(m))
  /\ \A p \in Pollers :
       WF_onboardingVars(part = "onboarding" /\ (resolve(p) \/ settleSetup(p) \/ nameHost(p)
                                                   \/ recordCompleted(p)))

Waiting(b) == tab[b].kind = "unknown" \/ tab[b].page = "completing"

(* A request is handled and its answer, or its failure, comes; a guard that   *)
(* waits for the session and a sign-in that completes ask.  Nobody has to     *)
(* open or to refresh a page.                                                 *)
AccessFairness ==
  /\ \A c \in Calls :
       WF_accessVars(part = "access" /\ Serve(c)) /\ WF_accessVars(part = "access" /\ receive(c))
  /\ \A b \in Browsers :
       WF_accessVars(part = "access" /\ \E c \in Calls : Waiting(b) /\ restore(c, b))

(* Handlers run on, the interval of each stream fires, and the agent gets     *)
(* what it is sent.  That a lifetime runs out is not assumed: it is half an   *)
(* hour, and would end everything.                                            *)
LogStreamsFairness ==
  \A r \in Attempts :
    /\ WF_streamVars(part = "streams" /\ Handler(r))
    /\ WF_streamVars(part = "streams" /\ revalidate(r))
    /\ WF_streamVars(part = "streams" /\ (cancelArrives(r) \/ handleStream(r)))

ProgressSpec ==
  /\ ProgressInit /\ [][ProgressNext]_progressVars
  /\ GatewayFairness /\ OnboardingFairness /\ AccessFairness /\ LogStreamsFairness

-----------------------------------------------------------------------------
(* A revoked agent ends up without a live connection, and stays without one,  *)
(* even when its hello was being handled while it was revoked: identity is    *)
(* resolved for every message (resolveIdentity, AgentsController.revoke).     *)
RevokedIsCutOff ==
  part = "gateway" => (revoked ~> [](registered = None \/ sock[registered] = "closed"))

Live == loop = "up" /\ registered = session /\ sock[session] = "open" /\ polling

(* The connection comes back after whatever went wrong and the server knows   *)
(* the agent by its newest one (Run, register, release), unless the agent is  *)
(* revoked or holds a certificate the server no longer recognises.            *)
ConnectedAgain == part = "gateway" => <>[](revoked \/ stored # cert \/ Live)

Spoiled == \/ mishaps > 0 \/ \E a \in AgentIds : agentRows[a].st = "deleted"
           \/ \E t \in TokenIds : enrollTokens[t].withdrawn
           \/ \E t \in TokenIds : tokenTaker[t] # {} /\ enrollTokens[t].byHand

(* A setup whose ticket was spent is completed by the host it enrolled, if    *)
(* nothing died, failed or was withdrawn on the way and no machine was        *)
(* enrolled by hand; and a completion that was recorded is followed through:  *)
(* the host is named and the entry written, unless the server stops in        *)
(* between (consumeTicket, enroll, resolveAndSettle).                         *)
SetupCompletes ==
  part = "onboarding" =>
    /\ setup.consumed ~> (setup.completed \/ Spoiled)
    /\ setup.completed ~>
         \/ mishaps > 0
         \/ completions = 1 /\ \E a \in AgentIds : a = setup.agent /\ hostRows[a].named

(* The application never stays between two answers: a session that has not    *)
(* been checked is checked, whatever the answer (restore, runSessionGuard).   *)
CheckResolves ==
  part = "access" => \A b \in Browsers : tab[b].kind = "unknown" ~> tab[b].kind # "unknown"

Deluded(b) == /\ tab[b].kind = "authenticated" /\ tab[b].page = "app"
              /\ tab[b].cookie = 0 \/ \E s \in SessionIds :
                                        s = tab[b].cookie /\ sessionRows[s].st = "over"

(* A request of a page that has not been answered yet. *)
Reads(b) == \E c \in Calls : call[c].op = "read" /\ call[c].from = b

(* A browser that shows its pages with a session that has ended finds out if  *)
(* it goes on asking for anything, even if the answer of an old check has     *)
(* just told it the opposite: an answer signs it out, or a new sign-in has    *)
(* taken its place (sessionInterceptor, Auth.refresh).  A page that asks for  *)
(* nothing goes on showing what it has: no page but the dialog that adds a    *)
(* host reads on its own.                                                     *)
DelusionEnds ==
  part = "access" =>
    \A b \in Browsers : []<>Reads(b) => (Deluded(b) ~> ~Deluded(b))

(* Whatever a browser takes its session for, it finds out how it stands when  *)
(* it asks.                                                                   *)
BrowserFindsOut == CheckResolves /\ DelusionEnds

(* Nothing that was withdrawn goes on being shown: a user whose session or    *)
(* permission has ended gets no more of a log, and an agent that is gone or   *)
(* revoked serves none, by the interval's check and before any lifetime is    *)
(* over (revalidate, abandon, endStreamsOfAgent).                             *)
WithdrawnIsEnded ==
  part = "streams" =>
    \A r \in Attempts :
      (r \in active /\ (UserOfAttempt(r) \notin entitled \/ ~trusted)) ~> r \notin active

(* A reader does not outlive the stream it was begun for: if the agent reads  *)
(* while the server carries the stream, and the stream ends, whoever ends it, *)
(* then the reader stops, without waiting for a lifetime or for the ceiling   *)
(* of the agent (finish, cancelStream, streams.cancel, cancelAll).  Not so a  *)
(* reader that begins after its cancel has come, and a stream whose viewer    *)
(* left before open had returned: those run until a ceiling ends them.        *)
ReadersStop ==
  part = "streams" =>
    \A r \in Attempts :
      []((reader[r] = "reading" /\ r \in carried) =>
            [](r \notin carried => <>(reader[r] # "reading")))

=============================================================================
