------------------------------ MODULE Onboarding ------------------------------
(***************************************************************************)
(* Adding a host: a setup with its bootstrap ticket, the installation       *)
(* script that spends it, enrollment with the token it minted, the identity *)
(* files the agent keeps, certificate renewal over its connection, and the  *)
(* polls that find the setup finished.                                      *)
(*                                                                          *)
(* There is one setup.  The tickets it is given are numbered, and so are    *)
(* enrollment tokens and agents; the host enrollment creates with an agent  *)
(* has the agent's number.  A key pair is <<a, g>>, the g-th made for agent *)
(* a.  What runs on one machine is sequential, so `at' is the place of the  *)
(* machine's script, of the request it has made of the server, or of its    *)
(* agent.                                                                   *)
(***************************************************************************)
EXTENDS Naturals

CONSTANTS
  Machines, Pollers,
  MaxTickets, MaxTokens, MaxKeys,  \* how many tickets, tokens, keys of an agent there are
  Renewable,                       \* the agents whose certificate falls due
  MaxMishaps                       \* how often a process dies or an answer is lost

ASSUME OnboardingAssumption ==
  /\ MaxTickets \in Nat /\ MaxTokens \in Nat /\ MaxMishaps \in Nat
  /\ MaxKeys \in Nat \ {0}

Tickets == 1 .. MaxTickets
TokenIds == 1 .. MaxTokens
AgentIds == 1 .. MaxTokens
Pairs == AgentIds \X (1 .. MaxKeys)
NoPair == <<0, 0>>

VARIABLES
  setup,        \* host_setups, the one row
  enrollTokens, \* agent_enrollment_tokens
  agentRows,    \* agents; the key pair is what the fingerprint is of
  hostRows,     \* hosts
  at, tok, ident, \* the place of each machine, the token and the agent it is about
  disk,         \* agent.key, agent.crt and identity.json on each machine
  poll,         \* resolveAndSettle, for each request that runs it
  told,         \* a get or a cancel may have been answered `connected'
  completions,  \* the audit entries host.setup.completed
  ticketTaker, tokenTaker, \* the machines each ticket and each token let in
  mishaps

tables == <<setup, enrollTokens, agentRows, hostRows>>
places == <<at, tok, ident>>
onboardingVars == <<tables, places, disk, poll, told, completions, ticketTaker, tokenTaker, mishaps>>

InRequest == {"claimed", "minted", "linked", "won", "created", "signed", "recorded"}
OnMachine == {"bare", "script", "hand", "key", "crt", "meta", "ready", "online",
              "renewed", "newkey", "newcrt"}

OnboardingTypeOK ==
  /\ setup \in [ticket : 0 .. MaxTickets, late : BOOLEAN, consumed : BOOLEAN,
                cancelled : BOOLEAN, token : 0 .. MaxTokens, completed : BOOLEAN,
                agent : 0 .. MaxTokens]
  /\ enrollTokens \in [TokenIds -> [issued : BOOLEAN, byHand : BOOLEAN, used : BOOLEAN,
                                    withdrawn : BOOLEAN, agent : 0 .. MaxTokens]]
  /\ agentRows \in [AgentIds -> [st : {"none", "pending", "certified", "deleted"},
                                 pair : Pairs \cup {NoPair},
                                 status : {"pending", "connected", "disconnected"}]]
  /\ hostRows \in [AgentIds -> [st : {"none", "placeholder", "reported"}, named : BOOLEAN]]
  /\ at \in [Machines -> InRequest \cup OnMachine]
  /\ tok \in [Machines -> 0 .. MaxTokens]
  /\ ident \in [Machines -> 0 .. MaxTokens]
  /\ disk \in [Machines -> [key : Pairs \cup {NoPair}, crt : Pairs \cup {NoPair},
                            meta : 0 .. MaxTokens]]
  /\ poll \in [Pollers -> {"idle", "resolve", "complete", "settled", "named"}]
  /\ told \in BOOLEAN
  /\ completions \in 0 .. 2
  /\ ticketTaker \in [Tickets -> SUBSET Machines]
  /\ tokenTaker \in [TokenIds -> SUBSET Machines]
  /\ mishaps \in 0 .. MaxMishaps

(* Nothing has been added yet. *)
OnboardingInit ==
  /\ setup = [ticket |-> 0, late |-> FALSE, consumed |-> FALSE, cancelled |-> FALSE,
              token |-> 0, completed |-> FALSE, agent |-> 0]
  /\ enrollTokens = [t \in TokenIds |-> [issued |-> FALSE, byHand |-> FALSE, used |-> FALSE,
                                         withdrawn |-> FALSE, agent |-> 0]]
  /\ agentRows = [a \in AgentIds |-> [st |-> "none", pair |-> NoPair, status |-> "pending"]]
  /\ hostRows = [a \in AgentIds |-> [st |-> "none", named |-> FALSE]]
  /\ at = [m \in Machines |-> "bare"]
  /\ tok = [m \in Machines |-> 0]
  /\ ident = [m \in Machines |-> 0]
  /\ disk = [m \in Machines |-> [key |-> NoPair, crt |-> NoPair, meta |-> 0]]
  /\ poll = [p \in Pollers |-> "idle"]
  /\ told = FALSE
  /\ completions = 0
  /\ ticketTaker = [n \in Tickets |-> {}]
  /\ tokenTaker = [t \in TokenIds |-> {}]
  /\ mishaps = 0

-----------------------------------------------------------------------------
Mishap == mishaps < MaxMishaps /\ mishaps' = mishaps + 1

Goes(m, place) == at' = [at EXCEPT ![m] = place]

(* Store.Load: metadata, and a certificate of that agent that fits the key.   *)
Loads(m) == /\ disk[m].meta # 0
            /\ disk[m].key = disk[m].crt
            /\ disk[m].crt \in {disk[m].meta} \X (1 .. MaxKeys)

(* A machine nothing is being installed on; its agent may be there already.   *)
Rest(m) == IF Loads(m) THEN "ready" ELSE "bare"
Idle(m) == at[m] \in {"bare", "ready"}

(* The script, the command or the request is over and nothing is kept of it.  *)
Ends(m) == /\ Goes(m, Rest(m))
           /\ tok' = [tok EXCEPT ![m] = 0]
           /\ ident' = [ident EXCEPT ![m] = 0]

-----------------------------------------------------------------------------
(* HostSetupService, for the operator. *)
create ==
  /\ setup.ticket = 0 /\ MaxTickets > 0
  /\ setup' = [setup EXCEPT !.ticket = 1]
  /\ UNCHANGED <<enrollTokens, agentRows, hostRows, places, disk, poll, told, completions,
                 ticketTaker, tokenTaker, mishaps>>

(* The digest is replaced, so the ticket before it stops working. *)
regenerate ==
  /\ setup.ticket \in 1 .. MaxTickets - 1
  /\ ~setup.consumed /\ ~setup.cancelled
  /\ setup' = [setup EXCEPT !.ticket = @ + 1, !.late = FALSE]
  /\ UNCHANGED <<enrollTokens, agentRows, hostRows, places, disk, poll, told, completions,
                 ticketTaker, tokenTaker, mishaps>>

(* cancel goes on to resolveAndSettle. *)
cancel(p) ==
  /\ poll[p] = "idle"
  /\ setup.ticket > 0 /\ ~setup.cancelled
  /\ setup' = [setup EXCEPT !.cancelled = TRUE]
  /\ poll' = [poll EXCEPT ![p] = "resolve"]
  /\ UNCHANGED <<enrollTokens, agentRows, hostRows, places, disk, told, completions,
                 ticketTaker, tokenTaker, mishaps>>

(* HOST_SETUP_TICKET_TTL has passed. *)
TicketExpires ==
  /\ setup.ticket > 0 /\ ~setup.late
  /\ setup' = [setup EXCEPT !.late = TRUE]
  /\ UNCHANGED <<enrollTokens, agentRows, hostRows, places, disk, poll, told, completions,
                 ticketTaker, tokenTaker, mishaps>>

-----------------------------------------------------------------------------
(* EnrollmentService, for the operator. *)
FreshToken(t) == t \in TokenIds /\ ~enrollTokens[t].issued
                   /\ \A u \in TokenIds : u < t => enrollTokens[u].issued

Minted(t, hand) == [enrollTokens EXCEPT ![t].issued = TRUE, ![t].byHand = hand]

(* A token for agents installed by hand.  The last number is left to the      *)
(* setup.                                                                     *)
createEnrollmentToken ==
  /\ \E t \in 1 .. MaxTokens - 1 : FreshToken(t) /\ enrollTokens' = Minted(t, TRUE)
  /\ UNCHANGED <<setup, agentRows, hostRows, places, disk, poll, told, completions,
                 ticketTaker, tokenTaker, mishaps>>

(* The operator runs `dockplane-agent enroll' with it, on any machine, and     *)
(* without --force: replacing an identity is the operator's own choice.       *)
runEnroll(m) ==
  /\ Idle(m)
  /\ \E t \in TokenIds : enrollTokens[t].byHand /\ tok' = [tok EXCEPT ![m] = t]
  /\ Goes(m, "hand")
  /\ UNCHANGED <<tables, ident, disk, poll, told, completions, ticketTaker, tokenTaker, mishaps>>

(* revokeToken, or AGENT_ENROLLMENT_TTL has passed: neither is possible once  *)
(* the token is spent.                                                        *)
revokeToken(t) ==
  /\ enrollTokens[t].issued /\ ~enrollTokens[t].used /\ ~enrollTokens[t].withdrawn
  /\ enrollTokens' = [enrollTokens EXCEPT ![t].withdrawn = TRUE]
  /\ UNCHANGED <<setup, agentRows, hostRows, places, disk, poll, told, completions,
                 ticketTaker, tokenTaker, mishaps>>

-----------------------------------------------------------------------------
(* Mutant: a ticket stays good when it is consumed. *)
TicketGoodAgain(n) == n = setup.ticket /\ ~setup.cancelled /\ ~setup.late

(* HostBootstrapController.bootstrap: consumeTicket claims the ticket, mints  *)
(* an enrollment token, links the setup to it, and the script is the answer.  *)
TicketGood(n) ==
  n = setup.ticket /\ ~setup.consumed /\ ~setup.cancelled /\ ~setup.late

consumeTicket(m, n) ==
  /\ Idle(m)
  /\ TicketGood(n)
  /\ setup' = [setup EXCEPT !.consumed = TRUE]
  /\ ticketTaker' = [ticketTaker EXCEPT ![n] = @ \cup {m}]
  /\ Goes(m, "claimed")
  /\ UNCHANGED <<enrollTokens, agentRows, hostRows, tok, ident, disk, poll, told, completions,
                 tokenTaker, mishaps>>

createToken(m) ==
  /\ at[m] = "claimed"
  /\ \E t \in TokenIds : /\ FreshToken(t)
                         /\ enrollTokens' = Minted(t, FALSE)
                         /\ tok' = [tok EXCEPT ![m] = t]
  /\ Goes(m, "minted")
  /\ UNCHANGED <<setup, agentRows, hostRows, ident, disk, poll, told, completions,
                 ticketTaker, tokenTaker, mishaps>>

(* Mutant: the setup does not learn which token was minted for it. *)
linkTokenNever(m) ==
  /\ at[m] = "minted"
  /\ Goes(m, "linked")
  /\ UNCHANGED <<tables, tok, ident, disk, poll, told, completions, ticketTaker, tokenTaker,
                 mishaps>>

linkToken(m) ==
  /\ at[m] = "minted"
  /\ setup' = [setup EXCEPT !.token = tok[m]]
  /\ Goes(m, "linked")
  /\ UNCHANGED <<enrollTokens, agentRows, hostRows, tok, ident, disk, poll, told, completions,
                 ticketTaker, tokenTaker, mishaps>>

renderInstallScript(m) ==
  /\ at[m] = "linked"
  /\ Goes(m, "script")
  /\ UNCHANGED <<tables, tok, ident, disk, poll, told, completions, ticketTaker, tokenTaker,
                 mishaps>>

-----------------------------------------------------------------------------
(* Mutant: the command does not look for an identity. *)
RefusesScript(m) == at[m] = "script" /\ disk[m].crt # NoPair

(* The script stops on a machine that has a certificate, the command on one   *)
(* whose identity loads.                                                      *)
Refuses(m) == IF at[m] = "script" THEN disk[m].crt # NoPair ELSE Loads(m)

(* Mutant: a token stays good when it is used. *)
TokenGoodAgain(t) == enrollTokens[t].issued /\ ~enrollTokens[t].withdrawn

TokenGood(t) ==
  enrollTokens[t].issued /\ ~enrollTokens[t].used /\ ~enrollTokens[t].withdrawn

(* EnrollmentService.enroll, with claimToken's conditional update first. *)
claimToken(m) ==
  /\ at[m] \in {"script", "hand"} /\ ~Refuses(m)
  /\ TokenGood(tok[m])
  /\ enrollTokens' = [enrollTokens EXCEPT ![tok[m]].used = TRUE]
  /\ tokenTaker' = [tokenTaker EXCEPT ![tok[m]] = @ \cup {m}]
  /\ Goes(m, "won")
  /\ UNCHANGED <<setup, agentRows, hostRows, tok, ident, disk, poll, told, completions,
                 ticketTaker, mishaps>>

(* ... or the script or the command exits, refused here or by the server. *)
Refused(m) ==
  /\ at[m] \in {"script", "hand"}
  /\ Refuses(m) \/ ~TokenGood(tok[m])
  /\ Ends(m)
  /\ UNCHANGED <<tables, disk, poll, told, completions, ticketTaker, tokenTaker, mishaps>>

(* issueForClaimedToken: the transaction that makes the host and the agent.   *)
createIdentity(m) ==
  /\ at[m] = "won"
  /\ \E a \in AgentIds :
       /\ agentRows[a].st = "none" /\ \A b \in AgentIds : b < a => agentRows[b].st # "none"
       /\ agentRows' = [agentRows EXCEPT ![a].st = "pending"]
       /\ hostRows' = [hostRows EXCEPT ![a].st = "placeholder"]
       /\ enrollTokens' = [enrollTokens EXCEPT ![tok[m]].agent = a]
       /\ ident' = [ident EXCEPT ![m] = a]
  /\ Goes(m, "created")
  /\ UNCHANGED <<setup, tok, disk, poll, told, completions, ticketTaker, tokenTaker, mishaps>>

issueAgentCertificate(m) ==
  /\ at[m] = "created"
  /\ Goes(m, "signed")
  /\ UNCHANGED <<tables, tok, ident, disk, poll, told, completions, ticketTaker, tokenTaker,
                 mishaps>>

(* The authority refuses: the agent's row is deleted, the host's is not. *)
issueFails(m) ==
  /\ at[m] = "created"
  /\ agentRows' = [agentRows EXCEPT ![ident[m]].st = "deleted"]
  /\ Ends(m)
  /\ UNCHANGED <<setup, enrollTokens, hostRows, disk, poll, told, completions,
                 ticketTaker, tokenTaker, mishaps>>

recordCertificate(m) ==
  /\ at[m] = "signed"
  /\ agentRows' = [agentRows EXCEPT ![ident[m]].st = "certified", ![ident[m]].pair = <<ident[m], 1>>]
  /\ Goes(m, "recorded")
  /\ UNCHANGED <<setup, enrollTokens, hostRows, tok, ident, disk, poll, told, completions,
                 ticketTaker, tokenTaker, mishaps>>

(* Mutant: answered before the certificate is recorded. *)
EnrollmentAnsweredEarly(m) ==
  /\ at[m] = "signed"
  /\ Goes(m, "key")
  /\ UNCHANGED <<tables, tok, ident, disk, poll, told, completions, ticketTaker, tokenTaker,
                 mishaps>>

(* enrollment.Enroll has the answer and verifies it. *)
EnrollmentAnswered(m) ==
  /\ at[m] = "recorded"
  /\ Goes(m, "key")
  /\ UNCHANGED <<tables, tok, ident, disk, poll, told, completions, ticketTaker, tokenTaker,
                 mishaps>>

(* Store.Save: the key, the certificate, and last the metadata. *)
Save(m) ==
  /\ \/ at[m] = "key" /\ Goes(m, "crt") /\ disk' = [disk EXCEPT ![m].key = <<ident[m], 1>>]
     \/ at[m] = "crt" /\ Goes(m, "meta") /\ disk' = [disk EXCEPT ![m].crt = <<ident[m], 1>>]
     \/ at[m] = "meta" /\ Goes(m, "ready") /\ disk' = [disk EXCEPT ![m].meta = ident[m]]
  /\ UNCHANGED <<tables, tok, ident, poll, told, completions, ticketTaker, tokenTaker, mishaps>>

-----------------------------------------------------------------------------
(* The agent is known by the fingerprint of the certificate it presents. *)
Recognised(m) == \E a \in AgentIds : /\ agentRows[a].st = "certified"
                                     /\ agentRows[a].pair = disk[m].crt

(* hello, and markConnected. *)
Connect(m) ==
  /\ at[m] = "ready" /\ Loads(m) /\ Recognised(m)
  /\ agentRows' = [agentRows EXCEPT ![disk[m].meta].status = "connected"]
  /\ ident' = [ident EXCEPT ![m] = disk[m].meta]
  /\ Goes(m, "online")
  /\ UNCHANGED <<setup, enrollTokens, hostRows, tok, disk, poll, told, completions,
                 ticketTaker, tokenTaker, mishaps>>

(* The first discovery of the host writes what it is. *)
ReportHost(m) ==
  /\ at[m] = "online" /\ hostRows[ident[m]].st = "placeholder"
  /\ hostRows' = [hostRows EXCEPT ![ident[m]].st = "reported"]
  /\ UNCHANGED <<setup, enrollTokens, agentRows, places, disk, poll, told, completions,
                 ticketTaker, tokenTaker, mishaps>>

(* AgentGateway.onRenewal: replaceCertificate, then the certificate is sent.  *)
replaceCertificate(m) ==
  /\ at[m] = "online" /\ ident[m] \in Renewable /\ agentRows[ident[m]].pair[2] < MaxKeys
  /\ agentRows' = [agentRows EXCEPT ![ident[m]].pair = <<ident[m], @[2] + 1>>]
  /\ Goes(m, "renewed")
  /\ UNCHANGED <<setup, enrollTokens, hostRows, tok, ident, disk, poll, told, completions,
                 ticketTaker, tokenTaker, mishaps>>

(* The agent has it, Store.ReplaceCertificate writes the key and then the     *)
(* certificate, and the session is left for a new one.                        *)
Renew(m) ==
  /\ \/ /\ at[m] = "renewed" /\ Goes(m, "newkey")
        /\ disk' = [disk EXCEPT ![m].key = agentRows[ident[m]].pair]
        /\ UNCHANGED agentRows
     \/ /\ at[m] = "newkey" /\ Goes(m, "newcrt")
        /\ disk' = [disk EXCEPT ![m].crt = agentRows[ident[m]].pair]
        /\ UNCHANGED agentRows
     \/ /\ at[m] = "newcrt" /\ Goes(m, "ready")
        /\ agentRows' = [agentRows EXCEPT ![ident[m]].status = "disconnected"]
        /\ UNCHANGED disk
  /\ UNCHANGED <<setup, enrollTokens, hostRows, tok, ident, poll, told, completions,
                 ticketTaker, tokenTaker, mishaps>>

-----------------------------------------------------------------------------
(* resolve: the setup joined with its token, the token's agent, its host. *)
ResolvedAgent ==
  IF setup.token = 0 THEN 0
  ELSE LET a == enrollTokens[setup.token].agent
       IN  IF a # 0 /\ agentRows[a].st \in {"pending", "certified"} THEN a ELSE 0

isComplete == /\ ResolvedAgent # 0
              /\ agentRows[ResolvedAgent].status = "connected"
              /\ hostRows[ResolvedAgent].st = "reported"

statusOf == IF setup.cancelled THEN "cancelled"
            ELSE IF setup.completed \/ isComplete THEN "connected"
            ELSE IF setup.consumed THEN "installing"
            ELSE IF setup.late THEN "expired" ELSE "waiting"

(* get, from the dialog that polls, and the end of cancel: resolveAndSettle   *)
(* reads the setup ...                                                        *)
resolve(p) ==
  /\ poll[p] \in {"idle", "resolve"} /\ setup.ticket > 0
  /\ IF isComplete /\ ~setup.completed
     THEN poll' = [poll EXCEPT ![p] = "complete"] /\ UNCHANGED told
     ELSE /\ poll' = [poll EXCEPT ![p] = "idle"]
          /\ told' = (told \/ statusOf = "connected")
  /\ UNCHANGED <<tables, places, disk, completions, ticketTaker, tokenTaker, mishaps>>

(* Mutant: whoever found it finished records that. *)
settleSetupAlways(p) ==
  /\ poll[p] = "complete"
  /\ setup' = [setup EXCEPT !.completed = TRUE, !.agent = ResolvedAgent]
  /\ poll' = [poll EXCEPT ![p] = "settled"]
  /\ UNCHANGED <<enrollTokens, agentRows, hostRows, places, disk, told, completions,
                 ticketTaker, tokenTaker, mishaps>>

(* ... and the first to find it finished records that; another answers what   *)
(* it has read.                                                               *)
settleSetup(p) ==
  /\ poll[p] = "complete"
  /\ IF setup.completed
     THEN /\ poll' = [poll EXCEPT ![p] = "idle"] /\ told' = TRUE
          /\ UNCHANGED setup
     ELSE /\ setup' = [setup EXCEPT !.completed = TRUE, !.agent = ResolvedAgent]
          /\ poll' = [poll EXCEPT ![p] = "settled"]
          /\ UNCHANGED told
  /\ UNCHANGED <<enrollTokens, agentRows, hostRows, places, disk, completions,
                 ticketTaker, tokenTaker, mishaps>>

(* The host gets the name the operator chose. *)
nameHost(p) ==
  /\ poll[p] = "settled"
  /\ hostRows' = [hostRows EXCEPT ![setup.agent].named = TRUE]
  /\ poll' = [poll EXCEPT ![p] = "named"]
  /\ UNCHANGED <<setup, enrollTokens, agentRows, places, disk, told, completions,
                 ticketTaker, tokenTaker, mishaps>>

recordCompleted(p) ==
  /\ poll[p] = "named"
  /\ completions' = completions + 1
  /\ told' = TRUE
  /\ poll' = [poll EXCEPT ![p] = "idle"]
  /\ UNCHANGED <<tables, places, disk, ticketTaker, tokenTaker, mishaps>>

-----------------------------------------------------------------------------
(* Where a machine is when the server is gone: what it asked for fails, and   *)
(* a connected agent is left to connect again.                                *)
WithoutServer(m) == IF at[m] \in InRequest THEN Rest(m)
                    ELSE IF at[m] \in {"online", "renewed"} THEN "ready" ELSE at[m]

Lost(m) == at[m] \in InRequest

Disconnected ==
  [a \in AgentIds |-> IF agentRows[a].status = "connected"
                      THEN [agentRows[a] EXCEPT !.status = "disconnected"] ELSE agentRows[a]]

(* The control server stops and starts again: resetConnectionState. *)
ServerStops ==
  /\ Mishap
  /\ at' = [m \in Machines |-> WithoutServer(m)]
  /\ tok' = [m \in Machines |-> IF Lost(m) THEN 0 ELSE tok[m]]
  /\ ident' = [m \in Machines |-> IF Lost(m) THEN 0 ELSE ident[m]]
  /\ agentRows' = Disconnected
  /\ poll' = [p \in Pollers |-> "idle"]
  /\ UNCHANGED <<setup, enrollTokens, hostRows, disk, told, completions, ticketTaker,
                 tokenTaker>>

(* An answer does not arrive, or the machine stops; an agent that was         *)
(* connected is marked disconnected and started again if its identity loads.  *)
MachineStops(m) ==
  /\ Mishap
  /\ at[m] \notin {"bare"} \cup (InRequest \ {"linked", "recorded"})
  /\ IF Loads(m) THEN Goes(m, "ready") /\ UNCHANGED <<tok, ident>> ELSE Ends(m)
  /\ agentRows' = IF at[m] \in {"online", "renewed", "newkey", "newcrt"}
                  THEN [agentRows EXCEPT ![ident[m]].status = "disconnected"] ELSE agentRows
  /\ UNCHANGED <<setup, enrollTokens, hostRows, disk, poll, told, completions, ticketTaker,
                 tokenTaker>>

-----------------------------------------------------------------------------
OnServer(m) ==
  \/ createToken(m) \/ linkToken(m) \/ renderInstallScript(m)
  \/ createIdentity(m) \/ issueAgentCertificate(m) \/ recordCertificate(m)
  \/ EnrollmentAnswered(m)

OnHost(m) ==
  claimToken(m) \/ Refused(m) \/ Save(m) \/ Connect(m) \/ ReportHost(m) \/ Renew(m)

OnboardingNext ==
  \/ create \/ regenerate \/ TicketExpires \/ createEnrollmentToken
  \/ \E t \in TokenIds : revokeToken(t)
  \/ \E m \in Machines : runEnroll(m) \/ (\E n \in Tickets : consumeTicket(m, n))
  \/ \E m \in Machines : OnServer(m) \/ OnHost(m) \/ issueFails(m) \/ replaceCertificate(m)
  \/ \E p \in Pollers : cancel(p) \/ resolve(p) \/ settleSetup(p) \/ nameHost(p)
                          \/ recordCompleted(p)
  \/ ServerStops \/ \E m \in Machines : MachineStops(m)

OnboardingSpec == OnboardingInit /\ [][OnboardingNext]_onboardingVars

-----------------------------------------------------------------------------
(* The bootstrap ticket is spent by one machine: a regenerated, cancelled or  *)
(* expired one lets nobody in, and two machines that run the same command are *)
(* not both served (regenerate, cancel, consumeTicket).                       *)
TicketFate ==
  [n \in Tickets |->
     IF n > setup.ticket THEN "unissued"
     ELSE IF n < setup.ticket THEN "void"
     ELSE IF setup.consumed THEN "spent"
     ELSE IF setup.cancelled \/ setup.late THEN "void" ELSE "live"]

TicketCredential == INSTANCE OneTimeCredential
  WITH Creds <- Tickets, Holders <- Machines, fate <- TicketFate, taker <- ticketTaker

TicketsAreOneTime == TicketCredential!OneTimeSpec

(* An enrollment token becomes one identity, whoever else presents it and     *)
(* whenever it is revoked or expires (createToken, revokeToken, claimToken).  *)
TokenFate ==
  [t \in TokenIds |-> IF ~enrollTokens[t].issued THEN "unissued"
                      ELSE IF enrollTokens[t].used THEN "spent"
                      ELSE IF enrollTokens[t].withdrawn THEN "void" ELSE "live"]

TokenCredential == INSTANCE OneTimeCredential
  WITH Creds <- TokenIds, Holders <- Machines, fate <- TokenFate, taker <- tokenTaker

TokensAreOneTime == TokenCredential!OneTimeSpec

(* No two machines hold the same identity, and an identity that loads is one  *)
(* the server has recorded, the newest or one before it, wherever in          *)
(* enrollment or renewal a process died (issueForClaimedToken, Save).         *)
IdentitiesAreTheirOwn ==
  \A m \in Machines : Loads(m) =>
    /\ agentRows[disk[m].meta].st = "certified"
    /\ disk[m].crt[2] <= agentRows[disk[m].meta].pair[2]
    /\ \A o \in Machines : Loads(o) /\ disk[o].meta = disk[m].meta => o = m

(* An identity without a certificate is not left behind: with every request   *)
(* answered and no process having died, no agent row is pending, even where   *)
(* the authority refused (issueForClaimedToken's catch).                      *)
NoPendingIdentity ==
  (\A m \in Machines : at[m] \notin InRequest) /\ mishaps = 0
    => \A a \in AgentIds : agentRows[a].st # "pending"

(* The identities of the server and of its machines: each its own, recorded   *)
(* before it is used, and none left without a certificate.                    *)
IdentitiesAreSound == IdentitiesAreTheirOwn /\ NoPendingIdentity

(* The setup shows the host its own command added, once it is finished: the   *)
(* agent that enrolled with the token minted for it (resolveAndSettle); the   *)
(* completion is recorded once however often and by however many it is asked  *)
(* for; and who was answered `connected' was told what is recorded.  (The     *)
(* list of setups answers from what it reads and records nothing.)            *)
CompletedOnce ==
  /\ completions <= 1
  /\ setup.completed => setup.agent = enrollTokens[setup.token].agent /\ setup.agent # 0
  /\ told => setup.completed

(* No identity is replaced behind somebody's back, and none is lost but by a  *)
(* crash: whatever is run on a machine whose identity loads leaves it its     *)
(* metadata and a key of that identity, and an identity that still loads,     *)
(* unless a renewal has begun to write; and one that has stopped loading is   *)
(* being written or was left by a crash (the script's check for a             *)
(* certificate, runEnroll's Load, ReplaceCertificate).  That is less than the *)
(* package promises, `an interrupted renewal leaves the working identity      *)
(* intact rather than a half-rotated one': a crash between the two writes of  *)
(* ReplaceCertificate leaves the new key beside the old certificate.          *)
IdentityIsNotReplaced ==
  [][\A m \in Machines :
       /\ Loads(m) =>
            /\ disk'[m].meta = disk[m].meta
            /\ disk'[m].key \in {disk[m].meta} \X (1 .. MaxKeys)
            /\ Loads(m)' \/ at[m] = "renewed"
       /\ disk[m].meta # 0 /\ ~Loads(m) => at[m] = "newkey" \/ mishaps > 0]_onboardingVars
=============================================================================
