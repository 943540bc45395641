--------------------------- MODULE OnboardingProofs ---------------------------
(***************************************************************************)
(* Adding a host, for any number of machines, polls, tickets, tokens, keys  *)
(* and mishaps: the inductive invariant, the steps of the tickets and of    *)
(* the tokens as steps of the one-time credential, and the identities.      *)
(***************************************************************************)
EXTENDS Onboarding, TLAPS

-----------------------------------------------------------------------------
(* The inductive invariant. *)

(* The state, typed, but for the counters. *)
SetupTyped ==
  setup \in [ticket : 0 .. MaxTickets, late : BOOLEAN, consumed : BOOLEAN,
             cancelled : BOOLEAN, token : 0 .. MaxTokens, completed : BOOLEAN,
             agent : 0 .. MaxTokens]

TokensTyped ==
  enrollTokens \in [TokenIds -> [issued : BOOLEAN, byHand : BOOLEAN, used : BOOLEAN,
                                 withdrawn : BOOLEAN, agent : 0 .. MaxTokens]]

AgentsTyped ==
  agentRows \in [AgentIds -> [st : {"none", "pending", "certified", "deleted"},
                              pair : Pairs \cup {NoPair},
                              status : {"pending", "connected", "disconnected"}]]

PlacesTyped ==
  /\ at \in [Machines -> InRequest \cup OnMachine]
  /\ tok \in [Machines -> 0 .. MaxTokens]
  /\ ident \in [Machines -> 0 .. MaxTokens]

DiskTyped ==
  disk \in [Machines -> [key : Pairs \cup {NoPair}, crt : Pairs \cup {NoPair},
                         meta : 0 .. MaxTokens]]

TakersTyped ==
  /\ ticketTaker \in [Tickets -> SUBSET Machines]
  /\ tokenTaker \in [TokenIds -> SUBSET Machines]

(* Nobody was let in with a ticket that is to come, or with the present one   *)
(* before it is consumed.                                                     *)
TicketInv ==
  /\ \A n \in Tickets :
       n > setup.ticket \/ (n = setup.ticket /\ ~setup.consumed) => ticketTaker[n] = {}
  /\ setup.ticket = 0 => ~setup.consumed /\ ~setup.cancelled /\ ~setup.late

(* Who carries a token has one. *)
Carries ==
  \A m \in Machines : at[m] \in {"minted", "linked", "script", "hand"} => tok[m] \in TokenIds

(* Who was let in by a token has used it, and only what was issued is used. *)
Taken == \A t \in TokenIds : /\ ~enrollTokens[t].used => tokenTaker[t] = {}
                             /\ enrollTokens[t].used \/ enrollTokens[t].withdrawn
                                  => enrollTokens[t].issued

(* The identity a machine is being given, or its agent runs with. *)
Unsigned == {"created", "signed"}
Signed == {"recorded", "key", "crt", "meta"}
Running == {"online", "renewed", "newkey", "newcrt"}

Owns(m, a) ==
  \/ (at[m] \in Unsigned \cup Signed \cup Running /\ ident[m] = a)
  \/ disk[m].key[1] = a
  \/ disk[m].crt[1] = a
  \/ disk[m].meta = a

(* Where a machine is says what has become of its identity's row. *)
RowInv ==
  /\ \A m \in Machines :
       /\ at[m] \in Unsigned => ident[m] \in AgentIds /\ agentRows[ident[m]].st = "pending"
       /\ at[m] \in Signed \cup Running =>
            ident[m] \in AgentIds /\ agentRows[ident[m]].st = "certified"
  /\ \A a \in AgentIds :
       agentRows[a].st = "certified" => agentRows[a].pair \in {a} \X (1 .. MaxKeys)

(* What is on a disk was recorded first. *)
Recorded(p) == p # NoPair => /\ agentRows[p[1]].st = "certified"
                             /\ p[2] <= agentRows[p[1]].pair[2]

DiskInv ==
  \A m \in Machines :
    /\ Recorded(disk[m].key) /\ Recorded(disk[m].crt)
    /\ disk[m].meta # 0 => agentRows[disk[m].meta].st = "certified"

(* An identity has one owner. *)
OwnerInv ==
  \A m, o \in Machines : \A a \in AgentIds : Owns(m, a) /\ Owns(o, a) => m = o

(* How far an installation has come on the disk, and what a running agent is. *)
FileInv ==
  \A m \in Machines :
    /\ at[m] \in {"won", "created", "signed", "recorded", "key"} => ~Loads(m)
    /\ at[m] \in {"created", "signed", "recorded", "key"} =>
         disk[m].key[1] # ident[m] /\ disk[m].crt[1] # ident[m] /\ disk[m].meta # ident[m]
    /\ at[m] = "crt" => disk[m].key[1] = ident[m] /\ disk[m].crt[1] # ident[m]
                          /\ disk[m].meta # ident[m]
    /\ at[m] = "meta" => disk[m].key[1] = ident[m] /\ disk[m].crt[1] = ident[m]
                           /\ disk[m].meta # ident[m]
    /\ at[m] \in Running => disk[m].meta = ident[m]

(* A row is pending only while a request is at it, or one died there. *)
PendingInv ==
  mishaps = 0 => \A a \in AgentIds :
    agentRows[a].st = "pending" => \E m \in Machines : at[m] \in Unsigned /\ ident[m] = a

IdentityInv == RowInv /\ DiskInv /\ OwnerInv /\ FileInv /\ PendingInv

-----------------------------------------------------------------------------
(* Which steps touch which table. *)
LEMMA SetupFrame ==
  ASSUME OnboardingNext
  PROVE  \/ setup' = setup
         \/ create \/ regenerate \/ TicketExpires
         \/ \E p \in Pollers : cancel(p) \/ settleSetup(p)
         \/ \E m \in Machines : linkToken(m) \/ \E n \in Tickets : consumeTicket(m, n)
  BY ZenonT(60) DEF OnboardingNext, createEnrollmentToken, revokeToken, runEnroll, OnServer, OnHost,
         createToken, renderInstallScript, createIdentity, issueAgentCertificate,
         recordCertificate, EnrollmentAnswered, claimToken, Refused, Save, Connect, ReportHost,
         Renew, issueFails, replaceCertificate, resolve, nameHost, recordCompleted,
         ServerStops, MachineStops, tables

(* The actions that may touch a token; every other one leaves them alone. *)
LEMMA TokensFrame ==
  ASSUME OnboardingNext
  PROVE  \/ enrollTokens' = enrollTokens
         \/ createEnrollmentToken
         \/ \E t \in TokenIds : revokeToken(t)
         \/ \E m \in Machines : createToken(m) \/ claimToken(m) \/ createIdentity(m)
  BY ZenonT(60)
     DEF OnboardingNext, create, regenerate, TicketExpires, runEnroll, consumeTicket, OnServer,
         OnHost, linkToken, renderInstallScript, issueAgentCertificate, recordCertificate,
         EnrollmentAnswered, Refused, Save, Connect, ReportHost, Renew, issueFails,
         replaceCertificate, cancel, resolve, settleSetup, nameHost, recordCompleted,
         ServerStops, MachineStops, tables

(* The actions that may touch an agent's row. *)
LEMMA AgentsFrame ==
  ASSUME OnboardingNext
  PROVE  \/ agentRows' = agentRows
         \/ ServerStops
         \/ \E m \in Machines : \/ createIdentity(m) \/ issueFails(m) \/ recordCertificate(m)
                                \/ Connect(m) \/ replaceCertificate(m) \/ Renew(m)
                                \/ MachineStops(m)
  BY ZenonT(60)
     DEF OnboardingNext, create, regenerate, TicketExpires, createEnrollmentToken, revokeToken,
         runEnroll, consumeTicket, OnServer, OnHost, createToken, linkToken,
         renderInstallScript, issueAgentCertificate, EnrollmentAnswered, claimToken, Refused,
         Save, ReportHost, cancel, resolve, settleSetup, nameHost, recordCompleted, tables

(* The actions that may touch a host's disk. *)
LEMMA DiskFrame ==
  ASSUME OnboardingNext
  PROVE  disk' = disk \/ \E m \in Machines : Save(m) \/ Renew(m)
  BY ZenonT(60)
     DEF OnboardingNext, create, regenerate, TicketExpires, createEnrollmentToken, revokeToken,
         runEnroll, consumeTicket, OnServer, OnHost, createToken, linkToken,
         renderInstallScript, createIdentity, issueAgentCertificate, recordCertificate,
         EnrollmentAnswered, claimToken, Refused, Connect, ReportHost, issueFails,
         replaceCertificate, cancel, resolve, settleSetup, nameHost, recordCompleted,
         ServerStops, MachineStops

(* The actions that may add to who took a token or a ticket. *)
LEMMA TakersFrame ==
  ASSUME OnboardingNext
  PROVE  \/ UNCHANGED <<ticketTaker, tokenTaker>>
         \/ \E m \in Machines : claimToken(m) \/ \E n \in Tickets : consumeTicket(m, n)
<1>1. CASE create \/ regenerate \/ TicketExpires \/ createEnrollmentToken
             \/ \E t \in TokenIds : revokeToken(t)
  BY <1>1, Zenon DEF create, regenerate, TicketExpires, createEnrollmentToken, revokeToken
<1>2. ASSUME NEW m \in Machines,
             \/ runEnroll(m) \/ createToken(m) \/ linkToken(m) \/ renderInstallScript(m)
             \/ createIdentity(m) \/ issueAgentCertificate(m) \/ recordCertificate(m)
             \/ EnrollmentAnswered(m)
      PROVE  UNCHANGED <<ticketTaker, tokenTaker>>
  BY <1>2, Zenon DEF runEnroll, createToken, linkToken, renderInstallScript, createIdentity,
                     issueAgentCertificate, recordCertificate, EnrollmentAnswered
<1>3. ASSUME NEW m \in Machines,
             \/ Refused(m) \/ Save(m) \/ Renew(m) \/ Connect(m) \/ ReportHost(m)
             \/ issueFails(m) \/ replaceCertificate(m) \/ MachineStops(m)
      PROVE  UNCHANGED <<ticketTaker, tokenTaker>>
  BY <1>3, Zenon DEF Refused, Save, Renew, Connect, ReportHost, issueFails, replaceCertificate,
                     MachineStops
<1>4. CASE \/ ServerStops
           \/ \E p \in Pollers : \/ cancel(p) \/ resolve(p) \/ settleSetup(p) \/ nameHost(p)
                                 \/ recordCompleted(p)
  BY <1>4, Zenon DEF ServerStops, cancel, resolve, settleSetup, nameHost, recordCompleted
<1> QED
  BY <1>1, <1>2, <1>3, <1>4, Zenon DEF OnboardingNext, OnServer, OnHost

-----------------------------------------------------------------------------
(* Types. *)
LEMMA ResolvedTyped ==
  ASSUME SetupTyped, TokensTyped, AgentsTyped
  PROVE  ResolvedAgent \in 0 .. MaxTokens
  BY OnboardingAssumption DEF SetupTyped, TokensTyped, AgentsTyped, ResolvedAgent, TokenIds

(* Every step keeps the type of the setup sessions. *)
LEMMA SetupTypedStep ==
  ASSUME SetupTyped, TokensTyped, AgentsTyped, PlacesTyped, OnboardingNext
  PROVE  SetupTyped'
<1> USE OnboardingAssumption DEF SetupTyped
<1>1. CASE setup' = setup
  BY Zenon, <1>1
<1>2. CASE create
  BY <1>2 DEF create
<1>3. CASE regenerate
  <2>1. setup.ticket + 1 \in 0 .. MaxTickets
    BY <1>3 DEF regenerate
  <2>2. setup' = [setup EXCEPT !.ticket = setup.ticket + 1, !.late = FALSE]
    BY Zenon, <1>3 DEF regenerate
  <2> QED
    BY Zenon, <2>1, <2>2
<1>4. CASE TicketExpires
  BY Zenon, <1>4 DEF TicketExpires
<1>5. ASSUME NEW p \in Pollers, cancel(p) PROVE SetupTyped'
  BY Zenon, <1>5 DEF cancel
<1>6. ASSUME NEW p \in Pollers, settleSetup(p) PROVE SetupTyped'
  BY ZenonT(60), <1>6, ResolvedTyped DEF settleSetup
<1>7. ASSUME NEW m \in Machines, linkToken(m) PROVE SetupTyped'
  BY Zenon, <1>7 DEF linkToken, PlacesTyped
<1>8. ASSUME NEW m \in Machines, NEW n \in Tickets, consumeTicket(m, n) PROVE SetupTyped'
  BY Zenon, <1>8 DEF consumeTicket
<1> QED
  BY Zenon, <1>1, <1>2, <1>3, <1>4, <1>5, <1>6, <1>7, <1>8, SetupFrame

(* Every step keeps the type of the tokens. *)
LEMMA TokensTypedStep ==
  ASSUME TokensTyped, OnboardingNext
  PROVE  TokensTyped'
<1> USE OnboardingAssumption DEF TokensTyped
<1>1. CASE enrollTokens' = enrollTokens
  BY Zenon, <1>1
<1>2. ASSUME NEW t \in TokenIds, NEW hand \in BOOLEAN, enrollTokens' = Minted(t, hand)
      PROVE  TokensTyped'
  BY ZenonT(60), <1>2 DEF Minted
<1>3. CASE createEnrollmentToken
  BY Zenon, <1>2, <1>3 DEF createEnrollmentToken, FreshToken
<1>4. ASSUME NEW t \in TokenIds, revokeToken(t) PROVE TokensTyped'
  BY ZenonT(60), <1>4 DEF revokeToken
<1>5. ASSUME NEW m \in Machines, createToken(m) PROVE TokensTyped'
  BY Zenon, <1>2, <1>5 DEF createToken
<1>6. ASSUME NEW m \in Machines, claimToken(m) PROVE TokensTyped'
  BY ZenonT(60), <1>6 DEF claimToken
<1>7. ASSUME NEW m \in Machines, createIdentity(m) PROVE TokensTyped'
  <2>1. PICK a \in AgentIds : enrollTokens' = [enrollTokens EXCEPT ![tok[m]].agent = a]
    BY Zenon, <1>7 DEF createIdentity
  <2>2. a \in 0 .. MaxTokens
    BY DEF AgentIds
  <2> QED
    BY ZenonT(60), <2>1, <2>2
<1> QED
  BY Zenon, <1>1, <1>3, <1>4, <1>5, <1>6, <1>7, TokensFrame

(* Every step keeps the type of the takers. *)
LEMMA TakersTypedStep ==
  ASSUME TakersTyped, OnboardingNext
  PROVE  TakersTyped'
<1> USE DEF TakersTyped
<1>1. CASE UNCHANGED <<ticketTaker, tokenTaker>>
  BY Zenon, <1>1
<1>2. ASSUME NEW m \in Machines, claimToken(m) PROVE TakersTyped'
  BY Zenon, <1>2 DEF claimToken
<1>3. ASSUME NEW m \in Machines, NEW n \in Tickets, consumeTicket(m, n) PROVE TakersTyped'
  BY Zenon, <1>3 DEF consumeTicket
<1> QED
  BY Zenon, <1>1, <1>2, <1>3, TakersFrame

(* Every step keeps the type of the agents' rows. *)
LEMMA AgentsTypedStep ==
  ASSUME AgentsTyped, RowInv, OnboardingNext
  PROVE  AgentsTyped'
<1> DEFINE Row == [st : {"none", "pending", "certified", "deleted"},
                   pair : Pairs \cup {NoPair},
                   status : {"pending", "connected", "disconnected"}]
<1>1. agentRows \in [AgentIds -> Row]
  BY Zenon DEF AgentsTyped
<1>2. \A r \in Row : \A v \in {"none", "pending", "certified", "deleted"} :
        [r EXCEPT !.st = v] \in Row
  BY Zenon
<1>3. \A r \in Row : \A p \in Pairs :
        [r EXCEPT !.pair = p] \in Row /\ [r EXCEPT !.st = "certified", !.pair = p] \in Row
  BY Zenon
<1>4. \A r \in Row : \A v \in {"connected", "disconnected"} : [r EXCEPT !.status = v] \in Row
  BY Zenon
<1> SUFFICES agentRows' \in [AgentIds -> Row]
  BY Zenon DEF AgentsTyped
<1> HIDE DEF Row
<1>5. CASE agentRows' = agentRows
  BY Zenon, <1>1, <1>5
<1>6. CASE ServerStops
  <2>1. agentRows' = Disconnected
    BY Zenon, <1>6 DEF ServerStops
  <2> QED
    BY Zenon, <1>1, <1>4, <2>1 DEF Disconnected
<1>7. ASSUME NEW m \in Machines, createIdentity(m) PROVE agentRows' \in [AgentIds -> Row]
  <2>1. PICK a \in AgentIds : agentRows' = [agentRows EXCEPT ![a].st = "pending"]
    BY <1>7, Zenon DEF createIdentity
  <2> QED
    BY Zenon, <1>1, <1>2, <2>1
<1>8. ASSUME NEW m \in Machines, issueFails(m) PROVE agentRows' \in [AgentIds -> Row]
  <2>1. agentRows' = [agentRows EXCEPT ![ident[m]].st = "deleted"]
    BY Zenon, <1>8 DEF issueFails
  <2> QED
    BY Zenon, <1>1, <1>2, <2>1
<1>9. ASSUME NEW m \in Machines, recordCertificate(m) PROVE agentRows' \in [AgentIds -> Row]
  <2>1. <<ident[m], 1>> \in Pairs
    BY <1>9, OnboardingAssumption DEF recordCertificate, RowInv, Unsigned, Pairs
  <2>2. agentRows' = [agentRows EXCEPT ![ident[m]].st = "certified",
                                       ![ident[m]].pair = <<ident[m], 1>>]
    BY Zenon, <1>9 DEF recordCertificate
  <2> QED
    BY Zenon, <1>1, <1>2, <1>3, <2>1, <2>2
<1>10. ASSUME NEW m \in Machines, Connect(m) PROVE agentRows' \in [AgentIds -> Row]
  <2>1. agentRows' = [agentRows EXCEPT ![disk[m].meta].status = "connected"]
    BY Zenon, <1>10 DEF Connect
  <2> QED
    BY Zenon, <1>1, <1>4, <2>1
<1>11. ASSUME NEW m \in Machines, replaceCertificate(m) PROVE agentRows' \in [AgentIds -> Row]
  <2>1. /\ ident[m] \in AgentIds
        /\ agentRows[ident[m]].pair[2] \in 1 .. MaxKeys
    BY Zenon, <1>11, OnboardingAssumption DEF replaceCertificate, RowInv, Running
  <2>2. <<ident[m], agentRows[ident[m]].pair[2] + 1>> \in Pairs
    BY <1>11, <2>1, OnboardingAssumption DEF replaceCertificate, Pairs
  <2>3. agentRows' = [agentRows EXCEPT
                        ![ident[m]].pair = <<ident[m], agentRows[ident[m]].pair[2] + 1>>]
    BY Zenon, <1>11 DEF replaceCertificate
  <2> QED
    BY Zenon, <1>1, <1>3, <2>2, <2>3
<1>12. ASSUME NEW m \in Machines, Renew(m) \/ MachineStops(m)
       PROVE  agentRows' \in [AgentIds -> Row]
  <2>1. \/ agentRows' = agentRows
        \/ agentRows' = [agentRows EXCEPT ![ident[m]].status = "disconnected"]
    BY <1>12, Zenon DEF Renew, MachineStops
  <2> QED
    BY ZenonT(60), <1>1, <1>4, <2>1
<1> QED
  BY Zenon, <1>5, <1>6, <1>7, <1>8, <1>9, <1>10, <1>11, <1>12, AgentsFrame

(* Every step keeps the type of the disks. *)
LEMMA DiskTypedStep ==
  ASSUME AgentsTyped, PlacesTyped, DiskTyped, RowInv, OnboardingNext
  PROVE  DiskTyped'
<1> USE OnboardingAssumption DEF DiskTyped
<1>1. CASE disk' = disk
  BY Zenon, <1>1
<1>2. ASSUME NEW m \in Machines, Save(m) PROVE DiskTyped'
  <2>1. ident[m] \in 0 .. MaxTokens
    BY Zenon DEF PlacesTyped
  <2>2. at[m] \in {"key", "crt"} => <<ident[m], 1>> \in Pairs
    BY DEF RowInv, Signed, Pairs
  <2> QED
    BY <1>2, <2>1, <2>2 DEF Save
<1>3. ASSUME NEW m \in Machines, Renew(m) PROVE DiskTyped'
  <2>1. at[m] \in {"renewed", "newkey"} => agentRows[ident[m]].pair \in Pairs \cup {NoPair}
    BY Zenon DEF RowInv, Running, AgentsTyped
  <2> QED
    BY <1>3, <2>1 DEF Renew
<1> QED
  BY Zenon, <1>1, <1>2, <1>3, DiskFrame

(* Every step keeps the type of the places. *)
LEMMA PlacesTypedStep ==
  ASSUME PlacesTyped, DiskTyped, OnboardingNext
  PROVE  PlacesTyped'
<1> USE OnboardingAssumption DEF PlacesTyped, Goes, InRequest, OnMachine
<1>1. \A m \in Machines : Rest(m) \in {"bare", "ready"}
  BY Zenon DEF Rest
<1>2. CASE create \/ regenerate \/ TicketExpires \/ createEnrollmentToken
             \/ \E t \in TokenIds : revokeToken(t)
  BY Zenon, <1>2 DEF create, regenerate, TicketExpires, createEnrollmentToken, revokeToken, places
<1>3. ASSUME NEW p \in Pollers,
             cancel(p) \/ resolve(p) \/ settleSetup(p) \/ nameHost(p) \/ recordCompleted(p)
      PROVE  PlacesTyped'
  BY Zenon, <1>3 DEF cancel, resolve, settleSetup, nameHost, recordCompleted, places
<1>4. ASSUME NEW m \in Machines, runEnroll(m) PROVE PlacesTyped'
  BY <1>4 DEF runEnroll, TokenIds
<1>5. ASSUME NEW m \in Machines, NEW n \in Tickets, consumeTicket(m, n) PROVE PlacesTyped'
  BY Zenon, <1>5 DEF consumeTicket
<1>6. ASSUME NEW m \in Machines, createToken(m) PROVE PlacesTyped'
  BY SMTT(60), <1>6 DEF createToken, TokenIds
<1>7. ASSUME NEW m \in Machines,
             \/ linkToken(m) \/ renderInstallScript(m) \/ issueAgentCertificate(m)
             \/ recordCertificate(m) \/ EnrollmentAnswered(m) \/ claimToken(m) \/ Save(m)
             \/ replaceCertificate(m) \/ Renew(m)
      PROVE  PlacesTyped'
  BY <1>7 DEF linkToken, renderInstallScript, issueAgentCertificate, recordCertificate,
              EnrollmentAnswered, claimToken, Save, replaceCertificate, Renew
<1>8. ASSUME NEW m \in Machines, createIdentity(m) PROVE PlacesTyped'
  BY <1>8 DEF createIdentity, AgentIds
<1>9. ASSUME NEW m \in Machines, Ends(m) PROVE PlacesTyped'
  BY <1>1, <1>9 DEF Ends
<1>10. ASSUME NEW m \in Machines, Refused(m) \/ issueFails(m) PROVE PlacesTyped'
  BY Zenon, <1>9, <1>10 DEF Refused, issueFails
<1>11. ASSUME NEW m \in Machines, Connect(m) PROVE PlacesTyped'
  BY Zenon, <1>11 DEF Connect, DiskTyped
<1>12. ASSUME NEW m \in Machines, ReportHost(m) PROVE PlacesTyped'
  BY Zenon, <1>12 DEF ReportHost, places
<1>13. ASSUME NEW m \in Machines, MachineStops(m) PROVE PlacesTyped'
  BY Zenon, <1>9, <1>13 DEF MachineStops
<1>14. CASE ServerStops
  <2>1. \A m \in Machines : WithoutServer(m) \in InRequest \cup OnMachine
    BY Zenon, <1>1 DEF WithoutServer
  <2> QED
    BY <1>14, <2>1 DEF ServerStops
<1> QED
  BY Zenon, <1>2, <1>3, <1>4, <1>5, <1>6, <1>7, <1>8, <1>10, <1>11, <1>12, <1>13, <1>14
     DEF OnboardingNext, OnServer, OnHost

-----------------------------------------------------------------------------
(* Credentials. *)
LEMMA TicketStep ==
  ASSUME SetupTyped, TakersTyped, TicketInv, OnboardingNext
  PROVE  TicketInv'
<1> USE OnboardingAssumption DEF TicketInv, SetupTyped, TakersTyped, Tickets
<1>1. ASSUME NEW m \in Machines, NEW n \in Tickets, consumeTicket(m, n) PROVE TicketInv'
  BY <1>1 DEF consumeTicket, TicketGood
<1>2. ASSUME ~ \E m \in Machines, n \in Tickets : consumeTicket(m, n)
      PROVE  ticketTaker' = ticketTaker
  BY Zenon, <1>2, TakersFrame DEF claimToken
<1>3. CASE setup' = setup /\ ticketTaker' = ticketTaker
  BY Zenon, <1>3
<1>4. CASE create /\ ticketTaker' = ticketTaker
  BY <1>4 DEF create
<1>5. CASE regenerate /\ ticketTaker' = ticketTaker
  BY SMTT(60), <1>5 DEF regenerate
<1>6. CASE TicketExpires /\ ticketTaker' = ticketTaker
  BY <1>6 DEF TicketExpires
<1>7. ASSUME NEW p \in Pollers, cancel(p) \/ settleSetup(p), ticketTaker' = ticketTaker
      PROVE  TicketInv'
  <2>1. CASE cancel(p)
    BY <1>7, <2>1 DEF cancel
  <2>2. CASE settleSetup(p)
    <3>1. /\ setup'.ticket = setup.ticket /\ (setup'.consumed <=> setup.consumed)
          /\ (setup'.cancelled <=> setup.cancelled) /\ (setup'.late <=> setup.late)
      BY ZenonT(60), <2>2 DEF settleSetup
    <3> QED
      BY Zenon, <1>7, <3>1
  <2> QED
    BY Zenon, <1>7, <2>1, <2>2
<1>8. ASSUME NEW m \in Machines, linkToken(m), ticketTaker' = ticketTaker PROVE TicketInv'
  BY Zenon, <1>8 DEF linkToken
<1> QED
  BY Zenon, <1>1, <1>2, <1>3, <1>4, <1>5, <1>6, <1>7, <1>8, SetupFrame

(* Every step keeps what an enrollment under way carries. *)
LEMMA CarriesStep ==
  ASSUME PlacesTyped, Carries, OnboardingNext
  PROVE  Carries'
<1> USE DEF Carries, PlacesTyped, Goes
<1>1. CASE UNCHANGED <<at, tok>>
  BY Zenon, <1>1
<1>2. CASE create \/ regenerate \/ TicketExpires \/ createEnrollmentToken
             \/ \E t \in TokenIds : revokeToken(t)
  BY Zenon, <1>1, <1>2
     DEF create, regenerate, TicketExpires, createEnrollmentToken, revokeToken, places
<1>3. ASSUME NEW p \in Pollers,
             cancel(p) \/ resolve(p) \/ settleSetup(p) \/ nameHost(p) \/ recordCompleted(p)
      PROVE  Carries'
  BY Zenon, <1>1, <1>3 DEF cancel, resolve, settleSetup, nameHost, recordCompleted, places
<1>4. ASSUME NEW m \in Machines, runEnroll(m) PROVE Carries'
  BY Zenon, <1>4 DEF runEnroll
<1>5. ASSUME NEW m \in Machines, NEW n \in Tickets, consumeTicket(m, n) PROVE Carries'
  BY Zenon, <1>5 DEF consumeTicket
<1>6. ASSUME NEW m \in Machines, createToken(m) PROVE Carries'
  BY Zenon, <1>6 DEF createToken
<1>7. ASSUME NEW m \in Machines,
             \/ linkToken(m) \/ renderInstallScript(m) \/ issueAgentCertificate(m)
             \/ recordCertificate(m) \/ EnrollmentAnswered(m) \/ claimToken(m) \/ Save(m)
             \/ replaceCertificate(m) \/ Renew(m) \/ createIdentity(m) \/ Connect(m)
      PROVE  Carries'
  BY <1>7 DEF linkToken, renderInstallScript, issueAgentCertificate, recordCertificate,
              EnrollmentAnswered, claimToken, Save, replaceCertificate, Renew, createIdentity,
              Connect
<1>8. ASSUME NEW m \in Machines, Ends(m) PROVE Carries'
  BY Zenon, <1>8 DEF Ends, Rest
<1>9. ASSUME NEW m \in Machines, Refused(m) \/ issueFails(m) PROVE Carries'
  BY Zenon, <1>8, <1>9 DEF Refused, issueFails
<1>10. ASSUME NEW m \in Machines, ReportHost(m) PROVE Carries'
  BY Zenon, <1>1, <1>10 DEF ReportHost, places
<1>11. ASSUME NEW m \in Machines, MachineStops(m) PROVE Carries'
  BY Zenon, <1>8, <1>11 DEF MachineStops
<1>12. CASE ServerStops
  BY Zenon, <1>12 DEF ServerStops, WithoutServer, Lost, Rest, InRequest
<1> QED
  BY Zenon, <1>2, <1>3, <1>4, <1>5, <1>6, <1>7, <1>9, <1>10, <1>11, <1>12
     DEF OnboardingNext, OnServer, OnHost

(* Every step keeps that what was taken is spent. *)
LEMMA TakenStep ==
  ASSUME TokensTyped, TakersTyped, Carries, Taken, OnboardingNext
  PROVE  Taken'
<1> USE DEF Taken, TokensTyped, TakersTyped
<1>1. ASSUME NEW m \in Machines, claimToken(m) PROVE Taken'
  <2>1. tok[m] \in TokenIds
    BY Zenon, <1>1 DEF claimToken, Carries
  <2> QED
    BY <1>1, <2>1 DEF claimToken, TokenGood
<1>2. ASSUME ~ \E m \in Machines : claimToken(m) PROVE tokenTaker' = tokenTaker
  BY Zenon, <1>2, TakersFrame DEF consumeTicket
<1>3. CASE enrollTokens' = enrollTokens /\ tokenTaker' = tokenTaker
  BY Zenon, <1>3
<1>4. ASSUME NEW t \in TokenIds, NEW hand \in BOOLEAN, enrollTokens' = Minted(t, hand),
             tokenTaker' = tokenTaker
      PROVE  Taken'
  BY <1>4 DEF Minted
<1>5. CASE createEnrollmentToken /\ tokenTaker' = tokenTaker
  <2>1. PICK t \in TokenIds : enrollTokens' = Minted(t, TRUE)
    BY Zenon, <1>5 DEF createEnrollmentToken, FreshToken
  <2> QED
    BY Zenon, <1>4, <1>5, <2>1
<1>6. ASSUME NEW t \in TokenIds, revokeToken(t), tokenTaker' = tokenTaker PROVE Taken'
  BY Zenon, <1>6 DEF revokeToken
<1>7. ASSUME NEW m \in Machines, createToken(m), tokenTaker' = tokenTaker PROVE Taken'
  <2>1. PICK t \in TokenIds : enrollTokens' = Minted(t, FALSE)
    BY Zenon, <1>7 DEF createToken
  <2> QED
    BY Zenon, <1>4, <1>7, <2>1
<1>8. ASSUME NEW m \in Machines, createIdentity(m), tokenTaker' = tokenTaker PROVE Taken'
  <2>1. PICK a \in AgentIds : enrollTokens' = [enrollTokens EXCEPT ![tok[m]].agent = a]
    BY Zenon, <1>8 DEF createIdentity
  <2> QED
    BY <1>8, <2>1
<1> QED
  BY Zenon, <1>1, <1>2, <1>3, <1>5, <1>6, <1>7, <1>8, TokensFrame

-----------------------------------------------------------------------------
(* The tickets are one-time credentials. *)
LEMMA TicketInitRefines ==
  ASSUME OnboardingInit
  PROVE  TicketCredential!OneTimeInit
  BY OnboardingAssumption DEF OnboardingInit, TicketFate, TicketCredential!OneTimeInit, Tickets

TicketsTurn ==
  \A n \in Tickets : \/ TicketFate'[n] = TicketFate[n]
                     \/ (TicketFate[n] = "unissued" /\ TicketFate'[n] = "live")
                     \/ (TicketFate[n] = "live" /\ TicketFate'[n] = "void")

(* Every step is, for a ticket, a step of the one-time credential or none. *)
LEMMA TicketStepRefines ==
  ASSUME SetupTyped, TakersTyped, TicketInv, OnboardingNext
  PROVE  TicketCredential!OneTimeNext \/ UNCHANGED <<TicketFate, ticketTaker>>
<1> USE OnboardingAssumption DEF SetupTyped, TakersTyped, Tickets
<1>1. ASSUME NEW m \in Machines, NEW n \in Tickets, consumeTicket(m, n)
      PROVE  TicketCredential!Take(n, m)
  <2>1. TicketFate[n] = "live" /\ ticketTaker[n] = {}
    BY <1>1 DEF consumeTicket, TicketGood, TicketFate, TicketInv
  <2>2. TicketFate' = [TicketFate EXCEPT ![n] = "spent"]
    <3>1. setup'.ticket = setup.ticket /\ setup'.consumed /\ n = setup.ticket
      BY Zenon, <1>1 DEF consumeTicket, TicketGood
    <3>2. \A i \in Tickets : TicketFate'[i] = IF i = n THEN "spent" ELSE TicketFate[i]
      BY <3>1 DEF TicketFate
    <3> QED
      BY Zenon, <3>2 DEF TicketFate
  <2>3. ticketTaker' = [ticketTaker EXCEPT ![n] = {m}]
    BY Zenon, <1>1, <2>1 DEF consumeTicket
  <2> QED
    BY Zenon, <2>1, <2>2, <2>3 DEF TicketCredential!Take
<1>2. ASSUME ~ \E m \in Machines, n \in Tickets : consumeTicket(m, n)
      PROVE  ticketTaker' = ticketTaker
  BY Zenon, <1>2, TakersFrame DEF claimToken
<1>3. ASSUME ticketTaker' = ticketTaker, TicketsTurn
      PROVE  TicketCredential!OneTimeNext
  <2>1. TicketFate' \in [Tickets -> TicketCredential!Fates]
    BY Zenon DEF TicketFate, TicketCredential!Fates
  <2> QED
    BY Zenon, <1>3, <2>1 DEF TicketCredential!Turnover, TicketCredential!OneTimeNext, TicketsTurn
<1>4. CASE setup' = setup /\ ticketTaker' = ticketTaker
  BY Zenon, <1>4 DEF TicketFate
<1>5. CASE create /\ ticketTaker' = ticketTaker
  <2>1. /\ setup.ticket = 0 /\ setup'.ticket = 1
        /\ ~setup'.consumed /\ ~setup'.cancelled /\ ~setup'.late
    BY Zenon, <1>5 DEF create, TicketInv
  <2>2. TicketsTurn
    BY <2>1 DEF TicketsTurn, TicketFate
  <2> QED
    BY Zenon, <1>3, <1>5, <2>2
<1>6. CASE regenerate /\ ticketTaker' = ticketTaker
  <2>1. /\ setup'.ticket = setup.ticket + 1 /\ ~setup.consumed /\ ~setup'.consumed
        /\ ~setup'.cancelled /\ ~setup'.late
    BY Zenon, <1>6 DEF regenerate
  <2>2. TicketsTurn
    BY <2>1 DEF TicketsTurn, TicketFate
  <2> QED
    BY Zenon, <1>3, <1>6, <2>2
<1>7. CASE TicketExpires /\ ticketTaker' = ticketTaker
  <2>1. /\ setup'.ticket = setup.ticket /\ (setup'.consumed <=> setup.consumed)
        /\ setup'.late
    BY Zenon, <1>7 DEF TicketExpires
  <2>2. TicketsTurn
    BY Zenon, <2>1 DEF TicketsTurn, TicketFate
  <2> QED
    BY Zenon, <1>3, <1>7, <2>2
<1>8. ASSUME NEW p \in Pollers, cancel(p), ticketTaker' = ticketTaker
      PROVE  TicketCredential!OneTimeNext
  <2>1. /\ setup'.ticket = setup.ticket /\ (setup'.consumed <=> setup.consumed)
        /\ setup'.cancelled
    BY Zenon, <1>8 DEF cancel
  <2>2. TicketsTurn
    BY Zenon, <2>1 DEF TicketsTurn, TicketFate
  <2> QED
    BY Zenon, <1>3, <1>8, <2>2
<1>9. ASSUME NEW p \in Pollers, settleSetup(p) PROVE TicketFate' = TicketFate
  BY ZenonT(60), <1>9 DEF settleSetup, TicketFate
<1>10. ASSUME NEW m \in Machines, linkToken(m) PROVE TicketFate' = TicketFate
  BY Zenon, <1>10 DEF linkToken, TicketFate
<1> QED
  BY Zenon, <1>1, <1>2, <1>4, <1>5, <1>6, <1>7, <1>8, <1>9, <1>10, SetupFrame
     DEF TicketCredential!OneTimeNext

-----------------------------------------------------------------------------
(* So are the tokens. *)
LEMMA TokenInitRefines ==
  ASSUME OnboardingInit
  PROVE  TokenCredential!OneTimeInit
  BY Zenon DEF OnboardingInit, TokenFate, TokenCredential!OneTimeInit

TokensTurn ==
  \A t \in TokenIds : \/ TokenFate'[t] = TokenFate[t]
                      \/ (TokenFate[t] = "unissued" /\ TokenFate'[t] = "live")
                      \/ (TokenFate[t] = "live" /\ TokenFate'[t] = "void")

(* Every step is, for a token, a step of the one-time credential or none. *)
LEMMA TokenStepRefines ==
  ASSUME TokensTyped, TakersTyped, Carries, Taken, OnboardingNext
  PROVE  TokenCredential!OneTimeNext \/ UNCHANGED <<TokenFate, tokenTaker>>
<1> USE DEF TokensTyped, TakersTyped
<1>1. ASSUME NEW m \in Machines, claimToken(m)
      PROVE  tok[m] \in TokenIds /\ TokenCredential!Take(tok[m], m)
  <2>1. tok[m] \in TokenIds
    BY Zenon, <1>1 DEF claimToken, Carries
  <2>2. TokenFate[tok[m]] = "live" /\ tokenTaker[tok[m]] = {}
    BY Zenon, <1>1, <2>1 DEF claimToken, TokenGood, TokenFate, Taken
  <2>3. TokenFate' = [TokenFate EXCEPT ![tok[m]] = "spent"]
    BY Zenon, <1>1, <2>1 DEF claimToken, TokenGood, TokenFate
  <2>4. tokenTaker' = [tokenTaker EXCEPT ![tok[m]] = {m}]
    BY Zenon, <1>1, <2>1, <2>2 DEF claimToken
  <2> QED
    BY Zenon, <2>1, <2>2, <2>3, <2>4 DEF TokenCredential!Take
<1>2. ASSUME ~ \E m \in Machines : claimToken(m) PROVE tokenTaker' = tokenTaker
  BY Zenon, <1>2, TakersFrame DEF consumeTicket
<1>3. ASSUME tokenTaker' = tokenTaker, TokensTurn
      PROVE  TokenCredential!OneTimeNext
  <2>1. TokenFate' \in [TokenIds -> TokenCredential!Fates]
    BY Zenon DEF TokenFate, TokenCredential!Fates
  <2> QED
    BY Zenon, <1>3, <2>1 DEF TokenCredential!Turnover, TokenCredential!OneTimeNext, TokensTurn
<1>4. CASE enrollTokens' = enrollTokens /\ tokenTaker' = tokenTaker
  BY Zenon, <1>4 DEF TokenFate
<1>5. ASSUME NEW t \in TokenIds, NEW hand \in BOOLEAN, FreshToken(t),
             enrollTokens' = Minted(t, hand), tokenTaker' = tokenTaker
      PROVE  TokenCredential!OneTimeNext
  <2>1. TokensTurn
    BY <1>5 DEF TokensTurn, Minted, FreshToken, TokenFate, Taken
  <2> QED
    BY Zenon, <1>3, <1>5, <2>1
<1>6. CASE createEnrollmentToken /\ tokenTaker' = tokenTaker
  <2>1. PICK t \in TokenIds : FreshToken(t) /\ enrollTokens' = Minted(t, TRUE)
    BY Zenon, <1>6 DEF createEnrollmentToken, FreshToken
  <2> QED
    BY Zenon, <1>5, <1>6, <2>1
<1>7. ASSUME NEW t \in TokenIds, revokeToken(t), tokenTaker' = tokenTaker
      PROVE  TokenCredential!OneTimeNext
  <2>1. TokensTurn
    BY <1>7 DEF TokensTurn, revokeToken, TokenFate
  <2> QED
    BY Zenon, <1>3, <1>7, <2>1
<1>8. ASSUME NEW m \in Machines, createToken(m), tokenTaker' = tokenTaker
      PROVE  TokenCredential!OneTimeNext
  <2>1. PICK t \in TokenIds : FreshToken(t) /\ enrollTokens' = Minted(t, FALSE)
    BY Zenon, <1>8 DEF createToken
  <2> QED
    BY Zenon, <1>5, <1>8, <2>1
<1>9. ASSUME NEW m \in Machines, createIdentity(m) PROVE TokenFate' = TokenFate
  <2>1. PICK a \in AgentIds : enrollTokens' = [enrollTokens EXCEPT ![tok[m]].agent = a]
    BY Zenon, <1>9 DEF createIdentity
  <2> QED
    BY <2>1 DEF TokenFate
<1> QED
  BY Zenon, <1>1, <1>2, <1>4, <1>6, <1>7, <1>8, <1>9, TokensFrame DEF TokenCredential!OneTimeNext

-----------------------------------------------------------------------------
(* Identities.  Certified rows stay certified and their keys only get newer;  *)
(* nobody comes to own what was not theirs.                                   *)
RowsKept ==
  \A a \in AgentIds : agentRows[a].st = "certified" =>
    /\ agentRows'[a].st = "certified"
    /\ agentRows[a].pair[2] <= agentRows'[a].pair[2]

OwnsNoMore == \A m \in Machines : \A a \in AgentIds : Owns(m, a)' => Owns(m, a)

(* An identity a machine has a part in has a row. *)
LEMMA OwnedIsThere ==
  ASSUME AgentsTyped, DiskTyped, RowInv, DiskInv,
         NEW m \in Machines, NEW a \in AgentIds, Owns(m, a)
  PROVE  agentRows[a].st # "none"
<1> USE OnboardingAssumption DEF AgentIds
<1>1. CASE at[m] \in Unsigned \cup Signed \cup Running /\ ident[m] = a
  BY Zenon, <1>1 DEF RowInv
<1>2. CASE disk[m].key[1] = a
  <2>1. disk[m].key # NoPair
    BY <1>2 DEF NoPair
  <2> QED
    BY Zenon, <1>2, <2>1 DEF DiskInv, Recorded
<1>3. CASE disk[m].crt[1] = a
  <2>1. disk[m].crt # NoPair
    BY <1>3 DEF NoPair
  <2> QED
    BY Zenon, <1>3, <2>1 DEF DiskInv, Recorded
<1>4. CASE disk[m].meta = a
  BY <1>4 DEF DiskInv
<1> QED
  BY Zenon, <1>1, <1>2, <1>3, <1>4 DEF Owns

(* A recorded key or certificate stays recorded while the rows are kept. *)
LEMMA RecordedIsKept ==
  ASSUME AgentsTyped, AgentsTyped', RowsKept, NEW p \in Pairs \cup {NoPair}, Recorded(p)
  PROVE  p # NoPair => /\ agentRows'[p[1]].st = "certified"
                       /\ p[2] <= agentRows'[p[1]].pair[2]
<1> SUFFICES ASSUME p # NoPair
             PROVE  /\ agentRows'[p[1]].st = "certified"
                    /\ p[2] <= agentRows'[p[1]].pair[2]
  BY Zenon
<1>1. p[1] \in AgentIds /\ p[2] \in Nat
  BY OnboardingAssumption DEF Pairs
<1>2. /\ agentRows[p[1]].pair[2] \in Nat
      /\ agentRows'[p[1]].pair[2] \in Nat
  BY <1>1, OnboardingAssumption DEF AgentsTyped, Pairs, NoPair
<1> QED
  BY <1>1, <1>2 DEF RowsKept, Recorded

(* With the disks as they were and the rows kept, what the disks hold is recorded. *)
LEMMA DiskIsKept ==
  ASSUME AgentsTyped, AgentsTyped', DiskTyped, DiskInv, RowsKept, disk' = disk
  PROVE  DiskInv'
<1> SUFFICES ASSUME NEW m \in Machines
             PROVE  /\ Recorded(disk[m].key)' /\ Recorded(disk[m].crt)'
                    /\ disk'[m].meta # 0 => agentRows'[disk'[m].meta].st = "certified"
  BY Zenon DEF DiskInv
<1>1. /\ disk[m].key \in Pairs \cup {NoPair} /\ disk[m].crt \in Pairs \cup {NoPair}
      /\ disk[m].meta \in AgentIds \cup {0}
  BY OnboardingAssumption DEF DiskTyped, AgentIds
<1>2. Recorded(disk[m].key)'
  BY Zenon, <1>1, RecordedIsKept DEF DiskInv, Recorded
<1>3. Recorded(disk[m].crt)'
  BY Zenon, <1>1, RecordedIsKept DEF DiskInv, Recorded
<1>4. disk'[m].meta # 0 => agentRows'[disk'[m].meta].st = "certified"
  BY Zenon, <1>1 DEF DiskInv, RowsKept
<1> QED
  BY Zenon, <1>2, <1>3, <1>4

(* While nobody comes to own more, no identity has two owners. *)
LEMMA OwnersAreKept ==
  ASSUME OwnerInv, OwnsNoMore
  PROVE  OwnerInv'
  BY Zenon DEF OwnerInv, OwnsNoMore

IdentityTyped == AgentsTyped /\ PlacesTyped /\ DiskTyped

(* A place where a machine has no part in an identity that is being made. *)
Bare(place) == place \notin Unsigned \cup Signed \cup Running \cup {"won"}

Quiet ==
  /\ UNCHANGED <<agentRows, disk, mishaps>>
  /\ \A m \in Machines : \/ (at'[m] = at[m] /\ ident'[m] = ident[m])
                         \/ (Bare(at[m]) /\ Bare(at'[m]))

(* The actions that leave every identity as it was. *)
LEMMA QuietActions ==
  ASSUME PlacesTyped,
         \/ create \/ regenerate \/ TicketExpires \/ createEnrollmentToken
         \/ \E t \in TokenIds : revokeToken(t)
         \/ \E m \in Machines : runEnroll(m) \/ (\E n \in Tickets : consumeTicket(m, n))
         \/ \E m \in Machines : \/ createToken(m) \/ linkToken(m) \/ renderInstallScript(m)
                                \/ Refused(m) \/ ReportHost(m)
         \/ \E p \in Pollers : \/ cancel(p) \/ resolve(p) \/ settleSetup(p) \/ nameHost(p)
                               \/ recordCompleted(p)
  PROVE  Quiet
<1> USE DEF PlacesTyped, Goes, Bare, Unsigned, Signed, Running, Quiet, tables, places
<1>1. CASE create \/ regenerate \/ TicketExpires \/ createEnrollmentToken
             \/ \E t \in TokenIds : revokeToken(t)
  BY Zenon, <1>1 DEF create, regenerate, TicketExpires, createEnrollmentToken, revokeToken
<1>2. ASSUME NEW p \in Pollers,
             cancel(p) \/ resolve(p) \/ settleSetup(p) \/ nameHost(p) \/ recordCompleted(p)
      PROVE  Quiet
  BY Zenon, <1>2 DEF cancel, resolve, settleSetup, nameHost, recordCompleted
<1>3. ASSUME NEW m \in Machines, runEnroll(m) PROVE Quiet
  BY Zenon, <1>3 DEF runEnroll, Idle
<1>4. ASSUME NEW m \in Machines, NEW n \in Tickets, consumeTicket(m, n) PROVE Quiet
  BY Zenon, <1>4 DEF consumeTicket, Idle
<1>5. ASSUME NEW m \in Machines, createToken(m) \/ linkToken(m) \/ renderInstallScript(m)
      PROVE  Quiet
  BY Zenon, <1>5 DEF createToken, linkToken, renderInstallScript
<1>6. ASSUME NEW m \in Machines, Refused(m) PROVE Quiet
  BY Zenon, <1>6 DEF Refused, Ends, Rest
<1>7. ASSUME NEW m \in Machines, ReportHost(m) PROVE Quiet
  BY Zenon, <1>7 DEF ReportHost
<1> QED
  BY Zenon, <1>1, <1>2, <1>3, <1>4, <1>5, <1>6, <1>7

(* Such an action keeps the identities. *)
LEMMA QuietStep ==
  ASSUME IdentityTyped, IdentityTyped', IdentityInv, Quiet
  PROVE  IdentityInv'
<1> USE DEF Quiet, Bare
<1>1. RowInv'
  BY Zenon DEF IdentityInv, RowInv
<1>2. RowsKept /\ OwnsNoMore
  <2>1. RowsKept
    BY DEF RowsKept, IdentityTyped, AgentsTyped, Pairs, NoPair
  <2>2. OwnsNoMore
    BY Zenon DEF OwnsNoMore, Owns
  <2> QED
    BY Zenon, <2>1, <2>2
<1>3. DiskInv' /\ OwnerInv'
  BY Zenon, <1>2, DiskIsKept, OwnersAreKept DEF IdentityInv, IdentityTyped
<1>4. FileInv'
  <2>1. \A m \in Machines : Loads(m)' = Loads(m)
    BY Zenon DEF Loads
  <2> QED
    BY <2>1 DEF IdentityInv, FileInv, Unsigned, Signed, Running
<1>5. PendingInv'
  BY Zenon DEF IdentityInv, PendingInv
<1> QED
  BY Zenon, <1>1, <1>3, <1>4, <1>5 DEF IdentityInv

(* Unchanged rows are kept. *)
LEMMA RowsUnchanged ==
  ASSUME AgentsTyped, agentRows' = agentRows
  PROVE  RowsKept
  BY OnboardingAssumption DEF RowsKept, AgentsTyped, Pairs, NoPair

(* Claiming a token keeps the identities. *)
LEMMA ClaimStep ==
  ASSUME IdentityTyped, IdentityTyped', IdentityInv, NEW m \in Machines, claimToken(m)
  PROVE  IdentityInv'
<1> USE DEF claimToken, Goes, IdentityTyped, PlacesTyped
<1>1. ~Loads(m)
  BY OnboardingAssumption DEF Refuses, Loads, NoPair
<1>2. RowInv'
  BY Zenon DEF IdentityInv, RowInv, Unsigned, Signed, Running
<1>3. OwnsNoMore
  BY Zenon DEF OwnsNoMore, Owns, Unsigned, Signed, Running
<1>4. DiskInv' /\ OwnerInv'
  BY Zenon, <1>3, RowsUnchanged, DiskIsKept, OwnersAreKept DEF IdentityInv
<1>5. FileInv'
  <2>1. \A o \in Machines : Loads(o)' = Loads(o)
    BY Zenon DEF Loads
  <2> QED
    BY Zenon, <1>1, <2>1 DEF IdentityInv, FileInv, Running
<1>6. PendingInv'
  BY Zenon DEF IdentityInv, PendingInv, Unsigned
<1> QED
  BY Zenon, <1>2, <1>4, <1>5, <1>6 DEF IdentityInv

(* issueAgentCertificate and EnrollmentAnswered only move the machine on. *)
LEMMA AdvanceStep ==
  ASSUME IdentityTyped, IdentityTyped', IdentityInv, NEW m \in Machines,
         issueAgentCertificate(m) \/ EnrollmentAnswered(m)
  PROVE  IdentityInv'
<1> USE DEF issueAgentCertificate, EnrollmentAnswered, Goes, tables, IdentityTyped, PlacesTyped
<1>1. RowInv'
  BY DEF IdentityInv, RowInv, Unsigned, Signed, Running
<1>2. OwnsNoMore
  BY Zenon DEF OwnsNoMore, Owns, Unsigned, Signed, Running
<1>3. DiskInv' /\ OwnerInv'
  BY Zenon, <1>2, RowsUnchanged, DiskIsKept, OwnersAreKept DEF IdentityInv
<1>4. FileInv'
  <2>1. \A o \in Machines : Loads(o)' = Loads(o)
    BY Zenon DEF Loads
  <2> QED
    BY <2>1, SMTT(30) DEF IdentityInv, FileInv, Running
<1>5. PendingInv'
  BY DEF IdentityInv, PendingInv, Unsigned
<1> QED
  BY Zenon, <1>1, <1>3, <1>4, <1>5 DEF IdentityInv

(* The identity is new: nobody owns it yet. *)
LEMMA CreateStep ==
  ASSUME IdentityTyped, IdentityTyped', IdentityInv, NEW m \in Machines, createIdentity(m)
  PROVE  IdentityInv'
<1> USE DEF Goes, IdentityTyped, PlacesTyped
<1>1. PICK a \in AgentIds :
        /\ agentRows[a].st = "none"
        /\ agentRows' = [agentRows EXCEPT ![a].st = "pending"]
        /\ ident' = [ident EXCEPT ![m] = a]
  BY Zenon DEF createIdentity
<1>2. /\ at[m] = "won" /\ at' = [at EXCEPT ![m] = "created"]
      /\ UNCHANGED <<disk, mishaps>>
  BY Zenon DEF createIdentity
<1>3. \A o \in Machines : ~Owns(o, a)
  BY Zenon, <1>1, OwnedIsThere DEF IdentityInv
<1>4. RowInv'
  BY <1>1, <1>2, <1>3 DEF IdentityInv, RowInv, AgentsTyped, Owns, Unsigned, Signed, Running
<1>5. RowsKept
  <2>1. \A b \in AgentIds : agentRows'[b].pair = agentRows[b].pair
                              /\ agentRows[b].pair[2] \in Nat
    BY <1>1, OnboardingAssumption DEF AgentsTyped, Pairs, NoPair
  <2> QED
    BY <1>1, <2>1 DEF RowsKept, AgentsTyped
<1>6. DiskInv'
  BY Zenon, <1>2, <1>5, DiskIsKept DEF IdentityInv
<1>7. OwnerInv'
  <2>1. \A o \in Machines, b \in AgentIds :
          Owns(o, b)' => Owns(o, b) \/ (o = m /\ b = a)
    BY Zenon, <1>1, <1>2 DEF Owns
  <2>2. \A o \in Machines : Owns(o, a)' => o = m
    BY Zenon, <1>3, <2>1
  <2> QED
    BY <2>1, <2>2 DEF IdentityInv, OwnerInv
<1>8. FileInv'
  <2>1. \A o \in Machines : Loads(o)' = Loads(o)
    BY Zenon, <1>2 DEF Loads
  <2>2. disk[m].key[1] # a /\ disk[m].crt[1] # a /\ disk[m].meta # a
    BY Zenon, <1>3 DEF Owns
  <2> QED
    BY <1>1, <1>2, <2>1, <2>2 DEF IdentityInv, FileInv, Running
<1>9. PendingInv'
  BY <1>1, <1>2 DEF IdentityInv, PendingInv, AgentsTyped, Unsigned
<1> QED
  BY Zenon, <1>4, <1>6, <1>7, <1>8, <1>9 DEF IdentityInv

(* The identity of a machine in Unsigned is its own alone. *)
LEMMA FailsStep ==
  ASSUME IdentityTyped, IdentityTyped', IdentityInv, NEW m \in Machines, issueFails(m)
  PROVE  IdentityInv'
<1> USE DEF Goes, IdentityTyped, PlacesTyped
<1>1. /\ at[m] = "created" /\ UNCHANGED <<disk, mishaps>>
      /\ agentRows' = [agentRows EXCEPT ![ident[m]].st = "deleted"]
      /\ at' = [at EXCEPT ![m] = Rest(m)] /\ Rest(m) \in {"bare", "ready"}
      /\ ident' = [ident EXCEPT ![m] = 0]
  BY Zenon DEF issueFails, Ends, Rest
<1>2. ident[m] \in AgentIds /\ agentRows[ident[m]].st = "pending"
  BY Zenon, <1>1 DEF IdentityInv, RowInv, Unsigned
<1>3. \A o \in Machines : Owns(o, ident[m]) => o = m
  BY Zenon, <1>1, <1>2 DEF IdentityInv, OwnerInv, Owns, Unsigned
<1>4. RowInv'
  BY <1>1, <1>2, <1>3 DEF IdentityInv, RowInv, AgentsTyped, Owns, Unsigned, Signed, Running
<1>5. RowsKept
  <2>1. \A b \in AgentIds : agentRows'[b].pair = agentRows[b].pair
                              /\ agentRows[b].pair[2] \in Nat
    BY <1>1, OnboardingAssumption DEF AgentsTyped, Pairs, NoPair
  <2> QED
    BY <1>1, <1>2, <2>1 DEF RowsKept, AgentsTyped
<1>6. OwnsNoMore
  BY Zenon, <1>1 DEF OwnsNoMore, Owns, Unsigned, Signed, Running
<1>7. DiskInv' /\ OwnerInv'
  BY Zenon, <1>1, <1>5, <1>6, DiskIsKept, OwnersAreKept DEF IdentityInv
<1>8. FileInv'
  <2>1. \A o \in Machines : Loads(o)' = Loads(o)
    BY Zenon, <1>1 DEF Loads
  <2> QED
    BY <1>1, <2>1 DEF IdentityInv, FileInv, Running
<1>9. PendingInv'
  BY <1>1, <1>2 DEF IdentityInv, PendingInv, AgentsTyped, Unsigned
<1> QED
  BY Zenon, <1>4, <1>7, <1>8, <1>9 DEF IdentityInv

(* Recording an agent keeps the identities. *)
LEMMA RecordStep ==
  ASSUME IdentityTyped, IdentityTyped', IdentityInv, NEW m \in Machines, recordCertificate(m)
  PROVE  IdentityInv'
<1> USE DEF Goes, IdentityTyped, PlacesTyped
<1>1. /\ at[m] = "signed" /\ UNCHANGED <<disk, mishaps, ident>>
      /\ agentRows' = [agentRows EXCEPT ![ident[m]].st = "certified",
                                        ![ident[m]].pair = <<ident[m], 1>>]
      /\ at' = [at EXCEPT ![m] = "recorded"]
  BY Zenon DEF recordCertificate
<1>2. ident[m] \in AgentIds /\ agentRows[ident[m]].st = "pending"
  BY Zenon, <1>1 DEF IdentityInv, RowInv, Unsigned
<1>3. \A o \in Machines : Owns(o, ident[m]) => o = m
  BY Zenon, <1>1, <1>2 DEF IdentityInv, OwnerInv, Owns, Unsigned
<1>4. /\ agentRows'[ident[m]].st = "certified" /\ agentRows'[ident[m]].pair = <<ident[m], 1>>
      /\ \A b \in AgentIds : b # ident[m] => agentRows'[b] = agentRows[b]
  BY <1>1, <1>2 DEF AgentsTyped
<1>5. RowInv'
  <2>1. ASSUME NEW o \in Machines
        PROVE  /\ at'[o] \in Unsigned =>
                    ident'[o] \in AgentIds /\ agentRows'[ident'[o]].st = "pending"
               /\ at'[o] \in Signed \cup Running =>
                    ident'[o] \in AgentIds /\ agentRows'[ident'[o]].st = "certified"
    <3>1. CASE o = m
      BY Zenon, <1>1, <1>2, <1>4, <3>1 DEF Unsigned, Signed, Running
    <3>2. CASE o # m
      <4>1. at'[o] = at[o] /\ ident'[o] = ident[o]
        BY Zenon, <1>1, <3>2
      <4>2. at[o] \in Unsigned \cup Signed \cup Running => ident[o] # ident[m]
        BY Zenon, <1>3, <3>2 DEF Owns
      <4> QED
        BY <1>4, <4>1, <4>2 DEF IdentityInv, RowInv
    <3> QED
      BY Zenon, <3>1, <3>2
  <2>2. ASSUME NEW a \in AgentIds, agentRows'[a].st = "certified"
        PROVE  agentRows'[a].pair \in {a} \X (1 .. MaxKeys)
    <3>1. <<ident[m], 1>> \in {ident[m]} \X (1 .. MaxKeys)
      BY OnboardingAssumption
    <3>2. CASE a = ident[m]
      BY Zenon, <1>4, <3>1, <3>2
    <3>3. CASE a # ident[m]
      BY Zenon, <1>4, <2>2, <3>3 DEF IdentityInv, RowInv
    <3> QED
      BY Zenon, <3>2, <3>3
  <2> QED
    BY Zenon, <2>1, <2>2 DEF RowInv
<1>6. RowsKept
  <2>1. \A b \in AgentIds : agentRows[b].pair[2] \in Nat
    BY OnboardingAssumption DEF AgentsTyped, Pairs, NoPair
  <2> QED
    BY <1>2, <1>4, <2>1 DEF RowsKept
<1>7. OwnsNoMore
  BY Zenon, <1>1 DEF OwnsNoMore, Owns, Unsigned, Signed, Running
<1>8. DiskInv' /\ OwnerInv'
  BY Zenon, <1>1, <1>6, <1>7, DiskIsKept, OwnersAreKept DEF IdentityInv
<1>9. FileInv'
  <2>1. \A o \in Machines : Loads(o)' = Loads(o)
    BY Zenon, <1>1 DEF Loads
  <2> QED
    BY ZenonT(60), <1>1, <2>1 DEF IdentityInv, FileInv, Running
<1>10. PendingInv'
  <2>1. SUFFICES ASSUME mishaps = 0, NEW a \in AgentIds, agentRows'[a].st = "pending"
                 PROVE  \E o \in Machines : at'[o] \in Unsigned /\ ident'[o] = a
    BY Zenon, <1>1 DEF PendingInv
  <2>2. a # ident[m] /\ agentRows[a].st = "pending"
    BY Zenon, <1>4, <2>1
  <2>3. PICK o \in Machines : at[o] \in Unsigned /\ ident[o] = a
    BY Zenon, <2>1, <2>2 DEF IdentityInv, PendingInv
  <2> QED
    BY Zenon, <1>1, <2>2, <2>3
<1> QED
  BY Zenon, <1>5, <1>8, <1>9, <1>10 DEF IdentityInv

-----------------------------------------------------------------------------
(* The rows are what they were but for the status. *)
RowsSame == \A a \in AgentIds : /\ agentRows'[a].st = agentRows[a].st
                                /\ agentRows'[a].pair = agentRows[a].pair

(* Rows with the same status and pair are kept. *)
LEMMA SameIsKept ==
  ASSUME AgentsTyped, RowsSame
  PROVE  RowsKept
<1>1. \A a \in AgentIds : agentRows[a].pair[2] \in Nat
  BY OnboardingAssumption DEF AgentsTyped, Pairs, NoPair
<1> QED
  BY <1>1 DEF RowsKept, RowsSame

(* What the row of an identity in use says. *)
LEMMA InUse ==
  ASSUME RowInv, NEW m \in Machines, at[m] \in Signed \cup Running
  PROVE  /\ ident[m] \in AgentIds /\ agentRows[ident[m]].st = "certified"
         /\ agentRows[ident[m]].pair \in Pairs
         /\ agentRows[ident[m]].pair[1] = ident[m]
         /\ agentRows[ident[m]].pair[2] \in 1 .. MaxKeys
<1>1. ident[m] \in AgentIds /\ agentRows[ident[m]].st = "certified"
  BY Zenon DEF RowInv
<1>2. agentRows[ident[m]].pair \in {ident[m]} \X (1 .. MaxKeys)
  BY Zenon, <1>1 DEF RowInv
<1> QED
  BY Zenon, <1>1, <1>2 DEF Pairs

(* Saving an identity on the host keeps the identities. *)
LEMMA SaveStep ==
  ASSUME IdentityTyped, IdentityTyped', IdentityInv, NEW m \in Machines, Save(m)
  PROVE  IdentityInv'
<1> USE DEF Goes, IdentityTyped, PlacesTyped, tables
<1>1. UNCHANGED <<agentRows, ident, mishaps>> /\ at[m] \in {"key", "crt", "meta"}
  BY Zenon DEF Save
<1>2. /\ ident[m] \in AgentIds /\ agentRows[ident[m]].st = "certified"
      /\ agentRows[ident[m]].pair[2] \in 1 .. MaxKeys
  BY Zenon, <1>1, InUse DEF IdentityInv, Signed
<1>3. \A o \in Machines : o # m => at'[o] = at[o] /\ disk'[o] = disk[o]
  BY Zenon DEF Save, DiskTyped
<1>4. \/ at[m] = "key" /\ at'[m] = "crt"
           /\ disk'[m] = [disk[m] EXCEPT !.key = <<ident[m], 1>>]
      \/ at[m] = "crt" /\ at'[m] = "meta"
           /\ disk'[m] = [disk[m] EXCEPT !.crt = <<ident[m], 1>>]
      \/ at[m] = "meta" /\ at'[m] = "ready" /\ disk'[m] = [disk[m] EXCEPT !.meta = ident[m]]
  BY Zenon DEF Save, DiskTyped
<1>5. RowInv'
  BY <1>1, <1>3, <1>4 DEF IdentityInv, RowInv, Unsigned, Signed, Running
<1>6. OwnsNoMore
  <2>1. \A a \in AgentIds : Owns(m, a)' => Owns(m, a)
    BY <1>1, <1>4 DEF Owns, DiskTyped, Unsigned, Signed, Running
  <2>2. \A o \in Machines : o # m => \A a \in AgentIds : Owns(o, a)' => Owns(o, a)
    BY Zenon, <1>1, <1>3 DEF Owns
  <2> QED
    BY Zenon, <2>1, <2>2 DEF OwnsNoMore
<1>7. DiskInv'
  <2>1. Recorded(<<ident[m], 1>>)
    BY <1>2, SMTT(30) DEF Recorded
  <2>2. \A p : Recorded(p)' <=> Recorded(p)
    BY Zenon, <1>1 DEF Recorded
  <2>3. Recorded(disk'[m].key) /\ Recorded(disk'[m].crt)
          /\ (disk'[m].meta # 0 => agentRows[disk'[m].meta].st = "certified")
    BY ZenonT(60), <1>2, <1>4, <2>1 DEF IdentityInv, DiskInv, DiskTyped
  <2>4. ASSUME NEW o \in Machines
        PROVE  /\ Recorded(disk'[o].key) /\ Recorded(disk'[o].crt)
               /\ disk'[o].meta # 0 => agentRows'[disk'[o].meta].st = "certified"
    BY Zenon, <1>1, <1>3, <2>3 DEF IdentityInv, DiskInv
  <2> QED
    BY Zenon, <1>1, <2>4 DEF DiskInv, Recorded
<1>8. FileInv'
  <2>1. \A o \in Machines : o # m => Loads(o)' = Loads(o)
    BY Zenon, <1>3 DEF Loads
  <2>2. /\ at'[m] = "crt" => disk'[m].key[1] = ident[m] /\ disk'[m].crt[1] # ident[m]
                               /\ disk'[m].meta # ident[m]
        /\ at'[m] = "meta" => disk'[m].key[1] = ident[m] /\ disk'[m].crt[1] = ident[m]
                                /\ disk'[m].meta # ident[m]
        /\ at'[m] \in {"crt", "meta", "ready"}
    BY <1>4 DEF IdentityInv, FileInv, DiskTyped
  <2> QED
    BY <1>1, <1>3, <2>1, <2>2, SMTT(30) DEF IdentityInv, FileInv, Running
<1>9. PendingInv'
  BY Zenon, <1>1, <1>3 DEF IdentityInv, PendingInv, Unsigned
<1> QED
  BY Zenon, <1>5, <1>6, <1>7, <1>8, <1>9, OwnersAreKept DEF IdentityInv

(* A connection keeps the identities. *)
LEMMA ConnectStep ==
  ASSUME IdentityTyped, IdentityTyped', IdentityInv, NEW m \in Machines, Connect(m)
  PROVE  IdentityInv'
<1> USE DEF Goes, IdentityTyped, PlacesTyped
<1>1. /\ at[m] = "ready" /\ at' = [at EXCEPT ![m] = "online"]
      /\ ident' = [ident EXCEPT ![m] = disk[m].meta]
      /\ UNCHANGED <<disk, mishaps>>
      /\ agentRows' = [agentRows EXCEPT ![disk[m].meta].status = "connected"]
  BY Zenon DEF Connect
<1>2. disk[m].meta \in AgentIds /\ agentRows[disk[m].meta].st = "certified"
  BY OnboardingAssumption DEF Connect, Loads, DiskTyped, AgentIds, IdentityInv, DiskInv
<1>3. RowsSame
  BY SMTT(60), <1>1 DEF RowsSame, AgentsTyped
<1>4. RowInv'
  BY <1>1, <1>2, <1>3 DEF IdentityInv, RowInv, RowsSame, Unsigned, Signed, Running
<1>5. OwnsNoMore
  BY Zenon, <1>1 DEF OwnsNoMore, Owns, Unsigned, Signed, Running
<1>6. DiskInv' /\ OwnerInv'
  BY Zenon, <1>1, <1>3, <1>5, SameIsKept, DiskIsKept, OwnersAreKept DEF IdentityInv
<1>7. FileInv'
  <2>1. \A o \in Machines : Loads(o)' = Loads(o)
    BY Zenon, <1>1 DEF Loads
  <2> QED
    BY Zenon, <1>1, <2>1 DEF IdentityInv, FileInv, Running
<1>8. PendingInv'
  BY Zenon, <1>1, <1>3 DEF IdentityInv, PendingInv, RowsSame, Unsigned
<1> QED
  BY Zenon, <1>4, <1>6, <1>7, <1>8 DEF IdentityInv

(* replaceCertificate keeps the identities. *)
LEMMA ReplaceStep ==
  ASSUME IdentityTyped, IdentityTyped', IdentityInv, NEW m \in Machines, replaceCertificate(m)
  PROVE  IdentityInv'
<1> USE DEF Goes, IdentityTyped, PlacesTyped
<1>1. /\ at[m] = "online" /\ at' = [at EXCEPT ![m] = "renewed"]
      /\ agentRows[ident[m]].pair[2] < MaxKeys
      /\ UNCHANGED <<ident, disk, mishaps>>
      /\ agentRows' = [agentRows EXCEPT
                         ![ident[m]].pair = <<ident[m], agentRows[ident[m]].pair[2] + 1>>]
  BY Zenon DEF replaceCertificate
<1>2. /\ ident[m] \in AgentIds /\ agentRows[ident[m]].pair[2] \in 1 .. MaxKeys
  BY Zenon, <1>1, InUse DEF IdentityInv, Running
<1>3. /\ agentRows'[ident[m]].pair = <<ident[m], agentRows[ident[m]].pair[2] + 1>>
      /\ \A a \in AgentIds : a # ident[m] => agentRows'[a] = agentRows[a]
      /\ \A a \in AgentIds : agentRows'[a].st = agentRows[a].st
  BY SMTT(60), <1>1, <1>2 DEF AgentsTyped
<1>4. RowInv'
  <2>1. agentRows'[ident[m]].pair \in {ident[m]} \X (1 .. MaxKeys)
    BY SMTT(60), <1>1, <1>2, <1>3, OnboardingAssumption
  <2> QED
    BY <1>1, <1>3, <2>1 DEF IdentityInv, RowInv, Unsigned, Signed, Running
<1>5. RowsKept
  <2>1. \A b \in AgentIds : agentRows[b].pair[2] \in Nat
    BY OnboardingAssumption DEF AgentsTyped, Pairs, NoPair
  <2> QED
    BY <1>2, <1>3, <2>1 DEF RowsKept
<1>6. OwnsNoMore
  BY Zenon, <1>1 DEF OwnsNoMore, Owns, Unsigned, Signed, Running
<1>7. DiskInv' /\ OwnerInv'
  BY Zenon, <1>1, <1>5, <1>6, DiskIsKept, OwnersAreKept DEF IdentityInv
<1>8. FileInv'
  <2>1. \A o \in Machines : Loads(o)' = Loads(o)
    BY Zenon, <1>1 DEF Loads
  <2> QED
    BY Zenon, <1>1, <2>1 DEF IdentityInv, FileInv, Running
<1>9. PendingInv'
  BY Zenon, <1>1, <1>3 DEF IdentityInv, PendingInv, Unsigned
<1> QED
  BY Zenon, <1>4, <1>7, <1>8, <1>9 DEF IdentityInv

(* A renewal keeps the identities. *)
LEMMA RenewStep ==
  ASSUME IdentityTyped, IdentityTyped', IdentityInv, NEW m \in Machines, Renew(m)
  PROVE  IdentityInv'
<1> USE DEF Goes, IdentityTyped, PlacesTyped
<1>1. UNCHANGED <<ident, mishaps>> /\ at[m] \in Running /\ at'[m] \in Running \cup {"ready"}
  BY Zenon DEF Renew, Running
<1>2. /\ ident[m] \in AgentIds /\ agentRows[ident[m]].st = "certified"
      /\ agentRows[ident[m]].pair[1] = ident[m]
      /\ agentRows[ident[m]].pair[2] \in 1 .. MaxKeys
  BY Zenon, <1>1, InUse DEF IdentityInv
<1>3. RowsSame
  BY DEF Renew, RowsSame, AgentsTyped
<1>4. \A o \in Machines : o # m => at'[o] = at[o] /\ disk'[o] = disk[o]
  BY Zenon DEF Renew, DiskTyped
<1>5. \/ disk'[m] = [disk[m] EXCEPT !.key = agentRows[ident[m]].pair]
      \/ disk'[m] = [disk[m] EXCEPT !.crt = agentRows[ident[m]].pair]
      \/ disk'[m] = disk[m]
  BY Zenon DEF Renew, DiskTyped
<1>6. RowInv'
  BY <1>1, <1>3, <1>4, SMTT(30) DEF IdentityInv, RowInv, RowsSame, Unsigned, Signed, Running
<1>7. OwnsNoMore
  <2>1. \A a \in AgentIds : Owns(m, a)' => Owns(m, a)
    BY SMTT(60), <1>1, <1>2, <1>5 DEF Owns, DiskTyped
  <2>2. \A o \in Machines : o # m => \A a \in AgentIds : Owns(o, a)' => Owns(o, a)
    BY Zenon, <1>1, <1>4 DEF Owns
  <2> QED
    BY Zenon, <2>1, <2>2 DEF OwnsNoMore
<1>8. DiskInv'
  <2>1. Recorded(agentRows[ident[m]].pair)
    BY <1>2, SMTT(30) DEF Recorded
  <2>2. \A p \in Pairs \cup {NoPair} : Recorded(p)' <=> Recorded(p)
    <3>1. \A p \in Pairs \cup {NoPair} : p # NoPair => p[1] \in AgentIds
      BY Zenon DEF Pairs
    <3> QED
      BY Zenon, <1>3, <3>1 DEF Recorded, RowsSame
  <2>3. Recorded(disk'[m].key) /\ Recorded(disk'[m].crt) /\ disk'[m].meta = disk[m].meta
    BY <1>5, <2>1 DEF IdentityInv, DiskInv, DiskTyped
  <2>4. ASSUME NEW o \in Machines
        PROVE  /\ Recorded(disk'[o].key) /\ Recorded(disk'[o].crt)
               /\ disk'[o].meta # 0 => agentRows[disk'[o].meta].st = "certified"
    BY Zenon, <1>4, <2>3 DEF IdentityInv, DiskInv
  <2>5. ASSUME NEW o \in Machines
        PROVE  /\ disk'[o].key \in Pairs \cup {NoPair} /\ disk'[o].crt \in Pairs \cup {NoPair}
               /\ disk'[o].meta \in AgentIds \cup {0}
    BY OnboardingAssumption DEF DiskTyped, AgentIds
  <2> QED
    BY Zenon, <1>3, <2>2, <2>4, <2>5 DEF DiskInv, Recorded, RowsSame
<1>9. FileInv'
  <2>1. \A o \in Machines : o # m => Loads(o)' = Loads(o)
    BY Zenon, <1>4 DEF Loads
  <2>2. disk'[m].meta = ident[m]
    BY <1>1, <1>5 DEF IdentityInv, FileInv, DiskTyped
  <2> QED
    BY <1>1, <1>4, <2>1, <2>2, SMTT(30) DEF IdentityInv, FileInv, Running
<1>10. PendingInv'
  BY <1>1, <1>3, <1>4 DEF IdentityInv, PendingInv, RowsSame, Unsigned, Running
<1> QED
  BY Zenon, <1>6, <1>7, <1>8, <1>9, <1>10, OwnersAreKept DEF IdentityInv

(* A process dies: rows keep what they say of identities, disks are left as   *)
(* they are, and a machine goes on or has no part in an identity any more.    *)
Dies ==
  /\ RowsSame /\ disk' = disk /\ mishaps' # 0
  /\ \A m \in Machines : \/ (at'[m] = at[m] /\ ident'[m] = ident[m])
                         \/ at'[m] \in {"bare", "ready"}

(* A stop of the server or a machine only drops what was under way. *)
LEMMA DiesActions ==
  ASSUME IdentityTyped, mishaps \in Nat, ServerStops \/ \E m \in Machines : MachineStops(m)
  PROVE  Dies
<1> USE DEF IdentityTyped, PlacesTyped, Mishap, Dies
<1>1. CASE ServerStops
  <2>1. RowsSame
    BY Zenon, <1>1 DEF ServerStops, RowsSame, Disconnected, AgentsTyped
  <2>2. \A m \in Machines : \/ (at'[m] = at[m] /\ ident'[m] = ident[m])
                            \/ at'[m] \in {"bare", "ready"}
    BY Zenon, <1>1 DEF ServerStops, WithoutServer, Lost, Rest
  <2> QED
    BY <1>1, <2>1, <2>2 DEF ServerStops
<1>2. ASSUME NEW m \in Machines, MachineStops(m) PROVE Dies
  <2>1. RowsSame
    BY <1>2 DEF MachineStops, RowsSame, AgentsTyped
  <2>2. \A o \in Machines : \/ (at'[o] = at[o] /\ ident'[o] = ident[o])
                            \/ at'[o] \in {"bare", "ready"}
    BY <1>2 DEF MachineStops, Ends, Rest, Goes
  <2> QED
    BY <1>2, <2>1, <2>2 DEF MachineStops
<1> QED
  BY Zenon, <1>1, <1>2

(* Such a stop keeps the identities. *)
LEMMA DiesStep ==
  ASSUME IdentityTyped, IdentityTyped', IdentityInv, Dies
  PROVE  IdentityInv'
<1> USE DEF Dies
<1>1. RowInv'
  BY DEF IdentityInv, RowInv, RowsSame, Unsigned, Signed, Running
<1>2. OwnsNoMore
  BY Zenon DEF OwnsNoMore, Owns, Unsigned, Signed, Running
<1>3. DiskInv' /\ OwnerInv'
  BY Zenon, <1>2, SameIsKept, DiskIsKept, OwnersAreKept DEF IdentityInv, IdentityTyped
<1>4. FileInv'
  <2>1. \A m \in Machines : Loads(m)' = Loads(m)
    BY Zenon DEF Loads
  <2> QED
    BY <2>1 DEF IdentityInv, FileInv, Running
<1>5. PendingInv'
  BY Zenon DEF PendingInv
<1> QED
  BY Zenon, <1>1, <1>3, <1>4, <1>5 DEF IdentityInv

(* Every step keeps the identities. *)
LEMMA IdentityStep ==
  ASSUME IdentityTyped, IdentityTyped', IdentityInv, mishaps \in Nat, OnboardingNext
  PROVE  IdentityInv'
<1> USE DEF IdentityTyped
<1>1. CASE \/ create \/ regenerate \/ TicketExpires \/ createEnrollmentToken
           \/ \E t \in TokenIds : revokeToken(t)
           \/ \E m \in Machines : runEnroll(m) \/ (\E n \in Tickets : consumeTicket(m, n))
           \/ \E m \in Machines : \/ createToken(m) \/ linkToken(m) \/ renderInstallScript(m)
                                  \/ Refused(m) \/ ReportHost(m)
           \/ \E p \in Pollers : \/ cancel(p) \/ resolve(p) \/ settleSetup(p) \/ nameHost(p)
                                 \/ recordCompleted(p)
  BY Zenon, <1>1, QuietActions, QuietStep
<1>2. CASE ServerStops \/ \E m \in Machines : MachineStops(m)
  BY Zenon, <1>2, DiesActions, DiesStep
<1>3. ASSUME NEW m \in Machines,
             \/ claimToken(m) \/ issueAgentCertificate(m) \/ EnrollmentAnswered(m)
             \/ createIdentity(m) \/ issueFails(m) \/ recordCertificate(m) \/ Save(m)
             \/ Connect(m) \/ replaceCertificate(m) \/ Renew(m)
      PROVE  IdentityInv'
  BY Zenon, <1>3, ClaimStep, AdvanceStep, CreateStep, FailsStep, RecordStep, SaveStep, ConnectStep,
     ReplaceStep, RenewStep
<1> QED
  BY Zenon, <1>1, <1>2, <1>3 DEF OnboardingNext, OnServer, OnHost

-----------------------------------------------------------------------------
(* What is written: the files of an installation or a renewal as far as it    *)
(* has come, and an identity that loads unless a renewal is between its two   *)
(* writes or a process died.                                                  *)
WrittenInv ==
  \A m \in Machines :
    /\ at[m] = "newkey" => disk[m].key = agentRows[ident[m]].pair
    /\ at[m] \in {"crt", "meta"} => disk[m].key = <<ident[m], 1>>
    /\ at[m] = "meta" => disk[m].crt = <<ident[m], 1>>
    /\ mishaps = 0 /\ disk[m].meta # 0 => Loads(m) \/ at[m] = "newkey"

(* A step that writes nothing leaves who is writing alone. *)
Unwriting ==
  /\ disk' = disk /\ mishaps' = mishaps
  /\ \A m \in Machines : \/ at'[m] = at[m] /\ ident'[m] = ident[m]
                         \/ at[m] # "newkey" /\ at'[m] \notin {"crt", "meta", "newkey"}

(* Only Save and Renew write, and only a mishap interrupts them. *)
LEMMA WritingFrame ==
  ASSUME IdentityTyped, mishaps \in Nat, OnboardingNext
  PROVE  Unwriting \/ Dies \/ \E m \in Machines : Save(m) \/ Renew(m)
<1> USE DEF Unwriting, IdentityTyped, PlacesTyped, Goes
<1>1. CASE UNCHANGED <<at, ident, disk, mishaps>>
  BY Zenon, <1>1
<1>2. CASE create \/ regenerate \/ TicketExpires \/ createEnrollmentToken
             \/ \E t \in TokenIds : revokeToken(t)
  BY Zenon, <1>1, <1>2
     DEF create, regenerate, TicketExpires, createEnrollmentToken, revokeToken, places
<1>3. ASSUME NEW p \in Pollers,
             cancel(p) \/ resolve(p) \/ settleSetup(p) \/ nameHost(p) \/ recordCompleted(p)
      PROVE  Unwriting
  BY Zenon, <1>1, <1>3 DEF cancel, resolve, settleSetup, nameHost, recordCompleted, places
<1>4. ASSUME NEW m \in Machines,
             runEnroll(m) \/ claimToken(m) \/ \E n \in Tickets : consumeTicket(m, n)
      PROVE  Unwriting
  BY Zenon, <1>4 DEF runEnroll, claimToken, consumeTicket, Idle
<1>5. ASSUME NEW m \in Machines,
             \/ createToken(m) \/ linkToken(m) \/ renderInstallScript(m)
             \/ issueAgentCertificate(m) \/ recordCertificate(m) \/ EnrollmentAnswered(m)
      PROVE  Unwriting
  BY Zenon, <1>5 DEF createToken, linkToken, renderInstallScript, issueAgentCertificate,
                     recordCertificate, EnrollmentAnswered
<1>6. ASSUME NEW m \in Machines, replaceCertificate(m) \/ createIdentity(m) \/ Connect(m)
      PROVE  Unwriting
  BY Zenon, <1>6 DEF replaceCertificate, createIdentity, Connect
<1>7. ASSUME NEW m \in Machines, Refused(m) \/ issueFails(m) PROVE Unwriting
  BY Zenon, <1>7 DEF Refused, issueFails, Ends, Rest
<1>8. ASSUME NEW m \in Machines, ReportHost(m) PROVE Unwriting
  BY Zenon, <1>1, <1>8 DEF ReportHost, places
<1>9. CASE ServerStops \/ \E m \in Machines : MachineStops(m)
  BY Zenon, <1>9, DiesActions
<1> QED
  BY ZenonT(60), <1>2, <1>3, <1>4, <1>5, <1>6, <1>7, <1>8, <1>9
     DEF OnboardingNext, OnServer, OnHost

(* The certificate a machine is about to write stays the recorded one. *)
LEMMA PairStays ==
  ASSUME IdentityTyped, IdentityInv, mishaps \in Nat, OnboardingNext,
         NEW m \in Machines, at[m] = "newkey"
  PROVE  agentRows'[ident[m]].pair = agentRows[ident[m]].pair
<1> USE DEF IdentityTyped
<1>1. ident[m] \in AgentIds /\ agentRows[ident[m]].st = "certified" /\ Owns(m, ident[m])
  BY Zenon DEF IdentityInv, RowInv, Running, Owns
<1>2. CASE agentRows' = agentRows
  BY Zenon, <1>2
<1>3. CASE ServerStops \/ \E o \in Machines : MachineStops(o)
  BY Zenon, <1>1, <1>3, DiesActions DEF Dies, RowsSame
<1>4. ASSUME NEW o \in Machines, createIdentity(o) \/ issueFails(o) \/ Connect(o) \/ Renew(o)
      PROVE  agentRows'[ident[m]].pair = agentRows[ident[m]].pair
  <2>1. CASE createIdentity(o)
    BY Zenon, <1>1, <2>1 DEF createIdentity, AgentsTyped
  <2>2. CASE issueFails(o)
    BY Zenon, <1>1, <2>2 DEF issueFails, AgentsTyped
  <2>3. CASE Connect(o)
    BY Zenon, <1>1, <2>3 DEF Connect, AgentsTyped
  <2>4. CASE Renew(o)
    BY SMTT(60), <1>1, <2>4 DEF Renew, AgentsTyped
  <2> QED
    BY Zenon, <1>4, <2>1, <2>2, <2>3, <2>4
<1>5. ASSUME NEW o \in Machines, recordCertificate(o)
      PROVE  agentRows'[ident[m]].pair = agentRows[ident[m]].pair
  <2>1. ident[o] # ident[m]
    BY Zenon, <1>1, <1>5 DEF recordCertificate, IdentityInv, RowInv, Unsigned
  <2> QED
    BY Zenon, <1>1, <1>5, <2>1 DEF recordCertificate, AgentsTyped
<1>6. ASSUME NEW o \in Machines, replaceCertificate(o)
      PROVE  agentRows'[ident[m]].pair = agentRows[ident[m]].pair
  <2>1. o # m
    BY <1>6 DEF replaceCertificate
  <2>2. ident[o] # ident[m]
    BY Zenon, <1>1, <1>6, <2>1 DEF replaceCertificate, IdentityInv, OwnerInv, Owns, Running
  <2> QED
    BY Zenon, <1>1, <1>6, <2>2 DEF replaceCertificate, AgentsTyped
<1> QED
  BY Zenon, <1>2, <1>3, <1>4, <1>5, <1>6, AgentsFrame

(* Every step keeps what is written. *)
LEMMA WrittenStep ==
  ASSUME IdentityTyped, IdentityInv, WrittenInv, mishaps \in Nat, OnboardingNext
  PROVE  WrittenInv'
<1> USE DEF IdentityTyped, PlacesTyped, Goes
<1>1. CASE Unwriting
  <2>1. \A m \in Machines : Loads(m)' <=> Loads(m)
    BY Zenon, <1>1 DEF Unwriting, Loads
  <2> QED
    BY SMTT(60), <1>1, <2>1, PairStays DEF Unwriting, WrittenInv
<1>2. CASE Dies
  BY SMTT(60), <1>2, PairStays DEF Dies, WrittenInv
<1>3. ASSUME NEW m \in Machines, Save(m) PROVE WrittenInv'
  <2>1. /\ at[m] \in {"key", "crt", "meta"} /\ UNCHANGED <<agentRows, ident, mishaps>>
        /\ \A o \in Machines : o # m => at'[o] = at[o] /\ disk'[o] = disk[o]
    BY Zenon, <1>3 DEF Save, DiskTyped, tables
  <2>2. \/ at[m] = "key" /\ at'[m] = "crt"
             /\ disk'[m] = [disk[m] EXCEPT !.key = <<ident[m], 1>>]
        \/ at[m] = "crt" /\ at'[m] = "meta"
             /\ disk'[m] = [disk[m] EXCEPT !.crt = <<ident[m], 1>>]
        \/ at[m] = "meta" /\ at'[m] = "ready" /\ disk'[m] = [disk[m] EXCEPT !.meta = ident[m]]
    BY Zenon, <1>3 DEF Save, DiskTyped
  <2>3. ident[m] \in AgentIds
    BY Zenon, <2>1 DEF IdentityInv, RowInv, Signed
  <2>4. mishaps = 0 /\ at[m] # "newkey" /\ ~Loads(m) => disk[m].meta = 0
    BY Zenon DEF WrittenInv
  <2>5. at[m] \in {"key", "crt", "meta"} => ~Loads(m)
    BY SMTT(60), <2>3 DEF IdentityInv, FileInv, Loads
  <2>6. /\ at'[m] # "newkey"
        /\ at'[m] \in {"crt", "meta"} => disk'[m].key = <<ident'[m], 1>>
        /\ at'[m] = "meta" => disk'[m].crt = <<ident'[m], 1>>
    BY SMTT(60), <2>1, <2>2 DEF DiskTyped, WrittenInv
  <2>7. mishaps' = 0 /\ disk'[m].meta # 0 => Loads(m)'
    <3>1. CASE at[m] = "meta"
      <4>1. /\ disk'[m].meta = ident[m] /\ disk'[m].key = <<ident[m], 1>>
            /\ disk'[m].crt = <<ident[m], 1>>
        BY SMTT(60), <2>2, <3>1 DEF WrittenInv, DiskTyped
      <4>2. ident[m] # 0 /\ 1 \in 1 .. MaxKeys
        BY <2>3, OnboardingAssumption DEF AgentIds
      <4>3. <<ident[m], 1>> \in {ident[m]} \X (1 .. MaxKeys)
        BY Zenon, <4>2
      <4> QED
        BY Zenon, <4>1, <4>2, <4>3 DEF Loads
    <3>2. CASE at[m] \in {"key", "crt"}
      <4>1. disk'[m].meta = disk[m].meta
        BY SMTT(60), <2>2, <3>2 DEF DiskTyped
      <4> QED
        BY SMTT(60), <2>1, <2>4, <2>5, <3>2, <4>1
    <3> QED
      BY Zenon, <2>1, <3>1, <3>2
  <2>8. \A o \in Machines : o # m => (Loads(o)' <=> Loads(o))
    BY Zenon, <2>1 DEF Loads
  <2> QED
    BY Zenon, <2>1, <2>6, <2>7, <2>8 DEF WrittenInv
<1>4. ASSUME NEW m \in Machines, Renew(m) PROVE WrittenInv'
  <2>1. /\ UNCHANGED <<ident, mishaps>>
        /\ \A o \in Machines : o # m => at'[o] = at[o] /\ disk'[o] = disk[o]
    BY Zenon, <1>4 DEF Renew, DiskTyped
  <2>2. \/ at[m] = "renewed" /\ at'[m] = "newkey"
             /\ disk'[m] = [disk[m] EXCEPT !.key = agentRows[ident[m]].pair]
             /\ agentRows' = agentRows
        \/ at[m] = "newkey" /\ at'[m] = "newcrt"
             /\ disk'[m] = [disk[m] EXCEPT !.crt = agentRows[ident[m]].pair]
        \/ at[m] = "newcrt" /\ at'[m] = "ready" /\ disk'[m] = disk[m]
    BY Zenon, <1>4 DEF Renew, DiskTyped
  <2>3. /\ disk[m].meta = ident[m] /\ ident[m] \in AgentIds
        /\ agentRows[ident[m]].pair \in {ident[m]} \X (1 .. MaxKeys)
    BY Zenon, <2>2 DEF IdentityInv, FileInv, RowInv, Running
  <2>4. at'[m] = "newkey" => disk'[m].key = agentRows'[ident'[m]].pair
    BY SMTT(60), <2>1, <2>2 DEF DiskTyped
  <2>5. mishaps' = 0 /\ disk'[m].meta # 0 => Loads(m)' \/ at'[m] = "newkey"
    <3>1. CASE at[m] = "newkey"
      BY SMTT(60), <2>2, <2>3, <3>1 DEF WrittenInv, Loads, DiskTyped
    <3>2. CASE at[m] = "newcrt"
      BY SMTT(60), <2>1, <2>2, <3>2 DEF WrittenInv, Loads
    <3> QED
      BY Zenon, <2>2, <3>1, <3>2
  <2>6. at'[m] \notin {"crt", "meta"}
    BY <2>2
  <2>7. \A o \in Machines : o # m => (Loads(o)' <=> Loads(o))
    BY Zenon, <2>1 DEF Loads
  <2> QED
    BY Zenon, <2>1, <2>4, <2>5, <2>6, <2>7, PairStays DEF WrittenInv
<1> QED
  BY Zenon, <1>1, <1>2, <1>3, <1>4, WritingFrame

-----------------------------------------------------------------------------
(* The completion of the setup. *)
PollsTyped ==
  /\ poll \in [Pollers -> {"idle", "resolve", "complete", "settled", "named"}]
  /\ told \in BOOLEAN

MishapsTyped == mishaps \in 0 .. MaxMishaps

HostsTyped ==
  hostRows \in [AgentIds -> [st : {"none", "placeholder", "reported"}, named : BOOLEAN]]

(* One request has the setup to complete, and it has not done so yet. *)
Settling(p) == poll[p] \in {"settled", "named"}

SettleInv ==
  /\ completions \in {0, 1}
  /\ completions = 1 \/ told \/ (\E p \in Pollers : Settling(p)) => setup.completed
  /\ \A p, q \in Pollers : Settling(p) /\ Settling(q) => p = q
  /\ completions = 1 => \A p \in Pollers : ~Settling(p)

(* The one script that is being answered is the one to link its token. *)
Linking(m) == at[m] \in {"claimed", "minted"}

LinkInv ==
  /\ \A m \in Machines : Linking(m) => setup.consumed /\ setup.token = 0
  /\ \A m, o \in Machines : Linking(m) /\ Linking(o) => m = o
  /\ ~setup.consumed => setup.token = 0

(* A token names an agent once: the one request that has claimed it does.     *)
NameInv ==
  /\ \A t \in TokenIds : ~enrollTokens[t].used => enrollTokens[t].agent = 0
  /\ \A m \in Machines : at[m] = "won" => /\ tok[m] \in TokenIds
                                          /\ enrollTokens[tok[m]].used
                                          /\ enrollTokens[tok[m]].agent = 0
  /\ \A m, o \in Machines : at[m] = "won" /\ at[o] = "won" /\ tok[m] = tok[o] => m = o

(* The setup's own agent is there, for good. *)
Linked ==
  /\ setup.token # 0 /\ enrollTokens[setup.token].agent # 0
  /\ agentRows[enrollTokens[setup.token].agent].st = "certified"

CompleteInv ==
  /\ \A p \in Pollers : poll[p] = "complete" => Linked
  /\ setup.completed => Linked /\ setup.agent = enrollTokens[setup.token].agent

(* The actions that may touch what a browser knows of a setup. *)
LEMMA PollFrame ==
  ASSUME OnboardingNext
  PROVE  \/ UNCHANGED <<poll, told, completions>>
         \/ ServerStops
         \/ \E p \in Pollers : \/ cancel(p) \/ resolve(p) \/ settleSetup(p) \/ nameHost(p)
                               \/ recordCompleted(p)
<1>1. CASE create \/ regenerate \/ TicketExpires \/ createEnrollmentToken
             \/ \E t \in TokenIds : revokeToken(t)
  BY <1>1, Zenon DEF create, regenerate, TicketExpires, createEnrollmentToken, revokeToken
<1>2. ASSUME NEW m \in Machines,
             \/ runEnroll(m) \/ createToken(m) \/ linkToken(m) \/ renderInstallScript(m)
             \/ createIdentity(m) \/ issueAgentCertificate(m) \/ recordCertificate(m)
             \/ EnrollmentAnswered(m) \/ \E n \in Tickets : consumeTicket(m, n)
      PROVE  UNCHANGED <<poll, told, completions>>
  BY <1>2, Zenon DEF runEnroll, createToken, linkToken, renderInstallScript, createIdentity,
                     issueAgentCertificate, recordCertificate, EnrollmentAnswered, consumeTicket
<1>3. ASSUME NEW m \in Machines,
             \/ claimToken(m) \/ Refused(m) \/ Save(m) \/ Renew(m) \/ Connect(m)
             \/ ReportHost(m) \/ issueFails(m) \/ replaceCertificate(m) \/ MachineStops(m)
      PROVE  UNCHANGED <<poll, told, completions>>
  BY <1>3, ZenonT(60) DEF claimToken, Refused, Save, Renew, Connect, ReportHost, issueFails,
                     replaceCertificate, MachineStops
<1> QED
  BY <1>1, <1>2, <1>3, Zenon DEF OnboardingNext, OnServer, OnHost

(* The actions that may touch a host's row. *)
LEMMA HostsFrame ==
  ASSUME OnboardingNext
  PROVE  \/ hostRows' = hostRows
         \/ \E m \in Machines : createIdentity(m) \/ ReportHost(m)
         \/ \E p \in Pollers : nameHost(p)
  BY ZenonT(60)
     DEF OnboardingNext, create, regenerate, TicketExpires, createEnrollmentToken, revokeToken,
         runEnroll, consumeTicket, OnServer, OnHost, createToken, linkToken,
         renderInstallScript, issueAgentCertificate, recordCertificate, EnrollmentAnswered,
         claimToken, Refused, Save, Connect, Renew, issueFails, replaceCertificate, cancel,
         resolve, settleSetup, recordCompleted, ServerStops, MachineStops, tables

(* Every step keeps the type of the hosts' rows. *)
LEMMA HostsTypedStep ==
  ASSUME HostsTyped, OnboardingNext
  PROVE  HostsTyped'
<1> USE DEF HostsTyped
<1>1. CASE hostRows' = hostRows
  BY Zenon, <1>1
<1>2. ASSUME NEW m \in Machines, createIdentity(m) \/ ReportHost(m) PROVE HostsTyped'
  <2>1. CASE createIdentity(m)
    <3>1. PICK a \in AgentIds : hostRows' = [hostRows EXCEPT ![a].st = "placeholder"]
      BY <2>1, Zenon DEF createIdentity
    <3> QED
      BY Zenon, <3>1
  <2>2. CASE ReportHost(m)
    BY ZenonT(60), <2>2 DEF ReportHost
  <2> QED
    BY Zenon, <1>2, <2>1, <2>2
<1>3. ASSUME NEW p \in Pollers, nameHost(p) PROVE HostsTyped'
  BY ZenonT(60), <1>3 DEF nameHost
<1> QED
  BY Zenon, <1>1, <1>2, <1>3, HostsFrame

(* Every step keeps the type of the counters of mishaps. *)
LEMMA MishapsTypedStep ==
  ASSUME MishapsTyped, OnboardingNext
  PROVE  MishapsTyped'
<1>1. CASE ServerStops \/ \E m \in Machines : MachineStops(m)
  <2>1. mishaps < MaxMishaps /\ mishaps' = mishaps + 1
    BY Zenon, <1>1 DEF ServerStops, MachineStops, Mishap
  <2> QED
    BY <2>1, OnboardingAssumption DEF MishapsTyped
<1>2. CASE mishaps' = mishaps
  BY Zenon, <1>2 DEF MishapsTyped
<1> QED
  BY ZenonT(60), <1>1, <1>2
     DEF OnboardingNext, create, regenerate, TicketExpires, createEnrollmentToken, revokeToken,
         runEnroll, consumeTicket, OnServer, OnHost, createToken, linkToken,
         renderInstallScript, createIdentity, issueAgentCertificate, recordCertificate,
         EnrollmentAnswered, claimToken, Refused, Save, Connect, ReportHost, Renew, issueFails,
         replaceCertificate, cancel, resolve, settleSetup, nameHost, recordCompleted

(* Every step keeps the type of what the browser knows. *)
LEMMA PollsTypedStep ==
  ASSUME PollsTyped, OnboardingNext
  PROVE  PollsTyped'
<1> USE DEF PollsTyped
<1>1. CASE UNCHANGED <<poll, told, completions>>
  BY Zenon, <1>1
<1>2. CASE ServerStops
  BY Zenon, <1>2 DEF ServerStops
<1>3. ASSUME NEW p \in Pollers, cancel(p) \/ settleSetup(p) \/ nameHost(p) \/ recordCompleted(p)
      PROVE  PollsTyped'
  BY Zenon, <1>3 DEF cancel, settleSetup, nameHost, recordCompleted
<1>4. ASSUME NEW p \in Pollers, resolve(p) PROVE PollsTyped'
  BY Zenon, <1>4 DEF resolve
<1> QED
  BY Zenon, <1>1, <1>2, <1>3, <1>4, PollFrame

(* Once finished, a setup stays so. *)
LEMMA CompletedStays ==
  ASSUME SetupTyped, OnboardingNext
  PROVE  setup.completed => setup'.completed
  BY Zenon, SetupFrame
     DEF SetupTyped, create, regenerate, TicketExpires, cancel, settleSetup, linkToken,
                    consumeTicket

(* Every step keeps who may still complete the setup. *)
LEMMA SettleStep ==
  ASSUME SetupTyped, PollsTyped, PollsTyped', SettleInv, OnboardingNext
  PROVE  SettleInv'
<1> USE DEF SettleInv, Settling, PollsTyped
<1>1. setup.completed => setup'.completed
  BY Zenon, CompletedStays
<1>2. CASE UNCHANGED <<poll, told, completions>>
  BY Zenon, <1>1, <1>2
<1>3. CASE ServerStops
  BY Zenon, <1>1, <1>3 DEF ServerStops
<1>4. ASSUME NEW p \in Pollers, cancel(p) PROVE SettleInv'
  BY <1>1, <1>4 DEF cancel
<1>5. ASSUME NEW p \in Pollers, resolve(p) PROVE SettleInv'
  <2>1. told' => told \/ setup.completed
    BY Zenon, <1>5 DEF resolve, statusOf
  <2>2. completions' = completions /\ \A q \in Pollers : Settling(q)' => Settling(q)
    BY Zenon, <1>5 DEF resolve
  <2> QED
    BY Zenon, <1>1, <2>1, <2>2
<1>6. ASSUME NEW p \in Pollers, settleSetup(p) PROVE SettleInv'
  <2>1. setup'.completed /\ completions' = completions
    BY Zenon, <1>6 DEF settleSetup, SetupTyped
  <2>2. CASE setup.completed
    BY <1>6, <2>1, <2>2 DEF settleSetup
  <2>3. CASE ~setup.completed
    BY <1>6, <2>1, <2>3 DEF settleSetup
  <2> QED
    BY Zenon, <2>2, <2>3
<1>7. ASSUME NEW p \in Pollers, nameHost(p) PROVE SettleInv'
  BY Zenon, <1>1, <1>7 DEF nameHost
<1>8. ASSUME NEW p \in Pollers, recordCompleted(p) PROVE SettleInv'
  <2>1. completions = 0 /\ setup.completed /\ completions' = 1
    BY <1>8 DEF recordCompleted
  <2> QED
    BY Zenon, <1>1, <1>8, <2>1 DEF recordCompleted
<1> QED
  BY Zenon, <1>2, <1>3, <1>4, <1>5, <1>6, <1>7, <1>8, PollFrame

(* Where a machine that links or names something comes from. *)
Onward ==
  \A m \in Machines : \/ (at'[m] = at[m] /\ tok'[m] = tok[m])
                      \/ at'[m] \notin {"claimed", "minted", "won"}
                      \/ (at[m] = "claimed" /\ at'[m] = "minted")

(* A machine goes on with the token it has, unless it claims one or takes a ticket. *)
LEMMA PlacesFrame ==
  ASSUME PlacesTyped, OnboardingNext
  PROVE  Onward \/ \E m \in Machines : claimToken(m) \/ \E n \in Tickets : consumeTicket(m, n)
<1> USE DEF Onward, PlacesTyped, Goes
<1>1. CASE UNCHANGED <<at, tok>>
  BY Zenon, <1>1
<1>2. CASE create \/ regenerate \/ TicketExpires \/ createEnrollmentToken
             \/ \E t \in TokenIds : revokeToken(t)
  BY Zenon, <1>1, <1>2
     DEF create, regenerate, TicketExpires, createEnrollmentToken, revokeToken, places
<1>3. ASSUME NEW p \in Pollers,
             cancel(p) \/ resolve(p) \/ settleSetup(p) \/ nameHost(p) \/ recordCompleted(p)
      PROVE  Onward
  BY Zenon, <1>1, <1>3 DEF cancel, resolve, settleSetup, nameHost, recordCompleted, places
<1>4. ASSUME NEW m \in Machines, runEnroll(m) PROVE Onward
  BY Zenon, <1>4 DEF runEnroll
<1>5. ASSUME NEW m \in Machines, createToken(m) PROVE Onward
  BY Zenon, <1>5 DEF createToken
<1>6. ASSUME NEW m \in Machines,
             \/ linkToken(m) \/ renderInstallScript(m) \/ issueAgentCertificate(m)
             \/ recordCertificate(m) \/ EnrollmentAnswered(m) \/ Save(m)
             \/ replaceCertificate(m) \/ Renew(m) \/ createIdentity(m) \/ Connect(m)
      PROVE  Onward
  BY Zenon, <1>6 DEF linkToken, renderInstallScript, issueAgentCertificate, recordCertificate,
              EnrollmentAnswered, Save, replaceCertificate, Renew, createIdentity, Connect
<1>7. ASSUME NEW m \in Machines, Ends(m) PROVE Onward
  BY Zenon, <1>7 DEF Ends, Rest
<1>8. ASSUME NEW m \in Machines, Refused(m) \/ issueFails(m) PROVE Onward
  BY Zenon, <1>7, <1>8 DEF Refused, issueFails
<1>9. ASSUME NEW m \in Machines, ReportHost(m) PROVE Onward
  BY Zenon, <1>1, <1>9 DEF ReportHost, places
<1>10. ASSUME NEW m \in Machines, MachineStops(m) PROVE Onward
  BY Zenon, <1>7, <1>10 DEF MachineStops
<1>11. CASE ServerStops
  BY Zenon, <1>11 DEF ServerStops, WithoutServer, Lost, Rest, InRequest
<1> QED
  BY ZenonT(60), <1>2, <1>3, <1>4, <1>5, <1>6, <1>8, <1>9, <1>10, <1>11
     DEF OnboardingNext, OnServer, OnHost

(* The setup's token is linked once. *)
LEMMA LinkStep ==
  ASSUME SetupTyped, PlacesTyped, PlacesTyped', LinkInv, OnboardingNext
  PROVE  LinkInv' /\ (setup.token # 0 => setup'.token = setup.token)
<1> USE DEF LinkInv, Linking, SetupTyped, PlacesTyped
<1>1. ASSUME NEW m \in Machines, NEW n \in Tickets, consumeTicket(m, n)
      PROVE  LinkInv' /\ (setup.token # 0 => setup'.token = setup.token)
  BY Zenon, <1>1 DEF consumeTicket, TicketGood, Goes
<1>2. ASSUME NEW m \in Machines, claimToken(m)
      PROVE  LinkInv' /\ (setup.token # 0 => setup'.token = setup.token)
  BY Zenon, <1>2 DEF claimToken, Goes
<1>3. ASSUME Onward, setup'.token = setup.token, setup'.consumed <=> setup.consumed
      PROVE  LinkInv' /\ (setup.token # 0 => setup'.token = setup.token)
  BY <1>3 DEF Onward
<1>4. ASSUME NEW m \in Machines, linkToken(m)
      PROVE  LinkInv' /\ (setup.token # 0 => setup'.token = setup.token)
  BY Zenon, <1>4 DEF linkToken, Goes
<1>5. CASE Onward /\ \/ create \/ regenerate \/ TicketExpires \/ setup' = setup
                     \/ \E p \in Pollers : cancel(p) \/ settleSetup(p)
  <2>1. CASE create \/ regenerate \/ TicketExpires \/ setup' = setup
    BY Zenon, <1>3, <1>5, <2>1 DEF create, regenerate, TicketExpires
  <2>2. ASSUME NEW p \in Pollers, cancel(p) \/ settleSetup(p)
        PROVE  setup'.token = setup.token /\ (setup'.consumed <=> setup.consumed)
    BY ZenonT(60), <2>2 DEF cancel, settleSetup
  <2> QED
    BY Zenon, <1>3, <1>5, <2>1, <2>2
<1> QED
  BY Zenon, <1>1, <1>2, <1>4, <1>5, PlacesFrame, SetupFrame

(* A token that names an agent names no other. *)
LEMMA NameStep ==
  ASSUME TokensTyped, PlacesTyped, PlacesTyped', Carries, Taken, NameInv, OnboardingNext
  PROVE  /\ NameInv'
         /\ \A t \in TokenIds :
              enrollTokens[t].agent # 0 => enrollTokens'[t].agent = enrollTokens[t].agent
<1> DEFINE Goal == /\ NameInv'
                   /\ \A t \in TokenIds : enrollTokens[t].agent # 0 =>
                                            enrollTokens'[t].agent = enrollTokens[t].agent
<1> SUFFICES Goal
  BY Zenon
<1> USE DEF TokensTyped, PlacesTyped
<1>1. ASSUME NEW m \in Machines, claimToken(m) PROVE Goal
  <2>1. tok[m] \in TokenIds /\ ~enrollTokens[tok[m]].used
    BY Zenon, <1>1 DEF claimToken, Carries, TokenGood
  <2>2. /\ tok' = tok
        /\ \A o \in Machines : at'[o] = IF o = m THEN "won" ELSE at[o]
        /\ \A t \in TokenIds : enrollTokens'[t].agent = enrollTokens[t].agent
        /\ \A t \in TokenIds : enrollTokens'[t].used <=> (enrollTokens[t].used \/ t = tok[m])
    BY Zenon, <1>1, <2>1 DEF claimToken, Goes
  <2> QED
    BY <2>1, <2>2, SMTT(30) DEF NameInv
<1>2. ASSUME NEW m \in Machines, NEW n \in Tickets, consumeTicket(m, n) PROVE Goal
  BY Zenon, <1>2 DEF consumeTicket, Goes, NameInv
<1>3. ASSUME Onward,
             \A t \in TokenIds : /\ enrollTokens'[t].agent = enrollTokens[t].agent
                                 /\ enrollTokens'[t].used <=> enrollTokens[t].used
      PROVE  Goal
  BY <1>3, SMTT(30) DEF Onward, NameInv
<1>4. CASE Onward /\ enrollTokens' = enrollTokens
  BY Zenon, <1>3, <1>4
<1>5. ASSUME NEW t \in TokenIds, NEW hand \in BOOLEAN, enrollTokens' = Minted(t, hand), Onward
      PROVE  Goal
  <2>1. \A u \in TokenIds : /\ enrollTokens'[u].agent = enrollTokens[u].agent
                            /\ enrollTokens'[u].used <=> enrollTokens[u].used
    BY <1>5 DEF Minted
  <2> QED
    BY Zenon, <1>3, <1>5, <2>1
<1>6. CASE createEnrollmentToken /\ Onward
  <2>1. PICK t \in TokenIds : enrollTokens' = Minted(t, TRUE)
    BY Zenon, <1>6 DEF createEnrollmentToken, FreshToken
  <2> QED
    BY Zenon, <1>5, <1>6, <2>1
<1>7. ASSUME NEW m \in Machines, createToken(m), Onward PROVE Goal
  <2>1. PICK t \in TokenIds : enrollTokens' = Minted(t, FALSE)
    BY Zenon, <1>7 DEF createToken
  <2> QED
    BY Zenon, <1>5, <1>7, <2>1
<1>8. ASSUME NEW t \in TokenIds, revokeToken(t), Onward PROVE Goal
  <2>1. \A u \in TokenIds : /\ enrollTokens'[u].agent = enrollTokens[u].agent
                            /\ enrollTokens'[u].used <=> enrollTokens[u].used
    BY Zenon, <1>8 DEF revokeToken
  <2> QED
    BY Zenon, <1>3, <1>8, <2>1
<1>9. ASSUME NEW m \in Machines, createIdentity(m) PROVE Goal
  <2>1. tok[m] \in TokenIds /\ enrollTokens[tok[m]].used /\ enrollTokens[tok[m]].agent = 0
    BY Zenon, <1>9 DEF createIdentity, NameInv
  <2>2. /\ tok' = tok
        /\ \A o \in Machines : at'[o] = IF o = m THEN "created" ELSE at[o]
        /\ at[m] = "won"
        /\ \A t \in TokenIds : t # tok[m] => enrollTokens'[t] = enrollTokens[t]
        /\ enrollTokens'[tok[m]].used
    <3>1. PICK a \in AgentIds : enrollTokens' = [enrollTokens EXCEPT ![tok[m]].agent = a]
      BY Zenon, <1>9 DEF createIdentity
    <3> QED
      BY <1>9, <2>1, <3>1 DEF createIdentity, Goes
  <2> QED
    BY SMTT(60), <2>1, <2>2, SMTT(60) DEF NameInv
<1> QED
  BY Zenon, <1>1, <1>2, <1>4, <1>6, <1>7, <1>8, <1>9, PlacesFrame, TokensFrame

(* A certified agent stays certified. *)
LEMMA CertifiedStays ==
  ASSUME AgentsTyped, RowInv, OnboardingNext
  PROVE  \A a \in AgentIds : agentRows[a].st = "certified" => agentRows'[a].st = "certified"
<1> DEFINE Stays == \A a \in AgentIds :
                      agentRows[a].st = "certified" => agentRows'[a].st = "certified"
<1> USE DEF AgentsTyped
<1>1. CASE agentRows' = agentRows
  BY Zenon, <1>1
<1>2. CASE ServerStops
  BY Zenon, <1>2 DEF ServerStops, Disconnected
<1>3. ASSUME NEW m \in Machines, createIdentity(m) PROVE Stays
  BY Zenon, <1>3 DEF createIdentity
<1>4. ASSUME NEW m \in Machines, issueFails(m) PROVE Stays
  <2>1. agentRows[ident[m]].st = "pending"
    BY Zenon, <1>4 DEF issueFails, RowInv, Unsigned
  <2> QED
    BY Zenon, <1>4, <2>1 DEF issueFails
<1>5. ASSUME NEW m \in Machines,
             recordCertificate(m) \/ Connect(m) \/ replaceCertificate(m) \/ Renew(m)
               \/ MachineStops(m)
      PROVE  Stays
  BY <1>5 DEF recordCertificate, Connect, replaceCertificate, Renew, MachineStops
<1> QED
  BY Zenon, <1>1, <1>2, <1>3, <1>4, <1>5, AgentsFrame

(* Only a certified agent is connected. *)
ConnectedInv ==
  \A a \in AgentIds : agentRows[a].status = "connected" => agentRows[a].st = "certified"

(* Every step keeps what is known of a connected agent. *)
LEMMA ConnectedStep ==
  ASSUME AgentsTyped, DiskTyped, RowInv, DiskInv, ConnectedInv, OnboardingNext
  PROVE  ConnectedInv'
<1> USE DEF AgentsTyped, ConnectedInv
<1>1. CASE agentRows' = agentRows
  BY Zenon, <1>1
<1>2. CASE ServerStops
  BY Zenon, <1>2 DEF ServerStops, Disconnected
<1>3. ASSUME NEW m \in Machines, createIdentity(m) PROVE ConnectedInv'
  BY <1>3 DEF createIdentity
<1>4. ASSUME NEW m \in Machines, issueFails(m) PROVE ConnectedInv'
  <2>1. agentRows[ident[m]].st = "pending" /\ ident[m] \in AgentIds
    BY Zenon, <1>4 DEF issueFails, RowInv, Unsigned
  <2> QED
    BY <1>4, <2>1 DEF issueFails
<1>5. ASSUME NEW m \in Machines, Connect(m) PROVE ConnectedInv'
  <2>1. agentRows[disk[m].meta].st = "certified"
    BY Zenon, <1>5 DEF Connect, Loads, DiskInv
  <2> QED
    BY Zenon, <1>5, <2>1 DEF Connect
<1>6. ASSUME NEW m \in Machines,
             recordCertificate(m) \/ replaceCertificate(m) \/ Renew(m) \/ MachineStops(m)
      PROVE  ConnectedInv'
  BY SMTT(60), <1>6 DEF recordCertificate, replaceCertificate, Renew, MachineStops
<1> QED
  BY Zenon, <1>1, <1>2, <1>3, <1>4, <1>5, <1>6, AgentsFrame

(* The agent of a linked setup is the one that claimed its token. *)
LEMMA LinkedAgent ==
  ASSUME SetupTyped, TokensTyped, AgentsTyped, Linked
  PROVE  /\ setup.token \in TokenIds
         /\ enrollTokens[setup.token].agent \in AgentIds
         /\ ResolvedAgent = enrollTokens[setup.token].agent
<1>1. setup.token \in TokenIds
  BY OnboardingAssumption DEF Linked, SetupTyped, TokenIds
<1>2. enrollTokens[setup.token].agent \in AgentIds
  BY <1>1, OnboardingAssumption DEF Linked, TokensTyped, AgentIds
<1> QED
  BY Zenon, <1>1, <1>2 DEF Linked, ResolvedAgent

(* A link, once there, stays. *)
LEMMA LinkedStays ==
  ASSUME SetupTyped, TokensTyped, AgentsTyped, PlacesTyped, PlacesTyped', RowInv, Carries,
         Taken, LinkInv, NameInv, OnboardingNext, Linked
  PROVE  /\ Linked' /\ setup'.token = setup.token
         /\ enrollTokens'[setup'.token].agent = enrollTokens[setup.token].agent
<1>1. setup'.token = setup.token
  BY Zenon, LinkStep DEF Linked
<1>2. /\ setup.token \in TokenIds /\ enrollTokens[setup.token].agent \in AgentIds
      /\ enrollTokens[setup.token].agent # 0
      /\ agentRows[enrollTokens[setup.token].agent].st = "certified"
      /\ setup.token # 0
  BY Zenon, LinkedAgent DEF Linked
<1>3. enrollTokens'[setup.token].agent = enrollTokens[setup.token].agent
  BY Zenon, <1>2, NameStep
<1>4. agentRows'[enrollTokens[setup.token].agent].st = "certified"
  BY Zenon, <1>2, CertifiedStays
<1> QED
  BY Zenon, <1>1, <1>2, <1>3, <1>4 DEF Linked

(* Every step keeps what is known of a completed setup. *)
LEMMA CompleteStep ==
  ASSUME SetupTyped, TokensTyped, AgentsTyped, PlacesTyped, PlacesTyped', PollsTyped, RowInv,
         Carries, Taken, LinkInv, NameInv, ConnectedInv, CompleteInv, OnboardingNext
  PROVE  CompleteInv'
<1>1. Linked => Linked' /\ enrollTokens'[setup'.token].agent = enrollTokens[setup.token].agent
  BY Zenon, LinkedStays
<1>2. ASSUME NEW p \in Pollers, poll'[p] = "complete" PROVE Linked
  <2>1. CASE poll[p] = "complete"
    BY Zenon, <2>1 DEF CompleteInv
  <2>2. CASE resolve(p)
    <3>1. isComplete
      BY Zenon, <1>2, <2>2 DEF resolve, PollsTyped
    <3>2. /\ setup.token # 0 /\ enrollTokens[setup.token].agent # 0
          /\ ResolvedAgent = enrollTokens[setup.token].agent
      BY Zenon, <3>1 DEF isComplete, ResolvedAgent
    <3>3. ResolvedAgent \in AgentIds
      BY <3>1, ResolvedTyped, OnboardingAssumption DEF isComplete, AgentIds
    <3>4. agentRows[ResolvedAgent].st = "certified"
      BY Zenon, <3>1, <3>3 DEF isComplete, ConnectedInv
    <3> QED
      BY Zenon, <3>2, <3>4 DEF Linked
  <2>3. poll[p] = "complete" \/ resolve(p)
    BY ZenonT(60), <1>2, PollFrame
       DEF ServerStops, cancel, resolve, settleSetup, nameHost, recordCompleted,
                           PollsTyped
  <2> QED
    BY Zenon, <2>1, <2>2, <2>3
<1>3. ASSUME setup'.completed
      PROVE  Linked /\ setup'.agent = enrollTokens[setup.token].agent
  <2>1. CASE setup.completed
    <3>1. setup'.agent = setup.agent
      BY Zenon, <2>1, SetupFrame
         DEF SetupTyped, create, regenerate, TicketExpires, cancel, settleSetup,
                              linkToken, consumeTicket
    <3> QED
      BY Zenon, <2>1, <3>1 DEF CompleteInv
  <2>2. CASE ~setup.completed
    <3>1. PICK p \in Pollers : settleSetup(p)
      BY Zenon, <1>3, <2>2, SetupFrame DEF SetupTyped, create, regenerate, TicketExpires, cancel,
                                    linkToken, consumeTicket
    <3>2. poll[p] = "complete" /\ setup'.agent = ResolvedAgent
      BY Zenon, <2>2, <3>1 DEF settleSetup, SetupTyped
    <3>3. Linked
      BY Zenon, <3>2 DEF CompleteInv
    <3> QED
      BY Zenon, <3>2, <3>3, LinkedAgent
  <2> QED
    BY Zenon, <2>1, <2>2
<1>4. \A p \in Pollers : poll'[p] = "complete" => Linked'
  BY Zenon, <1>1, <1>2
<1>5. setup'.completed => Linked' /\ setup'.agent = enrollTokens'[setup'.token].agent
  BY Zenon, <1>1, <1>3
<1> QED
  BY Zenon, <1>4, <1>5 DEF CompleteInv

-----------------------------------------------------------------------------
(* All of it together. *)
OnboardingInv ==
  /\ SetupTyped /\ TokensTyped /\ AgentsTyped /\ PlacesTyped /\ DiskTyped /\ TakersTyped
  /\ HostsTyped /\ PollsTyped /\ MishapsTyped
  /\ TicketInv /\ Carries /\ Taken
  /\ RowInv /\ DiskInv /\ OwnerInv /\ FileInv /\ PendingInv
  /\ WrittenInv
  /\ SettleInv /\ LinkInv /\ NameInv /\ ConnectedInv /\ CompleteInv

(* The invariant holds before anything has been set up. *)
LEMMA OnboardingInitially ==
  ASSUME OnboardingInit
  PROVE  OnboardingInv
<1> USE OnboardingAssumption DEF OnboardingInit
<1>1. /\ SetupTyped /\ TokensTyped /\ HostsTyped
      /\ PollsTyped /\ MishapsTyped
  <2>1. SetupTyped
    BY DEF SetupTyped
  <2>2. TokensTyped /\ HostsTyped
    BY DEF TokensTyped, HostsTyped
  <2>3. poll \in [Pollers -> {"idle", "resolve", "complete", "settled", "named"}]
    BY Zenon
  <2>4. told \in BOOLEAN
    BY Zenon
  <2>5. MishapsTyped
    BY SMTT(60) DEF MishapsTyped
  <2> QED
    BY Zenon, <2>1, <2>2, <2>3, <2>4, <2>5 DEF PollsTyped
<1>2. AgentsTyped /\ DiskTyped /\ TakersTyped
  BY SMTT(60) DEF AgentsTyped, DiskTyped, TakersTyped
<1>3. PlacesTyped
  BY DEF PlacesTyped, InRequest, OnMachine
<1>4. TicketInv /\ Carries /\ Taken
  BY Zenon DEF TicketInv, Carries, Taken
<1>5. RowInv /\ PendingInv
  BY Zenon DEF RowInv, PendingInv, Unsigned, Signed, Running
<1>6. DiskInv
  BY ZenonT(60) DEF DiskInv, Recorded
<1>7. OwnerInv
  BY SMTT(60) DEF OwnerInv, Owns, Unsigned, Signed, Running, NoPair, AgentIds
<1>8. FileInv
  BY ZenonT(60) DEF FileInv, Running
<1>9. SettleInv /\ LinkInv /\ NameInv
  BY DEF SettleInv, Settling, LinkInv, Linking, NameInv
<1>10. ConnectedInv /\ CompleteInv
  BY Zenon DEF ConnectedInv, CompleteInv
<1>11. WrittenInv
  BY Zenon DEF WrittenInv
<1> QED
  BY Zenon, <1>1, <1>2, <1>3, <1>4, <1>5, <1>6, <1>7, <1>8, <1>9, <1>10, <1>11 DEF OnboardingInv

(* Every step keeps it. *)
LEMMA OnboardingInduction ==
  ASSUME OnboardingInv, [OnboardingNext]_onboardingVars
  PROVE  OnboardingInv'
<1>1. CASE OnboardingNext
  <2>1. /\ SetupTyped' /\ TokensTyped' /\ AgentsTyped' /\ PlacesTyped' /\ DiskTyped'
        /\ TakersTyped' /\ HostsTyped' /\ PollsTyped' /\ MishapsTyped'
    BY Zenon, <1>1, SetupTypedStep, TokensTypedStep, AgentsTypedStep, PlacesTypedStep,
       DiskTypedStep,
       TakersTypedStep, HostsTypedStep, PollsTypedStep, MishapsTypedStep DEF OnboardingInv
  <2>2. TicketInv' /\ Carries' /\ Taken'
    BY Zenon, <1>1, TicketStep, CarriesStep, TakenStep DEF OnboardingInv
  <2>3. RowInv' /\ DiskInv' /\ OwnerInv' /\ FileInv' /\ PendingInv' /\ WrittenInv'
    <3>1. mishaps \in Nat
      BY OnboardingAssumption DEF OnboardingInv, MishapsTyped
    <3>2. IdentityTyped /\ IdentityInv /\ IdentityTyped'
      BY Zenon, <2>1 DEF OnboardingInv, IdentityTyped, IdentityInv
    <3> QED
      BY Zenon, <1>1, <3>1, <3>2, IdentityStep, WrittenStep
         DEF IdentityInv, OnboardingInv
  <2>4. SettleInv' /\ LinkInv' /\ NameInv'
    BY Zenon, <1>1, <2>1, SettleStep, LinkStep, NameStep DEF OnboardingInv
  <2>5. ConnectedInv' /\ CompleteInv'
    BY Zenon, <1>1, <2>1, ConnectedStep, CompleteStep DEF OnboardingInv
  <2> QED
    BY Zenon, <2>1, <2>2, <2>3, <2>4, <2>5 DEF OnboardingInv
<1>2. CASE UNCHANGED onboardingVars
  <2> USE <1>2 DEF onboardingVars, tables, places
  <2>1. /\ SetupTyped' /\ TokensTyped' /\ AgentsTyped' /\ PlacesTyped' /\ DiskTyped'
        /\ TakersTyped' /\ HostsTyped' /\ PollsTyped' /\ MishapsTyped'
    BY Zenon DEF OnboardingInv, SetupTyped, TokensTyped, AgentsTyped, PlacesTyped, DiskTyped,
           TakersTyped, HostsTyped, PollsTyped, MishapsTyped
  <2>2. TicketInv' /\ Carries' /\ Taken'
    BY Zenon DEF OnboardingInv, TicketInv, Carries, Taken
  <2>3. RowInv' /\ DiskInv' /\ OwnerInv' /\ FileInv' /\ PendingInv'
    <3>1. Quiet
      BY Zenon DEF Quiet
    <3>2. IdentityTyped /\ IdentityInv /\ IdentityTyped'
      BY Zenon, <2>1 DEF OnboardingInv, IdentityTyped, IdentityInv
    <3> QED
      BY Zenon, <3>1, <3>2, QuietStep DEF IdentityInv
  <2>4. SettleInv' /\ LinkInv' /\ NameInv'
    BY Zenon DEF OnboardingInv, SettleInv, Settling, LinkInv, Linking, NameInv
  <2>5. ConnectedInv' /\ CompleteInv'
    BY Zenon DEF OnboardingInv, ConnectedInv, CompleteInv, Linked
  <2>6. WrittenInv'
    BY Zenon DEF OnboardingInv, WrittenInv, Loads
  <2> QED
    BY Zenon, <2>1, <2>2, <2>3, <2>4, <2>5, <2>6 DEF OnboardingInv
<1> QED
  BY Zenon, <1>1, <1>2

(* It holds in every reachable state. *)
LEMMA OnboardingInvariant == OnboardingSpec => []OnboardingInv
  BY OnboardingInitially, OnboardingInduction, PTL DEF OnboardingSpec

-----------------------------------------------------------------------------
(* Every variable holds a value of its type, whatever processes die. *)
THEOREM OnboardingIsTyped == OnboardingSpec => []OnboardingTypeOK
<1>1. OnboardingInv => OnboardingTypeOK
  BY SMTT(30)
     DEF OnboardingInv, OnboardingTypeOK, SetupTyped, TokensTyped, AgentsTyped, PlacesTyped,
         DiskTyped, TakersTyped, HostsTyped, PollsTyped, MishapsTyped, SettleInv
<1> QED
  BY <1>1, OnboardingInvariant, PTL

(* A bootstrap ticket is a one-time credential: consumeTicket lets in one     *)
(* machine with it, and none once it is regenerated, cancelled or late.       *)
THEOREM TicketsImplement == OnboardingSpec => TicketsAreOneTime
<1>1. OnboardingInv /\ [OnboardingNext]_onboardingVars
        => [TicketCredential!OneTimeNext]_<<TicketFate, ticketTaker>>
  <2>1. ASSUME OnboardingInv, OnboardingNext
        PROVE  [TicketCredential!OneTimeNext]_<<TicketFate, ticketTaker>>
    BY Zenon, <2>1, TicketStepRefines DEF OnboardingInv
  <2>2. ASSUME UNCHANGED onboardingVars PROVE UNCHANGED <<TicketFate, ticketTaker>>
    BY Zenon, <2>2 DEF onboardingVars, tables, TicketFate
  <2> QED
    BY Zenon, <2>1, <2>2
<1> QED
  BY <1>1, OnboardingInvariant, TicketInitRefines, PTL
     DEF OnboardingSpec, TicketsAreOneTime, TicketCredential!OneTimeSpec

(* An enrollment token is a one-time credential: claimToken's conditional     *)
(* update lets one request make an identity of it, revoked or not meanwhile.  *)
THEOREM TokensImplement == OnboardingSpec => TokensAreOneTime
<1>1. OnboardingInv /\ [OnboardingNext]_onboardingVars
        => [TokenCredential!OneTimeNext]_<<TokenFate, tokenTaker>>
  <2>1. ASSUME OnboardingInv, OnboardingNext
        PROVE  [TokenCredential!OneTimeNext]_<<TokenFate, tokenTaker>>
    BY Zenon, <2>1, TokenStepRefines DEF OnboardingInv
  <2>2. ASSUME UNCHANGED onboardingVars PROVE UNCHANGED <<TokenFate, tokenTaker>>
    BY Zenon, <2>2 DEF onboardingVars, tables, TokenFate
  <2> QED
    BY Zenon, <2>1, <2>2
<1> QED
  BY <1>1, OnboardingInvariant, TokenInitRefines, PTL
     DEF OnboardingSpec, TokensAreOneTime, TokenCredential!OneTimeSpec

(* Two machines never hold one identity, and what loads on a machine was      *)
(* recorded by the server (issueForClaimedToken, replaceCertificate, Save,    *)
(* ReplaceCertificate).                                                       *)
THEOREM IdentitiesStayTheirOwn == OnboardingSpec => []IdentitiesAreTheirOwn
<1>1. ASSUME OnboardingInv PROVE IdentitiesAreTheirOwn
  <2> SUFFICES ASSUME NEW m \in Machines, Loads(m)
               PROVE  /\ agentRows[disk[m].meta].st = "certified"
                      /\ disk[m].crt[2] <= agentRows[disk[m].meta].pair[2]
                      /\ \A o \in Machines : Loads(o) /\ disk[o].meta = disk[m].meta => o = m
    BY Zenon DEF IdentitiesAreTheirOwn
  <2>1. disk[m].meta # 0 /\ disk[m].crt[1] = disk[m].meta /\ disk[m].crt # NoPair
    BY DEF Loads, NoPair
  <2>2. disk[m].meta \in AgentIds
    BY <1>1, <2>1, OnboardingAssumption DEF OnboardingInv, DiskTyped, AgentIds
  <2>3. Recorded(disk[m].crt)
    BY Zenon, <1>1 DEF OnboardingInv, DiskInv
  <2>4. \A o \in Machines : disk[o].meta = disk[m].meta => o = m
    BY Zenon, <1>1, <2>2 DEF OnboardingInv, OwnerInv, Owns
  <2> QED
    BY Zenon, <2>1, <2>3, <2>4 DEF Recorded
<1> QED
  BY <1>1, OnboardingInvariant, PTL

(* With no request under way and no process dead, no agent row is pending     *)
(* (issueForClaimedToken's catch deletes the one it made).                    *)
THEOREM NoIdentityIsLeftPending == OnboardingSpec => []NoPendingIdentity
<1>1. OnboardingInv => NoPendingIdentity
  BY Zenon DEF OnboardingInv, NoPendingIdentity, PendingInv, Unsigned, InRequest
<1> QED
  BY <1>1, OnboardingInvariant, PTL

(* Both together: the identities of the server and of its machines are sound. *)
THEOREM IdentitiesHold == OnboardingSpec => []IdentitiesAreSound
<1>1. IdentitiesAreTheirOwn /\ NoPendingIdentity => IdentitiesAreSound
  BY Zenon DEF IdentitiesAreSound
<1> QED
  BY <1>1, IdentitiesStayTheirOwn, NoIdentityIsLeftPending, PTL

(* A setup is completed once, with the agent of its own token, and nobody is  *)
(* told otherwise (resolveAndSettle's conditional update).                    *)
THEOREM CompletionIsOnce == OnboardingSpec => []CompletedOnce
<1>1. OnboardingInv => CompletedOnce
  BY DEF OnboardingInv, CompletedOnce, SettleInv, CompleteInv, Linked
<1> QED
  BY <1>1, OnboardingInvariant, PTL

(* Nothing that is run on a machine takes its identity from it, and only a    *)
(* crash between ReplaceCertificate's two writes leaves one that does not     *)
(* load (the script's check for a certificate, runEnroll's Load, onRenewal's  *)
(* own agent id, the order of Save).                                          *)
THEOREM IdentityStays == OnboardingSpec => IdentityIsNotReplaced
<1> DEFINE Kept(m) == Loads(m) => /\ disk'[m].meta = disk[m].meta
                                  /\ disk'[m].key \in {disk[m].meta} \X (1 .. MaxKeys)
                                  /\ Loads(m)' \/ at[m] = "renewed"
           Whole(m) == disk[m].meta # 0 /\ ~Loads(m) => at[m] = "newkey" \/ mishaps > 0
<1>1. ASSUME OnboardingInv, OnboardingNext, NEW m \in Machines PROVE Kept(m)
  <2> SUFFICES ASSUME Loads(m)
               PROVE  /\ disk'[m].meta = disk[m].meta
                      /\ disk'[m].key \in {disk[m].meta} \X (1 .. MaxKeys)
                      /\ Loads(m)' \/ at[m] = "renewed"
    BY Zenon
  <2>1. CASE disk'[m] = disk[m]
    BY Zenon, <2>1 DEF Loads
  <2>2. ASSUME Save(m) PROVE FALSE
    BY Zenon, <1>1, <2>2 DEF Save, OnboardingInv, FileInv, Loads
  <2>3. CASE Renew(m)
    <3>1. /\ disk[m].meta = ident[m]
          /\ agentRows[ident[m]].pair \in {ident[m]} \X (1 .. MaxKeys)
      BY Zenon, <1>1, <2>3 DEF Renew, Running, OnboardingInv, FileInv, RowInv
    <3>2. at[m] = "newkey" => disk[m].key = agentRows[ident[m]].pair
      BY Zenon, <1>1 DEF OnboardingInv, WrittenInv
    <3> QED
      BY SMTT(60), <1>1, <2>3, <3>1, <3>2 DEF Renew, OnboardingInv, DiskTyped, Loads
  <2>4. disk'[m] = disk[m] \/ Save(m) \/ Renew(m)
    <3>1. ASSUME NEW o \in Machines, o # m, Save(o) \/ Renew(o) PROVE disk'[m] = disk[m]
      BY Zenon, <1>1, <3>1 DEF Save, Renew, OnboardingInv, DiskTyped
    <3> QED
      BY Zenon, <1>1, <3>1, DiskFrame
  <2> QED
    BY Zenon, <2>1, <2>2, <2>3, <2>4
<1>2. ASSUME OnboardingInv, NEW m \in Machines PROVE Whole(m)
  <2>1. mishaps = 0 \/ mishaps > 0
    BY <1>2, OnboardingAssumption DEF OnboardingInv, MishapsTyped
  <2> QED
    BY Zenon, <1>2, <2>1 DEF OnboardingInv, WrittenInv
<1>3. OnboardingInv /\ [OnboardingNext]_onboardingVars
        => [\A m \in Machines :
              /\ Loads(m) =>
                   /\ disk'[m].meta = disk[m].meta
                   /\ disk'[m].key \in {disk[m].meta} \X (1 .. MaxKeys)
                   /\ Loads(m)' \/ at[m] = "renewed"
              /\ disk[m].meta # 0 /\ ~Loads(m) => at[m] = "newkey" \/ mishaps > 0
           ]_onboardingVars
  BY Zenon, <1>1, <1>2
<1> QED
  BY <1>3, OnboardingInvariant, PTL DEF OnboardingSpec, IdentityIsNotReplaced
=============================================================================
