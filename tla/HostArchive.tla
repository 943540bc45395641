----------------------------- MODULE HostArchive -----------------------------
(***************************************************************************)
(* Archiving a host and undoing it: the handlers of HostArchiveService, one *)
(* action for each stretch between two awaits, for several requests about   *)
(* one host while its agent comes and goes.  The server may stop between    *)
(* the update of the host and the audit entry that follows it.              *)
(***************************************************************************)
EXTENDS Naturals, FiniteSets

CONSTANTS
  Deciders,   \* requests to archive or unarchive the host
  MaxMoves    \* bound: how often the agent connects or disconnects

ASSUME HostArchiveAssumption == IsFiniteSet(Deciders) /\ MaxMoves \in Nat

VARIABLES
  archivedAt, \* whether hosts.archived_at is set
  connected,  \* whether the host's agent is connected
  decider,    \* where each request is, what it asks for, and its check's place among the moves
  hostTrail,  \* how many audit entries of each kind there are
  undone,     \* how many updates were never recorded, the server having stopped
  moves

archiveVars == <<archivedAt, connected, decider, hostTrail, undone, moves>>

DeciderStages == {"new", "loaded", "checked", "written", "done", "refused"}
Wishes == {"host.archived", "host.unarchived"}

HostArchiveTypeOK ==
  /\ archivedAt \in BOOLEAN /\ connected \in BOOLEAN
  /\ decider \in [Deciders -> [at : DeciderStages, wish : Wishes, seen : 0 .. MaxMoves]]
  /\ hostTrail \in [Wishes -> 0 .. Cardinality(Deciders)]
  /\ undone \in 0 .. Cardinality(Deciders)
  /\ moves \in 0 .. MaxMoves

HostArchiveInit ==
  /\ archivedAt = FALSE /\ connected = TRUE
  /\ decider = [d \in Deciders |-> [at |-> "new", wish |-> "host.archived", seen |-> 0]]
  /\ hostTrail = [wish \in Wishes |-> 0]
  /\ undone = 0 /\ moves = 0

Reaches(d, stage) == decider' = [decider EXCEPT ![d] = [@ EXCEPT !.at = stage]]
Unmoved == UNCHANGED <<connected, undone, moves>>

-----------------------------------------------------------------------------
(* load: there is nothing to do for a host that already is what is asked. *)
loadHost(d, wish) ==
  /\ decider[d].at = "new"
  /\ decider' = [decider EXCEPT ![d] =
       [wish |-> wish, seen |-> moves,
        at |-> IF archivedAt = (wish = "host.archived") THEN "done"
               ELSE IF wish = "host.archived" THEN "loaded" ELSE "checked"]]
  /\ UNCHANGED <<archivedAt, hostTrail>> /\ Unmoved

(* isConnected, after the host's agents have been read. *)
isConnected(d) ==
  /\ decider[d].at = "loaded"
  /\ decider' = [decider EXCEPT ![d] =
       [@ EXCEPT !.at = IF connected THEN "refused" ELSE "checked", !.seen = moves]]
  /\ UNCHANGED <<archivedAt, hostTrail>> /\ Unmoved

(* Mutant: the update is not conditional. *)
archiveAgain(d) ==
  /\ decider[d].at = "checked" /\ decider[d].wish = "host.archived"
  /\ archivedAt' = TRUE
  /\ Reaches(d, "written")
  /\ UNCHANGED hostTrail /\ Unmoved

(* archive: the update takes effect once, whoever comes first. *)
archive(d) ==
  /\ decider[d].at = "checked" /\ decider[d].wish = "host.archived"
  /\ archivedAt' = TRUE
  /\ Reaches(d, IF archivedAt THEN "done" ELSE "written")
  /\ UNCHANGED hostTrail /\ Unmoved

(* unarchive: the update is not conditional. *)
unarchive(d) ==
  /\ decider[d].at = "checked" /\ decider[d].wish = "host.unarchived"
  /\ archivedAt' = FALSE
  /\ Reaches(d, "written")
  /\ UNCHANGED hostTrail /\ Unmoved

recordDecision(d) ==
  /\ decider[d].at = "written"
  /\ hostTrail' = [hostTrail EXCEPT ![decider[d].wish] = @ + 1]
  /\ Reaches(d, "done")
  /\ UNCHANGED archivedAt /\ Unmoved

(* The agent connects or disconnects; an archived host stays archived. *)
agentMoves ==
  /\ moves < MaxMoves
  /\ moves' = moves + 1 /\ connected' = ~connected
  /\ UNCHANGED <<archivedAt, decider, hostTrail, undone>>

(* The server stops: requests under way are lost, agents disconnected. *)
serverStops ==
  /\ moves < MaxMoves
  /\ moves' = moves + 1 /\ connected' = FALSE
  /\ undone' = undone + Cardinality({d \in Deciders : decider[d].at = "written"})
  /\ decider' = [d \in Deciders |->
       IF decider[d].at \in {"loaded", "checked", "written"}
       THEN [decider[d] EXCEPT !.at = "refused"] ELSE decider[d]]
  /\ UNCHANGED <<archivedAt, hostTrail>>

HostArchiveNext ==
  \/ \E d \in Deciders :
       \/ \E wish \in Wishes : loadHost(d, wish)
       \/ isConnected(d) \/ archive(d) \/ unarchive(d) \/ recordDecision(d)
  \/ agentMoves \/ serverStops

HostArchiveSpec == HostArchiveInit /\ [][HostArchiveNext]_archiveVars

-----------------------------------------------------------------------------
Unrecorded(wish) == Cardinality({d \in Deciders : decider[d].at = "written" /\ decider[d].wish = wish})

(* However many requests ask for it at once, a decision to archive is         *)
(* recorded once: the entries for archiving, those about to be written        *)
(* included, are at most one more than the decisions to undo it, which are    *)
(* each recorded unless the server stopped first (archive, unarchive, record) *)
DecisionsAreRecordedOnce ==
  hostTrail["host.archived"] + Unrecorded("host.archived")
    <= (IF archivedAt THEN 1 ELSE 0)
       + hostTrail["host.unarchived"] + Unrecorded("host.unarchived") + undone

(* A host is archived by one recorded decision, and while its agent is        *)
(* connected only if the agent connected after the request had checked: the   *)
(* check is not repeated with the update (isConnected, archive).              *)
ArchivingIsDecided ==
  [][ /\ DecisionsAreRecordedOnce'
      /\ ~archivedAt /\ archivedAt' /\ connected
           => \E d \in Deciders : decider'[d] # decider[d] /\ decider[d].seen < moves
    ]_archiveVars
=============================================================================
