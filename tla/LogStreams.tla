------------------------------ MODULE LogStreams ------------------------------
(***************************************************************************)
(* Live container logs: the viewer that asks for a stream, the request that *)
(* carries it, LogStreamService and the dispatch below it, and the reader   *)
(* the agent runs on the host.                                              *)
(*                                                                          *)
(* One agent.  Every attempt to follow a log is a request of its own, made  *)
(* by one viewer for its user; `serving' is the place of its handler        *)
(* between two awaits.                                                      *)
(***************************************************************************)
EXTENDS Naturals, FiniteSets

CONSTANTS
  Viewers, Attempts,
  OperatorOf,           \* the user of each viewer
  MaxTotal,             \* the lower of LOG_STREAM_MAX_TOTAL and LOG_STREAM_MAX_PER_AGENT
  MaxPerUser,           \* LOG_STREAM_MAX_PER_USER
  MaxUpsets             \* how often the agent goes away, rights are withdrawn or a write fails

ASSUME LogStreamsAssumption ==
  /\ MaxTotal \in Nat /\ MaxPerUser \in Nat /\ MaxUpsets \in Nat
  /\ IsFiniteSet(Attempts)

Operators == {OperatorOf[v] : v \in Viewers}
NoAttempt == "none"

VARIABLES
  shows,      \* the attempt each logs tab holds
  askedBy,    \* the viewer that made each attempt
  browser,    \* its connection to the browser
  serving,    \* its handler on the server
  active,     \* LogStreamService.active
  carried,   \* AgentDispatchService.streams
  reader,     \* what the agent does for it
  cancelling, \* a stream_cancel is on its way
  openedLog, closedLog, \* the audit entries container.logs.opened and closed
  unwritten,  \* the attempts the log has a log_stream_not_audited of
  linkUp, trusted,      \* the agent's connection and its credential
  entitled,   \* the users whose session and permission still stand
  upsets

streamVars == <<shows, askedBy, browser, serving, active, carried, reader, cancelling,
                openedLog, closedLog, unwritten, linkUp, trusted, entitled, upsets>>
trail == <<openedLog, closedLog, unwritten>>
world == <<linkUp, trusted, entitled, upsets>>

LogStreamsTypeOK ==
  /\ shows \in [Viewers -> Attempts \cup {NoAttempt}]
  /\ askedBy \in [Attempts -> Viewers \cup {NoAttempt}]
  /\ browser \in [Attempts -> {"none", "here", "gone"}]
  /\ serving \in [Attempts -> {"none", "resolving", "recording", "running", "failing",
                               "closing", "done"}]
  /\ active \subseteq Attempts
  /\ carried \subseteq Attempts
  /\ reader \in [Attempts -> {"none", "asked", "reading", "over"}]
  /\ cancelling \subseteq Attempts
  /\ openedLog \in [Attempts -> Nat] /\ closedLog \in [Attempts -> Nat]
  /\ unwritten \subseteq Attempts
  /\ linkUp \in BOOLEAN /\ trusted \in BOOLEAN
  /\ entitled \subseteq Operators
  /\ upsets \in 0 .. MaxUpsets

LogStreamsInit ==
  /\ shows = [v \in Viewers |-> NoAttempt]
  /\ askedBy = [r \in Attempts |-> NoAttempt]
  /\ browser = [r \in Attempts |-> "none"]
  /\ serving = [r \in Attempts |-> "none"]
  /\ active = {} /\ carried = {} /\ cancelling = {}
  /\ reader = [r \in Attempts |-> "none"]
  /\ openedLog = [r \in Attempts |-> 0] /\ closedLog = [r \in Attempts |-> 0]
  /\ unwritten = {}
  /\ linkUp = TRUE /\ trusted = TRUE
  /\ entitled = Operators
  /\ upsets = 0

UserOfAttempt(r) == OperatorOf[askedBy[r]]

Upset == upsets < MaxUpsets /\ upsets' = upsets + 1

-----------------------------------------------------------------------------
(* The closure finish of each stream in fs: once only, timers off, out of     *)
(* the map; the record comes before the browser is told.                      *)
Finished(fs) == fs \cap active

Ended(fs) ==
  /\ active' = active \ Finished(fs)
  /\ serving' = [r \in Attempts |-> IF r \in Finished(fs) THEN "closing" ELSE serving[r]]

(* Mutant: the agent is not told. *)
finishUntold(r) == Ended({r}) /\ carried' = carried \ {r} /\ UNCHANGED cancelling

(* ... and cancelStream, which tells the agent if the stream still runs here. *)
finishStream(r) ==
  /\ Ended({r})
  /\ cancelling' = IF r \in active \cap carried /\ linkUp THEN cancelling \cup {r}
                   ELSE cancelling
  /\ carried' = carried \ {r}

(* endStream for a set of streams: they are gone from the dispatch first, so  *)
(* nothing is left to cancel.                                                 *)
endStreams(rs) ==
  /\ Ended(rs \cap carried)
  /\ carried' = carried \ rs
  /\ UNCHANGED cancelling

-----------------------------------------------------------------------------
(* ContainerLogsTab.disconnect: request 'close' on the server, which stops a  *)
(* stream whose handler has returned from open and any other not.             *)
Leaves(r) ==
  IF r # NoAttempt /\ serving[r] = "running"
  THEN finishStream(r)
  ELSE UNCHANGED <<active, serving, cancelling, carried>>

disconnectTab(v) ==
  /\ shows[v] # NoAttempt
  /\ shows' = [shows EXCEPT ![v] = NoAttempt]
  /\ browser' = [browser EXCEPT ![shows[v]] = "gone"]
  /\ Leaves(shows[v])
  /\ UNCHANGED <<askedBy, reader, trail, world>>

(* connect, on opening the tab or when asked again after an end.  The guards  *)
(* let it in while the user is entitled.                                      *)
connectTab(v, r) ==
  /\ shows[v] = NoAttempt /\ serving[r] = "none"
  /\ OperatorOf[v] \in entitled
  /\ shows' = [shows EXCEPT ![v] = r]
  /\ askedBy' = [askedBy EXCEPT ![r] = v]
  /\ browser' = [browser EXCEPT ![r] = "here"]
  /\ serving' = [serving EXCEPT ![r] = "resolving"]
  /\ UNCHANGED <<active, carried, reader, cancelling, trail, world>>

(* The answer ends: the tab shows why and holds nothing any more. *)
Informed(r) ==
  /\ browser' = [browser EXCEPT ![r] = "gone"]
  /\ shows' = [v \in Viewers |-> IF shows[v] = r THEN NoAttempt ELSE shows[v]]

(* enforceLimits. *)
WithinLimits(r) ==
  /\ Cardinality(active) < MaxTotal
  /\ Cardinality({s \in active : UserOfAttempt(s) = UserOfAttempt(r)}) < MaxPerUser

AgentReady == linkUp /\ trusted

(* resolve and connectedAgent have answered; then, without another await, the *)
(* limits and the entry in active.                                            *)
openStream(r) ==
  /\ serving[r] = "resolving"
  /\ IF AgentReady /\ WithinLimits(r)
     THEN /\ active' = active \cup {r}
          /\ serving' = [serving EXCEPT ![r] = "recording"]
          /\ UNCHANGED <<browser, shows>>
     ELSE /\ serving' = [serving EXCEPT ![r] = "done"]
          /\ Informed(r)
          /\ UNCHANGED active
  /\ UNCHANGED <<askedBy, carried, reader, cancelling, trail, world>>

(* record: the entry is written, or the failure is logged and nothing else.   *)
Entry(r, entries) ==
  \/ /\ entries' = [entries EXCEPT ![r] = @ + 1]
     /\ UNCHANGED <<unwritten, upsets>>
  \/ /\ Upset
     /\ unwritten' = unwritten \cup {r}
     /\ UNCHANGED entries

(* The opening is recorded, and dispatched to an agent that is connected. *)
recordOpened(r) ==
  /\ serving[r] = "recording"
  /\ Entry(r, openedLog)
  /\ IF linkUp
     THEN /\ serving' = [serving EXCEPT ![r] = "running"]
          /\ carried' = carried \cup {r}
          /\ reader' = [reader EXCEPT ![r] = "asked"]
          /\ UNCHANGED active
     ELSE /\ serving' = [serving EXCEPT ![r] = "failing"]
          /\ active' = active \ {r}
          /\ UNCHANGED <<carried, reader>>
  /\ UNCHANGED <<shows, askedBy, browser, cancelling, closedLog, linkUp, trusted, entitled>>

(* Mutant: what could not be opened is not recorded as closed. *)
recordClosedOfOpen(r) ==
  /\ serving[r] \in {"closing", "failing"}
  /\ IF serving[r] = "closing" THEN Entry(r, closedLog)
     ELSE UNCHANGED <<closedLog, unwritten, upsets>>
  /\ serving' = [serving EXCEPT ![r] = "done"]
  /\ Informed(r)
  /\ UNCHANGED <<askedBy, active, carried, reader, cancelling, openedLog, linkUp, trusted,
                 entitled>>

(* The end is recorded, and then the browser is told. *)
recordClosed(r) ==
  /\ serving[r] \in {"closing", "failing"}
  /\ Entry(r, closedLog)
  /\ serving' = [serving EXCEPT ![r] = "done"]
  /\ Informed(r)
  /\ UNCHANGED <<askedBy, active, carried, reader, cancelling, openedLog, linkUp, trusted,
                 entitled>>

-----------------------------------------------------------------------------
(* What ends a stream that runs. *)
StreamOver(r) ==
  /\ serving[r] = "running"
  /\ finishStream(r)
  /\ UNCHANGED <<shows, askedBy, browser, reader, trail, world>>

(* Mutant: the interval asks about the agent only. *)
revalidateAgent(r) ==
  /\ serving[r] = "running"
  /\ ~trusted \/ ~linkUp
  /\ StreamOver(r)

(* The interval finds the session, the permission, the credential or the      *)
(* connection gone.                                                           *)
revalidate(r) ==
  /\ serving[r] = "running"
  /\ UserOfAttempt(r) \notin entitled \/ ~trusted \/ ~linkUp
  /\ StreamOver(r)

(* LOG_STREAM_MAX_LIFETIME, or the interval's check could not be made. *)
lifetime(r) == StreamOver(r)

(* A chunk that leaves more than LOG_STREAM_MAX_BUFFERED_BYTES waiting. *)
overflow(r) ==
  /\ reader[r] = "reading" /\ r \in carried /\ browser[r] = "here"
  /\ StreamOver(r)

(* The agent did not start in time. *)
acceptTimeout(r) ==
  /\ r \in carried /\ reader[r] = "asked"
  /\ endStreams({r})
  /\ UNCHANGED <<shows, askedBy, browser, reader, trail, world>>

-----------------------------------------------------------------------------
(* The agent: handleStream adds the stream and reads, whether or not the      *)
(* server still carries it; a request that has expired is refused.            *)
handleStream(r) ==
  /\ reader[r] = "asked" /\ linkUp
  /\ \/ reader' = [reader EXCEPT ![r] = "reading"]
     \/ r \notin carried /\ reader' = [reader EXCEPT ![r] = "over"]
  /\ UNCHANGED <<shows, askedBy, browser, serving, active, carried, cancelling, trail, world>>

(* ... and reports its end: the output is over, or MaxDuration has passed.    *)
streamEnds(r) ==
  /\ reader[r] = "reading" /\ linkUp
  /\ reader' = [reader EXCEPT ![r] = "over"]
  /\ endStreams({r})
  /\ UNCHANGED <<shows, askedBy, browser, trail, world>>

(* streams.cancel, for a stream it knows: one that is not added yet is begun   *)
(* all the same, and nothing will cancel it.                                  *)
cancelArrives(r) ==
  /\ r \in cancelling
  /\ cancelling' = cancelling \ {r}
  /\ reader' = [reader EXCEPT ![r] = IF @ = "reading" THEN "over" ELSE @]
  /\ UNCHANGED <<shows, askedBy, browser, serving, active, carried, trail,
                 world>>

(* The connection goes: cancelAll on the agent, abandon on the server. *)
Dropped == [r \in Attempts |-> IF reader[r] \in {"asked", "reading"} THEN "over" ELSE reader[r]]

linkLost ==
  /\ linkUp /\ Upset
  /\ linkUp' = FALSE
  /\ reader' = Dropped
  /\ cancelling' = {}
  /\ Ended(carried)
  /\ carried' = {}
  /\ UNCHANGED <<shows, askedBy, browser, trail, trusted, entitled>>

linkRestored ==
  /\ ~linkUp /\ trusted
  /\ linkUp' = TRUE
  /\ UNCHANGED <<shows, askedBy, browser, serving, active, carried, reader, cancelling,
                 trail, trusted, entitled, upsets>>

(* A revocation: endStreamsOfAgent, and the connection is closed. *)
endStreamsOfAgent ==
  /\ trusted /\ Upset
  /\ trusted' = FALSE /\ linkUp' = FALSE
  /\ reader' = Dropped
  /\ cancelling' = {}
  /\ Ended(carried)
  /\ carried' = {}
  /\ UNCHANGED <<shows, askedBy, browser, trail, entitled>>

(* A session ends, a permission is withdrawn. *)
withdraw(u) ==
  /\ u \in entitled /\ Upset
  /\ entitled' = entitled \ {u}
  /\ UNCHANGED <<shows, askedBy, browser, serving, active, carried, reader, cancelling,
                 trail, linkUp, trusted>>

-----------------------------------------------------------------------------
Handler(r) == openStream(r) \/ recordOpened(r) \/ recordClosed(r)

LogStreamsNext ==
  \/ \E v \in Viewers : disconnectTab(v) \/ \E r \in Attempts : connectTab(v, r)
  \/ \E r \in Attempts : \/ Handler(r) \/ revalidate(r) \/ lifetime(r) \/ overflow(r)
                         \/ acceptTimeout(r) \/ handleStream(r) \/ streamEnds(r)
                         \/ cancelArrives(r)
  \/ linkLost \/ linkRestored \/ endStreamsOfAgent
  \/ \E u \in Operators : withdraw(u)

LogStreamsSpec == LogStreamsInit /\ [][LogStreamsNext]_streamVars

-----------------------------------------------------------------------------
(* The trail accounts for what was read: `Opening is recorded before anything *)
(* is dispatched', and `Ending is recorded before the caller is told'.  Each  *)
(* entry is written at most once; a log the agent has been asked for has its  *)
(* opening, and a handler that is through both entries or neither, unless a   *)
(* write failed: record then leaves a warning in the log and the stream goes  *)
(* on, so a pair may lack either half (record, finish, open's catch).         *)
TrailInOrder ==
  \A r \in Attempts :
    /\ openedLog[r] <= 1 /\ closedLog[r] <= 1
    /\ r \notin unwritten =>
         /\ closedLog[r] <= openedLog[r]
         /\ reader[r] # "none" => openedLog[r] = 1
         /\ serving[r] = "done" => closedLog[r] = openedLog[r]

=============================================================================
