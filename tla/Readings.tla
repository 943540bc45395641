------------------------------- MODULE Readings -------------------------------
(***************************************************************************)
(* Reading one container from its host: DetailService with its stored       *)
(* projection and its shared round trips, the lifecycle operations that     *)
(* read the container again to report what they produced, and a replacement *)
(* that gives it a new Docker identifier meanwhile.                         *)
(*                                                                          *)
(* `turn' counts what has happened to the container on its host: what is    *)
(* observed is the turn it was observed in, 0 nothing.  Docker identifiers  *)
(* are numbered, 0 being no container.                                      *)
(***************************************************************************)
EXTENDS Naturals

CONSTANTS
  Pages,      \* requests for the detail page
  Lifecycles, \* start, stop or restart requests
  StackReads, \* reads of a stack operation before it begins and after it ends
  MaxTurns, MaxIds, MaxDrops  \* bounds: turns, identifiers, lost connections

ASSUME ReadingsAssumption ==
  /\ {MaxTurns, MaxIds, MaxDrops} \subseteq Nat \ {0}
  /\ Lifecycles \cap (Pages \cup StackReads) = {}

Readers == Pages \cup Lifecycles \cup StackReads
Keys == {"plain", "forced"}
KeyOf(r) == IF r \in Pages THEN "plain" ELSE "forced"

VARIABLES
  host,      \* the container on the host: its identifier and its turn
  linked,    \* the agent is connected
  drops,
  record,    \* the row of containers: dockerId, detail, and whether that is recent
  read,      \* containerDetail of each reader, between its awaits, and its answer
  inFlight,  \* the round trips shared under each key
  operation, \* run of each operation: its place, the identifier it resolved, its turn
  lock,      \* mutations: who holds the container
  replacing  \* the place of a replacement: "no", "sent", "swapped" (answered)

readingVars == <<host, linked, drops, record, read, inFlight, operation, lock, replacing>>

NoLock == "free"
NoRead == [stage |-> "idle", id |-> 0, stored |-> 0, turn |-> 0, stale |-> FALSE,
           joined |-> FALSE]
NoFlight == [stage |-> "none", id |-> 0, turn |-> 0]
NoOperation == [stage |-> "idle", id |-> 0, turn |-> 0]

ReadingsTypeOK ==
  /\ host \in [id : 0 .. MaxIds, turn : 1 .. MaxTurns]
  /\ linked \in BOOLEAN /\ drops \in 0 .. MaxDrops
  /\ record \in [there : BOOLEAN, id : 1 .. MaxIds, seen : 0 .. MaxTurns, fresh : BOOLEAN]
  /\ read \in [Readers -> [stage : {"idle", "row", "agent", "waiting", "seen", "failed",
                                    "gone", "told", "refused"},
                           id : 0 .. MaxIds, stored : 0 .. MaxTurns, turn : 0 .. MaxTurns,
                           stale : BOOLEAN, joined : BOOLEAN]]
  /\ inFlight \in [Keys -> [stage : {"none", "reread", "asked", "answered"},
                            id : 0 .. MaxIds, turn : 0 .. MaxTurns]]
  /\ operation \in [Lifecycles -> [stage : {"idle", "resolved", "sent", "reconcile", "over"},
                                   id : 0 .. MaxIds, turn : 0 .. MaxTurns]]
  /\ lock \in Lifecycles \cup {NoLock, "replace"}
  /\ replacing \in {"no", "sent", "swapped"}

(* A container that discovery has found and nobody has opened yet. *)
ReadingsInit ==
  /\ host = [id |-> 1, turn |-> 1]
  /\ linked = TRUE /\ drops = 0
  /\ record = [there |-> TRUE, id |-> 1, seen |-> 0, fresh |-> FALSE]
  /\ read = [r \in Readers |-> NoRead]
  /\ inFlight = [k \in Keys |-> NoFlight]
  /\ operation = [o \in Lifecycles |-> NoOperation]
  /\ lock = NoLock /\ replacing = "no"

-----------------------------------------------------------------------------
(* containerDetail.  A page asks; a stack operation reads each of its         *)
(* containers; reconcile is the read of an operation.                         *)
Asks(r) == [read EXCEPT ![r] = [NoRead EXCEPT !.stage = "row"]]

openPage(r) ==
  /\ read[r].stage \in {"idle", "told", "refused"} /\ r \in Pages \cup StackReads
  /\ read' = Asks(r)
  /\ UNCHANGED <<host, linked, drops, record, inFlight, operation, lock, replacing>>

(* Only what an operation is told is kept: it becomes its outcome. *)
Tell(r, seen, old) ==
  read' = [read EXCEPT ![r] =
             IF r \in Lifecycles
             THEN [NoRead EXCEPT !.stage = "told", !.turn = seen, !.stale = old,
                                 !.joined = read[r].joined]
             ELSE [NoRead EXCEPT !.stage = "told"]]
Deny(r) == read' = [read EXCEPT ![r] = [NoRead EXCEPT !.stage = "refused"]]

(* Mutant: an operation is served from the projection as well. *)
readRowCached(r) ==
  /\ read[r].stage = "row"
  /\ IF ~record.there THEN Deny(r)
     ELSE IF record.seen # 0 /\ record.fresh THEN Tell(r, record.seen, FALSE)
     ELSE read' = [read EXCEPT ![r] = [NoRead EXCEPT !.stage = "agent", !.id = record.id,
                                                     !.stored = record.seen]]
  /\ UNCHANGED <<host, linked, drops, record, inFlight, operation, lock, replacing>>

(* The row, and the stored projection if it is recent. *)
readRow(r) ==
  /\ read[r].stage = "row"
  /\ IF ~record.there THEN Deny(r)
     ELSE IF r \in Pages /\ record.seen # 0 /\ record.fresh THEN Tell(r, record.seen, FALSE)
     ELSE read' = [read EXCEPT ![r] = [NoRead EXCEPT !.stage = "agent", !.id = record.id,
                                                     !.stored = record.seen]]
  /\ UNCHANGED <<host, linked, drops, record, inFlight, operation, lock, replacing>>

(* offline: what is stored, as stale, if anything is. *)
offline(r) == IF read[r].stored = 0 THEN Deny(r) ELSE Tell(r, read[r].stored, TRUE)

(* connectedAgent, then coalesce: join the round trip under the key or begin  *)
(* one.                                                                       *)
coalesce(r) ==
  /\ read[r].stage = "agent"
  /\ IF ~linked
     THEN offline(r) /\ UNCHANGED inFlight
     ELSE /\ read' = [read EXCEPT ![r].stage = "waiting",
                                  ![r].joined = inFlight[KeyOf(r)].stage # "none"]
          /\ inFlight' = IF inFlight[KeyOf(r)].stage # "none" THEN inFlight
                         ELSE [inFlight EXCEPT ![KeyOf(r)] =
                                 [NoFlight EXCEPT !.stage = "reread", !.id = read[r].id]]
  /\ UNCHANGED <<host, linked, drops, record, operation, lock, replacing>>

(* The round trip is over: its key is free, and all who wait have its result. *)
Settle(k, result, seen) ==
  /\ inFlight' = [inFlight EXCEPT ![k] = NoFlight]
  /\ read' = [r \in Readers |-> IF KeyOf(r) = k /\ read[r].stage = "waiting"
                                THEN [read[r] EXCEPT !.stage = result, !.turn = seen]
                                ELSE read[r]]

(* Another request may have refreshed the row while this one was queued. *)
reread(k) ==
  /\ inFlight[k].stage = "reread"
  /\ IF k = "plain" /\ record.there /\ record.seen # 0 /\ record.fresh
     THEN Settle(k, "seen", record.seen)
     ELSE IF ~linked THEN Settle(k, "failed", 0)
     ELSE inFlight' = [inFlight EXCEPT ![k].stage = "asked"] /\ UNCHANGED read
  /\ UNCHANGED <<host, linked, drops, record, operation, lock, replacing>>

(* container.inspect on the host ... *)
inspect(k) ==
  /\ inFlight[k].stage = "asked"
  /\ IF host.id = inFlight[k].id
     THEN inFlight' = [inFlight EXCEPT ![k].stage = "answered", ![k].turn = host.turn]
          /\ UNCHANGED read
     ELSE Settle(k, "gone", 0)
  /\ UNCHANGED <<host, linked, drops, record, operation, lock, replacing>>

(* ... or no answer in time, or one that is not understood. *)
inspectFails(k) ==
  /\ inFlight[k].stage = "asked"
  /\ Settle(k, "failed", 0)
  /\ UNCHANGED <<host, linked, drops, record, operation, lock, replacing>>

storeDetail(k) ==
  /\ inFlight[k].stage = "answered"
  /\ record' = IF record.there THEN [record EXCEPT !.seen = inFlight[k].turn, !.fresh = TRUE]
               ELSE record
  /\ Settle(k, "seen", inFlight[k].turn)
  /\ UNCHANGED <<host, linked, drops, operation, lock, replacing>>

Finalises(r) == read[r].stage = "gone"

(* What the reader makes of the result: a container that is gone has its row  *)
(* deleted, and its configurations with it.                                   *)
answerRead(r) ==
  /\ read[r].stage \in {"seen", "failed", "gone"}
  /\ CASE read[r].stage = "seen" -> Tell(r, read[r].turn, FALSE)
       [] read[r].stage = "failed" -> offline(r)
       [] read[r].stage = "gone" -> Deny(r)
  /\ record' = IF Finalises(r) THEN [record EXCEPT !.there = FALSE] ELSE record
  /\ UNCHANGED <<host, linked, drops, inFlight, operation, lock, replacing>>

(* FRESH_FOR_MS. *)
ages ==
  /\ record.fresh
  /\ record' = [record EXCEPT !.fresh = FALSE]
  /\ UNCHANGED <<host, linked, drops, read, inFlight, operation, lock, replacing>>

-----------------------------------------------------------------------------
(* LifecycleService.run: the target is resolved before the lock is taken. *)
resolveTarget(o) ==
  /\ operation[o].stage = "idle" /\ record.there /\ linked
  /\ operation' = [operation EXCEPT ![o].stage = "resolved", ![o].id = record.id]
  /\ UNCHANGED <<host, linked, drops, record, read, inFlight, lock, replacing>>

(* An operation that is refused or has failed is over, and reported as such. *)
Fails(o) == operation' = [operation EXCEPT ![o] = [NoOperation EXCEPT !.stage = "over"]]

acquire(o) ==
  /\ operation[o].stage = "resolved"
  /\ IF lock = NoLock /\ linked
     THEN lock' = o /\ operation' = [operation EXCEPT ![o].stage = "sent"]
     ELSE Fails(o) /\ UNCHANGED lock
  /\ UNCHANGED <<host, linked, drops, record, read, inFlight, replacing>>

(* The agent acts on the identifier it was given ... *)
perform(o) ==
  /\ operation[o].stage = "sent"
  /\ IF host.id = operation[o].id
     THEN /\ host.turn < MaxTurns
          /\ host' = [host EXCEPT !.turn = @ + 1]
          /\ operation' = [operation EXCEPT ![o].stage = "reconcile", ![o].turn = host.turn + 1]
          /\ read' = Asks(o)
          /\ UNCHANGED lock
     ELSE Fails(o) /\ lock' = NoLock /\ UNCHANGED <<host, read>>
  /\ UNCHANGED <<linked, drops, record, inFlight, replacing>>

(* ... and in time, or the server has stopped waiting and reads what is true. *)
timesOut(o) ==
  /\ operation[o].stage = "sent"
  /\ operation' = [operation EXCEPT ![o].stage = "reconcile"]
  /\ read' = Asks(o)
  /\ UNCHANGED <<host, linked, drops, record, inFlight, lock, replacing>>

(* The outcome carries the observation; the lock is released. *)
reconcile(o) ==
  /\ operation[o].stage = "reconcile" /\ read[o].stage \in {"told", "refused"}
  /\ operation' = [operation EXCEPT ![o].stage = "over"]
  /\ lock' = NoLock
  /\ UNCHANGED <<host, linked, drops, record, read, inFlight, replacing>>

-----------------------------------------------------------------------------
(* A replacement under the same lock: the agent puts another container in the *)
(* place of this one, and the server records its identifier.                  *)
replace ==
  /\ replacing = "no" /\ lock = NoLock /\ record.there /\ linked
  /\ host.id = record.id /\ host.id < MaxIds
  /\ lock' = "replace" /\ replacing' = "sent"
  /\ UNCHANGED <<host, linked, drops, record, read, inFlight, operation>>

(* Replace of the agent: another container in its place, or the same one when *)
(* it fails; the states in between are those of AgentReplace.                 *)
swap ==
  /\ replacing = "sent"
  /\ \/ host.id # 0 /\ host.turn < MaxTurns /\ host' = [id |-> host.id + 1, turn |-> host.turn + 1]
     \/ UNCHANGED host
  /\ replacing' = "swapped"
  /\ UNCHANGED <<linked, drops, record, read, inFlight, operation, lock>>

recordReplaced ==
  /\ replacing = "swapped"
  /\ record' = IF record.there /\ host.id # 0 THEN [record EXCEPT !.id = host.id] ELSE record
  /\ lock' = NoLock /\ replacing' = "no"
  /\ UNCHANGED <<host, linked, drops, read, inFlight, operation>>

(* The host on its own: the container changes state, or somebody removes it.  *)
hostTurns ==
  /\ host.id # 0 /\ host.turn < MaxTurns
  /\ \E id \in {0, host.id} : host' = [id |-> id, turn |-> host.turn + 1]
  /\ UNCHANGED <<linked, drops, record, read, inFlight, operation, lock, replacing>>

(* The connection goes, and with it every request under way. *)
linkDrops ==
  /\ linked /\ drops < MaxDrops
  /\ linked' = FALSE /\ drops' = drops + 1
  /\ inFlight' = [k \in Keys |-> IF inFlight[k].stage = "asked" THEN NoFlight ELSE inFlight[k]]
  /\ read' = [r \in Readers |-> IF read[r].stage = "waiting" /\ inFlight[KeyOf(r)].stage = "asked"
                                THEN [read[r] EXCEPT !.stage = "failed"] ELSE read[r]]
  /\ operation' = [o \in Lifecycles |-> IF operation[o].stage = "sent"
                                        THEN [NoOperation EXCEPT !.stage = "over"]
                                        ELSE operation[o]]
  /\ lock' = IF lock \in Lifecycles /\ operation[lock].stage = "sent" THEN NoLock ELSE lock
  /\ UNCHANGED <<host, record, replacing>>

linkReturns ==
  /\ ~linked
  /\ linked' = TRUE
  /\ UNCHANGED <<host, drops, record, read, inFlight, operation, lock, replacing>>

-----------------------------------------------------------------------------
Reading(r) == readRow(r) \/ coalesce(r) \/ answerRead(r)
RoundTrip(k) == reread(k) \/ inspect(k) \/ inspectFails(k) \/ storeDetail(k)
Operating(o) == acquire(o) \/ perform(o) \/ timesOut(o) \/ reconcile(o)

ReadingsNext ==
  \/ \E r \in Readers : openPage(r) \/ Reading(r)
  \/ \E k \in Keys : RoundTrip(k)
  \/ \E o \in Lifecycles : resolveTarget(o) \/ Operating(o)
  \/ replace \/ swap \/ recordReplaced \/ ages \/ hostTurns \/ linkDrops \/ linkReturns

ReadingsSpec == ReadingsInit /\ [][ReadingsNext]_readingVars

-----------------------------------------------------------------------------
Reported(o) == operation[o].stage = "over" /\ read[o].stage = "told"

(* What reconcile says of itself: `The host is asked again rather than served *)
(* from the projection cache: a container inspected moments before the        *)
(* operation would otherwise be reported as the state the operation           *)
(* produced'.  It can be so reported all the same, in three ways and no       *)
(* other: the agent was gone by the second read, or did not answer it, which  *)
(* then falls back on the stored projection (stale), or that read joined a    *)
(* round trip a stack operation had begun earlier (reconcile, offline,        *)
(* coalesce).                                                                 *)
OldOutcomeIsExplained ==
  \A o \in Lifecycles :
    Reported(o) /\ read[o].turn < operation[o].turn => read[o].stale \/ read[o].joined

(* A host that could not be asked costs no record: a container that has its   *)
(* first identifier, was never replaced and runs on keeps its row, whatever   *)
(* is lost, late or stale (containerDetail's catch).                          *)
UnreachableKeepsRecord == host.id = 1 => record.there

(* `If it says the container is gone, that answer is newer than anything      *)
(* stored': the record is deleted on the host's word about the identifier its *)
(* reader found there.  Only a reader that joined is answered about another,  *)
(* the one the round trip began with, whose container may have been replaced  *)
(* meanwhile (containerDetail's catch, coalesce).                             *)
GoneIsGone ==
  \A r \in Readers : read[r].stage = "gone" => read[r].id # host.id \/ read[r].joined

(* However many pages, operations and stacks ask about the container at once, *)
(* the round trip under a key is shared: whoever waits has one to wait for,   *)
(* and it began with an identifier the record had (coalesce, and finally).    *)
WaitersHaveARoundTrip ==
  \A r \in Readers : read[r].stage = "waiting" =>
    inFlight[KeyOf(r)].stage # "none" /\ inFlight[KeyOf(r)].id \in 1 .. record.id

(* What is read of a container is what the host said, the three ways apart,   *)
(* and what is recorded of it is given up for no lesser reason.               *)
ReadingsAreExplained ==
  OldOutcomeIsExplained /\ UnreachableKeepsRecord /\ GoneIsGone /\ WaitersHaveARoundTrip
=============================================================================
