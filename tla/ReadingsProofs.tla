--------------------------- MODULE ReadingsProofs ---------------------------
(*****************************************************************************)
(* What a page is shown of a container and of the releases: the readings     *)
(* that pages and operations take, and the check for releases, for any       *)
(* number of readers, operations and pages, and any course of time.          *)
(*****************************************************************************)
EXTENDS Readings, ReleaseChecks, TLAPS

-----------------------------------------------------------------------------
(*****************************************************************************)
(* READINGS. For any number of pages, operations and stack reads, and any    *)
(* turns, identifiers and lost connections.                                  *)
(*****************************************************************************)

(* The records of a reader, a round trip, an operation and the row, without   *)
(* their bounds.                                                              *)
ReadRecord == [stage : {"idle", "row", "agent", "waiting", "seen", "failed", "gone", "told",
                        "refused"},
               id : Nat, stored : Nat, turn : Nat, stale : BOOLEAN, joined : BOOLEAN]
FlightRecord == [stage : {"none", "reread", "asked", "answered"}, id : Nat, turn : Nat]
OperationRecord == [stage : {"idle", "resolved", "sent", "reconcile", "over"},
                    id : Nat, turn : Nat]
RowRecord == [there : BOOLEAN, id : Nat, seen : Nat, fresh : BOOLEAN]

(* The part of the state the argument is about, typed.                        *)
ReadingsTyped ==
  /\ host \in [id : Nat, turn : Nat]
  /\ record \in RowRecord
  /\ read \in [Readers -> ReadRecord]
  /\ inFlight \in [Keys -> FlightRecord]
  /\ operation \in [Lifecycles -> OperationRecord]

(* The record follows the host, and is there while the first container is.    *)
RowFollows ==
  /\ record.id # 0
  /\ host.id # 0 => record.id <= host.id
  /\ host.id = 1 => record.there

(* A container with this identifier is not on the host any more. *)
LeftBehind(id) == id # 0 /\ (host.id = 0 \/ id < host.id)

(* A reader goes to the agent with an identifier the record had, waits for a  *)
(* round trip, with that identifier if it began it, and learns that the       *)
(* container is gone only if it is.                                           *)
ReaderInv(r) ==
  /\ read[r].stage = "agent" => read[r].id \in 1 .. record.id
  /\ read[r].stage = "waiting" => /\ inFlight[KeyOf(r)].stage # "none"
                                  /\ read[r].joined \/ inFlight[KeyOf(r)].id = read[r].id
  /\ read[r].stage = "gone" => /\ host.id # 1
                               /\ read[r].joined \/ LeftBehind(read[r].id)

(* So does a round trip. *)
FlightInv(k) == inFlight[k].stage # "none" => inFlight[k].id \in 1 .. record.id

(* The read after an operation that began its own round trip sees what the    *)
(* operation did, once the host has answered.                                 *)
OwnReadInv(o) ==
  /\ read[o].stage = "waiting" /\ ~read[o].joined /\ inFlight["forced"].stage = "answered"
       => operation[o].turn <= inFlight["forced"].turn
  /\ read[o].stage = "seen" /\ ~read[o].joined => operation[o].turn <= read[o].turn
  /\ read[o].stage = "told" /\ ~read[o].joined /\ ~read[o].stale
       => operation[o].turn <= read[o].turn

(* What an operation did is not to come. *)
OperationInv(o) == operation[o].turn <= host.turn /\ OwnReadInv(o)

ReadingsInv ==
  /\ ReadingsTyped /\ RowFollows
  /\ \A r \in Readers : ReaderInv(r)
  /\ \A k \in Keys : FlightInv(k)
  /\ \A o \in Lifecycles : OperationInv(o)

-----------------------------------------------------------------------------
(* The read of an operation is forced.                                        *)
LEMMA LifecyclesRead ==
  ASSUME NEW o \in Lifecycles
  PROVE  o \in Readers /\ o \notin Pages /\ o \notin StackReads /\ KeyOf(o) = "forced"
  BY ReadingsAssumption DEF Readers, KeyOf

(* Whoever reads has a key.                                                   *)
LEMMA KeysOfReaders == \A r : KeyOf(r) \in Keys
  BY DEF KeyOf, Keys

(* What stands for no read, no round trip and no operation.                   *)
LEMMA NoReadTyped ==
  /\ NoRead \in ReadRecord /\ NoFlight \in FlightRecord /\ NoOperation \in OperationRecord
  /\ NoFlight.stage = "none" /\ NoRead.stage = "idle" /\ NoOperation.turn = 0
  BY DEF NoRead, NoFlight, NoOperation, ReadRecord, FlightRecord, OperationRecord

(* One reader moves, and perhaps the row; nothing else that matters does.     *)
LEMMA ReaderMoves ==
  ASSUME ReadingsInv, NEW r \in Readers, NEW x \in ReadRecord,
         read' = [read EXCEPT ![r] = x],
         UNCHANGED <<host, inFlight, operation>>,
         record' \in RowRecord, record'.id = record.id, RowFollows',
         ReaderInv(r)', r \in Lifecycles => OwnReadInv(r)'
  PROVE  ReadingsInv'
<1>1. ReadingsTyped' /\ read'[r] = x /\ \A q \in Readers : q # r => read'[q] = read[q]
  BY DEF ReadingsInv, ReadingsTyped
<1>2. ASSUME NEW q \in Readers PROVE ReaderInv(q)'
  <2>1. CASE q = r
    BY <2>1
  <2>2. CASE q # r
    BY <1>1, <2>2 DEF ReadingsInv, ReaderInv, LeftBehind
  <2> QED
    BY <2>1, <2>2
<1>3. \A k \in Keys : FlightInv(k)'
  BY DEF ReadingsInv, FlightInv
<1>4. ASSUME NEW o \in Lifecycles PROVE OperationInv(o)'
  <2>1. operation'[o].turn <= host'.turn
    BY DEF ReadingsInv, OperationInv
  <2>2. CASE o = r
    BY <2>1, <2>2 DEF OperationInv
  <2>3. CASE o # r
    <3>1. read'[o] = read[o] /\ OwnReadInv(o)
      BY <1>1, <2>3, LifecyclesRead DEF ReadingsInv, OperationInv
    <3> QED
      BY <2>1, <3>1 DEF OperationInv, OwnReadInv
  <2> QED
    BY <2>2, <2>3
<1> QED
  BY <1>1, <1>2, <1>3, <1>4 DEF ReadingsInv

(* A reader is refused.                                                       *)
LEMMA DenyKeeps ==
  ASSUME ReadingsInv, NEW r \in Readers, Deny(r), UNCHANGED <<host, inFlight, operation>>,
         record' \in RowRecord, record'.id = record.id, RowFollows'
  PROVE  ReadingsInv'
<1> DEFINE x == [NoRead EXCEPT !.stage = "refused"]
<1>1. x \in ReadRecord /\ x.stage = "refused"
  BY Zenon DEF NoRead, ReadRecord
<1>2. read' = [read EXCEPT ![r] = x]
  BY DEF Deny
<1> HIDE DEF x
<1>3. read'[r] = x
  BY <1>2 DEF ReadingsInv, ReadingsTyped
<1>4. ReaderInv(r)' /\ OwnReadInv(r)'
  BY <1>1, <1>3 DEF ReaderInv, OwnReadInv
<1> QED
  BY Zenon, <1>1, <1>2, <1>4, ReaderMoves

(* A reader is told what was seen.                                            *)
LEMMA TellKeeps ==
  ASSUME ReadingsInv, NEW r \in Readers, NEW seen \in Nat, NEW old \in BOOLEAN,
         Tell(r, seen, old), UNCHANGED <<host, inFlight, operation, record>>,
         r \in Lifecycles /\ ~old /\ ~read[r].joined => operation[r].turn <= seen
  PROVE  ReadingsInv'
<1> DEFINE x == IF r \in Lifecycles
                THEN [NoRead EXCEPT !.stage = "told", !.turn = seen, !.stale = old,
                                    !.joined = read[r].joined]
                ELSE [NoRead EXCEPT !.stage = "told"]
<1>0. read[r].joined \in BOOLEAN
  BY DEF ReadingsInv, ReadingsTyped, ReadRecord
<1>1. /\ x \in ReadRecord /\ x.stage = "told"
      /\ r \in Lifecycles => x.turn = seen /\ x.stale = old /\ x.joined = read[r].joined
  BY Zenon, <1>0 DEF NoRead, ReadRecord
<1>2. read' = [read EXCEPT ![r] = x]
  BY DEF Tell
<1> HIDE DEF x
<1>3. read'[r] = x
  BY <1>2 DEF ReadingsInv, ReadingsTyped
<1>4. ReaderInv(r)' /\ (r \in Lifecycles => OwnReadInv(r)')
  BY <1>1, <1>3 DEF ReaderInv, OwnReadInv
<1>5. record' \in RowRecord /\ record'.id = record.id /\ RowFollows'
  BY DEF ReadingsInv, ReadingsTyped, RowFollows
<1> QED
  BY Zenon, <1>1, <1>2, <1>4, <1>5, ReaderMoves

(* A reader is told what is stored.                                           *)
LEMMA OfflineKeeps ==
  ASSUME ReadingsInv, NEW r \in Readers, offline(r),
         UNCHANGED <<host, inFlight, operation, record>>
  PROVE  ReadingsInv'
<1>1. record' \in RowRecord /\ record'.id = record.id /\ RowFollows'
  BY DEF ReadingsInv, ReadingsTyped, RowFollows
<1>2. read[r].stored \in Nat
  BY DEF ReadingsInv, ReadingsTyped, ReadRecord
<1> QED
  BY Zenon, <1>1, <1>2, DenyKeeps, TellKeeps DEF offline

(* A round trip that is over. *)
LEMMA SettleKeeps ==
  ASSUME ReadingsInv, NEW k \in Keys, NEW ending \in {"seen", "failed", "gone"},
         NEW seen \in Nat, Settle(k, ending, seen), UNCHANGED <<host, operation>>,
         record' \in RowRecord, record'.id = record.id, RowFollows',
         ending = "gone" => host.id # 1 /\ LeftBehind(inFlight[k].id),
         ending = "seen" /\ k = "forced" =>
           \A o \in Lifecycles : read[o].stage = "waiting" /\ ~read[o].joined =>
             operation[o].turn <= seen
  PROVE  ReadingsInv'
<1>1. /\ inFlight' \in [Keys -> FlightRecord] /\ inFlight'[k].stage = "none"
      /\ \A j \in Keys : j # k => inFlight'[j] = inFlight[j]
  BY Zenon, NoReadTyped DEF Settle, ReadingsInv, ReadingsTyped
<1>2. ASSUME NEW r \in Readers
      PROVE  /\ read'[r] \in ReadRecord
             /\ KeyOf(r) = k /\ read[r].stage = "waiting" =>
                  /\ read'[r].stage = ending /\ read'[r].turn = seen
                  /\ read'[r].joined = read[r].joined /\ read'[r].id = read[r].id
             /\ ~(KeyOf(r) = k /\ read[r].stage = "waiting") => read'[r] = read[r]
  <2>1. read[r] \in ReadRecord
    BY DEF ReadingsInv, ReadingsTyped
  <2>2. read'[r] = IF KeyOf(r) = k /\ read[r].stage = "waiting"
                   THEN [read[r] EXCEPT !.stage = ending, !.turn = seen]
                   ELSE read[r]
    BY Zenon DEF Settle
  <2> QED
    BY ZenonT(60), <2>1, <2>2 DEF ReadRecord
<1>3. read' \in [Readers -> ReadRecord]
  BY Zenon, <1>2 DEF Settle
<1>4. ReadingsTyped'
  BY <1>1, <1>3 DEF ReadingsInv, ReadingsTyped
<1>5. ASSUME NEW r \in Readers PROVE ReaderInv(r)'
  <2>1. ReaderInv(r) /\ KeyOf(r) \in Keys
    BY KeysOfReaders DEF ReadingsInv
  <2>2. CASE KeyOf(r) = k /\ read[r].stage = "waiting"
    BY <1>2, <2>1, <2>2 DEF ReaderInv, LeftBehind
  <2>3. CASE ~(KeyOf(r) = k /\ read[r].stage = "waiting")
    BY <1>1, <1>2, <2>1, <2>3 DEF ReaderInv, LeftBehind
  <2> QED
    BY <2>2, <2>3
<1>6. \A j \in Keys : FlightInv(j)'
  BY <1>1 DEF ReadingsInv, FlightInv
<1>7. ASSUME NEW o \in Lifecycles PROVE OperationInv(o)'
  <2>1. OperationInv(o) /\ KeyOf(o) = "forced" /\ o \in Readers
    BY LifecyclesRead DEF ReadingsInv
  <2>2. CASE k = "forced" /\ read[o].stage = "waiting"
    BY <1>2, <2>1, <2>2 DEF OperationInv, OwnReadInv
  <2>3. CASE ~(k = "forced" /\ read[o].stage = "waiting")
    <3>1. read'[o] = read[o]
      BY <1>2, <2>1, <2>3
    <3>2. read[o].stage = "waiting" => inFlight'["forced"] = inFlight["forced"]
      BY <1>1, <2>3 DEF Keys
    <3> QED
      BY <2>1, <3>1, <3>2 DEF OperationInv, OwnReadInv
  <2> QED
    BY <2>2, <2>3
<1> QED
  BY <1>4, <1>5, <1>6, <1>7 DEF ReadingsInv

(* The host and the row move on; readers and operations do not.               *)
LEMMA HostMoves ==
  ASSUME ReadingsInv, UNCHANGED <<read, inFlight, operation>>,
         host' \in [id : Nat, turn : Nat], host.turn <= host'.turn,
         host'.id = 0 \/ (host.id # 0 /\ host.id <= host'.id),
         record' \in RowRecord, record.id <= record'.id, RowFollows'
  PROVE  ReadingsInv'
<1>1. ReadingsTyped'
  BY DEF ReadingsInv, ReadingsTyped
<1>2. record.id \in Nat /\ record'.id \in Nat /\ host.turn \in Nat /\ host'.turn \in Nat
  BY DEF ReadingsInv, ReadingsTyped, RowRecord
<1>3. 1 .. record.id \subseteq 1 .. record'.id
  BY <1>2
<1>4. ASSUME NEW r \in Readers PROVE ReaderInv(r)'
  <2>1. ReaderInv(r) /\ read[r].id \in Nat /\ host.id \in Nat /\ host'.id \in Nat
    BY DEF ReadingsInv, ReadingsTyped, ReadRecord
  <2> QED
    BY SMTT(60), <1>3, <2>1 DEF ReaderInv, LeftBehind
<1>5. \A k \in Keys : FlightInv(k)'
  BY <1>3 DEF ReadingsInv, FlightInv
<1>6. ASSUME NEW o \in Lifecycles PROVE OperationInv(o)'
  <2>1. operation[o].turn \in Nat /\ OperationInv(o)
    BY DEF ReadingsInv, ReadingsTyped, OperationRecord
  <2> QED
    BY <1>2, <2>1 DEF OperationInv, OwnReadInv
<1> QED
  BY <1>1, <1>4, <1>5, <1>6 DEF ReadingsInv

(* Operations move on by themselves, keeping what they did or dropping it.    *)
LEMMA OperationMoves ==
  ASSUME ReadingsInv, UNCHANGED <<host, record, read, inFlight>>,
         operation' \in [Lifecycles -> OperationRecord],
         \A o \in Lifecycles : operation'[o].turn \in {operation[o].turn, 0}
  PROVE  ReadingsInv'
<1>1. ReadingsTyped' /\ RowFollows'
  BY DEF ReadingsInv, ReadingsTyped, RowFollows
<1>2. (\A r \in Readers : ReaderInv(r)') /\ (\A k \in Keys : FlightInv(k)')
  BY DEF ReadingsInv, ReaderInv, FlightInv, LeftBehind
<1>3. ASSUME NEW o \in Lifecycles PROVE OperationInv(o)'
  <2>1. OperationInv(o) /\ operation'[o].turn \in {operation[o].turn, 0} /\ o \in Readers
    BY LifecyclesRead DEF ReadingsInv
  <2>2. host.turn \in Nat /\ read[o].turn \in Nat
    BY <2>1 DEF ReadingsInv, ReadingsTyped, ReadRecord
  <2>3. inFlight["forced"].turn \in Nat
    BY DEF ReadingsInv, ReadingsTyped, FlightRecord, Keys
  <2> QED
    BY <2>1, <2>2, <2>3 DEF OperationInv, OwnReadInv
<1> QED
  BY <1>1, <1>2, <1>3 DEF ReadingsInv

(* An operation is through on the host, or has stopped waiting for it, and    *)
(* begins to read.                                                            *)
LEMMA AskingKeeps ==
  ASSUME ReadingsInv, NEW o \in Lifecycles, NEW x \in OperationRecord,
         operation' = [operation EXCEPT ![o] = x], read' = Asks(o),
         UNCHANGED <<record, inFlight>>,
         host' \in [id : Nat, turn : Nat], host.turn <= host'.turn, host'.id = host.id,
         x.turn <= host'.turn
  PROVE  ReadingsInv'
<1> DEFINE y == [NoRead EXCEPT !.stage = "row"]
<1>1. y \in ReadRecord /\ y.stage = "row"
  BY Zenon DEF NoRead, ReadRecord
<1>2. read' = [read EXCEPT ![o] = y]
  BY DEF Asks
<1> HIDE DEF y
<1>3. /\ read' \in [Readers -> ReadRecord] /\ read'[o].stage = "row"
      /\ \A q \in Readers : q # o => read'[q] = read[q]
  BY <1>1, <1>2, LifecyclesRead DEF ReadingsInv, ReadingsTyped
<1>4. /\ operation' \in [Lifecycles -> OperationRecord] /\ operation'[o] = x
      /\ \A q \in Lifecycles : q # o => operation'[q] = operation[q]
  BY DEF ReadingsInv, ReadingsTyped
<1>5. ReadingsTyped' /\ RowFollows'
  BY <1>3, <1>4 DEF ReadingsInv, ReadingsTyped, RowFollows
<1>6. ASSUME NEW q \in Readers PROVE ReaderInv(q)'
  <2>1. CASE q = o
    BY <1>3, <2>1 DEF ReaderInv
  <2>2. CASE q # o
    BY <1>3, <2>2 DEF ReadingsInv, ReaderInv, LeftBehind
  <2> QED
    BY <2>1, <2>2
<1>7. \A k \in Keys : FlightInv(k)'
  BY DEF ReadingsInv, FlightInv
<1>8. ASSUME NEW q \in Lifecycles PROVE OperationInv(q)'
  <2>1. CASE q = o
    BY <1>3, <1>4, <2>1 DEF OperationInv, OwnReadInv
  <2>2. CASE q # o
    <3>1. read'[q] = read[q] /\ operation'[q] = operation[q] /\ OperationInv(q)
      BY <1>3, <1>4, <2>2, LifecyclesRead DEF ReadingsInv
    <3>2. operation[q].turn \in Nat /\ host.turn \in Nat /\ host'.turn \in Nat
      BY DEF ReadingsInv, ReadingsTyped, OperationRecord
    <3> QED
      BY <3>1, <3>2 DEF OperationInv, OwnReadInv
  <2> QED
    BY <2>1, <2>2
<1> QED
  BY <1>5, <1>6, <1>7, <1>8 DEF ReadingsInv

(* A round trip goes on. *)
LEMMA FlightMoves ==
  ASSUME ReadingsInv, NEW k \in Keys, NEW f \in FlightRecord,
         inFlight' = [inFlight EXCEPT ![k] = f],
         inFlight[k].stage # "none", f.stage # "none", f.id = inFlight[k].id,
         f.stage = "answered" => f.turn = host.turn,
         UNCHANGED <<host, record, read, operation>>
  PROVE  ReadingsInv'
<1>1. /\ inFlight' \in [Keys -> FlightRecord] /\ inFlight'[k] = f
      /\ \A j \in Keys : j # k => inFlight'[j] = inFlight[j]
  BY DEF ReadingsInv, ReadingsTyped
<1>2. ReadingsTyped' /\ RowFollows'
  BY <1>1 DEF ReadingsInv, ReadingsTyped, RowFollows
<1>3. \A j \in Keys : FlightInv(j)'
  BY <1>1 DEF ReadingsInv, FlightInv
<1>4. \A r \in Readers : ReaderInv(r)'
  BY <1>1, KeysOfReaders DEF ReadingsInv, ReaderInv, LeftBehind
<1>5. ASSUME NEW o \in Lifecycles PROVE OperationInv(o)'
  <2>1. OperationInv(o) /\ "forced" \in Keys
    BY DEF ReadingsInv, Keys
  <2>2. CASE k = "forced"
    BY <1>1, <2>1, <2>2 DEF OperationInv, OwnReadInv
  <2>3. CASE k # "forced"
    BY <1>1, <2>1, <2>3 DEF OperationInv, OwnReadInv
  <2> QED
    BY <2>2, <2>3
<1> QED
  BY <1>2, <1>3, <1>4, <1>5 DEF ReadingsInv

(* A reader joins the round trip under its key, or begins one.                *)
LEMMA CoalesceKeeps ==
  ASSUME ReadingsInv, NEW r \in Readers, coalesce(r)
  PROVE  ReadingsInv'
<1> DEFINE k == KeyOf(r)
           busy == inFlight[k].stage # "none"
           x == [read[r] EXCEPT !.stage = "waiting", !.joined = busy]
           f == [NoFlight EXCEPT !.stage = "reread", !.id = read[r].id]
<1>1. CASE ~linked
  BY <1>1, OfflineKeeps DEF coalesce
<1>2. CASE linked
  <2>1. /\ read' = [read EXCEPT ![r] = x] /\ read[r].stage = "agent"
        /\ inFlight' = IF busy THEN inFlight ELSE [inFlight EXCEPT ![k] = f]
        /\ UNCHANGED <<host, record, operation>>
    BY Zenon, <1>2 DEF coalesce
  <2>2. read[r] \in ReadRecord /\ busy \in BOOLEAN /\ k \in Keys
    BY KeysOfReaders DEF ReadingsInv, ReadingsTyped
  <2>3. x \in ReadRecord /\ x.stage = "waiting" /\ x.joined = busy /\ x.id = read[r].id
    BY Zenon, <2>2 DEF ReadRecord
  <2>4. read[r].id \in Nat /\ read[r].id \in 1 .. record.id
    BY <2>1, <2>2 DEF ReadRecord, ReadingsInv, ReaderInv
  <2>5. f \in FlightRecord /\ f.stage = "reread" /\ f.id = read[r].id
    BY Zenon, <2>4 DEF NoFlight, FlightRecord
  <2> HIDE DEF x, f
  <2>6. /\ read' \in [Readers -> ReadRecord] /\ read'[r] = x
        /\ \A q \in Readers : q # r => read'[q] = read[q]
    BY <2>1, <2>3 DEF ReadingsInv, ReadingsTyped
  <2>7. /\ inFlight' \in [Keys -> FlightRecord]
        /\ \A j \in Keys : j # k => inFlight'[j] = inFlight[j]
        /\ busy => inFlight'[k] = inFlight[k]
        /\ ~busy => inFlight'[k] = f
    BY <2>1, <2>2, <2>5 DEF ReadingsInv, ReadingsTyped
  <2>8. inFlight'[k].stage # "none"
    BY <2>5, <2>7
  <2>9. ReadingsTyped' /\ RowFollows'
    BY <2>1, <2>6, <2>7 DEF ReadingsInv, ReadingsTyped, RowFollows
  <2>10. ASSUME NEW j \in Keys PROVE FlightInv(j)'
    <3>1. FlightInv(j)
      BY DEF ReadingsInv
    <3> QED
      BY <2>1, <2>4, <2>5, <2>7, <3>1 DEF FlightInv
  <2>11. ASSUME NEW q \in Readers PROVE ReaderInv(q)'
    <3>1. ReaderInv(q) /\ KeyOf(q) \in Keys
      BY KeysOfReaders DEF ReadingsInv
    <3>2. CASE q = r
      BY <2>3, <2>5, <2>6, <2>7, <2>8, <3>2 DEF ReaderInv
    <3>3. CASE q # r
      <4>1. read'[q] = read[q]
        BY <2>6, <3>3
      <4>2. inFlight[KeyOf(q)].stage # "none" => inFlight'[KeyOf(q)] = inFlight[KeyOf(q)]
        BY <2>7, <2>8, <3>1
      <4> QED
        BY <2>1, <3>1, <4>1, <4>2 DEF ReaderInv, LeftBehind
    <3> QED
      BY <3>2, <3>3
  <2>12. ASSUME NEW o \in Lifecycles PROVE OperationInv(o)'
    <3>1. OperationInv(o) /\ KeyOf(o) = "forced" /\ o \in Readers /\ "forced" \in Keys
      BY SMTT(60), LifecyclesRead DEF ReadingsInv, Keys
    <3>2. CASE o = r
      <4>1. k = "forced"
        BY SMTT(60), <3>1, <3>2
      <4>2. read'[o].joined \/ inFlight'["forced"].stage = "reread"
        BY Zenon, <2>3, <2>5, <2>6, <2>7, <3>2, <4>1
      <4>3. read'[o].stage = "waiting"
        BY <2>3, <2>6, <3>2
      <4> QED
        BY <2>1, <3>1, <4>2, <4>3 DEF OperationInv, OwnReadInv
    <3>3. CASE o # r
      <4>1. read'[o] = read[o]
        BY <2>6, <3>1, <3>3
      <4>2. inFlight'["forced"] = inFlight["forced"] \/ inFlight'["forced"].stage = "reread"
        BY <2>5, <2>7, <3>1
      <4> QED
        BY <2>1, <3>1, <4>1, <4>2 DEF OperationInv, OwnReadInv
    <3> QED
      BY <3>2, <3>3
  <2> QED
    BY <2>9, <2>10, <2>11, <2>12 DEF ReadingsInv
<1> QED
  BY <1>1, <1>2

(* The connection goes. *)
LEMMA LinkDropsKeeps ==
  ASSUME ReadingsInv, linkDrops
  PROVE  ReadingsInv'
<1>1. ASSUME NEW k \in Keys
      PROVE  inFlight'[k] = IF inFlight[k].stage = "asked" THEN NoFlight ELSE inFlight[k]
  BY DEF linkDrops
<1>2. ASSUME NEW r \in Readers
      PROVE  /\ read'[r] \in ReadRecord
             /\ read[r].stage = "waiting" /\ inFlight[KeyOf(r)].stage = "asked" =>
                  read'[r].stage = "failed"
             /\ ~(read[r].stage = "waiting" /\ inFlight[KeyOf(r)].stage = "asked") =>
                  read'[r] = read[r]
  <2>1. read[r] \in ReadRecord
    BY DEF ReadingsInv, ReadingsTyped
  <2>2. read'[r] = IF read[r].stage = "waiting" /\ inFlight[KeyOf(r)].stage = "asked"
                   THEN [read[r] EXCEPT !.stage = "failed"] ELSE read[r]
    BY DEF linkDrops
  <2> QED
    BY <2>1, <2>2 DEF ReadRecord
<1>3. ASSUME NEW o \in Lifecycles
      PROVE  operation'[o] \in OperationRecord /\ operation'[o].turn \in {operation[o].turn, 0}
  <2>1. operation[o] \in OperationRecord
    BY DEF ReadingsInv, ReadingsTyped
  <2>2. operation'[o] = IF operation[o].stage = "sent" THEN [NoOperation EXCEPT !.stage = "over"]
                        ELSE operation[o]
    BY DEF linkDrops
  <2>3. [NoOperation EXCEPT !.stage = "over"] \in OperationRecord
        /\ [NoOperation EXCEPT !.stage = "over"].turn = 0
    BY DEF NoOperation, OperationRecord
  <2> QED
    BY Zenon, <2>1, <2>2, <2>3
<1>4. /\ inFlight' \in [Keys -> FlightRecord] /\ read' \in [Readers -> ReadRecord]
      /\ operation' \in [Lifecycles -> OperationRecord] /\ UNCHANGED <<host, record>>
  <2>1. \A k \in Keys : inFlight'[k] \in FlightRecord
    BY <1>1, NoReadTyped DEF ReadingsInv, ReadingsTyped
  <2> QED
    BY <2>1, <1>2, <1>3 DEF linkDrops
<1>5. ReadingsTyped' /\ RowFollows'
  BY <1>4 DEF ReadingsInv, ReadingsTyped, RowFollows
<1>6. \A k \in Keys : FlightInv(k)'
  BY <1>1, <1>4, NoReadTyped DEF ReadingsInv, FlightInv
<1>7. ASSUME NEW r \in Readers PROVE ReaderInv(r)'
  <2>1. ReaderInv(r) /\ KeyOf(r) \in Keys
    BY KeysOfReaders DEF ReadingsInv
  <2>2. CASE read[r].stage = "waiting" /\ inFlight[KeyOf(r)].stage = "asked"
    BY SMTT(60), <1>2, <2>2 DEF ReaderInv
  <2>3. CASE ~(read[r].stage = "waiting" /\ inFlight[KeyOf(r)].stage = "asked")
    BY <1>1, <1>2, <1>4, <2>1, <2>3 DEF ReaderInv, LeftBehind
  <2> QED
    BY <2>2, <2>3
<1>8. ASSUME NEW o \in Lifecycles PROVE OperationInv(o)'
  <2>1. OperationInv(o) /\ KeyOf(o) = "forced" /\ o \in Readers /\ "forced" \in Keys
    BY LifecyclesRead DEF ReadingsInv, Keys
  <2>2. operation'[o].turn \in {operation[o].turn, 0}
    BY <1>3
  <2>3. host.turn \in Nat /\ read[o].turn \in Nat /\ inFlight["forced"].turn \in Nat
    BY <2>1 DEF ReadingsInv, ReadingsTyped, ReadRecord, FlightRecord
  <2>4. inFlight'["forced"] = inFlight["forced"] \/ inFlight'["forced"].stage = "none"
    BY <1>1, <2>1, NoReadTyped
  <2>5. read'[o] = read[o] \/ read'[o].stage = "failed"
    BY <1>2, <2>1
  <2>6. operation'[o].turn <= host'.turn
    BY SMTT(60), <1>4, <2>1, <2>2, <2>3 DEF OperationInv
  <2>7. OwnReadInv(o)'
    BY <2>1, <2>2, <2>3, <2>4, <2>5 DEF OperationInv, OwnReadInv
  <2> QED
    BY <2>6, <2>7 DEF OperationInv
<1> QED
  BY <1>5, <1>6, <1>7, <1>8 DEF ReadingsInv

(* The steps of a reader. *)
LEMMA ReadingStep ==
  ASSUME ReadingsInv, NEW r \in Readers, openPage(r) \/ Reading(r)
  PROVE  ReadingsInv'
<1>a. ReadingsTyped /\ RowFollows /\ ReaderInv(r) /\ read[r] \in ReadRecord
  BY DEF ReadingsInv, ReadingsTyped
<1>b. /\ record.id \in Nat /\ record.seen \in Nat /\ record.there \in BOOLEAN
      /\ read[r].turn \in Nat
  BY <1>a DEF ReadingsTyped, RowRecord, ReadRecord
<1>c. UNCHANGED <<host, record>> => record' \in RowRecord /\ record'.id = record.id /\ RowFollows'
  BY <1>a DEF ReadingsTyped, RowFollows
<1>1. CASE openPage(r)
  <2> DEFINE x == [NoRead EXCEPT !.stage = "row"]
  <2>1. x \in ReadRecord /\ x.stage = "row"
    BY Zenon DEF NoRead, ReadRecord
  <2>2. /\ read' = [read EXCEPT ![r] = x] /\ UNCHANGED <<host, inFlight, operation, record>>
        /\ r \notin Lifecycles
    BY <1>1, ReadingsAssumption DEF openPage, Asks
  <2> HIDE DEF x
  <2>3. ReaderInv(r)'
    BY <1>a, <2>1, <2>2 DEF ReaderInv, ReadingsTyped
  <2> QED
    BY Zenon, <1>c, <2>1, <2>2, <2>3, ReaderMoves
<1>2. CASE readRow(r)
  <2> DEFINE x == [NoRead EXCEPT !.stage = "agent", !.id = record.id, !.stored = record.seen]
  <2>0. UNCHANGED <<host, inFlight, operation, record>>
    BY <1>2 DEF readRow
  <2>1. CASE Deny(r)
    BY <1>c, <2>0, <2>1, DenyKeeps
  <2>2. CASE r \in Pages /\ Tell(r, record.seen, FALSE)
    BY Zenon, <1>b, <2>0, <2>2, TellKeeps, LifecyclesRead
  <2>3. CASE read' = [read EXCEPT ![r] = x]
    <3>1. x \in ReadRecord /\ x.stage = "agent" /\ x.id = record.id
      BY Zenon, <1>b DEF NoRead, ReadRecord
    <3> HIDE DEF x
    <3>2. read'[r] = x
      BY <1>a, <2>3 DEF ReadingsTyped
    <3>3. record.id \in 1 .. record.id
      BY <1>a, <1>b DEF RowFollows
    <3>4. ReaderInv(r)' /\ OwnReadInv(r)'
      BY <2>0, <3>1, <3>2, <3>3 DEF ReaderInv, OwnReadInv
    <3> QED
      BY Zenon, <1>c, <2>0, <2>3, <3>1, <3>4, ReaderMoves
  <2> QED
    BY Zenon, <1>2, <2>1, <2>2, <2>3 DEF readRow
<1>3. CASE coalesce(r)
  BY <1>3, CoalesceKeeps
<1>4. CASE answerRead(r)
  <2>0. UNCHANGED <<host, inFlight, operation>>
    BY <1>4 DEF answerRead
  <2>1. CASE read[r].stage = "seen"
    <3>1. Tell(r, read[r].turn, FALSE) /\ UNCHANGED record
      BY Zenon, <1>4, <2>1 DEF answerRead, Finalises
    <3>2. r \in Lifecycles /\ ~read[r].joined => operation[r].turn <= read[r].turn
      BY <2>1 DEF ReadingsInv, OperationInv, OwnReadInv
    <3> QED
      BY Zenon, <1>b, <2>0, <3>1, <3>2, TellKeeps
  <2>2. CASE read[r].stage = "failed"
    <3>1. offline(r) /\ UNCHANGED record
      BY <1>4, <2>2 DEF answerRead, Finalises
    <3> QED
      BY <2>0, <3>1, OfflineKeeps
  <2>3. CASE read[r].stage = "gone"
    <3>1. Deny(r) /\ record' = [record EXCEPT !.there = FALSE]
      BY <1>4, <2>3 DEF answerRead, Finalises
    <3>2. record' \in RowRecord /\ record'.id = record.id
      BY Zenon, <1>a, <3>1 DEF ReadingsTyped, RowRecord
    <3>3. host.id # 1
      BY <1>a, <2>3 DEF ReaderInv
    <3>4. RowFollows'
      BY <1>a, <2>0, <3>2, <3>3 DEF RowFollows
    <3> QED
      BY Zenon, <2>0, <3>1, <3>2, <3>4, DenyKeeps
  <2> QED
    BY <1>4, <2>1, <2>2, <2>3 DEF answerRead
<1> QED
  BY Zenon, <1>1, <1>2, <1>3, <1>4 DEF Reading

(* The steps of a round trip. *)
LEMMA RoundTripStep ==
  ASSUME ReadingsInv, NEW k \in Keys, RoundTrip(k)
  PROVE  ReadingsInv'
<1>a. ReadingsTyped /\ RowFollows /\ FlightInv(k) /\ inFlight[k] \in FlightRecord
  BY DEF ReadingsInv, ReadingsTyped
<1>b. /\ record.id \in Nat /\ record.seen \in Nat /\ host.id \in Nat /\ host.turn \in Nat
      /\ inFlight[k].turn \in Nat
  BY <1>a DEF ReadingsTyped, RowRecord, FlightRecord
<1>c. UNCHANGED <<host, record>> => record' \in RowRecord /\ record'.id = record.id /\ RowFollows'
  BY <1>a DEF ReadingsTyped, RowFollows
<1>1. CASE reread(k)
  <2>0. UNCHANGED <<host, record, operation>>
    BY <1>1 DEF reread
  <2>1. CASE k = "plain" /\ Settle(k, "seen", record.seen)
    BY <1>b, <1>c, <2>0, <2>1, SettleKeeps
  <2>2. CASE Settle(k, "failed", 0)
    BY <1>c, <2>0, <2>2, SettleKeeps
  <2>3. CASE inFlight' = [inFlight EXCEPT ![k].stage = "asked"] /\ UNCHANGED read
    <3> DEFINE f == [inFlight[k] EXCEPT !.stage = "asked"]
    <3>1. f \in FlightRecord /\ f.stage = "asked" /\ f.id = inFlight[k].id
      BY <1>a DEF FlightRecord
    <3>2. inFlight' = [inFlight EXCEPT ![k] = f] /\ inFlight[k].stage = "reread"
      BY <1>1, <2>3 DEF reread
    <3> HIDE DEF f
    <3> QED
      BY Zenon, <2>0, <2>3, <3>1, <3>2, FlightMoves
  <2> QED
    BY Zenon, <1>1, <2>1, <2>2, <2>3 DEF reread
<1>2. CASE inspect(k)
  <2>0. UNCHANGED <<host, record, operation>> /\ inFlight[k].stage = "asked"
    BY <1>2 DEF inspect
  <2>1. CASE host.id = inFlight[k].id
    <3> DEFINE f == [inFlight[k] EXCEPT !.stage = "answered", !.turn = host.turn]
    <3>1. f \in FlightRecord /\ f.stage = "answered" /\ f.id = inFlight[k].id /\ f.turn = host.turn
      BY Zenon, <1>a, <1>b DEF FlightRecord
    <3>2. inFlight' = [inFlight EXCEPT ![k] = f] /\ UNCHANGED read
      BY Zenon, <1>2, <2>1 DEF inspect
    <3> HIDE DEF f
    <3> QED
      BY Zenon, <2>0, <3>1, <3>2, FlightMoves
  <2>2. CASE host.id # inFlight[k].id
    <3>1. Settle(k, "gone", 0)
      BY <1>2, <2>2 DEF inspect
    <3>2. inFlight[k].id \in 1 .. record.id
      BY <1>a, <2>0 DEF FlightInv
    <3>3. host.id # 1 /\ LeftBehind(inFlight[k].id)
      BY SMTT(60), <1>a, <1>b, <2>2, <3>2 DEF RowFollows, LeftBehind
    <3> QED
      BY <1>c, <2>0, <3>1, <3>3, SettleKeeps
  <2> QED
    BY <2>1, <2>2
<1>3. CASE inspectFails(k)
  BY SMTT(60), <1>c, <1>3, SettleKeeps DEF inspectFails
<1>4. CASE storeDetail(k)
  <2>0. /\ UNCHANGED <<host, operation>> /\ inFlight[k].stage = "answered"
        /\ Settle(k, "seen", inFlight[k].turn)
    BY SMTT(60), <1>4 DEF storeDetail
  <2>1. record' \in RowRecord /\ record'.id = record.id /\ record'.there = record.there
    <3>1. CASE record.there
      <4>1. record' = [record EXCEPT !.seen = inFlight[k].turn, !.fresh = TRUE]
        BY <1>4, <3>1 DEF storeDetail
      <4> QED
        BY Zenon, <1>a, <1>b, <4>1 DEF ReadingsTyped, RowRecord
    <3>2. CASE ~record.there
      BY <1>a, <1>4, <3>2 DEF storeDetail, ReadingsTyped
    <3> QED
      BY <3>1, <3>2
  <2>2. RowFollows'
    BY <1>a, <2>0, <2>1 DEF RowFollows
  <2>3. k = "forced" => \A o \in Lifecycles : read[o].stage = "waiting" /\ ~read[o].joined =>
                          operation[o].turn <= inFlight[k].turn
    BY <2>0 DEF ReadingsInv, OperationInv, OwnReadInv
  <2> QED
    BY <1>b, <2>0, <2>1, <2>2, <2>3, SettleKeeps
<1> QED
  BY Zenon, <1>1, <1>2, <1>3, <1>4 DEF RoundTrip

(* The steps of an operation. *)
LEMMA OperatingStep ==
  ASSUME ReadingsInv, NEW o \in Lifecycles, resolveTarget(o) \/ Operating(o)
  PROVE  ReadingsInv'
<1>a. ReadingsTyped /\ operation[o] \in OperationRecord
  BY DEF ReadingsInv, ReadingsTyped
<1>b. record.id \in Nat /\ host.id \in Nat /\ host.turn \in Nat /\ operation[o].turn \in Nat
  BY <1>a DEF ReadingsTyped, RowRecord, OperationRecord
<1>c. operation[o].turn <= host.turn
  BY DEF ReadingsInv, OperationInv
<1>d. ASSUME NEW x \in OperationRecord, operation' = [operation EXCEPT ![o] = x],
             x.turn \in {operation[o].turn, 0}, UNCHANGED <<host, record, read, inFlight>>
      PROVE  ReadingsInv'
  <2>1. operation' \in [Lifecycles -> OperationRecord]
    BY <1>a, <1>d DEF ReadingsTyped
  <2>2. \A q \in Lifecycles : operation'[q].turn \in {operation[q].turn, 0}
    BY <1>a, <1>d DEF ReadingsTyped
  <2> QED
    BY <1>d, <2>1, <2>2, OperationMoves
<1>e. ASSUME Fails(o), UNCHANGED <<host, record, read, inFlight>> PROVE ReadingsInv'
  <2> DEFINE x == [NoOperation EXCEPT !.stage = "over"]
  <2>1. x \in OperationRecord /\ x.turn = 0
    BY DEF NoOperation, OperationRecord
  <2>2. operation' = [operation EXCEPT ![o] = x]
    BY <1>e DEF Fails
  <2> HIDE DEF x
  <2> QED
    BY Zenon, <1>d, <1>e, <2>1, <2>2
<1>f. ASSUME NEW turn \in Nat
      PROVE  LET x == [operation[o] EXCEPT !.stage = "reconcile", !.turn = turn]
             IN  x \in OperationRecord /\ x.turn = turn
  BY Zenon, <1>a DEF OperationRecord
<1>g. ASSUME NEW st \in {"resolved", "sent", "reconcile", "over"}
      PROVE  LET x == [operation[o] EXCEPT !.stage = st]
             IN  x \in OperationRecord /\ x.turn = operation[o].turn
  BY <1>a DEF OperationRecord
<1>1. CASE resolveTarget(o)
  <2> DEFINE x == [operation[o] EXCEPT !.stage = "resolved", !.id = record.id]
  <2>1. x \in OperationRecord /\ x.turn = operation[o].turn
    BY Zenon, <1>a, <1>b DEF OperationRecord
  <2>2. operation' = [operation EXCEPT ![o] = x] /\ UNCHANGED <<host, record, read, inFlight>>
    BY Zenon, <1>1 DEF resolveTarget
  <2> HIDE DEF x
  <2> QED
    BY Zenon, <1>d, <2>1, <2>2
<1>2. CASE acquire(o)
  <2>1. CASE Fails(o)
    BY <1>2, <1>e, <2>1 DEF acquire
  <2>2. CASE ~Fails(o)
    <3> DEFINE x == [operation[o] EXCEPT !.stage = "sent"]
    <3>1. operation' = [operation EXCEPT ![o] = x] /\ UNCHANGED <<host, record, read, inFlight>>
      BY <1>2, <2>2 DEF acquire
    <3>2. x \in OperationRecord /\ x.turn = operation[o].turn
      BY <1>g
    <3> HIDE DEF x
    <3> QED
      BY Zenon, <1>d, <3>1, <3>2
  <2> QED
    BY <2>1, <2>2
<1>3. CASE perform(o)
  <2>1. CASE host.id = operation[o].id
    <3> DEFINE x == [operation[o] EXCEPT !.stage = "reconcile", !.turn = host.turn + 1]
    <3>1. /\ operation' = [operation EXCEPT ![o] = x] /\ read' = Asks(o)
          /\ host' = [host EXCEPT !.turn = @ + 1] /\ UNCHANGED <<record, inFlight>>
      BY Zenon, <1>3, <2>1 DEF perform
    <3>2. x \in OperationRecord /\ x.turn = host.turn + 1
      <4>1. host.turn + 1 \in Nat
        BY <1>b
      <4> QED
        BY Zenon, <1>f, <4>1
    <3>3. host' \in [id : Nat, turn : Nat] /\ host'.turn = host.turn + 1 /\ host'.id = host.id
      BY <1>a, <1>b, <3>1 DEF ReadingsTyped
    <3> HIDE DEF x
    <3>4. host.turn <= host'.turn /\ x.turn <= host'.turn
      BY <1>b, <3>2, <3>3
    <3> QED
      BY Zenon, <3>1, <3>2, <3>3, <3>4, AskingKeeps
  <2>2. CASE host.id # operation[o].id
    BY <1>3, <1>e, <2>2 DEF perform
  <2> QED
    BY <2>1, <2>2
<1>4. CASE timesOut(o)
  <2> DEFINE x == [operation[o] EXCEPT !.stage = "reconcile"]
  <2>1. /\ operation' = [operation EXCEPT ![o] = x] /\ read' = Asks(o)
        /\ UNCHANGED <<host, record, inFlight>>
    BY <1>4 DEF timesOut
  <2>2. x \in OperationRecord /\ x.turn = operation[o].turn
    BY <1>g
  <2>3. host' \in [id : Nat, turn : Nat] /\ host.turn <= host'.turn /\ host'.id = host.id
    BY <1>a, <1>b, <2>1 DEF ReadingsTyped
  <2> HIDE DEF x
  <2>4. x.turn <= host'.turn
    BY <1>c, <2>1, <2>2
  <2> QED
    BY Zenon, <2>1, <2>2, <2>3, <2>4, AskingKeeps
<1>5. CASE reconcile(o)
  <2> DEFINE x == [operation[o] EXCEPT !.stage = "over"]
  <2>1. operation' = [operation EXCEPT ![o] = x] /\ UNCHANGED <<host, record, read, inFlight>>
    BY <1>5 DEF reconcile
  <2>2. x \in OperationRecord /\ x.turn = operation[o].turn
    BY <1>g
  <2> HIDE DEF x
  <2> QED
    BY Zenon, <1>d, <2>1, <2>2
<1> QED
  BY Zenon, <1>1, <1>2, <1>3, <1>4, <1>5 DEF Operating

(* No step of a reader, a round trip, an operation, a replacement, the host   *)
(* or the connection breaks the invariant.                                    *)
LEMMA ReadingsStep == ReadingsInv /\ [ReadingsNext]_readingVars => ReadingsInv'
<1> SUFFICES ASSUME ReadingsInv, [ReadingsNext]_readingVars PROVE ReadingsInv'
  OBVIOUS
<1>a. ReadingsTyped /\ RowFollows
  BY DEF ReadingsInv
<1>b. /\ record.id \in Nat /\ host.id \in Nat /\ host.turn \in Nat
      /\ host \in [id : Nat, turn : Nat] /\ record \in RowRecord
  BY <1>a DEF ReadingsTyped, RowRecord
<1>c. ASSUME UNCHANGED <<host, record, read, inFlight, operation>> PROVE ReadingsInv'
  <2>1. RowFollows' /\ host.turn <= host'.turn /\ record.id <= record'.id
    BY <1>a, <1>b, <1>c DEF RowFollows
  <2> QED
    BY <1>b, <1>c, <2>1, HostMoves
<1>d. ASSUME NEW id \in Nat, host' = [id |-> id, turn |-> host.turn + 1],
             id = 0 \/ id = host.id \/ (host.id # 0 /\ id = host.id + 1),
             UNCHANGED <<record, read, inFlight, operation>>
      PROVE  ReadingsInv'
  <2>1. /\ host' \in [id : Nat, turn : Nat] /\ host'.id = id /\ host.turn <= host'.turn
    BY <1>b, <1>d
  <2>2. host'.id = 0 \/ (host.id # 0 /\ host.id <= host'.id)
    BY <1>b, <1>d, <2>1
  <2>3. RowFollows' /\ record.id <= record'.id
    BY <1>a, <1>b, <1>d, <2>1, <2>2 DEF RowFollows
  <2> QED
    BY <1>b, <1>d, <2>1, <2>2, <2>3, HostMoves
<1>1. ASSUME replace \/ linkReturns \/ UNCHANGED readingVars PROVE ReadingsInv'
  BY Zenon, <1>1, <1>c DEF replace, linkReturns, readingVars
<1>2. ASSUME swap PROVE ReadingsInv'
  <2>1. CASE UNCHANGED host
    BY <1>2, <1>c, <2>1 DEF swap
  <2>2. CASE host.id # 0 /\ host' = [id |-> host.id + 1, turn |-> host.turn + 1]
    <3>1. host.id + 1 \in Nat
      BY <1>b
    <3> QED
      BY <1>2, <1>d, <2>2, <3>1 DEF swap
  <2> QED
    BY Zenon, <1>2, <2>1, <2>2 DEF swap
<1>3. ASSUME hostTurns PROVE ReadingsInv'
  <2>1. PICK id \in {0, host.id} : host' = [id |-> id, turn |-> host.turn + 1]
    BY <1>3 DEF hostTurns
  <2> QED
    BY <1>3, <1>b, <1>d, <2>1 DEF hostTurns
<1>4. ASSUME recordReplaced PROVE ReadingsInv'
  <2>0. UNCHANGED <<host, read, inFlight, operation>>
    BY <1>4 DEF recordReplaced
  <2>1. CASE record.there /\ host.id # 0
    <3>1. record' = [record EXCEPT !.id = host.id]
      BY <1>4, <2>1 DEF recordReplaced
    <3>2. record' \in RowRecord /\ record'.id = host.id /\ record'.there = record.there
      BY <1>b, <3>1 DEF RowRecord
    <3>3. RowFollows' /\ record.id <= record'.id /\ host.turn <= host'.turn
      BY <1>a, <1>b, <2>0, <2>1, <3>2 DEF RowFollows
    <3> QED
      BY <1>b, <2>0, <3>2, <3>3, HostMoves
  <2>2. CASE ~(record.there /\ host.id # 0)
    BY <1>4, <1>c, <2>2 DEF recordReplaced
  <2> QED
    BY <2>1, <2>2
<1>5. ASSUME ages PROVE ReadingsInv'
  <2>1. record' = [record EXCEPT !.fresh = FALSE] /\ UNCHANGED <<host, read, inFlight, operation>>
    BY <1>5 DEF ages
  <2>2. record' \in RowRecord /\ record'.id = record.id /\ record'.there = record.there
    BY Zenon, <1>b, <2>1 DEF RowRecord
  <2>3. RowFollows' /\ record.id <= record'.id /\ host.turn <= host'.turn
    BY <1>a, <1>b, <2>1, <2>2 DEF RowFollows
  <2> QED
    BY <1>b, <2>1, <2>2, <2>3, HostMoves
<1> QED
  BY Zenon, <1>1, <1>2, <1>3, <1>4, <1>5, ReadingStep, RoundTripStep, OperatingStep, LinkDropsKeeps
  DEF ReadingsNext

(* For any number of pages, operations and stack reads, and however the host  *)
(* changes and the connection is lost: an operation reports an older          *)
(* observation than what it did only if the second read failed or joined a    *)
(* round trip, a host that cannot be asked costs no record, a record is given *)
(* up on the host's word about the identifier it had unless a round trip was  *)
(* joined, and whoever waits has one to wait for (reconcile, containerDetail  *)
(* and its catch, coalesce).                                                  *)
THEOREM ReadingsHold == ReadingsSpec => []ReadingsAreExplained
<1>1. ReadingsInit => ReadingsInv
  <2> SUFFICES ASSUME ReadingsInit PROVE ReadingsInv
    OBVIOUS
  <2>1. /\ \A r \in Readers : read[r] = NoRead
        /\ \A k \in Keys : inFlight[k] = NoFlight
        /\ \A o \in Lifecycles : operation[o] = NoOperation
    BY DEF ReadingsInit
  <2>2. ReadingsTyped
    BY NoReadTyped DEF ReadingsInit, ReadingsTyped, RowRecord
  <2>3. RowFollows
    BY DEF ReadingsInit, RowFollows
  <2>4. (\A r \in Readers : ReaderInv(r)) /\ (\A k \in Keys : FlightInv(k))
    BY <2>1, NoReadTyped DEF ReaderInv, FlightInv
  <2>5. host.turn = 1
    BY DEF ReadingsInit
  <2>6. \A o \in Lifecycles : OperationInv(o)
    BY <2>1, <2>5, NoReadTyped, LifecyclesRead DEF OperationInv, OwnReadInv
  <2> QED
    BY <2>2, <2>3, <2>4, <2>6 DEF ReadingsInv
<1>2. ASSUME ReadingsInv PROVE OldOutcomeIsExplained
  <2> SUFFICES ASSUME NEW o \in Lifecycles, Reported(o), read[o].turn < operation[o].turn
               PROVE  read[o].stale \/ read[o].joined
    BY DEF OldOutcomeIsExplained
  <2>1. OwnReadInv(o) /\ read[o].turn \in Nat /\ operation[o].turn \in Nat
    BY SMTT(60), <1>2, LifecyclesRead DEF ReadingsInv, ReadingsTyped, ReadRecord, OperationRecord, OperationInv
  <2> QED
    BY <2>1 DEF OwnReadInv, Reported
<1>3. ASSUME ReadingsInv PROVE UnreachableKeepsRecord /\ WaitersHaveARoundTrip
  BY <1>3, KeysOfReaders
  DEF ReadingsInv, RowFollows, ReaderInv, FlightInv, UnreachableKeepsRecord, WaitersHaveARoundTrip
<1>4. ASSUME ReadingsInv PROVE GoneIsGone
  <2>1. ASSUME NEW r \in Readers PROVE read[r].id \in Nat /\ host.id \in Nat /\ ReaderInv(r)
    BY <1>4 DEF ReadingsInv, ReadingsTyped, ReadRecord
  <2> QED
    BY <2>1 DEF GoneIsGone, ReaderInv, LeftBehind
<1>5. ReadingsInv => ReadingsAreExplained
  BY <1>2, <1>3, <1>4 DEF ReadingsAreExplained
<1> QED
  BY <1>1, <1>5, ReadingsStep, PTL DEF ReadingsSpec

-----------------------------------------------------------------------------
(*****************************************************************************)
(* RELEASE CHECKS. For any number of pages, any lifetimes and any course of  *)
(* time.                                                                     *)
(*****************************************************************************)

(* What a page can be told, and the state typed.                              *)
Tellings == {"nothing", "waiting", "disabled", "unavailable", "unknown", "unsupported", "ok",
             "ok, stale", "unsupported, stale"}

ChecksTyped ==
  /\ clock \in Nat
  /\ lastGood \in [at : Nat \cup {Never}, named : BOOLEAN]
  /\ failedAt \in Nat \cup {Never} /\ lastEnd \in Nat \cup {Never}
  /\ shown \in [Settings -> Tellings]

(* What was told before the listing was read, or could not be. *)
Unhelpful == {"nothing", "waiting", "disabled", "unavailable"}

(* The last request that ended left its mark, and what a page was told of the *)
(* listing was read from it.                                                  *)
ChecksInv ==
  /\ ChecksTyped
  /\ lastEnd # Never => lastGood.at = lastEnd \/ failedAt = lastEnd
  /\ \A p \in Settings : shown[p] \notin Unhelpful => lastGood.at # Never

(* What is known is described as unavailable only while nothing was ever      *)
(* read.                                                                      *)
LEMMA Described ==
  /\ describe \in Tellings
  /\ lastGood.at # Never => describe # "unavailable"
  /\ lastGood.at = Never /\ failedAt # Never => describe = "unavailable"
  BY DEF describe, Tellings

(* The same after a step.                                                     *)
LEMMA DescribedNext ==
  /\ describe' \in Tellings
  /\ lastGood'.at # Never => describe' # "unavailable"
  /\ lastGood'.at = Never /\ failedAt' # Never => describe' = "unavailable"
  BY DEF describe, Tellings

(* What ChecksAreSparing says of a step.                                      *)
Sparing ==
  /\ ~checkOn /\ checkOn' =>
       enabled /\ (lastEnd # Never => \/ clock - lastEnd >= FailureTtl
                                      \/ clock - lastEnd >= SuccessTtl)
  /\ (\E p \in Settings : shown[p] \notin {"nothing", "waiting", "disabled", "unavailable"})
       => \A p \in Settings : shown'[p] = "unavailable" => shown[p] = "unavailable"

(* No page, tick or end of a request breaks the invariant, and each is        *)
(* sparing.                                                                   *)
LEMMA ChecksStep ==
  ASSUME ChecksInv, [ReleaseChecksNext]_checkVars
  PROVE  ChecksInv' /\ Sparing
<1>a. ChecksTyped /\ SuccessTtl \in Nat /\ FailureTtl \in Nat
  BY ReleaseChecksAssumption DEF ChecksInv
<1>b. (\E p \in Settings : shown[p] \notin Unhelpful) => lastGood.at # Never
  BY DEF ChecksInv
<1>1. ASSUME NEW p \in Settings, status(p) PROVE ChecksInv' /\ Sparing
  <2>0. UNCHANGED <<enabled, clock, lastGood, failedAt, lastEnd>>
    BY <1>1 DEF status
  <2>1. PICK told \in Tellings :
          /\ shown' = [shown EXCEPT ![p] = told]
          /\ told \notin Unhelpful => lastGood.at # Never
          /\ told = "unavailable" => lastGood.at = Never
    <3>1. CASE shown' = [shown EXCEPT ![p] = "disabled"]
      BY <3>1 DEF Unhelpful, Tellings
    <3>2. CASE ~shouldCheck /\ shown' = [shown EXCEPT ![p] = describe]
      <4>1. lastGood.at # Never \/ failedAt # Never
        BY <3>2 DEF shouldCheck
      <4> QED
        BY Zenon, <3>2, <4>1, Described DEF Unhelpful
    <3>3. CASE shown' = [shown EXCEPT ![p] = "waiting"]
      BY <3>3 DEF Unhelpful, Tellings
    <3> QED
      BY <1>1, <3>1, <3>2, <3>3 DEF status
  <2>2. /\ shown' \in [Settings -> Tellings] /\ shown'[p] = told
        /\ \A q \in Settings : q # p => shown'[q] = shown[q]
    BY <1>a, <2>1 DEF ChecksTyped
  <2>3. ChecksInv'
    BY <2>0, <2>1, <2>2 DEF ChecksInv, ChecksTyped
  <2>4. ~checkOn /\ checkOn' => enabled /\ shouldCheck
    BY Zenon, <1>1 DEF status
  <2>5. shouldCheck /\ lastEnd # Never =>
          clock - lastEnd >= FailureTtl \/ clock - lastEnd >= SuccessTtl
    <3>1. lastEnd \in Nat \cup {Never} /\ clock \in Nat
      BY <1>a DEF ChecksTyped
    <3> QED
      BY <1>a, <3>1 DEF ChecksInv, shouldCheck
  <2>6. (\E q \in Settings : shown[q] \notin Unhelpful)
          => \A q \in Settings : shown'[q] = "unavailable" => shown[q] = "unavailable"
    BY <1>b, <2>1, <2>2
  <2> QED
    BY <2>3, <2>4, <2>5, <2>6 DEF Sparing, Unhelpful
<1>2. ASSUME Checked PROVE ChecksInv' /\ Sparing
  <2>1. /\ lastEnd' = clock /\ ~checkOn' /\ clock' = clock
        /\ \/ lastGood' = lastGood /\ failedAt' = clock
           \/ \E named \in BOOLEAN : lastGood' = [at |-> clock, named |-> named] /\ failedAt' = Never
    BY <1>2 DEF Checked, checkFails, latestStable, Outcome
  <2>2. /\ lastGood' \in [at : Nat \cup {Never}, named : BOOLEAN]
        /\ lastGood.at # Never => lastGood'.at # Never
        /\ failedAt' \in Nat \cup {Never} /\ (lastGood'.at # Never \/ failedAt' # Never)
        /\ lastGood'.at = clock \/ failedAt' = clock
    <3>1. clock \in Nat /\ clock # Never
      BY <1>a DEF ChecksTyped, Never
    <3>2. CASE lastGood' = lastGood /\ failedAt' = clock
      BY <1>a, <3>1, <3>2 DEF ChecksTyped
    <3>3. ASSUME NEW named \in BOOLEAN, lastGood' = [at |-> clock, named |-> named],
                 failedAt' = Never
          PROVE  <2>2!1 /\ <2>2!2 /\ <2>2!3 /\ <2>2!4
      BY <3>1, <3>3
    <3> QED
      BY <2>1, <3>2, <3>3
  <2>3. ASSUME NEW p \in Settings
        PROVE  shown'[p] = IF shown[p] = "waiting" THEN describe' ELSE shown[p]
    BY <1>2 DEF Checked
  <2>4. shown' \in [Settings -> Tellings]
    BY <1>2, <1>a, DescribedNext DEF Checked, ChecksTyped
  <2>5. ASSUME NEW p \in Settings, shown'[p] \notin Unhelpful PROVE lastGood'.at # Never
    <3>1. CASE shown[p] = "waiting"
      BY <2>2, <2>3, <2>5, <3>1, DescribedNext DEF Unhelpful
    <3>2. CASE shown[p] # "waiting"
      BY SMTT(60), <1>b, <2>2, <2>3, <2>5, <3>2
    <3> QED
      BY <3>1, <3>2
  <2>6. ChecksInv'
    BY SMTT(60), <1>a, <2>1, <2>2, <2>4, <2>5 DEF ChecksInv, ChecksTyped
  <2>7. (\E q \in Settings : shown[q] \notin Unhelpful)
          => \A q \in Settings : shown'[q] = "unavailable" => shown[q] = "unavailable"
    BY SMTT(60), <1>b, <2>2, <2>3, DescribedNext
  <2> QED
    BY <2>1, <2>6, <2>7 DEF Sparing, Unhelpful
<1>3. ASSUME tick PROVE ChecksInv' /\ Sparing
  <2>1. clock' = clock + 1 /\ UNCHANGED <<lastGood, failedAt, checkOn, lastEnd, shown>>
    BY SMTT(60), <1>3 DEF tick
  <2> QED
    BY <1>a, <2>1 DEF ChecksInv, ChecksTyped, Sparing
<1>4. ASSUME UNCHANGED checkVars PROVE ChecksInv' /\ Sparing
  BY <1>a, <1>4 DEF checkVars, ChecksInv, ChecksTyped, Sparing
<1> QED
  BY Zenon, <1>1, <1>2, <1>3, <1>4 DEF ReleaseChecksNext

(* For any number of pages and any lifetimes: the listing is not asked while  *)
(* the check is off, nor before the shorter lifetime has passed since the     *)
(* last request ended, and once a page was told what the listing named none   *)
(* is told that it could not be reached (shouldCheck, check, run and its      *)
(* catch, describe).                                                          *)
THEOREM ChecksHold == ReleaseChecksSpec => ChecksAreSparing
<1>1. ReleaseChecksInit => ChecksInv
  <2> SUFFICES ASSUME ReleaseChecksInit PROVE ChecksInv
    OBVIOUS
  <2>1. /\ clock = 0 /\ lastGood = [at |-> Never, named |-> FALSE]
        /\ failedAt = Never /\ lastEnd = Never /\ shown = [p \in Settings |-> "nothing"]
    BY Zenon DEF ReleaseChecksInit
  <2> QED
    BY <2>1 DEF ChecksInv, ChecksTyped, Unhelpful, Tellings
<1>2. ChecksInv /\ [ReleaseChecksNext]_checkVars => ChecksInv'
  BY ChecksStep
<1>3. ChecksInv /\ [ReleaseChecksNext]_checkVars => [Sparing]_checkVars
  BY ChecksStep
<1>4. ReleaseChecksSpec => [][Sparing]_checkVars
  BY <1>1, <1>2, <1>3, PTL DEF ReleaseChecksSpec
<1> QED
  BY <1>4 DEF Sparing, ChecksAreSparing
=============================================================================
