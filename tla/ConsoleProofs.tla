---------------------------- MODULE ConsoleProofs ---------------------------
(*****************************************************************************)
(* What operators ask for from the console: the definitions of stacks and    *)
(* the archiving of a host, for any number of pages, stacks, revisions and   *)
(* requests.                                                                 *)
(*****************************************************************************)
EXTENDS StackDefinitions, HostArchive, FiniteSetTheorems, TLAPS

-----------------------------------------------------------------------------
(*****************************************************************************)
(* STACK DEFINITIONS. For any number of pages, stacks and revisions.         *)
(*****************************************************************************)

(* A row of the table of revisions, and the state typed.                      *)
Revision == [stack : StackIds, number : Nat, base : Nat]

DefinitionsTyped ==
  /\ stackRow \in [StackIds -> {"none", "there", "deleted"}]
  /\ latestOf \in [StackIds -> Nat]
  /\ saved \in Seq(Revision)
  /\ save \in [Writers -> [stage : {"none", "asked", "checked", "compiled"},
                           stack : StackIds \cup {NoStack}, base : Nat]]

(* A request for a new stack has no base. *)
NewFromNothing == \A w \in Writers : save[w].stack = NoStack => save[w].base = 0

(* The last of a set of revisions, 0 of none. *)
IsLast(n, places) == n \in places \cup {0} /\ \A i \in places : i <= n

(* A stack without a row has no revision, and any other points to its last.   *)
PointsToLast ==
  \A s \in StackIds :
    /\ stackRow[s] = "none" => RevisionsOf(s) = {}
    /\ stackRow[s] # "none" => latestOf[s] # 0 /\ IsLast(latestOf[s], RevisionsOf(s))

(* Each revision was made from the last before it and is numbered after it.   *)
Before(i) == {j \in RevisionsOf(saved[i].stack) : j < i}

InAChain == \A i \in DOMAIN saved : /\ IsLast(saved[i].base, Before(i))
                                    /\ saved[i].number = Cardinality(Before(i)) + 1

(* No two stacks of the name stand at once.                                   *)
NamedOnce ==
  \A s, t \in StackIds : stackRow[s] = "there" /\ stackRow[t] = "there" => s = t

DefinitionsInv == DefinitionsTyped /\ NewFromNothing /\ PointsToLast /\ InAChain /\ NamedOnce

-----------------------------------------------------------------------------
(* The greatest of a set that has a last element is that element.             *)
LEMMA HighestIsLast ==
  ASSUME NEW S \in SUBSET Nat, NEW n \in Nat, IsLast(n, S)
  PROVE  Highest(S) = n
<1> DEFINE T == S \cup {0}
<1>1. n \in T /\ \A y \in T : n >= y
  BY DEF IsLast
<1>2. \A x \in T : (\A y \in T : x >= y) => x = n
  BY <1>1
<1>3. Max(T) = n
  BY Zenon, <1>1, <1>2 DEF Max
<1> QED
  BY <1>3 DEF Highest

(* What a place of the table holds.                                           *)
LEMMA EntryTyped ==
  ASSUME DefinitionsTyped, NEW i \in DOMAIN saved
  PROVE  /\ i \in Nat /\ saved[i] \in Revision
         /\ saved[i].stack \in StackIds /\ saved[i].number \in Nat /\ saved[i].base \in Nat
<1>1. i \in Nat /\ saved[i] \in Revision
  BY DEF DefinitionsTyped
<1> QED
  BY <1>1 DEF Revision

(* The revisions of a stack are finitely many places of the table. *)
LEMMA RevisionsFinite ==
  ASSUME DefinitionsTyped, NEW s
  PROVE  IsFiniteSet(RevisionsOf(s)) /\ RevisionsOf(s) \subseteq Nat \ {0}
<1>1. DOMAIN saved = 1 .. Len(saved) /\ Len(saved) \in Nat
  BY DEF DefinitionsTyped
<1>2. IsFiniteSet(1 .. Len(saved))
  BY <1>1, FS_Interval
<1>3. RevisionsOf(s) \in SUBSET (1 .. Len(saved))
  BY <1>1 DEF RevisionsOf
<1> QED
  BY <1>1, <1>2, <1>3, FS_Subset

(* The numbers of a stack's revisions run up to how many there are.           *)
LEMMA NumbersCount ==
  ASSUME DefinitionsTyped, PointsToLast, InAChain, NEW s \in StackIds, stackRow[s] # "none"
  PROVE  Highest({saved[i].number : i \in RevisionsOf(s)}) = Cardinality(RevisionsOf(s))
<1> DEFINE R == RevisionsOf(s)
           last == latestOf[s]
           numbers == {saved[i].number : i \in R}
<1>1. last \in R /\ \A i \in R : i <= last
  BY DEF PointsToLast, IsLast
<1>2. IsFiniteSet(R) /\ R \subseteq Nat \ {0} /\ Cardinality(R) \in Nat
  BY RevisionsFinite, FS_CardinalityType
<1>3. \A i \in R : i \in DOMAIN saved /\ saved[i].stack = s /\ saved[i] \in Revision
  BY DEF RevisionsOf, DefinitionsTyped
<1>4. ASSUME NEW i \in R
      PROVE  saved[i].number \in Nat /\ saved[i].number <= Cardinality(R)
  <2>1. Before(i) = {j \in R : j < i}
    BY <1>3 DEF Before
  <2>2. Before(i) \in SUBSET (R \ {i})
    BY <1>2, <2>1
  <2>3. IsFiniteSet(R \ {i}) /\ Cardinality(R \ {i}) = Cardinality(R) - 1
    BY <1>2, FS_RemoveElement
  <2>4. Cardinality(Before(i)) <= Cardinality(R \ {i})
    BY <2>2, <2>3, FS_Subset
  <2>5. IsFiniteSet(Before(i)) /\ Cardinality(Before(i)) \in Nat
    BY <2>2, <2>3, FS_Subset, FS_CardinalityType
  <2>6. saved[i].number = Cardinality(Before(i)) + 1
    BY <1>3 DEF InAChain
  <2> QED
    BY <1>2, <2>3, <2>4, <2>5, <2>6
<1>5. saved[last].number = Cardinality(R)
  <2>1. Before(last) = R \ {last}
    BY <1>1, <1>2, <1>3 DEF Before
  <2>2. Cardinality(R \ {last}) = Cardinality(R) - 1
    BY Zenon, <1>1, <1>2, FS_RemoveElement
  <2>3. saved[last].number = Cardinality(Before(last)) + 1
    BY <1>1, <1>3 DEF InAChain
  <2> QED
    BY <1>2, <2>1, <2>2, <2>3
<1>6. numbers \in SUBSET Nat
  BY <1>4
<1>7. IsLast(Cardinality(R), numbers)
  BY <1>1, <1>4, <1>5 DEF IsLast
<1> QED
  BY SMTT(60), <1>2, <1>6, <1>7, HighestIsLast

(* A revision that is written on top of the last of its stack.                *)
LEMMA WrittenOnTop ==
  ASSUME DefinitionsInv, NEW w \in Writers, NEW s \in StackIds, NEW number,
         writeRevision(w, s, number), IsLast(save[w].base, RevisionsOf(s)),
         number = Cardinality(RevisionsOf(s)) + 1
  PROVE  /\ saved' \in Seq(Revision) /\ InAChain'
         /\ latestOf' \in [StackIds -> Nat]
         /\ \A t \in StackIds : t # s => RevisionsOf(t)' = RevisionsOf(t) /\ latestOf'[t] = latestOf[t]
         /\ latestOf'[s] # 0 /\ IsLast(latestOf'[s], RevisionsOf(s)')
<1> DEFINE new == [stack |-> s, number |-> number, base |-> save[w].base]
<1>1. DefinitionsTyped /\ InAChain
  BY DEF DefinitionsInv
<1>2. Len(saved) \in Nat /\ DOMAIN saved = 1 .. Len(saved) /\ save[w].base \in Nat
  BY <1>1 DEF DefinitionsTyped
<1>n. PICK n \in Nat : n = Len(saved) + 1
  BY <1>2
<1>3. IsFiniteSet(RevisionsOf(s)) /\ Cardinality(RevisionsOf(s)) \in Nat
  BY <1>n, <1>1, RevisionsFinite, FS_CardinalityType
<1>4. new \in Revision
  BY <1>n, <1>2, <1>3 DEF Revision
<1>5. saved' = Append(saved, new) /\ latestOf' = [latestOf EXCEPT ![s] = n]
  BY <1>n DEF writeRevision
<1>6. /\ saved' \in Seq(Revision) /\ DOMAIN saved' = 1 .. n
      /\ saved'[n] = new /\ \A i \in 1 .. Len(saved) : saved'[i] = saved[i]
  BY <1>n, <1>1, <1>2, <1>4, <1>5 DEF DefinitionsTyped
<1> HIDE DEF new
<1>7. new.stack = s /\ new.number = number /\ new.base = save[w].base
  BY DEF new
<1>8. ASSUME NEW t \in StackIds, t # s PROVE RevisionsOf(t)' = RevisionsOf(t)
  BY SMTT(60), <1>n, <1>2, <1>6, <1>7, <1>8 DEF RevisionsOf
<1>9. RevisionsOf(s)' = RevisionsOf(s) \cup {n}
  BY <1>n, <1>2, <1>6, <1>7 DEF RevisionsOf
<1>10. \A t : RevisionsOf(t) \subseteq 1 .. Len(saved)
  BY <1>n, <1>2 DEF RevisionsOf
<1>11. latestOf' \in [StackIds -> Nat] /\ latestOf'[s] = n
       /\ \A t \in StackIds : t # s => latestOf'[t] = latestOf[t]
  BY <1>n, <1>1, <1>2, <1>5 DEF DefinitionsTyped
<1>12. n # 0 /\ IsLast(n, RevisionsOf(s)')
  BY <1>n, <1>2, <1>9, <1>10 DEF IsLast
<1>13. ASSUME NEW i \in 1 .. Len(saved)
       PROVE  /\ IsLast(saved'[i].base, Before(i)')
              /\ saved'[i].number = Cardinality(Before(i)') + 1
  <2>1. saved'[i] = saved[i] /\ saved[i].stack \in StackIds
    BY <1>n, <1>1, <1>2, <1>6, EntryTyped
  <2>2. Before(i)' = Before(i)
    <3>1. CASE saved[i].stack = s
      <4>1. Before(i)' = {j \in RevisionsOf(s) \cup {n} : j < i}
        BY <1>n, <2>1, <3>1, <1>9 DEF Before
      <4>2. ~(n < i)
        BY <1>n, <1>2
      <4> QED
        BY <3>1, <4>1, <4>2 DEF Before
    <3>2. CASE saved[i].stack # s
      BY <1>n, <2>1, <3>2, <1>8 DEF Before
    <3> QED
      BY <3>1, <3>2
  <2> QED
    BY SMTT(60), <1>n, <1>1, <1>2, <2>1, <2>2 DEF InAChain
<1>14. IsLast(saved'[n].base, Before(n)') /\ saved'[n].number = Cardinality(Before(n)') + 1
  <2>1. Before(n)' = {j \in RevisionsOf(s) \cup {n} : j < n}
    BY <1>n, <1>6, <1>7, <1>9 DEF Before
  <2>2. ~(n < n) /\ \A j \in RevisionsOf(s) : j < n
    BY <1>n, <1>2, <1>10
  <2>3. Before(n)' = RevisionsOf(s)
    BY Zenon, <2>1, <2>2
  <2> QED
    BY <1>n, <1>6, <1>7, <2>3
<1>15. InAChain'
  BY <1>n, <1>2, <1>6, <1>13, <1>14 DEF InAChain
<1> QED
  BY <1>n, <1>6, <1>8, <1>11, <1>12, <1>15

(* No save, refusal or deletion breaks a chain of revisions.                  *)
LEMMA DefinitionsStep == DefinitionsInv /\ [StackDefinitionsNext]_definitionVars => DefinitionsInv'
<1> SUFFICES ASSUME DefinitionsInv, [StackDefinitionsNext]_definitionVars PROVE DefinitionsInv'
  OBVIOUS
<1>a. DefinitionsTyped /\ NewFromNothing /\ PointsToLast /\ InAChain /\ NamedOnce
  BY DEF DefinitionsInv
<1> DEFINE SaveRequests == [stage : {"none", "asked", "checked", "compiled"},
                       stack : StackIds \cup {NoStack}, base : Nat]
<1>b. ASSUME NEW w \in Writers, NEW req \in SaveRequests, req.stack = NoStack => req.base = 0,
             save' = [save EXCEPT ![w] = req], UNCHANGED <<stackRow, latestOf, saved>>
      PROVE  DefinitionsInv'
  <2>1. save' \in [Writers -> SaveRequests]
    BY <1>a, <1>b DEF DefinitionsTyped
  <2>2. DefinitionsTyped'
    BY <1>a, <1>b, <2>1 DEF DefinitionsTyped
  <2>3. NewFromNothing'
    BY SMTT(60), <1>a, <1>b DEF NewFromNothing, DefinitionsTyped
  <2>4. (PointsToLast /\ InAChain /\ NamedOnce)'
    BY ZenonT(60), <1>a, <1>b DEF PointsToLast, InAChain, NamedOnce, RevisionsOf, Before
  <2> QED
    BY <2>2, <2>3, <2>4 DEF DefinitionsInv
<1>c. NoSave \in SaveRequests /\ NoSave.stack = NoStack /\ NoSave.base = 0
  BY DEF NoSave
<1>d. ASSUME NEW w \in Writers, Decline(w) PROVE DefinitionsInv'
  BY Zenon, <1>b, <1>c, <1>d DEF Decline
<1>e. ASSUME NEW w \in Writers, NEW st \in {"checked", "compiled"},
             save' = [save EXCEPT ![w].stage = st], UNCHANGED <<stackRow, latestOf, saved>>
      PROVE  DefinitionsInv'
  <2> DEFINE req == [save[w] EXCEPT !.stage = st]
  <2>1. save[w] \in SaveRequests
    BY <1>a DEF DefinitionsTyped
  <2>2. req \in SaveRequests /\ req.stack = save[w].stack /\ req.base = save[w].base
    BY <2>1
  <2>3. save' = [save EXCEPT ![w] = req]
    BY <1>e
  <2>4. req.stack = NoStack => req.base = 0
    BY <1>a, <2>2 DEF NewFromNothing
  <2> HIDE DEF req
  <2> QED
    BY Zenon, <1>b, <1>e, <2>2, <2>3, <2>4
<1>1. ASSUME NEW w \in Writers, submitNew(w) PROVE DefinitionsInv'
  <2> DEFINE req == [NoSave EXCEPT !.stage = "asked"]
  <2>1. req \in SaveRequests /\ req.base = 0
    BY DEF NoSave
  <2>2. save' = [save EXCEPT ![w] = req] /\ UNCHANGED <<stackRow, latestOf, saved>>
    BY <1>1 DEF submitNew
  <2> HIDE DEF req
  <2> QED
    BY Zenon, <1>b, <2>1, <2>2
<1>2. ASSUME NEW w \in Writers, NEW i \in DOMAIN saved, submitRevision(w, i) PROVE DefinitionsInv'
  <2> DEFINE req == [stage |-> "asked", stack |-> saved[i].stack, base |-> i]
  <2>1. saved[i].stack \in StackIds /\ i \in Nat
    BY <1>a, EntryTyped
  <2>2. req \in SaveRequests /\ req.stack # NoStack
    BY <2>1 DEF StackIds, NoStack
  <2>3. save' = [save EXCEPT ![w] = req] /\ UNCHANGED <<stackRow, latestOf, saved>>
    BY <1>2 DEF submitRevision
  <2> HIDE DEF req
  <2> QED
    BY Zenon, <1>b, <2>2, <2>3
<1>3. ASSUME NEW w \in Writers, find(w) PROVE DefinitionsInv'
  BY <1>d, <1>e, <1>3 DEF find
<1>4. ASSUME NEW w \in Writers, compileOrRefuse(w) PROVE DefinitionsInv'
  BY <1>d, <1>e, <1>4 DEF compileOrRefuse
<1>f. ASSUME NEW w \in Writers, NEW s \in StackIds, NEW number, writeRevision(w, s, number),
             IsLast(save[w].base, RevisionsOf(s)), number = Cardinality(RevisionsOf(s)) + 1,
             stackRow' = [stackRow EXCEPT ![s] = "there"],
             \A t \in StackIds : stackRow[t] = "there" => t = s
      PROVE  DefinitionsInv'
  <2>1. /\ saved' \in Seq(Revision) /\ InAChain'
        /\ latestOf' \in [StackIds -> Nat]
        /\ \A t \in StackIds : t # s => RevisionsOf(t)' = RevisionsOf(t) /\ latestOf'[t] = latestOf[t]
        /\ latestOf'[s] # 0 /\ IsLast(latestOf'[s], RevisionsOf(s)')
    BY <1>f, WrittenOnTop
  <2>2. save' = [save EXCEPT ![w] = NoSave]
    BY <1>f DEF writeRevision
  <2>3. save' \in [Writers -> SaveRequests] /\ NewFromNothing'
    BY <1>a, <1>c, <2>2 DEF NewFromNothing, DefinitionsTyped
  <2>4. stackRow' \in [StackIds -> {"none", "there", "deleted"}]
        /\ stackRow'[s] = "there" /\ \A t \in StackIds : t # s => stackRow'[t] = stackRow[t]
    BY <1>a, <1>f DEF DefinitionsTyped
  <2>5. DefinitionsTyped'
    BY <2>1, <2>3, <2>4 DEF DefinitionsTyped
  <2>6. PointsToLast'
    BY <1>a, <2>1, <2>4 DEF PointsToLast
  <2>7. NamedOnce'
    BY <1>f, <2>4 DEF NamedOnce
  <2> QED
    BY SMTT(60), <2>1, <2>3, <2>5, <2>6, <2>7 DEF DefinitionsInv
<1>5. ASSUME NEW w \in Writers, createStack(w) PROVE DefinitionsInv'
  <2>1. CASE Decline(w)
    BY <1>d, <2>1
  <2>2. CASE ~Decline(w)
    <3>1. PICK s \in StackIds : /\ stackRow[s] = "none" /\ ~NameTaken
                                /\ stackRow' = [stackRow EXCEPT ![s] = "there"]
                                /\ writeRevision(w, s, 1)
      BY <1>5, <2>2 DEF createStack, NameIndexAllows
    <3>2. save[w].base = 0
      BY <1>a, <1>5 DEF createStack, NewFromNothing
    <3>3. RevisionsOf(s) = {}
      BY <1>a, <3>1 DEF PointsToLast
    <3>4. IsLast(save[w].base, RevisionsOf(s)) /\ 1 = Cardinality(RevisionsOf(s)) + 1
      BY <3>2, <3>3, FS_EmptySet DEF IsLast
    <3>5. \A t \in StackIds : stackRow[t] = "there" => t = s
      BY <3>1 DEF NameTaken
    <3> QED
      BY Zenon, <1>f, <3>1, <3>4, <3>5
  <2> QED
    BY <2>1, <2>2
<1>6. ASSUME NEW w \in Writers, createRevision(w) PROVE DefinitionsInv'
  <2>1. CASE Decline(w)
    BY <1>d, <2>1
  <2>2. CASE ~Decline(w)
    <3> DEFINE s == save[w].stack
               number == Highest({saved[i].number : i \in RevisionsOf(s)}) + 1
    <3>1. /\ s # NoStack /\ stackRow[s] = "there" /\ latestOf[s] = save[w].base
          /\ writeRevision(w, s, number) /\ stackRow' = stackRow
      BY <1>6, <2>2 DEF createRevision, LockedIsCurrent, Current
    <3>2. s \in StackIds
      BY <1>a, <3>1 DEF DefinitionsTyped
    <3>3. number = Cardinality(RevisionsOf(s)) + 1
      BY <1>a, <3>1, <3>2, NumbersCount
    <3>4. IsLast(save[w].base, RevisionsOf(s))
      BY <1>a, <3>1, <3>2 DEF PointsToLast
    <3>5. stackRow' = [stackRow EXCEPT ![s] = "there"]
      BY SMTT(60), <1>a, <3>1, <3>2 DEF DefinitionsTyped
    <3>6. \A t \in StackIds : stackRow[t] = "there" => t = s
      BY SMTT(60), <1>a, <3>1, <3>2 DEF NamedOnce
    <3> HIDE DEF s, number
    <3>7. writeRevision(w, s, number) /\ IsLast(save[w].base, RevisionsOf(s))
      BY <3>1, <3>4
    <3> QED
      BY Zenon, <1>f, <3>2, <3>3, <3>5, <3>6, <3>7
  <2> QED
    BY <2>1, <2>2
<1>7. ASSUME NEW s \in StackIds, stackDeleted(s) PROVE DefinitionsInv'
  <2>1. /\ stackRow[s] = "there" /\ stackRow' = [stackRow EXCEPT ![s] = "deleted"]
        /\ UNCHANGED <<latestOf, saved, save>>
    BY <1>7 DEF stackDeleted
  <2>2. DefinitionsTyped' /\ NewFromNothing' /\ NamedOnce'
    BY <1>a, <2>1 DEF DefinitionsTyped, NewFromNothing, NamedOnce
  <2>3. InAChain' /\ \A t \in StackIds : RevisionsOf(t)' = RevisionsOf(t)
    BY <1>a, <2>1 DEF InAChain, Before, RevisionsOf
  <2>4. \A t \in StackIds : stackRow'[t] = "none" <=> stackRow[t] = "none"
    BY <1>a, <2>1 DEF DefinitionsTyped
  <2>5. PointsToLast'
    BY <1>a, <2>1, <2>3, <2>4 DEF PointsToLast
  <2> QED
    BY <2>2, <2>3, <2>5 DEF DefinitionsInv
<1>8. ASSUME UNCHANGED <<stackRow, latestOf, saved, save>> PROVE DefinitionsInv'
  <2>1. DefinitionsTyped' /\ NewFromNothing' /\ NamedOnce'
    BY SMTT(60), <1>a, <1>8 DEF DefinitionsTyped, NewFromNothing, NamedOnce
  <2>2. PointsToLast' /\ InAChain'
    BY Zenon, <1>a, <1>8 DEF PointsToLast, InAChain, Before, RevisionsOf
  <2> QED
    BY <2>1, <2>2 DEF DefinitionsInv
<1>9. ASSUME hostChanges \/ UNCHANGED definitionVars PROVE DefinitionsInv'
  BY Zenon, <1>8, <1>9 DEF hostChanges, definitionVars
<1> QED
  BY Zenon, <1>1, <1>2, <1>3, <1>4, <1>5, <1>6, <1>7, <1>9 DEF StackDefinitionsNext

(* For any number of pages, stacks and revisions, and however saves, creates  *)
(* and deletions interleave: the revisions of a stack are numbered in the     *)
(* order they were saved, each was made from the one before, the stack points *)
(* to the last, and there is one stack of a name at a time (createRevision,   *)
(* create and its index).                                                     *)
THEOREM RevisionsHold == StackDefinitionsSpec => []RevisionsAreKept
<1>1. StackDefinitionsInit => DefinitionsInv
  <2> SUFFICES ASSUME StackDefinitionsInit PROVE DefinitionsInv
    OBVIOUS
  <2>1. NoSave \in [stage : {"none", "asked", "checked", "compiled"},
                    stack : StackIds \cup {NoStack}, base : Nat]
        /\ NoSave.base = 0
    BY DEF NoSave
  <2>2. DefinitionsTyped /\ NewFromNothing
    BY <2>1 DEF StackDefinitionsInit, DefinitionsTyped, NewFromNothing
  <2>3. DOMAIN saved = {}
    BY DEF StackDefinitionsInit
  <2>4. PointsToLast /\ InAChain /\ NamedOnce
    BY <2>3 DEF StackDefinitionsInit, PointsToLast, InAChain, RevisionsOf, NamedOnce
  <2> QED
    BY <2>2, <2>4 DEF DefinitionsInv
<1>2. ASSUME DefinitionsInv PROVE NothingWrittenOver
  <2>a. DefinitionsTyped /\ PointsToLast /\ InAChain
    BY <1>2 DEF DefinitionsInv
  <2>1. ASSUME NEW s \in StackIds, stackRow[s] # "none" PROVE latestOf[s] = Highest(RevisionsOf(s))
    <3>1. RevisionsOf(s) \in SUBSET Nat /\ latestOf[s] \in Nat
      BY <2>a, RevisionsFinite DEF DefinitionsTyped
    <3>2. IsLast(latestOf[s], RevisionsOf(s))
      BY <2>a, <2>1 DEF PointsToLast
    <3> QED
      BY <3>1, <3>2, HighestIsLast
  <2>2. ASSUME NEW s \in StackIds, NEW i \in RevisionsOf(s)
        PROVE  /\ saved[i].number = Cardinality({j \in RevisionsOf(s) : j < i}) + 1
               /\ saved[i].base = Highest({j \in RevisionsOf(s) : j < i})
    <3>1. i \in DOMAIN saved /\ saved[i].stack = s /\ saved[i].base \in Nat
      BY <2>a, EntryTyped DEF RevisionsOf
    <3>2. Before(i) = {j \in RevisionsOf(s) : j < i}
      BY <3>1 DEF Before
    <3>3. Before(i) \in SUBSET Nat
      BY <2>a, <3>2, RevisionsFinite
    <3>4. IsLast(saved[i].base, Before(i)) /\ saved[i].number = Cardinality(Before(i)) + 1
      BY <2>a, <3>1 DEF InAChain
    <3>5. saved[i].base = Highest(Before(i))
      BY <3>1, <3>3, <3>4, HighestIsLast
    <3> QED
      BY <3>2, <3>4, <3>5
  <2> QED
    BY <2>1, <2>2 DEF NothingWrittenOver
<1>3. ASSUME DefinitionsInv PROVE OneOfAName
  <2> DEFINE standing == {s \in StackIds : stackRow[s] = "there"}
  <2>1. CASE standing = {}
    BY <2>1, FS_EmptySet DEF OneOfAName
  <2>2. CASE standing # {}
    <3>1. PICK s \in StackIds : stackRow[s] = "there"
      BY <2>2
    <3>2. standing = {s}
      BY <1>3, <3>1 DEF DefinitionsInv, NamedOnce
    <3>3. Cardinality(standing) = 1
      BY Zenon, <3>2, FS_Singleton
    <3> QED
      BY <3>3 DEF OneOfAName
  <2> QED
    BY <2>1, <2>2
<1>4. DefinitionsInv => RevisionsAreKept
  BY <1>2, <1>3 DEF RevisionsAreKept
<1> QED
  BY <1>1, <1>4, DefinitionsStep, PTL DEF StackDefinitionsSpec

-----------------------------------------------------------------------------
(*****************************************************************************)
(* HOST ARCHIVE. For any number of requests and moves of the agent.          *)
(*****************************************************************************)

(* A request, and the state typed.                                            *)
Decider == [at : DeciderStages, wish : Wishes, seen : Nat]

ArchiveTyped ==
  /\ archivedAt \in BOOLEAN /\ connected \in BOOLEAN
  /\ decider \in [Deciders -> Decider]
  /\ hostTrail \in [Wishes -> Nat]
  /\ undone \in Nat /\ moves \in Nat

(* A request that has checked found the agent away, at a place among the      *)
(* moves that is not to come.                                                 *)
CheckedAway ==
  \A d \in Deciders :
    decider[d].at = "checked" /\ decider[d].wish = "host.archived" =>
      decider[d].seen <= moves /\ (connected => decider[d].seen < moves)

ArchiveInv == ArchiveTyped /\ CheckedAway /\ DecisionsAreRecordedOnce

-----------------------------------------------------------------------------
(* The requests whose decision is written and not yet recorded.               *)
Writing(wish) == {d \in Deciders : decider[d].at = "written" /\ decider[d].wish = wish}

(* They are finitely many.                                                    *)
LEMMA WritingFinite ==
  ASSUME NEW wish
  PROVE  /\ IsFiniteSet(Writing(wish)) /\ Unrecorded(wish) = Cardinality(Writing(wish))
         /\ Unrecorded(wish) \in Nat
<1>1. Writing(wish) \in SUBSET Deciders
  BY DEF Writing
<1>2. IsFiniteSet(Writing(wish))
  BY <1>1, FS_Subset, HostArchiveAssumption
<1> QED
  BY <1>2, FS_CardinalityType DEF Unrecorded, Writing

(* What becomes of the number of records to come when one request moves.      *)
CountsFor(d, x, wish) ==
  LET was == decider[d].at = "written" /\ decider[d].wish = wish
      is == x.at = "written" /\ x.wish = wish
  IN /\ (was <=> is) => Unrecorded(wish)' = Unrecorded(wish)
     /\ ~was /\ is => Unrecorded(wish)' = Unrecorded(wish) + 1
     /\ was /\ ~is => Unrecorded(wish)' = Unrecorded(wish) - 1

(* One request moves: it begins to wait for its record, stops waiting for it, *)
(* or neither.                                                                *)
LEMMA OneMoves ==
  ASSUME ArchiveTyped, NEW d \in Deciders, NEW x \in Decider, decider' = [decider EXCEPT ![d] = x]
  PROVE  /\ decider' \in [Deciders -> Decider] /\ decider'[d] = x
         /\ \A e \in Deciders : e # d => decider'[e] = decider[e]
         /\ \A wish \in Wishes : CountsFor(d, x, wish)
<1>1. /\ decider' \in [Deciders -> Decider] /\ decider'[d] = x
      /\ \A e \in Deciders : e # d => decider'[e] = decider[e]
  BY DEF ArchiveTyped
<1>2. ASSUME NEW wish \in Wishes PROVE CountsFor(d, x, wish)
  <2> DEFINE was == decider[d].at = "written" /\ decider[d].wish = wish
             is == x.at = "written" /\ x.wish = wish
             before == Writing(wish)
             after == {e \in Deciders : decider'[e].at = "written" /\ decider'[e].wish = wish}
  <2>1. IsFiniteSet(before) /\ Unrecorded(wish) = Cardinality(before)
    BY WritingFinite
  <2>2. Unrecorded(wish)' = Cardinality(after)
    BY DEF Unrecorded
  <2>3. d \in before <=> was
    BY DEF Writing
  <2>4. CASE was <=> is
    <3>1. after = before
      BY <1>1, <2>4 DEF Writing
    <3> QED
      BY Zenon, <2>1, <2>2, <2>4, <3>1 DEF CountsFor
  <2>5. CASE ~was /\ is
    <3>1. after = before \cup {d}
      BY <1>1, <2>5 DEF Writing
    <3>2. Cardinality(before \cup {d}) = Cardinality(before) + 1
      BY Zenon, <2>1, <2>3, <2>5, FS_AddElement
    <3> QED
      BY SMTT(60), <2>1, <2>2, <2>5, <3>1, <3>2 DEF CountsFor
  <2>6. CASE was /\ ~is
    <3>1. after = before \ {d}
      BY <1>1, <2>6 DEF Writing
    <3>2. Cardinality(before \ {d}) = Cardinality(before) - 1
      BY Zenon, <2>1, <2>3, <2>6, FS_RemoveElement
    <3> QED
      BY Zenon, <2>1, <2>2, <2>6, <3>1, <3>2 DEF CountsFor
  <2> QED
    BY <2>4, <2>5, <2>6
<1> QED
  BY <1>1, <1>2

(* No step of a request, the agent or the server breaks the invariant, and    *)
(* one that archives a host with a connected agent is of a request that       *)
(* checked before the agent came.                                             *)
LEMMA ArchiveStep ==
  ASSUME ArchiveInv, [HostArchiveNext]_archiveVars
  PROVE  /\ ArchiveInv'
         /\ ~archivedAt /\ archivedAt' /\ connected
              => \E d \in Deciders : decider'[d] # decider[d] /\ decider[d].seen < moves
<1> DEFINE Goal == /\ ArchiveInv'
                   /\ ~archivedAt /\ archivedAt' /\ connected
                        => \E d \in Deciders : decider'[d] # decider[d] /\ decider[d].seen < moves
           A == "host.archived"
           U == "host.unarchived"
<1>a. ArchiveTyped /\ CheckedAway /\ DecisionsAreRecordedOnce
  BY DEF ArchiveInv
<1>b. A \in Wishes /\ U \in Wishes /\ \A w \in Wishes : w = A \/ w = U
  BY DEF Wishes
<1>c. /\ hostTrail[A] \in Nat /\ hostTrail[U] \in Nat /\ undone \in Nat /\ moves \in Nat
      /\ Unrecorded(A) \in Nat /\ Unrecorded(U) \in Nat
  BY <1>a, <1>b, WritingFinite DEF ArchiveTyped
<1>d. ASSUME NEW d \in Deciders PROVE decider[d] \in Decider
  BY <1>a DEF ArchiveTyped
<1>e. ASSUME NEW d \in Deciders, NEW x \in Decider, decider' = [decider EXCEPT ![d] = x],
             decider[d].at # "written", x.at # "written",
             x.at = "checked" /\ x.wish = A => x.seen = moves /\ ~connected,
             UNCHANGED <<archivedAt, hostTrail, connected, undone, moves>>
      PROVE  Goal
  <2>1. /\ decider' \in [Deciders -> Decider] /\ decider'[d] = x
        /\ \A e \in Deciders : e # d => decider'[e] = decider[e]
    BY Zenon, <1>a, <1>e, OneMoves
  <2>2. Unrecorded(A)' = Unrecorded(A) /\ Unrecorded(U)' = Unrecorded(U)
    <3>1. \A wish \in Wishes : CountsFor(d, x, wish)
      BY Zenon, <1>a, <1>e, OneMoves
    <3>2. CountsFor(d, x, A) /\ CountsFor(d, x, U)
      BY Zenon, <1>b, <3>1
    <3> HIDE DEF A, U
    <3> QED
      BY <1>e, <3>2 DEF CountsFor
  <2>3. ArchiveTyped'
    BY <1>a, <1>e, <2>1 DEF ArchiveTyped
  <2>4. CheckedAway'
    BY SMTT(60), <1>a, <1>c, <1>e, <2>1 DEF CheckedAway
  <2>5. DecisionsAreRecordedOnce'
    BY <1>a, <1>e, <2>2 DEF DecisionsAreRecordedOnce
  <2> QED
    BY <1>e, <2>3, <2>4, <2>5 DEF ArchiveInv
<1>f. ASSUME NEW d \in Deciders, NEW st \in DeciderStages
      PROVE  LET x == [decider[d] EXCEPT !.at = st]
             IN  x \in Decider /\ x.at = st /\ x.wish = decider[d].wish
  BY SMTT(60), <1>d DEF Decider
<1>1. ASSUME NEW d \in Deciders, NEW wish \in Wishes, loadHost(d, wish) PROVE Goal
  <2>1. PICK st \in {"done", "loaded", "checked"} :
          /\ decider' = [decider EXCEPT ![d] = [wish |-> wish, seen |-> moves, at |-> st]]
          /\ st = "checked" => wish # A
    BY Zenon, <1>1 DEF loadHost
  <2> DEFINE x == [wish |-> wish, seen |-> moves, at |-> st]
  <2>2. x \in Decider /\ x.at = st /\ x.wish = wish
    BY <1>c DEF Decider, DeciderStages
  <2>3. decider' = [decider EXCEPT ![d] = x]
    BY <2>1
  <2> HIDE DEF x
  <2>4. x.at # "written" /\ decider[d].at # "written" /\ ~(x.at = "checked" /\ x.wish = A)
    BY SMTT(60), <1>1, <2>1, <2>2 DEF loadHost
  <2> QED
    BY Zenon, <1>1, <1>e, <2>2, <2>3, <2>4 DEF loadHost, Unmoved
<1>2. ASSUME NEW d \in Deciders, isConnected(d) PROVE Goal
  <2> DEFINE st == IF connected THEN "refused" ELSE "checked"
             x == [decider[d] EXCEPT !.at = st, !.seen = moves]
  <2>1. x \in Decider /\ x.at = st /\ x.seen = moves
    BY Zenon, <1>c, <1>d DEF Decider, DeciderStages
  <2>2. decider' = [decider EXCEPT ![d] = x]
    BY <1>2 DEF isConnected
  <2> HIDE DEF x
  <2>3. x.at # "written" /\ decider[d].at # "written" /\ (x.at = "checked" => ~connected)
    BY SMTT(60), <1>2, <2>1 DEF isConnected
  <2> QED
    BY Zenon, <1>2, <1>e, <2>1, <2>2, <2>3 DEF isConnected, Unmoved
<1>g. ASSUME NEW d \in Deciders, NEW st \in {"written", "done"}, Reaches(d, st)
      PROVE  /\ decider' \in [Deciders -> Decider] /\ decider'[d].at = st
             /\ decider'[d].wish = decider[d].wish
             /\ \A e \in Deciders : e # d => decider'[e] = decider[e]
             /\ CheckedAway' \/ ~UNCHANGED <<moves, connected>>
             /\ decider[d].at = "checked" /\ st = "done" => UNCHANGED <<Unrecorded(A), Unrecorded(U)>>
             /\ decider[d].at = "checked" /\ st = "written" /\ decider[d].wish = A =>
                  Unrecorded(A)' = Unrecorded(A) + 1 /\ Unrecorded(U)' = Unrecorded(U)
             /\ decider[d].at = "checked" /\ st = "written" /\ decider[d].wish = U =>
                  Unrecorded(U)' = Unrecorded(U) + 1 /\ Unrecorded(A)' = Unrecorded(A)
             /\ decider[d].at = "written" /\ st = "done" /\ decider[d].wish = A =>
                  Unrecorded(A)' = Unrecorded(A) - 1 /\ Unrecorded(U)' = Unrecorded(U)
             /\ decider[d].at = "written" /\ st = "done" /\ decider[d].wish = U =>
                  Unrecorded(U)' = Unrecorded(U) - 1 /\ Unrecorded(A)' = Unrecorded(A)
  <2> DEFINE x == [decider[d] EXCEPT !.at = st]
  <2>1. x \in Decider /\ x.at = st /\ x.wish = decider[d].wish
    BY ZenonT(60), <1>f DEF DeciderStages
  <2>2. decider' = [decider EXCEPT ![d] = x]
    BY <1>g DEF Reaches
  <2> HIDE DEF x
  <2>3. /\ decider' \in [Deciders -> Decider] /\ decider'[d] = x
        /\ \A e \in Deciders : e # d => decider'[e] = decider[e]
    BY Zenon, <1>a, <2>1, <2>2, OneMoves
  <2>4. CheckedAway' \/ ~UNCHANGED <<moves, connected>>
    BY <1>a, <2>1, <2>3 DEF CheckedAway
  <2>5. A # U
    OBVIOUS
  <2>6. \A wish \in Wishes : CountsFor(d, x, wish)
    BY Zenon, <1>a, <2>1, <2>2, OneMoves
  <2>7. CountsFor(d, x, A) /\ CountsFor(d, x, U)
    BY Zenon, <1>b, <2>6
  <2> HIDE DEF A, U
  <2> QED
    BY SMTT(60), <2>1, <2>3, <2>4, <2>5, <2>7 DEF CountsFor
<1>3. ASSUME NEW d \in Deciders, archive(d) PROVE Goal
  <2>1. /\ decider[d].at = "checked" /\ decider[d].wish = A /\ archivedAt' = TRUE
        /\ Reaches(d, IF archivedAt THEN "done" ELSE "written")
        /\ UNCHANGED <<hostTrail, connected, undone, moves>>
    BY <1>3 DEF archive, Unmoved
  <2>2. /\ decider' \in [Deciders -> Decider] /\ CheckedAway'
        /\ decider'[d] # decider[d]
        /\ archivedAt => UNCHANGED <<Unrecorded(A), Unrecorded(U)>>
        /\ ~archivedAt => Unrecorded(A)' = Unrecorded(A) + 1 /\ Unrecorded(U)' = Unrecorded(U)
    <3>1. CASE archivedAt
      BY SMTT(60), <1>g, <2>1, <3>1
    <3>2. CASE ~archivedAt
      BY SMTT(60), <1>g, <2>1, <3>2
    <3> QED
      BY <3>1, <3>2
  <2>3. ArchiveTyped'
    BY SMTT(60), <1>a, <2>1, <2>2 DEF ArchiveTyped
  <2>4. DecisionsAreRecordedOnce'
    BY SMTT(60), <1>a, <1>c, <2>1, <2>2 DEF DecisionsAreRecordedOnce
  <2>5. connected => decider[d].seen < moves
    BY SMTT(60), <1>a, <2>1 DEF CheckedAway
  <2> QED
    BY <2>2, <2>3, <2>4, <2>5 DEF ArchiveInv
<1>4. ASSUME NEW d \in Deciders, unarchive(d) PROVE Goal
  <2>1. /\ decider[d].at = "checked" /\ decider[d].wish = U /\ archivedAt' = FALSE
        /\ Reaches(d, "written") /\ UNCHANGED <<hostTrail, connected, undone, moves>>
    BY SMTT(60), <1>4 DEF unarchive, Unmoved
  <2>2. /\ decider' \in [Deciders -> Decider] /\ CheckedAway'
        /\ Unrecorded(U)' = Unrecorded(U) + 1 /\ Unrecorded(A)' = Unrecorded(A)
    BY <1>g, <2>1
  <2>3. ArchiveTyped'
    BY Zenon, <1>a, <2>1, <2>2 DEF ArchiveTyped
  <2>4. DecisionsAreRecordedOnce'
    BY <1>a, <1>c, <2>1, <2>2 DEF DecisionsAreRecordedOnce
  <2> QED
    BY SMTT(60), <2>1, <2>2, <2>3, <2>4 DEF ArchiveInv
<1>5. ASSUME NEW d \in Deciders, recordDecision(d) PROVE Goal
  <2>1. /\ decider[d].at = "written" /\ Reaches(d, "done")
        /\ hostTrail' = [hostTrail EXCEPT ![decider[d].wish] = @ + 1]
        /\ UNCHANGED <<archivedAt, connected, undone, moves>>
    BY <1>5 DEF recordDecision, Unmoved
  <2>2. decider[d].wish \in {A, U}
    BY <1>b, <1>d DEF Decider
  <2>3. hostTrail' \in [Wishes -> Nat]
    BY <1>a, <1>b, <2>1, <2>2 DEF ArchiveTyped
  <2>4. /\ decider' \in [Deciders -> Decider] /\ CheckedAway'
        /\ decider[d].wish = A => Unrecorded(A)' = Unrecorded(A) - 1 /\ Unrecorded(U)' = Unrecorded(U)
        /\ decider[d].wish = U => Unrecorded(U)' = Unrecorded(U) - 1 /\ Unrecorded(A)' = Unrecorded(A)
    BY SMTT(60), <1>g, <2>1
  <2>5. /\ decider[d].wish = A => hostTrail'[A] = hostTrail[A] + 1 /\ hostTrail'[U] = hostTrail[U]
        /\ decider[d].wish = U => hostTrail'[U] = hostTrail[U] + 1 /\ hostTrail'[A] = hostTrail[A]
    BY SMTT(60), <1>a, <1>b, <2>1 DEF ArchiveTyped
  <2>6. ArchiveTyped'
    BY SMTT(60), <1>a, <2>1, <2>3, <2>4 DEF ArchiveTyped
  <2>7. DecisionsAreRecordedOnce'
    <3>1. CASE decider[d].wish = A
      BY SMTT(60), <1>a, <1>c, <2>1, <2>4, <2>5, <3>1 DEF DecisionsAreRecordedOnce
    <3>2. CASE decider[d].wish = U
      BY SMTT(60), <1>a, <1>c, <2>1, <2>4, <2>5, <3>2 DEF DecisionsAreRecordedOnce
    <3> QED
      BY SMTT(60), <2>2, <3>1, <3>2
  <2> QED
    BY <2>1, <2>4, <2>6, <2>7 DEF ArchiveInv
<1>6. ASSUME agentMoves PROVE Goal
  <2>1. moves' = moves + 1 /\ connected' = ~connected
        /\ UNCHANGED <<archivedAt, decider, hostTrail, undone>>
    BY SMTT(60), <1>6 DEF agentMoves
  <2>2. ArchiveTyped' /\ DecisionsAreRecordedOnce'
    BY SMTT(60), <1>a, <1>c, <2>1 DEF ArchiveTyped, DecisionsAreRecordedOnce, Unrecorded
  <2>3. CheckedAway'
    BY SMTT(60), <1>a, <1>c, <1>d, <2>1 DEF CheckedAway, Decider
  <2> QED
    BY SMTT(60), <2>1, <2>2, <2>3 DEF ArchiveInv
<1>7. ASSUME serverStops PROVE Goal
  <2> DEFINE all == {d \in Deciders : decider[d].at = "written"}
  <2>1. /\ moves' = moves + 1 /\ connected' = FALSE /\ undone' = undone + Cardinality(all)
        /\ UNCHANGED <<archivedAt, hostTrail>>
    BY <1>7 DEF serverStops
  <2>2. ASSUME NEW d \in Deciders
        PROVE  decider'[d] \in Decider /\ decider'[d].at \notin {"checked", "written"}
    <3>1. decider'[d] = IF decider[d].at \in {"loaded", "checked", "written"}
                        THEN [decider[d] EXCEPT !.at = "refused"] ELSE decider[d]
      BY <1>7 DEF serverStops
    <3>2. LET x == [decider[d] EXCEPT !.at = "refused"] IN x \in Decider /\ x.at = "refused"
      BY Zenon, <1>f DEF DeciderStages
    <3> QED
      BY <1>d, <3>1, <3>2
  <2>3. decider' \in [Deciders -> Decider]
    BY <1>7, <2>2 DEF serverStops
  <2>4. Unrecorded(A)' = 0 /\ Unrecorded(U)' = 0
    BY <2>2, FS_EmptySet DEF Unrecorded
  <2>5. IsFiniteSet(all) /\ Cardinality(all) \in Nat
    <3>1. all \in SUBSET Deciders
      OBVIOUS
    <3> QED
      BY <3>1, FS_Subset, FS_CardinalityType, HostArchiveAssumption
  <2>6. ArchiveTyped'
    <3> HIDE DEF all
    <3>1. undone' \in Nat /\ moves' \in Nat
      BY <1>c, <2>1, <2>5
    <3> QED
      BY Zenon, <1>a, <2>1, <2>3, <3>1 DEF ArchiveTyped
  <2>7. CheckedAway'
    BY <2>2 DEF CheckedAway
  <2>8. DecisionsAreRecordedOnce'
    <3>1. Unrecorded(U) <= Cardinality(all)
      <4>1. Writing(U) \in SUBSET all
        BY SMTT(60) DEF Writing
      <4> QED
        BY <2>5, <4>1, FS_Subset, WritingFinite
    <3> HIDE DEF all
    <3> QED
      BY <1>a, <1>c, <2>1, <2>4, <2>5, <3>1 DEF DecisionsAreRecordedOnce
  <2> QED
    BY <2>1, <2>6, <2>7, <2>8 DEF ArchiveInv
<1>8. ASSUME UNCHANGED archiveVars PROVE Goal
  BY <1>a, <1>8 DEF archiveVars, ArchiveInv, ArchiveTyped, CheckedAway, DecisionsAreRecordedOnce,
                    Unrecorded
<1> QED
  BY Zenon, <1>1, <1>2, <1>3, <1>4, <1>5, <1>6, <1>7, <1>8 DEF HostArchiveNext

(* For any number of requests, however the agent comes and goes and however   *)
(* often the server stops: a decision to archive is recorded at most once for *)
(* each time it was undone, and a host is archived under a connected agent    *)
(* only if the agent connected after the check (archive, unarchive, record,   *)
(* isConnected).                                                              *)
THEOREM ArchivingHolds == HostArchiveSpec => ArchivingIsDecided
<1>1. HostArchiveInit => ArchiveInv
  <2> SUFFICES ASSUME HostArchiveInit PROVE ArchiveInv
    OBVIOUS
  <2>1. /\ \A d \in Deciders : decider[d].at = "new"
        /\ ArchiveTyped /\ hostTrail["host.archived"] = 0 /\ hostTrail["host.unarchived"] = 0
    BY Zenon DEF HostArchiveInit, ArchiveTyped, Decider, DeciderStages, Wishes
  <2>2. Unrecorded("host.archived") = 0 /\ Unrecorded("host.unarchived") = 0
    BY <2>1, FS_EmptySet DEF Unrecorded
  <2>3. CheckedAway /\ DecisionsAreRecordedOnce
    BY <2>1, <2>2 DEF HostArchiveInit, CheckedAway, DecisionsAreRecordedOnce
  <2> QED
    BY <2>1, <2>3 DEF ArchiveInv
<1>2. ArchiveInv /\ [HostArchiveNext]_archiveVars => ArchiveInv'
  BY ArchiveStep
<1>3. ArchiveInv /\ [HostArchiveNext]_archiveVars =>
        [ /\ DecisionsAreRecordedOnce'
          /\ ~archivedAt /\ archivedAt' /\ connected
               => \E d \in Deciders : decider'[d] # decider[d] /\ decider[d].seen < moves
        ]_archiveVars
  BY ArchiveStep DEF ArchiveInv
<1> QED
  BY <1>1, <1>2, <1>3, PTL DEF HostArchiveSpec, ArchivingIsDecided
=============================================================================
