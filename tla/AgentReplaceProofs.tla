-------------------------- MODULE AgentReplaceProofs --------------------------
(***************************************************************************)
(* For any words, any number of jobs and any number of failures: a          *)
(* replacement never leaves the resource without a container, and a single  *)
(* failure in one is undone.                                                *)
(***************************************************************************)
EXTENDS AgentReplace, TLAPS

(* What is true of any job: containers are numbered as they are built, a job  *)
(* has a name, and what it names no other container of the host has.          *)
Orderly ==
  /\ \A i \in BuiltIds : i > work.n => ~There(i)
  /\ \A i \in BuiltIds : There(i) => engine[i].name \notin {<<w>> : w \in OtherNames}
  /\ work.kind = "none" => work.at = "none"
  /\ work.kind # "none" => work.name # <<>> /\ work.n > 0
  /\ work.kind = "replace" =>
       /\ work.current < work.n /\ work.at \notin {"none", "stopFirst", "remove"}
       /\ work.before.name # <<>>
       /\ work.before.name \notin {<<w>> : w \in OtherNames}
  /\ expired => severed

(* What is so of a replacement whose job is at the step `at' when e is what    *)
(* the engine has and f failures have been met.                               *)
Cleared == {staging(work.name), retired(work.name)}

(* The original is there until the new one is known to run.                   *)
Has(e, at) ==
  at \in JobSteps =>
    /\ work.before.name \notin Cleared =>
         /\ e[work.current].name # <<>>
         /\ at \in {"inspect", "clearStaging", "build", "clearRetired"}
              => e[work.current].name = work.before.name
    /\ at \in {"connect", "start", "observe", "removeOriginal"} => e[work.n].name = work.name
    /\ at = "removeOriginal" => e[work.n].running

(* Some container of the resource is there.                                   *)
Some(e) == work.before.name \in Cleared \/ \E i \in BuiltIds : e[i].name # <<>>

(* Where a replacement under its own name stands when at most one thing has   *)
(* gone wrong: the original is as its step says, the new one where it must be *)
(* for the next call to be possible, and what is being undone is the one      *)
(* failure.                                                                   *)
Untouched == {"inspect", "clearStaging", "build", "clearRetired", "stop"}

Settled(c, at) ==
  /\ c.name = IF at \in Untouched \cup {"retire", "drop", "dropRestart", "undoStart"}
              THEN work.name ELSE retired(work.name)
  /\ c.running = IF at \in Untouched \cup {"drop"} THEN work.before.running ELSE FALSE

Undo(e, at, f) ==
  (at \in JobSteps /\ work.before.name = work.name /\ f <= 1 /\ ~severed) =>
    /\ \A i \in BuiltIds \ {work.current, work.n} : e[i].name = <<>>
    /\ at # "removeOriginal" => Settled(e[work.current], at)
    /\ at \in {"clearRetired", "stop", "retire", "takeName"} => e[work.n].name = staging(work.name)
    /\ at = "undoBuild" => e[work.n].name # <<>>
    /\ at = "undoName" => e[work.n].name = <<>>
    /\ at \in {"dropRestart", "undoBuild", "undoName", "undoStart"} => f = 1
    /\ at = "observe" /\ ~e[work.n].running => f = 1
    /\ at = "undoStart" => work.before.running

HasOriginal == work.kind = "replace" => Has(engine, work.at)
Undoable == work.kind = "replace" => Undo(engine, work.at, failures)

ReplaceInv == AgentReplaceTypeOK /\ Orderly /\ HasOriginal /\ NeverNeither /\ Undoable

-----------------------------------------------------------------------------
(* A state of the engine that is in order: typed, names unique and not those  *)
(* of others, and nothing built that no job has built.                        *)
Good(e) ==
  /\ e \in [BuiltIds -> Containers]
  /\ \A i \in BuiltIds : e[i].running => e[i].name # <<>>
  /\ \A i, j \in BuiltIds : e[i].name # <<>> /\ e[i].name = e[j].name => i = j
  /\ \A i \in BuiltIds : i > work.n => e[i].name = <<>>
  /\ \A i \in BuiltIds : e[i].name \notin {<<w>> : w \in OtherNames}

Jobs == [n : BuiltIds, kind : {"none", "create", "replace", "remove"},
         at : JobEnds \cup JobSteps, current : BuiltIds, name : Names, before : Containers]

(* The two suffixes make three names of one, none of them a word.             *)
LEMMA NamesApart ==
  ASSUME NEW n \in Names, n # <<>>
  PROVE  /\ staging(n) \in Names /\ retired(n) \in Names
         /\ staging(n) # <<>> /\ retired(n) # <<>>
         /\ staging(n) # n /\ retired(n) # n /\ staging(n) # retired(n)
         /\ \A w : staging(n) # <<w>> /\ retired(n) # <<w>>
<1>1. Len(n) \in Nat /\ Len(n) # 0
  BY DEF Names
<1>2. /\ staging(n) \in Names /\ Len(staging(n)) = Len(n) + 1
      /\ staging(n)[Len(n) + 1] = "dockplane-new"
  BY <1>1 DEF Names, staging
<1>3. /\ retired(n) \in Names /\ Len(retired(n)) = Len(n) + 1
      /\ retired(n)[Len(n) + 1] = "dockplane-old"
  BY <1>1 DEF Names, retired
<1>4. staging(n) # retired(n)
  BY Zenon, <1>2, <1>3
<1>5. \A w : Len(<<w>>) = 1 /\ Len(<<>>) = 0
  BY Zenon
<1> QED
  BY <1>1, <1>2, <1>3, <1>4, <1>5

(* It holds before any job has been asked for. *)
LEMMA ReplaceInitially == AgentReplaceInit => ReplaceInv
<1> SUFFICES ASSUME AgentReplaceInit PROVE ReplaceInv
  BY Zenon
<1>1. <<>> \in Names /\ \A w \in Words : <<w>> \in Names /\ <<w>> # <<>>
  BY DEF Names
<1>2. 0 \in BuiltIds /\ \A i \in BuiltIds : i \in Nat
  BY AgentReplaceAssumption DEF BuiltIds
<1>3. PICK w \in Words \ OtherNames, up \in BOOLEAN :
        engine = [i \in BuiltIds |-> IF i = 0 THEN [name |-> <<w>>, running |-> up] ELSE Gone]
  BY Zenon DEF AgentReplaceInit
<1>4. work = [n |-> 0, kind |-> "none", at |-> "none", current |-> 0, name |-> <<>>,
              before |-> Gone] /\ expired = FALSE /\ failures = 0 /\ severed = FALSE
  BY Zenon DEF AgentReplaceInit
<1>5. <<w>> \notin {<<v>> : v \in OtherNames}
  BY Zenon, <1>3
<1>6. AgentReplaceTypeOK
  <2>1. Gone \in Containers /\ [name |-> <<w>>, running |-> up] \in Containers
    BY Zenon, <1>1, <1>3 DEF Gone, Containers
  <2>2. engine \in [BuiltIds -> Containers]
    BY Zenon, <1>3, <2>1
  <2>3. \A i \in BuiltIds : i # 0 => ~There(i) /\ ~engine[i].running
    BY Zenon, <1>3 DEF There, Gone
  <2>4. There(0)
    BY Zenon, <1>1, <1>2, <1>3 DEF There
  <2>5. work \in [n : BuiltIds, kind : {"none", "create", "replace", "remove"},
                  at : JobEnds \cup JobSteps, current : BuiltIds, name : Names,
                  before : Containers]
    BY Zenon, <1>1, <1>2, <1>4, <2>1 DEF JobEnds
  <2> QED
    BY <1>4, <2>2, <2>3, <2>4, <2>5, AgentReplaceAssumption DEF AgentReplaceTypeOK, Claimants
<1>7. Orderly
  BY <1>1, <1>2, <1>3, <1>4, <1>5 DEF Orderly, There, Gone
<1> QED
  BY Zenon, <1>4, <1>6, <1>7 DEF ReplaceInv, HasOriginal, NeverNeither, Undoable

(* The types and the order of things, as facts about one variable at a time.  *)
WorkOrderly ==
  /\ work \in Jobs
  /\ work.kind = "none" => work.at = "none"
  /\ work.kind # "none" => work.name # <<>> /\ work.n > 0
  /\ work.kind = "replace" =>
       /\ work.current < work.n /\ work.at \notin {"none", "stopFirst", "remove"}
       /\ work.before.name # <<>>
       /\ work.before.name \notin {<<w>> : w \in OtherNames}

Counted ==
  /\ expired \in BOOLEAN /\ failures \in 0 .. MaxFailures /\ severed \in BOOLEAN
  /\ expired => severed

(* The type and the order of a state, split into the engine, the job and the counters. *)
LEMMA InOrder == (AgentReplaceTypeOK /\ Orderly) <=> (Good(engine) /\ WorkOrderly /\ Counted)
  BY DEF AgentReplaceTypeOK, Orderly, Good, Jobs, Claimants, There, WorkOrderly, Counted

(* What one Docker call does to the job: it goes on, it ends, or the answer is lost. *)
LEMMA CallIs ==
  ASSUME NEW step, NEW STATE next, NEW STATE onError, NEW STATE possible, NEW STATE effect,
         work \in Jobs, DockerCall(step, possible, effect, next, onError),
         next \in JobEnds \cup JobSteps, onError \in JobEnds \cup JobSteps
  PROVE  /\ work.at = step
         /\ work' \in Jobs /\ work'.n = work.n /\ work'.kind = work.kind
         /\ work'.current = work.current /\ work'.name = work.name /\ work'.before = work.before
         /\ \/ /\ possible /\ ~expired
               /\ engine' = effect /\ work'.at = next
               /\ expired' = expired /\ failures' = failures /\ severed' = severed
            \/ /\ possible /\ ~expired
               /\ engine' = engine /\ work'.at = onError
               /\ failures < MaxFailures /\ failures' = failures + 1
               /\ expired' = expired /\ severed' = severed
            \/ /\ ~(possible /\ ~expired)
               /\ engine' = engine /\ work'.at = onError
               /\ expired' = expired /\ failures' = failures /\ severed' = severed
            \/ /\ possible /\ ~expired
               /\ engine' = effect /\ work'.at = onError
               /\ expired' /\ failures' = failures /\ severed'
  BY Zenon DEF DockerCall, Jobs

(* A call that leaves a good engine leaves the state in order. *)
LEMMA CallKeepsOrder ==
  ASSUME NEW step, NEW STATE next, NEW STATE onError, NEW STATE possible, NEW STATE effect,
         Good(engine), WorkOrderly, Counted, step \in JobSteps,
         DockerCall(step, possible, effect, next, onError),
         next \in (JobEnds \cup JobSteps) \ {"none"},
         onError \in (JobEnds \cup JobSteps) \ {"none"},
         work.kind = "replace" => {next, onError} \cap {"stopFirst", "remove"} = {},
         possible => Good(effect)
  PROVE  (Good(engine) /\ WorkOrderly /\ Counted)'
<1>1. next \in JobEnds \cup JobSteps /\ onError \in JobEnds \cup JobSteps /\ work \in Jobs
  BY Zenon DEF WorkOrderly
<1>2. /\ work.at = step
      /\ work' \in Jobs /\ work'.n = work.n /\ work'.kind = work.kind
      /\ work'.current = work.current /\ work'.name = work.name /\ work'.before = work.before
      /\ work'.at \in {next, onError}
  BY Zenon, <1>1 DEF DockerCall, Jobs
<1>3. engine' = engine \/ (possible /\ engine' = effect)
  BY Zenon DEF DockerCall
<1>4. Good(engine)'
  BY <1>2, <1>3 DEF Good
<1>5. WorkOrderly'
  <2>1. work.kind # "none"
    BY Zenon, <1>2 DEF WorkOrderly, JobSteps
  <2> QED
    BY Zenon, <1>2, <2>1 DEF WorkOrderly
<1>6. failures' \in 0 .. MaxFailures
  BY AgentReplaceAssumption DEF DockerCall, Counted
<1>7. /\ expired' \in BOOLEAN /\ severed' \in BOOLEAN
      /\ expired' => severed'
  <2>1. (expired' = expired /\ severed' = severed) \/ (expired' = TRUE /\ severed' = TRUE)
    BY Zenon DEF DockerCall
  <2>2. CASE expired' = expired /\ severed' = severed
    BY Zenon, <2>2 DEF Counted
  <2>3. CASE expired' = TRUE /\ severed' = TRUE
    BY Zenon, <2>3
  <2> QED
    BY Zenon, <2>1, <2>2, <2>3
<1> QED
  BY Zenon, <1>4, <1>5, <1>6, <1>7 DEF Counted

-----------------------------------------------------------------------------
(* What the calls do to the containers, each container by itself.             *)
LEMMA SameContainer ==
  ASSUME NEW c \in Containers, NEW d \in Containers, c.name = d.name, c.running = d.running
  PROVE  c = d
  BY DEF Containers

(* Removing a container leaves the engine good. *)
LEMMA RemovingIsGood ==
  ASSUME NEW S, Good(engine)
  PROVE  /\ Good(Without(S))
         /\ \A i \in BuiltIds : Without(S)[i] = IF i \in S THEN Gone ELSE engine[i]
<1>1. \A i \in BuiltIds : Without(S)[i] = IF i \in S THEN Gone ELSE engine[i]
  BY Zenon DEF Without
<1>2. Gone \in Containers /\ Gone.name = <<>> /\ Gone.running = FALSE
  BY DEF Gone, Containers, Names
<1>3. Without(S) \in [BuiltIds -> Containers]
  BY Zenon, <1>2 DEF Without, Good
<1>4. \A w : <<>> # <<w>>
  BY Zenon
<1>5. \A i, j \in BuiltIds :
        Without(S)[i].name # <<>> /\ Without(S)[i].name = Without(S)[j].name => i = j
  BY <1>1, <1>2 DEF Good
<1>6. \A i \in BuiltIds : /\ Without(S)[i].running => Without(S)[i].name # <<>>
                          /\ i > work.n => Without(S)[i].name = <<>>
  BY <1>1, <1>2 DEF Good
<1>7. \A i \in BuiltIds : Without(S)[i].name \notin {<<w>> : w \in OtherNames}
  BY <1>1, <1>2, <1>4 DEF Good
<1>8. Good(Without(S))
  BY Zenon, <1>3, <1>5, <1>6, <1>7 DEF Good
<1> QED
  BY Zenon, <1>1, <1>8

(* Starting or stopping a container leaves the engine good. *)
LEMMA TurningIsGood ==
  ASSUME NEW i \in BuiltIds, NEW up \in BOOLEAN, Good(engine), up => There(i)
  PROVE  /\ Good(Running(i, up))
         /\ \A j \in BuiltIds : Running(i, up)[j].name = engine[j].name
         /\ \A j \in BuiltIds \ {i} : Running(i, up)[j] = engine[j]
         /\ Running(i, up)[i].running = up
<1>1. engine[i] \in Containers /\ engine \in [BuiltIds -> Containers]
  BY Zenon DEF Good
<1>2. \A j \in BuiltIds \ {i} : Running(i, up)[j] = engine[j]
  BY Zenon, <1>1 DEF Running
<1>3. Running(i, up)[i] \in Containers /\ Running(i, up)[i].name = engine[i].name
        /\ Running(i, up)[i].running = up
  BY Zenon, <1>1 DEF Running, Containers
<1>4. Running(i, up) \in [BuiltIds -> Containers]
  BY Zenon, <1>1, <1>3 DEF Running, Containers
<1> QED
  BY <1>2, <1>3, <1>4 DEF Good, There

(* Renaming a container to a free name leaves the engine good. *)
LEMMA RenamingIsGood ==
  ASSUME NEW i \in BuiltIds, NEW n \in Names, n # <<>>, Good(engine), There(i), NameFree(n)
  PROVE  /\ Good(Renamed(i, n))
         /\ \A j \in BuiltIds : Renamed(i, n)[j].running = engine[j].running
         /\ \A j \in BuiltIds \ {i} : Renamed(i, n)[j] = engine[j]
         /\ Renamed(i, n)[i].name = n
<1>1. engine[i] \in Containers /\ engine \in [BuiltIds -> Containers]
  BY Zenon DEF Good
<1>2. \A j \in BuiltIds \ {i} : Renamed(i, n)[j] = engine[j]
  BY Zenon, <1>1 DEF Renamed
<1>3. Renamed(i, n)[i] \in Containers /\ Renamed(i, n)[i].name = n
        /\ Renamed(i, n)[i].running = engine[i].running
  BY Zenon, <1>1 DEF Renamed, Containers
<1>4. Renamed(i, n) \in [BuiltIds -> Containers]
  BY Zenon, <1>1, <1>3 DEF Renamed, Containers
<1> QED
  BY <1>2, <1>3, <1>4 DEF Good, There, NameFree

Building(i, n) == [engine EXCEPT ![i] = [name |-> n, running |-> FALSE]]

(* Building a container under a free name leaves the engine good. *)
LEMMA BuildingIsGood ==
  ASSUME NEW n \in Names, n # <<>>, Good(engine), work \in Jobs, NameFree(n)
  PROVE  /\ Good(Building(work.n, n))
         /\ \A j \in BuiltIds \ {work.n} : Building(work.n, n)[j] = engine[j]
         /\ Building(work.n, n)[work.n].name = n
<1>1. work.n \in BuiltIds /\ engine \in [BuiltIds -> Containers]
  BY Zenon DEF Good, Jobs
<1>2. \A j \in BuiltIds \ {work.n} : Building(work.n, n)[j] = engine[j]
  BY Zenon, <1>1 DEF Building
<1>3. Building(work.n, n)[work.n] \in Containers /\ Building(work.n, n)[work.n].name = n
        /\ Building(work.n, n)[work.n].running = FALSE
  BY Zenon, <1>1 DEF Building, Containers
<1>4. Building(work.n, n) \in [BuiltIds -> Containers]
  BY Zenon, <1>1, <1>3 DEF Building, Containers
<1>5. \A j \in BuiltIds : j > work.n => j # work.n
  BY <1>1, AgentReplaceAssumption DEF BuiltIds
<1> QED
  BY <1>1, <1>2, <1>3, <1>4, <1>5 DEF Good, There, NameFree

-----------------------------------------------------------------------------
(* The steps of a job, one by one.                                            *)
Rest == HasOriginal /\ NeverNeither /\ Undoable

(* Nothing is asked of a job that is not a replacement. *)
LEMMA OfOthers == ASSUME work'.kind # "replace" PROVE Rest'
  BY Zenon DEF Rest, HasOriginal, NeverNeither, Undoable

(* Facts about the count of failures, kept apart from the rest. *)
LEMMA Numbers ==
  ASSUME Good(engine), WorkOrderly
  PROVE  /\ work \in Jobs /\ work.n \in BuiltIds /\ work.current \in BuiltIds
         /\ work.name \in Names /\ work.before \in Containers
         /\ engine \in [BuiltIds -> Containers]
         /\ \A i \in BuiltIds : engine[i] \in Containers
         /\ work.kind = "replace" => work.current # work.n /\ work.name # <<>>
<1>1. \A i \in BuiltIds : i \in Nat
  BY AgentReplaceAssumption DEF BuiltIds
<1> QED
  BY <1>1 DEF Good, WorkOrderly, Jobs

(* What a replacement ends with, and that this step does not end it with      *)
(* anything else.                                                             *)
Ends(e, at, f) ==
  (f <= 1 /\ ~severed) =>
    /\ at = "ok" => e[work.n] = [name |-> work.name, running |-> TRUE]
    /\ at = "failed" /\ work.before.name = work.name => e[work.current] = work.before

EndsRight ==
  (work.kind = "replace" /\ work.at \in JobSteps /\ failures' <= 1 /\ ~severed') =>
    /\ work'.at = "ok" => engine'[work.n] = [name |-> work.name, running |-> TRUE]
    /\ work'.at = "failed" /\ work.before.name = work.name => engine'[work.current] = work.before

(* A call keeps what is so of a replacement, if its effect, and its failure,  *)
(* do.                                                                        *)
LEMMA CallKeepsRest ==
  ASSUME NEW step, NEW STATE next, NEW STATE onError, NEW STATE possible, NEW STATE effect,
         work \in Jobs, Counted, work.kind = "replace",
         DockerCall(step, possible, effect, next, onError),
         next \in JobEnds \cup JobSteps, onError \in JobEnds \cup JobSteps,
         possible \in BOOLEAN,
         Some(engine), possible => Some(effect),
         Has(engine, onError), possible => Has(effect, next) /\ Has(effect, onError),
         possible => Undo(effect, next, failures) /\ Undo(engine, onError, failures + 1),
         ~possible => Undo(engine, onError, failures),
         possible => Ends(effect, next, failures) /\ Ends(engine, onError, failures + 1),
         ~possible => Ends(engine, onError, failures)
  PROVE  Rest' /\ EndsRight
<1>1. /\ work'.n = work.n /\ work'.kind = work.kind /\ work'.current = work.current
      /\ work'.name = work.name /\ work'.before = work.before
      /\ work'.at \in {next, onError}
  BY Zenon DEF DockerCall, Jobs
<1>2. \/ possible /\ engine' = effect /\ work'.at = next /\ failures' = failures
         /\ severed' = severed
      \/ possible /\ engine' = engine /\ work'.at = onError /\ failures' = failures + 1
         /\ severed' = severed
      \/ (~possible \/ severed) /\ engine' = engine /\ work'.at = onError
         /\ failures' = failures /\ severed' = severed
      \/ possible /\ engine' = effect /\ work'.at = onError /\ severed' = TRUE
  BY Zenon DEF DockerCall, Jobs, Counted
<1>3. NeverNeither'
  BY Zenon, <1>1, <1>2 DEF NeverNeither, Some, Cleared, Claimants, There
<1>4. HasOriginal'
  BY Zenon, <1>1, <1>2 DEF HasOriginal, Has, Cleared
<1>5. Undoable'
  BY ZenonT(60), <1>1, <1>2 DEF Undoable, Undo, Settled
<1>6. EndsRight
  BY Zenon, <1>1, <1>2 DEF EndsRight, Ends
<1> QED
  BY Zenon, <1>3, <1>4, <1>5, <1>6 DEF Rest

All == Good(engine) /\ WorkOrderly /\ Counted /\ Rest

(* What every step may use of the state it starts from. *)
LEMMA Standing ==
  ASSUME All
  PROVE  /\ Good(engine) /\ WorkOrderly /\ Counted /\ Rest /\ failures \in Nat
         /\ work \in Jobs /\ work.n \in BuiltIds /\ work.current \in BuiltIds
         /\ work.name \in Names /\ work.before \in Containers
         /\ engine \in [BuiltIds -> Containers]
         /\ \A i \in BuiltIds : engine[i] \in Containers
         /\ work.kind = "replace" =>
              /\ work.current # work.n /\ work.name # <<>> /\ work.before.running \in BOOLEAN
              /\ Some(engine) /\ Has(engine, work.at) /\ Undo(engine, work.at, failures)
<1>1. failures \in Nat
  BY AgentReplaceAssumption DEF All, Counted
<1>2. work.before \in Containers => work.before.running \in BOOLEAN
  BY Zenon DEF Containers
<1>3. NeverNeither => (work.kind = "replace" => Some(engine))
  BY Zenon DEF NeverNeither, Some, Cleared, Claimants, There
<1> QED
  BY Zenon, <1>1, <1>2, <1>3, Numbers DEF All, Rest, HasOriginal, Undoable

(* stop keeps the invariant, whether or not the original stops. *)
LEMMA StopStep == ASSUME All, stop PROVE All' /\ EndsRight
<1> USE Standing
<1> DEFINE e == Running(work.current, FALSE)
           possible == There(work.current)
<1>0. work.at = "stop" /\ work.name # <<>>
  BY Zenon DEF stop, DockerCall, WorkOrderly
<1>1. possible => Good(e)
  BY Zenon, TurningIsGood
<1>2. (Good(engine) /\ WorkOrderly /\ Counted)'
  BY Zenon, <1>1, CallKeepsOrder DEF stop, JobSteps, JobEnds
<1>3. work'.kind = work.kind /\ work.at = "stop"
  BY Zenon, CallIs DEF stop, JobSteps, JobEnds
<1>4. CASE work.kind = "replace"
  <2>1. (\A i \in BuiltIds : e[i].name = engine[i].name) /\ e[work.current].running = FALSE
    BY Zenon, TurningIsGood
  <2>2. possible \in BOOLEAN
    BY Zenon DEF There, NameFree
  <2>3. failures + 1 <= 1 => failures = 0 /\ failures + 1 = 1 /\ failures <= 1
    OBVIOUS
  <2>4. possible => Some(e)
    BY Zenon, <1>3, <1>4, <2>1, <2>3 DEF Some, Has, JobSteps, There, Cleared
  <2>5. possible => Has(e, "retire")
    BY Zenon, <1>3, <1>4, <2>1, <2>3 DEF Has, JobSteps, Cleared, There
  <2>6. Has(engine, "drop")
    BY Zenon, <1>3, <1>4, <2>1, <2>3 DEF Has, JobSteps, Cleared
  <2>7. possible => Has(e, "drop")
    BY Zenon, <1>3, <1>4, <2>1, <2>3 DEF Has, JobSteps, Cleared, There
  <2>8. possible => Undo(e, "retire", failures)
    BY Zenon, <1>3, <1>4, <2>1, <2>3 DEF Undo, Settled, Untouched, JobSteps, There
  <2>9. Undo(engine, "drop", failures + 1)
    BY Zenon, <1>3, <1>4, <2>1, <2>3 DEF Undo, Has, Settled, Untouched, JobSteps
  <2>10. ~possible => Undo(engine, "drop", failures)
    BY Zenon, <1>3, <1>4, <2>1, <2>3 DEF Undo, Settled, Untouched, JobSteps, There
  <2>11. Ends(e, "retire", failures) /\ Ends(engine, "retire", failures)
         /\ Ends(engine, "retire", failures + 1)
    BY Zenon DEF Ends
  <2>12. Ends(e, "drop", failures) /\ Ends(engine, "drop", failures)
         /\ Ends(engine, "drop", failures + 1)
    BY Zenon DEF Ends
  <2>13. Rest' /\ EndsRight
    BY Zenon, <1>3, <1>4, <2>1, <2>2, <2>3, <2>4, <2>5, <2>6, <2>7, <2>8, <2>9, <2>10, <2>11,
       <2>12, CallKeepsRest DEF stop, JobSteps, JobEnds
  <2> QED
    BY Zenon, <1>2, <2>13 DEF All
<1> QED
  BY Zenon, <1>2, <1>3, <1>4, OfOthers DEF All, EndsRight

(* inspectOriginal keeps the invariant. *)
LEMMA InspectStep == ASSUME All, inspectOriginal PROVE All' /\ EndsRight
<1> USE Standing
<1> DEFINE e == engine
           possible == There(work.current)
<1>0. work.at = "inspect" /\ work.name # <<>>
  BY Zenon DEF inspectOriginal, DockerCall, WorkOrderly
<1>1. possible => Good(e)
  BY Zenon
<1>2. (Good(engine) /\ WorkOrderly /\ Counted)'
  BY Zenon, <1>1, CallKeepsOrder DEF inspectOriginal, JobSteps, JobEnds
<1>3. work'.kind = work.kind /\ work.at = "inspect"
  BY Zenon, CallIs DEF inspectOriginal, JobSteps, JobEnds
<1>4. CASE work.kind = "replace"
  <2>1. possible \in BOOLEAN
    BY Zenon DEF There, NameFree
  <2>2. failures + 1 <= 1 => failures = 0 /\ failures + 1 = 1 /\ failures <= 1
    OBVIOUS
  <2>3. Has(engine, "clearStaging")
    BY Zenon, <1>3, <1>4, <2>2 DEF Has, JobSteps, Cleared
  <2>4. possible => Undo(e, "clearStaging", failures)
    BY Zenon, <1>3, <1>4, <2>2 DEF Undo, Settled, Untouched, JobSteps, There
  <2>5. Ends(e, "clearStaging", failures) /\ Ends(engine, "clearStaging", failures)
        /\ Ends(engine, "clearStaging", failures + 1)
    BY Zenon DEF Ends
  <2>6. /\ Has(e, "failed") /\ Has(engine, "failed") /\ Undo(e, "failed", failures)
        /\ Undo(engine, "failed", failures) /\ Undo(engine, "failed", failures + 1)
    BY Zenon DEF Has, Undo, JobSteps
  <2>7. possible => \A i \in BuiltIds : e[i] \in Containers
    BY Zenon, <1>1 DEF Good
  <2>8. Ends(engine, "failed", failures + 1)
    BY Zenon, <1>3, <1>4, <2>2, <2>7, SameContainer
       DEF Ends, Undo, Has, Settled, Untouched, JobSteps, There
  <2>9. ~possible => Ends(engine, "failed", failures)
    BY Zenon, <1>3, <1>4, <2>2, <2>7, SameContainer
       DEF Ends, Undo, Has, Settled, Untouched, JobSteps, There
  <2>10. Rest' /\ EndsRight
    BY Zenon, <1>3, <1>4, <2>1, <2>2, <2>3, <2>4, <2>5, <2>6, <2>7, <2>8, <2>9,
       CallKeepsRest DEF inspectOriginal, JobSteps, JobEnds
  <2> QED
    BY Zenon, <1>2, <2>10 DEF All
<1> QED
  BY Zenon, <1>2, <1>3, <1>4, OfOthers DEF All, EndsRight

(* clearStaging keeps the invariant: only what has the staging name goes. *)
LEMMA ClearStagingStep == ASSUME All, clearStaging PROVE All' /\ EndsRight
<1> USE Standing
<1> DEFINE e == Without(Named(staging(work.name)))
           possible == TRUE
<1>0. work.at = "clearStaging" /\ work.name # <<>>
  BY Zenon DEF clearStaging, DockerCall, WorkOrderly
<1>1. possible => Good(e)
  BY Zenon, RemovingIsGood
<1>2. (Good(engine) /\ WorkOrderly /\ Counted)'
  BY Zenon, <1>1, CallKeepsOrder DEF clearStaging, JobSteps, JobEnds
<1>3. work'.kind = work.kind /\ work.at = "clearStaging"
  BY Zenon, CallIs DEF clearStaging, JobSteps, JobEnds
<1>4. CASE work.kind = "replace"
  <2>1. /\ work.name # <<>> /\ work.name # staging(work.name)
        /\ \A i \in BuiltIds : e[i] =
             IF engine[i].name = staging(work.name) THEN Gone ELSE engine[i]
        /\ Gone.name = <<>>
    BY <1>4, RemovingIsGood, NamesApart DEF Named, Gone
  <2>2. failures + 1 <= 1 => failures = 0 /\ failures + 1 = 1 /\ failures <= 1
    OBVIOUS
  <2>3. possible => Some(e)
    BY Zenon, <1>3, <1>4, <2>1, <2>2 DEF Some, Has, JobSteps, There, Cleared
  <2>4. Has(engine, "build")
    BY Zenon, <1>3, <1>4, <2>1, <2>2 DEF Has, JobSteps, Cleared
  <2>5. possible => Has(e, "build")
    BY Zenon, <1>3, <1>4, <2>1, <2>2 DEF Has, JobSteps, Cleared, There
  <2>6. possible => Undo(e, "build", failures)
    BY Zenon, <1>3, <1>4, <2>1, <2>2 DEF Undo, Settled, Untouched, JobSteps, There
  <2>7. Undo(engine, "build", failures + 1)
    BY Zenon, <1>3, <1>4, <2>1, <2>2 DEF Undo, Has, Settled, Untouched, JobSteps
  <2>8. Ends(e, "build", failures) /\ Ends(engine, "build", failures)
        /\ Ends(engine, "build", failures + 1)
    BY Zenon DEF Ends
  <2>9. Rest' /\ EndsRight
    BY Zenon, <1>3, <1>4, <2>1, <2>2, <2>3, <2>4, <2>5, <2>6, <2>7, <2>8, CallKeepsRest
       DEF clearStaging, JobSteps, JobEnds
  <2> QED
    BY Zenon, <1>2, <2>9 DEF All
<1> QED
  BY Zenon, <1>2, <1>3, <1>4, OfOthers DEF All, EndsRight

(* clearRetired keeps the invariant: only what has the retired name goes. *)
LEMMA ClearRetiredStep == ASSUME All, clearRetired PROVE All' /\ EndsRight
<1> USE Standing
<1> DEFINE e == Without(Named(retired(work.name)))
           possible == TRUE
<1>0. work.at = "clearRetired" /\ work.name # <<>>
  BY Zenon DEF clearRetired, DockerCall, WorkOrderly
<1>1. possible => Good(e)
  BY Zenon, RemovingIsGood
<1>2. (Good(engine) /\ WorkOrderly /\ Counted)'
  BY Zenon, <1>1, CallKeepsOrder DEF clearRetired, JobSteps, JobEnds
<1>3. work'.kind = work.kind /\ work.at = "clearRetired"
  BY ZenonT(60), CallIs DEF clearRetired, JobSteps, JobEnds
<1>4. CASE work.kind = "replace"
  <2>1. /\ work.name # <<>> /\ work.name # retired(work.name)
        /\ staging(work.name) # retired(work.name)
        /\ \A i \in BuiltIds : e[i] =
             IF engine[i].name = retired(work.name) THEN Gone ELSE engine[i]
        /\ Gone.name = <<>>
    BY <1>4, RemovingIsGood, NamesApart DEF Named, Gone
  <2>2. failures + 1 <= 1 => failures = 0 /\ failures + 1 = 1 /\ failures <= 1
    OBVIOUS
  <2>3. possible => Some(e)
    BY Zenon, <1>3, <1>4, <2>1, <2>2 DEF Some, Has, JobSteps, There, Cleared
  <2>4. Has(engine, "stop")
    BY Zenon, <1>3, <1>4, <2>1, <2>2 DEF Has, JobSteps, Cleared
  <2>5. possible => Has(e, "stop")
    BY Zenon, <1>3, <1>4, <2>1, <2>2 DEF Has, JobSteps, Cleared, There
  <2>6. possible => Undo(e, "stop", failures)
    BY Zenon, <1>3, <1>4, <2>1, <2>2 DEF Undo, Settled, Untouched, JobSteps, There
  <2>7. Undo(engine, "stop", failures + 1)
    BY Zenon, <1>3, <1>4, <2>1, <2>2 DEF Undo, Has, Settled, Untouched, JobSteps
  <2>8. Ends(e, "stop", failures) /\ Ends(engine, "stop", failures)
        /\ Ends(engine, "stop", failures + 1)
    BY Zenon DEF Ends
  <2>9. Rest' /\ EndsRight
    BY Zenon, <1>3, <1>4, <2>1, <2>2, <2>3, <2>4, <2>5, <2>6, <2>7, <2>8, CallKeepsRest
       DEF clearRetired, JobSteps, JobEnds
  <2> QED
    BY Zenon, <1>2, <2>9 DEF All
<1> QED
  BY Zenon, <1>2, <1>3, <1>4, OfOthers DEF All, EndsRight

(* retire keeps the invariant: the original is stopped and has its retired name. *)
LEMMA RetireStep == ASSUME All, retire PROVE All' /\ EndsRight
<1> USE Standing
<1> DEFINE e == Renamed(work.current, retired(work.name))
           possible == There(work.current) /\ NameFree(retired(work.name))
<1>0. work.at = "retire" /\ work.name # <<>>
  BY Zenon DEF retire, DockerCall, WorkOrderly
<1>1. possible => Good(e)
  BY Zenon, <1>0, RenamingIsGood, NamesApart
<1>2. (Good(engine) /\ WorkOrderly /\ Counted)'
  BY Zenon, <1>1, CallKeepsOrder DEF retire, JobSteps, JobEnds
<1>3. work'.kind = work.kind /\ work.at = "retire"
  BY Zenon, CallIs DEF retire, JobSteps, JobEnds
<1>4. CASE work.kind = "replace"
  <2>1. possible => /\ \A i \in BuiltIds : e[i].running = engine[i].running
                    /\ \A i \in BuiltIds \ {work.current} : e[i] = engine[i]
                    /\ e[work.current].name = retired(work.name)
    BY <1>4, RenamingIsGood, NamesApart
  <2>2. /\ \A w \in OtherNames : retired(work.name) # <<w>>
        /\ retired(work.name) \in Names /\ retired(work.name) # <<>>
        /\ staging(work.name) # <<>> /\ staging(work.name) # work.name
        /\ retired(work.name) # work.name /\ staging(work.name) # retired(work.name)
    BY Zenon, <1>4, NamesApart DEF WorkOrderly
  <2>3. (work.before.name = work.name /\ failures <= 1 /\ ~severed) => possible
    BY Zenon, <1>3, <1>4, <2>1, <2>2 DEF Undo, Has, Settled, Untouched, JobSteps, There, NameFree
  <2>4. possible \in BOOLEAN
    BY Zenon DEF There, NameFree
  <2>5. failures + 1 <= 1 => failures = 0 /\ failures + 1 = 1 /\ failures <= 1
    OBVIOUS
  <2>6. possible => Some(e)
    BY Zenon, <1>3, <1>4, <2>1, <2>2, <2>5 DEF Some, Has, JobSteps, There, Cleared
  <2>7. possible => Has(e, "takeName")
    BY Zenon, <1>3, <1>4, <2>1, <2>2, <2>5 DEF Has, JobSteps, Cleared, There
  <2>8. Has(engine, "dropRestart")
    BY Zenon, <1>3, <1>4, <2>1, <2>2, <2>5 DEF Has, JobSteps, Cleared
  <2>9. possible => Has(e, "dropRestart")
    BY Zenon, <1>3, <1>4, <2>1, <2>2, <2>5 DEF Has, JobSteps, Cleared, There
  <2>10. possible => Undo(e, "takeName", failures)
    <3>1. (work.before.name = work.name /\ failures <= 1 /\ ~severed) =>
            /\ \A i \in BuiltIds \ {work.current, work.n} : engine[i].name = <<>>
            /\ Settled(engine[work.current], "retire") /\ engine[work.n].name = staging(work.name)
      BY Zenon, <1>3, <1>4 DEF Undo, JobSteps
    <3>2. possible =>
          (Settled(engine[work.current], "retire") => Settled(e[work.current], "takeName"))
      BY Zenon, <2>1 DEF Settled, Untouched
    <3> QED
      BY Zenon, <1>4, <2>1, <3>1, <3>2 DEF Undo
  <2>11. Undo(engine, "dropRestart", failures + 1)
    BY ZenonT(60), <1>3, <1>4, <2>1, <2>2, <2>5 DEF Undo, Has, Settled, Untouched, JobSteps
  <2>12. ~possible => Undo(engine, "dropRestart", failures)
    BY Zenon, <2>3 DEF Undo
  <2>13. Ends(e, "takeName", failures) /\ Ends(engine, "takeName", failures)
         /\ Ends(engine, "takeName", failures + 1)
    BY Zenon DEF Ends
  <2>14. Ends(e, "dropRestart", failures) /\ Ends(engine, "dropRestart", failures)
         /\ Ends(engine, "dropRestart", failures + 1)
    BY Zenon DEF Ends
  <2>15. Rest' /\ EndsRight
    BY Zenon, <1>3, <1>4, <2>1, <2>2, <2>3, <2>4, <2>5, <2>6, <2>7, <2>8, <2>9, <2>10, <2>11,
       <2>12, <2>13, <2>14, CallKeepsRest DEF retire, JobSteps, JobEnds
  <2> QED
    BY Zenon, <1>2, <2>15 DEF All
<1> QED
  BY Zenon, <1>2, <1>3, <1>4, OfOthers DEF All, EndsRight

(* takeName keeps the invariant: the new container has the resource's name. *)
LEMMA TakeNameStep == ASSUME All, takeName PROVE All' /\ EndsRight
<1> USE Standing
<1> DEFINE e == Renamed(work.n, work.name)
           possible == There(work.n) /\ NameFree(work.name)
<1>0. work.at = "takeName" /\ work.name # <<>>
  BY Zenon DEF takeName, DockerCall, WorkOrderly
<1>1. possible => Good(e)
  BY Zenon, <1>0, RenamingIsGood
<1>2. (Good(engine) /\ WorkOrderly /\ Counted)'
  BY Zenon, <1>1, CallKeepsOrder DEF takeName, JobSteps, JobEnds
<1>3. work'.kind = work.kind /\ work.at = "takeName"
  BY Zenon, CallIs DEF takeName, JobSteps, JobEnds
<1>4. CASE work.kind = "replace"
  <2>1. possible => /\ \A i \in BuiltIds : e[i].running = engine[i].running
                    /\ \A i \in BuiltIds \ {work.n} : e[i] = engine[i]
                    /\ e[work.n].name = work.name
    BY <1>4, RenamingIsGood
  <2>2. /\ \A w \in OtherNames : retired(work.name) # <<w>>
        /\ retired(work.name) \in Names /\ retired(work.name) # <<>>
        /\ staging(work.name) # <<>> /\ staging(work.name) # work.name
        /\ retired(work.name) # work.name /\ staging(work.name) # retired(work.name)
        /\ work.before.name \notin {<<w>> : w \in OtherNames}
    BY Zenon, <1>4, NamesApart DEF WorkOrderly
  <2>3. (work.before.name = work.name /\ failures <= 1 /\ ~severed) => possible
    BY Zenon, <1>3, <1>4, <2>1, <2>2 DEF Undo, Has, Settled, Untouched, JobSteps, There, NameFree
  <2>4. possible \in BOOLEAN
    BY Zenon DEF There, NameFree
  <2>5. failures + 1 <= 1 => failures = 0 /\ failures + 1 = 1 /\ failures <= 1
    OBVIOUS
  <2>6. possible => Some(e)
    BY Zenon, <1>3, <1>4, <2>1, <2>2, <2>5 DEF Some, Has, JobSteps, There, Cleared
  <2>7. possible => Has(e, "connect")
    BY Zenon, <1>3, <1>4, <2>1, <2>2, <2>5 DEF Has, JobSteps, Cleared, There
  <2>8. Has(engine, "undoBuild")
    BY Zenon, <1>3, <1>4, <2>1, <2>2, <2>5 DEF Has, JobSteps, Cleared
  <2>9. possible => Has(e, "undoBuild")
    BY Zenon, <1>3, <1>4, <2>1, <2>2, <2>5 DEF Has, JobSteps, Cleared, There
  <2>10. possible => Undo(e, "connect", failures)
    BY ZenonT(60), <1>3, <1>4, <2>1, <2>2, <2>5 DEF Undo, Settled, Untouched, JobSteps, There
  <2>11. Undo(engine, "undoBuild", failures + 1)
    BY Zenon, <1>3, <1>4, <2>1, <2>2, <2>5 DEF Undo, Has, Settled, Untouched, JobSteps
  <2>12. ~possible => Undo(engine, "undoBuild", failures)
    BY Zenon, <2>3 DEF Undo
  <2>13. Ends(e, "connect", failures) /\ Ends(engine, "connect", failures)
         /\ Ends(engine, "connect", failures + 1)
    BY Zenon DEF Ends
  <2>14. Ends(e, "undoBuild", failures) /\ Ends(engine, "undoBuild", failures)
         /\ Ends(engine, "undoBuild", failures + 1)
    BY Zenon DEF Ends
  <2>15. Rest' /\ EndsRight
    BY Zenon, <1>3, <1>4, <2>1, <2>2, <2>3, <2>4, <2>5, <2>6, <2>7, <2>8, <2>9, <2>10, <2>11,
       <2>12, <2>13, <2>14, CallKeepsRest DEF takeName, JobSteps, JobEnds
  <2> QED
    BY Zenon, <1>2, <2>15 DEF All
<1> QED
  BY Zenon, <1>2, <1>3, <1>4, OfOthers DEF All, EndsRight

(* connectNetworks keeps the invariant; a failure turns to undoing. *)
LEMMA ConnectStep == ASSUME All, connectNetworks PROVE All' /\ EndsRight
<1> USE Standing
<1> DEFINE e == engine
           possible == There(work.n)
<1>0. work.at = "connect" /\ work.name # <<>>
  BY Zenon DEF connectNetworks, PutBack, DockerCall, WorkOrderly
<1>1. possible => Good(e)
  BY Zenon
<1>2. (Good(engine) /\ WorkOrderly /\ Counted)'
  BY Zenon, <1>1, CallKeepsOrder DEF connectNetworks, PutBack, JobSteps, JobEnds
<1>3. work'.kind = work.kind /\ work.at = "connect"
  BY Zenon, CallIs DEF connectNetworks, PutBack, JobSteps, JobEnds
<1>4. CASE work.kind = "replace"
  <2>1. (work.before.name = work.name /\ failures <= 1 /\ ~severed) => possible
    BY Zenon, <1>3, <1>4 DEF Undo, Has, Settled, Untouched, JobSteps, There, NameFree
  <2>2. possible \in BOOLEAN
    BY Zenon DEF There, NameFree
  <2>3. failures + 1 <= 1 => failures = 0 /\ failures + 1 = 1 /\ failures <= 1
    OBVIOUS
  <2>4. Has(engine, "start")
    BY Zenon, <1>3, <1>4, <2>3 DEF Has, JobSteps, Cleared
  <2>5. Has(engine, "undoBuild")
    BY Zenon, <1>3, <1>4, <2>3 DEF Has, JobSteps, Cleared
  <2>6. possible => Undo(e, "start", failures)
    BY Zenon, <1>3, <1>4, <2>3 DEF Undo, Settled, Untouched, JobSteps, There
  <2>7. Undo(engine, "undoBuild", failures + 1)
    BY ZenonT(60), <1>3, <1>4, <2>3 DEF Undo, Has, Settled, Untouched, JobSteps
  <2>8. ~possible => Undo(engine, "undoBuild", failures)
    BY Zenon, <2>1 DEF Undo
  <2>9. Ends(e, "start", failures) /\ Ends(engine, "start", failures)
        /\ Ends(engine, "start", failures + 1)
    BY Zenon DEF Ends
  <2>10. Ends(e, "undoBuild", failures) /\ Ends(engine, "undoBuild", failures)
         /\ Ends(engine, "undoBuild", failures + 1)
    BY Zenon DEF Ends
  <2>11. Rest' /\ EndsRight
    BY Zenon, <1>3, <1>4, <2>1, <2>2, <2>3, <2>4, <2>5, <2>6, <2>7, <2>8, <2>9, <2>10,
       CallKeepsRest DEF connectNetworks, PutBack, JobSteps, JobEnds
  <2> QED
    BY Zenon, <1>2, <2>11 DEF All
<1> QED
  BY Zenon, <1>2, <1>3, <1>4, OfOthers DEF All, EndsRight

(* start keeps the invariant; a failure turns to undoing. *)
LEMMA StartStep == ASSUME All, start PROVE All' /\ EndsRight
<1> USE Standing
<1> DEFINE e == Running(work.n, TRUE)
           possible == There(work.n)
<1>0. work.at = "start" /\ work.name # <<>>
  BY Zenon DEF start, PutBack, DockerCall, WorkOrderly
<1>1. possible => Good(e)
  BY Zenon, TurningIsGood
<1>2. (Good(engine) /\ WorkOrderly /\ Counted)'
  BY Zenon, <1>1, CallKeepsOrder DEF start, PutBack, JobSteps, JobEnds
<1>3. work'.kind = work.kind /\ work.at = "start"
  BY Zenon, CallIs DEF start, PutBack, JobSteps, JobEnds
<1>4. CASE work.kind = "replace"
  <2>1. possible => /\ \A i \in BuiltIds : e[i].name = engine[i].name
                    /\ \A i \in BuiltIds \ {work.n} : e[i] = engine[i]
                    /\ e[work.n].running = TRUE
    BY ZenonT(60), TurningIsGood
  <2>2. (work.before.name = work.name /\ failures <= 1 /\ ~severed) => possible
    BY Zenon, <1>3, <1>4, <2>1 DEF Undo, Has, Settled, Untouched, JobSteps, There, NameFree
  <2>3. possible \in BOOLEAN
    BY Zenon DEF There, NameFree
  <2>4. failures + 1 <= 1 => failures = 0 /\ failures + 1 = 1 /\ failures <= 1
    OBVIOUS
  <2>5. possible => Some(e)
    BY Zenon, <1>3, <1>4, <2>1, <2>4 DEF Some, Has, JobSteps, There, Cleared
  <2>6. possible => Has(e, "observe")
    BY ZenonT(60), <1>3, <1>4, <2>1, <2>4 DEF Has, JobSteps, Cleared, There
  <2>7. Has(engine, "undoBuild")
    BY Zenon, <1>3, <1>4, <2>1, <2>4 DEF Has, JobSteps, Cleared
  <2>8. possible => Has(e, "undoBuild")
    BY Zenon, <1>3, <1>4, <2>1, <2>4 DEF Has, JobSteps, Cleared, There
  <2>9. possible => Undo(e, "observe", failures)
    BY ZenonT(60), <1>3, <1>4, <2>1, <2>4 DEF Undo, Settled, Untouched, JobSteps, There
  <2>10. Undo(engine, "undoBuild", failures + 1)
    BY Zenon, <1>3, <1>4, <2>1, <2>4 DEF Undo, Has, Settled, Untouched, JobSteps
  <2>11. ~possible => Undo(engine, "undoBuild", failures)
    BY Zenon, <2>2 DEF Undo
  <2>12. Ends(e, "observe", failures) /\ Ends(engine, "observe", failures)
         /\ Ends(engine, "observe", failures + 1)
    BY Zenon DEF Ends
  <2>13. Ends(e, "undoBuild", failures) /\ Ends(engine, "undoBuild", failures)
         /\ Ends(engine, "undoBuild", failures + 1)
    BY Zenon DEF Ends
  <2>14. Rest' /\ EndsRight
    BY ZenonT(60), <1>3, <1>4, <2>1, <2>2, <2>3, <2>4, <2>5, <2>6, <2>7, <2>8, <2>9, <2>10, <2>11,
       <2>12, <2>13, CallKeepsRest DEF start, PutBack, JobSteps, JobEnds
  <2> QED
    BY Zenon, <1>2, <2>14 DEF All
<1> QED
  BY Zenon, <1>2, <1>3, <1>4, OfOthers DEF All, EndsRight

(* drop keeps the invariant: the new container goes before the original was stopped. *)
LEMMA DropStep == ASSUME All, drop PROVE All' /\ EndsRight
<1> USE Standing
<1> DEFINE e == Without({work.n})
           possible == There(work.n)
<1>0. work.at = "drop" /\ work.name # <<>>
  BY Zenon DEF drop, DockerCall, WorkOrderly
<1>1. possible => Good(e)
  BY Zenon, RemovingIsGood
<1>2. (Good(engine) /\ WorkOrderly /\ Counted)'
  BY Zenon, <1>1, CallKeepsOrder DEF drop, JobSteps, JobEnds
<1>3. work'.kind = work.kind /\ work.at = "drop"
  BY Zenon, CallIs DEF drop, JobSteps, JobEnds
<1>4. CASE work.kind = "replace"
  <2>1. /\ \A i \in BuiltIds \ {work.n} : e[i] = engine[i]
        /\ e[work.n].name = <<>>
    BY Zenon DEF Without, Gone
  <2>2. possible \in BOOLEAN
    BY Zenon DEF There, NameFree
  <2>3. failures + 1 <= 1 => failures = 0 /\ failures + 1 = 1 /\ failures <= 1
    OBVIOUS
  <2>4. possible => Some(e)
    BY Zenon, <1>3, <1>4, <2>1, <2>3 DEF Some, Has, JobSteps, There, Cleared
  <2>5. /\ Has(e, "failed") /\ Has(engine, "failed") /\ Undo(e, "failed", failures)
        /\ Undo(engine, "failed", failures) /\ Undo(engine, "failed", failures + 1)
    BY Zenon DEF Has, Undo, JobSteps
  <2>6. possible => \A i \in BuiltIds : e[i] \in Containers
    BY Zenon, <1>1 DEF Good
  <2>7. possible => Ends(e, "failed", failures)
    BY ZenonT(60), <1>3, <1>4, <2>1, <2>3, <2>6, SameContainer
       DEF Ends, Undo, Has, Settled, Untouched, JobSteps, There
  <2>8. Ends(engine, "failed", failures + 1)
    BY <1>3, <1>4, <2>1, <2>3, <2>6, SameContainer
       DEF Ends, Undo, Has, Settled, Untouched, JobSteps, There
  <2>9. ~possible => Ends(engine, "failed", failures)
    BY <1>3, <1>4, <2>1, <2>3, <2>6, SameContainer
       DEF Ends, Undo, Has, Settled, Untouched, JobSteps, There
  <2>10. Rest' /\ EndsRight
    BY Zenon, <1>3, <1>4, <2>1, <2>2, <2>3, <2>4, <2>5, <2>6, <2>7, <2>8, <2>9,
       CallKeepsRest DEF drop, JobSteps, JobEnds
  <2> QED
    BY Zenon, <1>2, <2>10 DEF All
<1> QED
  BY Zenon, <1>2, <1>3, <1>4, OfOthers DEF All, EndsRight

(* undoBuild keeps the invariant: the new container goes so that its name is free. *)
LEMMA UndoBuildStep == ASSUME All, undoBuild PROVE All' /\ EndsRight
<1> USE Standing
<1> DEFINE e == Without({work.n})
           possible == There(work.n)
<1>0. work.at = "undoBuild" /\ work.name # <<>>
  BY Zenon DEF undoBuild, DockerCall, WorkOrderly
<1>1. possible => Good(e)
  BY Zenon, RemovingIsGood
<1>2. (Good(engine) /\ WorkOrderly /\ Counted)'
  BY Zenon, <1>1, CallKeepsOrder DEF undoBuild, JobSteps, JobEnds
<1>3. work'.kind = work.kind /\ work.at = "undoBuild"
  BY Zenon, CallIs DEF undoBuild, JobSteps, JobEnds
<1>4. CASE work.kind = "replace"
  <2>1. /\ \A i \in BuiltIds \ {work.n} : e[i] = engine[i]
        /\ e[work.n].name = <<>>
    BY Zenon DEF Without, Gone
  <2>2. (work.before.name = work.name /\ failures <= 1 /\ ~severed) => possible
    BY Zenon, <1>3, <1>4, <2>1 DEF Undo, Has, Settled, Untouched, JobSteps, There, NameFree
  <2>3. possible \in BOOLEAN
    BY Zenon DEF There, NameFree
  <2>4. failures + 1 <= 1 => failures = 0 /\ failures + 1 = 1 /\ failures <= 1
    OBVIOUS
  <2>5. possible => Some(e)
    BY Zenon, <1>3, <1>4, <2>1, <2>4 DEF Some, Has, JobSteps, There, Cleared
  <2>6. Has(engine, "undoName")
    BY Zenon, <1>3, <1>4, <2>1, <2>4 DEF Has, JobSteps, Cleared
  <2>7. possible => Has(e, "undoName")
    BY Zenon, <1>3, <1>4, <2>1, <2>4 DEF Has, JobSteps, Cleared, There
  <2>8. possible => Undo(e, "undoName", failures)
    BY ZenonT(60), <1>3, <1>4, <2>1, <2>4 DEF Undo, Settled, Untouched, JobSteps, There
  <2>9. Undo(engine, "undoName", failures + 1)
    BY <1>3, <1>4, <2>1, <2>4 DEF Undo, Has, Settled, Untouched, JobSteps
  <2>10. ~possible => Undo(engine, "undoName", failures)
    BY Zenon, <2>2 DEF Undo
  <2>11. Ends(e, "undoName", failures) /\ Ends(engine, "undoName", failures)
         /\ Ends(engine, "undoName", failures + 1)
    BY Zenon DEF Ends
  <2>12. Rest' /\ EndsRight
    BY Zenon, <1>3, <1>4, <2>1, <2>2, <2>3, <2>4, <2>5, <2>6, <2>7, <2>8, <2>9, <2>10, <2>11,
       CallKeepsRest DEF undoBuild, JobSteps, JobEnds
  <2> QED
    BY Zenon, <1>2, <2>12 DEF All
<1> QED
  BY Zenon, <1>2, <1>3, <1>4, OfOthers DEF All, EndsRight

(* undoStart keeps the invariant: the original runs again if it ran before. *)
LEMMA UndoStartStep == ASSUME All, undoStart PROVE All' /\ EndsRight
<1> USE Standing
<1> DEFINE e == Running(work.current, TRUE)
           possible == There(work.current)
<1>0. work.at = "undoStart" /\ work.name # <<>>
  BY Zenon DEF undoStart, DockerCall, WorkOrderly
<1>1. possible => Good(e)
  BY Zenon, TurningIsGood
<1>2. (Good(engine) /\ WorkOrderly /\ Counted)'
  BY Zenon, <1>1, CallKeepsOrder DEF undoStart, JobSteps, JobEnds
<1>3. work'.kind = work.kind /\ work.at = "undoStart"
  BY Zenon, CallIs DEF undoStart, JobSteps, JobEnds
<1>4. CASE work.kind = "replace"
  <2>1. possible => /\ \A i \in BuiltIds : e[i].name = engine[i].name
                    /\ e[work.current] \in Containers /\ e[work.current].running = TRUE
    BY ZenonT(60), <1>1, TurningIsGood DEF Good
  <2>2. (work.before.name = work.name /\ failures <= 1 /\ ~severed) => possible
    BY Zenon, <1>3, <1>4, <2>1 DEF Undo, Has, Settled, Untouched, JobSteps, There, NameFree
  <2>3. possible \in BOOLEAN
    BY Zenon DEF There, NameFree
  <2>4. failures + 1 <= 1 => failures = 0 /\ failures + 1 = 1 /\ failures <= 1
    OBVIOUS
  <2>5. possible => Some(e)
    BY ZenonT(60), <1>3, <1>4, <2>1, <2>4 DEF Some, Has, JobSteps, There, Cleared
  <2>6. /\ Has(e, "failed") /\ Has(engine, "failed") /\ Undo(e, "failed", failures)
        /\ Undo(engine, "failed", failures) /\ Undo(engine, "failed", failures + 1)
    BY Zenon DEF Has, Undo, JobSteps
  <2>7. possible => \A i \in BuiltIds : e[i] \in Containers
    BY Zenon, <1>1 DEF Good
  <2>8. possible => Ends(e, "failed", failures)
    BY ZenonT(60), <1>3, <1>4, <2>1, <2>4, <2>7, SameContainer
       DEF Ends, Undo, Has, Settled, Untouched, JobSteps, There
  <2>9. Ends(engine, "failed", failures + 1)
    BY <1>3, <1>4, <2>1, <2>4, <2>7, SameContainer
       DEF Ends, Undo, Has, Settled, Untouched, JobSteps, There
  <2>10. ~possible => Ends(engine, "failed", failures)
    BY Zenon, <2>2 DEF Ends
  <2>11. Rest' /\ EndsRight
    BY Zenon, <1>3, <1>4, <2>1, <2>2, <2>3, <2>4, <2>5, <2>6, <2>7, <2>8, <2>9, <2>10,
       CallKeepsRest DEF undoStart, JobSteps, JobEnds
  <2> QED
    BY Zenon, <1>2, <2>11 DEF All
<1> QED
  BY Zenon, <1>2, <1>3, <1>4, OfOthers DEF All, EndsRight

(* removeOriginal keeps the invariant: the new container is known to run. *)
LEMMA RemoveOriginalStep == ASSUME All, removeOriginal PROVE All' /\ EndsRight
<1> USE Standing
<1> DEFINE e == Without({work.current})
           possible == There(work.current) /\ ~engine[work.current].running
<1>0. work.at = "removeOriginal" /\ work.name # <<>>
  BY Zenon DEF removeOriginal, DockerCall, WorkOrderly
<1>1. possible => Good(e)
  BY Zenon, RemovingIsGood
<1>2. (Good(engine) /\ WorkOrderly /\ Counted)'
  BY Zenon, <1>1, CallKeepsOrder DEF removeOriginal, JobSteps, JobEnds
<1>3. work'.kind = work.kind /\ work.at = "removeOriginal"
  BY Zenon, CallIs DEF removeOriginal, JobSteps, JobEnds
<1>4. CASE work.kind = "replace"
  <2>1. /\ \A i \in BuiltIds \ {work.current} : e[i] = engine[i]
        /\ e[work.current].name = <<>>
    BY Zenon DEF Without, Gone
  <2>2. possible \in BOOLEAN
    BY Zenon DEF There, NameFree
  <2>3. failures + 1 <= 1 => failures = 0 /\ failures + 1 = 1 /\ failures <= 1
    OBVIOUS
  <2>4. possible => Some(e)
    BY Zenon, <1>3, <1>4, <2>1, <2>3 DEF Some, Has, JobSteps, There, Cleared
  <2>5. /\ Has(e, "ok") /\ Has(engine, "ok") /\ Undo(e, "ok", failures)
        /\ Undo(engine, "ok", failures) /\ Undo(engine, "ok", failures + 1)
    BY Zenon DEF Has, Undo, JobSteps
  <2>6. possible => \A i \in BuiltIds : e[i] \in Containers
    BY Zenon, <1>1 DEF Good
  <2>7. [name |-> work.name, running |-> TRUE] \in Containers
    BY Zenon DEF Containers
  <2>8. possible => Ends(e, "ok", failures)
    BY Zenon, <1>3, <1>4, <2>1, <2>3, <2>6, <2>7, SameContainer
       DEF Ends, Undo, Has, Settled, Untouched, JobSteps, There
  <2>9. Ends(engine, "ok", failures + 1)
    BY Zenon, <1>3, <1>4, <2>1, <2>3, <2>6, <2>7, SameContainer
       DEF Ends, Undo, Has, Settled, Untouched, JobSteps, There
  <2>10. ~possible => Ends(engine, "ok", failures)
    BY Zenon, <1>3, <1>4, <2>1, <2>3, <2>6, <2>7, SameContainer
       DEF Ends, Undo, Has, Settled, Untouched, JobSteps, There
  <2>11. Rest' /\ EndsRight
    BY Zenon, <1>3, <1>4, <2>1, <2>2, <2>3, <2>4, <2>5, <2>6, <2>7, <2>8, <2>9, <2>10,
       CallKeepsRest DEF removeOriginal, JobSteps, JobEnds
  <2> QED
    BY Zenon, <1>2, <2>11 DEF All
<1> QED
  BY Zenon, <1>2, <1>3, <1>4, OfOthers DEF All, EndsRight

(* build keeps the invariant, for a creation and for a replacement. *)
LEMMA BuildStep == ASSUME All, build PROVE All' /\ EndsRight
<1> USE Standing
<1> DEFINE name == IF work.kind = "create" THEN work.name ELSE staging(work.name)
           e == Building(work.n, name)
           next == IF work.kind = "create" THEN "connect" ELSE "clearRetired"
<1>0. work.at = "build" /\ work.name # <<>>
      /\ DockerCall("build", NameFree(name), e, next, "failed")
  BY Zenon DEF build, DockerCall, WorkOrderly, Building
<1>1. NameFree(name) => Good(e)
  BY Zenon, <1>0, BuildingIsGood, NamesApart
<1>2. (Good(engine) /\ WorkOrderly /\ Counted)'
  BY <1>0, <1>1, CallKeepsOrder DEF JobSteps, JobEnds
<1>3. work'.kind = work.kind
  BY Zenon, <1>0, CallIs DEF JobSteps, JobEnds
<1>4. CASE work.kind = "replace"
  <2>1. /\ name = staging(work.name) /\ next = "clearRetired"
        /\ NameFree(name) => /\ \A i \in BuiltIds \ {work.n} : e[i] = engine[i]
                             /\ e[work.n].name = staging(work.name)
    BY <1>0, <1>4, BuildingIsGood, NamesApart
  <2>2. NameFree(name) \in BOOLEAN
    BY Zenon DEF NameFree
  <2>3. NameFree(name) => Some(e) /\ Has(e, "clearRetired")
    BY ZenonT(60), <1>0, <1>4, <2>1 DEF Some, Has, JobSteps, Cleared
  <2>4. NameFree(name) => Undo(e, "clearRetired", failures)
    BY <1>0, <1>4, <2>1 DEF Undo, Settled, Untouched, JobSteps
  <2>5. /\ Has(e, "failed") /\ Has(engine, "failed")
        /\ Undo(engine, "failed", failures) /\ Undo(engine, "failed", failures + 1)
    BY Zenon DEF Has, Undo, JobSteps
  <2>6. (work.before.name = work.name /\ failures <= 1 /\ ~severed)
          => engine[work.current] = work.before
    BY Zenon, <1>0, <1>4, SameContainer DEF Undo, Settled, Untouched, JobSteps
  <2>7. Ends(engine, "failed", failures) /\ Ends(engine, "failed", failures + 1)
    BY <2>6 DEF Ends
  <2>8. Ends(e, "clearRetired", failures)
    BY Zenon DEF Ends
  <2>9. Rest' /\ EndsRight
    BY ZenonT(60), <1>0, <1>4, <2>1, <2>2, <2>3, <2>4, <2>5, <2>7, <2>8, CallKeepsRest
       DEF JobSteps, JobEnds
  <2> QED
    BY Zenon, <1>2, <2>9 DEF All
<1> QED
  BY Zenon, <1>2, <1>3, <1>4, OfOthers DEF All, EndsRight

(* observe keeps the invariant: only a running container lets the original go. *)
LEMMA ObserveStep == ASSUME All, observe PROVE All' /\ EndsRight
<1> USE Standing
<1> DEFINE next == IF work.kind = "create" THEN "ok"
                   ELSE IF engine[work.n].running THEN "removeOriginal" ELSE "undoBuild"
           onError == IF work.kind = "create" THEN "failed" ELSE "undoBuild"
<1>0. work.at = "observe" /\ DockerCall("observe", There(work.n), engine, next, onError)
  BY Zenon DEF observe, DockerCall
<1>1. There(work.n) \in BOOLEAN
  BY Zenon DEF There
<1>2. (Good(engine) /\ WorkOrderly /\ Counted)'
  BY Zenon, <1>0, CallKeepsOrder DEF JobSteps, JobEnds
<1>3. work'.kind = work.kind
  BY Zenon, <1>0, CallIs DEF JobSteps, JobEnds
<1>4. CASE work.kind = "replace"
  <2>1. /\ onError = "undoBuild" /\ next \in {"removeOriginal", "undoBuild"}
        /\ next = "removeOriginal" <=> engine[work.n].running
        /\ engine[work.n].name = work.name
    BY Zenon, <1>0, <1>4 DEF Has, JobSteps
  <2>2. Has(engine, "undoBuild") /\ Has(engine, next)
    BY Zenon, <1>0, <1>4, <2>1 DEF Has, JobSteps, Cleared
  <2>3. failures + 1 <= 1 => failures = 0 /\ failures + 1 = 1 /\ failures <= 1
    OBVIOUS
  <2>4. Undo(engine, "undoBuild", failures + 1)
    BY Zenon, <1>0, <1>4, <2>1, <2>3 DEF Undo, Settled, Untouched, JobSteps
  <2>5. Undo(engine, next, failures)
    BY ZenonT(60), <1>0, <1>4, <2>1 DEF Undo, Settled, Untouched, JobSteps
  <2>6. There(work.n)
    BY Zenon, <1>4, <2>1 DEF There
  <2>7. Ends(engine, next, failures) /\ Ends(engine, "undoBuild", failures + 1)
    BY Zenon, <2>1 DEF Ends
  <2>8. Rest' /\ EndsRight
    BY ZenonT(60), <1>0, <1>1, <1>4, <2>1, <2>2, <2>4, <2>5, <2>6, <2>7, CallKeepsRest
       DEF JobSteps, JobEnds
  <2> QED
    BY Zenon, <1>2, <2>8 DEF All
<1> QED
  BY Zenon, <1>2, <1>3, <1>4, OfOthers DEF All, EndsRight

(* dropRestart keeps the invariant. *)
LEMMA DropRestartStep == ASSUME All, dropRestart PROVE All' /\ EndsRight
<1> USE Standing
<1> DEFINE e == Without({work.n})
<1>0. /\ work.at = "dropRestart" /\ Restarting \in {"undoStart", "failed"}
      /\ DockerCall("dropRestart", There(work.n), e, Restarting, Restarting)
      /\ There(work.n) \in BOOLEAN
  BY Zenon DEF dropRestart, DockerCall, Restarting, There
<1>1. Good(e)
  BY Zenon, RemovingIsGood
<1>2. (Good(engine) /\ WorkOrderly /\ Counted)'
  BY Zenon, <1>0, <1>1, CallKeepsOrder DEF JobSteps, JobEnds
<1>3. work'.kind = work.kind
  BY Zenon, <1>0, CallIs DEF JobSteps, JobEnds
<1>4. CASE work.kind = "replace"
  <2>1. /\ \A i \in BuiltIds \ {work.n} : e[i] = engine[i]
        /\ e[work.n].name = <<>>
    BY Zenon DEF Without, Gone
  <2>2. Some(e)
    BY Zenon, <1>0, <1>4, <2>1 DEF Some, Has, JobSteps
  <2>3. Has(engine, Restarting) /\ Has(e, Restarting)
    BY ZenonT(60), <1>0, <1>4, <2>1 DEF Has, JobSteps
  <2>4. Undo(engine, Restarting, failures) /\ Undo(engine, Restarting, failures + 1)
    <3>1. failures = 1 => ~(failures + 1 <= 1)
      OBVIOUS
    <3>2. Undo(engine, Restarting, failures + 1)
      BY <1>0, <1>4, <3>1 DEF Undo, JobSteps
    <3>3. Undo(engine, Restarting, failures)
      BY Zenon, <1>0, <1>4 DEF Undo, Settled, Untouched, JobSteps, Restarting
    <3> QED
      BY Zenon, <3>2, <3>3
  <2>5. Undo(e, Restarting, failures)
    BY ZenonT(60), <1>4, <2>1, <2>4 DEF Undo, JobSteps, Restarting
  <2>6. (work.before.name = work.name /\ failures <= 1 /\ ~severed /\ ~work.before.running)
          => engine[work.current] = work.before
    BY ZenonT(60), <1>0, <1>4, SameContainer DEF Undo, Settled, Untouched, JobSteps
  <2>7. /\ Ends(engine, Restarting, failures) /\ Ends(engine, Restarting, failures + 1)
        /\ Ends(e, Restarting, failures)
    <3>1. failures + 1 <= 1 => failures <= 1
      OBVIOUS
    <3>2. Restarting = "failed" => ~work.before.running
      BY Zenon DEF Restarting
    <3>3. e[work.current] = engine[work.current]
      BY ZenonT(60), <1>4, <2>1
    <3> QED
      BY Zenon, <1>0, <2>6, <3>1, <3>2, <3>3 DEF Ends
  <2>8. Rest' /\ EndsRight
    BY Zenon, <1>0, <1>4, <2>2, <2>3, <2>4, <2>5, <2>7, CallKeepsRest DEF JobSteps, JobEnds
  <2> QED
    BY Zenon, <1>2, <2>8 DEF All
<1> QED
  BY Zenon, <1>2, <1>3, <1>4, OfOthers DEF All, EndsRight

(* undoName keeps the invariant: the original gets its name back. *)
LEMMA UndoNameStep == ASSUME All, undoName PROVE All' /\ EndsRight
<1> USE Standing
<1> DEFINE e == Renamed(work.current, work.name)
           possible == There(work.current) /\ NameFree(work.name)
<1>0. /\ work.at = "undoName" /\ Restarting \in {"undoStart", "failed"} /\ work.name # <<>>
      /\ DockerCall("undoName", possible, e, Restarting, Restarting)
      /\ possible \in BOOLEAN
  BY Zenon DEF undoName, DockerCall, Restarting, There, WorkOrderly
<1>1. possible => Good(e)
  BY Zenon, <1>0, RenamingIsGood
<1>2. (Good(engine) /\ WorkOrderly /\ Counted)'
  BY Zenon, <1>0, <1>1, CallKeepsOrder DEF JobSteps, JobEnds
<1>3. work'.kind = work.kind
  BY Zenon, <1>0, CallIs DEF JobSteps, JobEnds
<1>4. CASE work.kind = "replace"
  <2>1. possible => /\ \A i \in BuiltIds \ {work.current} : e[i] = engine[i]
                    /\ e[work.current].name = work.name /\ e[work.current] \in Containers
                    /\ e[work.current].running = engine[work.current].running
    <3>1. possible => /\ Good(e) /\ e[work.current].name = work.name
                      /\ \A j \in BuiltIds : e[j].running = engine[j].running
                      /\ \A i \in BuiltIds \ {work.current} : e[i] = engine[i]
      BY ZenonT(60), <1>0, RenamingIsGood
    <3> QED
      BY Zenon, <1>0, <3>1 DEF Good
  <2>2. /\ retired(work.name) # <<>> /\ retired(work.name) # work.name
        /\ work.before.name \notin {<<w>> : w \in OtherNames}
    BY Zenon, <1>4, NamesApart DEF WorkOrderly
  <2>3. (work.before.name = work.name /\ failures <= 1 /\ ~severed) =>
          /\ possible /\ failures = 1
          /\ engine[work.current].running = FALSE
          /\ \A i \in BuiltIds \ {work.current} : engine[i].name = <<>>
    BY ZenonT(60), <1>0, <1>4, <2>2 DEF Undo, Settled, Untouched, JobSteps, There, NameFree
  <2>4. possible => Some(e)
    BY Zenon, <1>0, <2>1 DEF Some
  <2>5. Has(engine, Restarting) /\ (possible => Has(e, Restarting))
    BY ZenonT(60), <1>0, <1>4, <2>1 DEF Has, JobSteps
  <2>6. failures = 1 => ~(failures + 1 <= 1)
    OBVIOUS
  <2>7. ~possible => Undo(engine, Restarting, failures) /\ Ends(engine, Restarting, failures)
    BY ZenonT(60), <1>0, <2>3 DEF Undo, Ends
  <2>8. Undo(engine, Restarting, failures + 1)
    BY <1>0, <1>4, <2>6 DEF Undo, JobSteps
  <2>9. Ends(engine, Restarting, failures + 1)
    <3>1. work.before.name = work.name /\ ~severed => ~(failures + 1 <= 1)
      BY <2>3, <2>6
    <3> QED
      BY Zenon, <1>0, <3>1 DEF Ends
  <2>10. possible => Undo(e, Restarting, failures)
    BY ZenonT(60), <1>0, <1>4, <2>1, <2>3 DEF Undo, Settled, Untouched, JobSteps, Restarting
  <2>11. possible => Ends(e, Restarting, failures)
    <3>1. (possible /\ work.before.name = work.name /\ failures <= 1 /\ ~severed
             /\ ~work.before.running) => e[work.current] = work.before
      BY ZenonT(60), <1>4, <2>1, <2>3, SameContainer
    <3> QED
      BY ZenonT(60), <3>1 DEF Ends, Restarting
  <2>12. Rest' /\ EndsRight
    BY Zenon, <1>0, <1>4, <2>4, <2>5, <2>7, <2>8, <2>9, <2>10, <2>11, CallKeepsRest
       DEF JobSteps, JobEnds
  <2> QED
    BY Zenon, <1>2, <2>12 DEF All
<1> QED
  BY Zenon, <1>2, <1>3, <1>4, OfOthers DEF All, EndsRight

(* A removal is nobody's replacement.                                         *)
LEMMA RemovalSteps == ASSUME All, stopFirst \/ remove PROVE All' /\ EndsRight
<1> USE Standing
<1>1. work.at \in {"stopFirst", "remove"} /\ work.kind # "replace"
  BY Zenon DEF stopFirst, remove, DockerCall, WorkOrderly
<1>2. /\ Good(Running(work.current, FALSE)) /\ Good(Without({work.current}))
  BY ZenonT(60), TurningIsGood, RemovingIsGood
<1>3. (Good(engine) /\ WorkOrderly /\ Counted)' /\ work'.kind = work.kind
  <2>1. CASE stopFirst
    BY Zenon, <1>1, <1>2, <2>1, CallKeepsOrder, CallIs DEF stopFirst, JobSteps, JobEnds
  <2>2. CASE remove
    BY ZenonT(60), <1>1, <1>2, <2>2, CallKeepsOrder, CallIs DEF remove, JobSteps, JobEnds
  <2> QED
    BY Zenon, <2>1, <2>2
<1> QED
  BY Zenon, <1>1, <1>3, OfOthers DEF All, EndsRight

(* A container exiting on its own keeps the invariant. *)
LEMMA ExitsStep == ASSUME All, exits PROVE All' /\ EndsRight
<1> USE Standing
<1> DEFINE e == Running(work.n, FALSE)
<1>1. /\ work.at = "observe" /\ work' = work /\ engine' = e /\ failures' = failures + 1
      /\ failures < MaxFailures /\ severed' = severed /\ expired' = expired
  BY Zenon DEF exits
<1>2. /\ Good(e) /\ \A i \in BuiltIds : e[i].name = engine[i].name
      /\ \A i \in BuiltIds \ {work.n} : e[i] = engine[i]
  BY Zenon, TurningIsGood
<1>3. (Good(engine) /\ WorkOrderly)'
  BY ZenonT(60), <1>1, <1>2 DEF Good, WorkOrderly
<1>4. Counted'
  <2>1. failures' \in 0 .. MaxFailures
    BY <1>1, AgentReplaceAssumption
  <2> QED
    BY Zenon, <1>1, <2>1 DEF Counted
<1>5. CASE work.kind = "replace"
  <2>1. NeverNeither'
    BY Zenon, <1>1, <1>2, <1>5 DEF Rest, NeverNeither, Claimants, There
  <2>2. HasOriginal'
    BY Zenon, <1>1, <1>2, <1>5 DEF HasOriginal, Has, JobSteps, Cleared
  <2>3. failures + 1 <= 1 => failures = 0 /\ failures + 1 = 1 /\ failures <= 1
    OBVIOUS
  <2>4. Undo(e, "observe", failures + 1)
    BY ZenonT(60), <1>1, <1>2, <1>5, <2>3 DEF Undo, Settled, Untouched, JobSteps
  <2>5. Undoable'
    BY Zenon, <1>1, <1>5, <2>4 DEF Undoable, Undo, Settled
  <2> QED
    BY Zenon, <1>1, <1>3, <1>4, <2>1, <2>2, <2>5 DEF All, Rest, EndsRight
<1> QED
  BY ZenonT(60), <1>1, <1>3, <1>4, <1>5, OfOthers DEF All, EndsRight

(* A job that begins: what it replaces is alone, and is what it was.          *)
LEMMA BeginStep ==
  ASSUME All, NEW kind \in {"create", "replace", "remove"}, NEW at \in JobSteps,
         NEW current \in BuiltIds, NEW name \in Names, name # <<>>,
         beginJob(kind, at, current, name),
         kind = "replace" => at = "inspect" /\ Claimants = {current}
  PROVE  All' /\ EndsRight
<1> USE Standing
<1>1. /\ work.at \in JobEnds /\ work.n < MaxJobs
      /\ engine' = engine /\ failures' = failures /\ severed' = severed /\ expired' = FALSE
      /\ work' = [n |-> work.n + 1, kind |-> kind, at |-> at, current |-> current,
                  name |-> name, before |-> engine[current]]
  BY Zenon DEF beginJob
<1>2. work.n \in Nat /\ work.n + 1 \in BuiltIds /\ \A i \in BuiltIds : i \in Nat
  BY SMTT(60), <1>1, AgentReplaceAssumption DEF BuiltIds
<1>3. Good(engine)'
  BY <1>1, <1>2 DEF Good
<1>4. Counted'
  BY ZenonT(60), <1>1 DEF Counted
<1>5. kind = "replace" =>
        /\ engine[current].name # <<>> /\ current < work.n + 1
        /\ engine[current].name \notin {<<w>> : w \in OtherNames}
        /\ \A i \in BuiltIds \ {current} : engine[i].name = <<>>
  BY SMTT(60), <1>2 DEF Claimants, There, Good
<1>6. work' \in Jobs
  BY Zenon, <1>1, <1>2 DEF Jobs
<1>7. WorkOrderly'
  BY <1>1, <1>2, <1>5, <1>6 DEF WorkOrderly, JobSteps
<1>8. CASE kind = "replace"
  <2>1. NeverNeither'
    BY ZenonT(60), <1>1, <1>5, <1>8 DEF NeverNeither, Claimants, There
  <2>2. HasOriginal'
    BY Zenon, <1>1, <1>5, <1>8 DEF HasOriginal, Has
  <2>3. Undoable'
    BY ZenonT(60), <1>1, <1>5, <1>8 DEF Undoable, Undo, Settled, Untouched
  <2> QED
    BY Zenon, <1>1, <1>3, <1>4, <1>7, <2>1, <2>2, <2>3
       DEF All, Rest, EndsRight, JobEnds, JobSteps
<1>9. CASE kind # "replace"
  BY ZenonT(60), <1>1, <1>3, <1>4, <1>7, <1>9, OfOthers DEF All, EndsRight, JobEnds, JobSteps
<1> QED
  BY Zenon, <1>8, <1>9

(* A job that begins finds the invariant to hold of it. *)
LEMMA AskSteps == ASSUME All, askCreate \/ askReplace \/ askRemove PROVE All' /\ EndsRight
<1> USE Standing
<1>1. \A w \in Words : <<w>> \in Names /\ <<w>> # <<>>
  BY DEF Names
<1>2. \A i \in BuiltIds : engine[i].name \in Names
  BY Zenon DEF Containers
<1>3. {"build", "inspect", "stopFirst", "remove"} \subseteq JobSteps
  BY Zenon DEF JobSteps
<1>4. CASE askCreate
  <2>1. PICK w \in Words : beginJob("create", "build", work.n + 1, <<w>>)
    BY Zenon, <1>4 DEF askCreate
  <2>2. work.n + 1 \in BuiltIds
    BY <2>1, AgentReplaceAssumption DEF beginJob, BuiltIds
  <2> QED
    BY Zenon, <1>1, <1>3, <2>1, <2>2, BeginStep
<1>5. CASE askReplace
  <2>1. PICK i \in BuiltIds : /\ Claimants = {i}
                              /\ \E n \in {<<w>> : w \in Words} \cup {engine[i].name} :
                                   beginJob("replace", "inspect", i, n)
    BY Zenon, <1>5 DEF askReplace
  <2>2. PICK n \in {<<w>> : w \in Words} \cup {engine[i].name} :
          beginJob("replace", "inspect", i, n)
    BY Zenon, <2>1
  <2>3. n \in Names /\ n # <<>>
    BY Zenon, <1>1, <1>2, <2>1, <2>2 DEF Claimants, There
  <2> QED
    BY Zenon, <1>3, <2>1, <2>2, <2>3, BeginStep
<1>6. CASE askRemove
  <2>1. PICK i \in BuiltIds : /\ Claimants = {i}
                              /\ \E at \in {"stopFirst", "remove"} :
                                   beginJob("remove", at, i, engine[i].name)
    BY Zenon, <1>6 DEF askRemove
  <2>2. engine[i].name \in Names /\ engine[i].name # <<>>
    BY Zenon, <1>2, <2>1 DEF Claimants, There
  <2> QED
    BY Zenon, <1>3, <2>1, <2>2, BeginStep
<1> QED
  BY Zenon, <1>4, <1>5, <1>6

(* A deadline or a death of the agent excuses the job from undoing, not from the rest. *)
LEMMA CutOffSteps == ASSUME All, expires \/ agentDies PROVE All' /\ EndsRight
<1> USE Standing
<1>1. /\ engine' = engine /\ failures' = failures /\ severed' = TRUE
      /\ expired' = expired \/ expired' = TRUE
      /\ work.at \in JobSteps /\ (work' = work \/ work' = [work EXCEPT !.at = "lost"])
  BY Zenon DEF expires, agentDies
<1>2. /\ work' \in Jobs /\ work'.n = work.n /\ work'.kind = work.kind
      /\ work'.current = work.current /\ work'.name = work.name /\ work'.before = work.before
      /\ work'.at = work.at \/ work'.at = "lost"
  BY Zenon, <1>1 DEF Jobs, JobEnds
<1>3. Good(engine)'
  BY Zenon, <1>1, <1>2 DEF Good
<1>4. WorkOrderly'
  BY Zenon, <1>1, <1>2 DEF WorkOrderly, JobSteps
<1>5. Counted'
  BY ZenonT(60), <1>1 DEF Counted
<1>6. NeverNeither'
  BY Zenon, <1>1, <1>2 DEF Rest, NeverNeither, Claimants, There
<1>7. HasOriginal'
  BY Zenon, <1>1, <1>2 DEF HasOriginal, Has, Cleared, JobSteps
<1>8. Undoable'
  BY Zenon, <1>1 DEF Undoable, Undo
<1> QED
  BY Zenon, <1>1, <1>3, <1>4, <1>5, <1>6, <1>7, <1>8 DEF All, Rest, EndsRight

(* The steps of a creation and of a removal keep the invariant. *)
LEMMA BetweenSteps ==
  ASSUME All, NEW i \in BuiltIds, turns(i) \/ removedByHand(i)
  PROVE  All' /\ EndsRight
<1> USE Standing
<1>1. /\ work.at \in JobEnds /\ There(i) /\ work' = work /\ work.at \notin JobSteps
      /\ expired' = expired /\ failures' = failures /\ severed' = severed
      /\ \/ engine' = Running(i, ~engine[i].running)
         \/ engine' = Without({i}) /\ Claimants # {i}
  BY ZenonT(60) DEF turns, removedByHand, JobEnds, JobSteps
<1>2. Good(engine')
  <2>1. (~engine[i].running) \in BOOLEAN
    BY Zenon
  <2>2. Good(Running(i, ~engine[i].running))
    BY ZenonT(60), <1>1, <2>1, TurningIsGood
  <2>3. Good(Without({i}))
    BY Zenon, RemovingIsGood
  <2> QED
    BY Zenon, <1>1, <2>2, <2>3
<1>3. Good(engine)' /\ WorkOrderly'
  BY Zenon, <1>1, <1>2 DEF Good, WorkOrderly
<1>4. Counted'
  BY Zenon, <1>1 DEF Counted
<1>5. \E j \in BuiltIds : engine'[j].name # <<>>
  <2>1. CASE engine' = Running(i, ~engine[i].running)
    BY ZenonT(60), <1>1, <2>1, TurningIsGood DEF There
  <2>2. CASE engine' = Without({i}) /\ Claimants # {i}
    <3>1. PICK j \in BuiltIds : j # i /\ There(j)
      BY Zenon, <1>1, <2>2 DEF Claimants
    <3> QED
      BY Zenon, <2>2, <3>1 DEF Without, There
  <2> QED
    BY Zenon, <1>1, <2>1, <2>2
<1>6. NeverNeither'
  BY Zenon, <1>5 DEF NeverNeither, Claimants, There
<1> QED
  BY Zenon, <1>1, <1>3, <1>4, <1>6 DEF All, Rest, HasOriginal, Undoable, Has, Undo, EndsRight

(* Every step keeps the invariant, and what ends a replacement ends it rightly. *)
LEMMA EveryStep == ASSUME All, AgentReplaceNext PROVE All' /\ EndsRight
  BY Zenon, InspectStep, ClearStagingStep, BuildStep, ClearRetiredStep, StopStep, RetireStep,
     TakeNameStep,
     ConnectStep, StartStep, ExitsStep, ObserveStep, RemoveOriginalStep, DropStep, DropRestartStep,
     UndoBuildStep, UndoNameStep, UndoStartStep, RemovalSteps, AskSteps, CutOffSteps, BetweenSteps
  DEF AgentReplaceNext

(* A step that changes nothing keeps the invariant. *)
LEMMA StutterStep == ASSUME All, UNCHANGED replaceVars PROVE All'
  BY ZenonT(60)
     DEF replaceVars, All, Good, WorkOrderly, Counted, Rest, HasOriginal, Has, Cleared, Undoable,
         Undo, Settled, NeverNeither, Claimants, There

-----------------------------------------------------------------------------
(* The invariant holds in every reachable state. *)
LEMMA ReplaceInvariant == AgentReplaceSpec => []All
<1>1. AgentReplaceInit => All
  BY Zenon, ReplaceInitially, InOrder DEF ReplaceInv, All, Rest
<1>2. All /\ [AgentReplaceNext]_replaceVars => All'
  BY Zenon, EveryStep, StutterStep
<1> QED
  BY <1>1, <1>2, PTL DEF AgentReplaceSpec

(* The comment on the file, `a failure at any step leaves the host with a     *)
(* running container rather than with neither', as far as it goes: whatever   *)
(* Docker refuses, wherever a deadline passes or the agent dies, a            *)
(* replacement leaves the resource a container (Replace, restore).            *)
THEOREM NeverNeitherHolds == AgentReplaceSpec => []NeverNeither
<1>1. All => NeverNeither
  BY Zenon DEF All, Rest
<1> QED
  BY <1>1, ReplaceInvariant, PTL

(* `A failure before step 4 leaves the original untouched.  A failure after   *)
(* it puts the original back under its own name and starts it again': of a    *)
(* single failure, wherever it is met (Replace, restore).                     *)
THEOREM FailureIsUndone == AgentReplaceSpec => OneFailureIsUndone
<1>1. All /\ [AgentReplaceNext]_replaceVars =>
        [ (work.kind = "replace" /\ work.at \in JobSteps /\ failures' <= 1 /\ ~severed') =>
            /\ work'.at = "ok" => engine'[work.n] = [name |-> work.name, running |-> TRUE]
            /\ work'.at = "failed" /\ work.before.name = work.name
                 => engine'[work.current] = work.before
        ]_replaceVars
  BY Zenon, EveryStep DEF EndsRight
<1> QED
  BY <1>1, ReplaceInvariant, PTL DEF AgentReplaceSpec, OneFailureIsUndone
=============================================================================
