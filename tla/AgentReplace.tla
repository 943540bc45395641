----------------------------- MODULE AgentReplace -----------------------------
(***************************************************************************)
(* The agent at work on one resource: Create, Replace and Remove as the     *)
(* Docker calls they are made of.  Any call may be refused, the deadline of *)
(* a request may pass, after which every call of it fails, and the agent    *)
(* may die between two calls.                                               *)
(*                                                                          *)
(* Container 0 is the one the resource begins with, container n the one     *)
(* that job n builds; a name is a word and the suffixes put behind it.      *)
(***************************************************************************)
EXTENDS Naturals, Sequences

CONSTANTS
  Words,       \* names an operator gives
  OtherNames,  \* the words that are names of other containers on the host
  MaxJobs, MaxFailures

ASSUME AgentReplaceAssumption == OtherNames \subseteq Words /\ {MaxJobs, MaxFailures} \subseteq Nat

BuiltIds == 0 .. MaxJobs
Gone == [name |-> <<>>, running |-> FALSE]
staging(n) == Append(n, "dockplane-new")
retired(n) == Append(n, "dockplane-old")

VARIABLES
  engine,   \* the containers of the resource, by number
  work,     \* the request the agent serves, or the last it served
  expired,  \* its deadline has passed
  failures, \* how many calls Docker refused, and containers that did not stay up
  severed   \* some request was cut off: its deadline passed, or the agent died

replaceVars == <<engine, work, expired, failures, severed>>

JobEnds == {"none", "ok", "failed", "lost"}
JobSteps == {"inspect", "clearStaging", "build", "clearRetired", "stop", "retire", "takeName",
             "connect", "start", "observe", "removeOriginal", "drop", "dropRestart",
             "undoBuild", "undoName", "undoStart", "stopFirst", "remove"}

Names == Seq(Words \cup {"dockplane-new", "dockplane-old"})
Containers == [name : Names, running : BOOLEAN]

There(i) == engine[i].name # <<>>
Claimants == {i \in BuiltIds : There(i)}
NameFree(n) == n \notin {<<w>> : w \in OtherNames} /\ \A i \in BuiltIds : engine[i].name # n

AgentReplaceTypeOK ==
  /\ engine \in [BuiltIds -> Containers] /\ \A i \in BuiltIds : engine[i].running => There(i)
  /\ \A i, j \in Claimants : engine[i].name = engine[j].name => i = j
  /\ work \in [n : BuiltIds, kind : {"none", "create", "replace", "remove"},
               at : JobEnds \cup JobSteps, current : BuiltIds, name : Names, before : Containers]
  /\ expired \in BOOLEAN /\ failures \in 0 .. MaxFailures /\ severed \in BOOLEAN

AgentReplaceInit ==
  /\ \E w \in Words \ OtherNames, up \in BOOLEAN :
       engine = [i \in BuiltIds |-> IF i = 0 THEN [name |-> <<w>>, running |-> up] ELSE Gone]
  /\ work = [n |-> 0, kind |-> "none", at |-> "none", current |-> 0, name |-> <<>>,
            before |-> Gone]
  /\ expired = FALSE /\ failures = 0 /\ severed = FALSE

-----------------------------------------------------------------------------
(* One Docker call: it takes effect, if it can and the deadline has not       *)
(* passed; or it fails and changes nothing; or the deadline passes while      *)
(* Docker is at work, which finishes what is then reported as failed.         *)
DockerCall(step, possible, effect, next, onError) ==
  /\ work.at = step
  /\ \/ /\ possible /\ ~expired
        /\ engine' = effect /\ work' = [work EXCEPT !.at = next]
        /\ UNCHANGED <<expired, failures, severed>>
     \/ /\ work' = [work EXCEPT !.at = onError]
        /\ IF possible /\ ~expired THEN failures < MaxFailures /\ failures' = failures + 1
                                   ELSE UNCHANGED failures
        /\ UNCHANGED <<engine, expired, severed>>
     \/ /\ possible /\ ~expired
        /\ engine' = effect /\ work' = [work EXCEPT !.at = onError]
        /\ expired' = TRUE /\ severed' = TRUE
        /\ UNCHANGED failures

Renamed(i, n) == [engine EXCEPT ![i].name = n]
Running(i, up) == [engine EXCEPT ![i].running = up]
Without(gone) == [i \in BuiltIds |-> IF i \in gone THEN Gone ELSE engine[i]]
Named(n) == {i \in BuiltIds : engine[i].name = n}

(* Where a step that fails goes, which depends on what is being done. *)
PutBack == IF work.kind = "create" THEN "drop" ELSE "undoBuild"
Restarting == IF work.before.running THEN "undoStart" ELSE "failed"

(* The original is read and its image pulled if it is not there. *)
inspectOriginal == DockerCall("inspect", There(work.current), engine, "clearStaging", "failed")

(* What an earlier replacement left under the names this one needs. *)
clearStaging ==
  DockerCall("clearStaging", TRUE, Without(Named(staging(work.name))), "build", "build")
clearRetired ==
  DockerCall("clearRetired", TRUE, Without(Named(retired(work.name))), "stop", "stop")

build ==
  LET name == IF work.kind = "create" THEN work.name ELSE staging(work.name)
  IN DockerCall("build", NameFree(name),
                [engine EXCEPT ![work.n] = [name |-> name, running |-> FALSE]],
                IF work.kind = "create" THEN "connect" ELSE "clearRetired", "failed")

stop == DockerCall("stop", There(work.current), Running(work.current, FALSE), "retire", "drop")

(* Mutant: the original is removed instead of renamed aside. *)
retireForGood ==
  DockerCall("retire", There(work.current) /\ NameFree(retired(work.name)),
             Without({work.current}), "takeName", "dropRestart")

retire ==
  DockerCall("retire", There(work.current) /\ NameFree(retired(work.name)),
             Renamed(work.current, retired(work.name)), "takeName", "dropRestart")

takeName ==
  DockerCall("takeName", There(work.n) /\ NameFree(work.name), Renamed(work.n, work.name),
             "connect", "undoBuild")

connectNetworks == DockerCall("connect", There(work.n), engine, "start", PutBack)
start == DockerCall("start", There(work.n), Running(work.n, TRUE), "observe", PutBack)

(* What was started may exit again, which only a replacement minds. *)
exits ==
  /\ work.at = "observe" /\ engine[work.n].running
  /\ failures < MaxFailures /\ failures' = failures + 1
  /\ engine' = Running(work.n, FALSE)
  /\ UNCHANGED <<work, expired, severed>>

observe ==
  DockerCall("observe", There(work.n), engine,
             IF work.kind = "create" THEN "ok"
             ELSE IF engine[work.n].running THEN "removeOriginal" ELSE "undoBuild",
             IF work.kind = "create" THEN "failed" ELSE "undoBuild")

removeOriginal ==
  DockerCall("removeOriginal", There(work.current) /\ ~engine[work.current].running,
             Without({work.current}), "ok", "ok")

(* The clean-up after a failure, and restore. *)
drop == DockerCall("drop", There(work.n), Without({work.n}), "failed", "failed")
dropRestart == DockerCall("dropRestart", There(work.n), Without({work.n}), Restarting, Restarting)
undoBuild == DockerCall("undoBuild", There(work.n), Without({work.n}), "undoName", "undoName")

(* Mutant: the original is started again where it is. *)
undoNothing == DockerCall("undoName", There(work.current), engine, Restarting, Restarting)

undoName ==
  DockerCall("undoName", There(work.current) /\ NameFree(work.name),
             Renamed(work.current, work.name), Restarting, Restarting)

undoStart ==
  DockerCall("undoStart", There(work.current), Running(work.current, TRUE), "failed", "failed")

(* The capability stops the container first if it was asked to; a removal     *)
(* never kills a running one.                                                 *)
stopFirst ==
  DockerCall("stopFirst", There(work.current), Running(work.current, FALSE), "remove", "failed")

remove ==
  DockerCall("remove", There(work.current) /\ ~engine[work.current].running,
             Without({work.current}), "ok", "failed")

-----------------------------------------------------------------------------
(* What the control server asks for: one thing at a time, and a replacement   *)
(* or a removal only of a container that is alone in claiming the resource.   *)
(* An edit may give a new name; the one it leaves is the one last seen.       *)
beginJob(kind, at, current, name) ==
  /\ work.at \in JobEnds /\ work.n < MaxJobs
  /\ work' = [n |-> work.n + 1, kind |-> kind, at |-> at, current |-> current, name |-> name,
             before |-> engine[current]]
  /\ expired' = FALSE
  /\ UNCHANGED <<engine, failures, severed>>

askCreate == /\ Claimants = {}
             /\ \E w \in Words : beginJob("create", "build", work.n + 1, <<w>>)

askReplace ==
  \E i \in BuiltIds : /\ Claimants = {i}
                      /\ \E n \in {<<w>> : w \in Words} \cup {engine[i].name} :
                           beginJob("replace", "inspect", i, n)

askRemove ==
  \E i \in BuiltIds : /\ Claimants = {i}
                      /\ \E at \in {"stopFirst", "remove"} :
                           beginJob("remove", at, i, engine[i].name)

(* The deadline passes or the connection ends; the agent dies.                *)
expires ==
  /\ work.at \in JobSteps /\ ~expired
  /\ expired' = TRUE /\ severed' = TRUE
  /\ UNCHANGED <<engine, work, failures>>

agentDies ==
  /\ work.at \in JobSteps
  /\ work' = [work EXCEPT !.at = "lost"] /\ severed' = TRUE
  /\ UNCHANGED <<engine, expired, failures>>

(* Between jobs: a container is started, stopped or exits, and somebody       *)
(* settles an identity conflict by removing one of the claimants.             *)
turns(i) ==
  /\ work.at \in JobEnds /\ There(i)
  /\ engine' = Running(i, ~engine[i].running)
  /\ UNCHANGED <<work, expired, failures, severed>>

removedByHand(i) ==
  /\ work.at \in JobEnds /\ There(i) /\ Claimants # {i}
  /\ engine' = Without({i})
  /\ UNCHANGED <<work, expired, failures, severed>>

AgentReplaceNext ==
  \/ inspectOriginal \/ clearStaging \/ build \/ clearRetired \/ stop \/ retire \/ takeName
  \/ connectNetworks \/ start \/ exits \/ observe \/ removeOriginal
  \/ drop \/ dropRestart \/ undoBuild \/ undoName \/ undoStart \/ stopFirst \/ remove
  \/ askCreate \/ askReplace \/ askRemove \/ expires \/ agentDies
  \/ \E i \in BuiltIds : turns(i) \/ removedByHand(i)

AgentReplaceSpec == AgentReplaceInit /\ [][AgentReplaceNext]_replaceVars

-----------------------------------------------------------------------------
(* The comment on the file: `a failure at any step leaves the host with a     *)
(* running container rather than with neither'.  Whatever is refused, cut off *)
(* or killed, a replacement leaves the resource a container, unless the one   *)
(* it replaces carried a name the replacement clears for itself, as one does  *)
(* that an earlier replacement could not put back (Replace, restore).         *)
NeverNeither ==
  work.kind = "replace" =>
    \/ Claimants # {}
    \/ work.before.name \in {staging(work.name), retired(work.name)}

(* `A failure before step 4 leaves the original untouched.  A failure after   *)
(* it puts the original back under its own name and starts it again': with at *)
(* most one failure and nothing cut off, a replacement ends with the new      *)
(* container running under its name, or with the old one as it was; but an    *)
(* edit that was to rename it leaves the old one under another name (restore  *)
(* gives it the new name, or the retired one if that name is taken).          *)
OneFailureIsUndone ==
  [][ (work.kind = "replace" /\ work.at \in JobSteps /\ failures' <= 1 /\ ~severed') =>
        /\ work'.at = "ok" => engine'[work.n] = [name |-> work.name, running |-> TRUE]
        /\ work'.at = "failed" /\ work.before.name = work.name
             => engine'[work.current] = work.before
    ]_replaceVars
=============================================================================
