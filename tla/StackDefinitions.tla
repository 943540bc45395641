--------------------------- MODULE StackDefinitions ---------------------------
(***************************************************************************)
(* Writing a stack down: requests to create a stack or to save a revision,  *)
(* and StackService, which has every revision compiled before it is stored. *)
(* What the form sends is the business of module StackForms, deploying what *)
(* was saved that of module Stacks.                                         *)
(*                                                                          *)
(* All stacks here have the same name and host.  A revision's identifier is *)
(* its place in `saved', the table of all revisions in the order of their   *)
(* inserts.                                                                 *)
(***************************************************************************)
EXTENDS Naturals, Sequences, FiniteSets, FiniteSetsExt

CONSTANTS
  Writers,                   \* pages that save
  MaxStackRows, MaxRevisions \* bounds

ASSUME StackDefinitionsAssumption == MaxStackRows \in Nat \ {0} /\ MaxRevisions \in Nat

StackIds == 1 .. MaxStackRows
NoStack == 0

VARIABLES
  stackRow,  \* the row of each stack: "none", "there" or "deleted"
  latestOf,  \* its latestRevisionId
  saved,     \* the table of revisions
  hostState, \* of the host: archived, and a Compose project of the name was discovered
  save       \* the handler of each writer's request, between its awaits

definitionVars == <<stackRow, latestOf, saved, hostState, save>>

NoSave == [stage |-> "none", stack |-> NoStack, base |-> 0]
RevisionsOf(s) == {i \in DOMAIN saved : saved[i].stack = s}
Highest(ns) == Max(ns \cup {0})

StackDefinitionsTypeOK ==
  /\ stackRow \in [StackIds -> {"none", "there", "deleted"}]
  /\ \A s \in StackIds : latestOf[s] \in 0 .. Len(saved)
  /\ Len(saved) <= MaxRevisions
  /\ hostState \in [archived : BOOLEAN, project : BOOLEAN]
  /\ save \in [Writers -> [stage : {"none", "asked", "checked", "compiled"},
                           stack : StackIds \cup {NoStack}, base : 0 .. MaxRevisions]]

StackDefinitionsInit ==
  /\ stackRow = [s \in StackIds |-> "none"]
  /\ latestOf = [s \in StackIds |-> 0]
  /\ saved = <<>>
  /\ hostState = [archived |-> FALSE, project |-> FALSE]
  /\ save = [w \in Writers |-> NoSave]

-----------------------------------------------------------------------------
(* A request to create a stack, or to save what was edited from any revision  *)
(* that was once the latest of its stack.                                     *)
submitNew(w) ==
  /\ save[w].stage = "none"
  /\ save' = [save EXCEPT ![w] = [NoSave EXCEPT !.stage = "asked"]]
  /\ UNCHANGED <<stackRow, latestOf, saved, hostState>>

submitRevision(w, i) ==
  /\ save[w].stage = "none"
  /\ save' = [save EXCEPT ![w] = [stage |-> "asked", stack |-> saved[i].stack, base |-> i]]
  /\ UNCHANGED <<stackRow, latestOf, saved, hostState>>

Decline(w) ==
  /\ save' = [save EXCEPT ![w] = NoSave]
  /\ UNCHANGED <<stackRow, latestOf, saved, hostState>>

(* The checks before the compiler is asked: host and assertNameFree for a new *)
(* stack, find and the comparison with the base for a revision.               *)
NameTaken == \E s \in StackIds : stackRow[s] = "there"

assertNameFree == ~NameTaken /\ ~hostState.project

Current(c) == stackRow[c.stack] = "there" /\ latestOf[c.stack] = c.base

find(w) ==
  /\ save[w].stage = "asked"
  /\ IF IF save[w].stack = NoStack THEN ~hostState.archived /\ assertNameFree
        ELSE Current(save[w])
     THEN /\ save' = [save EXCEPT ![w].stage = "checked"]
          /\ UNCHANGED <<stackRow, latestOf, saved, hostState>>
     ELSE Decline(w)

(* How a run of the compiler settles, the first of these to happen. *)
CompilerRuns == {"answered", "not started", "too long", "too much", "bad exit", "not JSON"}

(* A plan comes of an answer that is understood and names no problem, and of  *)
(* nothing else.                                                              *)
compile(settled) == IF settled = "answered" THEN {"plan", "problems", "not understood"}
                    ELSE {"refused"}

compileOrRefuse(w) ==
  /\ save[w].stage = "checked"
  /\ \E settled \in CompilerRuns : \E result \in compile(settled) :
       IF result = "plan"
       THEN /\ save' = [save EXCEPT ![w].stage = "compiled"]
            /\ UNCHANGED <<stackRow, latestOf, saved, hostState>>
       ELSE Decline(w)

(* writeRevision, and the stack points to it. *)
writeRevision(w, s, number) ==
  /\ Len(saved) < MaxRevisions
  /\ saved' = Append(saved, [stack |-> s, number |-> number, base |-> save[w].base])
  /\ latestOf' = [latestOf EXCEPT ![s] = Len(saved) + 1]
  /\ save' = [save EXCEPT ![w] = NoSave]
  /\ UNCHANGED hostState

(* create's transaction.  The unique index on host and name refuses a second  *)
(* stack of the name.                                                         *)
NameIndexAllows == ~NameTaken

createStack(w) ==
  /\ save[w].stage = "compiled" /\ save[w].stack = NoStack
  /\ \/ ~NameIndexAllows /\ Decline(w)
     \/ /\ NameIndexAllows
        /\ \E s \in StackIds :
             /\ stackRow[s] = "none"
             /\ stackRow' = [stackRow EXCEPT ![s] = "there"]
             /\ writeRevision(w, s, 1)

(* Mutant: the locked row is not compared with the base again. *)
LockedIsThere(c) == stackRow[c.stack] = "there"

(* createRevision's: the row is locked, looked at again, and numbered on.     *)
(* A stack that is gone has no row to lock and is refused with the others.    *)
LockedIsCurrent(c) == Current(c)

createRevision(w) ==
  /\ save[w].stage = "compiled" /\ save[w].stack # NoStack
  /\ IF LockedIsCurrent(save[w])
     THEN /\ writeRevision(w, save[w].stack,
                           Highest({saved[i].number : i \in RevisionsOf(save[w].stack)}) + 1)
          /\ UNCHANGED stackRow
     ELSE Decline(w)

(* What others do to the same tables: a stack is deleted, the host archived   *)
(* or brought back, and discovery finds a Compose project of the name.        *)
stackDeleted(s) ==
  /\ stackRow[s] = "there"
  /\ stackRow' = [stackRow EXCEPT ![s] = "deleted"]
  /\ UNCHANGED <<latestOf, saved, hostState, save>>

hostChanges ==
  /\ \/ hostState' = [hostState EXCEPT !.archived = ~@]
     \/ hostState' = [hostState EXCEPT !.project = TRUE] /\ hostState' # hostState
  /\ UNCHANGED <<stackRow, latestOf, saved, save>>

StackDefinitionsNext ==
  \/ \E w \in Writers :
       \/ submitNew(w) \/ find(w) \/ compileOrRefuse(w) \/ createStack(w) \/ createRevision(w)
       \/ \E i \in DOMAIN saved : submitRevision(w, i)
  \/ \E s \in StackIds : stackDeleted(s)
  \/ hostChanges

StackDefinitionsSpec == StackDefinitionsInit /\ [][StackDefinitionsNext]_definitionVars

-----------------------------------------------------------------------------
(* Nobody's work is written over: the revisions of a stack are numbered 1, 2, *)
(* ... in the order they were saved, each was made from the one before it,    *)
(* and the stack points to the last, whatever saves and deletions do at the   *)
(* same time (createRevision's two comparisons and its lock).                 *)
NothingWrittenOver ==
  \A s \in StackIds :
    /\ stackRow[s] # "none" => latestOf[s] = Highest(RevisionsOf(s))
    /\ \A i \in RevisionsOf(s) :
         LET before == {j \in RevisionsOf(s) : j < i}
         IN saved[i].number = Cardinality(before) + 1 /\ saved[i].base = Highest(before)

(* One stack of a name on a host at a time, however two creates interleave    *)
(* (assertNameFree long before the insert, and the index behind it).          *)
OneOfAName == Cardinality({s \in StackIds : stackRow[s] = "there"}) <= 1

(* Saves that interleave lose no revision, and creates make no second stack   *)
(* of a name.                                                                 *)
RevisionsAreKept == NothingWrittenOver /\ OneOfAName
=============================================================================
