------------------------------ MODULE StackForms ------------------------------
(***************************************************************************)
(* The page that edits a stack: the configuration it loads, the form, the   *)
(* compiler's verdict beside it, and what a save makes of its rows.  One    *)
(* page is open at a time; that two may save at once is the business of     *)
(* module StackDefinitions.                                                 *)
(*                                                                          *)
(* A value is a number, 0 the empty one; an environment is a function from  *)
(* names.  Whether the compiler accepts a file depends on its environment,  *)
(* here on one variable of it.  Removed secrets, secrets changed and kept   *)
(* again, names used twice, and edits made while an answer is awaited are   *)
(* all here.                                                                *)
(***************************************************************************)
EXTENDS Naturals, Sequences, SequencesExt, FiniteSets, Functions

CONSTANTS
  ComposeFiles, Starter, \* Compose sources, and the one a new stack starts with
  Variables, Asked,      \* names of environment variables, and the one the sources use
  Accepts,               \* per source, the values of it the compiler accepts
  MaxValue, MaxRows, MaxChanges, MaxSaves \* bounds

ASSUME StackFormsAssumption ==
  /\ Starter \in ComposeFiles /\ Asked \in Variables
  /\ Accepts \in [ComposeFiles -> SUBSET Nat]
  /\ {MaxValue, MaxRows, MaxChanges, MaxSaves} \subseteq Nat

Blank == 0
TypedValues == 0 .. MaxValue
NoName == "unnamed"
FormRows == [key : Variables \cup {NoName}, value : TypedValues, secret : BOOLEAN,
             stored : BOOLEAN, action : {"unchanged", "change", "remove"}]

VARIABLES
  revisions, \* the revisions saved so far: file, env, and the rows they were made from
  file, rows, \* the form
  edits,     \* how often it was changed
  verdict, judged, \* what the panel shows, and the file it was said of
  said,      \* and the values it was said of, which the page does not keep
  checking,  \* the file and the values of a validation under way, if any
  sending    \* the form of a save under way, if any

formVars == <<revisions, file, rows, edits, verdict, judged, said, checking, sending>>

StackFormsTypeOK ==
  /\ Len(revisions) <= MaxSaves
  /\ file \in ComposeFiles /\ judged \in ComposeFiles
  /\ Range(rows) \subseteq FormRows
  /\ edits \in 0 .. MaxChanges
  /\ verdict \in {"none", "valid", "invalid"}
  /\ DOMAIN said \subseteq Variables
  /\ \A c \in checking : c.file \in ComposeFiles /\ DOMAIN c.values \subseteq Variables
  /\ Len(sending) <= 1

(* StackCreate opens with the starter file and no variables. *)
StackFormsInit ==
  /\ revisions = <<>>
  /\ file = Starter /\ judged = Starter
  /\ rows = <<>>
  /\ edits = 0
  /\ verdict = "none" /\ said = <<>>
  /\ checking = {} /\ sending = <<>>

-----------------------------------------------------------------------------
(* formFromConfiguration of what configuration answers: secrets come without  *)
(* their value.                                                               *)
formFromConfiguration(env) ==
  LET keys == SetToSeq(DOMAIN env)
  IN [i \in DOMAIN keys |->
        [key |-> keys[i], secret |-> env[keys[i]].secret, stored |-> TRUE,
         action |-> "unchanged",
         value |-> IF env[keys[i]].secret THEN Blank ELSE env[keys[i]].value]]

(* environmentChanges: what each row asks of the new revision. *)
ChangeFor(row) ==
  [key |-> row.key, value |-> row.value,
   operation |-> IF row.stored /\ row.action = "remove" THEN "remove"
                 ELSE IF row.stored /\ row.secret /\ row.action = "unchanged" THEN "unchanged"
                 ELSE IF row.secret THEN "set-secret" ELSE "set"]

environmentChanges(rs) ==
  LET named == SelectSeq(rs, LAMBDA row : row.key # NoName)
  IN [i \in DOMAIN named |-> ChangeFor(named[i])]

(* problemsIn: an unnamed row, a name used twice, a secret without a value. *)
problemsIn(rs) ==
  \E i \in DOMAIN rs :
    \/ rs[i].key = NoName
    \/ \E j \in 1 .. i - 1 : rs[j].key = rs[i].key
    \/ /\ rs[i].secret /\ rs[i].value = Blank
       /\ ~rs[i].stored \/ rs[i].action = "change"

(* environmentSchema: no secret without a value. *)
Malformed(changes) ==
  \E i \in DOMAIN changes : changes[i].operation = "set-secret" /\ changes[i].value = Blank

(* Mutant: what is removed is given as well. *)
GivenAll(changes) == changes

(* resolveStackEnvironment: the whole new environment, or refused: nothing to *)
(* carry over, or a name given twice.                                         *)
Given(changes) == SelectSeq(changes, LAMBDA c : c.operation # "remove")

Unresolvable(changes, previous) ==
  \/ \E i \in DOMAIN changes :
       changes[i].operation = "unchanged" /\ changes[i].key \notin DOMAIN previous
  \/ \E i, j \in DOMAIN Given(changes) : i # j /\ Given(changes)[i].key = Given(changes)[j].key

resolveStackEnvironment(changes, previous) ==
  LET given == Given(changes)
      at(k) == given[CHOOSE i \in DOMAIN given : given[i].key = k]
  IN [k \in {given[i].key : i \in DOMAIN given} |->
        IF at(k).operation = "unchanged" THEN previous[k]
        ELSE [secret |-> at(k).operation = "set-secret", value |-> at(k).value]]

(* validationEnvironment: a stored secret that is left alone has no value here. *)
validationEnvironment(rs) ==
  LET sent == SelectSeq(rs, LAMBDA row : row.key # NoName
                                         /\ ~(row.stored /\ row.action = "remove"))
  IN [k \in {sent[i].key : i \in DOMAIN sent} |->
        Last(SelectSeq(sent, LAMBDA row : row.key = k)).value]

(* The compiler: a variable that is missing has no value. *)
Judgement(f, values) ==
  IF (IF Asked \in DOMAIN values THEN values[Asked] ELSE Blank) \in Accepts[f]
  THEN "valid" ELSE "invalid"

(* compileOrRefuse: a save is compiled with the environment it resolves to. *)
Compiles(f, env) == Judgement(f, [k \in DOMAIN env |-> env[k].value]) = "valid"

-----------------------------------------------------------------------------
(* What the form lets an operator do to a row. *)
patchVariable(row, v) == [row EXCEPT !.value = v]

setVariableAction(row, a) ==
  [row EXCEPT !.action = a, !.value = IF a = "change" THEN @ ELSE Blank]

Editable(row) == ~(row.stored /\ row.secret) \/ row.action = "change"

RowEdits(row) ==
  UNION { IF Editable(row) THEN {patchVariable(row, v) : v \in TypedValues} ELSE {},
          IF row.stored /\ row.secret /\ row.action = "unchanged"
            THEN {setVariableAction(row, "change")} ELSE {},
          IF row.stored /\ row.action = "unchanged" THEN {setVariableAction(row, "remove")}
            ELSE {},
          IF row.stored /\ row.action # "unchanged" THEN {setVariableAction(row, "unchanged")}
            ELSE {} }

(* addVariable, with the name and the value it is then given. *)
Added == [key : Variables \cup {NoName}, value : TypedValues, secret : BOOLEAN,
          stored : {FALSE}, action : {"unchanged"}]

patch(f, rs) ==
  /\ edits < MaxChanges /\ edits' = edits + 1
  /\ file' = f /\ rows' = rs
  /\ UNCHANGED <<revisions, verdict, judged, said, checking, sending>>

edit ==
  \/ \E f \in ComposeFiles \ {file} : patch(f, rows)
  \/ \E i \in DOMAIN rows : \E row \in RowEdits(rows[i]) : patch(file, [rows EXCEPT ![i] = row])
  \/ Len(rows) < MaxRows /\ \E row \in Added : patch(file, Append(rows, row))
  \/ \E i \in DOMAIN rows : ~rows[i].stored /\ patch(file, RemoveAt(rows, i))

(* validate, and its answer: a verdict on the file it was asked about, with   *)
(* the values in the fields of the form, the last of a name.                  *)
validate ==
  /\ checking = {}
  /\ checking' = {[file |-> file, values |-> validationEnvironment(rows)]}
  /\ UNCHANGED <<revisions, file, rows, edits, verdict, judged, said, sending>>

validated ==
  \E c \in checking :
    /\ verdict' = Judgement(c.file, c.values) /\ judged' = c.file /\ said' = c.values
    /\ checking' = {}
    /\ UNCHANGED <<revisions, file, rows, edits, sending>>

(* The check itself failed: the panel says what it said before. *)
validateFailed ==
  /\ checking # {}
  /\ checking' = {}
  /\ UNCHANGED <<revisions, file, rows, edits, verdict, judged, said, sending>>

validationStale == judged # file

(* What the panel shows: a verdict that has gone stale is only called stale. *)
SaysValid == verdict = "valid" /\ ~validationStale

(* submit: the form as it is, if nothing is wrong with it. *)
submit ==
  /\ sending = <<>> /\ Len(revisions) < MaxSaves
  /\ ~problemsIn(rows)
  /\ sending' = <<[file |-> file, rows |-> rows]>>
  /\ UNCHANGED <<revisions, file, rows, edits, verdict, judged, said, checking>>

(* The answer to a save.  A refusal leaves the form where it is, and puts the *)
(* compiler's reasons beside whatever file is there by now; a failure says so *)
(* and changes nothing.  After a success the page is left, and opened again   *)
(* on what was saved.                                                         *)
Previous == IF revisions = <<>> THEN <<>> ELSE Last(revisions).env

SentEnvironment == resolveStackEnvironment(environmentChanges(sending[1].rows), Previous)

saveRefused ==
  /\ sending # <<>> /\ ~Malformed(environmentChanges(sending[1].rows))
  /\ \/ Unresolvable(environmentChanges(sending[1].rows), Previous)
     \/ ~Compiles(sending[1].file, SentEnvironment)
  /\ verdict' = "invalid" /\ judged' = file
  /\ sending' = <<>>
  /\ UNCHANGED <<revisions, file, rows, edits, said, checking>>

saveFailed ==
  /\ sending # <<>>
  /\ sending' = <<>>
  /\ UNCHANGED <<revisions, file, rows, edits, verdict, judged, said, checking>>

saveDone ==
  /\ sending # <<>> /\ ~Malformed(environmentChanges(sending[1].rows))
  /\ ~Unresolvable(environmentChanges(sending[1].rows), Previous)
  /\ Compiles(sending[1].file, SentEnvironment)
  /\ revisions' = Append(revisions, [file |-> sending[1].file, env |-> SentEnvironment,
                                     rows |-> sending[1].rows])
  /\ file' = sending[1].file /\ rows' = formFromConfiguration(SentEnvironment)
  /\ verdict' = "none" /\ judged' = file' /\ said' = <<>>
  /\ checking' = {} /\ sending' = <<>> /\ edits' = 0

StackFormsNext ==
  \/ edit \/ validate \/ validateFailed \/ submit \/ saveRefused \/ saveFailed \/ saveDone
  \/ validated

StackFormsSpec == StackFormsInit /\ [][StackFormsNext]_formVars

-----------------------------------------------------------------------------
(* No secret is ever replaced by nothing: the browser is never shown one, yet *)
(* whatever is changed, kept, removed and added in the form, no revision      *)
(* holds an empty secret (configuration, formFromConfiguration,               *)
(* setVariableAction, problemsIn, environmentChanges, resolveStackEnvironment)*)
NoBlankSecret ==
  \A i \in DOMAIN revisions : \A k \in DOMAIN revisions[i].env :
    revisions[i].env[k].secret => revisions[i].env[k].value # Blank

(* A revision holds what the form showed when it was sent: the variables not  *)
(* marked as removed, plain ones with the value in their field, a stored      *)
(* secret that was left alone with the value it had in the revision the edit  *)
(* began from, and a source the compiler accepts with these very values       *)
(* (submit to writeRevision).                                                 *)
ShownIsSaved ==
  \A i \in DOMAIN revisions :
    LET shown == {row \in Range(revisions[i].rows) : row.action # "remove"}
        env == revisions[i].env
    IN /\ Compiles(revisions[i].file, env)
       /\ DOMAIN env = {row.key : row \in shown}
       /\ \A row \in shown :
            env[row.key] = IF row.stored /\ row.secret /\ row.action = "unchanged"
                           THEN revisions[i - 1].env[row.key]
                           ELSE [secret |-> row.secret, value |-> row.value]

(* "Configuration is valid" is said of the form on the screen and never of an *)
(* older one whose answer came late: what a save of it would compile now is   *)
(* accepted.  There are two exceptions, of which the panel shows nothing: a   *)
(* variable changed since, for only the file is compared, and a stored secret *)
(* left alone, which is checked as though it were empty and saved as it is    *)
(* (validate, validationStale, validationEnvironment, compileOrRefuse).       *)
VerdictIsOfForm ==
  SaysValid /\ ~problemsIn(rows) =>
    \/ Compiles(file, resolveStackEnvironment(environmentChanges(rows), Previous))
    \/ said # validationEnvironment(rows)
    \/ \E row \in Range(rows) : row.stored /\ row.secret /\ row.action = "unchanged"

(* What the page of a stack shows is so: of the form on the screen, and of    *)
(* the revision that is saved from it.                                        *)
StackFormIsTrue == NoBlankSecret /\ ShownIsSaved /\ VerdictIsOfForm
=============================================================================
