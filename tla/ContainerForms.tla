---------------------------- MODULE ContainerForms ----------------------------
(***************************************************************************)
(* The pages that create and edit a container: the configuration they load, *)
(* the form, the review of changes beside it, and what the control server   *)
(* makes of the request.  Several editors may have the same container open, *)
(* and nothing in a request says which configuration it was made from.      *)
(*                                                                          *)
(* A configuration is a command line, a published port, a healthcheck and   *)
(* the environment; the fields that pass through form and server as they    *)
(* are (name, image, mounts, networks, labels) are left out.  A command is  *)
(* a sequence of arguments and an argument a sequence of words, so that     *)
(* joining and splitting at spaces is what it is.  Value 0 is the empty one.*)
(***************************************************************************)
EXTENDS Naturals, Sequences, SequencesExt, FiniteSets, Functions

CONSTANTS
  Editors,            \* browser pages
  Created,            \* the configurations that are asked for elsewhere
  Commands,           \* the command lines an operator types: sequences of words
  EnvNames,           \* names of environment variables
  MaxEnvValue, MaxEnvRows, MaxEdits, MaxConfigs \* bounds

ASSUME ContainerFormsAssumption ==
  /\ {MaxEnvValue, MaxEnvRows, MaxEdits, MaxConfigs} \subseteq Nat
  /\ \A c \in Created : \A i \in DOMAIN c.argv : c.argv[i] # <<>>

Unset == 0
EnvValues == 0 .. MaxEnvValue
Unnamed == "unnamed"
PortRows == [hostIp : {"any", "local"}, hostPort : 0 .. 1]
EnvironmentRows == [key : EnvNames \cup {Unnamed}, value : Nat, secret : BOOLEAN,
                    stored : BOOLEAN, action : {"unchanged", "change", "remove"}]

VARIABLES
  version, \* how many configurations the container has had, 0 before it is created
  config,  \* the current one
  page     \* what each page shows, and how often it was edited

containerFormVars == <<version, config, page>>

emptyForm == [command |-> <<>>, port |-> [hostIp |-> "any", hostPort |-> 0], rows |-> <<>>]
NoConfig == [argv |-> <<>>, port |-> emptyForm.port, health |-> FALSE, env |-> <<>>]
NotOpen == [open |-> FALSE, base |-> 0, original |-> emptyForm, form |-> emptyForm, sent |-> <<>>,
            typed |-> 0]

ContainerFormsTypeOK ==
  /\ version \in 0 .. MaxConfigs
  /\ config.port \in PortRows
  /\ \A e \in Editors :
       /\ page[e].typed \in 0 .. MaxEdits
       /\ page[e].base \in 0 .. version
       /\ page[e].form.port \in PortRows
       /\ Range(page[e].form.rows) \subseteq EnvironmentRows
       /\ Len(page[e].sent) <= 1

ContainerFormsInit ==
  /\ version = 0 /\ config = NoConfig
  /\ page = [e \in Editors |-> NotOpen]

-----------------------------------------------------------------------------
(* presentEnvironment, then formFrom: a secret comes without its value, the   *)
(* command as one line, the healthcheck not at all.                           *)
joined(argv) == FlattenSeq(argv)
words(text) == [i \in DOMAIN text |-> <<text[i]>>]

formFrom(c) ==
  LET keys == SetToSeq(DOMAIN c.env)
  IN [command |-> joined(c.argv), port |-> c.port,
      rows |-> [i \in DOMAIN keys |->
                  [key |-> keys[i], secret |-> c.env[keys[i]].secret, stored |-> TRUE,
                   action |-> "unchanged",
                   value |-> IF c.env[keys[i]].secret THEN Unset ELSE c.env[keys[i]].value]]]

(* requestFrom, and toEnvironment for each named row. *)
toEnvironment(row) ==
  [key |-> row.key, value |-> row.value,
   operation |-> IF row.action = "remove" THEN "remove"
                 ELSE IF row.stored /\ row.secret /\ row.action = "unchanged" THEN "unchanged"
                 ELSE IF row.secret THEN "set-secret" ELSE "set"]

requestFrom(form) ==
  LET named == SelectSeq(form.rows, LAMBDA row : row.key # Unnamed)
  IN [argv |-> words(form.command), port |-> form.port,
      environment |-> [i \in DOMAIN named |-> toEnvironment(named[i])]]

formProblems(rs) ==
  \E i \in DOMAIN rs :
    \/ rs[i].key = Unnamed
    \/ \E j \in 1 .. i - 1 : rs[j].key = rs[i].key
    \/ /\ rs[i].secret /\ rs[i].value = Unset
       /\ ~rs[i].stored \/ rs[i].action = "change"

(* changesBetween: the lines of the review.  A port is compared by the text   *)
(* that is shown for it, and the environment row by row.                      *)
portText(p) == IF p.hostPort = 0 THEN <<"exposed">> ELSE <<p.hostIp, p.hostPort>>

(* Mutant: a changed value is not listed. *)
RowListedByName(row, before) ==
  \/ row.action = "remove"
  \/ {old \in Range(before) : old.key = row.key} = {}
  \/ row.secret /\ row.action = "change"

RowListed(row, before) ==
  LET existing == {old \in Range(before) : old.key = row.key}
  IN \/ row.action = "remove"
     \/ existing = {}
     \/ row.secret /\ row.action = "change"
     \/ ~row.secret /\ \E old \in existing : old.value # row.value

environmentListed(before, after) ==
  LET kept == {row.key : row \in Range(after)}
  IN {row.key : row \in {r \in Range(after) : RowListed(r, before)}}
       \cup {row.key : row \in {r \in Range(before) : r.key \notin kept}}

changesBetween(before, after) ==
  UNION { IF before.command # after.command THEN {"Command"} ELSE {},
          IF portText(before.port) # portText(after.port) THEN {"Ports"} ELSE {},
          environmentListed(before.rows, after.rows) }

(* environmentEntrySchema and refineConfiguration: no secret without a value, *)
(* no variable given twice.                                                   *)
InvalidSpec(entries) ==
  \/ \E i \in DOMAIN entries : entries[i].operation = "set-secret" /\ entries[i].value = Unset
  \/ \E i, j \in DOMAIN entries : i # j /\ entries[i].key = entries[j].key

(* resolveEnvironment: what is left alone is carried across as it is stored.  *)
Unknown(entries, previous) ==
  \E i \in DOMAIN entries :
    entries[i].operation = "unchanged" /\ entries[i].key \notin DOMAIN previous

resolveEnvironment(entries, previous) ==
  LET kept == SelectSeq(entries, LAMBDA entry : entry.operation # "remove")
      at(k) == kept[CHOOSE i \in DOMAIN kept : kept[i].key = k]
  IN [k \in {kept[i].key : i \in DOMAIN kept} |->
        IF at(k).operation = "unchanged" THEN previous[k]
        ELSE [secret |-> at(k).operation = "set-secret", value |-> at(k).value]]

-----------------------------------------------------------------------------
(* A create, or a change, that another page or another client of the API      *)
(* asked for: any command, and a healthcheck, which no form can give.         *)
configureElsewhere(c) ==
  /\ version < MaxConfigs /\ version' = version + 1
  /\ config' = c
  /\ UNCHANGED page

(* The page opens: on the empty form, or once the configuration has come. *)
openForm(e) ==
  /\ ~page[e].open
  /\ LET form == IF version = 0 THEN emptyForm ELSE formFrom(config)
     IN page' = [page EXCEPT ![e] = [open |-> TRUE, base |-> version, original |-> form,
                                     form |-> form, sent |-> <<>>, typed |-> 0]]
  /\ UNCHANGED <<version, config>>

(* What the form lets an operator do. *)
setRowAction(row, a) == [row EXCEPT !.action = a, !.value = Unset]

RowChoices(row) ==
  IF row.stored /\ row.secret
  THEN IF row.action = "change"
       THEN {[row EXCEPT !.value = v] : v \in EnvValues} \cup {setRowAction(row, "unchanged")}
       ELSE {setRowAction(row, a) :
               a \in IF row.action = "unchanged" THEN {"change", "remove"} ELSE {"unchanged"}}
  ELSE {[row EXCEPT !.value = v] : v \in EnvValues}

(* addVariable, with what is then typed into the row. *)
NewRows == [key : EnvNames \cup {Unnamed}, value : EnvValues, secret : BOOLEAN,
            stored : {FALSE}, action : {"unchanged"}]

FormEdits(form) ==
  UNION { {[form EXCEPT !.command = text] : text \in Commands},
          {[form EXCEPT !.port = p] : p \in PortRows},
          UNION {{[form EXCEPT !.rows = [@ EXCEPT ![i] = row]] : row \in RowChoices(form.rows[i])} :
                   i \in DOMAIN form.rows},
          {[form EXCEPT !.rows = RemoveAt(@, i)] :
             i \in {j \in DOMAIN form.rows : ~(form.rows[j].stored /\ form.rows[j].secret)}},
          IF Len(form.rows) < MaxEnvRows
            THEN {[form EXCEPT !.rows = Append(@, row)] : row \in NewRows} ELSE {} }

patchForm(e) ==
  /\ page[e].open /\ page[e].typed < MaxEdits
  /\ \E form \in FormEdits(page[e].form) \ {page[e].form} :
       page' = [page EXCEPT ![e] = [@ EXCEPT !.form = form, !.typed = @ + 1]]
  /\ UNCHANGED <<version, config>>

submitForm(e) ==
  /\ page[e].open /\ page[e].sent = <<>>
  /\ ~formProblems(page[e].form.rows)
  /\ page' = [page EXCEPT ![e] = [@ EXCEPT !.sent = <<page[e].form>>]]
  /\ UNCHANGED <<version, config>>

(* create or prepareReplace: the whole new configuration, resolved against    *)
(* the one that is current by now.                                            *)
configurationOf(form) ==
  LET request == requestFrom(form)
  IN [argv |-> request.argv, port |-> request.port, health |-> FALSE,
      env |-> resolveEnvironment(request.environment, config.env)]

Acceptable(e) ==
  /\ page[e].sent # <<>>
  /\ page[e].base = 0 => version = 0
  /\ ~InvalidSpec(requestFrom(page[e].sent[1]).environment)
  /\ ~Unknown(requestFrom(page[e].sent[1]).environment, config.env)

Resubmittable(e) == page' = [page EXCEPT ![e] = [@ EXCEPT !.sent = <<>>]]

(* The answer is taken, or it is that nobody knows: the form stays. *)
replaceContainer(e) ==
  /\ Acceptable(e)
  /\ version < MaxConfigs /\ version' = version + 1
  /\ config' = configurationOf(page[e].sent[1])
  /\ \/ page' = [page EXCEPT ![e] = NotOpen]
     \/ Resubmittable(e)

(* Refused, for a variable that is no longer there or any other reason. *)
replaceRefused(e) ==
  /\ page[e].sent # <<>>
  /\ Resubmittable(e)
  /\ UNCHANGED <<version, config>>

ContainerFormsNext ==
  \/ \E c \in Created : configureElsewhere(c)
  \/ \E e \in Editors :
       openForm(e) \/ patchForm(e) \/ submitForm(e) \/ replaceContainer(e) \/ replaceRefused(e)

ContainerFormsSpec == ContainerFormsInit /\ [][ContainerFormsNext]_containerFormVars

-----------------------------------------------------------------------------
(* What differs between two configurations. *)
Differences(old, new) ==
  LET had(c, k) == IF k \in DOMAIN c.env THEN <<c.env[k]>> ELSE <<>>
  IN UNION { IF old.argv # new.argv THEN {"Command"} ELSE {},
             IF old.port # new.port THEN {"Ports"} ELSE {},
             IF old.health # new.health THEN {"Healthcheck"} ELSE {},
             {k \in EnvNames : had(old, k) # had(new, k)} }

(* The edits that would be taken if they arrived now. *)
Awaited == {e \in Editors : Acceptable(e) /\ page[e].base > 0}

Omitted(e) == Differences(config, configurationOf(page[e].sent[1]))
                \ changesBetween(page[e].original, page[e].sent[1])

(* `An operator should see the whole list': an edit changes nothing that the  *)
(* review beside the form did not list.  The code keeps this with five        *)
(* exceptions: another edit came in between; an argument with a space in it   *)
(* is split into several; a healthcheck is dropped; the address of a port the *)
(* host chooses was changed; or a stored variable was taken out and one of    *)
(* its name put in (changesBetween, requestFrom, configurationOf).            *)
OmissionsAreExplained ==
  \A e \in {d \in Awaited : page[d].base = version} : \A item \in Omitted(e) :
    \/ item = "Command" /\ \E n \in DOMAIN config.argv : Len(config.argv[n]) > 1
    \/ item = "Healthcheck" /\ config.health
    \/ item = "Ports" /\ config.port.hostPort = 0
    \/ \E row \in Range(page[e].sent[1].rows) : row.key = item /\ ~row.stored

(* A secret the operator left alone is, in the new configuration, the one of  *)
(* the configuration it replaces, even if it was changed elsewhere since this *)
(* page was opened; and no secret is ever empty (toEnvironment,               *)
(* setVariableAction, problemsIn, resolveEnvironment).                        *)
SecretsAreCarried ==
  /\ \A k \in DOMAIN config.env : config.env[k].secret => config.env[k].value # Unset
  /\ \A e \in Awaited : \A row \in Range(page[e].sent[1].rows) :
       row.stored /\ row.secret /\ row.action = "unchanged"
         => configurationOf(page[e].sent[1]).env[row.key] = config.env[row.key]

(* An edit does what the review beside the form listed, and keeps the secrets *)
(* it was not asked to change.                                                *)
EditIsAsReviewed == OmissionsAreExplained /\ SecretsAreCarried
=============================================================================
