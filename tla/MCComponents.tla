---------------------------- MODULE MCComponents ----------------------------
(***************************************************************************)
(* The components that share no state, each by itself: which one moves is   *)
(* chosen at the start, and the others stand where they begin.  Every       *)
(* behaviour of this specification is a behaviour of one component.         *)
(***************************************************************************)
EXTENDS MCGateway, Onboarding, Access, LogStreams, LogLines, HostArchive, StackDefinitions,
        StackForms, ContainerForms, Readings, Offers, Versions, AgentReplace

VARIABLE part

-----------------------------------------------------------------------------
(* Values for the constants. *)

Renewal == Once({"renew"})

EachTheirOwn == [v \in Viewers |-> v]

(* A file that makes do without the variable, and one that does not; the      *)
(* first takes one of the two values only.                                    *)
SomeAccepted == [f \in ComposeFiles |-> IF f = Starter THEN {0, 1} ELSE {1, 2}]

(* Versions that differ in the major number, or in both of the others. *)
SomeCores == {<<0, 2, 1>>, <<0, 3, 0>>, <<1, 0, 0>>}

SomeTagged == {<<0, 3, 0>>}

(* A numeric identifier and an alphanumeric one. *)
SomeIdentifiers == {<<0, 1>>, <<1, 1>>}

(* A command with a space in its argument, a healthcheck and a variable. *)
SomeCreated ==
  {[argv |-> <<<<"w", "x">>>>, port |-> [hostIp |-> "any", hostPort |-> 0], health |-> TRUE,
    env |-> [k \in EnvNames |-> [secret |-> hidden, value |-> v]]] :
     hidden \in BOOLEAN, v \in 1 .. 2}

SomeCommands == {<<"w">>}

-----------------------------------------------------------------------------
(* What stands still where the component that moves has several beginnings. *)
OffersAtRest ==
  /\ facts = [about |-> "stack", container |-> SomeContainer, stack |-> QuietStack,
              held |-> {}, lock |-> "free",
              host |-> [revoked |-> FALSE, connected |-> TRUE, old |-> FALSE,
                        archived |-> FALSE, observed |-> "recent"]]
  /\ answer = "none"

VersionsAtRest == fleet = [i \in 1 .. 3 |-> Unread] /\ enabled = TRUE /\ VersionsInit

ComponentsInit ==
  /\ Init /\ OnboardingInit /\ AccessInit /\ LogStreamsInit /\ LogLinesInit /\ HostArchiveInit
  /\ StackDefinitionsInit /\ StackFormsInit /\ ContainerFormsInit /\ ReadingsInit
  /\ AgentReplaceInit
  /\ \/ part = "offers" /\ VersionsAtRest /\ OffersInit
     \/ part = "versions" /\ OffersAtRest /\ VersionsInit
     \/ /\ part \in {"gateway", "onboarding", "access", "streams", "lines", "archive",
                     "definitions", "stack form", "container form", "readings", "replace"}
        /\ OffersAtRest /\ VersionsAtRest
  /\ part = "access" \/ ~account.enabled
  /\ part = "replace" \/ engine[0].running

componentVars ==
  <<part, vars, onboardingVars, accessVars, streamVars, lineVars, archiveVars, definitionVars,
    formVars, containerFormVars, readingVars, offerVars, versionVars, replaceVars>>

(* The variables in three groups, so that a step can name what it leaves alone. *)
hostVars == <<vars, onboardingVars, accessVars, archiveVars, replaceVars>>
logVars  == <<streamVars, lineVars, readingVars, versionVars>>
pageVars == <<definitionVars, formVars, containerFormVars, offerVars>>

ComponentsNext ==
  /\ UNCHANGED part
  /\ \/ /\ part \in {"gateway", "onboarding", "access", "archive", "replace"}
        /\ \/ /\ part = "gateway" /\ Next
              /\ UNCHANGED <<onboardingVars, accessVars, archiveVars, replaceVars>>
           \/ /\ part = "onboarding" /\ OnboardingNext
              /\ UNCHANGED <<vars, accessVars, archiveVars, replaceVars>>
           \/ /\ part = "access" /\ AccessNext
              /\ UNCHANGED <<vars, onboardingVars, archiveVars, replaceVars>>
           \/ /\ part = "archive" /\ HostArchiveNext
              /\ UNCHANGED <<vars, onboardingVars, accessVars, replaceVars>>
           \/ /\ part = "replace" /\ AgentReplaceNext
              /\ UNCHANGED <<vars, onboardingVars, accessVars, archiveVars>>
        /\ UNCHANGED <<logVars, pageVars>>
     \/ /\ part \in {"streams", "lines", "readings", "versions"}
        /\ \/ /\ part = "streams" /\ LogStreamsNext
              /\ UNCHANGED <<lineVars, readingVars, versionVars>>
           \/ /\ part = "lines" /\ LogLinesNext
              /\ UNCHANGED <<streamVars, readingVars, versionVars>>
           \/ /\ part = "readings" /\ ReadingsNext
              /\ UNCHANGED <<streamVars, lineVars, versionVars>>
           \/ /\ part = "versions" /\ VersionsNext
              /\ UNCHANGED <<streamVars, lineVars, readingVars>>
        /\ UNCHANGED <<hostVars, pageVars>>
     \/ /\ part \in {"definitions", "stack form", "container form", "offers"}
        /\ \/ /\ part = "definitions" /\ StackDefinitionsNext
              /\ UNCHANGED <<formVars, containerFormVars, offerVars>>
           \/ /\ part = "stack form" /\ StackFormsNext
              /\ UNCHANGED <<definitionVars, containerFormVars, offerVars>>
           \/ /\ part = "container form" /\ ContainerFormsNext
              /\ UNCHANGED <<definitionVars, formVars, offerVars>>
           \/ /\ part = "offers" /\ OffersNext
              /\ UNCHANGED <<definitionVars, formVars, containerFormVars>>
        /\ UNCHANGED <<hostVars, logVars>>

(* The component that moves has a state of its type; the others stand still.  *)
ComponentsTypeOK ==
  CASE part = "gateway"        -> TypeOK
    [] part = "onboarding"     -> OnboardingTypeOK
    [] part = "access"         -> AccessTypeOK
    [] part = "streams"        -> LogStreamsTypeOK
    [] part = "lines"          -> LogLinesTypeOK
    [] part = "archive"        -> HostArchiveTypeOK
    [] part = "definitions"    -> StackDefinitionsTypeOK
    [] part = "stack form"     -> StackFormsTypeOK
    [] part = "container form" -> ContainerFormsTypeOK
    [] part = "readings"       -> ReadingsTypeOK
    [] part = "offers"         -> OffersTypeOK
    [] part = "versions"       -> VersionsTypeOK
    [] part = "replace"        -> AgentReplaceTypeOK

ComponentsSpec == ComponentsInit /\ [][ComponentsNext]_componentVars
=============================================================================
