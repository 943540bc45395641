------------------------------- MODULE Versions -------------------------------
(***************************************************************************)
(* The versions of an installation: what the settings page says of the      *)
(* agents' versions, and beside them the check for a newer release.         *)
(***************************************************************************)
EXTENDS ReleaseChecks, VersionNumbers, SequencesExt

CONSTANTS
  Cores, Identifiers, MaxIdentifiers, \* what versions are made of
  Tagged                              \* the cores also reported with a leading v

ASSUME VersionsAssumption == /\ Cores \subseteq Nat \X Nat \X Nat /\ Tagged \subseteq Cores
                             /\ Identifiers \subseteq Identifier

ParsedVersions == [core : Cores, prerelease : BoundedSeq(Identifiers, MaxIdentifiers)]

(* A report is the text of a version, with a v or without. *)
Reports == [parsed : ParsedVersions, v : {FALSE}]
             \cup [parsed : [core : Tagged, prerelease : {<<>>}], v : {TRUE}]
Unread == [parsed |-> [core |-> <<>>, prerelease |-> <<>>], v |-> FALSE] \* absent, or no version

VARIABLE fleet \* what three agents report

versionVars == <<fleet, checkVars>>

VersionsTypeOK == fleet \in [1 .. 3 -> Reports \cup {Unread}] /\ ReleaseChecksTypeOK

(* Any three reports, or any course of checks with one of them. *)
VersionsInit ==
  /\ fleet \in [1 .. 3 -> Reports \cup {Unread}]
  /\ ReleaseChecksInit
  /\ enabled => Range(fleet) = {Unread}

-----------------------------------------------------------------------------
(* summariseAgentVersions: the readable ones, each text once, in order and     *)
(* those that compare equal as they were read; the others counted.            *)
readable == {fleet[i] : i \in {j \in DOMAIN fleet : fleet[j] # Unread}}

Earlier(a, b) ==
  LET c == compareParsed(a.parsed, b.parsed)
      first(r) == Min({i \in DOMAIN fleet : fleet[i] = r})
  IN c < 0 \/ (c = 0 /\ first(a) < first(b))

ordered == SetToSortSeq(readable, Earlier)

summariseAgentVersions ==
  [oldest |-> IF ordered = <<>> THEN Unread ELSE Head(ordered),
   newest |-> IF ordered = <<>> THEN Unread ELSE Last(ordered),
   mixed |-> Cardinality(readable) > 1,
   unknown |-> Cardinality({i \in DOMAIN fleet : fleet[i] = Unread})]

-----------------------------------------------------------------------------
(* A report stays as it is; the check runs beside it.                         *)
VersionsNext == ReleaseChecksNext /\ UNCHANGED fleet

VersionsSpec == VersionsInit /\ [][VersionsNext]_versionVars

-----------------------------------------------------------------------------
(* What three agents report is in the order compareParsed promises.           *)
VersionsAreOrdered ==
  Unread \notin Range(fleet) =>
    OrderedAsVersions(fleet[1].parsed, fleet[2].parsed, fleet[3].parsed)

(* The oldest and the newest version the page names bound those of all agents *)
(* that report one, whatever order they are read in.  The fleet is called     *)
(* mixed when the two differ, and also when it runs one version that is       *)
(* written in two ways (summariseAgentVersions).                              *)
FleetIsBounded ==
  LET s == summariseAgentVersions
      rank(a, b) == compareParsed(a.parsed, b.parsed)
  IN /\ \A i \in DOMAIN fleet : fleet[i] # Unread =>
          rank(s.oldest, fleet[i]) <= 0 /\ rank(fleet[i], s.newest) <= 0
     /\ s.mixed <=> s.oldest # s.newest
     /\ s.mixed => rank(s.oldest, s.newest) < 0 \/ \E r \in Range(fleet) : r.v
     /\ s.unknown = Len(fleet) => s.oldest = Unread

(* The versions of a fleet are ranked as the page says.                       *)
VersionsAreRanked == VersionsAreOrdered /\ FleetIsBounded
=============================================================================
