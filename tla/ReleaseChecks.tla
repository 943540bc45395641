---------------------------- MODULE ReleaseChecks ----------------------------
(***************************************************************************)
(* ReleaseVersionService: the optional check for a newer release, with its  *)
(* shared request and its two lifetimes.                                    *)
(***************************************************************************)
EXTENDS Integers

CONSTANTS
  Settings,                           \* open settings pages
  SuccessTtl, FailureTtl, MaxClock    \* in ticks

ASSUME ReleaseChecksAssumption ==
  {SuccessTtl, FailureTtl} \subseteq Nat \ {0} /\ MaxClock \in Nat

Never == -1

VARIABLES
  enabled,  \* UPDATE_CHECK_ENABLED
  clock,
  lastGood, \* answer: when, and what the listing named
  failedAt,
  checkOn,  \* inFlight
  lastEnd,  \* when the last request of the listing ended
  shown     \* what status told each page

checkVars == <<enabled, clock, lastGood, failedAt, checkOn, lastEnd, shown>>

ReleaseChecksTypeOK ==
  /\ enabled \in BOOLEAN /\ checkOn \in BOOLEAN
  /\ clock \in 0 .. MaxClock
  /\ lastGood \in [at : Never .. MaxClock, named : BOOLEAN]
  /\ failedAt \in Never .. MaxClock /\ lastEnd \in Never .. MaxClock
  /\ shown \in [Settings -> {"nothing", "waiting", "disabled", "unavailable", "unsupported",
                             "ok", "ok, stale", "unsupported, stale"}]

ReleaseChecksInit ==
  /\ enabled \in BOOLEAN
  /\ clock = 0
  /\ lastGood = [at |-> Never, named |-> FALSE]
  /\ failedAt = Never /\ lastEnd = Never
  /\ checkOn = FALSE
  /\ shown = [p \in Settings |-> "nothing"]

-----------------------------------------------------------------------------
(* Mutant: a failure is tried again at once. *)
shouldCheckAgain == ~(lastGood.at # Never /\ clock - lastGood.at < SuccessTtl)

shouldCheck ==
  /\ ~(lastGood.at # Never /\ clock - lastGood.at < SuccessTtl)
  /\ failedAt = Never \/ clock - failedAt >= FailureTtl

describe ==
  IF lastGood.at = Never THEN IF failedAt = Never THEN "unknown" ELSE "unavailable"
  ELSE LET old == clock - lastGood.at >= SuccessTtl
       IN IF lastGood.named THEN IF old THEN "ok, stale" ELSE "ok"
          ELSE IF old THEN "unsupported, stale" ELSE "unsupported"

(* status: what is known, or after the check that is due; one that is under   *)
(* way is joined.                                                             *)
status(p) ==
  /\ shown[p] # "waiting"
  /\ \/ ~enabled /\ shown' = [shown EXCEPT ![p] = "disabled"] /\ UNCHANGED checkOn
     \/ enabled /\ ~shouldCheck /\ shown' = [shown EXCEPT ![p] = describe] /\ UNCHANGED checkOn
     \/ enabled /\ shouldCheck /\ shown' = [shown EXCEPT ![p] = "waiting"] /\ checkOn' = TRUE
  /\ UNCHANGED <<enabled, clock, lastGood, failedAt, lastEnd>>

(* The request ends: with a stable release, with none that can be read, or    *)
(* not at all; then all who waited are told.                                  *)
Outcome(good, failed) ==
  /\ lastGood' = good /\ failedAt' = failed

latestStable(named) == Outcome([at |-> clock, named |-> named], Never)

checkFails == Outcome(lastGood, clock)

Checked ==
  /\ checkOn
  /\ checkFails \/ \E named \in BOOLEAN : latestStable(named)
  /\ checkOn' = FALSE /\ lastEnd' = clock
  /\ UNCHANGED <<enabled, clock>>
  /\ shown' = [p \in Settings |-> IF shown[p] = "waiting" THEN describe' ELSE shown[p]]

tick ==
  /\ enabled /\ clock < MaxClock
  /\ clock' = clock + 1
  /\ UNCHANGED <<enabled, lastGood, failedAt, checkOn, lastEnd, shown>>

ReleaseChecksNext == Checked \/ tick \/ \E p \in Settings : status(p)

ReleaseChecksSpec == ReleaseChecksInit /\ [][ReleaseChecksNext]_checkVars

-----------------------------------------------------------------------------
(* The listing is asked sparingly: not at all while the check is off, and     *)
(* however many pages are open and however often it fails, not again before   *)
(* the shorter lifetime has passed since the last request ended; and a check  *)
(* that fails takes nothing away: once a page has been told what the listing  *)
(* named, no page is told that it could not be reached (shouldCheck, check,   *)
(* run and its catch, describe).                                              *)
ChecksAreSparing ==
  [][ /\ ~checkOn /\ checkOn' =>
           enabled /\ (lastEnd # Never => \/ clock - lastEnd >= FailureTtl
                                          \/ clock - lastEnd >= SuccessTtl)
      /\ (\E p \in Settings : shown[p] \notin {"nothing", "waiting", "disabled", "unavailable"})
           => \A p \in Settings : shown'[p] = "unavailable" => shown[p] = "unavailable"
    ]_checkVars
=============================================================================
