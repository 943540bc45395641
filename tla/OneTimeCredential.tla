-------------------------- MODULE OneTimeCredential --------------------------
(***************************************************************************)
(* What Dockplane promises of every credential that is good for one use:    *)
(* the bootstrap ticket of a host setup, the enrollment token of an agent   *)
(* and the recovery code of a user.  Each is issued once, is taken by at    *)
(* most one holder, and is never live again once it is spent or void.       *)
(***************************************************************************)
CONSTANTS Creds, Holders

VARIABLES
  fate,   \* what has become of each credential
  taker   \* the holders that were let in with it

Fates == {"unissued", "live", "spent", "void"}

OneTimeInit ==
  /\ fate \in [Creds -> {"unissued", "live"}]
  /\ taker = [c \in Creds |-> {}]

(* Some are shown to whoever asked for them and some are withdrawn or run   *)
(* out; a set that takes the place of another does both at once.            *)
Turnover ==
  /\ fate' \in [Creds -> Fates]
  /\ \A c \in Creds :
       \/ fate'[c] = fate[c]
       \/ (fate[c] = "unissued" /\ fate'[c] = "live")
       \/ (fate[c] = "live" /\ fate'[c] = "void")
  /\ UNCHANGED taker

Take(c, h) ==
  /\ fate[c] = "live"
  /\ fate' = [fate EXCEPT ![c] = "spent"]
  /\ taker' = [taker EXCEPT ![c] = {h}]

OneTimeNext ==
  \/ Turnover
  \/ \E c \in Creds, h \in Holders : Take(c, h)

OneTimeSpec == OneTimeInit /\ [][OneTimeNext]_<<fate, taker>>
=============================================================================
