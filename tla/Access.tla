-------------------------------- MODULE Access --------------------------------
(***************************************************************************)
(* Signing in: the sessions of one account and its second factor on the     *)
(* server, the guards every request passes, and what the browsers of the    *)
(* operator believe about the session they hold.                            *)
(*                                                                          *)
(* A request is a call: sent with the cookie and the CSRF token its browser *)
(* had, resolved by the guards, handled in the steps between two awaits,    *)
(* answered with a status, and applied by the browser when the answer       *)
(* comes, in any order.  A CSRF token is <<s, g>>, the g-th that session s  *)
(* was given.                                                               *)
(***************************************************************************)
EXTENDS Naturals

CONSTANTS
  Browsers, Calls,
  Uses,                      \* what signed-in pages ask for
  MaxSessions, MaxCodeSets,  \* how many sessions and sets of recovery codes there are
  MaxTokensOf,               \* how many CSRF tokens of a session are told apart
  MaxTrouble                 \* how often an answer is lost, a page reloaded, a code mistyped

ASSUME AccessAssumption ==
  /\ MaxSessions \in Nat /\ MaxTrouble \in Nat
  /\ MaxCodeSets \in Nat \ {0} /\ MaxTokensOf \in Nat \ {0}

SessionIds == 1 .. MaxSessions
RecoveryCodes == 1 .. MaxCodeSets   \* one stands for the ten of a set

(* What may be typed into a code field. *)
NoCode == 0
Totp == MaxCodeSets + 1
Mistyped == MaxCodeSets + 2
SubmittedCodes == 1 .. MaxCodeSets + 2

NoToken == <<0, 0>>
CsrfTokens == (SessionIds \X (1 .. MaxTokensOf)) \cup {NoToken}
Statuses == {0, 200, 400, 401, 403}

Nobody == 0
FreeCall == [op |-> "none", from |-> Nobody, cookie |-> 0, csrf |-> NoToken, code |-> NoCode,
             stage |-> "free", sess |-> 0, new |-> 0, mfa |-> FALSE, status |-> 0]

VARIABLES
  sessionRows,  \* sessions: whether they are usable, pending, and their CSRF digest
  account,      \* users: mfaEnabled and mfaSecretEncrypted
  codeRows,     \* recovery_codes: those not yet consumed
  codeSets,     \* how many sets have been shown
  codeTaker,    \* the calls each code let through
  rotatedFrom,  \* the pending session each session replaced
  tab,          \* Session, Auth and Login of each browser, and its cookie
  call,
  trouble

accessVars == <<sessionRows, account, codeRows, codeSets, codeTaker, rotatedFrom, tab, call,
                trouble>>

StateChanging == {"login", "verify", "logout", "setup", "confirm", "disable", "regenerate"}
Operations == StateChanging \cup {"me", "read"}
Challenged == {"verify", "disable", "regenerate"}
Underway == {"handle", "issue", "consume", "accepted", "activate", "disabled"}

AccessTypeOK ==
  /\ sessionRows \in [SessionIds -> [st : {"none", "usable", "over"}, pending : BOOLEAN,
                                     csrf : 0 .. MaxTokensOf]]
  /\ account \in [enabled : BOOLEAN, secret : BOOLEAN]
  /\ codeRows \subseteq RecoveryCodes
  /\ codeSets \in 0 .. MaxCodeSets
  /\ codeTaker \in [RecoveryCodes -> SUBSET Calls]
  /\ rotatedFrom \in [SessionIds -> 0 .. MaxSessions]
  /\ tab \in [Browsers -> [kind : {"unknown", "anonymous", "mfa-pending", "authenticated"},
                           csrf : CsrfTokens, restoring : BOOLEAN,
                           check : Calls \cup {Nobody}, cookie : 0 .. MaxSessions,
                           page : {"credentials", "second-factor", "completing", "app"}]]
  /\ \A c \in Calls :
       /\ call[c].op \in Operations \cup {"none"} /\ call[c].from \in Browsers \cup {Nobody}
       /\ call[c].cookie \in 0 .. MaxSessions /\ call[c].csrf \in CsrfTokens
       /\ call[c].code \in SubmittedCodes \cup {NoCode}
       /\ call[c].stage \in {"free", "sent", "answered"} \cup Underway
       /\ call[c].sess \in 0 .. MaxSessions /\ call[c].new \in 0 .. MaxSessions
       /\ call[c].mfa \in BOOLEAN /\ call[c].status \in Statuses
  /\ trouble \in 0 .. MaxTrouble

(* An account with or without the second factor, and browsers that have just  *)
(* been opened.                                                               *)
AccessInit ==
  /\ sessionRows = [s \in SessionIds |-> [st |-> "none", pending |-> FALSE, csrf |-> 0]]
  /\ \E on \in BOOLEAN :
       /\ account = [enabled |-> on, secret |-> on]
       /\ codeSets = IF on THEN 1 ELSE 0
       /\ codeRows = IF on THEN {1} ELSE {}
  /\ codeTaker = [k \in RecoveryCodes |-> {}]
  /\ rotatedFrom = [s \in SessionIds |-> 0]
  /\ tab = [b \in Browsers |-> [kind |-> "unknown", csrf |-> NoToken, restoring |-> FALSE,
                                check |-> Nobody, cookie |-> 0, page |-> "app"]]
  /\ call = [c \in Calls |-> FreeCall]
  /\ trouble = 0

server == <<sessionRows, account, codeRows, codeSets, codeTaker, rotatedFrom>>

Trouble == trouble < MaxTrouble /\ trouble' = trouble + 1
Typing(typed) == IF typed = Mistyped THEN Trouble ELSE UNCHANGED trouble

-----------------------------------------------------------------------------
(* The browser. *)

(* ApiClient and csrfInterceptor: the cookie always, the token if it changes  *)
(* state and there is one.                                                    *)
RequestOf(b, operation, typed) ==
  [FreeCall EXCEPT !.op = operation, !.from = b, !.cookie = tab[b].cookie,
                   !.csrf = IF operation \in StateChanging THEN tab[b].csrf ELSE NoToken,
                   !.code = typed, !.stage = "sent"]

Send(c, b, operation, typed) ==
  call[c].stage = "free" /\ call' = [call EXCEPT ![c] = RequestOf(b, operation, typed)]

(* A form is busy until its own call has been answered. *)
Busy(b) == \E c \in Calls : call[c].from = b /\ call[c].op \in StateChanging

(* restore: guards that find the session unknown, and Login.complete; one     *)
(* check is shared until it is forgotten.                                     *)
restore(c, b) ==
  /\ ~tab[b].restoring
  /\ tab[b].kind = "unknown" \/ tab[b].page = "completing"
  /\ Send(c, b, "me", NoCode)
  /\ tab' = [tab EXCEPT ![b].restoring = TRUE, ![b].check = c]
  /\ UNCHANGED <<server, trouble>>

(* Login.submit and Login.verify; the operator may mistype the code. *)
submitLogin(c, b) ==
  /\ tab[b].page = "credentials" /\ ~Busy(b)
  /\ Send(c, b, "login", NoCode)
  /\ UNCHANGED <<server, tab, trouble>>

submitCode(c, b, typed) ==
  /\ tab[b].page = "second-factor" /\ ~Busy(b)
  /\ Send(c, b, "verify", typed)
  /\ Typing(typed)
  /\ UNCHANGED <<server, tab>>

(* Login.restart. *)
restart(b) ==
  /\ tab[b].page = "second-factor" /\ ~Busy(b)
  /\ tab' = [tab EXCEPT ![b].page = "credentials"]
  /\ UNCHANGED <<server, call, trouble>>

(* A page reads when it is opened or refreshed.  Of itself, and again and     *)
(* again, only the dialog that waits for a host's setup does.                 *)
readPage(c, b) ==
  /\ "read" \in Uses
  /\ tab[b].page = "app" /\ tab[b].kind # "unknown"
  /\ \A d \in Calls : call[d].op # "read" \/ call[d].from # b
  /\ Send(c, b, "read", NoCode)
  /\ UNCHANGED <<server, tab, trouble>>

(* The account menu and the security page. *)
askOf(c, b, operation, typed) ==
  /\ tab[b].page = "app" /\ tab[b].kind = "authenticated" /\ ~Busy(b)
  /\ Send(c, b, operation, typed)
  /\ Typing(typed)
  /\ UNCHANGED <<server, tab>>

(* The page is loaded again: what it held is gone, and nobody is left to take *)
(* the answers it was waiting for.                                            *)
reload(b) ==
  /\ Trouble
  /\ tab' = [tab EXCEPT ![b].kind = "unknown", ![b].csrf = NoToken, ![b].restoring = FALSE,
                        ![b].check = Nobody, ![b].page = "app"]
  /\ call' = [c \in Calls |-> IF call[c].from = b THEN [call[c] EXCEPT !.from = Nobody]
                              ELSE call[c]]
  /\ UNCHANGED server

-----------------------------------------------------------------------------
(* SessionGuard, CsrfGuard, and the handler's own first check. *)
Answered(c, s) == [FreeCall EXCEPT !.op = call[c].op, !.from = call[c].from,
                                   !.stage = "answered", !.status = s]

Answer(c, s) == call' = [call EXCEPT ![c] = Answered(c, s)]

(* ... with a session in its cookie. *)
AnswerWith(c, s, waits) ==
  call' = [call EXCEPT ![c] = [Answered(c, 200) EXCEPT !.new = s, !.mfa = waits]]

Resolved(c) == IF call[c].cookie # 0 /\ sessionRows[call[c].cookie].st = "usable"
               THEN call[c].cookie ELSE 0

HeldToken(s) == <<s, sessionRows[s].csrf>>

(* The status a guard refuses the call with, 200 if it goes on to its handler. *)
GuardsSay(c) ==
  LET s == Resolved(c) IN
  IF s = 0 THEN IF call[c].op = "login" THEN 200 ELSE 401
  ELSE IF sessionRows[s].pending /\ call[c].op # "verify" THEN 401
  ELSE IF call[c].op \in StateChanging /\ call[c].csrf # HeldToken(s) THEN 403
  ELSE IF call[c].op = "verify" /\ ~sessionRows[s].pending THEN 400 ELSE 200

canActivate(c) ==
  /\ call[c].stage = "sent"
  /\ LET says == GuardsSay(c) IN
     IF says # 200 \/ call[c].op = "read" THEN Answer(c, says)
     ELSE call' = [call EXCEPT ![c].sess = Resolved(c), ![c].stage = "handle",
                               ![c].cookie = 0, ![c].csrf = NoToken]
  /\ UNCHANGED <<server, tab, trouble>>

-----------------------------------------------------------------------------
(* AuthService and SessionService. *)
FreshSession(s) == s \in SessionIds /\ sessionRows[s].st = "none"
                     /\ \A u \in SessionIds : u < s => sessionRows[u].st # "none"

NewRow(waits) == [st |-> "usable", pending |-> waits, csrf |-> 1]

(* login reads the account and checks the password ... *)
login(c) ==
  /\ call[c].stage = "handle" /\ call[c].op = "login"
  /\ \/ call' = [call EXCEPT ![c].stage = "issue", ![c].mfa = account.enabled]
     \/ Answer(c, 401)
  /\ UNCHANGED <<server, tab, trouble>>

(* ... and issues a session that waits for the second factor if it is on. *)
issue(c) ==
  /\ call[c].stage = "issue"
  /\ \E s \in SessionIds :
       /\ FreshSession(s)
       /\ sessionRows' = [sessionRows EXCEPT ![s] = NewRow(call[c].mfa)]
       /\ AnswerWith(c, s, call[c].mfa)
  /\ UNCHANGED <<account, codeRows, codeSets, codeTaker, rotatedFrom, tab, trouble>>

(* Mutant: the session that waited is not ended. *)
completeBeside(c) ==
  /\ call[c].stage = "accepted" /\ call[c].op = "verify"
  /\ \E s \in SessionIds :
       /\ FreshSession(s)
       /\ sessionRows' = [sessionRows EXCEPT ![s] = NewRow(FALSE)]
       /\ rotatedFrom' = [rotatedFrom EXCEPT ![s] = call[c].sess]
       /\ AnswerWith(c, s, FALSE)
  /\ UNCHANGED <<account, codeRows, codeSets, codeTaker, tab, trouble>>

(* The identifier is replaced when the second factor succeeds. *)
completeMfa(c) ==
  /\ call[c].stage = "accepted" /\ call[c].op = "verify"
  /\ \E s \in SessionIds :
       /\ FreshSession(s)
       /\ sessionRows' = [sessionRows EXCEPT ![call[c].sess].st = "over", ![s] = NewRow(FALSE)]
       /\ rotatedFrom' = [rotatedFrom EXCEPT ![s] = call[c].sess]
       /\ AnswerWith(c, s, FALSE)
  /\ UNCHANGED <<account, codeRows, codeSets, codeTaker, tab, trouble>>

(* me: a fresh CSRF token for the session, the one before it stops working.   *)
issueCsrfToken(c) ==
  /\ call[c].stage = "handle" /\ call[c].op = "me"
  /\ LET next == (sessionRows[call[c].sess].csrf % MaxTokensOf) + 1 IN
     /\ sessionRows' = [sessionRows EXCEPT ![call[c].sess].csrf = next]
     /\ call' = [call EXCEPT ![c] = [Answered(c, 200) EXCEPT !.csrf = <<call[c].sess, next>>]]
  /\ UNCHANGED <<account, codeRows, codeSets, codeTaker, rotatedFrom, tab, trouble>>

logout(c) ==
  /\ call[c].stage = "handle" /\ call[c].op = "logout"
  /\ sessionRows' = [sessionRows EXCEPT ![call[c].sess].st = "over"]
  /\ Answer(c, 200)
  /\ UNCHANGED <<account, codeRows, codeSets, codeTaker, rotatedFrom, tab, trouble>>

(* A session is revoked from elsewhere, expires, or has been idle too long.   *)
revokeSession(s) ==
  /\ Trouble
  /\ sessionRows[s].st = "usable"
  /\ sessionRows' = [sessionRows EXCEPT ![s].st = "over"]
  /\ UNCHANGED <<account, codeRows, codeSets, codeTaker, rotatedFrom, tab, call>>

-----------------------------------------------------------------------------
(* MfaService. *)
beginSetup(c) ==
  /\ call[c].stage = "handle" /\ call[c].op = "setup"
  /\ account' = [enabled |-> FALSE, secret |-> TRUE]
  /\ Answer(c, 200)
  /\ UNCHANGED <<sessionRows, codeRows, codeSets, codeTaker, rotatedFrom, tab, trouble>>

(* confirmSetup reads the secret and checks the code against it ... *)
confirmSetup(c) ==
  /\ call[c].stage = "handle" /\ call[c].op = "confirm"
  /\ IF account.secret /\ call[c].code = Totp
     THEN call' = [call EXCEPT ![c].stage = "activate"] ELSE Answer(c, 400)
  /\ UNCHANGED <<server, tab, trouble>>

(* A new set of codes takes the place of every code before it. *)
ReplaceCodes ==
  /\ codeSets < MaxCodeSets
  /\ codeSets' = codeSets + 1
  /\ codeRows' = {codeSets + 1}

(* ... and turns the factor on, with its codes, in one transaction. *)
activate(c) ==
  /\ call[c].stage = "activate"
  /\ account' = [account EXCEPT !.enabled = TRUE]
  /\ ReplaceCodes
  /\ Answer(c, 200)
  /\ UNCHANGED <<sessionRows, codeTaker, rotatedFrom, tab, trouble>>

Rejected(c) == Answer(c, IF call[c].op = "verify" THEN 401 ELSE 400)

(* verifyChallenge: a time-based code is compared with the secret, anything   *)
(* else is tried as a recovery code.                                          *)
verifyChallenge(c) ==
  /\ call[c].stage = "handle" /\ call[c].op \in Challenged
  /\ IF ~account.enabled \/ ~account.secret THEN Rejected(c)
     ELSE call' = [call EXCEPT ![c].stage = IF call[c].code = Totp THEN "accepted"
                                            ELSE "consume"]
  /\ UNCHANGED <<server, tab, trouble>>

(* Mutant: a code that has been consumed is found all the same. *)
consumeAnyCode(c) ==
  /\ call[c].stage = "consume"
  /\ IF call[c].code \in 1 .. codeSets
     THEN /\ codeRows' = codeRows \ {call[c].code}
          /\ codeTaker' = [codeTaker EXCEPT ![call[c].code] = @ \cup {c}]
          /\ call' = [call EXCEPT ![c].stage = "accepted"]
     ELSE Rejected(c) /\ UNCHANGED <<codeRows, codeTaker>>
  /\ UNCHANGED <<sessionRows, account, codeSets, rotatedFrom, tab, trouble>>

consumeRecoveryCode(c) ==
  /\ call[c].stage = "consume"
  /\ IF call[c].code \in codeRows
     THEN /\ codeRows' = codeRows \ {call[c].code}
          /\ codeTaker' = [codeTaker EXCEPT ![call[c].code] = @ \cup {c}]
          /\ call' = [call EXCEPT ![c].stage = "accepted"]
     ELSE Rejected(c) /\ UNCHANGED <<codeRows, codeTaker>>
  /\ UNCHANGED <<sessionRows, account, codeSets, rotatedFrom, tab, trouble>>

disable(c) ==
  /\ call[c].stage = "accepted" /\ call[c].op = "disable"
  /\ account' = [enabled |-> FALSE, secret |-> FALSE]
  /\ codeRows' = {}
  /\ call' = [call EXCEPT ![c].stage = "disabled"]
  /\ UNCHANGED <<sessionRows, codeSets, codeTaker, rotatedFrom, tab, trouble>>

(* ... and every session of the account goes, the caller's included. *)
revokeAllForUser(c) ==
  /\ call[c].stage = "disabled"
  /\ sessionRows' = [s \in SessionIds |-> IF sessionRows[s].st = "usable"
                                          THEN [sessionRows[s] EXCEPT !.st = "over"]
                                          ELSE sessionRows[s]]
  /\ Answer(c, 200)
  /\ UNCHANGED <<account, codeRows, codeSets, codeTaker, rotatedFrom, tab, trouble>>

regenerateRecoveryCodes(c) ==
  /\ call[c].stage = "accepted" /\ call[c].op = "regenerate"
  /\ IF account.enabled THEN ReplaceCodes /\ Answer(c, 200)
     ELSE Answer(c, 400) /\ UNCHANGED <<codeRows, codeSets>>
  /\ UNCHANGED <<sessionRows, account, codeTaker, rotatedFrom, tab, trouble>>

-----------------------------------------------------------------------------
(* The answer arrives, or none does (status 0). *)
Anonymous(t) == [t EXCEPT !.kind = "anonymous", !.csrf = NoToken]

loseAnswer(c) ==
  /\ Trouble
  /\ call[c].stage = "answered" /\ call[c].from # Nobody /\ call[c].status # 0
  /\ Answer(c, 0)
  /\ UNCHANGED <<server, tab>>

(* Mutant: the interceptor lets it pass. *)
stillSignedIn(t) == t

(* sessionInterceptor: a 401 that sign-in does not expect ends what the tab   *)
(* believes, and an open page gives way to the sign-in page.                  *)
signedOut(t) == [Anonymous(t) EXCEPT !.page = IF t.page = "app" THEN "credentials" ELSE t.page]

(* Auth.login: the token first, then a check in flight is forgotten. *)
AfterLogin(t, a) ==
  IF a.status # 200 THEN t
  ELSE LET u == [t EXCEPT !.cookie = a.new, !.csrf = <<a.new, 1>>, !.restoring = FALSE] IN
       IF a.mfa THEN [u EXCEPT !.kind = "mfa-pending", !.page = "second-factor"]
       ELSE [u EXCEPT !.page = "completing"]

(* Auth.verifySecondFactor. *)
AfterVerify(t, a) ==
  CASE a.status = 200 -> [t EXCEPT !.cookie = a.new, !.csrf = <<a.new, 1>>,
                                   !.restoring = FALSE, !.page = "completing"]
    [] a.status = 401 -> signedOut(t)
    [] OTHER -> t

(* Login.complete and a guard that waited for this check go on to the page or *)
(* to the sign-in page.                                                       *)
Moves(t, awaited) == awaited /\ (t.kind = "unknown" \/ t.page = "completing")

(* Auth.refresh and runRestore. *)
AfterMe(t, a, awaited) ==
  LET u == [t EXCEPT !.restoring = FALSE, !.check = IF awaited THEN Nobody ELSE @]
      moves == Moves(t, awaited)
  IN  IF a.status = 200
      THEN [u EXCEPT !.csrf = a.csrf, !.kind = "authenticated",
                     !.page = IF moves THEN "app" ELSE @]
      ELSE [(IF a.status = 401 THEN signedOut(u) ELSE Anonymous(u))
              EXCEPT !.page = IF moves THEN "credentials" ELSE @]

(* Auth.logout forgets what the tab held, whatever the answer. *)
AfterLogout(t, a) ==
  [Anonymous(t) EXCEPT !.page = "credentials", !.cookie = IF a.status = 200 THEN 0 ELSE @]

AfterOther(t, a) == IF a.status = 401 THEN signedOut(t) ELSE t

After(t, c, a) == CASE a.op = "login" -> AfterLogin(t, a)
                    [] a.op = "verify" -> AfterVerify(t, a)
                    [] a.op = "me" -> AfterMe(t, a, t.check = c)
                    [] a.op = "logout" -> AfterLogout(t, a)
                    [] OTHER -> AfterOther(t, a)

(* Security: a change of the second factor is followed by a check of the      *)
(* session, unless one is under way or the page has been left.                *)
ChecksAgain(c) ==
  /\ call[c].op \in {"confirm", "disable", "regenerate"} /\ call[c].status = 200
  /\ tab[call[c].from].page = "app" /\ ~tab[call[c].from].restoring

receive(c) ==
  /\ call[c].stage = "answered"
  /\ LET b == call[c].from IN
     \/ /\ b = Nobody
        /\ call' = [call EXCEPT ![c] = FreeCall] /\ UNCHANGED tab
     \/ /\ b # Nobody /\ ChecksAgain(c)
        /\ call' = [call EXCEPT ![c] = RequestOf(b, "me", NoCode)]
        /\ tab' = [tab EXCEPT ![b].restoring = TRUE, ![b].check = c]
     \/ /\ b # Nobody /\ ~ChecksAgain(c)
        /\ call' = [call EXCEPT ![c] = FreeCall]
        /\ tab' = [tab EXCEPT ![b] = After(@, c, call[c])]
  /\ UNCHANGED <<server, trouble>>

-----------------------------------------------------------------------------
Serve(c) ==
  \/ canActivate(c) \/ login(c) \/ issue(c) \/ completeMfa(c) \/ issueCsrfToken(c)
  \/ logout(c) \/ beginSetup(c) \/ confirmSetup(c) \/ activate(c) \/ verifyChallenge(c)
  \/ consumeRecoveryCode(c) \/ disable(c) \/ revokeAllForUser(c)
  \/ regenerateRecoveryCodes(c)

Operate(c, b) ==
  \/ restore(c, b) \/ submitLogin(c, b)
  \/ \E typed \in SubmittedCodes :
       \/ submitCode(c, b, typed)
       \/ \E operation \in Uses \cap {"confirm", "disable", "regenerate"} : askOf(c, b, operation, typed)
  \/ \E operation \in Uses \cap {"logout", "setup"} : askOf(c, b, operation, NoCode)

AccessNext ==
  \/ \E c \in Calls : Serve(c) \/ receive(c) \/ loseAnswer(c)
  \/ \E c \in Calls, b \in Browsers : Operate(c, b) \/ readPage(c, b)
  \/ \E b \in Browsers : restart(b) \/ reload(b)
  \/ \E s \in SessionIds : revokeSession(s)

AccessSpec == AccessInit /\ [][AccessNext]_accessVars

-----------------------------------------------------------------------------
(* A recovery code lets one challenge through, whoever else tries it at the   *)
(* same time and whatever replaces or removes the set meanwhile               *)
(* (consumeRecoveryCode, confirmSetup, regenerateRecoveryCodes, disable).     *)
CodeFate ==
  [k \in RecoveryCodes |-> IF k > codeSets THEN "unissued"
                           ELSE IF codeTaker[k] # {} THEN "spent"
                           ELSE IF k \in codeRows THEN "live" ELSE "void"]

CodeCredential == INSTANCE OneTimeCredential
  WITH Creds <- RecoveryCodes, Holders <- Calls, fate <- CodeFate, taker <- codeTaker

RecoveryCodesAreOneTime == CodeCredential!OneTimeSpec

(* A session that waited for the second factor is never the one that has it:  *)
(* it ends when another takes its place, and stays ended (completeMfa).       *)
ElevationRotates ==
  \A s \in SessionIds : rotatedFrom[s] # 0 =>
    sessionRows[rotatedFrom[s]].pending /\ sessionRows[rotatedFrom[s]].st = "over"
=============================================================================
