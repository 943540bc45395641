---------------------------- MODULE AccessProofs ----------------------------
(*****************************************************************************)
(* Who may act, and over which connection: signing in, the agent's           *)
(* connection to the gateway and the log streams carried on it, for any      *)
(* number of browsers, sessions, sockets, requests and streams, and however  *)
(* often a connection is lost or a process restarts.                         *)
(*****************************************************************************)
EXTENDS Access, Gateway, LogStreams, TLAPS

-----------------------------------------------------------------------------
(*****************************************************************************)
(* ACCESS. For every number of browsers, calls, sessions and sets of         *)
(* recovery codes.                                                           *)
(*****************************************************************************)

(* What is known of the recovery codes: only codes of the sets shown so far   *)
(* are on record, and none of those, nor any yet to be shown, has let anybody *)
(* through.                                                                   *)
CodesInv ==
  /\ codeSets \in 0 .. MaxCodeSets
  /\ codeRows \subseteq 1 .. codeSets
  /\ codeTaker \in [RecoveryCodes -> SUBSET Calls]
  /\ \A k \in RecoveryCodes : (k \in codeRows \/ k > codeSets) => codeTaker[k] = {}

codes == <<codeRows, codeSets, codeTaker>>

(* The codes change with a new set, with a code that is consumed and with the *)
(* second factor turned off, and with nothing else.                           *)
LEMMA CodesFrame ==
  ASSUME [AccessNext]_accessVars
  PROVE  \/ UNCHANGED codes
         \/ ReplaceCodes /\ UNCHANGED codeTaker
         \/ \E c \in Calls : /\ call[c].code \in codeRows
                             /\ codeRows' = codeRows \ {call[c].code}
                             /\ codeTaker' = [codeTaker EXCEPT ![call[c].code] = @ \cup {c}]
                             /\ UNCHANGED codeSets
         \/ codeRows' = {} /\ UNCHANGED <<codeSets, codeTaker>>
<1> USE DEF codes, server
<1>1. ASSUME NEW c \in Calls, \/ canActivate(c) \/ login(c) \/ issue(c) \/ completeMfa(c)
                              \/ issueCsrfToken(c) \/ logout(c) \/ beginSetup(c)
                              \/ confirmSetup(c) \/ verifyChallenge(c) \/ revokeAllForUser(c)
                              \/ receive(c) \/ loseAnswer(c)
      PROVE  UNCHANGED codes
  BY Zenon, <1>1 DEF canActivate, login, issue, completeMfa, issueCsrfToken, logout, beginSetup,
     confirmSetup, verifyChallenge, revokeAllForUser, receive, loseAnswer
<1>2. ASSUME NEW c \in Calls, activate(c) \/ regenerateRecoveryCodes(c)
      PROVE  UNCHANGED codes \/ (ReplaceCodes /\ UNCHANGED codeTaker)
  BY Zenon, <1>2 DEF activate, regenerateRecoveryCodes
<1>3. ASSUME NEW c \in Calls, consumeRecoveryCode(c)
      PROVE  \/ UNCHANGED codes
             \/ /\ call[c].code \in codeRows
                /\ codeRows' = codeRows \ {call[c].code}
                /\ codeTaker' = [codeTaker EXCEPT ![call[c].code] = @ \cup {c}]
                /\ UNCHANGED codeSets
  BY Zenon, <1>3 DEF consumeRecoveryCode
<1>4. ASSUME NEW c \in Calls, disable(c) PROVE codeRows' = {} /\ UNCHANGED <<codeSets, codeTaker>>
  BY Zenon, <1>4 DEF disable
<1>5. ASSUME NEW c \in Calls, NEW b \in Browsers, Operate(c, b) \/ readPage(c, b)
      PROVE  UNCHANGED codes
  BY Zenon, <1>5 DEF Operate, restore, submitLogin, submitCode, askOf, readPage
<1>6. ASSUME NEW b \in Browsers, restart(b) \/ reload(b) PROVE UNCHANGED codes
  BY Zenon, <1>6 DEF restart, reload
<1>7. ASSUME NEW s \in SessionIds, revokeSession(s) PROVE UNCHANGED codes
  BY Zenon, <1>7 DEF revokeSession
<1>8. CASE UNCHANGED accessVars
  BY Zenon, <1>8 DEF accessVars
<1> QED BY Zenon, <1>1, <1>2, <1>3, <1>4, <1>5, <1>6, <1>7, <1>8 DEF AccessNext, Serve

LEMMA CodesStep ==
  ASSUME CodesInv, [AccessNext]_accessVars PROVE CodesInv'
<1>0. MaxCodeSets \in Nat /\ RecoveryCodes = 1 .. MaxCodeSets
  BY AccessAssumption DEF RecoveryCodes
<1>1. CASE UNCHANGED codes
  BY Zenon, <1>1 DEF codes, CodesInv
<1>2. CASE ReplaceCodes /\ UNCHANGED codeTaker
  BY <1>0, <1>2 DEF ReplaceCodes, CodesInv
<1>3. ASSUME NEW c \in Calls, call[c].code \in codeRows, codeRows' = codeRows \ {call[c].code},
             codeTaker' = [codeTaker EXCEPT ![call[c].code] = @ \cup {c}], UNCHANGED codeSets
      PROVE  CodesInv'
  <2>1. \A k \in RecoveryCodes : k \in codeRows' => k \in codeRows /\ k # call[c].code
    BY Zenon, <1>3
  <2>2. \A k \in RecoveryCodes : k > codeSets' => k > codeSets /\ k # call[c].code
    BY <1>0, <1>3 DEF CodesInv
  <2>3. \A k \in RecoveryCodes : k # call[c].code => codeTaker'[k] = codeTaker[k]
    BY Zenon, <1>3 DEF CodesInv
  <2>4. \A k \in RecoveryCodes : (k \in codeRows' \/ k > codeSets') => codeTaker'[k] = {}
    BY Zenon, <2>1, <2>2, <2>3 DEF CodesInv
  <2>5. codeTaker' \in [RecoveryCodes -> SUBSET Calls]
    <3>1. ASSUME NEW k \in RecoveryCodes PROVE codeTaker[k] \cup {c} \in SUBSET Calls
      BY Zenon DEF CodesInv
    <3> QED BY Zenon, <1>3, <3>1 DEF CodesInv
  <2> QED BY Zenon, <1>3, <2>4, <2>5 DEF CodesInv
<1>4. CASE codeRows' = {} /\ UNCHANGED <<codeSets, codeTaker>>
  BY <1>4 DEF CodesInv
<1> QED BY Zenon, <1>1, <1>2, <1>3, <1>4, CodesFrame

(* A new set, and turning the factor off, withdraw what is live; a challenge  *)
(* takes one code that is live.                                               *)
LEMMA CodesRefine ==
  ASSUME CodesInv, [AccessNext]_accessVars
  PROVE  [CodeCredential!OneTimeNext]_<<CodeFate, codeTaker>>
<1> DEFINE F == CodeFate
           Fates == {"unissued", "live", "spent", "void"}
<1>0. /\ MaxCodeSets \in Nat /\ RecoveryCodes = 1 .. MaxCodeSets
      /\ codeSets \in 0 .. MaxCodeSets
  BY AccessAssumption DEF RecoveryCodes, CodesInv
<1>1. CASE UNCHANGED codes
  BY Zenon, <1>1 DEF codes, CodeFate
<1>2. F' \in [RecoveryCodes -> Fates]
  BY Zenon DEF CodeFate
<1>3. ASSUME UNCHANGED codeTaker,
             \A k \in RecoveryCodes : \/ CodeFate'[k] = CodeFate[k]
                                      \/ CodeFate[k] = "unissued" /\ CodeFate'[k] = "live"
                                      \/ CodeFate[k] = "live" /\ CodeFate'[k] = "void"
      PROVE  CodeCredential!OneTimeNext
  BY Zenon, <1>2, <1>3 DEF CodeCredential!OneTimeNext, CodeCredential!Turnover, CodeCredential!Fates
<1>4. CASE ReplaceCodes /\ UNCHANGED codeTaker
  <2>1. ASSUME NEW k \in RecoveryCodes
        PROVE  \/ CodeFate'[k] = CodeFate[k]
               \/ CodeFate[k] = "unissued" /\ CodeFate'[k] = "live"
               \/ CodeFate[k] = "live" /\ CodeFate'[k] = "void"
    <3>1. CASE k <= codeSets
      <4>1. /\ ~(k > codeSets) /\ ~(k > codeSets') /\ k \notin codeRows'
            /\ codeTaker'[k] = codeTaker[k]
        BY <1>0, <1>4, <3>1 DEF ReplaceCodes
      <4> QED BY Zenon, <4>1 DEF CodeFate
    <3>2. CASE k = codeSets + 1
      <4>1. k > codeSets /\ ~(k > codeSets') /\ k \in codeRows' /\ codeTaker'[k] = {}
        BY <1>0, <1>4, <3>2 DEF ReplaceCodes, CodesInv
      <4> QED BY Zenon, <4>1 DEF CodeFate
    <3>3. CASE k > codeSets + 1
      <4>1. k > codeSets /\ k > codeSets'
        BY <1>0, <1>4, <3>3 DEF ReplaceCodes
      <4> QED BY Zenon, <4>1 DEF CodeFate
    <3> QED BY <1>0, <3>1, <3>2, <3>3
  <2> QED BY Zenon, <1>3, <1>4, <2>1
<1>5. CASE codeRows' = {} /\ UNCHANGED <<codeSets, codeTaker>>
  <2>1. ASSUME NEW k \in RecoveryCodes
        PROVE  \/ CodeFate'[k] = CodeFate[k]
               \/ CodeFate[k] = "unissued" /\ CodeFate'[k] = "live"
               \/ CodeFate[k] = "live" /\ CodeFate'[k] = "void"
    BY Zenon, <1>5 DEF CodeFate
  <2> QED BY Zenon, <1>3, <1>5, <2>1
<1>6. ASSUME NEW c \in Calls, call[c].code \in codeRows, codeRows' = codeRows \ {call[c].code},
             codeTaker' = [codeTaker EXCEPT ![call[c].code] = @ \cup {c}], UNCHANGED codeSets
      PROVE  CodeCredential!OneTimeNext
  <2> DEFINE k == call[c].code
  <2>0. \A j \in codeRows : j \in RecoveryCodes /\ ~(j > codeSets)
    BY <1>0 DEF CodesInv
  <2>1. k \in RecoveryCodes /\ ~(k > codeSets) /\ codeTaker[k] = {}
    BY Zenon, <1>6, <2>0 DEF CodesInv
  <2>2. CodeFate[k] = "live"
    BY Zenon, <1>6, <2>1 DEF CodeFate
  <2>3. codeTaker' = [codeTaker EXCEPT ![k] = {c}]
    BY Zenon, <1>6, <2>1
  <2>4. /\ codeTaker'[k] # {} /\ \A j \in RecoveryCodes : j # k => codeTaker'[j] = codeTaker[j]
    BY Zenon, <2>1, <2>3 DEF CodesInv
  <2>5. ASSUME NEW j \in RecoveryCodes
        PROVE  CodeFate'[j] = IF j = k THEN "spent" ELSE CodeFate[j]
    BY Zenon, <1>6, <2>1, <2>4 DEF CodeFate
  <2>6. CodeFate' = [j \in RecoveryCodes |-> CodeFate'[j]]
          /\ CodeFate = [j \in RecoveryCodes |-> CodeFate[j]]
    BY Zenon DEF CodeFate
  <2>7. CodeFate' = [CodeFate EXCEPT ![k] = "spent"]
    BY Zenon, <2>1, <2>5, <2>6
  <2>8. CodeCredential!Take(k, c)
    BY Zenon, <2>2, <2>3, <2>7 DEF CodeCredential!Take
  <2> QED BY Zenon, <2>1, <2>8 DEF CodeCredential!OneTimeNext
<1> QED BY Zenon, <1>1, <1>4, <1>5, <1>6, CodesFrame

LEMMA CodesInit == ASSUME AccessInit PROVE CodesInv /\ CodeCredential!OneTimeInit
<1>1. CodesInv
  BY AccessAssumption DEF AccessInit, CodesInv, RecoveryCodes
<1>2. \A k \in RecoveryCodes : codeTaker[k] = {} /\ (k > codeSets \/ k \in codeRows)
  BY AccessAssumption DEF AccessInit, RecoveryCodes
<1>3. CodeFate \in [RecoveryCodes -> {"unissued", "live"}]
  BY Zenon, <1>2 DEF CodeFate
<1> QED BY Zenon, <1>1, <1>3 DEF AccessInit, CodeCredential!OneTimeInit

LEMMA CodesHold == AccessSpec => []CodesInv
<1>1. AccessInit => CodesInv
  BY Zenon, CodesInit
<1>2. CodesInv /\ [AccessNext]_accessVars => CodesInv'
  BY Zenon, CodesStep
<1> QED BY <1>1, <1>2, PTL DEF AccessSpec

(* The codes of an account: a challenge lets a code through once, whoever     *)
(* else submits it and whatever set replaces it (consumeRecoveryCode updates  *)
(* only a row that is not yet used).                                          *)
THEOREM CodesAreOneTime == AccessSpec => RecoveryCodesAreOneTime
<1>1. AccessInit => CodeCredential!OneTimeInit
  BY Zenon, CodesInit
<1>2. CodesInv /\ [AccessNext]_accessVars => [CodeCredential!OneTimeNext]_<<CodeFate, codeTaker>>
  BY Zenon, CodesRefine
<1> QED
  BY <1>1, <1>2, CodesHold, PTL DEF AccessSpec, RecoveryCodesAreOneTime, CodeCredential!OneTimeSpec

-----------------------------------------------------------------------------
SessionRecords == [st : {"none", "usable", "over"}, pending : BOOLEAN, csrf : 0 .. MaxTokensOf]
TabRecords == [kind : {"unknown", "anonymous", "mfa-pending", "authenticated"},
               csrf : CsrfTokens, restoring : BOOLEAN, check : Calls \cup {Nobody},
               cookie : 0 .. MaxSessions,
               page : {"credentials", "second-factor", "completing", "app"}]
CallRecords == [op : Operations \cup {"none"}, from : Browsers \cup {Nobody},
                cookie : 0 .. MaxSessions, csrf : CsrfTokens,
                code : SubmittedCodes \cup {NoCode},
                stage : {"free", "sent", "answered"} \cup Underway, sess : 0 .. MaxSessions,
                new : 0 .. MaxSessions, mfa : BOOLEAN, status : Statuses]

(* What a request that passed the guards may rely on, for the session rows R: *)
(* unless it signs in, its session is there, and the second factor is asked   *)
(* of a session that waits for it.                                            *)
Good(r, R) ==
  /\ r \in CallRecords
  /\ r.stage \in Underway /\ r.op # "login" => r.sess \in SessionIds /\ R[r.sess].st # "none"
  /\ r.stage \in Underway /\ r.op = "verify" => R[r.sess].pending
  /\ r.stage = "issue" => r.op = "login"
  /\ r.stage = "activate" => r.op = "confirm"
  /\ r.stage = "disabled" => r.op = "disable"
  /\ r.stage = "answered" /\ r.op \in {"login", "verify"} /\ r.status = 200
       => r.new \in SessionIds

SignInInv ==
  /\ sessionRows \in [SessionIds -> SessionRecords]
  /\ account \in [enabled : BOOLEAN, secret : BOOLEAN]
  /\ rotatedFrom \in [SessionIds -> 0 .. MaxSessions]
  /\ tab \in [Browsers -> TabRecords]
  /\ call \in [Calls -> CallRecords]
  /\ \A c \in Calls : Good(call[c], sessionRows)
  /\ trouble \in 0 .. MaxTrouble
  /\ ElevationRotates

Rows(R) == R \in [SessionIds -> SessionRecords]

LEMMA Constants ==
  /\ MaxSessions \in Nat /\ MaxTrouble \in Nat /\ MaxCodeSets \in Nat
  /\ MaxTokensOf \in Nat /\ 1 <= MaxTokensOf
  /\ SessionIds = 1 .. MaxSessions /\ 0 \in 0 .. MaxSessions
  /\ \A s \in SessionIds : s \in 0 .. MaxSessions /\ s # 0
  /\ NoToken \in CsrfTokens /\ NoCode \in SubmittedCodes \cup {NoCode}
  /\ \A s \in SessionIds, g \in 1 .. MaxTokensOf : <<s, g>> \in CsrfTokens
BY AccessAssumption DEF SessionIds, CsrfTokens

(* The records a call passes through are such records. *)
LEMMA FreeGood == ASSUME NEW R PROVE Good(FreeCall, R)
BY Constants DEF Good, FreeCall, CallRecords, Underway, Statuses

LEMMA AnsweredIs ==
  ASSUME NEW c \in Calls, NEW s \in Statuses, call[c] \in CallRecords
  PROVE  /\ Answered(c, s) \in CallRecords
         /\ Answered(c, s).op = call[c].op /\ Answered(c, s).stage = "answered"
         /\ Answered(c, s).status = s
<1>1. FreeCall \in CallRecords
  BY Zenon, FreeGood DEF Good
<1>2. call[c].op \in Operations \cup {"none"} /\ call[c].from \in Browsers \cup {Nobody}
  BY Zenon DEF CallRecords
<1> QED BY Zenon, <1>1, <1>2 DEF Answered, CallRecords

(* An answer that carries no session. *)
Bare(c, s) == s # 200 \/ call[c].op \notin {"login", "verify"}

LEMMA AnsweredGood ==
  ASSUME NEW c \in Calls, NEW s \in Statuses, NEW R, call[c] \in CallRecords,
         Bare(c, s)
  PROVE  Good(Answered(c, s), R)
BY AnsweredIs DEF Good, Underway, Bare

LEMMA AnswerWithGood ==
  ASSUME NEW c \in Calls, NEW s \in SessionIds, NEW waits \in BOOLEAN, NEW R,
         call[c] \in CallRecords
  PROVE  Good([Answered(c, 200) EXCEPT !.new = s, !.mfa = waits], R)
<1> DEFINE a == Answered(c, 200)
           r == [a EXCEPT !.new = s, !.mfa = waits]
<1>1. 200 \in Statuses /\ s \in 0 .. MaxSessions
  BY Constants DEF Statuses
<1>2. a \in CallRecords /\ a.stage = "answered"
  BY ZenonT(60), <1>1, AnsweredIs
<1> HIDE DEF a
<1>3. r \in CallRecords /\ r.stage = "answered" /\ r.new = s
  BY ZenonT(60), <1>1, <1>2 DEF CallRecords
<1> HIDE DEF r
<1>4. Good(r, R)
  BY <1>3 DEF Good, Underway
<1> QED BY Zenon, <1>4 DEF r, a

LEMMA TokenGood ==
  ASSUME NEW c \in Calls, NEW t \in CsrfTokens, NEW R, call[c] \in CallRecords, call[c].op = "me"
  PROVE  Good([Answered(c, 200) EXCEPT !.csrf = t], R)
<1> DEFINE a == Answered(c, 200)
           r == [a EXCEPT !.csrf = t]
<1>1. 200 \in Statuses
  BY DEF Statuses
<1>2. a \in CallRecords /\ a.stage = "answered" /\ a.op = call[c].op
  BY <1>1, AnsweredIs
<1> HIDE DEF a
<1>3. r \in CallRecords /\ r.stage = "answered" /\ r.op = "me"
  BY <1>1, <1>2 DEF CallRecords
<1> HIDE DEF r
<1>4. Good(r, R)
  BY <1>3 DEF Good, Underway
<1> QED BY Zenon, <1>4 DEF r, a

LEMMA RequestGood ==
  ASSUME NEW b \in Browsers, NEW operation \in Operations,
         NEW typed \in SubmittedCodes \cup {NoCode}, NEW R, tab[b] \in TabRecords
  PROVE  Good(RequestOf(b, operation, typed), R)
<1> DEFINE t == IF operation \in StateChanging THEN tab[b].csrf ELSE NoToken
           r == RequestOf(b, operation, typed)
<1>1. FreeCall \in CallRecords
  BY Zenon, FreeGood DEF Good
<1>2. tab[b].cookie \in 0 .. MaxSessions /\ tab[b].csrf \in CsrfTokens
  BY Zenon DEF TabRecords
<1>3. t \in CsrfTokens
  BY Zenon, <1>2, Constants
<1>4. r = [FreeCall EXCEPT !.op = operation, !.from = b, !.cookie = tab[b].cookie, !.csrf = t,
                           !.code = typed, !.stage = "sent"]
  BY Zenon DEF RequestOf
<1> HIDE DEF t, r
<1>5. r \in CallRecords /\ r.stage = "sent"
  BY Zenon, <1>1, <1>2, <1>3, <1>4 DEF CallRecords
<1>6. Good(r, R)
  BY <1>5 DEF Good, Underway
<1> QED BY Zenon, <1>6 DEF r

(* A stage a handler that is past its first step may go on to. *)
Further(t, operation) ==
  /\ t \in Underway \ {"issue"}
  /\ t = "activate" => operation = "confirm"
  /\ t = "disabled" => operation = "disable"

LEMMA StagedGood ==
  ASSUME NEW r, NEW R, Good(r, R), r.stage \in Underway, NEW t, Further(t, r.op)
  PROVE  Good([r EXCEPT !.stage = t], R)
BY DEF Good, CallRecords, Underway, Further

(* A session that is there stays there, waits or not as it did, and once over *)
(* stays over.                                                                *)
RowsStay ==
  \A s \in SessionIds : sessionRows[s].st # "none" =>
    /\ sessionRows'[s].st # "none" /\ sessionRows'[s].pending = sessionRows[s].pending
    /\ sessionRows[s].st = "over" => sessionRows'[s].st = "over"

LEMMA GoodStays ==
  ASSUME NEW r, Good(r, sessionRows), RowsStay PROVE Good(r, sessionRows')
BY Zenon DEF Good, RowsStay

LEMMA CallPut ==
  ASSUME SignInInv, RowsStay, NEW d \in Calls, NEW r, Good(r, sessionRows'),
         call' = [call EXCEPT ![d] = r]
  PROVE  call' \in [Calls -> CallRecords] /\ \A c \in Calls : Good(call'[c], sessionRows')
<1>1. r \in CallRecords /\ call \in [Calls -> CallRecords]
  BY Zenon DEF Good, SignInInv
<1>2. ASSUME NEW c \in Calls PROVE Good(call'[c], sessionRows')
  <2>1. CASE c = d BY Zenon, <1>1, <2>1
  <2>2. CASE c # d
    <3>1. call'[c] = call[c] BY Zenon, <1>1, <2>2
    <3>2. Good(call[c], sessionRows') BY Zenon, GoodStays DEF SignInInv
    <3> QED BY Zenon, <3>1, <3>2
  <2> QED BY Zenon, <2>1, <2>2
<1> QED BY Zenon, <1>1, <1>2

LEMMA Unmoved == ASSUME UNCHANGED sessionRows PROVE RowsStay
BY Zenon DEF RowsStay

LEMMA RowPut ==
  ASSUME Rows(sessionRows), NEW s \in SessionIds, NEW r \in SessionRecords,
         sessionRows' = [sessionRows EXCEPT ![s] = r],
         sessionRows[s].st # "none" =>
           /\ r.st # "none" /\ r.pending = sessionRows[s].pending
           /\ sessionRows[s].st = "over" => r.st = "over"
  PROVE  Rows(sessionRows') /\ RowsStay
<1>1. sessionRows'[s] = r /\ \A u \in SessionIds : u # s => sessionRows'[u] = sessionRows[u]
  BY Zenon DEF Rows
<1>2. RowsStay
  <2> SUFFICES ASSUME NEW u \in SessionIds, sessionRows[u].st # "none"
               PROVE  /\ sessionRows'[u].st # "none"
                      /\ sessionRows'[u].pending = sessionRows[u].pending
                      /\ sessionRows[u].st = "over" => sessionRows'[u].st = "over"
    BY Zenon DEF RowsStay
  <2>1. CASE u = s BY Zenon, <1>1, <2>1
  <2>2. CASE u # s BY Zenon, <1>1, <2>2
  <2> QED BY Zenon, <2>1, <2>2
<1>3. Rows(sessionRows')
  BY Zenon DEF Rows
<1> QED BY Zenon, <1>2, <1>3

LEMMA OverRow ==
  ASSUME NEW r \in SessionRecords
  PROVE  /\ [r EXCEPT !.st = "over"] \in SessionRecords
         /\ [r EXCEPT !.st = "over"].st = "over"
         /\ [r EXCEPT !.st = "over"].pending = r.pending
BY DEF SessionRecords

LEMMA FreshRow ==
  ASSUME NEW waits \in BOOLEAN
  PROVE  NewRow(waits) \in SessionRecords
<1>1. "usable" \in {"none", "usable", "over"} /\ 1 \in 0 .. MaxTokensOf
  BY Constants
<1> QED BY Zenon, <1>1 DEF NewRow, SessionRecords

LEMMA CsrfRow ==
  ASSUME NEW r \in SessionRecords
  PROVE  LET g == (r.csrf % MaxTokensOf) + 1 IN
         /\ g \in 1 .. MaxTokensOf
         /\ [r EXCEPT !.csrf = g] \in SessionRecords
         /\ [r EXCEPT !.csrf = g].st = r.st /\ [r EXCEPT !.csrf = g].pending = r.pending
<1> DEFINE g == (r.csrf % MaxTokensOf) + 1
<1>1. r.csrf \in 0 .. MaxTokensOf
  BY Zenon DEF SessionRecords
<1>2. g \in 1 .. MaxTokensOf /\ g \in 0 .. MaxTokensOf
  BY SMTT(60), <1>1, Constants
<1> HIDE DEF g
<1>3. /\ [r EXCEPT !.csrf = g] \in SessionRecords
      /\ [r EXCEPT !.csrf = g].st = r.st /\ [r EXCEPT !.csrf = g].pending = r.pending
  BY <1>2 DEF SessionRecords
<1> QED BY Zenon, <1>2, <1>3 DEF g

(* Whatever a handler does to the sessions. *)
LEMMA RowsStep ==
  ASSUME SignInInv, [AccessNext]_accessVars PROVE Rows(sessionRows') /\ RowsStay
<1>0. Rows(sessionRows)
  BY Zenon DEF SignInInv, Rows
<1>1. ASSUME UNCHANGED sessionRows PROVE Rows(sessionRows') /\ RowsStay
  BY Zenon, <1>0, <1>1, Unmoved
<1>2. ASSUME NEW c \in Calls, \/ canActivate(c) \/ login(c) \/ beginSetup(c)
                              \/ confirmSetup(c) \/ verifyChallenge(c) \/ receive(c)
                              \/ loseAnswer(c) \/ activate(c) \/ consumeRecoveryCode(c)
                              \/ disable(c) \/ regenerateRecoveryCodes(c)
      PROVE  UNCHANGED sessionRows
  BY Zenon, <1>2 DEF canActivate, login, beginSetup, confirmSetup, verifyChallenge, receive,
     loseAnswer, activate, consumeRecoveryCode, disable, regenerateRecoveryCodes, server
<1>3. ASSUME NEW c \in Calls, NEW b \in Browsers, Operate(c, b) \/ readPage(c, b)
      PROVE  UNCHANGED sessionRows
  BY Zenon, <1>3 DEF Operate, restore, submitLogin, submitCode, askOf, readPage, server
<1>4. ASSUME NEW b \in Browsers, restart(b) \/ reload(b) PROVE UNCHANGED sessionRows
  BY Zenon, <1>4 DEF restart, reload, server
<1>5. ASSUME NEW c \in Calls
      PROVE  /\ call[c] \in CallRecords /\ call[c].mfa \in BOOLEAN
             /\ call[c].stage \in Underway /\ call[c].op # "login" =>
                  call[c].sess \in SessionIds /\ sessionRows[call[c].sess].st # "none"
  BY Zenon DEF SignInInv, Good, CallRecords
<1>6. /\ \A s \in SessionIds : sessionRows[s] \in SessionRecords
      /\ \A s \in SessionIds : sessionRows[s].st = "none" => ~(sessionRows[s].st # "none")
  BY Zenon, <1>0 DEF Rows
<1>7. ASSUME NEW s \in SessionIds, sessionRows[s].st # "none",
             sessionRows' = [sessionRows EXCEPT ![s].st = "over"]
      PROVE  Rows(sessionRows') /\ RowsStay
  <2> DEFINE r == [sessionRows[s] EXCEPT !.st = "over"]
  <2>1. r \in SessionRecords /\ r.st = "over" /\ r.pending = sessionRows[s].pending
    BY Zenon, <1>6, OverRow
  <2>2. sessionRows' = [sessionRows EXCEPT ![s] = r]
    BY Zenon, <1>7
  <2>3. r.st # "none"
    BY <2>1
  <2> HIDE DEF r
  <2> QED BY Zenon, <1>0, <2>1, <2>2, <2>3, RowPut
<1>8. ASSUME NEW c \in Calls, issue(c) PROVE Rows(sessionRows') /\ RowsStay
  <2>1. PICK s \in SessionIds : /\ sessionRows[s].st = "none"
                                /\ sessionRows' = [sessionRows EXCEPT ![s] = NewRow(call[c].mfa)]
    BY Zenon, <1>8 DEF issue, FreshSession
  <2>2. NewRow(call[c].mfa) \in SessionRecords
    BY Zenon, <1>5, FreshRow
  <2> QED BY Zenon, <1>0, <2>1, <2>2, RowPut
<1>9. ASSUME NEW c \in Calls, completeMfa(c) PROVE Rows(sessionRows') /\ RowsStay
  <2> DEFINE u == call[c].sess
             r == [sessionRows[u] EXCEPT !.st = "over"]
  <2>1. PICK s \in SessionIds :
          /\ sessionRows[s].st = "none"
          /\ sessionRows' = [sessionRows EXCEPT ![u].st = "over", ![s] = NewRow(FALSE)]
    BY Zenon, <1>9 DEF completeMfa, FreshSession
  <2>2. u \in SessionIds /\ sessionRows[u].st # "none"
    <3>1. call[c].stage \in Underway /\ call[c].op # "login"
      BY <1>9 DEF completeMfa, Underway
    <3> QED BY Zenon, <1>5, <3>1
  <2>3. r \in SessionRecords /\ r.st = "over" /\ r.pending = sessionRows[u].pending
    BY Zenon, <1>6, <2>2, OverRow
  <2>4. NewRow(FALSE) \in SessionRecords
    BY Zenon, FreshRow
  <2>5. u # s
    BY Zenon, <2>1, <2>2
  <2>6. /\ sessionRows' \in [SessionIds -> SessionRecords] /\ sessionRows'[u] = r
        /\ \A v \in SessionIds : v # u /\ v # s => sessionRows'[v] = sessionRows[v]
    BY Zenon, <1>0, <2>1, <2>2, <2>3, <2>4, <2>5 DEF Rows
  <2>7. r.st # "none"
    BY <2>3
  <2> HIDE DEF r
  <2>8. ASSUME NEW v \in SessionIds, sessionRows[v].st # "none"
        PROVE  /\ sessionRows'[v].st # "none"
               /\ sessionRows'[v].pending = sessionRows[v].pending
               /\ sessionRows[v].st = "over" => sessionRows'[v].st = "over"
    <3>1. v # s
      BY Zenon, <2>1, <2>8
    <3>2. CASE v = u BY Zenon, <2>3, <2>6, <2>7, <3>2
    <3>3. CASE v # u BY Zenon, <2>6, <2>8, <3>1, <3>3
    <3> QED BY Zenon, <3>2, <3>3
  <2> QED BY Zenon, <2>6, <2>8 DEF Rows, RowsStay
<1>10. ASSUME NEW c \in Calls, issueCsrfToken(c) PROVE Rows(sessionRows') /\ RowsStay
  <2> DEFINE u == call[c].sess
             g == (sessionRows[u].csrf % MaxTokensOf) + 1
             r == [sessionRows[u] EXCEPT !.csrf = g]
  <2>1. u \in SessionIds /\ sessionRows[u].st # "none"
    <3>1. call[c].stage \in Underway /\ call[c].op # "login"
      BY <1>10 DEF issueCsrfToken, Underway
    <3> QED BY Zenon, <1>5, <3>1
  <2>2. sessionRows' = [sessionRows EXCEPT ![u] = r]
    BY Zenon, <1>10 DEF issueCsrfToken
  <2>3. r \in SessionRecords /\ r.st = sessionRows[u].st /\ r.pending = sessionRows[u].pending
    BY Zenon, <1>6, <2>1, CsrfRow
  <2> HIDE DEF r
  <2>4. r.st # "none" /\ (sessionRows[u].st = "over" => r.st = "over")
    BY Zenon, <2>1, <2>3
  <2> QED BY Zenon, <1>0, <2>1, <2>2, <2>3, <2>4, RowPut
<1>11. ASSUME NEW c \in Calls, logout(c) PROVE Rows(sessionRows') /\ RowsStay
  <2>1. call[c].stage \in Underway /\ call[c].op # "login"
    BY <1>11 DEF logout, Underway
  <2>2. sessionRows' = [sessionRows EXCEPT ![call[c].sess].st = "over"]
    BY Zenon, <1>11 DEF logout
  <2> QED BY Zenon, <1>5, <1>7, <2>1, <2>2
<1>12. ASSUME NEW s \in SessionIds, revokeSession(s) PROVE Rows(sessionRows') /\ RowsStay
  <2>1. sessionRows[s].st # "none" /\ sessionRows' = [sessionRows EXCEPT ![s].st = "over"]
    BY <1>12 DEF revokeSession
  <2> QED BY Zenon, <1>7, <2>1
<1>13. ASSUME NEW c \in Calls, revokeAllForUser(c) PROVE Rows(sessionRows') /\ RowsStay
  <2>1. ASSUME NEW s \in SessionIds
        PROVE  /\ sessionRows'[s] \in SessionRecords
               /\ sessionRows[s].st # "none" =>
                    /\ sessionRows'[s].st # "none"
                    /\ sessionRows'[s].pending = sessionRows[s].pending
                    /\ sessionRows[s].st = "over" => sessionRows'[s].st = "over"
    <3>1. CASE sessionRows[s].st = "usable"
      <4> DEFINE r == [sessionRows[s] EXCEPT !.st = "over"]
      <4>1. sessionRows'[s] = r
        BY Zenon, <1>13, <3>1 DEF revokeAllForUser
      <4>2. r \in SessionRecords /\ r.st = "over" /\ r.pending = sessionRows[s].pending
        BY Zenon, <1>6, OverRow
      <4> HIDE DEF r
      <4> QED BY <4>1, <4>2
    <3>2. CASE sessionRows[s].st # "usable"
      <4>1. sessionRows'[s] = sessionRows[s]
        BY Zenon, <1>13, <3>2 DEF revokeAllForUser
      <4> QED BY Zenon, <1>6, <4>1
    <3> QED BY Zenon, <3>1, <3>2
  <2>2. sessionRows' = [s \in SessionIds |-> sessionRows'[s]]
    BY Zenon, <1>13 DEF revokeAllForUser
  <2> QED BY Zenon, <2>1, <2>2 DEF Rows, RowsStay
<1>14. CASE UNCHANGED accessVars
  BY Zenon, <1>1, <1>14 DEF accessVars
<1> QED
  BY Zenon, <1>1, <1>2, <1>3, <1>4, <1>8, <1>9, <1>10, <1>11, <1>12, <1>13, <1>14
  DEF AccessNext, Serve

LEMMA Passed ==
  ASSUME NEW c, NEW x, NEW y, NEW z, NEW w
  PROVE  [call EXCEPT ![c].sess = x, ![c].stage = y, ![c].cookie = z, ![c].csrf = w]
           = [call EXCEPT ![c] = [call[c] EXCEPT !.sess = x, !.stage = y, !.cookie = z, !.csrf = w]]
BY Zenon

LEMMA Reloaded ==
  ASSUME NEW b, NEW x, NEW y, NEW z, NEW w, NEW v
  PROVE  [tab EXCEPT ![b].kind = x, ![b].csrf = y, ![b].restoring = z, ![b].check = w,
                     ![b].page = v]
           = [tab EXCEPT ![b] = [tab[b] EXCEPT !.kind = x, !.csrf = y, !.restoring = z, !.check = w,
                                               !.page = v]]
BY Zenon

(* Whatever becomes of a request, its record says what its handler needs. *)
LEMMA CallsStep ==
  ASSUME SignInInv, [AccessNext]_accessVars
  PROVE  call' \in [Calls -> CallRecords] /\ \A c \in Calls : Good(call'[c], sessionRows')
<1> DEFINE Goal == call' \in [Calls -> CallRecords] /\ \A c \in Calls : Good(call'[c], sessionRows')
<1>0. RowsStay
  BY Zenon, RowsStep
<1>1. ASSUME NEW c \in Calls PROVE call[c] \in CallRecords /\ Good(call[c], sessionRows)
  BY Zenon DEF SignInInv
<1>2. ASSUME UNCHANGED call PROVE Goal
  BY Zenon, <1>0, <1>1, <1>2, GoodStays DEF SignInInv
<1>3. ASSUME NEW c \in Calls, NEW r, Good(r, sessionRows'), call' = [call EXCEPT ![c] = r]
      PROVE  Goal
  BY Zenon, <1>0, <1>3, CallPut
<1>4. ASSUME NEW c \in Calls, NEW s \in Statuses, Answer(c, s),
             Bare(c, s)
      PROVE  Goal
  <2>1. Good(Answered(c, s), sessionRows')
    BY Zenon, <1>1, <1>4, AnsweredGood
  <2> QED BY Zenon, <1>3, <1>4, <2>1 DEF Answer
<1>5. ASSUME NEW c \in Calls, NEW s \in SessionIds, NEW waits \in BOOLEAN, AnswerWith(c, s, waits)
      PROVE  Goal
  <2>1. Good([Answered(c, 200) EXCEPT !.new = s, !.mfa = waits], sessionRows')
    <3>1. call[c] \in CallRecords
      BY Zenon, <1>1
    <3> QED BY ZenonT(60), <3>1, AnswerWithGood
  <2> QED BY Zenon, <1>3, <1>5, <2>1 DEF AnswerWith
<1>6. ASSUME NEW c \in Calls, NEW b \in Browsers, NEW operation \in Operations,
             NEW typed \in SubmittedCodes \cup {NoCode},
             call' = [call EXCEPT ![c] = RequestOf(b, operation, typed)]
      PROVE  Goal
  <2>1. Good(RequestOf(b, operation, typed), sessionRows')
    BY Zenon, RequestGood DEF SignInInv
  <2> QED BY Zenon, <1>3, <1>6, <2>1
<1>7. ASSUME NEW c \in Calls, call[c].stage \in Underway, NEW t, Further(t, call[c].op),
             call' = [call EXCEPT ![c].stage = t]
      PROVE  Goal
  <2> DEFINE r == [call[c] EXCEPT !.stage = t]
  <2>1. Good(r, sessionRows')
    BY Zenon, <1>0, <1>1, <1>7, StagedGood, GoodStays
  <2>2. call' = [call EXCEPT ![c] = r]
    BY Zenon, <1>7
  <2> HIDE DEF r
  <2> QED BY Zenon, <1>3, <2>1, <2>2
<1>8. /\ 0 \in Statuses /\ 200 \in Statuses /\ 400 \in Statuses /\ 401 \in Statuses
      /\ \A c \in Calls : Bare(c, 0) /\ Bare(c, 400) /\ Bare(c, 401)
  BY DEF Statuses, Bare
<1>9. ASSUME NEW c \in Calls, canActivate(c) PROVE Goal
  <2> DEFINE says == GuardsSay(c)
             r == [call[c] EXCEPT !.sess = Resolved(c), !.stage = "handle", !.cookie = 0,
                                  !.csrf = NoToken]
  <2>1. says \in Statuses
    BY DEF GuardsSay, Statuses
  <2>2. UNCHANGED sessionRows
    BY Zenon, <1>9 DEF canActivate, server
  <2>3. CASE Answer(c, says) /\ (says # 200 \/ call[c].op = "read")
    <3>1. Bare(c, says)
      BY <2>3 DEF Bare
    <3> QED BY Zenon, <1>4, <2>1, <2>3, <3>1
  <2>4. CASE /\ says = 200
             /\ call' = [call EXCEPT ![c].sess = Resolved(c), ![c].stage = "handle",
                                     ![c].cookie = 0, ![c].csrf = NoToken]
    <3>1. call' = [call EXCEPT ![c] = r]
      <4>1. [call EXCEPT ![c].sess = Resolved(c), ![c].stage = "handle", ![c].cookie = 0,
                         ![c].csrf = NoToken]
              = [call EXCEPT ![c] = r]
        BY Zenon, Passed
      <4> HIDE DEF r
      <4> QED BY Zenon, <2>4, <4>1
    <3>2. /\ Resolved(c) \in 0 .. MaxSessions
          /\ Resolved(c) # 0 => Resolved(c) \in SessionIds /\ sessionRows[Resolved(c)].st = "usable"
      <4>1. call[c].cookie \in 0 .. MaxSessions
        BY Zenon, <1>1 DEF CallRecords
      <4>2. call[c].cookie # 0 => call[c].cookie \in SessionIds
        BY <4>1, Constants
      <4> QED BY Zenon, <4>1, <4>2, Constants DEF Resolved
    <3>3. /\ call[c].op # "login" => Resolved(c) # 0
          /\ call[c].op = "verify" => sessionRows[Resolved(c)].pending
      BY <2>4 DEF GuardsSay
    <3>4. /\ r \in CallRecords /\ r.op = call[c].op /\ r.sess = Resolved(c) /\ r.stage = "handle"
      <4>1. call[c] \in CallRecords
        BY Zenon, <1>1
      <4> HIDE DEF says
      <4> QED BY Zenon, <3>2, <4>1, Constants DEF CallRecords, Underway
    <3> HIDE DEF r
    <3>5. Good(r, sessionRows)
      BY <3>2, <3>3, <3>4 DEF Good
    <3> QED BY Zenon, <1>3, <2>2, <3>1, <3>5
  <2> HIDE DEF r
  <2> QED BY Zenon, <1>9, <2>3, <2>4 DEF canActivate
<1>10. ASSUME NEW c \in Calls, login(c) PROVE Goal
  <2>1. CASE Answer(c, 401)
    BY <1>4, <1>8, <2>1
  <2>2. CASE call' = [call EXCEPT ![c].stage = "issue", ![c].mfa = account.enabled]
    <3> DEFINE r == [call[c] EXCEPT !.stage = "issue", !.mfa = account.enabled]
    <3>1. call' = [call EXCEPT ![c] = r]
      BY Zenon, <2>2
    <3>2. account.enabled \in BOOLEAN /\ call[c].op = "login" /\ call[c] \in CallRecords
      BY Zenon, <1>1, <1>10 DEF login, SignInInv
    <3>3. r \in CallRecords /\ r.op = "login" /\ r.stage = "issue"
      BY Zenon, <3>2 DEF CallRecords, Underway
    <3> HIDE DEF r
    <3>4. Good(r, sessionRows')
      BY <3>3 DEF Good
    <3> QED BY Zenon, <1>3, <3>1, <3>4
  <2> QED BY Zenon, <1>10, <2>1, <2>2 DEF login
<1>11. ASSUME NEW c \in Calls, issue(c) PROVE Goal
  <2>1. call[c].mfa \in BOOLEAN
    BY Zenon, <1>1 DEF CallRecords
  <2> QED BY Zenon, <1>5, <1>11, <2>1 DEF issue
<1>12. ASSUME NEW c \in Calls, completeMfa(c) PROVE Goal
  BY Zenon, <1>5, <1>12 DEF completeMfa
<1>13. ASSUME NEW c \in Calls, issueCsrfToken(c) PROVE Goal
  <2> DEFINE u == call[c].sess
             g == (sessionRows[u].csrf % MaxTokensOf) + 1
  <2>1. call[c].stage \in Underway /\ call[c].op # "login" /\ call[c].op = "me"
    BY <1>13 DEF issueCsrfToken, Underway
  <2>2. u \in SessionIds /\ sessionRows[u] \in SessionRecords
    BY Zenon, <1>1, <2>1 DEF Good, SignInInv
  <2>3. g \in 1 .. MaxTokensOf
    BY Zenon, <2>2, CsrfRow
  <2>4. <<u, g>> \in CsrfTokens
    BY Zenon, <2>2, <2>3, Constants
  <2>5. call' = [call EXCEPT ![c] = [Answered(c, 200) EXCEPT !.csrf = <<u, g>>]]
    BY Zenon, <1>13 DEF issueCsrfToken
  <2>6. Good([Answered(c, 200) EXCEPT !.csrf = <<u, g>>], sessionRows')
    BY Zenon, <1>1, <2>1, <2>4, TokenGood
  <2> QED BY Zenon, <1>3, <2>5, <2>6
<1>14. ASSUME NEW c \in Calls, logout(c) \/ beginSetup(c) PROVE Goal
  <2>1. Answer(c, 200)
    BY Zenon, <1>14 DEF logout, beginSetup
  <2>2. Bare(c, 200)
    BY <1>14 DEF logout, beginSetup, Bare
  <2> QED BY <1>4, <1>8, <2>1, <2>2
<1>15. ASSUME NEW c \in Calls, confirmSetup(c) PROVE Goal
  <2>1. CASE Answer(c, 400)
    BY <1>4, <1>8, <2>1
  <2>2. CASE call' = [call EXCEPT ![c].stage = "activate"]
    <3>1. call[c].stage \in Underway /\ Further("activate", call[c].op)
      BY <1>15 DEF confirmSetup, Underway, Further
    <3> QED BY Zenon, <1>7, <2>2, <3>1
  <2> QED BY Zenon, <1>15, <2>1, <2>2 DEF confirmSetup
<1>16. ASSUME NEW c \in Calls, activate(c) \/ revokeAllForUser(c) PROVE Goal
  <2>1. Answer(c, 200)
    BY Zenon, <1>16 DEF activate, revokeAllForUser
  <2>2. Bare(c, 200)
    <3>1. call[c].stage \in {"activate", "disabled"} /\ Good(call[c], sessionRows)
      BY <1>1, <1>16 DEF activate, revokeAllForUser
    <3> QED BY <3>1 DEF Good, Bare
  <2> QED BY <1>4, <1>8, <2>1, <2>2
<1>17. ASSUME NEW c \in Calls, Rejected(c) PROVE Goal
  <2>1. Answer(c, 400) \/ Answer(c, 401)
    BY <1>17 DEF Rejected
  <2> QED BY <1>4, <1>8, <2>1
<1>18. ASSUME NEW c \in Calls, verifyChallenge(c) PROVE Goal
  <2>1. CASE Rejected(c)
    BY Zenon, <1>17, <2>1
  <2>2. CASE call' = [call EXCEPT ![c].stage = IF call[c].code = Totp THEN "accepted"
                                               ELSE "consume"]
    <3> DEFINE t == IF call[c].code = Totp THEN "accepted" ELSE "consume"
    <3>1. call[c].stage \in Underway /\ Further(t, call[c].op)
      BY <1>18 DEF verifyChallenge, Underway, Further
    <3>2. call' = [call EXCEPT ![c].stage = t]
      BY Zenon, <2>2
    <3> HIDE DEF t
    <3> QED BY Zenon, <1>7, <3>1, <3>2
  <2> QED BY Zenon, <1>18, <2>1, <2>2 DEF verifyChallenge
<1>19. ASSUME NEW c \in Calls, consumeRecoveryCode(c) PROVE Goal
  <2>1. CASE Rejected(c)
    BY Zenon, <1>17, <2>1
  <2>2. CASE call' = [call EXCEPT ![c].stage = "accepted"]
    <3>1. call[c].stage \in Underway /\ Further("accepted", call[c].op)
      BY <1>19 DEF consumeRecoveryCode, Underway, Further
    <3> QED BY Zenon, <1>7, <2>2, <3>1
  <2> QED BY Zenon, <1>19, <2>1, <2>2 DEF consumeRecoveryCode
<1>20. ASSUME NEW c \in Calls, disable(c) PROVE Goal
  <2>1. call' = [call EXCEPT ![c].stage = "disabled"]
    BY Zenon, <1>20 DEF disable
  <2>2. call[c].stage \in Underway /\ Further("disabled", call[c].op)
    BY <1>20 DEF disable, Underway, Further
  <2> QED BY Zenon, <1>7, <2>1, <2>2
<1>21. ASSUME NEW c \in Calls, regenerateRecoveryCodes(c) PROVE Goal
  <2>1. Answer(c, 200) \/ Answer(c, 400)
    BY <1>21 DEF regenerateRecoveryCodes
  <2>2. Bare(c, 200)
    BY <1>21 DEF regenerateRecoveryCodes, Bare
  <2> QED BY SMTT(60), <1>4, <1>8, <2>1, <2>2
<1>22. ASSUME NEW c \in Calls, loseAnswer(c) PROVE Goal
  <2>1. Answer(c, 0)
    BY Zenon, <1>22 DEF loseAnswer
  <2> QED BY <1>4, <1>8, <2>1
<1>23. /\ NoCode \in SubmittedCodes \cup {NoCode}
       /\ \A k \in SubmittedCodes : k \in SubmittedCodes \cup {NoCode}
  BY Zenon
<1>24. ASSUME NEW c \in Calls, receive(c) PROVE Goal
  <2>1. CASE call' = [call EXCEPT ![c] = FreeCall]
    <3>1. Good(FreeCall, sessionRows')
      BY Zenon, FreeGood
    <3> QED BY Zenon, <1>3, <2>1, <3>1
  <2>2. CASE /\ call[c].from # Nobody
             /\ call' = [call EXCEPT ![c] = RequestOf(call[c].from, "me", NoCode)]
    <3>1. call[c].from \in Browsers
      BY Zenon, <1>1, <2>2 DEF CallRecords
    <3>2. "me" \in Operations
      BY DEF Operations
    <3> QED BY Zenon, <1>6, <1>23, <2>2, <3>1, <3>2
  <2> QED BY Zenon, <1>24, <2>1, <2>2 DEF receive
<1>25. ASSUME NEW c \in Calls, NEW b \in Browsers, Operate(c, b) \/ readPage(c, b) PROVE Goal
  <2>1. ASSUME NEW operation \in Operations, NEW typed \in SubmittedCodes \cup {NoCode},
               Send(c, b, operation, typed)
        PROVE  Goal
    BY Zenon, <1>6, <2>1 DEF Send
  <2>2. /\ "me" \in Operations /\ "login" \in Operations /\ "verify" \in Operations
        /\ "read" \in Operations
        /\ \A operation \in Uses \cap {"confirm", "disable", "regenerate"} :
             operation \in Operations
        /\ \A operation \in Uses \cap {"logout", "setup"} : operation \in Operations
    BY DEF Operations, StateChanging
  <2>3. CASE restore(c, b) \/ submitLogin(c, b) \/ readPage(c, b)
    BY Zenon, <1>23, <2>1, <2>2, <2>3 DEF restore, submitLogin, readPage
  <2>4. ASSUME NEW typed \in SubmittedCodes, submitCode(c, b, typed) PROVE Goal
    BY Zenon, <1>23, <2>1, <2>2, <2>4 DEF submitCode
  <2>5. ASSUME NEW typed \in SubmittedCodes,
               NEW operation \in Uses \cap {"confirm", "disable", "regenerate"},
               askOf(c, b, operation, typed)
        PROVE  Goal
    BY Zenon, <1>23, <2>1, <2>2, <2>5 DEF askOf
  <2>6. ASSUME NEW operation \in Uses \cap {"logout", "setup"}, askOf(c, b, operation, NoCode)
        PROVE  Goal
    BY Zenon, <1>23, <2>1, <2>2, <2>6 DEF askOf
  <2> QED BY Zenon, <1>25, <2>3, <2>4, <2>5, <2>6 DEF Operate
<1>26. ASSUME NEW b \in Browsers, reload(b) PROVE Goal
  <2>1. ASSUME NEW c \in Calls PROVE call'[c] \in CallRecords /\ Good(call'[c], sessionRows')
    <3>0. Good(call[c], sessionRows') /\ call[c] \in CallRecords
      BY Zenon, <1>0, <1>1, GoodStays
    <3>1. call'[c] = [call[c] EXCEPT !.from = Nobody] \/ call'[c] = call[c]
      BY Zenon, <1>26 DEF reload
    <3> QED BY <3>0, <3>1 DEF Good, CallRecords
  <2>2. call' = [c \in Calls |-> call'[c]]
    BY Zenon, <1>26 DEF reload
  <2> QED BY Zenon, <2>1, <2>2
<1>27. ASSUME NEW b \in Browsers, restart(b) PROVE Goal
  BY Zenon, <1>2, <1>27 DEF restart
<1>28. ASSUME NEW s \in SessionIds, revokeSession(s) PROVE Goal
  BY Zenon, <1>2, <1>28 DEF revokeSession
<1>29. CASE UNCHANGED accessVars
  BY Zenon, <1>2, <1>29 DEF accessVars
<1> QED
  BY Zenon, <1>9, <1>10, <1>11, <1>12, <1>13, <1>14, <1>15, <1>16, <1>18, <1>19, <1>20, <1>21,
     <1>22, <1>24, <1>25, <1>26, <1>27, <1>28, <1>29 DEF AccessNext, Serve

(* What a tab makes of an answer is again what a tab can hold. *)
LEMMA AnonymousTab ==
  ASSUME NEW t \in TabRecords
  PROVE  Anonymous(t) \in TabRecords /\ Anonymous(t).page = t.page
BY Zenon, Constants DEF Anonymous, TabRecords

LEMMA SignedOutTab ==
  ASSUME NEW t \in TabRecords
  PROVE  signedOut(t) \in TabRecords
<1> DEFINE g == IF t.page = "app" THEN "credentials" ELSE t.page
           a == Anonymous(t)
<1>1. a \in TabRecords
  BY Zenon, AnonymousTab
<1>2. g \in {"credentials", "second-factor", "completing", "app"}
  BY DEF TabRecords
<1>3. signedOut(t) = [a EXCEPT !.page = g]
  BY Zenon DEF signedOut
<1> HIDE DEF a, g
<1> QED BY <1>1, <1>2, <1>3 DEF TabRecords

LEMMA PageTab ==
  ASSUME NEW t \in TabRecords, NEW g \in {"credentials", "second-factor", "completing", "app"}
  PROVE  [t EXCEPT !.page = g] \in TabRecords
BY DEF TabRecords

LEMMA EnteredTab ==
  ASSUME NEW t \in TabRecords, NEW s \in SessionIds
  PROVE  /\ [t EXCEPT !.cookie = s, !.csrf = <<s, 1>>, !.restoring = FALSE] \in TabRecords
         /\ [t EXCEPT !.cookie = s, !.csrf = <<s, 1>>, !.restoring = FALSE, !.page = "completing"]
              \in TabRecords
<1> DEFINE g == <<s, 1>>
<1>1. 1 \in 1 .. MaxTokensOf
  BY Constants
<1>2. g \in CsrfTokens /\ s \in 0 .. MaxSessions
  BY Zenon, <1>1, Constants
<1> HIDE DEF g
<1>3. /\ [t EXCEPT !.cookie = s, !.csrf = g, !.restoring = FALSE] \in TabRecords
      /\ [t EXCEPT !.cookie = s, !.csrf = g, !.restoring = FALSE, !.page = "completing"]
           \in TabRecords
  BY Zenon, <1>2 DEF TabRecords
<1> QED BY Zenon, <1>3 DEF g

LEMMA LoginTab ==
  ASSUME NEW t \in TabRecords, NEW a \in CallRecords, a.status = 200 => a.new \in SessionIds
  PROVE  AfterLogin(t, a) \in TabRecords
<1> DEFINE u == [t EXCEPT !.cookie = a.new, !.csrf = <<a.new, 1>>, !.restoring = FALSE]
<1>1. CASE a.status # 200
  BY <1>1 DEF AfterLogin
<1>2. CASE a.status = 200
  <2>0. a.new \in SessionIds
    BY <1>2
  <2>1. u \in TabRecords
    BY Zenon, <2>0, EnteredTab
  <2>2. AfterLogin(t, a) = IF a.mfa THEN [u EXCEPT !.kind = "mfa-pending", !.page = "second-factor"]
                           ELSE [u EXCEPT !.page = "completing"]
    BY <1>2 DEF AfterLogin
  <2> HIDE DEF u
  <2>3. /\ [u EXCEPT !.kind = "mfa-pending", !.page = "second-factor"] \in TabRecords
        /\ [u EXCEPT !.page = "completing"] \in TabRecords
    BY Zenon, <2>1 DEF TabRecords
  <2> QED BY Zenon, <2>2, <2>3
<1> QED BY Zenon, <1>1, <1>2

LEMMA VerifyTab ==
  ASSUME NEW t \in TabRecords, NEW a \in CallRecords, a.status = 200 => a.new \in SessionIds
  PROVE  AfterVerify(t, a) \in TabRecords
<1>1. CASE a.status = 200
  <2> DEFINE u == [t EXCEPT !.cookie = a.new, !.csrf = <<a.new, 1>>, !.restoring = FALSE,
                            !.page = "completing"]
  <2>0. a.new \in SessionIds
    BY <1>1
  <2>1. u \in TabRecords
    BY Zenon, <2>0, EnteredTab
  <2>2. AfterVerify(t, a) = u
    BY <1>1 DEF AfterVerify
  <2> QED BY Zenon, <2>1, <2>2
<1>2. CASE a.status # 200
  <2>1. AfterVerify(t, a) \in {signedOut(t), t}
    BY <1>2 DEF AfterVerify
  <2> QED BY Zenon, <2>1, SignedOutTab
<1> QED BY Zenon, <1>1, <1>2

LEMMA MeTab ==
  ASSUME NEW t \in TabRecords, NEW a \in CallRecords, NEW awaited
  PROVE  AfterMe(t, a, awaited) \in TabRecords
<1> DEFINE k == IF awaited THEN Nobody ELSE t.check
           u == [t EXCEPT !.restoring = FALSE, !.check = IF awaited THEN Nobody ELSE @]
           moves == Moves(t, awaited)
           Pages == {"credentials", "second-factor", "completing", "app"}
<1>1. k \in Calls \cup {Nobody}
  BY Zenon DEF TabRecords
<1>2. u = [t EXCEPT !.restoring = FALSE, !.check = k]
  BY DEF TabRecords
<1> HIDE DEF k, u, moves
<1>3. u \in TabRecords
  BY Zenon, <1>1, <1>2 DEF TabRecords
<1>4. a.csrf \in CsrfTokens
  BY Zenon DEF CallRecords
<1>5. \A v \in TabRecords : v.page \in Pages /\ "app" \in Pages /\ "credentials" \in Pages
  BY DEF TabRecords
<1>6. CASE a.status = 200
  <2> DEFINE g == IF moves THEN "app" ELSE u.page
  <2>1. g \in Pages
    BY Zenon, <1>3, <1>5
  <2>2. AfterMe(t, a, awaited) = [u EXCEPT !.csrf = a.csrf, !.kind = "authenticated", !.page = g]
    BY <1>3, <1>6 DEF AfterMe, TabRecords, u, moves
  <2> HIDE DEF g
  <2> QED BY Zenon, <1>3, <1>4, <2>1, <2>2 DEF TabRecords
<1>7. CASE a.status # 200
  <2> DEFINE v == IF a.status = 401 THEN signedOut(u) ELSE Anonymous(u)
             g == IF moves THEN "credentials" ELSE v.page
  <2>1. v \in TabRecords
    BY ZenonT(60), <1>3, SignedOutTab, AnonymousTab
  <2>2. g \in Pages
    BY ZenonT(60), <1>5, <2>1
  <2>3. AfterMe(t, a, awaited) = [v EXCEPT !.page = g]
    BY <1>7 DEF AfterMe, u, moves
  <2> HIDE DEF v, g
  <2> QED BY Zenon, <2>1, <2>2, <2>3, PageTab
<1> QED BY Zenon, <1>6, <1>7

LEMMA LogoutTab ==
  ASSUME NEW t \in TabRecords, NEW a \in CallRecords
  PROVE  AfterLogout(t, a) \in TabRecords
<1> DEFINE v == Anonymous(t)
           k == IF a.status = 200 THEN 0 ELSE v.cookie
<1>1. v \in TabRecords
  BY Zenon, AnonymousTab
<1>2. k \in 0 .. MaxSessions
  BY <1>1, Constants DEF TabRecords
<1> HIDE DEF v
<1>3. AfterLogout(t, a) = [v EXCEPT !.page = "credentials", !.cookie = k]
  BY <1>1 DEF AfterLogout, TabRecords, v
<1> HIDE DEF k
<1> QED BY Zenon, <1>1, <1>2, <1>3 DEF TabRecords

LEMMA AfterTab ==
  ASSUME NEW c, NEW t \in TabRecords, NEW a, Good(a, sessionRows), a.stage = "answered"
  PROVE  After(t, c, a) \in TabRecords
<1>1. a \in CallRecords
  BY Zenon DEF Good
<1>2. (a.op = "login" \/ a.op = "verify") /\ a.status = 200 => a.new \in SessionIds
  BY DEF Good
<1>3. AfterOther(t, a) \in TabRecords
  BY Zenon, SignedOutTab DEF AfterOther
<1>4. CASE a.op = "login"
  <2>1. After(t, c, a) = AfterLogin(t, a)
    BY <1>4 DEF After
  <2> QED BY <1>1, <1>2, <1>4, <2>1, LoginTab
<1>5. CASE a.op = "verify"
  <2>1. After(t, c, a) = AfterVerify(t, a)
    BY <1>5 DEF After
  <2> QED BY <1>1, <1>2, <1>5, <2>1, VerifyTab
<1>6. CASE a.op = "me"
  <2>1. After(t, c, a) = AfterMe(t, a, t.check = c)
    BY <1>6 DEF After
  <2> QED BY Zenon, <1>1, <2>1, MeTab
<1>7. CASE a.op = "logout"
  <2>1. After(t, c, a) = AfterLogout(t, a)
    BY <1>7 DEF After
  <2> QED BY Zenon, <1>1, <2>1, LogoutTab
<1>8. CASE a.op \notin {"login", "verify", "me", "logout"}
  <2>1. After(t, c, a) = AfterOther(t, a)
    BY <1>8 DEF After
  <2> QED BY Zenon, <1>3, <2>1
<1> QED BY Zenon, <1>4, <1>5, <1>6, <1>7, <1>8

LEMMA TabsStep ==
  ASSUME SignInInv, [AccessNext]_accessVars PROVE tab' \in [Browsers -> TabRecords]
<1>0. tab \in [Browsers -> TabRecords] /\ \A b \in Browsers : tab[b] \in TabRecords
  BY Zenon DEF SignInInv
<1>1. ASSUME NEW c \in Calls, Serve(c) \/ loseAnswer(c) PROVE UNCHANGED tab
  BY Zenon, <1>1 DEF Serve, canActivate, login, issue, completeMfa, issueCsrfToken, logout,
     beginSetup, confirmSetup, activate, verifyChallenge, consumeRecoveryCode, disable,
     revokeAllForUser, regenerateRecoveryCodes, loseAnswer
<1>2. ASSUME NEW b \in Browsers, NEW t \in TabRecords, tab' = [tab EXCEPT ![b] = t]
      PROVE  tab' \in [Browsers -> TabRecords]
  BY Zenon, <1>0, <1>2
<1>3. ASSUME NEW c \in Calls, NEW b \in Browsers,
             tab' = [tab EXCEPT ![b].restoring = TRUE, ![b].check = c]
      PROVE  tab' \in [Browsers -> TabRecords]
  <2> DEFINE t == [tab[b] EXCEPT !.restoring = TRUE, !.check = c]
  <2>1. tab' = [tab EXCEPT ![b] = t]
    BY Zenon, <1>3
  <2>2. t \in TabRecords
    BY Zenon, <1>0 DEF TabRecords
  <2> HIDE DEF t
  <2> QED BY Zenon, <1>2, <2>1, <2>2
<1>4. ASSUME NEW c \in Calls, NEW b \in Browsers, Operate(c, b) \/ readPage(c, b)
      PROVE  tab' \in [Browsers -> TabRecords]
  <2>1. CASE restore(c, b)
    BY Zenon, <1>3, <2>1 DEF restore
  <2>2. CASE UNCHANGED tab
    BY Zenon, <1>0, <2>2
  <2> QED BY Zenon, <1>4, <2>1, <2>2 DEF Operate, submitLogin, submitCode, askOf, readPage
<1>5. ASSUME NEW b \in Browsers, restart(b) PROVE tab' \in [Browsers -> TabRecords]
  <2> DEFINE t == [tab[b] EXCEPT !.page = "credentials"]
  <2>1. tab' = [tab EXCEPT ![b] = t]
    BY Zenon, <1>5 DEF restart
  <2>2. t \in TabRecords
    BY <1>0 DEF TabRecords
  <2> HIDE DEF t
  <2> QED BY Zenon, <1>2, <2>1, <2>2
<1>6. ASSUME NEW b \in Browsers, reload(b) PROVE tab' \in [Browsers -> TabRecords]
  <2>1. tab' = [tab EXCEPT ![b].kind = "unknown", ![b].csrf = NoToken, ![b].restoring = FALSE,
                           ![b].check = Nobody, ![b].page = "app"]
    BY Zenon, <1>6 DEF reload
  <2>2. [tab EXCEPT ![b].kind = "unknown", ![b].csrf = NoToken, ![b].restoring = FALSE,
                    ![b].check = Nobody, ![b].page = "app"]
          = [tab EXCEPT ![b] = [tab[b] EXCEPT !.kind = "unknown", !.csrf = NoToken,
                                              !.restoring = FALSE, !.check = Nobody,
                                              !.page = "app"]]
    BY ZenonT(60), Reloaded
  <2> DEFINE t == [tab[b] EXCEPT !.kind = "unknown", !.csrf = NoToken, !.restoring = FALSE,
                                 !.check = Nobody, !.page = "app"]
  <2>3. t \in TabRecords
    BY Zenon, <1>0, Constants DEF TabRecords
  <2>4. tab' = [tab EXCEPT ![b] = t]
    BY Zenon, <2>1, <2>2
  <2> HIDE DEF t
  <2> QED BY Zenon, <1>2, <2>3, <2>4
<1>7. ASSUME NEW c \in Calls, receive(c) PROVE tab' \in [Browsers -> TabRecords]
  <2> DEFINE b == call[c].from
  <2>0. b # Nobody => b \in Browsers
    BY Zenon DEF SignInInv, CallRecords
  <2>1. CASE UNCHANGED tab
    BY Zenon, <1>0, <2>1
  <2>2. CASE b # Nobody /\ tab' = [tab EXCEPT ![b].restoring = TRUE, ![b].check = c]
    BY Zenon, <1>3, <2>0, <2>2
  <2>3. CASE b # Nobody /\ tab' = [tab EXCEPT ![b] = After(@, c, call[c])]
    <3>1. Good(call[c], sessionRows) /\ call[c].stage = "answered"
      BY Zenon, <1>7 DEF SignInInv, receive
    <3>2. After(tab[b], c, call[c]) \in TabRecords
      BY Zenon, <1>0, <2>0, <2>3, <3>1, AfterTab
    <3> QED BY Zenon, <1>2, <2>0, <2>3, <3>2
  <2> QED BY Zenon, <1>7, <2>1, <2>2, <2>3 DEF receive
<1>8. ASSUME NEW s \in SessionIds, revokeSession(s) PROVE UNCHANGED tab
  BY Zenon, <1>8 DEF revokeSession
<1>9. CASE UNCHANGED accessVars
  BY Zenon, <1>0, <1>9 DEF accessVars
<1> QED BY Zenon, <1>0, <1>1, <1>4, <1>5, <1>6, <1>7, <1>8, <1>9 DEF AccessNext

(* A session takes the place of another only when the second factor has been  *)
(* shown, and the one it replaces ends in that step.                          *)
LEMMA RotationStep ==
  ASSUME SignInInv, [AccessNext]_accessVars
  PROVE  rotatedFrom' \in [SessionIds -> 0 .. MaxSessions] /\ ElevationRotates'
<1>0. /\ rotatedFrom \in [SessionIds -> 0 .. MaxSessions] /\ ElevationRotates
      /\ \A s \in SessionIds : rotatedFrom[s] # 0 => rotatedFrom[s] \in SessionIds
  BY Constants DEF SignInInv
<1>1. RowsStay /\ \A s \in SessionIds : sessionRows[s].st = "over" => sessionRows[s].st # "none"
  BY RowsStep
<1>2. ASSUME UNCHANGED rotatedFrom
      PROVE  rotatedFrom' \in [SessionIds -> 0 .. MaxSessions] /\ ElevationRotates'
  BY Zenon, <1>0, <1>1, <1>2 DEF ElevationRotates, RowsStay
<1>3. ASSUME NEW c \in Calls, completeMfa(c)
      PROVE  rotatedFrom' \in [SessionIds -> 0 .. MaxSessions] /\ ElevationRotates'
  <2> DEFINE u == call[c].sess
  <2>1. PICK s \in SessionIds :
          /\ sessionRows[s].st = "none"
          /\ sessionRows' = [sessionRows EXCEPT ![u].st = "over", ![s] = NewRow(FALSE)]
          /\ rotatedFrom' = [rotatedFrom EXCEPT ![s] = u]
    BY Zenon, <1>3 DEF completeMfa, FreshSession
  <2>2. /\ u \in SessionIds /\ sessionRows[u].st # "none" /\ sessionRows[u].pending
        /\ sessionRows[u] \in SessionRecords /\ sessionRows \in [SessionIds -> SessionRecords]
    <3>1. call[c].stage \in Underway /\ call[c].op # "login" /\ call[c].op = "verify"
      BY <1>3 DEF completeMfa, Underway
    <3> QED BY Zenon, <3>1 DEF SignInInv, Good
  <2>3. u # s
    BY Zenon, <2>1, <2>2
  <2>4. sessionRows'[u] = [sessionRows[u] EXCEPT !.st = "over"]
    BY Zenon, <2>1, <2>2, <2>3
  <2>5. sessionRows'[u].st = "over" /\ sessionRows'[u].pending
    BY ZenonT(60), <2>2, <2>4, OverRow
  <2>6. rotatedFrom' \in [SessionIds -> 0 .. MaxSessions]
    BY Zenon, <1>0, <2>1, <2>2, Constants
  <2>7. ASSUME NEW v \in SessionIds, rotatedFrom'[v] # 0
        PROVE  /\ sessionRows'[rotatedFrom'[v]].pending
               /\ sessionRows'[rotatedFrom'[v]].st = "over"
    <3>1. CASE v = s
      <4>1. rotatedFrom'[v] = u
        BY Zenon, <1>0, <2>1, <3>1
      <4> QED BY Zenon, <2>5, <4>1
    <3>2. CASE v # s
      <4>1. rotatedFrom'[v] = rotatedFrom[v]
        BY Zenon, <1>0, <2>1, <3>2
      <4>2. /\ rotatedFrom[v] \in SessionIds /\ sessionRows[rotatedFrom[v]].pending
            /\ sessionRows[rotatedFrom[v]].st = "over"
        BY Zenon, <1>0, <2>7, <4>1 DEF ElevationRotates
      <4> QED BY Zenon, <1>1, <4>1, <4>2 DEF RowsStay
    <3> QED BY Zenon, <3>1, <3>2
  <2> QED BY Zenon, <2>6, <2>7 DEF ElevationRotates
<1>4. ASSUME NEW c \in Calls, Serve(c) \/ receive(c) \/ loseAnswer(c), ~completeMfa(c)
      PROVE  UNCHANGED rotatedFrom
  BY Zenon, <1>4 DEF Serve, canActivate, login, issue, issueCsrfToken, logout,
     beginSetup, confirmSetup, activate, verifyChallenge, consumeRecoveryCode, disable,
     revokeAllForUser, regenerateRecoveryCodes, receive, loseAnswer, server
<1>5. ASSUME NEW c \in Calls, NEW b \in Browsers, Operate(c, b) \/ readPage(c, b)
      PROVE  UNCHANGED rotatedFrom
  BY Zenon, <1>5 DEF Operate, restore, submitLogin, submitCode, askOf, readPage, server
<1>6. ASSUME NEW b \in Browsers, restart(b) \/ reload(b) PROVE UNCHANGED rotatedFrom
  BY Zenon, <1>6 DEF restart, reload, server
<1>7. ASSUME NEW s \in SessionIds, revokeSession(s) PROVE UNCHANGED rotatedFrom
  BY Zenon, <1>7 DEF revokeSession
<1>8. CASE UNCHANGED accessVars
  BY Zenon, <1>2, <1>8 DEF accessVars
<1> QED BY Zenon, <1>2, <1>3, <1>4, <1>5, <1>6, <1>7, <1>8 DEF AccessNext

LEMMA SignInStep ==
  ASSUME SignInInv, [AccessNext]_accessVars PROVE SignInInv'
<1>1. account' \in [enabled : BOOLEAN, secret : BOOLEAN]
  <2>0. account \in [enabled : BOOLEAN, secret : BOOLEAN]
    BY Zenon DEF SignInInv
  <2>1. ASSUME NEW c \in Calls, Serve(c) \/ receive(c) \/ loseAnswer(c)
        PROVE  \/ UNCHANGED account
               \/ \E e, k \in BOOLEAN : account' = [enabled |-> e, secret |-> k]
               \/ account' = [account EXCEPT !.enabled = TRUE]
    BY Zenon, <2>1 DEF Serve, canActivate, login, issue, completeMfa, issueCsrfToken, logout,
       beginSetup, confirmSetup, activate, verifyChallenge, consumeRecoveryCode, disable,
       revokeAllForUser, regenerateRecoveryCodes, receive, loseAnswer, server
  <2>2. ASSUME NEW c \in Calls, NEW b \in Browsers, Operate(c, b) \/ readPage(c, b)
        PROVE  UNCHANGED account
    BY Zenon, <2>2 DEF Operate, restore, submitLogin, submitCode, askOf, readPage, server
  <2>3. ASSUME NEW b \in Browsers, restart(b) \/ reload(b) PROVE UNCHANGED account
    BY Zenon, <2>3 DEF restart, reload, server
  <2>4. ASSUME NEW s \in SessionIds, revokeSession(s) PROVE UNCHANGED account
    BY Zenon, <2>4 DEF revokeSession
  <2>5. CASE UNCHANGED accessVars
    BY Zenon, <2>0, <2>5 DEF accessVars
  <2>6. ASSUME account' = [account EXCEPT !.enabled = TRUE]
        PROVE  account' \in [enabled : BOOLEAN, secret : BOOLEAN]
    BY Zenon, <2>0, <2>6
  <2>7. ASSUME NEW c \in Calls, Serve(c) \/ receive(c) \/ loseAnswer(c)
        PROVE  account' \in [enabled : BOOLEAN, secret : BOOLEAN]
    <3>1. CASE UNCHANGED account BY Zenon, <2>0, <3>1
    <3>2. ASSUME NEW e \in BOOLEAN, NEW k \in BOOLEAN, account' = [enabled |-> e, secret |-> k]
          PROVE  account' \in [enabled : BOOLEAN, secret : BOOLEAN]
      BY Zenon, <3>2
    <3> QED BY Zenon, <2>1, <2>6, <2>7, <3>1, <3>2
  <2> QED BY Zenon, <2>0, <2>2, <2>3, <2>4, <2>5, <2>7 DEF AccessNext
<1>2. trouble' \in 0 .. MaxTrouble
  <2>1. UNCHANGED trouble \/ Trouble
    <3>1. ASSUME NEW c \in Calls, Serve(c) \/ receive(c) \/ loseAnswer(c)
          PROVE  UNCHANGED trouble \/ Trouble
      BY Zenon, <3>1 DEF Serve, canActivate, login, issue, completeMfa, issueCsrfToken, logout,
         beginSetup, confirmSetup, activate, verifyChallenge, consumeRecoveryCode, disable,
         revokeAllForUser, regenerateRecoveryCodes, receive, loseAnswer
    <3>2. ASSUME NEW c \in Calls, NEW b \in Browsers, Operate(c, b) \/ readPage(c, b)
          PROVE  UNCHANGED trouble \/ Trouble
      BY Zenon, <3>2 DEF Operate, restore, submitLogin, submitCode, askOf, readPage, Typing
    <3>3. ASSUME NEW b \in Browsers, restart(b) \/ reload(b) PROVE UNCHANGED trouble \/ Trouble
      BY Zenon, <3>3 DEF restart, reload
    <3>4. ASSUME NEW s \in SessionIds, revokeSession(s) PROVE Trouble
      BY Zenon, <3>4 DEF revokeSession
    <3>5. CASE UNCHANGED accessVars
      BY Zenon, <3>5 DEF accessVars
    <3> QED BY Zenon, <3>1, <3>2, <3>3, <3>4, <3>5 DEF AccessNext
  <2> QED BY <2>1, Constants DEF Trouble, SignInInv
<1> QED BY Zenon, <1>1, <1>2, RowsStep, CallsStep, TabsStep, RotationStep DEF SignInInv, Rows

LEMMA SignInHolds == AccessSpec => []SignInInv
<1>1. AccessInit => SignInInv
  <2> SUFFICES ASSUME AccessInit PROVE SignInInv
    BY SMTT(60)
  <2>1. sessionRows \in [SessionIds -> SessionRecords]
    BY SMTT(60), Constants DEF AccessInit, SessionRecords
  <2>2. tab \in [Browsers -> TabRecords]
    BY Constants DEF AccessInit, TabRecords
  <2>3. \A c \in Calls : Good(call[c], sessionRows)
    BY Zenon, FreeGood DEF AccessInit
  <2>4. call \in [Calls -> CallRecords]
    BY Zenon, FreeGood DEF AccessInit, Good
  <2>5. account \in [enabled : BOOLEAN, secret : BOOLEAN]
    <3>1. PICK on \in BOOLEAN : account = [enabled |-> on, secret |-> on]
      BY Zenon DEF AccessInit
    <3> QED BY Zenon, <3>1
  <2>6. rotatedFrom \in [SessionIds -> 0 .. MaxSessions] /\ ElevationRotates
    BY Zenon, Constants DEF AccessInit, ElevationRotates
  <2>7. trouble \in 0 .. MaxTrouble
    BY Constants DEF AccessInit
  <2> QED BY Zenon, <2>1, <2>2, <2>3, <2>4, <2>5, <2>6, <2>7 DEF SignInInv
<1>2. SignInInv /\ [AccessNext]_accessVars => SignInInv'
  BY Zenon, SignInStep
<1> QED BY <1>1, <1>2, PTL DEF AccessSpec

(* No session is promoted: whoever shows the second factor gets another       *)
(* session, and the one that waited is over and stays over, whatever else     *)
(* happens to either (completeMfa).                                           *)
THEOREM ElevationHolds == AccessSpec => []ElevationRotates
<1>1. SignInInv => ElevationRotates
  BY Zenon DEF SignInInv
<1> QED BY <1>1, SignInHolds, PTL

(* The rows, the tabs and the requests keep their types in every handler. *)
THEOREM AccessTypes == AccessSpec => []AccessTypeOK
<1>1. SignInInv /\ CodesInv => AccessTypeOK
  <2> SUFFICES ASSUME SignInInv, CodesInv PROVE AccessTypeOK
    OBVIOUS
  <2>1. codeRows \subseteq RecoveryCodes
    BY AccessAssumption DEF CodesInv, RecoveryCodes
  <2>2. ASSUME NEW c \in Calls
        PROVE  /\ call[c].op \in Operations \cup {"none"} /\ call[c].from \in Browsers \cup {Nobody}
               /\ call[c].cookie \in 0 .. MaxSessions /\ call[c].csrf \in CsrfTokens
               /\ call[c].code \in SubmittedCodes \cup {NoCode}
               /\ call[c].stage \in {"free", "sent", "answered"} \cup Underway
               /\ call[c].sess \in 0 .. MaxSessions /\ call[c].new \in 0 .. MaxSessions
               /\ call[c].mfa \in BOOLEAN /\ call[c].status \in Statuses
    BY Zenon DEF SignInInv, CallRecords
  <2> QED BY Zenon, <2>1, <2>2 DEF AccessTypeOK, SignInInv, CodesInv, SessionRecords, TabRecords
<1> QED BY <1>1, SignInHolds, CodesHold, PTL

-----------------------------------------------------------------------------
(*****************************************************************************)
(* LOG STREAMS. For any number of viewers, attempts and upsets.              *)
(*****************************************************************************)

(* Where the handler of a stream can be. *)
StreamStages == {"none", "resolving", "recording", "running", "failing", "closing", "done"}

(* What the agent can be doing for it. *)
ReaderStages == {"none", "asked", "reading", "over"}

(* What is in the trail of a stream follows from how far its handler is and   *)
(* from whether a write of it failed; only streams whose handler records or   *)
(* runs are active, and none is carried to the agent, or read by it, before   *)
(* its opening is recorded.                                                   *)
TrailOf(r) ==
  /\ openedLog[r] \in {0, 1} /\ closedLog[r] \in {0, 1}
  /\ serving[r] \in {"none", "resolving", "recording"} =>
       openedLog[r] = 0 /\ closedLog[r] = 0 /\ r \notin unwritten /\ reader[r] = "none"
  /\ serving[r] \in {"running", "failing", "closing"} =>
       closedLog[r] = 0 /\ (openedLog[r] = 1 \/ r \in unwritten)
  /\ serving[r] = "done" => closedLog[r] = openedLog[r] \/ r \in unwritten
  /\ reader[r] # "none" => openedLog[r] = 1 \/ r \in unwritten

ListedOf(r) ==
  /\ r \in active => serving[r] \in {"recording", "running"}
  /\ r \in carried => serving[r] \notin {"none", "resolving", "recording"}

(* The part of the state the argument is about, typed.                        *)
TrailTyped ==
  /\ serving \in [Attempts -> StreamStages]
  /\ openedLog \in [Attempts -> Nat] /\ closedLog \in [Attempts -> Nat]
  /\ active \subseteq Attempts /\ carried \subseteq Attempts
  /\ reader \in [Attempts -> ReaderStages]

(* A step that writes nothing, and begins no reader. *)
TrailKept ==
  /\ UNCHANGED <<openedLog, closedLog, unwritten>>
  /\ reader' \in [Attempts -> ReaderStages]
  /\ \A r \in Attempts : reader'[r] # "none" => reader[r] # "none"

TrailInv == TrailTyped /\ \A r \in Attempts : TrailOf(r) /\ ListedOf(r)

(* The handler of no stream moves but by these: nothing happens to it, or it  *)
(* was running and finish begins to close it.                                 *)
LEMMA EndedKeeps ==
  ASSUME TrailInv, NEW fs, Ended(fs), carried' \subseteq carried,
         fs \cap active \subseteq {r \in Attempts : serving[r] = "running"},
         TrailKept
  PROVE  TrailInv'
<1>1. TrailTyped'
  BY DEF TrailInv, TrailTyped, TrailKept, Ended, Finished, StreamStages
<1>2. ASSUME NEW r \in Attempts PROVE (TrailOf(r) /\ ListedOf(r))'
  <2>1. TrailOf(r) /\ ListedOf(r)
    BY SMTT(60) DEF TrailInv
  <2>2. CASE r \in Finished(fs)
    <3>1. serving[r] = "running" /\ serving'[r] = "closing" /\ r \notin active'
      BY SMTT(60), <2>2 DEF Ended, Finished
    <3> QED
      BY SMTT(60), <2>1, <3>1 DEF TrailOf, ListedOf, TrailKept
  <2>3. CASE r \notin Finished(fs)
    <3>1. serving'[r] = serving[r] /\ (r \in active' => r \in active)
      BY SMTT(60), <2>3 DEF Ended, Finished
    <3> QED
      BY SMTT(60), <2>1, <3>1 DEF TrailOf, ListedOf, TrailKept
  <2> QED
    BY <2>2, <2>3
<1> QED
  BY SMTT(60), <1>1, <1>2 DEF TrailInv

(* A handler that moves on by itself: what else it changes is its own.        *)
LEMMA HandlerKeeps ==
  ASSUME TrailInv, NEW r \in Attempts, NEW st \in StreamStages,
         serving' = [serving EXCEPT ![r] = st],
         TrailTyped', TrailOf(r)', ListedOf(r)',
         \A q \in Attempts \ {r} : /\ openedLog'[q] = openedLog[q]
                                   /\ closedLog'[q] = closedLog[q]
                                   /\ q \in unwritten' <=> q \in unwritten
                                   /\ reader'[q] = reader[q]
                                   /\ q \in active' => q \in active
                                   /\ q \in carried' => q \in carried
  PROVE  TrailInv'
<1>1. ASSUME NEW q \in Attempts, q # r PROVE (TrailOf(q) /\ ListedOf(q))'
  <2>1. TrailOf(q) /\ ListedOf(q) /\ serving'[q] = serving[q]
    BY <1>1 DEF TrailInv, TrailTyped
  <2> QED
    BY SMTT(60), <1>1, <2>1 DEF TrailOf, ListedOf
<1> QED
  BY SMTT(60), <1>1 DEF TrailInv

(* No step of a tab, a handler, the agent or the connection puts a trail out  *)
(* of order.                                                                  *)
LEMMA TrailStep == TrailInv /\ [LogStreamsNext]_streamVars => TrailInv'
<1> SUFFICES ASSUME TrailInv, [LogStreamsNext]_streamVars PROVE TrailInv'
  OBVIOUS
<1>a. TrailTyped /\ \A r \in Attempts : TrailOf(r) /\ ListedOf(r)
  BY DEF TrailInv
<1>b. \A r \in Attempts : r \in active /\ r \in carried => serving[r] = "running"
  BY <1>a DEF ListedOf
<1>c. \A r \in Attempts : serving[r] \in StreamStages
  BY SMTT(60), <1>a DEF TrailTyped
<1>d. ASSUME UNCHANGED <<serving, active, carried>>, TrailKept PROVE TrailInv'
  BY SMTT(60), <1>a, <1>d DEF TrailInv, TrailTyped, TrailOf, ListedOf, TrailKept
<1>h. UNCHANGED <<trail, reader>> => TrailKept
  BY SMTT(60), <1>a DEF TrailTyped, TrailKept, trail
<1>i. UNCHANGED trail /\ reader' = Dropped => TrailKept
  BY SMTT(60), <1>a DEF TrailTyped, TrailKept, trail, Dropped, ReaderStages
<1>e. ASSUME NEW r \in Attempts, finishStream(r), serving[r] = "running",
             TrailKept
      PROVE  TrailInv'
  <2>1. {r} \cap active \subseteq {q \in Attempts : serving[q] = "running"}
    BY <1>e
  <2>2. Ended({r}) /\ carried' \subseteq carried
    BY SMTT(60), <1>e DEF finishStream
  <2> QED
    BY SMTT(60), <1>e, <2>1, <2>2, EndedKeeps
<1>f. ASSUME NEW rs, endStreams(rs), TrailKept PROVE TrailInv'
  <2>1. (rs \cap carried) \cap active \subseteq {q \in Attempts : serving[q] = "running"}
    BY <1>a, <1>b DEF TrailTyped
  <2>2. Ended(rs \cap carried) /\ carried' \subseteq carried
    BY <1>f DEF endStreams
  <2> QED
    BY SMTT(60), <1>f, <2>1, <2>2, EndedKeeps
<1>g. ASSUME Ended(carried), carried' = {}, TrailKept PROVE TrailInv'
  <2>1. carried \cap active \subseteq {q \in Attempts : serving[q] = "running"}
    BY <1>a, <1>b DEF TrailTyped
  <2>2. carried' \subseteq carried
    BY SMTT(60), <1>g
  <2> QED
    BY SMTT(60), <1>g, <2>1, <2>2, EndedKeeps
<1>1. ASSUME NEW v \in Viewers, disconnectTab(v) PROVE TrailInv'
  <2>1. CASE shows[v] # NoAttempt /\ serving[shows[v]] = "running" /\ shows[v] \in Attempts
    BY SMTT(60), <1>1, <2>1, <1>e, <1>h DEF disconnectTab, Leaves
  <2>2. CASE shows[v] \notin Attempts /\ shows[v] # NoAttempt /\ serving[shows[v]] = "running"
    <3>1. Ended({shows[v]}) /\ carried' \subseteq carried /\ TrailKept
      BY SMTT(60), <1>1, <2>2, <1>h DEF disconnectTab, Leaves, finishStream
    <3>2. {shows[v]} \cap active \subseteq {q \in Attempts : serving[q] = "running"}
      BY SMTT(60), <1>a, <2>2 DEF TrailTyped
    <3> QED
      BY SMTT(60), <3>1, <3>2, EndedKeeps
  <2>3. CASE ~(shows[v] # NoAttempt /\ serving[shows[v]] = "running")
    BY SMTT(60), <1>1, <2>3, <1>d, <1>h DEF disconnectTab, Leaves
  <2> QED
    BY SMTT(60), <2>1, <2>2, <2>3
<1>2. ASSUME NEW v \in Viewers, NEW r \in Attempts, connectTab(v, r) PROVE TrailInv'
  <2>1. /\ serving' = [serving EXCEPT ![r] = "resolving"] /\ serving[r] = "none"
        /\ UNCHANGED <<active, carried, openedLog, closedLog, unwritten, reader>>
    BY <1>2 DEF connectTab, trail
  <2>2. TrailTyped' /\ TrailOf(r)' /\ ListedOf(r)'
    BY <1>a, <2>1 DEF TrailTyped, TrailOf, ListedOf, StreamStages
  <2> QED
    BY Zenon, <2>1, <2>2, HandlerKeeps DEF StreamStages
<1>3. ASSUME NEW r \in Attempts, openStream(r) PROVE TrailInv'
  <2>1. /\ serving[r] = "resolving"
        /\ \/ active' = active \cup {r} /\ serving' = [serving EXCEPT ![r] = "recording"]
           \/ active' = active /\ serving' = [serving EXCEPT ![r] = "done"]
        /\ UNCHANGED <<carried, openedLog, closedLog, unwritten, reader>>
    BY SMTT(60), <1>3 DEF openStream, trail
  <2>2. TrailTyped' /\ TrailOf(r)' /\ ListedOf(r)'
    BY SMTT(60), <1>a, <2>1 DEF TrailTyped, TrailOf, ListedOf, StreamStages
  <2> QED
    BY <2>1, <2>2, HandlerKeeps DEF StreamStages
<1>4. ASSUME NEW r \in Attempts, recordOpened(r) PROVE TrailInv'
  <2>1. /\ serving[r] = "recording" /\ closedLog' = closedLog
        /\ \/ openedLog' = [openedLog EXCEPT ![r] = @ + 1] /\ unwritten' = unwritten
           \/ openedLog' = openedLog /\ unwritten' = unwritten \cup {r}
    BY Zenon, <1>4 DEF recordOpened, Entry
  <2>2. \/ /\ serving' = [serving EXCEPT ![r] = "running"]
           /\ carried' = carried \cup {r} /\ active' = active
           /\ reader' = [reader EXCEPT ![r] = "asked"]
        \/ /\ serving' = [serving EXCEPT ![r] = "failing"]
           /\ active' = active \ {r} /\ carried' = carried /\ reader' = reader
    BY Zenon, <1>4 DEF recordOpened
  <2>3. TrailTyped' /\ TrailOf(r)' /\ ListedOf(r)'
    BY SMTT(60), <1>a, <2>1, <2>2 DEF TrailTyped, TrailOf, ListedOf, StreamStages, ReaderStages
  <2>4. \A q \in Attempts \ {r} : /\ openedLog'[q] = openedLog[q] /\ closedLog'[q] = closedLog[q]
                                  /\ q \in unwritten' <=> q \in unwritten
                                  /\ reader'[q] = reader[q]
                                  /\ q \in active' => q \in active
                                  /\ q \in carried' => q \in carried
    BY SMTT(60), <1>a, <2>1, <2>2 DEF TrailTyped
  <2> QED
    BY SMTT(60), <2>1, <2>2, <2>3, <2>4, HandlerKeeps DEF StreamStages
<1>5. ASSUME NEW r \in Attempts, recordClosed(r) PROVE TrailInv'
  <2>1. /\ serving[r] \in {"closing", "failing"} /\ serving' = [serving EXCEPT ![r] = "done"]
        /\ \/ closedLog' = [closedLog EXCEPT ![r] = @ + 1] /\ unwritten' = unwritten
           \/ closedLog' = closedLog /\ unwritten' = unwritten \cup {r}
        /\ UNCHANGED <<active, carried, openedLog, reader>>
    BY Zenon, <1>5 DEF recordClosed, Entry
  <2>2. TrailTyped' /\ TrailOf(r)' /\ ListedOf(r)'
    BY SMTT(60), <1>a, <2>1 DEF TrailTyped, TrailOf, ListedOf, StreamStages
  <2>3. \A q \in Attempts \ {r} : /\ openedLog'[q] = openedLog[q] /\ closedLog'[q] = closedLog[q]
                                  /\ q \in unwritten' <=> q \in unwritten
                                  /\ reader'[q] = reader[q]
                                  /\ q \in active' => q \in active
                                  /\ q \in carried' => q \in carried
    BY SMTT(60), <1>a, <2>1 DEF TrailTyped
  <2> QED
    BY Zenon, <2>1, <2>2, <2>3, HandlerKeeps DEF StreamStages
<1>6. ASSUME NEW r \in Attempts, revalidate(r) \/ lifetime(r) \/ overflow(r) PROVE TrailInv'
  BY Zenon, <1>6, <1>e, <1>h DEF revalidate, lifetime, overflow, StreamOver
<1>7. ASSUME NEW r \in Attempts, acceptTimeout(r) \/ streamEnds(r) PROVE TrailInv'
  <2>1. TrailKept
    BY SMTT(60), <1>7, <1>a DEF acceptTimeout, streamEnds, TrailTyped, TrailKept, trail, ReaderStages
  <2> QED
    BY Zenon, <1>7, <1>f, <2>1 DEF acceptTimeout, streamEnds
<1>8. ASSUME NEW r \in Attempts, handleStream(r) \/ cancelArrives(r) PROVE TrailInv'
  <2>1. TrailKept
    BY SMTT(60), <1>8, <1>a DEF handleStream, cancelArrives, TrailTyped, TrailKept, trail, ReaderStages
  <2> QED
    BY Zenon, <1>8, <1>d, <2>1 DEF handleStream, cancelArrives
<1>9. ASSUME linkLost \/ endStreamsOfAgent PROVE TrailInv'
  BY Zenon, <1>9, <1>g, <1>i DEF linkLost, endStreamsOfAgent
<1>10. ASSUME linkRestored \/ \E u \in Operators : withdraw(u) PROVE TrailInv'
  BY Zenon, <1>10, <1>d, <1>h DEF linkRestored, withdraw
<1>11. ASSUME UNCHANGED streamVars PROVE TrailInv'
  BY Zenon, <1>11, <1>d, <1>h DEF streamVars, trail
<1> QED
  BY Zenon, <1>1, <1>2, <1>3, <1>4, <1>5, <1>6, <1>7, <1>8, <1>9, <1>10, <1>11
  DEF LogStreamsNext, Handler

(* For any number of viewers and attempts, any limits and however often the   *)
(* agent goes, rights are withdrawn or an entry cannot be written: no entry   *)
(* is written twice, a log the agent was asked for has its opening recorded   *)
(* before and a handler that is through has recorded both ends or neither,    *)
(* but for those the log has a warning of (record, finish, the catch of       *)
(* open).                                                                     *)
THEOREM TrailHolds == LogStreamsSpec => []TrailInOrder
<1>1. LogStreamsInit => TrailInv
  BY SMTT(60) DEF LogStreamsInit, TrailInv, TrailTyped, TrailOf, ListedOf, StreamStages, ReaderStages
<1>2. TrailInv => TrailInOrder
  BY DEF TrailInv, TrailTyped, TrailOf, TrailInOrder, StreamStages
<1> QED
  BY <1>1, <1>2, TrailStep, PTL DEF LogStreamsSpec

-----------------------------------------------------------------------------
(*****************************************************************************)
(* GATEWAY. The connection itself.                                           *)
(*****************************************************************************)

(* The inductive invariant. *)

(* The part of the state the arguments are about, typed. *)
Typed ==
  /\ sock \in [Conns -> SockStates]
  /\ registered \in Conns \cup {None}
  /\ waiting \in [Work -> Conns \cup {None}]
  /\ session \in Conns \cup {None}
  /\ job \in [Work -> JobStates]
  /\ arrived \in [Work -> Conns \cup {None}]

(* Outside a session there is no handler: readLoop waits for them all, and a  *)
(* process that dies takes them along.                                        *)
Quiet == loop \in {"down", "exited", "panicked"} => \A w \in Work : job[w] = "none"

Inv == Typed /\ Quiet /\ OnOwnConnection /\ NothingWaitsOnClosed

USE DEF memory, db, wire, agent

-----------------------------------------------------------------------------
(* A step of the server does not touch the agent's handlers. *)
LEMMA ServerFrame ==
  ASSUME \/ \E k \in Conns : ServerStep(k) \/ Close(k)
         \/ revoke \/ disconnect \/ ServerRestart
         \/ \E w \in Work : request(w) \/ TimeOut(w)
         \/ \E s \in Streams : cancelStream(s)
  PROVE  UNCHANGED <<loop, session, job, arrived>>
  BY ZenonT(60) DEF ServerStep, resolveIdentity, Refuse, onHello, Greet, touch, onRenewal, settle,
         Unmatched, onStreamMessage, Close, revoke, disconnect, ServerRestart, request,
         TimeOut, cancelStream

(* A step of the agent or of the network does not touch the server's callers, *)
(* and the only socket it changes is one it opens.                            *)
LEMMA AgentFrame ==
  ASSUME Typed,
         \/ \E k \in Conns : Dial(k) \/ Cut(k)
         \/ \E w \in Work : handleRequest(w) \/ reply(w)
         \/ Receive \/ heartbeat \/ requestRenewal \/ ReadFails \/ Leave
         \/ Restarted \/ AgentCrash
  PROVE  /\ UNCHANGED <<waiting, registered>>
         /\ sock' \in [Conns -> SockStates]
         /\ \A k \in Conns : sock'[k] = sock[k] \/ sock'[k] = "open"
<1>1. ASSUME NEW k \in Conns, Dial(k)
      PROVE  /\ UNCHANGED <<waiting, registered>>
             /\ sock' = [sock EXCEPT ![k] = "open"]
  BY Zenon, <1>1 DEF Dial
<1>2. ASSUME \/ \E k \in Conns : Cut(k)
             \/ \E w \in Work : handleRequest(w) \/ reply(w)
             \/ Receive \/ heartbeat \/ requestRenewal \/ ReadFails \/ Leave
             \/ Restarted \/ AgentCrash
      PROVE  UNCHANGED <<waiting, registered, sock>>
  BY Zenon, <1>2 DEF Cut, handleRequest, reply, Receive, Take, heartbeat, requestRenewal,
              ReadFails, Dies, Leave, Restarted, AgentCrash
<1>3. CASE \E k \in Conns : Dial(k)
  BY Zenon, <1>1, <1>3 DEF Typed, SockStates
<1>4. CASE UNCHANGED <<waiting, registered, sock>>
  BY Zenon, <1>4 DEF Typed
<1> QED BY Zenon, <1>2, <1>3, <1>4

(* Whoever stops waiting waits for nothing, everybody else waits as before. *)
LEMMA SettledType ==
  ASSUME Typed, NEW ws, Settled(ws)
  PROVE  /\ waiting' \in [Work -> Conns \cup {None}]
         /\ \A w \in Work : waiting'[w] # None => waiting'[w] = waiting[w] /\ w \notin ws
  BY Zenon DEF Typed, Settled

-----------------------------------------------------------------------------
(* A step of the server keeps the invariant. *)
LEMMA ServerKeeps ==
  ASSUME Inv, UNCHANGED <<loop, session, job, arrived>>,
         \/ \E k \in Conns : ServerStep(k) \/ Close(k)
         \/ revoke \/ disconnect \/ ServerRestart
         \/ \E w \in Work : request(w) \/ TimeOut(w)
         \/ \E s \in Streams : cancelStream(s)
  PROVE  Inv'
<1>0. Typed /\ Quiet /\ OnOwnConnection /\ NothingWaitsOnClosed
  BY Zenon DEF Inv
<1>1. Quiet' /\ OnOwnConnection'
  BY Zenon, <1>0 DEF Quiet, OnOwnConnection
<1>2. SUFFICES /\ sock' \in [Conns -> SockStates]
               /\ registered' \in Conns \cup {None}
               /\ waiting' \in [Work -> Conns \cup {None}]
               /\ NothingWaitsOnClosed'
  BY Zenon, <1>0, <1>1 DEF Inv, Typed
<1>3. ASSUME /\ UNCHANGED <<waiting, registered>>
             /\ \/ UNCHANGED sock
                \/ \E k \in Conns : sock' = [sock EXCEPT ![k] = IF @ = "open" THEN "ending" ELSE @]
      PROVE  /\ sock' \in [Conns -> SockStates]
             /\ registered' \in Conns \cup {None}
             /\ waiting' \in [Work -> Conns \cup {None}]
             /\ NothingWaitsOnClosed'
  BY ZenonT(60), <1>0, <1>3 DEF Typed, SockStates, NothingWaitsOnClosed
<1>4. ASSUME NEW ws, Settled(ws), UNCHANGED registered,
             \/ UNCHANGED sock
             \/ \E k \in Conns : sock' = [sock EXCEPT ![k] = IF @ = "ending" THEN "destroyed" ELSE @]
      PROVE  /\ sock' \in [Conns -> SockStates]
             /\ registered' \in Conns \cup {None}
             /\ waiting' \in [Work -> Conns \cup {None}]
             /\ NothingWaitsOnClosed'
  <2>1. \A k \in Conns : sock'[k] = "closed" => sock[k] = "closed"
    BY Zenon, <1>0, <1>4 DEF Typed, SockStates
  <2>2. sock' \in [Conns -> SockStates]
    BY Zenon, <1>0, <1>4 DEF Typed, SockStates
  <2> QED BY SMTT(60), <1>0, <1>4, <2>1, <2>2, SettledType DEF Typed, NothingWaitsOnClosed
<1>5. ASSUME NEW k \in Conns, \/ resolveIdentity(k) \/ Refuse(k) \/ Greet(k) \/ touch(k)
                              \/ onRenewal(k) \/ Unmatched(k)
      PROVE  /\ UNCHANGED <<waiting, registered>>
             /\ \/ UNCHANGED sock
                \/ sock' = [sock EXCEPT ![k] = IF @ = "open" THEN "ending" ELSE @]
  BY Zenon, <1>5 DEF resolveIdentity, Refuse, Greet, touch, onRenewal, Unmatched, fail
<1>6. CASE \E k \in Conns : \/ resolveIdentity(k) \/ Refuse(k) \/ Greet(k) \/ touch(k)
                            \/ onRenewal(k) \/ Unmatched(k)
  BY Zenon, <1>3, <1>5, <1>6
<1>7. CASE revoke
  BY Zenon, <1>3, <1>7 DEF revoke
<1>8. CASE \E k \in Conns : onHello(k)
  <2> PICK k \in Conns : onHello(k)
    BY Zenon, <1>8
  <2>1. /\ registered' = k /\ UNCHANGED waiting
        /\ sock' = [j \in Conns |-> IF j = registered /\ j # k /\ sock[j] # "closed"
                                      THEN "destroyed" ELSE sock[j]]
    BY Zenon DEF onHello
  <2> QED BY Zenon, <1>0, <2>1 DEF Typed, SockStates, NothingWaitsOnClosed
<1>9. CASE \E k \in Conns : settle(k)
  <2> PICK k \in Conns : settle(k)
    BY Zenon, <1>9
  <2>1. UNCHANGED <<sock, registered>> /\ \E ws : Settled(ws)
    BY Zenon DEF settle
  <2> QED BY Zenon, <1>4, <2>1
<1>10. CASE \E k \in Conns : onStreamMessage(k)
  <2> PICK k \in Conns : onStreamMessage(k)
    BY Zenon, <1>10
  <2>1. UNCHANGED <<sock, registered>> /\ (UNCHANGED waiting \/ \E ws : Settled(ws))
    BY Zenon DEF onStreamMessage
  <2> QED BY Zenon, <1>3, <1>4, <2>1
<1>11. CASE \E k \in Conns : Close(k)
  <2> PICK k \in Conns : Close(k)
    BY Zenon, <1>11
  <2>1. /\ sock' = [sock EXCEPT ![k] = "closed"]
        /\ registered' \in {registered, None}
        /\ Settled({w \in Work : waiting[w] = k})
    BY Zenon DEF Close, abandon
  <2>2. \A w \in Work : waiting'[w] # None => waiting'[w] = waiting[w] /\ waiting[w] # k
    BY <1>0, <2>1, SettledType
  <2>3. waiting' \in [Work -> Conns \cup {None}]
    BY Zenon, <1>0, <2>1, SettledType
  <2> QED BY Zenon, <1>0, <2>1, <2>2, <2>3 DEF Typed, SockStates, NothingWaitsOnClosed
<1>12. CASE disconnect
  <2>1. /\ registered' = None
        /\ sock' = [k \in Conns |-> IF k = registered /\ sock[k] # "closed"
                                      THEN "destroyed" ELSE sock[k]]
        /\ Settled({s \in Streams : waiting[s] # None})
    BY Zenon, <1>12 DEF disconnect
  <2>2. waiting' \in [Work -> Conns \cup {None}]
        /\ \A w \in Work : waiting'[w] # None => waiting'[w] = waiting[w]
    BY Zenon, <1>0, <2>1, SettledType
  <2> QED BY Zenon, <1>0, <2>1, <2>2 DEF Typed, SockStates, NothingWaitsOnClosed
<1>13. CASE ServerRestart
  <2>1. /\ registered' = None /\ sock' = [k \in Conns |-> "closed"]
        /\ Settled({w \in Work : waiting[w] # None})
    BY Zenon, <1>13 DEF ServerRestart
  <2>2. waiting' \in [Work -> Conns \cup {None}] /\ \A w \in Work : waiting'[w] = None
    BY Zenon, <1>0, <2>1 DEF Settled, Typed
  <2> QED BY Zenon, <2>1, <2>2 DEF SockStates, NothingWaitsOnClosed
<1>14. CASE \E w \in Work : request(w)
  <2> PICK w \in Work : request(w)
    BY Zenon, <1>14
  <2>1. /\ registered \in Conns /\ UNCHANGED registered
        /\ sock' = [sock EXCEPT ![registered] = IF @ = "ending" THEN "destroyed" ELSE @]
        /\ \/ UNCHANGED waiting
           \/ /\ sock[registered] = "open"
              /\ waiting' = [waiting EXCEPT ![w] = registered]
    BY Zenon, <1>0 DEF request, Written, Typed
  <2> QED BY <1>0, <2>1 DEF Typed, SockStates, NothingWaitsOnClosed
<1>15. CASE \E w \in Work : TimeOut(w)
  <2>1. UNCHANGED <<sock, registered>> /\ \E ws : Settled(ws)
    BY Zenon, <1>15 DEF TimeOut
  <2> QED BY Zenon, <1>4, <2>1
<1>16. CASE \E s \in Streams : cancelStream(s)
  <2> PICK s \in Streams : cancelStream(s)
    BY Zenon, <1>16
  <2>1. /\ waiting[s] \in Conns /\ Settled({s}) /\ UNCHANGED registered
        /\ sock' = [sock EXCEPT ![waiting[s]] = IF @ = "ending" THEN "destroyed" ELSE @]
    BY Zenon, <1>0 DEF cancelStream, Written, Typed, Work
  <2> QED BY Zenon, <1>4, <2>1
<1> QED
  BY Zenon, <1>6, <1>7, <1>8, <1>9, <1>10, <1>11, <1>12, <1>13, <1>14, <1>15, <1>16 DEF ServerStep

(* A step of the agent or of the network keeps it. *)
LEMMA AgentKeeps ==
  ASSUME Inv,
         \/ \E k \in Conns : Dial(k) \/ Cut(k)
         \/ \E w \in Work : handleRequest(w) \/ reply(w)
         \/ Receive \/ heartbeat \/ requestRenewal \/ ReadFails \/ Leave
         \/ Restarted \/ AgentCrash
  PROVE  Inv'
<1>0. Typed /\ Quiet /\ OnOwnConnection /\ NothingWaitsOnClosed
  BY Zenon DEF Inv
<1>1. /\ sock' \in [Conns -> SockStates] /\ registered' \in Conns \cup {None}
      /\ waiting' \in [Work -> Conns \cup {None}] /\ NothingWaitsOnClosed'
  BY ZenonT(60), <1>0, AgentFrame DEF Typed, NothingWaitsOnClosed
<1>2. SUFFICES /\ session' \in Conns \cup {None}
               /\ job' \in [Work -> JobStates]
               /\ arrived' \in [Work -> Conns \cup {None}]
               /\ Quiet' /\ OnOwnConnection'
  BY Zenon, <1>1 DEF Inv, Typed
<1>3. ASSUME UNCHANGED <<session, job, arrived>>,
             \A w \in Work : loop' \in {"down", "exited", "panicked"} => job[w] = "none"
      PROVE  /\ session' \in Conns \cup {None}
             /\ job' \in [Work -> JobStates]
             /\ arrived' \in [Work -> Conns \cup {None}]
             /\ Quiet' /\ OnOwnConnection'
  BY Zenon, <1>0, <1>3 DEF Typed, Quiet, OnOwnConnection
<1>4. ASSUME NEW w \in Work, UNCHANGED <<loop, session>>, Over(w)
      PROVE  /\ session' \in Conns \cup {None}
             /\ job' \in [Work -> JobStates]
             /\ arrived' \in [Work -> Conns \cup {None}]
             /\ Quiet' /\ OnOwnConnection'
  BY Zenon, <1>0, <1>4 DEF Over, Typed, JobStates, Quiet, OnOwnConnection
<1>5. ASSUME NEW l, Dies(l)
      PROVE  /\ session' \in Conns \cup {None}
             /\ job' \in [Work -> JobStates]
             /\ arrived' \in [Work -> Conns \cup {None}]
             /\ Quiet' /\ OnOwnConnection'
  BY Zenon, <1>5 DEF Dies, JobStates, Quiet, OnOwnConnection
<1>6. CASE \E k \in Conns : Dial(k)
  <2> PICK k \in Conns : Dial(k)
    BY Zenon, <1>6
  <2>1. loop = "down" /\ session' = k /\ loop' = "up" /\ UNCHANGED <<job, arrived>>
    BY Zenon DEF Dial
  <2>2. \A w \in Work : job[w] = "none"
    BY Zenon, <1>0, <2>1 DEF Quiet
  <2> QED BY Zenon, <1>0, <2>1, <2>2 DEF Typed, Quiet, OnOwnConnection
<1>7. CASE (\E k \in Conns : Cut(k)) \/ heartbeat \/ requestRenewal
  <2>1. UNCHANGED <<loop, session, job, arrived>>
    BY Zenon, <1>7 DEF Cut, heartbeat, requestRenewal
  <2> QED BY Zenon, <1>0, <1>3, <2>1 DEF Quiet
<1>8. CASE \E w \in Work : handleRequest(w)
  <2> PICK w \in Work : handleRequest(w)
    BY Zenon, <1>8
  <2>1. job[w] = "spawned" /\ UNCHANGED <<loop, session>>
    BY Zenon DEF handleRequest
  <2>2. Over(w) \/ (job' = [job EXCEPT ![w] = "running"] /\ UNCHANGED arrived)
    BY Zenon DEF handleRequest
  <2>3. CASE job' = [job EXCEPT ![w] = "running"] /\ UNCHANGED arrived
    BY Zenon, <1>0, <2>1, <2>3 DEF Typed, JobStates, Quiet, OnOwnConnection
  <2> QED BY Zenon, <1>4, <2>1, <2>2, <2>3
<1>9. CASE \E w \in Work : reply(w)
  BY Zenon, <1>4, <1>9 DEF reply
<1>10. CASE Receive
  <2> PICK m \in ToAgent : Take(m) /\ (onAck(m) \/ onRequest(m) \/ onCancel(m) \/ onError(m)
                                         \/ onRenewed(m))
    BY Zenon, <1>10 DEF Receive
  <2>1. loop = "up" /\ UNCHANGED session
    BY Zenon DEF Take
  <2>2. CASE onAck(m) \/ onError(m) \/ onRenewed(m)
    <3>1. UNCHANGED <<job, arrived>> /\ loop' \in {"up", "refused", "leaving"}
      BY Zenon, <2>1, <2>2 DEF onAck, onError, onRenewed
    <3> QED BY Zenon, <1>3, <2>1, <3>1
  <2>3. CASE onRequest(m)
    <3>1. m.x \in Work
      BY Zenon, <2>3 DEF onRequest, ToAgent
    <3> QED BY Zenon, <1>0, <2>1, <2>3, <3>1
               DEF onRequest, Typed, JobStates, Quiet, OnOwnConnection
  <2>4. CASE onCancel(m)
    <3>1. m.x \in Work
      BY Zenon, <2>4 DEF onCancel, ToAgent
    <3> QED BY Zenon, <1>0, <2>1, <2>4, <3>1
               DEF onCancel, Typed, JobStates, Quiet, OnOwnConnection
  <2> QED BY Zenon, <2>2, <2>3, <2>4
<1>11. CASE ReadFails
  <2>1. \/ loop' = "leaving" /\ UNCHANGED <<session, job, arrived>>
        \/ Dies("panicked")
    BY Zenon, <1>11 DEF ReadFails
  <2> QED BY Zenon, <1>3, <1>5, <2>1
<1>12. CASE Leave
  <2>1. session' = None /\ (\A w \in Work : job[w] = "none") /\ UNCHANGED <<job, arrived>>
    BY Zenon, <1>12 DEF Leave
  <2> QED BY Zenon, <1>0, <2>1 DEF Typed, Quiet, OnOwnConnection
<1>13. CASE Restarted
  <2>1. loop = "panicked" /\ UNCHANGED <<session, job, arrived>>
    BY Zenon, <1>13 DEF Restarted
  <2> QED BY Zenon, <1>0, <1>3, <2>1 DEF Quiet
<1>14. CASE AgentCrash
  BY Zenon, <1>5, <1>14 DEF AgentCrash
<1> QED
  BY Zenon, <1>6, <1>7, <1>8, <1>9, <1>10, <1>11, <1>12, <1>13, <1>14

(* The invariant holds before anything has connected. *)
LEMMA InitInv ==
  ASSUME Init
  PROVE  Inv
  BY Zenon DEF Init, Inv, Typed, Quiet, OnOwnConnection, NothingWaitsOnClosed, SockStates, JobStates

(* Every step of the gateway keeps it. *)
LEMMA NextInv ==
  ASSUME Inv, [Next]_vars
  PROVE  Inv'
<1>1. CASE UNCHANGED vars
  BY Zenon, <1>1 DEF vars, Inv, Typed, Quiet, OnOwnConnection, NothingWaitsOnClosed
<1>2. CASE \/ \E k \in Conns : ServerStep(k) \/ Close(k)
           \/ revoke \/ disconnect \/ ServerRestart
           \/ \E w \in Work : request(w) \/ TimeOut(w)
           \/ \E s \in Streams : cancelStream(s)
  BY Zenon, <1>2, ServerFrame, ServerKeeps
<1>3. CASE \/ \E k \in Conns : Dial(k) \/ Cut(k)
           \/ \E w \in Work : handleRequest(w) \/ reply(w)
           \/ Receive \/ heartbeat \/ requestRenewal \/ ReadFails \/ Leave
           \/ Restarted \/ AgentCrash
  BY Zenon, <1>3, AgentKeeps
<1> QED BY Zenon, <1>1, <1>2, <1>3 DEF Next

(* A handler's answer, and every message of a stream, is written to the       *)
(* connection its request came from, because the session that accepted it     *)
(* ends only after it (readLoop's wg.Wait, streams.go).                       *)
THEOREM HandlersKeepTheirConnection == Spec => []OnOwnConnection
<1>1. Inv => OnOwnConnection
  BY Zenon DEF Inv
<1> QED BY <1>1, InitInv, NextInv, PTL DEF Spec

(* However connections come and go, nobody waits for an answer or a stream on *)
(* one whose close event has been handled (AgentDispatchService.abandon).     *)
THEOREM NobodyWaitsInVain == Spec => []NothingWaitsOnClosed
<1>1. Inv => NothingWaitsOnClosed
  BY Zenon DEF Inv
<1> QED BY <1>1, InitInv, NextInv, PTL DEF Spec
=============================================================================
