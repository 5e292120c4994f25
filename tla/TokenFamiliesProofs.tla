-------------------------- MODULE TokenFamiliesProofs --------------------------
(***************************************************************************)
(* What TLAPS proves of TokenFamilies, for any number of requests, clients,*)
(* codes, grants and tokens, any lifetimes and any retention windows.      *)
(***************************************************************************)
EXTENDS TokenFamilies, TLAPS

RefreshPlaces == {"begin", "consume", "lookup", "reuse", "readGrant", "readSession", "rotate", "mint"}
Rotating == {"readGrant", "readSession", "rotate"}
CodePlaces == {"codeConsume", "codeLookup", "codeReplay", "codeDecide", "codeInsert", "codeCommit"}
Redeeming == {"codeDecide", "codeInsert", "codeCommit"}

\* Every reference a row or a request holds names a row that was made.
TokenRefs ==
    \A t \in Tokens : token[t].st # "none" =>
        token[t].grant \in Grants /\ grant[token[t].grant].st # "none"
RefreshRefs ==
    \A p \in Requests : pc[p] \in RefreshPlaces =>
        /\ req[p].token \in Tokens
        /\ token[req[p].token].st # "none"
        /\ req[p].grant = token[req[p].token].grant
CodeRefs ==
    \A p \in Requests : pc[p] \in CodePlaces => req[p].code \in Codes

ReapRefs ==
    /\ \A t \in reap.tokens : token[t].st # "none"
    /\ \A g \in reap.grants : grant[g].st # "none"

Typed == TypeOK /\ TokenRefs /\ RefreshRefs /\ CodeRefs /\ ReapRefs

\* A rotation's token is there, unspent and its own, and out of the pass's hands.
TokenHeld ==
    \A p \in Requests : pc[p] \in Rotating =>
        /\ Row(token[req[p].token]) /\ ~token[req[p].token].used
        /\ \A q \in Requests : pc[q] \in Rotating /\ req[q].token = req[p].token => q = p
        /\ reap.stage \notin {"off", "tokens", "tokensLock"} => req[p].token \notin reap.tokens

\* A redemption's code is unspent and its own.
CodeHeld ==
    \A p \in Requests : pc[p] \in Redeeming =>
        /\ code[req[p].code].st # "none" /\ ~code[req[p].code].consumed
        /\ \A q \in Requests : pc[q] \in Redeeming /\ req[q].code = req[p].code => q = p

\* A grant's code is spent, and a code or a grant not made yet is blank.
GrantOrigin ==
    /\ \A c \in Codes : code[c].st = "none" => ~code[c].consumed
    /\ \A g \in Grants :
         /\ grant[g].st # "none" => grant[g].from \in Codes /\ code[grant[g].from].consumed
         /\ grant[g].st = "none" => grant[g].revokedAt = NotRevoked

\* Past the gate, a request's client is the one its grant was issued to.
OwnerRefreshes ==
    \A p \in Requests : pc[p] \in RefreshPlaces => req[p].client = grant[req[p].grant].client

Families ==
    /\ TokenHeld /\ CodeHeld /\ GrantOrigin /\ OwnerRefreshes
    /\ OneUsableToken /\ OneGrantPerCode

IInv == Typed /\ Families

USE DEF NotRevoked

\* The blank rows and the blank request have their types.
LEMMA Blanks ==
    /\ NoSession \in SessionRow /\ NoCode \in CodeRow /\ NoGrant \in GrantRow
    /\ NoToken \in TokenRow /\ NoRequest \in Request
<1>1. NoSession \in SessionRow BY DEF NoSession, SessionRow, RowStates
<1>2. NoCode \in CodeRow BY DEF NoCode, CodeRow, RowStates
<1>3. NoGrant \in GrantRow BY DEF NoGrant, GrantRow, RowStates
<1>4. NoToken \in TokenRow BY DEF NoToken, TokenRow, RowStates
<1>5. NoRequest \in Request BY <1>3 DEF NoRequest, Request, Outcomes, Reasons
<1> QED BY <1>1, <1>2, <1>3, <1>4, <1>5

\* Revoking leaves every grant a grant, made or not as it was.
LEMMA RevokeAllTyped ==
    ASSUME grant \in [Grants -> GrantRow], NEW gs, NEW t \in Nat
    PROVE  /\ RevokeAll(gs, t) \in [Grants -> GrantRow]
           /\ \A g \in Grants :
                /\ RevokeAll(gs, t)[g].st = grant[g].st
                /\ RevokeAll(gs, t)[g].client = grant[g].client
                /\ RevokeAll(gs, t)[g].from = grant[g].from
                /\ Revoked(g) => RevokeAll(gs, t)[g].revokedAt = grant[g].revokedAt
                /\ ~Row(grant[g]) => RevokeAll(gs, t)[g] = grant[g]
BY DEF RevokeAll, GrantRow, Row, Revoked

\* An answered request is a request.
LEMMA AnsweredTyped ==
    ASSUME NEW r \in Request, NEW outcome \in Outcomes, NEW reason \in Reasons
    PROVE  Answered(r, outcome, reason) \in Request
BY Blanks DEF Answered, Request

\* So is one whose transaction has just opened.
LEMMA StartedTyped ==
    ASSUME NEW r \in Request, NEW t \in Nat, NEW ended \in BOOLEAN
    PROVE  /\ [r EXCEPT !.at = t, !.ended = ended] \in Request
           /\ [r EXCEPT !.at = t, !.ended = ended].token = r.token
           /\ [r EXCEPT !.at = t, !.ended = ended].grant = r.grant
BY DEF Request

\* A verdict is "ok" or a reason.
LEMMA RefreshVerdict ==
    ASSUME NEW g, NEW client, NEW e \in BOOLEAN, NEW scope
    PROVE  EvaluateRefreshGrant(g, client, e, scope) \in Reasons \union {"ok"}
BY DEF EvaluateRefreshGrant, Reasons

LEMMA Verdicts ==
    ASSUME enabled \in BOOLEAN
    PROVE  /\ \A client, t, scope, resource : GateVerdict(client, t, scope, resource) \in Reasons \union {"ok"}
           /\ \A p : MintVerdict(p) \in Reasons \union {"ok"}
           /\ \A p : RedeemVerdict(p) \in Reasons \union {"ok"}
<1>1. ASSUME NEW client, NEW t, NEW scope, NEW resource
      PROVE  GateVerdict(client, t, scope, resource) \in Reasons \union {"ok"}
  BY RefreshVerdict DEF GateVerdict, Reasons
<1>2. ASSUME NEW p PROVE MintVerdict(p) \in Reasons \union {"ok"}
  BY RefreshVerdict DEF MintVerdict, MintVerdictUnder, Reasons
<1>3. ASSUME NEW p PROVE RedeemVerdict(p) \in Reasons \union {"ok"}
  BY DEF RedeemVerdict, Reasons
<1> QED BY <1>1, <1>2, <1>3

LEMMA TypedInit == Init => Typed
<1> SUFFICES ASSUME Init PROVE Typed OBVIOUS
<1>1. TypeOK
  BY Blanks DEF Init, TypeOK, Places, NoReap, ReapStages
<1>2. TokenRefs /\ RefreshRefs /\ CodeRefs /\ ReapRefs
  BY DEF Init, TokenRefs, RefreshRefs, CodeRefs, ReapRefs, NoToken, NoReap, RefreshPlaces, CodePlaces
<1> QED BY <1>1, <1>2 DEF Typed

\* A step that only revokes, and moves sessions, keeps the types.
LEMMA RevokingTyped ==
    ASSUME Typed, NEW gs, NEW t \in Nat, grant' = RevokeAll(gs, t),
           session' \in [Sessions -> SessionRow],
           UNCHANGED <<now, enabled, policy, code, token, reap>>,
           pc' \in [Requests -> Places], req' \in [Requests -> Request],
           \A p \in Requests : pc'[p] = "done" \/ (pc'[p] = pc[p] /\ req'[p] = req[p])
    PROVE  Typed'
<1>1. /\ grant' \in [Grants -> GrantRow]
      /\ \A g \in Grants : grant'[g].st = grant[g].st
  <2>1. grant \in [Grants -> GrantRow] BY DEF Typed, TypeOK
  <2>2. /\ RevokeAll(gs, t) \in [Grants -> GrantRow]
        /\ \A g \in Grants : RevokeAll(gs, t)[g].st = grant[g].st
    BY <2>1, RevokeAllTyped
  <2> QED BY <2>2
<1>2. TypeOK' BY <1>1 DEF Typed, TypeOK
<1>3. TokenRefs' BY <1>1 DEF Typed, TokenRefs
<1>4. RefreshRefs' BY DEF Typed, RefreshRefs, RefreshPlaces
<1>5. CodeRefs' BY DEF Typed, CodeRefs, CodePlaces
<1>6. ReapRefs' BY <1>1 DEF Typed, TypeOK, ReapRefs
<1> QED BY <1>2, <1>3, <1>4, <1>5, <1>6 DEF Typed

\* A step of one request that leaves the tables alone keeps the types.
LEMMA RequestStepTyped ==
    ASSUME Typed, NEW p \in Requests, NEW place \in Places, NEW r \in Request,
           pc' = [pc EXCEPT ![p] = place], req' = [req EXCEPT ![p] = r],
           UNCHANGED <<envVars, dbVars, reap>>,
           place \in RefreshPlaces =>
               /\ r.token \in Tokens /\ token[r.token].st # "none"
               /\ r.grant = token[r.token].grant,
           place \in CodePlaces => r.code \in Codes
    PROVE  Typed'
<1>1. TypeOK' BY DEF Typed, TypeOK, envVars, dbVars
<1>2. TokenRefs' BY DEF Typed, TokenRefs, dbVars
<1>3. RefreshRefs' BY DEF Typed, TypeOK, RefreshRefs, dbVars
<1>4. CodeRefs' BY DEF Typed, TypeOK, CodeRefs
<1>5. ReapRefs' BY DEF Typed, ReapRefs, dbVars
<1> QED BY <1>1, <1>2, <1>3, <1>4, <1>5 DEF Typed

LEMMA TypedEnvironment == Typed /\ Environment => Typed'
<1> SUFFICES ASSUME Typed, Environment PROVE Typed' OBVIOUS
<1> USE ConstantsAssumption DEF Typed, TypeOK, TokenRefs, RefreshRefs, CodeRefs, ReapRefs
<1>1. CASE Tick BY <1>1 DEF Tick
<1>2. CASE SetEnabled BY <1>2 DEF SetEnabled
<1>3. CASE SetPolicy BY <1>3 DEF SetPolicy
<1>4. CASE EndAllAccess
  <2>1. session' \in [Sessions -> SessionRow] BY <1>4 DEF EndAllAccess, EndAll, SessionRow
  <2> QED BY <1>4, <2>1, RevokingTyped DEF EndAllAccess
<1>5. ASSUME NEW s \in Sessions, Login(s) PROVE Typed'
  BY <1>5 DEF Login, NewSession, SessionRow, RowStates
<1>6. ASSUME NEW s \in Sessions, EndSession(s) PROVE Typed'
  <2>1. session' \in [Sessions -> SessionRow] BY <1>6 DEF EndSession, EndAll, SessionRow
  <2> QED BY <1>6, <2>1, RevokingTyped DEF EndSession
<1>10. ASSUME NEW s \in Sessions, EvictSession(s) PROVE Typed'
  BY <1>10 DEF EvictSession, SessionRow
<1>7. ASSUME NEW c \in Codes, NEW client \in Clients, NEW s \in Sessions, NEW kind \in CodeKinds,
             IssueAuthorizationCode(c, client, s, kind)
      PROVE  Typed'
  BY <1>7 DEF IssueAuthorizationCode, NewCode, CodeRow, RowStates
<1>8. ASSUME NEW client \in Clients, RevokeForSubjectClient(client) PROVE Typed'
  BY <1>8, RevokingTyped DEF RevokeForSubjectClient
<1>9. ASSUME NEW client \in Clients, NEW g \in Grants, RespondToRevocationRequest(client, g)
      PROVE  Typed'
  BY <1>9, RevokingTyped DEF RespondToRevocationRequest
<1> QED BY <1>1, <1>2, <1>3, <1>4, <1>5, <1>6, <1>7, <1>8, <1>9, <1>10 DEF Environment

\* A request that only moves on in its handler keeps what it carries.
LEMMA GotoTyped ==
    ASSUME Typed, NEW p \in Requests, NEW place \in Places, Goto(p, place),
           UNCHANGED <<envVars, dbVars, reap>>,
           place \in RefreshPlaces => pc[p] \in RefreshPlaces,
           place \in CodePlaces => pc[p] \in CodePlaces
    PROVE  Typed'
<1>1. req[p] \in Request /\ req' = [req EXCEPT ![p] = req[p]]
  BY DEF Typed, TypeOK, Goto
<1>2. /\ place \in RefreshPlaces =>
            /\ req[p].token \in Tokens /\ token[req[p].token].st # "none"
            /\ req[p].grant = token[req[p].token].grant
      /\ place \in CodePlaces => req[p].code \in Codes
  BY DEF Typed, RefreshRefs, CodeRefs
<1> QED BY <1>1, <1>2, RequestStepTyped DEF Goto

\* An answer that changes no row keeps the types.
LEMMA AnswerTyped ==
    ASSUME Typed, NEW p \in Requests, NEW outcome \in Outcomes, NEW reason \in Reasons,
           Answer(p, outcome, reason), UNCHANGED <<envVars, dbVars, reap>>
    PROVE  Typed'
<1>1. req[p] \in Request BY DEF Typed, TypeOK
<1>2. Answered(req[p], outcome, reason) \in Request BY <1>1, AnsweredTyped
<1>3. "done" \in Places /\ "done" \notin RefreshPlaces /\ "done" \notin CodePlaces
  BY DEF Places, RefreshPlaces, CodePlaces
<1> QED BY <1>2, <1>3, RequestStepTyped DEF Answer

\* An answer that spends the presented token and commits keeps the types.
LEMMA SpendTyped ==
    ASSUME Typed, NEW p \in Requests, req[p].token \in Tokens,
           NEW outcome \in Outcomes, NEW reason \in Reasons,
           Answer(p, outcome, reason), SpendToken(req[p].token),
           UNCHANGED <<envVars, session, code, grant, reap>>
    PROVE  Typed'
<1>1. req[p] \in Request BY DEF Typed, TypeOK
<1>2. Answered(req[p], outcome, reason) \in Request BY <1>1, AnsweredTyped
<1>3. /\ token' \in [Tokens -> TokenRow]
      /\ \A t \in Tokens : token'[t].st = token[t].st /\ token'[t].grant = token[t].grant
  BY DEF SpendToken, Typed, TypeOK, TokenRow
<1>4. TypeOK' BY <1>2, <1>3 DEF Typed, TypeOK, Answer, Places, envVars
<1>5. TokenRefs' BY <1>3 DEF Typed, TokenRefs
<1>6. RefreshRefs' BY <1>3 DEF Typed, TypeOK, RefreshRefs, Answer, RefreshPlaces
<1>7. CodeRefs' BY DEF Typed, TypeOK, CodeRefs, Answer, CodePlaces
<1>8. ReapRefs' BY <1>3 DEF Typed, TypeOK, ReapRefs
<1> QED BY <1>4, <1>5, <1>6, <1>7, <1>8 DEF Typed

LEMMA TypedArrive == ASSUME Typed, NEW p \in Requests, Arrive(p) PROVE Typed'
<1> USE ConstantsAssumption
<1>1. ASSUME NEW client \in Clients, NEW t \in Tokens, NEW scope \in AskedScopes,
             NEW resource \in AskedResources, PresentRefreshToken(p, client, t, scope, resource)
      PROVE  Typed'
  <2> DEFINE verdict == GateVerdict(client, t, scope, resource)
             arrived == [NoRequest EXCEPT !.client = client, !.token = t, !.scope = scope,
                             !.resource = resource, !.policy = policy, !.now = now,
                             !.grant = token[t].grant, !.spent = token[t].used]
  <2>1. arrived \in Request
    BY Blanks DEF Request, Typed, TypeOK, TokenRow
  <2>2. arrived.token = t /\ arrived.grant = token[t].grant
    BY DEF NoRequest
  <2>3. verdict \in Reasons \union {"ok"} BY Verdicts DEF Typed, TypeOK
  <2>4. CASE verdict = "ok"
    <3>1. "begin" \in Places /\ "begin" \notin CodePlaces BY DEF Places, CodePlaces
    <3>2. /\ pc' = [pc EXCEPT ![p] = "begin"] /\ req' = [req EXCEPT ![p] = arrived]
          /\ token[t].st # "none" /\ UNCHANGED <<envVars, dbVars, reap>>
      BY <1>1, <2>4 DEF PresentRefreshToken
    <3> HIDE DEF arrived
    <3> QED BY <2>1, <2>2, <3>1, <3>2, RequestStepTyped
  <2>5. CASE verdict # "ok"
    <3> DEFINE answer == Answered(arrived, "refused", verdict)
    <3>1. "done" \in Places /\ "done" \notin RefreshPlaces /\ "done" \notin CodePlaces
      BY DEF Places, RefreshPlaces, CodePlaces
    <3>2. /\ pc' = [pc EXCEPT ![p] = "done"] /\ req' = [req EXCEPT ![p] = answer]
          /\ UNCHANGED <<envVars, dbVars, reap>>
      BY <1>1, <2>5 DEF PresentRefreshToken
    <3>3. verdict \in Reasons /\ "refused" \in Outcomes BY <2>3, <2>5 DEF Outcomes
    <3> HIDE DEF arrived, verdict
    <3>4. answer \in Request BY <2>1, <3>3, AnsweredTyped
    <3> HIDE DEF answer
    <3> QED BY <3>1, <3>2, <3>4, RequestStepTyped
  <2> QED BY <2>4, <2>5
<1>2. ASSUME NEW client \in Clients, NEW c \in Codes, NEW proof \in BOOLEAN,
             NEW resource \in AskedResources, PresentCode(p, client, c, proof, resource)
      PROVE  Typed'
  <2> DEFINE arrived == [NoRequest EXCEPT !.client = client, !.code = c, !.proof = proof,
                             !.resource = resource, !.now = now, !.at = now,
                             !.spent = code[c].consumed]
  <2>1. arrived \in Request BY Blanks DEF Request, Typed, TypeOK, CodeRow
  <2>2. arrived.code = c BY DEF NoRequest
  <2>3. "codeConsume" \in Places /\ "codeConsume" \notin RefreshPlaces BY DEF Places, RefreshPlaces
  <2>4. /\ pc' = [pc EXCEPT ![p] = "codeConsume"] /\ req' = [req EXCEPT ![p] = arrived]
        /\ UNCHANGED <<envVars, dbVars, reap>>
    BY <1>2 DEF PresentCode
  <2> HIDE DEF arrived
  <2> QED BY <2>1, <2>2, <2>3, <2>4, RequestStepTyped
<1> QED BY <1>1, <1>2 DEF Arrive

LEMMA TypedRefreshStep ==
    ASSUME Typed, NEW p \in Requests,
           \/ RotateBegin(p) \/ RotateConsume(p) \/ RotateLookup(p) \/ RotateReuse(p)
           \/ RotateReadGrant(p) \/ RotateReadSession(p) \/ MintRefreshed(p)
    PROVE  Typed'
<1> USE DEF Places, RefreshPlaces, CodePlaces
<1>1. CASE RotateBegin(p)
  <2> DEFINE e == Ended(req[p].grant, req[p].now)
             r == [req[p] EXCEPT !.at = now, !.ended = e]
  <2>1. e \in BOOLEAN BY DEF Ended
  <2>3. req' = [req EXCEPT ![p] = r] /\ pc[p] = "begin" /\ pc' = [pc EXCEPT ![p] = "consume"]
    BY <1>1 DEF RotateBegin, Typed, TypeOK, Request
  <2> HIDE DEF e
  <2>2. r \in Request /\ r.token = req[p].token /\ r.grant = req[p].grant
    <3>1. req[p] \in Request /\ now \in Nat BY DEF Typed, TypeOK
    <3> QED BY <2>1, <3>1, StartedTyped
  <2>4. /\ req[p].token \in Tokens /\ token[req[p].token].st # "none"
        /\ req[p].grant = token[req[p].token].grant
    BY <2>3 DEF Typed, RefreshRefs
  <2>5. UNCHANGED <<envVars, dbVars, reap>> BY <1>1 DEF RotateBegin
  <2> HIDE DEF r
  <2> QED BY <2>2, <2>3, <2>4, <2>5, RequestStepTyped
<1>2. CASE RotateConsume(p)
  BY <1>2, GotoTyped DEF RotateConsume
<1>3. CASE RotateLookup(p)
  <2>1. "unknown" \in Outcomes /\ "" \in Reasons BY DEF Outcomes, Reasons
  <2> QED BY <1>3, <2>1, GotoTyped, AnswerTyped DEF RotateLookup
<1>4. CASE RotateReuse(p)
  <2>1. req[p] \in Request /\ "reused" \in Outcomes /\ "" \in Reasons
    BY DEF Typed, TypeOK, Outcomes, Reasons
  <2>2. Answered(req[p], "reused", "") \in Request BY <2>1, AnsweredTyped
  <2>3. req[p].now \in Nat BY <2>1 DEF Request
  <2>4. /\ pc' \in [Requests -> Places] /\ req' \in [Requests -> Request]
        /\ \A q \in Requests : pc'[q] = "done" \/ (pc'[q] = pc[q] /\ req'[q] = req[q])
    BY <1>4, <2>2 DEF RotateReuse, Answer, Typed, TypeOK
  <2>5. session' \in [Sessions -> SessionRow] BY <1>4 DEF RotateReuse, Typed, TypeOK
  <2> QED BY <1>4, <2>3, <2>4, <2>5, RevokingTyped DEF RotateReuse, envVars
<1>5. CASE RotateReadGrant(p)
  <2> DEFINE g == grant[req[p].grant]
  <2>1. pc[p] = "readGrant" /\ req[p] \in Request BY <1>5 DEF RotateReadGrant, Typed, TypeOK
  <2>2. /\ req[p].token \in Tokens /\ token[req[p].token].st # "none"
        /\ req[p].grant = token[req[p].token].grant /\ req[p].grant \in Grants
    BY <2>1 DEF Typed, RefreshRefs, TokenRefs
  <2>3. "error" \in Outcomes /\ "revoked" \in Outcomes /\ "" \in Reasons BY DEF Outcomes, Reasons
  <2>4. CASE ~Row(g)
    BY <1>5, <2>3, <2>4, AnswerTyped DEF RotateReadGrant, dbVars
  <2>5. CASE Row(g) /\ g.revokedAt # NotRevoked
    BY <1>5, <2>2, <2>3, <2>5, SpendTyped DEF RotateReadGrant
  <2>6. CASE Row(g) /\ g.revokedAt = NotRevoked
    <3> DEFINE r == [req[p] EXCEPT !.seen = g]
               place == IF g.session = None THEN "rotate" ELSE "readSession"
    <3>1. r \in Request /\ r.token = req[p].token /\ r.grant = req[p].grant
      BY <2>1, <2>2 DEF Request, Typed, TypeOK
    <3>2. req' = [req EXCEPT ![p] = r] /\ pc' = [pc EXCEPT ![p] = place]
      BY <1>5, <2>6 DEF RotateReadGrant, Typed, TypeOK, Request
    <3>3. UNCHANGED <<envVars, dbVars, reap>> BY <1>5, <2>6 DEF RotateReadGrant, dbVars
    <3>4. place \in Places /\ place \notin CodePlaces OBVIOUS
    <3> HIDE DEF r, place
    <3> QED BY <2>2, <3>1, <3>2, <3>3, <3>4, RequestStepTyped
  <2> QED BY <2>4, <2>5, <2>6
<1>6. CASE RotateReadSession(p)
  <2>1. pc[p] = "readSession" BY <1>6 DEF RotateReadSession
  <2>2. req[p].token \in Tokens BY <2>1 DEF Typed, RefreshRefs
  <2>3. "revoked" \in Outcomes /\ "" \in Reasons BY DEF Outcomes, Reasons
  <2>4. CASE SessionLive(req[p].seen.session, req[p].now)
    BY <1>6, <2>1, <2>4, GotoTyped DEF RotateReadSession, dbVars
  <2>5. CASE ~SessionLive(req[p].seen.session, req[p].now)
    BY <1>6, <2>2, <2>3, <2>5, SpendTyped DEF RotateReadSession
  <2> QED BY <2>4, <2>5
<1>7. CASE MintRefreshed(p)
  <2>1. MintVerdict(p) \in Reasons \union {"ok"} BY Verdicts DEF Typed, TypeOK
  <2>2. "issued" \in Outcomes /\ "burned" \in Outcomes /\ "" \in Reasons BY DEF Outcomes, Reasons
  <2> QED BY <1>7, <2>1, <2>2, AnswerTyped DEF MintRefreshed
<1> QED BY <1>1, <1>2, <1>3, <1>4, <1>5, <1>6, <1>7

\* What a rotation's commit makes of the tokens.
Rotated(p, next) ==
    [token EXCEPT
        ![next] = NewToken(req[p].grant, req[p].now),
        ![req[p].token].used = TRUE, ![req[p].token].replacedBy = next]

\* The presented token is spent, its successor is the family's unused one, and
\* no other row changes.
LEMMA RotatedTokens ==
    ASSUME Typed, NEW p \in Requests, pc[p] \in RefreshPlaces, NEW next \in NextId(token, Tokens),
           token' = Rotated(p, next)
    PROVE  /\ token' \in [Tokens -> TokenRow]
           /\ next \in Tokens /\ next # req[p].token /\ token[next].st = "none"
           /\ token'[next].st = "row" /\ token'[next].grant = req[p].grant /\ ~token'[next].used
           /\ token'[req[p].token].used
           /\ \A t \in Tokens \ {next} : /\ token'[t].st = token[t].st
                                         /\ token'[t].grant = token[t].grant
                                         /\ token'[t].expires = token[t].expires
           /\ \A t \in Tokens \ {next, req[p].token} : token'[t] = token[t]
<1>1. next \in Tokens /\ token[next].st = "none" BY DEF NextId, Fresh
<1>2. /\ req[p].token \in Tokens /\ token[req[p].token].st # "none"
      /\ req[p].grant = token[req[p].token].grant /\ req[p].grant \in Grants
  BY DEF Typed, RefreshRefs, TokenRefs
<1>3. req[p].now \in Nat /\ RefreshTtl \in Nat
  BY ConstantsAssumption DEF Typed, TypeOK, Request
<1>4. token \in [Tokens -> TokenRow] BY DEF Typed, TypeOK
<1>5. NewToken(req[p].grant, req[p].now) \in TokenRow
  BY <1>2, <1>3 DEF TokenRow, RowStates, NewToken
<1> QED BY <1>1, <1>2, <1>4, <1>5 DEF TokenRow, Rotated, NewToken

LEMMA TypedRotateCommit == ASSUME Typed, NEW p \in Requests, RotateCommit(p) PROVE Typed'
<1>1. pc[p] = "rotate" /\ pc[p] \in RefreshPlaces BY DEF RotateCommit, RefreshPlaces
<1>2. CASE ~Row(grant[req[p].grant])
  <2>1. "error" \in Outcomes /\ "" \in Reasons BY DEF Outcomes, Reasons
  <2> QED BY <1>2, <2>1, AnswerTyped DEF RotateCommit, dbVars
<1>3. CASE Row(grant[req[p].grant])
  <2>1. PICK next \in NextId(token, Tokens) : token' = Rotated(p, next)
    BY <1>3 DEF RotateCommit, Rotated
  <2>2. /\ token' \in [Tokens -> TokenRow] /\ next \in Tokens
        /\ token'[next].grant = req[p].grant
        /\ \A t \in Tokens \ {next} : token'[t].st = token[t].st /\ token'[t].grant = token[t].grant
        /\ token[next].st = "none" /\ token'[next].st = "row"
    BY <1>1, <2>1, RotatedTokens
  <2>3. req[p].grant \in Grants /\ grant[req[p].grant].st # "none"
    BY <1>1, <1>3 DEF Typed, RefreshRefs, TokenRefs, Row
  <2>4. /\ UNCHANGED <<now, enabled, policy, code, grant, reap, req>>
        /\ pc' = [pc EXCEPT ![p] = "mint"]
    BY <1>3 DEF RotateCommit, Goto, envVars
  <2>5. session' \in [Sessions -> SessionRow]
    <3>1. Touch(req[p].seen.session, req[p].now) BY <1>3 DEF RotateCommit
    <3>2. /\ req[p].now \in Nat /\ req[p].seen.session \in Sessions \union {None}
          /\ session \in [Sessions -> SessionRow]
      BY DEF Typed, TypeOK, Request, GrantRow
    <3> QED BY <3>1, <3>2 DEF Touch, SessionRow
  <2>6. TypeOK' BY <2>2, <2>4, <2>5 DEF Typed, TypeOK, Places
  <2>7. TokenRefs' BY <2>2, <2>3, <2>4 DEF Typed, TokenRefs
  <2>8. RefreshRefs' BY <1>1, <2>2, <2>4 DEF Typed, TypeOK, RefreshRefs
  <2>9. CodeRefs' BY <2>4 DEF Typed, TypeOK, CodeRefs, CodePlaces
  <2>10. ReapRefs' BY <2>2, <2>4 DEF Typed, TypeOK, ReapRefs
  <2> QED BY <2>6, <2>7, <2>8, <2>9, <2>10 DEF Typed
<1> QED BY <1>2, <1>3

\* The session a redeemed grant takes is one of the tenant's, or none.
LEMMA GrantSessionTyped ==
    ASSUME Typed, NEW c \in Codes PROVE GrantSession(c) \in Sessions \union {None}
BY DEF GrantSession, Typed, TypeOK, CodeRow

LEMMA TypedCodeStep ==
    ASSUME Typed, NEW p \in Requests,
           \/ CodeConsume(p) \/ CodeLookup(p) \/ CodeReplay(p) \/ CodeDecide(p)
           \/ CodeInsert(p) \/ Finish(p) \/ Fail(p)
    PROVE  Typed'
<1> USE DEF Places, RefreshPlaces, CodePlaces
<1>0. {"refused", "replayed", "error"} \subseteq Outcomes /\ {"unknown", ""} \subseteq Reasons
  BY DEF Outcomes, Reasons
<1>1. CASE CodeConsume(p) BY <1>1, GotoTyped DEF CodeConsume
<1>2. CASE CodeLookup(p)
  <2> DEFINE c == code[req[p].code]
             r == [req[p] EXCEPT !.grant = c.grant]
  <2>1. CASE Row(c) /\ c.grant # None
    <3>1. pc[p] = "codeLookup" /\ req[p].code \in Codes /\ req[p] \in Request
      BY <1>2 DEF CodeLookup, Typed, TypeOK, CodeRefs
    <3>2. r \in Request /\ r.code = req[p].code
      BY <3>1 DEF Typed, TypeOK, Request, CodeRow
    <3>3. req' = [req EXCEPT ![p] = r] /\ pc' = [pc EXCEPT ![p] = "codeReplay"]
      BY <1>2, <2>1 DEF CodeLookup, Typed, TypeOK, Request
    <3>4. UNCHANGED <<envVars, dbVars, reap>> BY <1>2 DEF CodeLookup
    <3> HIDE DEF r
    <3> QED BY <3>1, <3>2, <3>3, <3>4, RequestStepTyped
  <2>2. CASE ~(Row(c) /\ c.grant # None)
    BY <1>0, <1>2, <2>2, AnswerTyped DEF CodeLookup
  <2> QED BY <2>1, <2>2
<1>3. CASE CodeReplay(p)
  <2>1. req[p] \in Request BY DEF Typed, TypeOK
  <2>2. Answered(req[p], "replayed", "") \in Request BY <1>0, <2>1, AnsweredTyped
  <2>3. now \in Nat BY DEF Typed, TypeOK
  <2>4. /\ pc' \in [Requests -> Places] /\ req' \in [Requests -> Request]
        /\ \A q \in Requests : pc'[q] = "done" \/ (pc'[q] = pc[q] /\ req'[q] = req[q])
    BY <1>3, <2>2 DEF CodeReplay, Answer, Typed, TypeOK
  <2>5. session' \in [Sessions -> SessionRow] BY <1>3 DEF CodeReplay, Typed, TypeOK
  <2> QED BY <1>3, <2>3, <2>4, <2>5, RevokingTyped DEF CodeReplay, envVars
<1>4. CASE CodeDecide(p)
  <2> DEFINE r == [req[p] EXCEPT !.now = now]
  <2>1. RedeemVerdict(p) \in Reasons \union {"ok"} BY Verdicts DEF Typed, TypeOK
  <2>2. CASE RedeemVerdict(p) = "ok"
    <3>1. pc[p] = "codeDecide" /\ req[p].code \in Codes /\ req[p] \in Request
      BY <1>4 DEF CodeDecide, Typed, TypeOK, CodeRefs
    <3>2. r \in Request /\ r.code = req[p].code
      BY <3>1 DEF Typed, TypeOK, Request
    <3>3. req' = [req EXCEPT ![p] = r] /\ pc' = [pc EXCEPT ![p] = "codeInsert"]
      BY <1>4, <2>2 DEF CodeDecide, Typed, TypeOK, Request
    <3>4. UNCHANGED <<envVars, dbVars, reap>> BY <1>4 DEF CodeDecide
    <3> HIDE DEF r
    <3> QED BY <3>1, <3>2, <3>3, <3>4, RequestStepTyped
  <2>3. CASE RedeemVerdict(p) # "ok"
    BY <1>0, <1>4, <2>1, <2>3, AnswerTyped DEF CodeDecide
  <2> QED BY <2>2, <2>3
<1>5. CASE CodeInsert(p)
  BY <1>0, <1>5, GotoTyped, AnswerTyped DEF CodeInsert
<1>6. CASE Finish(p)
  BY <1>6, Blanks, RequestStepTyped DEF Finish
<1>7. CASE Fail(p)
  BY <1>0, <1>7, AnswerTyped DEF Fail
<1> QED BY <1>1, <1>2, <1>3, <1>4, <1>5, <1>6, <1>7

\* What a redemption's commit makes of the rows.
LEMMA RedeemedRows ==
    ASSUME Typed, NEW p \in Requests, CodeCommit(p)
    PROVE  /\ req[p].code \in Codes /\ pc[p] = "codeCommit"
           /\ \E g \in Grants :
                /\ grant[g].st = "none"
                /\ grant' \in [Grants -> GrantRow]
                /\ \A h \in Grants \ {g} : grant'[h] = grant[h]
                /\ grant'[g].st = "row" /\ grant'[g].from = req[p].code
                /\ grant'[g].client = req[p].client /\ grant'[g].revokedAt = NotRevoked
                /\ code' \in [Codes -> CodeRow]
                /\ code'[req[p].code].consumed /\ code'[req[p].code].st = code[req[p].code].st
                /\ \A c \in Codes \ {req[p].code} : code'[c] = code[c]
                /\ token' \in [Tokens -> TokenRow]
                /\ \/ token' = token
                   \/ \E t \in Tokens :
                        /\ token[t].st = "none" /\ token'[t].st = "row" /\ token'[t].grant = g
                        /\ ~token'[t].used
                        /\ \A u \in Tokens \ {t} : token'[u] = token[u]
<1> DEFINE c == code[req[p].code]
           row == NewGrant(req[p])
<1>1. req[p].code \in Codes /\ pc[p] = "codeCommit"
  BY DEF CodeCommit, Typed, CodeRefs, CodePlaces
<1>2. c \in CodeRow /\ req[p] \in Request BY <1>1 DEF Typed, TypeOK
<1>3. row \in GrantRow
  <2>1. GrantSession(req[p].code) \in Sessions \union {None} BY <1>1, GrantSessionTyped
  <2>2. NarrowedAudience(c.resource, req[p].resource) \union {Issuer} \subseteq Audiences
    BY <1>2 DEF NarrowedAudience, CodeRow, Request, Audiences, Issuer
  <2>3. c.scope \subseteq Scopes BY <1>2 DEF CodeRow
  <2>4. req[p].client \in Clients \union {None} /\ req[p].at \in Nat BY <1>2 DEF Request
  <2> QED BY <1>1, <2>1, <2>2, <2>3, <2>4 DEF GrantRow, RowStates, NewGrant
<1>4. PICK g \in NextId(grant, Grants) :
        /\ grant' = [grant EXCEPT ![g] = row]
        /\ code' = [code EXCEPT ![req[p].code].consumed = TRUE, ![req[p].code].grant = g]
        /\ IF RefreshAllowedForScope(c.scope)
           THEN \E t \in NextId(token, Tokens) :
                  token' = [token EXCEPT ![t] = NewToken(g, req[p].now)]
           ELSE UNCHANGED token
  BY DEF CodeCommit
<1>5. row.st = "row" /\ row.from = req[p].code /\ row.client = req[p].client /\ row.revokedAt = NotRevoked
  BY DEF NewGrant
<1> HIDE DEF row
<1>6. g \in Grants /\ grant[g].st = "none" BY DEF NextId, Fresh
<1>7. /\ grant' \in [Grants -> GrantRow] /\ grant'[g] = row
      /\ \A h \in Grants \ {g} : grant'[h] = grant[h]
  BY <1>3, <1>4, <1>6 DEF Typed, TypeOK
<1>8. /\ code' \in [Codes -> CodeRow]
      /\ code'[req[p].code].consumed /\ code'[req[p].code].st = c.st
      /\ \A d \in Codes \ {req[p].code} : code'[d] = code[d]
  <2> DEFINE spent == [c EXCEPT !.consumed = TRUE, !.grant = g]
  <2>1. spent \in CodeRow /\ spent.consumed /\ spent.st = c.st BY <1>2, <1>6 DEF CodeRow
  <2>2. code' = [code EXCEPT ![req[p].code] = spent]
    BY <1>1, <1>4 DEF Typed, TypeOK, CodeRow
  <2> HIDE DEF spent
  <2> QED BY <1>1, <2>1, <2>2 DEF Typed, TypeOK
<1>9. /\ token' \in [Tokens -> TokenRow]
      /\ \/ token' = token
         \/ \E t \in Tokens :
              /\ token[t].st = "none" /\ token'[t].st = "row" /\ token'[t].grant = g
              /\ ~token'[t].used
              /\ \A u \in Tokens \ {t} : token'[u] = token[u]
  <2>1. token \in [Tokens -> TokenRow] BY DEF Typed, TypeOK
  <2>2. CASE token' = token BY <2>1, <2>2
  <2>3. ASSUME NEW t \in NextId(token, Tokens),
               token' = [token EXCEPT ![t] = NewToken(g, req[p].now)]
        PROVE  /\ token' \in [Tokens -> TokenRow]
               /\ \E u \in Tokens :
                    /\ token[u].st = "none" /\ token'[u].st = "row" /\ token'[u].grant = g
                    /\ ~token'[u].used
                    /\ \A v \in Tokens \ {u} : token'[v] = token[v]
    <3>1. t \in Tokens /\ token[t].st = "none" BY DEF NextId, Fresh
    <3>2. req[p].now + RefreshTtl \in Nat BY <1>2, ConstantsAssumption DEF Request
    <3>3. /\ NewToken(g, req[p].now) \in TokenRow
          /\ NewToken(g, req[p].now).st = "row" /\ NewToken(g, req[p].now).grant = g
          /\ ~NewToken(g, req[p].now).used
      BY <1>6, <3>2 DEF TokenRow, RowStates, NewToken
    <3> QED BY <2>1, <2>3, <3>1, <3>3
  <2> QED BY <1>4, <2>2, <2>3
<1> QED BY <1>1, <1>5, <1>6, <1>7, <1>8, <1>9

LEMMA TypedCodeCommit == ASSUME Typed, NEW p \in Requests, CodeCommit(p) PROVE Typed'
<1>1. /\ req[p].code \in Codes /\ pc[p] = "codeCommit"
      /\ grant' \in [Grants -> GrantRow] /\ code' \in [Codes -> CodeRow]
      /\ token' \in [Tokens -> TokenRow]
      /\ \A g \in Grants : grant[g].st # "none" => grant'[g].st # "none"
      /\ \A t \in Tokens : token[t].st # "none" => token'[t] = token[t]
      /\ \A t \in Tokens : token[t].st = "none" /\ token'[t].st # "none" =>
           token'[t].grant \in Grants /\ grant'[token'[t].grant].st # "none"
  BY RedeemedRows
<1>2. Answer(p, "issued", "") /\ UNCHANGED <<envVars, session, reap>> BY DEF CodeCommit
<1>3. "issued" \in Outcomes /\ "" \in Reasons /\ req[p] \in Request
  BY DEF Outcomes, Reasons, Typed, TypeOK
<1>4. Answered(req[p], "issued", "") \in Request BY <1>3, AnsweredTyped
<1>5. TypeOK' BY <1>1, <1>2, <1>4 DEF Typed, TypeOK, Answer, Places, envVars
<1>6. TokenRefs' BY <1>1 DEF Typed, TokenRefs
<1>7. RefreshRefs' BY <1>1, <1>2 DEF Typed, TypeOK, RefreshRefs, Answer, RefreshPlaces
<1>8. CodeRefs' BY <1>2 DEF Typed, TypeOK, CodeRefs, Answer, CodePlaces
<1>9. ReapRefs' BY <1>1, <1>2 DEF Typed, TypeOK, ReapRefs
<1> QED BY <1>5, <1>6, <1>7, <1>8, <1>9 DEF Typed

\* Deleting a row changes nothing but that it is there.
LEMMA DeletedRow ==
    /\ \A r \in SessionRow : [r EXCEPT !.st = "gone"] \in SessionRow
    /\ \A r \in CodeRow : /\ [r EXCEPT !.st = "gone"] \in CodeRow
                         /\ [r EXCEPT !.st = "gone"].consumed = r.consumed
    /\ \A r \in GrantRow : /\ [r EXCEPT !.st = "gone"] \in GrantRow
                          /\ [r EXCEPT !.st = "gone"].st = "gone"
                          /\ [r EXCEPT !.st = "gone"].client = r.client
                          /\ [r EXCEPT !.st = "gone"].from = r.from
                          /\ [r EXCEPT !.st = "gone"].revokedAt = r.revokedAt
    /\ \A r \in TokenRow : /\ [r EXCEPT !.st = "gone"] \in TokenRow
                          /\ [r EXCEPT !.st = "gone"].st = "gone"
                          /\ [r EXCEPT !.st = "gone"].grant = r.grant
                          /\ [r EXCEPT !.st = "gone"].used = r.used
<1>1. \A r \in SessionRow : [r EXCEPT !.st = "gone"] \in SessionRow BY DEF SessionRow, RowStates
<1>2. \A r \in CodeRow : /\ [r EXCEPT !.st = "gone"] \in CodeRow
                        /\ [r EXCEPT !.st = "gone"].consumed = r.consumed
  BY DEF CodeRow, RowStates
<1>3. \A r \in GrantRow : /\ [r EXCEPT !.st = "gone"] \in GrantRow
                         /\ [r EXCEPT !.st = "gone"].st = "gone"
                         /\ [r EXCEPT !.st = "gone"].client = r.client
                         /\ [r EXCEPT !.st = "gone"].from = r.from
                         /\ [r EXCEPT !.st = "gone"].revokedAt = r.revokedAt
  BY DEF GrantRow, RowStates
<1>4. \A r \in TokenRow : /\ [r EXCEPT !.st = "gone"] \in TokenRow
                         /\ [r EXCEPT !.st = "gone"].st = "gone"
                         /\ [r EXCEPT !.st = "gone"].grant = r.grant
                         /\ [r EXCEPT !.st = "gone"].used = r.used
  BY DEF TokenRow, RowStates
<1> QED BY <1>1, <1>2, <1>3, <1>4

\* A grant that loses its session is a grant still.
LEMMA UnboundGrant ==
    \A r \in GrantRow : /\ [r EXCEPT !.session = None] \in GrantRow
                       /\ [r EXCEPT !.session = None].st = r.st
                       /\ [r EXCEPT !.session = None].client = r.client
                       /\ [r EXCEPT !.session = None].from = r.from
                       /\ [r EXCEPT !.session = None].revokedAt = r.revokedAt
BY DEF GrantRow

\* What the retention pass's commit makes of the rows.
LEMMA ReapedRows ==
    ASSUME Typed, ReapCommit
    PROVE  /\ token' \in [Tokens -> TokenRow] /\ code' \in [Codes -> CodeRow]
           /\ session' \in [Sessions -> SessionRow] /\ grant' \in [Grants -> GrantRow]
           /\ \A t \in Tokens :
                /\ token'[t].grant = token[t].grant /\ token'[t].used = token[t].used
                /\ t \in reap.tokens \union Cascaded => token'[t].st = "gone"
                /\ t \notin reap.tokens \union Cascaded => token'[t] = token[t]
           /\ \A c \in Codes : code'[c].consumed = code[c].consumed
           /\ \A g \in Grants :
                /\ grant'[g].st = IF g \in reap.grants THEN "gone" ELSE grant[g].st
                /\ grant'[g].client = grant[g].client /\ grant'[g].from = grant[g].from
                /\ grant'[g].revokedAt = grant[g].revokedAt
<1>1. /\ token \in [Tokens -> TokenRow] /\ code \in [Codes -> CodeRow]
      /\ session \in [Sessions -> SessionRow] /\ grant \in [Grants -> GrantRow]
  BY DEF Typed, TypeOK
<1>2. token' \in [Tokens -> TokenRow] /\
      \A t \in Tokens :
           /\ token'[t].grant = token[t].grant /\ token'[t].used = token[t].used
           /\ t \in reap.tokens \union Cascaded => token'[t].st = "gone"
           /\ t \notin reap.tokens \union Cascaded => token'[t] = token[t]
  <2> DEFINE ids == reap.tokens \union Cascaded
  <2>1. token' = [t \in Tokens |-> IF t \in ids THEN [token[t] EXCEPT !.st = "gone"] ELSE token[t]]
    BY <1>1 DEF ReapCommit, Delete
  <2>2. ASSUME NEW t \in Tokens
        PROVE  /\ token'[t] \in TokenRow
               /\ token'[t].grant = token[t].grant /\ token'[t].used = token[t].used
               /\ t \in ids => token'[t].st = "gone"
               /\ t \notin ids => token'[t] = token[t]
    <3> HIDE DEF ids
    <3>1. token[t] \in TokenRow BY <1>1
    <3>2. CASE t \in ids BY <2>1, <3>1, <3>2, DeletedRow
    <3>3. CASE t \notin ids BY <2>1, <3>1, <3>3
    <3> QED BY <3>2, <3>3
  <2> QED BY <2>1, <2>2
<1>3. code' \in [Codes -> CodeRow] /\ \A c \in Codes : code'[c].consumed = code[c].consumed
  <2>1. code' = [c \in Codes |->
                   IF c \in reap.codes THEN [code[c] EXCEPT !.st = "gone"] ELSE code[c]]
    BY <1>1 DEF ReapCommit, Delete
  <2> QED BY <1>1, <2>1, DeletedRow
<1>4. session' \in [Sessions -> SessionRow]
  <2>1. session' = [s \in Sessions |->
                   IF s \in reap.sessions THEN [session[s] EXCEPT !.st = "gone"] ELSE session[s]]
    BY <1>1 DEF ReapCommit, Delete
  <2> QED BY <1>1, <2>1, DeletedRow
<1>5. /\ grant' \in [Grants -> GrantRow]
      /\ \A g \in Grants :
           /\ grant'[g].st = IF g \in reap.grants THEN "gone" ELSE grant[g].st
           /\ grant'[g].client = grant[g].client /\ grant'[g].from = grant[g].from
           /\ grant'[g].revokedAt = grant[g].revokedAt
  <2>1. grant' = [g \in Grants |->
                    IF g \in reap.grants THEN [grant[g] EXCEPT !.st = "gone"]
                    ELSE IF grant[g].session \in reap.sessions THEN [grant[g] EXCEPT !.session = None]
                    ELSE grant[g]]
    BY DEF ReapCommit
  <2>2. ASSUME NEW g \in Grants
        PROVE  /\ grant'[g] \in GrantRow
               /\ grant'[g].st = IF g \in reap.grants THEN "gone" ELSE grant[g].st
               /\ grant'[g].client = grant[g].client /\ grant'[g].from = grant[g].from
               /\ grant'[g].revokedAt = grant[g].revokedAt
    <3>1. grant[g] \in GrantRow BY <1>1
    <3>2. CASE g \in reap.grants BY <2>1, <3>1, <3>2, DeletedRow
    <3>3. CASE g \notin reap.grants /\ grant[g].session \in reap.sessions
      BY <2>1, <3>1, <3>3, UnboundGrant
    <3>4. CASE g \notin reap.grants /\ grant[g].session \notin reap.sessions
      BY <2>1, <3>1, <3>4
    <3> QED BY <3>2, <3>3, <3>4
  <2> QED BY <2>1, <2>2
<1> QED BY <1>2, <1>3, <1>4, <1>5

LEMMA TypedReap == ASSUME Typed, ReapBegin \/ ReapStep \/ ReapFail PROVE Typed'
<1> DEFINE ReapType == [at : Nat, tokens : SUBSET Tokens, codes : SUBSET Codes,
                        grants : SUBSET Grants, sessions : SUBSET Sessions,
                        stage : ReapStages, passes : Nat]
<1>1. reap \in ReapType /\ now \in Nat BY DEF Typed, TypeOK
<1>2. ASSUME reap' \in ReapType, UNCHANGED <<envVars, dbVars, pc, req>>, ReapRefs' PROVE Typed'
  BY <1>2 DEF Typed, TypeOK, TokenRefs, RefreshRefs, CodeRefs, envVars, dbVars
<1> USE DEF ReapStages, ReapRefs, dbVars
<1>3. CASE ReapBegin
  <2>1. reap' = [at |-> now, tokens |-> {}, codes |-> {}, grants |-> {}, sessions |-> {},
                 stage |-> "tokens", passes |-> reap.passes + 1]
    BY <1>3 DEF ReapBegin, NoReap
  <2>2. reap' \in ReapType BY <1>1, <2>1
  <2>3. ReapRefs' BY <2>1
  <2>4. UNCHANGED <<envVars, dbVars, pc, req>> BY <1>3 DEF ReapBegin
  <2> HIDE DEF ReapType
  <2> QED BY <1>2, <2>2, <2>3, <2>4
<1>4. CASE ReapTokens BY <1>1, <1>2, <1>4 DEF ReapTokens, Row, Typed
<1>5. CASE ReapTokensLock BY <1>1, <1>2, <1>5 DEF ReapTokensLock, Typed
<1>6. CASE ReapCodes BY <1>1, <1>2, <1>6 DEF ReapCodes, Typed
<1>7. CASE ReapCodesLock BY <1>1, <1>2, <1>7 DEF ReapCodesLock, Typed
<1>8. CASE ReapGrants BY <1>1, <1>2, <1>8 DEF ReapGrants, GrantPastRetention, Row, Typed
<1>9. CASE ReapSessions BY <1>1, <1>2, <1>9 DEF ReapSessions, Typed
<1>10. CASE ReapSessionsLock BY <1>1, <1>2, <1>10 DEF ReapSessionsLock, Typed
<1>11. CASE ReapFail BY <1>1, <1>2, <1>11 DEF ReapFail, NoReap
<1>12. CASE ReapCommit
  <2>1. /\ token' \in [Tokens -> TokenRow] /\ code' \in [Codes -> CodeRow]
        /\ session' \in [Sessions -> SessionRow] /\ grant' \in [Grants -> GrantRow]
        /\ \A t \in Tokens : token'[t].grant = token[t].grant
        /\ \A g \in Grants : grant[g].st # "none" => grant'[g].st # "none"
    BY <1>12, ReapedRows
  <2>2. \A t \in Tokens : token'[t].st = "none" <=> token[t].st = "none"
    <3>1. ASSUME NEW t \in reap.tokens \union Cascaded PROVE token[t].st # "none"
      BY DEF Typed, Cascaded, Row
    <3> QED BY <1>12, <3>1, ReapedRows
  <2>5. reap' \in ReapType /\ UNCHANGED <<envVars, pc, req>>
    BY <1>1, <1>12 DEF ReapCommit, NoReap
  <2>6. TypeOK' BY <2>1, <2>5 DEF Typed, TypeOK, envVars
  <2>7. TokenRefs' BY <2>1, <2>2 DEF Typed, TokenRefs
  <2>8. RefreshRefs' /\ CodeRefs' BY <2>1, <2>2, <2>5 DEF Typed, RefreshRefs, CodeRefs
  <2>9. ReapRefs' BY <1>12 DEF ReapCommit, NoReap
  <2> QED BY <2>6, <2>7, <2>8, <2>9 DEF Typed
<1> QED BY <1>3, <1>4, <1>5, <1>6, <1>7, <1>8, <1>9, <1>10, <1>11, <1>12 DEF ReapStep

LEMMA TypedNext == Typed /\ [Next]_vars => Typed'
<1> SUFFICES ASSUME Typed, [Next]_vars PROVE Typed' OBVIOUS
<1>1. CASE Environment BY <1>1, TypedEnvironment
<1>2. ASSUME NEW p \in Requests, Arrive(p) PROVE Typed' BY <1>2, TypedArrive
<1>3. ASSUME NEW p \in Requests, HandlerStep(p) PROVE Typed'
  BY <1>3, TypedRefreshStep, TypedRotateCommit, TypedCodeStep, TypedCodeCommit DEF HandlerStep
<1>4. ASSUME NEW p \in Requests, Fail(p) PROVE Typed' BY <1>4, TypedCodeStep
<1>5. CASE ReapBegin \/ ReapStep \/ ReapFail BY <1>5, TypedReap
<1>6. CASE UNCHANGED vars
  BY <1>6 DEF vars, Typed, TypeOK, TokenRefs, RefreshRefs, CodeRefs, ReapRefs
<1> QED BY <1>1, <1>2, <1>3, <1>4, <1>5, <1>6 DEF Next

\* Type correctness, and that no reference of a row or of a request dangles.
THEOREM TypeCorrect == Spec => []TypeOK
<1>1. Spec => []Typed BY TypedInit, TypedNext, PTL DEF Spec
<1>2. Typed => TypeOK BY DEF Typed
<1> QED BY <1>1, <1>2, PTL

-----------------------------------------------------------------------------
(* The families *)

LEMMA FamiliesInit == Init => Families
<1> SUFFICES ASSUME Init PROVE Families OBVIOUS
<1> USE DEF Init
<1>1. TokenHeld /\ CodeHeld /\ OwnerRefreshes
  BY DEF TokenHeld, CodeHeld, OwnerRefreshes, Rotating, Redeeming, RefreshPlaces
<1>2. GrantOrigin /\ OneUsableToken /\ OneGrantPerCode
  BY DEF GrantOrigin, OneUsableToken, OneGrantPerCode, NoCode, NoGrant, NoToken, Row
<1> QED BY <1>1, <1>2 DEF Families

\* A step of one request that leaves the tables alone keeps the families, if
\* what it takes hold of is free.
LEMMA RequestStepFamilies ==
    ASSUME IInv, NEW p \in Requests, NEW place, NEW r,
           pc' = [pc EXCEPT ![p] = place], req' = [req EXCEPT ![p] = r],
           UNCHANGED <<dbVars, reap>>,
           place \in Rotating =>
               /\ Row(token[r.token]) /\ ~token[r.token].used
               /\ \A q \in Requests \ {p} : pc[q] \in Rotating => req[q].token # r.token
               /\ reap.stage \notin {"off", "tokens", "tokensLock"} => r.token \notin reap.tokens,
           place \in Redeeming =>
               /\ code[r.code].st # "none" /\ ~code[r.code].consumed
               /\ \A q \in Requests \ {p} : pc[q] \in Redeeming => req[q].code # r.code,
           place \in RefreshPlaces => r.client = grant[r.grant].client
    PROVE  Families'
<1>1. /\ pc'[p] = place /\ req'[p] = r
      /\ \A q \in Requests \ {p} : pc'[q] = pc[q] /\ req'[q] = req[q]
  BY DEF IInv, Typed, TypeOK
<1>2. TokenHeld' BY <1>1 DEF IInv, Families, TokenHeld, dbVars, Row
<1>3. CodeHeld' BY <1>1 DEF IInv, Families, CodeHeld, dbVars
<1>4. OwnerRefreshes' BY <1>1 DEF IInv, Families, OwnerRefreshes, dbVars
<1>5. GrantOrigin' /\ OneUsableToken' /\ OneGrantPerCode'
  BY DEF IInv, Families, GrantOrigin, OneUsableToken, OneGrantPerCode, dbVars, Row
<1> QED BY <1>2, <1>3, <1>4, <1>5 DEF Families

\* A request that moves on within its handler keeps what it holds.
LEMMA MoveFamilies ==
    ASSUME IInv, NEW p \in Requests, NEW place, NEW r,
           pc' = [pc EXCEPT ![p] = place], req' = [req EXCEPT ![p] = r],
           UNCHANGED <<dbVars, reap>>,
           r.token = req[p].token, r.code = req[p].code,
           place \in Rotating => pc[p] \in Rotating,
           place \in Redeeming => pc[p] \in Redeeming,
           place \in RefreshPlaces =>
               pc[p] \in RefreshPlaces /\ r.client = req[p].client /\ r.grant = req[p].grant
    PROVE  Families'
<1>1. pc[p] \in Rotating =>
        /\ Row(token[req[p].token]) /\ ~token[req[p].token].used
        /\ \A q \in Requests \ {p} : pc[q] \in Rotating => req[q].token # req[p].token
        /\ reap.stage \notin {"off", "tokens", "tokensLock"} => req[p].token \notin reap.tokens
  BY DEF IInv, Families, TokenHeld
<1>2. pc[p] \in Redeeming =>
        /\ code[req[p].code].st # "none" /\ ~code[req[p].code].consumed
        /\ \A q \in Requests \ {p} : pc[q] \in Redeeming => req[q].code # req[p].code
  BY DEF IInv, Families, CodeHeld
<1>3. pc[p] \in RefreshPlaces => req[p].client = grant[req[p].grant].client
  BY DEF IInv, Families, OwnerRefreshes
<1> QED BY <1>1, <1>2, <1>3, RequestStepFamilies

\* An answered request holds nothing.
LEMMA AnswerFamilies ==
    ASSUME IInv, NEW p \in Requests, NEW outcome, NEW reason,
           Answer(p, outcome, reason), UNCHANGED <<dbVars, reap>>
    PROVE  Families'
<1>1. "done" \notin Rotating /\ "done" \notin Redeeming /\ "done" \notin RefreshPlaces
  BY DEF Rotating, Redeeming, RefreshPlaces
<1> QED BY <1>1, RequestStepFamilies DEF Answer

\* A step that revokes, and at most answers requests, keeps the families.
LEMMA RevokingFamilies ==
    ASSUME IInv, NEW gs, NEW t \in Nat, grant' = RevokeAll(gs, t),
           UNCHANGED <<code, token, reap>>,
           \A p \in Requests : pc'[p] = "done" \/ (pc'[p] = pc[p] /\ req'[p] = req[p])
    PROVE  Families'
<1>1. \A g \in Grants : /\ grant'[g].st = grant[g].st /\ grant'[g].client = grant[g].client
                        /\ grant'[g].from = grant[g].from
                        /\ ~Row(grant[g]) => grant'[g] = grant[g]
  <2>1. grant \in [Grants -> GrantRow] BY DEF IInv, Typed, TypeOK
  <2> QED BY <2>1, RevokeAllTyped
<1>2. TokenHeld' BY DEF IInv, Families, TokenHeld, Rotating, Row
<1>3. CodeHeld' BY DEF IInv, Families, CodeHeld, Redeeming
<1>4. OwnerRefreshes'
  <2>1. \A p \in Requests : pc[p] \in RefreshPlaces => req[p].grant \in Grants
    BY DEF IInv, Typed, RefreshRefs, TokenRefs
  <2> QED BY <1>1, <2>1 DEF IInv, Families, OwnerRefreshes, RefreshPlaces
<1>5. GrantOrigin' BY <1>1 DEF IInv, Families, GrantOrigin, Row
<1>6. OneGrantPerCode' BY <1>1 DEF IInv, Families, OneGrantPerCode
<1>7. OneUsableToken' BY DEF IInv, Families, OneUsableToken, Row
<1> QED BY <1>2, <1>3, <1>4, <1>5, <1>6, <1>7 DEF Families

\* An answer that spends the token the request holds.
LEMMA SpendFamilies ==
    ASSUME IInv, NEW p \in Requests, pc[p] \in Rotating, NEW outcome, NEW reason,
           Answer(p, outcome, reason), SpendToken(req[p].token),
           UNCHANGED <<envVars, session, code, grant, reap>>
    PROVE  Families'
<1>1. req[p].token \in Tokens BY DEF IInv, Typed, RefreshRefs, RefreshPlaces, Rotating
<1>2. /\ \A t \in Tokens : /\ token'[t].st = token[t].st /\ token'[t].grant = token[t].grant
                           /\ token[t].used => token'[t].used
      /\ \A t \in Tokens \ {req[p].token} : token'[t] = token[t]
  BY <1>1 DEF SpendToken, IInv, Typed, TypeOK, TokenRow
<1>3. pc'[p] = "done" /\ \A q \in Requests \ {p} : pc'[q] = pc[q] /\ req'[q] = req[q]
  BY DEF Answer, IInv, Typed, TypeOK
<1>4. TokenHeld'
  <2>1. \A q \in Requests \ {p} : pc[q] \in Rotating => req[q].token \in Tokens \ {req[p].token}
    BY DEF IInv, Families, TokenHeld, Typed, RefreshRefs, RefreshPlaces, Rotating
  <2> QED BY <1>2, <1>3, <2>1 DEF IInv, Families, TokenHeld, Rotating, Row
<1>5. CodeHeld' BY <1>3 DEF IInv, Families, CodeHeld, Redeeming
<1>6. OwnerRefreshes' BY <1>3 DEF IInv, Families, OwnerRefreshes, RefreshPlaces
<1>7. OneUsableToken' BY <1>2 DEF IInv, Families, OneUsableToken, Row
<1>8. GrantOrigin' /\ OneGrantPerCode' BY DEF IInv, Families, GrantOrigin, OneGrantPerCode
<1> QED BY <1>4, <1>5, <1>6, <1>7, <1>8 DEF Families

LEMMA FamiliesEnvironment == IInv /\ Environment => Families'
<1> SUFFICES ASSUME IInv, Environment PROVE Families' OBVIOUS
<1>0. now \in Nat BY DEF IInv, Typed, TypeOK
<1> DEFINE Others == Tick \/ SetEnabled \/ SetPolicy \/ \E s \in Sessions : Login(s) \/ EvictSession(s)
<1>1. CASE Others
  <2>1. UNCHANGED <<code, grant, token, pc, req, reap>>
    BY <1>1 DEF Tick, SetEnabled, SetPolicy, Login, EvictSession
  <2> QED BY <2>1 DEF IInv, Families, TokenHeld, CodeHeld, GrantOrigin, OwnerRefreshes,
                       OneUsableToken, OneGrantPerCode, Row
<1>2. CASE EndAllAccess BY <1>0, <1>2, RevokingFamilies DEF EndAllAccess
<1>3. ASSUME NEW s \in Sessions, EndSession(s) PROVE Families'
  BY <1>0, <1>3, RevokingFamilies DEF EndSession
<1>4. ASSUME NEW client \in Clients, RevokeForSubjectClient(client) PROVE Families'
  BY <1>0, <1>4, RevokingFamilies DEF RevokeForSubjectClient
<1>5. ASSUME NEW client \in Clients, NEW g \in Grants, RespondToRevocationRequest(client, g)
      PROVE  Families'
  BY <1>0, <1>5, RevokingFamilies DEF RespondToRevocationRequest
<1>6. ASSUME NEW c \in Codes, NEW client \in Clients, NEW s \in Sessions, NEW kind \in CodeKinds,
             IssueAuthorizationCode(c, client, s, kind)
      PROVE  Families'
  <2>1. UNCHANGED <<grant, token, pc, req, reap>> BY <1>6 DEF IssueAuthorizationCode
  <2>2. /\ code[c].st = "none" /\ code'[c].st = "row" /\ ~code'[c].consumed
        /\ \A d \in Codes \ {c} : code'[d] = code[d]
    BY <1>6 DEF IssueAuthorizationCode, NewCode, IInv, Typed, TypeOK
  <2>3. TokenHeld' /\ OwnerRefreshes' /\ OneUsableToken' /\ OneGrantPerCode'
    BY <2>1 DEF IInv, Families, TokenHeld, OwnerRefreshes, OneUsableToken, OneGrantPerCode, Row
  <2>4. CodeHeld'
    <3>1. \A p \in Requests : pc[p] \in Redeeming => req[p].code \in Codes
      BY DEF IInv, Typed, CodeRefs, CodePlaces, Redeeming
    <3> QED BY <2>1, <2>2, <3>1 DEF IInv, Families, CodeHeld
  <2>5. GrantOrigin' BY <2>1, <2>2 DEF IInv, Families, GrantOrigin
  <2> QED BY <2>3, <2>4, <2>5 DEF Families
<1> QED BY <1>1, <1>2, <1>3, <1>4, <1>5, <1>6 DEF Environment

LEMMA FamiliesArrive == ASSUME IInv, NEW p \in Requests, Arrive(p) PROVE Families'
<1>1. ASSUME NEW client \in Clients, NEW t \in Tokens, NEW scope \in AskedScopes,
             NEW resource \in AskedResources, PresentRefreshToken(p, client, t, scope, resource)
      PROVE  Families'
  <2> DEFINE verdict == GateVerdict(client, t, scope, resource)
             arrived == [NoRequest EXCEPT !.client = client, !.token = t, !.scope = scope,
                             !.resource = resource, !.policy = policy, !.now = now,
                             !.grant = token[t].grant, !.spent = token[t].used]
  <2>1. CASE verdict = "ok"
    <3>1. /\ pc' = [pc EXCEPT ![p] = "begin"] /\ req' = [req EXCEPT ![p] = arrived]
          /\ UNCHANGED <<dbVars, reap>>
      BY <1>1, <2>1 DEF PresentRefreshToken
    <3>2. grant[token[t].grant].client = client
      BY <2>1 DEF GateVerdict, EvaluateRefreshGrant
    <3>3. arrived.client = client /\ arrived.grant = token[t].grant BY DEF NoRequest
    <3>4. "begin" \notin Rotating /\ "begin" \notin Redeeming BY DEF Rotating, Redeeming
    <3> HIDE DEF arrived
    <3> QED BY <3>1, <3>2, <3>3, <3>4, RequestStepFamilies
  <2>2. CASE verdict # "ok"
    <3>1. /\ pc' = [pc EXCEPT ![p] = "done"]
          /\ req' = [req EXCEPT ![p] = Answered(arrived, "refused", verdict)]
          /\ UNCHANGED <<dbVars, reap>>
      BY <1>1, <2>2 DEF PresentRefreshToken
    <3>2. "done" \notin Rotating /\ "done" \notin Redeeming /\ "done" \notin RefreshPlaces
      BY DEF Rotating, Redeeming, RefreshPlaces
    <3> QED BY <3>1, <3>2, RequestStepFamilies
  <2> QED BY <2>1, <2>2
<1>2. ASSUME NEW client \in Clients, NEW c \in Codes, NEW proof \in BOOLEAN,
             NEW resource \in AskedResources, PresentCode(p, client, c, proof, resource)
      PROVE  Families'
  <2>1. "codeConsume" \notin Rotating /\ "codeConsume" \notin Redeeming
        /\ "codeConsume" \notin RefreshPlaces
    BY DEF Rotating, Redeeming, RefreshPlaces
  <2> QED BY <1>2, <2>1, RequestStepFamilies DEF PresentCode
<1> QED BY <1>1, <1>2 DEF Arrive

LEMMA FamiliesRefreshStep ==
    ASSUME IInv, NEW p \in Requests,
           \/ RotateBegin(p) \/ RotateConsume(p) \/ RotateLookup(p) \/ RotateReuse(p)
           \/ RotateReadGrant(p) \/ RotateReadSession(p) \/ MintRefreshed(p)
    PROVE  Families'
<1> USE DEF Rotating, Redeeming, RefreshPlaces
<1>0. req[p] \in Request /\ req' = [req EXCEPT ![p] = req'[p]]
      /\ (req' = req => req' = [req EXCEPT ![p] = req[p]])
  BY DEF IInv, Typed, TypeOK, RotateBegin, RotateConsume, RotateLookup, RotateReuse, RotateReadGrant,
         RotateReadSession, MintRefreshed, Goto, Answer
<1>1. CASE RotateBegin(p)
  <2> DEFINE e == Ended(req[p].grant, req[p].now)
             r == [req[p] EXCEPT !.at = now, !.ended = e]
  <2>1. r.token = req[p].token /\ r.code = req[p].code /\ r.client = req[p].client
        /\ r.grant = req[p].grant
    BY <1>0 DEF Request
  <2>2. /\ req' = [req EXCEPT ![p] = r] /\ pc[p] = "begin" /\ pc' = [pc EXCEPT ![p] = "consume"]
        /\ UNCHANGED <<dbVars, reap>>
    BY <1>1 DEF RotateBegin, IInv, Typed, TypeOK, Request
  <2> HIDE DEF r
  <2> QED BY <2>1, <2>2, MoveFamilies
<1>2. CASE RotateConsume(p)
  <2>1. pc[p] = "consume" /\ req[p].client = grant[req[p].grant].client
    BY <1>2 DEF RotateConsume, IInv, Families, OwnerRefreshes
  <2>2. CASE Consumable(req[p].token, req[p].at)
    <3>1. Row(token[req[p].token]) /\ ~token[req[p].token].used BY <2>2 DEF Consumable
    <3>2. \A q \in Requests \ {p} : pc[q] \in Rotating => req[q].token # req[p].token
      BY <1>2 DEF RotateConsume, TokenLocked, TokenHolders
    <3>3. reap.stage \notin {"off", "tokens", "tokensLock"} => req[p].token \notin reap.tokens
      BY <1>2 DEF RotateConsume, TokenLocked
    <3>4. pc' = [pc EXCEPT ![p] = "readGrant"] /\ req' = req /\ UNCHANGED <<dbVars, reap>>
      BY <1>2, <2>2 DEF RotateConsume, Goto
    <3> QED BY <1>0, <2>1, <3>1, <3>2, <3>3, <3>4, RequestStepFamilies
  <2>3. CASE ~Consumable(req[p].token, req[p].at)
    <3>1. pc' = [pc EXCEPT ![p] = "lookup"] /\ req' = req /\ UNCHANGED <<dbVars, reap>>
      BY <1>2, <2>3 DEF RotateConsume, Goto
    <3> QED BY <1>0, <2>1, <3>1, RequestStepFamilies
  <2> QED BY <2>2, <2>3
<1>3. CASE RotateLookup(p)
  <2>1. CASE Goto(p, "reuse")
    BY <1>0, <1>3, <2>1, MoveFamilies DEF RotateLookup, Goto
  <2>2. CASE Answer(p, "unknown", "") BY <1>3, <2>2, AnswerFamilies DEF RotateLookup
  <2> QED BY <1>3, <2>1, <2>2 DEF RotateLookup
<1>4. CASE RotateReuse(p)
  <2>1. \A q \in Requests : pc'[q] = "done" \/ (pc'[q] = pc[q] /\ req'[q] = req[q])
    BY <1>4 DEF RotateReuse, Answer, IInv, Typed, TypeOK
  <2>2. req[p].now \in Nat BY <1>0 DEF Request
  <2> QED BY <1>4, <2>1, <2>2, RevokingFamilies DEF RotateReuse
<1>5. CASE RotateReadGrant(p)
  <2> DEFINE g == grant[req[p].grant]
  <2>1. CASE ~Row(g) BY <1>5, <2>1, AnswerFamilies DEF RotateReadGrant, dbVars
  <2>2. CASE Row(g) /\ g.revokedAt # NotRevoked
    BY <1>5, <2>2, SpendFamilies DEF RotateReadGrant
  <2>3. CASE Row(g) /\ g.revokedAt = NotRevoked
    <3> DEFINE r == [req[p] EXCEPT !.seen = g]
               place == IF g.session = None THEN "rotate" ELSE "readSession"
    <3>1. r.token = req[p].token /\ r.code = req[p].code /\ r.client = req[p].client
          /\ r.grant = req[p].grant
      BY <1>0 DEF Request
    <3>2. /\ req' = [req EXCEPT ![p] = r] /\ pc' = [pc EXCEPT ![p] = place]
          /\ UNCHANGED <<dbVars, reap>> /\ pc[p] = "readGrant"
      BY <1>5, <2>3 DEF RotateReadGrant, dbVars, IInv, Typed, TypeOK, Request
    <3>3. place \in Rotating /\ place \notin Redeeming OBVIOUS
    <3> HIDE DEF r, place
    <3> QED BY <3>1, <3>2, <3>3, MoveFamilies
  <2> QED BY <2>1, <2>2, <2>3
<1>6. CASE RotateReadSession(p)
  <2>1. CASE SessionLive(req[p].seen.session, req[p].now)
    BY <1>0, <1>6, <2>1, MoveFamilies DEF RotateReadSession, Goto, dbVars
  <2>2. CASE ~SessionLive(req[p].seen.session, req[p].now)
    BY <1>6, <2>2, SpendFamilies DEF RotateReadSession
  <2> QED BY <2>1, <2>2
<1>7. CASE MintRefreshed(p)
  BY <1>7, AnswerFamilies DEF MintRefreshed
<1> QED BY <1>1, <1>2, <1>3, <1>4, <1>5, <1>6, <1>7

\* The successor takes the place of the token its commit spends.
LEMMA FamiliesRotateCommit == ASSUME IInv, NEW p \in Requests, RotateCommit(p) PROVE Families'
<1>1. pc[p] = "rotate" /\ pc[p] \in Rotating /\ pc[p] \in RefreshPlaces
  BY DEF RotateCommit, Rotating, RefreshPlaces
<1>2. CASE ~Row(grant[req[p].grant])
  BY <1>2, AnswerFamilies DEF RotateCommit, dbVars
<1>3. CASE Row(grant[req[p].grant])
  <2>1. PICK next \in NextId(token, Tokens) : token' = Rotated(p, next)
    BY <1>3 DEF RotateCommit, Rotated
  <2>2. /\ next \in Tokens /\ next # req[p].token /\ token[next].st = "none"
        /\ token'[next].st = "row" /\ token'[next].grant = req[p].grant /\ ~token'[next].used
        /\ token'[req[p].token].used
        /\ \A t \in Tokens \ {next} : token'[t].st = token[t].st /\ token'[t].grant = token[t].grant
        /\ \A t \in Tokens \ {next, req[p].token} : token'[t] = token[t]
    <3>1. Typed BY DEF IInv
    <3> QED BY <1>1, <2>1, <3>1, RotatedTokens
  <2>3. UNCHANGED <<code, grant, reap, req>> /\ pc' = [pc EXCEPT ![p] = "mint"]
    BY <1>3 DEF RotateCommit, Goto
  <2>4. pc'[p] = "mint" /\ \A q \in Requests \ {p} : pc'[q] = pc[q]
    BY <2>3 DEF IInv, Typed, TypeOK
  <2>5. /\ Row(token[req[p].token]) /\ ~token[req[p].token].used /\ req[p].token \in Tokens
        /\ token[req[p].token].grant = req[p].grant
    BY <1>1 DEF IInv, Families, TokenHeld, Typed, RefreshRefs
  <2>6. \A q \in Requests \ {p} : pc[q] \in Rotating =>
          req[q].token \in Tokens \ {next, req[p].token}
    <3>1. \A q \in Requests : pc[q] \in Rotating => req[q].token \in Tokens /\ Row(token[req[q].token])
      BY DEF IInv, Families, TokenHeld, Typed, RefreshRefs, RefreshPlaces, Rotating
    <3>2. \A q \in Requests \ {p} : pc[q] \in Rotating => req[q].token # req[p].token
      BY <1>1 DEF IInv, Families, TokenHeld
    <3> QED BY <2>2, <3>1, <3>2 DEF Row
  <2>7. TokenHeld'
    BY <2>2, <2>3, <2>4, <2>6 DEF IInv, Families, TokenHeld, Rotating, Row
  <2>8. CodeHeld' BY <2>3, <2>4 DEF IInv, Families, CodeHeld, Redeeming
  <2>9. OwnerRefreshes' BY <1>1, <2>3, <2>4 DEF IInv, Families, OwnerRefreshes
  <2>10. GrantOrigin' /\ OneGrantPerCode' BY <2>3 DEF IInv, Families, GrantOrigin, OneGrantPerCode
  <2>11. OneUsableToken'
    <3>1. ASSUME NEW t \in Tokens, Row(token'[t]), ~token'[t].used, token'[t].grant = req[p].grant
          PROVE  t = next
      <4>1. CASE t # next
        <5>1. t # req[p].token /\ token'[t] = token[t] BY <2>2, <3>1, <4>1
        <5>2. t = req[p].token BY <2>5, <3>1, <5>1 DEF IInv, Families, OneUsableToken
        <5> QED BY <5>1, <5>2
      <4> QED BY <4>1
    <3>2. ASSUME NEW t \in Tokens, Row(token'[t]), ~token'[t].used, token'[t].grant # req[p].grant
          PROVE  token'[t] = token[t]
      BY <2>2, <3>2
    <3> QED BY <3>1, <3>2 DEF IInv, Families, OneUsableToken
  <2> QED BY <2>7, <2>8, <2>9, <2>10, <2>11 DEF Families
<1> QED BY <1>2, <1>3

LEMMA FamiliesCodeStep ==
    ASSUME IInv, NEW p \in Requests,
           \/ CodeConsume(p) \/ CodeLookup(p) \/ CodeReplay(p) \/ CodeDecide(p)
           \/ CodeInsert(p) \/ Finish(p) \/ Fail(p)
    PROVE  Families'
<1> USE DEF Rotating, Redeeming, RefreshPlaces
<1>0. req[p] \in Request /\ (req' = req => req' = [req EXCEPT ![p] = req[p]])
  BY DEF IInv, Typed, TypeOK
<1>1. CASE CodeConsume(p)
  <2>1. CASE Redeemable(req[p].code, req[p].at)
    <3>1. code[req[p].code].st # "none" /\ ~code[req[p].code].consumed
      BY <2>1 DEF Redeemable, Row
    <3>2. \A q \in Requests \ {p} : pc[q] \in Redeeming => req[q].code # req[p].code
      BY <1>1 DEF CodeConsume, CodeLocked, CodeHolders
    <3>3. pc' = [pc EXCEPT ![p] = "codeDecide"] /\ req' = req /\ UNCHANGED <<dbVars, reap>>
      BY <1>1, <2>1 DEF CodeConsume, Goto
    <3> QED BY <1>0, <3>1, <3>2, <3>3, RequestStepFamilies
  <2>2. CASE ~Redeemable(req[p].code, req[p].at)
    <3>1. pc' = [pc EXCEPT ![p] = "codeLookup"] /\ req' = req /\ UNCHANGED <<dbVars, reap>>
      BY <1>1, <2>2 DEF CodeConsume, Goto
    <3> QED BY <1>0, <3>1, RequestStepFamilies
  <2> QED BY <2>1, <2>2
<1>2. CASE CodeLookup(p)
  <2>1. CASE Answer(p, "refused", "unknown") BY <1>2, <2>1, AnswerFamilies DEF CodeLookup
  <2>2. CASE /\ pc' = [pc EXCEPT ![p] = "codeReplay"]
             /\ req' = [req EXCEPT ![p].grant = code[req[p].code].grant]
    <3> DEFINE r == [req[p] EXCEPT !.grant = code[req[p].code].grant]
    <3>1. req' = [req EXCEPT ![p] = r] /\ UNCHANGED <<dbVars, reap>>
      BY <1>2, <2>2 DEF CodeLookup
    <3> HIDE DEF r
    <3> QED BY <2>2, <3>1, RequestStepFamilies
  <2> QED BY <1>2, <2>1, <2>2 DEF CodeLookup
<1>3. CASE CodeReplay(p)
  <2>1. \A q \in Requests : pc'[q] = "done" \/ (pc'[q] = pc[q] /\ req'[q] = req[q])
    BY <1>3 DEF CodeReplay, Answer, IInv, Typed, TypeOK
  <2>2. now \in Nat BY DEF IInv, Typed, TypeOK
  <2> QED BY <1>3, <2>1, <2>2, RevokingFamilies DEF CodeReplay
<1>4. CASE CodeDecide(p)
  <2>1. CASE Answer(p, "refused", RedeemVerdict(p)) BY <1>4, <2>1, AnswerFamilies DEF CodeDecide
  <2>2. CASE pc' = [pc EXCEPT ![p] = "codeInsert"] /\ req' = [req EXCEPT ![p].now = now]
    <3> DEFINE r == [req[p] EXCEPT !.now = now]
    <3>1. req' = [req EXCEPT ![p] = r] /\ UNCHANGED <<dbVars, reap>> /\ pc[p] = "codeDecide"
      BY <1>4, <2>2 DEF CodeDecide
    <3>2. r.token = req[p].token /\ r.code = req[p].code BY <1>0 DEF Request
    <3> HIDE DEF r
    <3> QED BY <2>2, <3>1, <3>2, MoveFamilies
  <2> QED BY <1>4, <2>1, <2>2 DEF CodeDecide
<1>5. CASE CodeInsert(p)
  <2>1. CASE Answer(p, "error", "") BY <1>5, <2>1, AnswerFamilies DEF CodeInsert
  <2>2. CASE Goto(p, "codeCommit") BY <1>0, <1>5, <2>2, MoveFamilies DEF CodeInsert, Goto
  <2> QED BY <1>5, <2>1, <2>2 DEF CodeInsert
<1>6. CASE Finish(p) BY <1>6, RequestStepFamilies DEF Finish
<1>7. CASE Fail(p) BY <1>7, AnswerFamilies DEF Fail
<1> QED BY <1>1, <1>2, <1>3, <1>4, <1>5, <1>6, <1>7

\* The redeemed code was unspent, so no grant is its; the new grant has no
\* token yet.
LEMMA FamiliesCodeCommit == ASSUME IInv, NEW p \in Requests, CodeCommit(p) PROVE Families'
<1>1. req[p].code \in Codes /\ pc[p] = "codeCommit" BY RedeemedRows DEF IInv
<1>2. PICK g \in Grants :
        /\ grant[g].st = "none"
        /\ \A h \in Grants \ {g} : grant'[h] = grant[h]
        /\ grant'[g].st = "row" /\ grant'[g].from = req[p].code /\ grant'[g].revokedAt = NotRevoked
        /\ code'[req[p].code].consumed /\ code'[req[p].code].st = code[req[p].code].st
        /\ \A c \in Codes \ {req[p].code} : code'[c] = code[c]
        /\ \/ token' = token
           \/ \E t \in Tokens :
                /\ token[t].st = "none" /\ token'[t].st = "row" /\ token'[t].grant = g
                /\ ~token'[t].used
                /\ \A u \in Tokens \ {t} : token'[u] = token[u]
  BY RedeemedRows DEF IInv
<1>3. /\ pc'[p] = "done" /\ UNCHANGED reap
      /\ \A q \in Requests \ {p} : pc'[q] = pc[q] /\ req'[q] = req[q]
  BY DEF CodeCommit, Answer, IInv, Typed, TypeOK
<1>4. /\ code[req[p].code].st # "none" /\ ~code[req[p].code].consumed
      /\ \A q \in Requests \ {p} : pc[q] \in Redeeming => req[q].code \in Codes \ {req[p].code}
  BY <1>1 DEF IInv, Families, CodeHeld, Typed, CodeRefs, CodePlaces, Redeeming
<1>5. \A t \in Tokens : token[t].st # "none" =>
        token'[t] = token[t] /\ token[t].grant \in Grants \ {g}
  BY <1>2 DEF IInv, Typed, TokenRefs
<1>6. TokenHeld'
  <2>1. \A q \in Requests : pc[q] \in Rotating =>
          req[q].token \in Tokens /\ token[req[q].token].st # "none"
    BY DEF IInv, Typed, RefreshRefs, RefreshPlaces, Rotating
  <2> QED BY <1>3, <1>5, <2>1 DEF IInv, Families, TokenHeld, Rotating
<1>7. CodeHeld' BY <1>2, <1>3, <1>4 DEF IInv, Families, CodeHeld, Redeeming
<1>8. OwnerRefreshes'
  <2>1. \A q \in Requests : pc[q] \in RefreshPlaces => req[q].grant \in Grants \ {g}
    BY <1>5 DEF IInv, Typed, RefreshRefs
  <2> QED BY <1>2, <1>3, <2>1 DEF IInv, Families, OwnerRefreshes, RefreshPlaces
<1>9. GrantOrigin'
  <2>1. \A c \in Codes : code[c].consumed => code'[c].consumed BY <1>2
  <2>2. \A c \in Codes : code'[c].st = "none" => ~code'[c].consumed
    BY <1>2, <1>4 DEF IInv, Families, GrantOrigin
  <2>3. \A h \in Grants : /\ grant'[h].st # "none" => grant'[h].from \in Codes /\ code'[grant'[h].from].consumed
                          /\ grant'[h].st = "none" => grant'[h].revokedAt = NotRevoked
    BY <1>1, <1>2, <2>1 DEF IInv, Families, GrantOrigin
  <2> QED BY <2>2, <2>3 DEF GrantOrigin
<1>10. OneGrantPerCode'
  <2>1. \A h \in Grants : grant[h].st # "none" => grant[h].from # req[p].code
    BY <1>4 DEF IInv, Families, GrantOrigin
  <2> QED BY <1>2, <2>1 DEF IInv, Families, OneGrantPerCode
<1>11. OneUsableToken'
  <2>1. \A t, u \in Tokens : Row(token'[t]) /\ token[t].st = "none" /\ Row(token'[u])
          /\ token'[u].grant = token'[t].grant => u = t
    BY <1>2, <1>5 DEF Row
  <2> QED BY <1>5, <2>1 DEF IInv, Families, OneUsableToken, Row
<1> QED BY <1>6, <1>7, <1>8, <1>9, <1>10, <1>11 DEF Families

\* The pass deletes only tokens no rotation holds: it waited for the holders of
\* those it chose, and its commit waits for the holders of those it cascades to.
LEMMA FamiliesReap == ASSUME IInv, ReapBegin \/ ReapStep \/ ReapFail PROVE Families'
<1>1. ASSUME UNCHANGED <<dbVars, pc, req>>,
             \A p \in Requests : pc[p] \in Rotating /\ reap'.stage \notin {"off", "tokens", "tokensLock"}
                => req[p].token \notin reap'.tokens
      PROVE  Families'
  BY <1>1 DEF IInv, Families, TokenHeld, CodeHeld, GrantOrigin, OwnerRefreshes, OneUsableToken,
              OneGrantPerCode, dbVars, Row
<1>2. \A p \in Requests : pc[p] \in Rotating /\ reap.stage \notin {"off", "tokens", "tokensLock"}
        => req[p].token \notin reap.tokens
  BY DEF IInv, Families, TokenHeld
<1>3. CASE ReapBegin BY <1>1, <1>3 DEF ReapBegin, NoReap
<1>4. CASE ReapFail BY <1>1, <1>4 DEF ReapFail, NoReap
<1>6. CASE ReapTokens
  <2>1. reap'.stage = "tokensLock" BY <1>6 DEF ReapTokens, IInv, Typed, TypeOK
  <2> QED BY <1>1, <1>6, <2>1 DEF ReapTokens
<1>7. CASE ReapTokensLock
  <2>1. reap'.tokens = reap.tokens BY <1>7 DEF ReapTokensLock, IInv, Typed, TypeOK
  <2>2. \A p \in Requests : pc[p] \in Rotating => req[p].token \notin reap.tokens
    BY <1>7 DEF ReapTokensLock, TokenHolders, Rotating
  <2> QED BY <1>1, <1>7, <2>1, <2>2 DEF ReapTokensLock
<1>8. CASE ReapCodes \/ ReapCodesLock \/ ReapGrants \/ ReapSessions \/ ReapSessionsLock
  <2>1. /\ reap'.tokens = reap.tokens /\ UNCHANGED <<dbVars, pc, req>>
        /\ reap.stage \notin {"off", "tokens", "tokensLock"}
    BY <1>8 DEF ReapCodes, ReapCodesLock, ReapGrants, ReapSessions, ReapSessionsLock,
                IInv, Typed, TypeOK
  <2> QED BY <1>1, <1>2, <2>1
<1>9. CASE ReapCommit
  <2>1. /\ \A t \in Tokens :
             /\ token'[t].grant = token[t].grant /\ token'[t].used = token[t].used
             /\ t \in reap.tokens \union Cascaded => token'[t].st = "gone"
             /\ t \notin reap.tokens \union Cascaded => token'[t] = token[t]
        /\ \A c \in Codes : code'[c].consumed = code[c].consumed
        /\ \A g \in Grants :
             /\ grant'[g].st = IF g \in reap.grants THEN "gone" ELSE grant[g].st
             /\ grant'[g].client = grant[g].client /\ grant'[g].from = grant[g].from
             /\ grant'[g].revokedAt = grant[g].revokedAt
    <3>1. Typed BY DEF IInv
    <3> QED BY <1>9, <3>1, ReapedRows
  <2>2. UNCHANGED <<pc, req>> /\ reap'.stage = "off" BY <1>9 DEF ReapCommit, NoReap
  <2>3. \A p \in Requests : pc[p] \in Rotating => req[p].token \notin reap.tokens \union Cascaded
    BY <1>2, <1>9 DEF ReapCommit, TokenHolders, Rotating
  <2>4. TokenHeld'
    <3>1. \A p \in Requests : pc[p] \in Rotating => req[p].token \in Tokens
      BY DEF IInv, Typed, RefreshRefs, RefreshPlaces, Rotating
    <3> QED BY <2>1, <2>2, <2>3, <3>1 DEF IInv, Families, TokenHeld
  <2>5. \A c \in Codes : code'[c].st = "none" => code[c].st = "none"
    BY <1>9 DEF ReapCommit, Delete, IInv, Typed, TypeOK, CodeRow
  <2>6. CodeHeld'
    <3>1. \A p \in Requests : pc[p] \in Redeeming => req[p].code \in Codes
      BY DEF IInv, Typed, CodeRefs, CodePlaces, Redeeming
    <3> QED BY <2>1, <2>2, <2>5, <3>1 DEF IInv, Families, CodeHeld
  <2>7. OwnerRefreshes'
    <3>1. \A p \in Requests : pc[p] \in RefreshPlaces => req[p].grant \in Grants
      BY DEF IInv, Typed, RefreshRefs, TokenRefs
    <3> QED BY <2>1, <2>2, <3>1 DEF IInv, Families, OwnerRefreshes
  <2>8. \A g \in Grants : grant'[g].st = "none" <=> grant[g].st = "none"
    BY <2>1 DEF IInv, Typed, ReapRefs
  <2>9. GrantOrigin' BY <2>1, <2>5, <2>8 DEF IInv, Families, GrantOrigin
  <2>10. OneGrantPerCode' BY <2>1, <2>8 DEF IInv, Families, OneGrantPerCode
  <2>11. OneUsableToken' BY <2>1 DEF IInv, Families, OneUsableToken, Row
  <2> QED BY <2>4, <2>6, <2>7, <2>9, <2>10, <2>11 DEF Families
<1> QED BY <1>3, <1>4, <1>6, <1>7, <1>8, <1>9 DEF ReapStep

LEMMA IInvNext == IInv /\ [Next]_vars => IInv'
<1> SUFFICES ASSUME IInv, [Next]_vars PROVE IInv' OBVIOUS
<1>1. Typed' BY TypedNext DEF IInv
<1>2. Families'
  <2>1. CASE Environment BY <2>1, FamiliesEnvironment
  <2>2. ASSUME NEW p \in Requests, Arrive(p) PROVE Families' BY <2>2, FamiliesArrive
  <2>3. ASSUME NEW p \in Requests, HandlerStep(p) PROVE Families'
    BY <2>3, FamiliesRefreshStep, FamiliesRotateCommit, FamiliesCodeStep, FamiliesCodeCommit
       DEF HandlerStep
  <2>4. ASSUME NEW p \in Requests, Fail(p) PROVE Families' BY <2>4, FamiliesCodeStep
  <2>5. CASE ReapBegin \/ ReapStep \/ ReapFail BY <2>5, FamiliesReap
  <2>6. CASE UNCHANGED vars
    BY <2>6 DEF vars, IInv, Families, TokenHeld, CodeHeld, GrantOrigin, OwnerRefreshes,
                OneUsableToken, OneGrantPerCode, Row
  <2> QED BY <2>1, <2>2, <2>3, <2>4, <2>5, <2>6 DEF Next
<1> QED BY <1>1, <1>2 DEF IInv

\* The invariant holds throughout every behaviour.
THEOREM FamilyInvariant == Spec => []IInv
<1>1. Init => IInv BY TypedInit, FamiliesInit DEF IInv
<1> QED BY <1>1, IInvNext, PTL DEF Spec

\* However many requests present the same refresh token at once, and whatever
\* fails or is reaped meanwhile, a family never has two unused tokens.
THEOREM OneUsableTokenAlways == Spec => []OneUsableToken
<1>1. IInv => OneUsableToken BY DEF IInv, Families
<1> QED BY <1>1, FamilyInvariant, PTL

\* However many requests redeem one code, it produces at most one grant.
THEOREM OneGrantPerCodeAlways == Spec => []OneGrantPerCode
<1>1. IInv => OneGrantPerCode BY DEF IInv, Families
<1> QED BY <1>1, FamilyInvariant, PTL

-----------------------------------------------------------------------------
(* What no step does *)

\* Revoking never moves a stamp.
LEMMA RevokingKeepsStamps ==
    ASSUME Typed, NEW gs, NEW t \in Nat, grant' = RevokeAll(gs, t)
    PROVE  \A g \in Grants : Revoked(g) => grant'[g].revokedAt = grant[g].revokedAt
<1>1. grant \in [Grants -> GrantRow] BY DEF Typed, TypeOK
<1> QED BY <1>1, RevokeAllTyped

LEMMA StampsKept ==
    ASSUME IInv, [Next]_vars
    PROVE  \A g \in Grants : Revoked(g) => grant'[g].revokedAt = grant[g].revokedAt
<1> DEFINE Kept == \A g \in Grants : Revoked(g) => grant'[g].revokedAt = grant[g].revokedAt
<1> SUFFICES Kept OBVIOUS
<1>0. Typed /\ now \in Nat /\ \A p \in Requests : req[p].now \in Nat
  BY DEF IInv, Typed, TypeOK, Request
<1>1. CASE UNCHANGED grant BY <1>1
<1>2. CASE Environment
  <2>1. CASE EndAllAccess BY <1>0, <2>1, RevokingKeepsStamps DEF EndAllAccess
  <2>2. ASSUME NEW s \in Sessions, EndSession(s) PROVE Kept
    BY <1>0, <2>2, RevokingKeepsStamps DEF EndSession
  <2>3. ASSUME NEW client \in Clients, RevokeForSubjectClient(client) PROVE Kept
    BY <1>0, <2>3, RevokingKeepsStamps DEF RevokeForSubjectClient
  <2>4. ASSUME NEW client \in Clients, NEW g \in Grants, RespondToRevocationRequest(client, g)
        PROVE  Kept
    BY <1>0, <2>4, RevokingKeepsStamps DEF RespondToRevocationRequest
  <2>5. ASSUME \/ Tick \/ SetEnabled \/ SetPolicy \/ (\E s \in Sessions : Login(s) \/ EvictSession(s))
               \/ \E c \in Codes, client \in Clients, s \in Sessions, kind \in CodeKinds :
                     IssueAuthorizationCode(c, client, s, kind)
        PROVE  Kept
    <3>1. UNCHANGED grant
      BY <2>5 DEF Tick, SetEnabled, SetPolicy, Login, EvictSession, IssueAuthorizationCode
    <3> QED BY <1>1, <3>1
  <2> HIDE DEF Kept
  <2> QED BY <1>2, <2>1, <2>2, <2>3, <2>4, <2>5 DEF Environment
<1>3. ASSUME NEW p \in Requests, Arrive(p) \/ Fail(p) PROVE Kept
  <2>1. UNCHANGED grant BY <1>3 DEF Arrive, PresentRefreshToken, PresentCode, Fail, dbVars
  <2> QED BY <1>1, <2>1
<1>4. ASSUME NEW p \in Requests, HandlerStep(p) PROVE Kept
  <2>1. CASE RotateReuse(p) BY <1>0, <2>1, RevokingKeepsStamps DEF RotateReuse
  <2>2. CASE CodeReplay(p) BY <1>0, <2>2, RevokingKeepsStamps DEF CodeReplay
  <2>3. CASE CodeCommit(p)
    <3>1. PICK g \in Grants : /\ grant[g].st = "none"
                              /\ \A h \in Grants \ {g} : grant'[h] = grant[h]
      BY <1>0, <2>3, RedeemedRows
    <3>2. ~Revoked(g) BY <3>1 DEF Revoked, IInv, Families, GrantOrigin
    <3> QED BY <3>1, <3>2
  <2>4. CASE \/ RotateBegin(p) \/ RotateConsume(p) \/ RotateLookup(p) \/ RotateReadGrant(p)
             \/ RotateReadSession(p) \/ RotateCommit(p) \/ MintRefreshed(p) \/ CodeConsume(p)
             \/ CodeLookup(p) \/ CodeDecide(p) \/ CodeInsert(p) \/ Finish(p)
    <3>1. UNCHANGED grant
      BY <2>4 DEF RotateBegin, RotateConsume, RotateLookup, RotateReadGrant, RotateReadSession,
                  RotateCommit, MintRefreshed, CodeConsume, CodeLookup, CodeDecide, CodeInsert,
                  Finish, dbVars
    <3> QED BY <1>1, <3>1
  <2> HIDE DEF Kept
  <2> QED BY <1>4, <2>1, <2>2, <2>3, <2>4 DEF HandlerStep
<1>5. CASE ReapCommit BY <1>0, <1>5, ReapedRows
<1>6. CASE \/ ReapBegin \/ ReapFail \/ ReapTokens \/ ReapTokensLock \/ ReapCodes \/ ReapCodesLock
           \/ ReapGrants \/ ReapSessions \/ ReapSessionsLock
  <2>1. UNCHANGED grant
    BY <1>6 DEF ReapBegin, ReapFail, ReapTokens, ReapTokensLock, ReapCodes, ReapCodesLock,
                ReapGrants, ReapSessions, ReapSessionsLock, dbVars
  <2> QED BY <1>1, <2>1
<1>7. CASE UNCHANGED vars
  <2>1. UNCHANGED grant BY <1>7 DEF vars
  <2> QED BY <1>1, <2>1
<1> HIDE DEF Kept
<1> QED BY <1>2, <1>3, <1>4, <1>5, <1>6, <1>7 DEF Next, ReapStep

\* Logout, reuse, replay, recovery and withdrawn consent each keep the first
\* stamp, and nothing ever lifts one.
THEOREM RevocationIsFinalAlways == Spec => RevocationIsFinal
<1>1. IInv /\ [Next]_vars =>
        [\A g \in Grants : Revoked(g) => grant'[g].revokedAt = grant[g].revokedAt]_vars
  BY StampsKept
<1> QED BY <1>1, FamilyInvariant, PTL DEF Spec, RevocationIsFinal

\* The request that spends a token.
Spender(t) == \E p \in TokenHolders(t) : req[p].client = grant[token[t].grant].client

LEMMA SpentByOwner ==
    ASSUME IInv, [Next]_vars, NEW t \in Tokens, Row(token[t]), ~token[t].used, token'[t].used
    PROVE  Spender(t)
<1>0. Typed BY DEF IInv
<1>1. ASSUME NEW p \in Requests, pc[p] \in Rotating, req[p].token = t PROVE Spender(t)
  BY <1>1 DEF Spender, TokenHolders, IInv, Families, OwnerRefreshes, Typed, RefreshRefs,
              RefreshPlaces, Rotating
<1>2. ASSUME UNCHANGED token PROVE FALSE BY <1>2
<1>3. ASSUME NEW p \in Requests, HandlerStep(p) PROVE Spender(t)
  <2>1. CASE RotateReadGrant(p) \/ RotateReadSession(p)
    <3>1. pc[p] \in Rotating /\ req[p].token \in Tokens
      BY <2>1 DEF RotateReadGrant, RotateReadSession, Rotating, IInv, Typed, RefreshRefs, RefreshPlaces
    <3>2. UNCHANGED token \/ SpendToken(req[p].token)
      BY <2>1 DEF RotateReadGrant, RotateReadSession
    <3>3. req[p].token = t
      BY <1>2, <3>1, <3>2 DEF SpendToken, IInv, Typed, TypeOK
    <3> QED BY <1>1, <3>1, <3>3
  <2>2. CASE RotateCommit(p)
    <3>1. pc[p] \in Rotating /\ pc[p] \in RefreshPlaces
      BY <2>2 DEF RotateCommit, Rotating, RefreshPlaces
    <3>2. PICK next \in NextId(token, Tokens) : token' = Rotated(p, next)
      BY <1>2, <2>2 DEF RotateCommit, Rotated
    <3>3. /\ \A u \in Tokens \ {next, req[p].token} : token'[u] = token[u]
          /\ token[next].st = "none"
      BY <1>0, <3>1, <3>2, RotatedTokens
    <3>4. req[p].token = t BY <3>3 DEF Row
    <3> QED BY <1>1, <3>1, <3>4
  <2>3. CASE CodeCommit(p)
    <3>1. \A u \in Tokens : token[u].st # "none" => token'[u] = token[u]
      BY <1>0, <2>3, RedeemedRows
    <3> QED BY <3>1 DEF Row
  <2>4. CASE \/ RotateBegin(p) \/ RotateConsume(p) \/ RotateLookup(p) \/ RotateReuse(p)
             \/ MintRefreshed(p) \/ CodeConsume(p) \/ CodeLookup(p) \/ CodeReplay(p)
             \/ CodeDecide(p) \/ CodeInsert(p) \/ Finish(p)
    <3>1. UNCHANGED token
      BY <2>4 DEF RotateBegin, RotateConsume, RotateLookup, RotateReuse, MintRefreshed, CodeConsume,
                  CodeLookup, CodeReplay, CodeDecide, CodeInsert, Finish, dbVars
    <3> QED BY <1>2, <3>1
  <2> QED BY <1>3, <2>1, <2>2, <2>3, <2>4 DEF HandlerStep
<1>4. CASE ReapCommit BY <1>0, <1>4, ReapedRows
<1>5. CASE Environment
  <2>1. UNCHANGED token
    BY <1>5 DEF Environment, Tick, SetEnabled, SetPolicy, EndAllAccess, Login, EndSession, EvictSession,
                IssueAuthorizationCode, RevokeForSubjectClient, RespondToRevocationRequest
  <2> QED BY <1>2, <2>1
<1>6. ASSUME NEW p \in Requests, Arrive(p) \/ Fail(p) PROVE FALSE
  <2>1. UNCHANGED token BY <1>6 DEF Arrive, PresentRefreshToken, PresentCode, Fail, dbVars
  <2> QED BY <1>2, <2>1
<1>7. CASE \/ ReapBegin \/ ReapFail \/ ReapTokens \/ ReapTokensLock \/ ReapCodes \/ ReapCodesLock
           \/ ReapGrants \/ ReapSessions \/ ReapSessionsLock
  <2>1. UNCHANGED token
    BY <1>7 DEF ReapBegin, ReapFail, ReapTokens, ReapTokensLock, ReapCodes, ReapCodesLock,
                ReapGrants, ReapSessions, ReapSessionsLock, dbVars
  <2> QED BY <1>2, <2>1
<1>8. CASE UNCHANGED vars
  <2>1. UNCHANGED token BY <1>8 DEF vars
  <2> QED BY <1>2, <2>1
<1> QED BY <1>3, <1>4, <1>5, <1>6, <1>7, <1>8 DEF Next, ReapStep

\* A refresh token is spent only by a request of the client its family was
\* issued to, whatever the gate read before the token was locked.
THEOREM ForeignClientSpendsNothingAlways == Spec => ForeignClientSpendsNothing
<1>1. IInv /\ [Next]_vars =>
        [\A t \in Tokens : Row(token[t]) /\ ~token[t].used /\ token'[t].used =>
            \E p \in TokenHolders(t) : req[p].client = grant[token[t].grant].client]_vars
  BY SpentByOwner DEF Spender
<1> QED BY <1>1, FamilyInvariant, PTL DEF Spec, ForeignClientSpendsNothing
=============================================================================
