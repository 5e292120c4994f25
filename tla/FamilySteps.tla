------------------------------ MODULE FamilySteps ------------------------------
(***************************************************************************)
(* What a step of TokenFamilies may do to a row once it is made, and to a  *)
(* request that is not the one taking it.  The proofs about the endings of *)
(* a family cite these in place of the actions.                            *)
(***************************************************************************)
EXTENDS TokenFamiliesProofs

\* A row stays as it was made, but for the columns that only move one way.
GrantKept(g) ==
    /\ grant'[g].st \in {grant[g].st, "gone"}
    /\ grant'[g].client = grant[g].client /\ grant'[g].scope = grant[g].scope
    /\ grant'[g].audience = grant[g].audience /\ grant'[g].created = grant[g].created
    /\ grant'[g].from = grant[g].from
    /\ Revoked(g) => grant'[g].revokedAt = grant[g].revokedAt
    /\ ReapCommit \/ (grant'[g].st = grant[g].st /\ grant'[g].session = grant[g].session)
TokenKept(t) ==
    /\ token'[t].st \in {token[t].st, "gone"}
    /\ token'[t].grant = token[t].grant /\ token'[t].expires = token[t].expires
    /\ token[t].used => token'[t].used
    /\ ReapCommit \/ token'[t].st = token[t].st
CodeKept(c) ==
    /\ code'[c].st \in {code[c].st, "gone"}
    /\ code'[c].session = code[c].session /\ code'[c].scope = code[c].scope
    /\ code'[c].resource = code[c].resource /\ code'[c].expires = code[c].expires
    /\ code[c].consumed => code'[c].consumed /\ code'[c].grant = code[c].grant
    /\ ReapCommit \/ code'[c].st = code[c].st
SessionKept(s) ==
    /\ session'[s].st \in {session[s].st, "gone"}
    /\ \/ session'[s].expires = session[s].expires
       \/ session[s].expires > now /\ session'[s].expires = now
    /\ ReapCommit \/ session'[s].st = session[s].st
RowsKept ==
    /\ \A g \in Grants : grant[g].st # "none" => GrantKept(g)
    /\ \A t \in Tokens : token[t].st # "none" => TokenKept(t)
    /\ \A c \in Codes : code[c].st # "none" => CodeKept(c)
    /\ \A s \in Sessions : session[s].st # "none" => SessionKept(s)

\* The tables whose rows no step but a few can touch.
LEMMA SameRows ==
    /\ UNCHANGED grant => \A g \in Grants : GrantKept(g)
    /\ UNCHANGED token => \A t \in Tokens : TokenKept(t)
    /\ UNCHANGED code => \A c \in Codes : CodeKept(c)
    /\ UNCHANGED session => \A s \in Sessions : SessionKept(s)
BY DEF GrantKept, TokenKept, CodeKept, SessionKept, Revoked

LEMMA RevokingKeeps ==
    ASSUME Typed, NEW gs, NEW t \in Nat, grant' = RevokeAll(gs, t), NEW g \in Grants
    PROVE  GrantKept(g)
<1>1. grant[g] \in GrantRow /\ grant \in [Grants -> GrantRow] BY DEF Typed, TypeOK
<1>2. grant'[g] = IF g \in gs /\ Row(grant[g]) /\ ~Revoked(g)
                  THEN [grant[g] EXCEPT !.revokedAt = t] ELSE grant[g]
  BY DEF RevokeAll
<1>3. CASE g \in gs /\ Row(grant[g]) /\ ~Revoked(g)
  BY <1>1, <1>2, <1>3 DEF GrantKept, GrantRow
<1>4. CASE ~(g \in gs /\ Row(grant[g]) /\ ~Revoked(g))
  BY <1>2, <1>4 DEF GrantKept
<1> QED BY <1>3, <1>4

LEMMA EndAllKeeps ==
    ASSUME Typed, NEW ss, session' = EndAll(ss, now), NEW s \in Sessions
    PROVE  SessionKept(s)
<1>1. session[s] \in SessionRow /\ now \in Nat BY DEF Typed, TypeOK
<1>2. session'[s] = IF s \in ss /\ Row(session[s]) /\ session[s].expires > now
                    THEN [session[s] EXCEPT !.expires = now] ELSE session[s]
  BY DEF EndAll
<1> QED BY <1>1, <1>2 DEF SessionKept, SessionRow

\* Spending a token changes that it is used and nothing else.
LEMMA SpendingKeeps ==
    ASSUME Typed, NEW u \in Tokens, SpendToken(u), NEW t \in Tokens
    PROVE  TokenKept(t) /\ token'[t].st = token[t].st
BY DEF SpendToken, Typed, TypeOK, TokenRow, TokenKept

\* A redemption's commit, row by row.
LEMMA Redeems ==
    ASSUME Typed, NEW p \in Requests, CodeCommit(p)
    PROVE  /\ req[p].code \in Codes /\ pc[p] = "codeCommit"
           /\ \E g \in Grants :
                /\ grant[g].st = "none" /\ grant'[g] = NewGrant(req[p])
                /\ \A h \in Grants \ {g} : grant'[h] = grant[h]
                /\ code'[req[p].code].consumed /\ code'[req[p].code].grant = g
                /\ \A t \in Tokens : \/ token'[t] = token[t]
                                     \/ token[t].st = "none" /\ token'[t] = NewToken(g, req[p].now)
           /\ \A c \in Codes \ {req[p].code} : code'[c] = code[c]
           /\ code'[req[p].code].st = code[req[p].code].st
           /\ ~code[req[p].code].consumed => CodeKept(req[p].code)
<1> DEFINE c == req[p].code
<1>1. c \in Codes /\ pc[p] = "codeCommit" BY DEF CodeCommit, Typed, CodeRefs, CodePlaces
<1>2. PICK g \in NextId(grant, Grants) :
        /\ grant' = [grant EXCEPT ![g] = NewGrant(req[p])]
        /\ code' = [code EXCEPT ![c].consumed = TRUE, ![c].grant = g]
        /\ IF RefreshAllowedForScope(code[c].scope)
           THEN \E t \in NextId(token, Tokens) :
                  token' = [token EXCEPT ![t] = NewToken(g, req[p].now)]
           ELSE UNCHANGED token
  BY DEF CodeCommit
<1>3. g \in Grants /\ grant[g].st = "none" BY DEF NextId, Fresh
<1>4. grant'[g] = NewGrant(req[p]) /\ \A h \in Grants \ {g} : grant'[h] = grant[h]
  BY <1>2, <1>3 DEF Typed, TypeOK
<1>5. /\ code' = [code EXCEPT ![c] = [code[c] EXCEPT !.consumed = TRUE, !.grant = g]]
      /\ code[c] \in CodeRow /\ code \in [Codes -> CodeRow]
  BY <1>1, <1>2 DEF Typed, TypeOK
<1>6. /\ code'[c].consumed /\ code'[c].grant = g /\ code'[c].st = code[c].st
      /\ ~code[c].consumed => CodeKept(c)
      /\ \A d \in Codes \ {c} : code'[d] = code[d]
  BY <1>1, <1>5 DEF CodeRow, CodeKept
<1>7. ASSUME NEW t \in Tokens
      PROVE  token'[t] = token[t] \/ (token[t].st = "none" /\ token'[t] = NewToken(g, req[p].now))
  BY <1>2 DEF NextId, Fresh, Typed, TypeOK
<1> QED BY <1>1, <1>3, <1>4, <1>6, <1>7

\* The retention pass's commit, row by row.
LEMMA Reaps ==
    ASSUME Typed, ReapCommit
    PROVE  /\ \A t \in Tokens : TokenKept(t) /\
                 token'[t].st = IF t \in reap.tokens \union Cascaded THEN "gone" ELSE token[t].st
           /\ \A c \in Codes : CodeKept(c) /\ code'[c].grant = code[c].grant /\
                 code'[c].st = IF c \in reap.codes THEN "gone" ELSE code[c].st
           /\ \A s \in Sessions : SessionKept(s) /\ session'[s].expires = session[s].expires /\
                 session'[s].st = IF s \in reap.sessions THEN "gone" ELSE session[s].st
           /\ \A g \in Grants : GrantKept(g) /\
                 /\ grant'[g].st = IF g \in reap.grants THEN "gone" ELSE grant[g].st
                 /\ g \notin reap.grants /\ grant[g].session \notin reap.sessions => grant'[g] = grant[g]
                 /\ grant'[g].session \in {grant[g].session, None}
<1>1. /\ token \in [Tokens -> TokenRow] /\ code \in [Codes -> CodeRow]
      /\ session \in [Sessions -> SessionRow] /\ grant \in [Grants -> GrantRow]
  BY DEF Typed, TypeOK
<1>2. ASSUME NEW t \in Tokens
      PROVE  TokenKept(t) /\
             token'[t].st = IF t \in reap.tokens \union Cascaded THEN "gone" ELSE token[t].st
  <2>1. token'[t] = IF t \in reap.tokens \union Cascaded THEN [token[t] EXCEPT !.st = "gone"] ELSE token[t]
    BY <1>1 DEF ReapCommit, Delete
  <2>2. token[t] \in TokenRow BY <1>1
  <2> QED BY <2>1, <2>2 DEF TokenKept, TokenRow
<1>3. ASSUME NEW c \in Codes
      PROVE  CodeKept(c) /\ code'[c].grant = code[c].grant /\
             code'[c].st = IF c \in reap.codes THEN "gone" ELSE code[c].st
  <2>1. code'[c] = IF c \in reap.codes THEN [code[c] EXCEPT !.st = "gone"] ELSE code[c]
    BY <1>1 DEF ReapCommit, Delete
  <2>2. code[c] \in CodeRow BY <1>1
  <2> QED BY <2>1, <2>2 DEF CodeKept, CodeRow
<1>4. ASSUME NEW s \in Sessions
      PROVE  SessionKept(s) /\ session'[s].expires = session[s].expires /\
             session'[s].st = IF s \in reap.sessions THEN "gone" ELSE session[s].st
  <2>1. session'[s] = IF s \in reap.sessions THEN [session[s] EXCEPT !.st = "gone"] ELSE session[s]
    BY <1>1 DEF ReapCommit, Delete
  <2>2. session[s] \in SessionRow BY <1>1
  <2> QED BY <2>1, <2>2 DEF SessionKept, SessionRow
<1>5. ASSUME NEW g \in Grants
      PROVE  /\ GrantKept(g)
             /\ grant'[g].st = IF g \in reap.grants THEN "gone" ELSE grant[g].st
             /\ g \notin reap.grants /\ grant[g].session \notin reap.sessions => grant'[g] = grant[g]
             /\ grant'[g].session \in {grant[g].session, None}
  <2>1. grant'[g] = IF g \in reap.grants THEN [grant[g] EXCEPT !.st = "gone"]
                    ELSE IF grant[g].session \in reap.sessions THEN [grant[g] EXCEPT !.session = None]
                    ELSE grant[g]
    BY DEF ReapCommit
  <2>2. grant[g] \in GrantRow BY <1>1
  <2> QED BY <2>1, <2>2 DEF GrantKept, GrantRow
<1> QED BY <1>2, <1>3, <1>4, <1>5

\* Every step keeps the rows there are.
LEMMA RowsStep == ASSUME IInv, [Next]_vars PROVE RowsKept
<1>0. Typed /\ now \in Nat /\ \A p \in Requests : req[p].now \in Nat
  BY DEF IInv, Typed, TypeOK, Request
<1> DEFINE Quiet == UNCHANGED dbVars
<1>1. CASE Quiet BY <1>1, SameRows DEF dbVars, RowsKept
<1>2. ASSUME NEW gs, NEW t \in Nat, grant' = RevokeAll(gs, t), UNCHANGED <<code, token>>,
             UNCHANGED session \/ \E ss : session' = EndAll(ss, now)
      PROVE  RowsKept
  BY <1>0, <1>2, SameRows, RevokingKeeps, EndAllKeeps DEF RowsKept
<1>3. CASE Environment
  <2>1. CASE Tick \/ SetEnabled \/ SetPolicy
    BY <1>1, <2>1 DEF Tick, SetEnabled, SetPolicy, dbVars
  <2>2. CASE EndAllAccess BY <1>0, <1>2, <2>2 DEF EndAllAccess
  <2>3. ASSUME NEW s \in Sessions, Login(s) PROVE RowsKept
    <3>1. \A z \in Sessions : session[z].st # "none" => session'[z] = session[z]
      BY <2>3 DEF Login, IInv, Typed, TypeOK
    <3> QED BY <2>3, <3>1, SameRows DEF Login, RowsKept, SessionKept
  <2>4. ASSUME NEW s \in Sessions, EndSession(s) PROVE RowsKept
    BY <1>0, <1>2, <2>4 DEF EndSession
  <2>5. ASSUME NEW s \in Sessions, EvictSession(s) PROVE RowsKept
    <3>1. \A z \in Sessions : SessionKept(z)
      BY <1>0, <2>5 DEF EvictSession, SessionKept, SessionRow, Typed, TypeOK
    <3> QED BY <2>5, <3>1, SameRows DEF EvictSession, RowsKept
  <2>6. ASSUME NEW c \in Codes, NEW client \in Clients, NEW s \in Sessions, NEW kind \in CodeKinds,
               IssueAuthorizationCode(c, client, s, kind)
        PROVE  RowsKept
    <3>1. \A d \in Codes : code[d].st # "none" => code'[d] = code[d]
      BY <2>6 DEF IssueAuthorizationCode, IInv, Typed, TypeOK
    <3> QED BY <2>6, <3>1, SameRows DEF IssueAuthorizationCode, RowsKept, CodeKept
  <2>7. ASSUME NEW client \in Clients, RevokeForSubjectClient(client) PROVE RowsKept
    BY <1>0, <1>2, <2>7 DEF RevokeForSubjectClient
  <2>8. ASSUME NEW client \in Clients, NEW g \in Grants, RespondToRevocationRequest(client, g)
        PROVE  RowsKept
    BY <1>0, <1>2, <2>8 DEF RespondToRevocationRequest
  <2> QED BY <1>3, <2>1, <2>2, <2>3, <2>4, <2>5, <2>6, <2>7, <2>8 DEF Environment
<1>4. ASSUME NEW p \in Requests, Arrive(p) \/ Fail(p) PROVE RowsKept
  BY <1>1, <1>4 DEF Arrive, PresentRefreshToken, PresentCode, Fail
<1>5. ASSUME NEW p \in Requests, HandlerStep(p) PROVE RowsKept
  <2>1. CASE RotateReuse(p) BY <1>0, <1>2, <2>1 DEF RotateReuse
  <2>2. CASE CodeReplay(p) BY <1>0, <1>2, <2>2 DEF CodeReplay
  <2>3. CASE RotateReadGrant(p) \/ RotateReadSession(p)
    <3>1. req[p].token \in Tokens
      BY <2>3 DEF RotateReadGrant, RotateReadSession, IInv, Typed, RefreshRefs, RefreshPlaces
    <3>2. \A t \in Tokens : TokenKept(t)
      BY <1>0, <2>3, <3>1, SameRows, SpendingKeeps DEF RotateReadGrant, RotateReadSession
    <3> QED BY <2>3, <3>2, SameRows DEF RotateReadGrant, RotateReadSession, RowsKept
  <2>4. CASE RotateCommit(p) /\ Row(grant[req[p].grant])
    <3>1. pc[p] \in RefreshPlaces BY <2>4 DEF RotateCommit, RefreshPlaces
    <3>2. PICK next \in NextId(token, Tokens) : token' = Rotated(p, next)
      BY <2>4 DEF RotateCommit, Rotated
    <3>3. \A t \in Tokens : token[t].st # "none" => TokenKept(t)
      BY <1>0, <3>1, <3>2, RotatedTokens DEF TokenKept
    <3>4. \A s \in Sessions : SessionKept(s)
      <4>1. Touch(req[p].seen.session, req[p].now) BY <2>4 DEF RotateCommit
      <4>2. session \in [Sessions -> SessionRow] BY DEF IInv, Typed, TypeOK
      <4> QED BY <1>0, <4>1, <4>2 DEF Touch, SessionRow, SessionKept
    <3> QED BY <2>4, <3>3, <3>4, SameRows DEF RotateCommit, RowsKept
  <2>5. CASE RotateCommit(p) /\ ~Row(grant[req[p].grant])
    BY <1>1, <2>5 DEF RotateCommit, dbVars
  <2>6. CASE CodeCommit(p)
    <3>1. ~code[req[p].code].consumed /\ UNCHANGED session
      BY <2>6 DEF CodeCommit, IInv, Families, CodeHeld, Redeeming
    <3>2. \A c \in Codes : CodeKept(c) BY <1>0, <2>6, <3>1, Redeems DEF CodeKept
    <3>3. \A t \in Tokens : token[t].st # "none" => TokenKept(t)
      BY <1>0, <2>6, Redeems DEF TokenKept
    <3>4. \A g \in Grants : grant[g].st # "none" => GrantKept(g)
      BY <1>0, <2>6, Redeems DEF GrantKept
    <3> QED BY <3>1, <3>2, <3>3, <3>4, SameRows DEF RowsKept
  <2>7. CASE \/ RotateBegin(p) \/ RotateConsume(p) \/ RotateLookup(p) \/ MintRefreshed(p)
             \/ CodeConsume(p) \/ CodeLookup(p) \/ CodeDecide(p) \/ CodeInsert(p) \/ Finish(p)
    BY <1>1, <2>7 DEF RotateBegin, RotateConsume, RotateLookup, MintRefreshed, CodeConsume, CodeLookup,
                      CodeDecide, CodeInsert, Finish
  <2> QED BY <1>5, <2>1, <2>2, <2>3, <2>4, <2>5, <2>6, <2>7 DEF HandlerStep
<1>6. CASE ReapCommit BY <1>0, <1>6, Reaps DEF RowsKept
<1>7. CASE \/ ReapBegin \/ ReapFail \/ ReapTokens \/ ReapTokensLock \/ ReapCodes \/ ReapCodesLock
           \/ ReapGrants \/ ReapSessions \/ ReapSessionsLock
  BY <1>1, <1>7 DEF ReapBegin, ReapFail, ReapTokens, ReapTokensLock, ReapCodes, ReapCodesLock,
                    ReapGrants, ReapSessions, ReapSessionsLock
<1>8. CASE UNCHANGED vars BY <1>1, <1>8 DEF vars, dbVars
<1> QED BY <1>3, <1>4, <1>5, <1>6, <1>7, <1>8 DEF Next, ReapStep

\* A request changes by a step of its own.
RequestStep(p) == Arrive(p) \/ HandlerStep(p) \/ Fail(p)

LEMMA OthersStay ==
    ASSUME IInv, [Next]_vars, NEW p \in Requests, ~RequestStep(p)
    PROVE  pc'[p] = pc[p] /\ req'[p] = req[p]
<1>1. ASSUME NEW q \in Requests \ {p}, RequestStep(q) PROVE pc'[p] = pc[p] /\ req'[p] = req[p]
  <2>1. pc \in [Requests -> Places] /\ req \in [Requests -> Request] BY DEF IInv, Typed, TypeOK
  <2>2. CASE Arrive(q)
    <3>1. \A client, t, scope, resource :
            PresentRefreshToken(q, client, t, scope, resource) => pc'[p] = pc[p] /\ req'[p] = req[p]
      BY <2>1 DEF PresentRefreshToken
    <3>2. \A client, c, proof, resource :
            PresentCode(q, client, c, proof, resource) => pc'[p] = pc[p] /\ req'[p] = req[p]
      BY <2>1 DEF PresentCode
    <3> QED BY <2>2, <3>1, <3>2 DEF Arrive
  <2>3. CASE Fail(q) BY <2>1, <2>3 DEF Fail, Answer
  <2>4. CASE HandlerStep(q)
    BY <2>1, <2>4 DEF HandlerStep, RotateBegin, RotateConsume, RotateLookup, RotateReuse, RotateReadGrant,
       RotateReadSession, RotateCommit, MintRefreshed, CodeConsume, CodeLookup, CodeReplay,
       CodeDecide, CodeInsert, CodeCommit, Finish, Goto, Answer
  <2> QED BY <1>1, <2>2, <2>3, <2>4 DEF RequestStep
<1>2. CASE Environment
  BY <1>2 DEF Environment, Tick, SetEnabled, SetPolicy, EndAllAccess, Login, EndSession, EvictSession,
              IssueAuthorizationCode, RevokeForSubjectClient, RespondToRevocationRequest
<1>3. CASE ReapBegin \/ ReapStep \/ ReapFail
  BY <1>3 DEF ReapStep, ReapBegin, ReapFail, ReapTokens, ReapTokensLock, ReapCodes, ReapCodesLock,
              ReapGrants, ReapSessions, ReapSessionsLock, ReapCommit
<1>4. CASE UNCHANGED vars BY <1>4 DEF vars
<1> QED BY <1>1, <1>2, <1>3, <1>4 DEF Next, RequestStep

-----------------------------------------------------------------------------
(* What a request's own step makes of it, field by field *)

LEMMA BlankRequest ==
    /\ NoRequest.token = None /\ NoRequest.code = None /\ NoRequest.now = 0
    /\ NoRequest.outcome = "none" /\ NoRequest.reason = ""
BY DEF NoRequest

LEMMA Answering ==
    ASSUME Typed, NEW p \in Requests, NEW outcome, NEW reason, Answer(p, outcome, reason)
    PROVE  /\ pc'[p] = "done"
           /\ req'[p].client = req[p].client /\ req'[p].token = req[p].token
           /\ req'[p].code = req[p].code /\ req'[p].grant = req[p].grant
           /\ req'[p].spent = req[p].spent /\ req'[p].ended = req[p].ended
           /\ req'[p].outcome = outcome /\ req'[p].reason = reason
           /\ req'[p].now = 0
<1>1. pc'[p] = "done" /\ req'[p] = Answered(req[p], outcome, reason)
  BY DEF Answer, Typed, TypeOK
<1> QED BY <1>1 DEF Answered, NoRequest

LEMMA Going ==
    ASSUME Typed, NEW p \in Requests, NEW place, Goto(p, place)
    PROVE  pc'[p] = place /\ req'[p] = req[p]
BY DEF Goto, Typed, TypeOK

\* The gate lets the request through.
Admitted(client, t, scope, resource) == GateVerdict(client, t, scope, resource) = "ok"

LEMMA Presenting ==
    ASSUME Typed, NEW p \in Requests, NEW client \in Clients, NEW t \in Tokens,
           NEW scope \in AskedScopes, NEW resource \in AskedResources,
           PresentRefreshToken(p, client, t, scope, resource)
    PROVE  /\ pc[p] = "idle" /\ token[t].st # "none" /\ UNCHANGED <<envVars, dbVars, reap>>
           /\ req'[p].client = client /\ req'[p].token = t /\ req'[p].code = None
           /\ req'[p].grant = token[t].grant /\ (req'[p].spent <=> token[t].used) /\ ~req'[p].ended
           /\ Admitted(client, t, scope, resource) =>
                 /\ pc'[p] = "begin" /\ req'[p].outcome = "none"
                 /\ req'[p].scope = scope /\ req'[p].resource = resource /\ req'[p].policy = policy
                 /\ req'[p].now = now
           /\ ~Admitted(client, t, scope, resource) =>
                 /\ pc'[p] = "done" /\ req'[p].outcome = "refused"
                 /\ req'[p].reason = GateVerdict(client, t, scope, resource)
                 /\ req'[p].now = 0
<1> DEFINE verdict == GateVerdict(client, t, scope, resource)
           arrived == [NoRequest EXCEPT !.client = client, !.token = t, !.scope = scope,
                           !.resource = resource, !.policy = policy, !.now = now,
                           !.grant = token[t].grant, !.spent = token[t].used]
<1>1. /\ pc[p] = "idle" /\ token[t].st # "none" /\ UNCHANGED <<envVars, dbVars, reap>>
      /\ IF verdict = "ok" THEN pc'[p] = "begin" /\ req'[p] = arrived
         ELSE pc'[p] = "done" /\ req'[p] = Answered(arrived, "refused", verdict)
  BY DEF PresentRefreshToken, Typed, TypeOK
<1>2. /\ arrived.client = client /\ arrived.token = t /\ arrived.code = None
      /\ arrived.grant = token[t].grant /\ arrived.spent = token[t].used /\ arrived.ended = FALSE
      /\ arrived.scope = scope /\ arrived.resource = resource /\ arrived.policy = policy
      /\ arrived.now = now /\ arrived.outcome = "none"
  BY DEF NoRequest
<1> HIDE DEF arrived, verdict
<1>3. CASE verdict = "ok" BY <1>1, <1>2, <1>3 DEF verdict, Admitted
<1>4. CASE verdict # "ok"
  <2>1. /\ pc'[p] = "done" /\ req'[p] = Answered(arrived, "refused", verdict) BY <1>1, <1>4
  <2> QED BY <1>1, <1>2, <1>4, <2>1 DEF Answered, NoRequest, verdict, Admitted
<1> QED BY <1>3, <1>4

LEMMA PresentingCode ==
    ASSUME Typed, NEW p \in Requests, NEW client, NEW c, NEW proof, NEW resource,
           PresentCode(p, client, c, proof, resource)
    PROVE  /\ pc[p] = "idle" /\ code[c].st # "none" /\ UNCHANGED <<envVars, dbVars, reap>>
           /\ pc'[p] = "codeConsume"
           /\ req'[p].client = client /\ req'[p].token = None /\ req'[p].code = c
           /\ req'[p].resource = resource /\ req'[p].now = now /\ req'[p].at = now
           /\ req'[p].spent = code[c].consumed /\ req'[p].outcome = "none"
<1> DEFINE arrived == [NoRequest EXCEPT !.client = client, !.code = c, !.proof = proof,
                           !.resource = resource, !.now = now, !.at = now,
                           !.spent = code[c].consumed]
<1>1. /\ pc[p] = "idle" /\ code[c].st # "none" /\ UNCHANGED <<envVars, dbVars, reap>>
      /\ pc'[p] = "codeConsume" /\ req'[p] = arrived
  BY DEF PresentCode, Typed, TypeOK
<1>2. /\ arrived.client = client /\ arrived.token = None /\ arrived.code = c
      /\ arrived.resource = resource /\ arrived.now = now /\ arrived.at = now
      /\ arrived.spent = code[c].consumed /\ arrived.outcome = "none"
  BY DEF NoRequest
<1> QED BY <1>1, <1>2

\* A step inside the handler that writes to what the request carries.
LEMMA Carrying ==
    ASSUME Typed, NEW p \in Requests
    PROVE  /\ RotateBegin(p) =>
                 /\ pc[p] = "begin" /\ pc'[p] = "consume" /\ UNCHANGED <<envVars, dbVars, reap>>
                 /\ req'[p] = [req[p] EXCEPT !.at = now, !.ended = Ended(req[p].grant, req[p].now)]
           /\ RotateReadGrant(p) /\ Row(grant[req[p].grant]) /\ ~Revoked(req[p].grant) =>
                 /\ pc[p] = "readGrant" /\ UNCHANGED <<envVars, dbVars, reap>>
                 /\ pc'[p] = IF grant[req[p].grant].session = None THEN "rotate" ELSE "readSession"
                 /\ req'[p] = [req[p] EXCEPT !.seen = grant[req[p].grant]]
           /\ CodeDecide(p) /\ RedeemVerdict(p) = "ok" =>
                 /\ pc[p] = "codeDecide" /\ pc'[p] = "codeInsert" /\ UNCHANGED <<envVars, dbVars, reap>>
                 /\ req'[p] = [req[p] EXCEPT !.now = now]
           /\ CodeLookup(p) /\ Row(code[req[p].code]) /\ code[req[p].code].grant # None =>
                 /\ pc[p] = "codeLookup" /\ pc'[p] = "codeReplay" /\ UNCHANGED <<envVars, dbVars, reap>>
                 /\ req'[p] = [req[p] EXCEPT !.grant = code[req[p].code].grant]
           /\ Finish(p) => pc'[p] = "idle" /\ req'[p] = NoRequest /\ UNCHANGED <<envVars, dbVars, reap>>
<1>0. pc \in [Requests -> Places] /\ req \in [Requests -> Request] BY DEF Typed, TypeOK
<1>1. RotateBegin(p) =>
        /\ pc[p] = "begin" /\ pc'[p] = "consume" /\ UNCHANGED <<envVars, dbVars, reap>>
        /\ req'[p] = [req[p] EXCEPT !.at = now, !.ended = Ended(req[p].grant, req[p].now)]
  BY <1>0 DEF RotateBegin, Request
<1>2. RotateReadGrant(p) /\ Row(grant[req[p].grant]) /\ ~Revoked(req[p].grant) =>
        /\ pc[p] = "readGrant" /\ UNCHANGED <<envVars, dbVars, reap>>
        /\ pc'[p] = IF grant[req[p].grant].session = None THEN "rotate" ELSE "readSession"
        /\ req'[p] = [req[p] EXCEPT !.seen = grant[req[p].grant]]
  BY <1>0 DEF RotateReadGrant, Revoked, dbVars
<1>3. CodeDecide(p) /\ RedeemVerdict(p) = "ok" =>
        /\ pc[p] = "codeDecide" /\ pc'[p] = "codeInsert" /\ UNCHANGED <<envVars, dbVars, reap>>
        /\ req'[p] = [req[p] EXCEPT !.now = now]
  BY <1>0 DEF CodeDecide
<1>4. CodeLookup(p) /\ Row(code[req[p].code]) /\ code[req[p].code].grant # None =>
        /\ pc[p] = "codeLookup" /\ pc'[p] = "codeReplay" /\ UNCHANGED <<envVars, dbVars, reap>>
        /\ req'[p] = [req[p] EXCEPT !.grant = code[req[p].code].grant]
  BY <1>0 DEF CodeLookup
<1>5. Finish(p) => pc'[p] = "idle" /\ req'[p] = NoRequest /\ UNCHANGED <<envVars, dbVars, reap>>
  BY <1>0 DEF Finish
<1> QED BY <1>1, <1>2, <1>3, <1>4, <1>5

-----------------------------------------------------------------------------
(* The tables and the clock, step by step *)

\* Only a redemption or a rotation makes a token.
LEMMA NewTokens ==
    ASSUME IInv, [Next]_vars, NEW t \in Tokens, token[t].st = "none"
    PROVE  \/ token'[t].st = "none"
           \/ /\ token'[t].st = "row"
              /\ \/ grant[token'[t].grant].st = "none"
                 \/ \E p \in Requests : pc[p] = "rotate" /\ token'[t].grant = req[p].grant
<1>0. Typed /\ token \in [Tokens -> TokenRow] BY DEF IInv, Typed, TypeOK
<1>1. CASE UNCHANGED token BY <1>1
<1>2. ASSUME NEW p \in Requests, HandlerStep(p) PROVE
        \/ token'[t].st = "none"
        \/ /\ token'[t].st = "row"
           /\ \/ grant[token'[t].grant].st = "none"
              \/ \E q \in Requests : pc[q] = "rotate" /\ token'[t].grant = req[q].grant
  <2>1. CASE RotateReadGrant(p) \/ RotateReadSession(p)
    <3>1. UNCHANGED token \/ SpendToken(req[p].token)
      BY <2>1 DEF RotateReadGrant, RotateReadSession
    <3>2. CASE SpendToken(req[p].token)
      BY <1>0, <3>2 DEF SpendToken, TokenRow
    <3> QED BY <1>1, <3>1, <3>2
  <2>2. CASE RotateCommit(p)
    <3>1. CASE ~Row(grant[req[p].grant]) BY <1>1, <2>2, <3>1 DEF RotateCommit
    <3>2. CASE Row(grant[req[p].grant])
      <4>1. pc[p] = "rotate" /\ pc[p] \in RefreshPlaces BY <2>2 DEF RotateCommit, RefreshPlaces
      <4>2. PICK next \in NextId(token, Tokens) : token' = Rotated(p, next)
        BY <2>2, <3>2 DEF RotateCommit, Rotated
      <4>3. /\ token'[next].st = "row" /\ token'[next].grant = req[p].grant
            /\ \A u \in Tokens \ {next} : token'[u].st = token[u].st
        BY <1>0, <4>1, <4>2, RotatedTokens
      <4> QED BY <4>1, <4>3
    <3> QED BY <3>1, <3>2
  <2>3. CASE CodeCommit(p)
    <3>1. PICK g \in Grants :
            /\ grant[g].st = "none"
            /\ token'[t] = token[t] \/ token'[t] = NewToken(g, req[p].now)
      BY <1>0, <2>3, Redeems
    <3>2. NewToken(g, req[p].now).st = "row" /\ NewToken(g, req[p].now).grant = g BY DEF NewToken
    <3>3. CASE token'[t] = token[t] BY <3>3
    <3>4. CASE token'[t] = NewToken(g, req[p].now) BY <3>1, <3>2, <3>4
    <3> QED BY <3>1, <3>3, <3>4
  <2>4. CASE ~(RotateReadGrant(p) \/ RotateReadSession(p) \/ RotateCommit(p) \/ CodeCommit(p))
    <3>1. UNCHANGED token
      BY <1>2, <2>4 DEF HandlerStep, RotateBegin, RotateConsume, RotateLookup, RotateReuse, MintRefreshed,
         CodeConsume, CodeLookup, CodeReplay, CodeDecide, CodeInsert, Finish, dbVars
    <3> QED BY <1>1, <3>1
  <2> QED BY <2>1, <2>2, <2>3, <2>4
<1>3. CASE ReapCommit
  <2>1. t \notin reap.tokens \union Cascaded
    BY DEF IInv, Typed, ReapRefs, Cascaded, Row
  <2>2. token'[t].st = token[t].st BY <1>0, <1>3, <2>1, Reaps
  <2> QED BY <2>2
<1>4. CASE Environment
  <2>1. UNCHANGED token
    BY <1>4 DEF Environment, Tick, SetEnabled, SetPolicy, EndAllAccess, Login, EndSession, EvictSession,
              IssueAuthorizationCode, RevokeForSubjectClient, RespondToRevocationRequest
  <2> QED BY <1>1, <2>1
<1>5. ASSUME NEW p \in Requests, Arrive(p) \/ Fail(p) PROVE UNCHANGED token
  BY <1>5 DEF Arrive, PresentRefreshToken, PresentCode, Fail, dbVars
<1>6. CASE ReapBegin \/ ReapFail \/ (ReapStep /\ ~ReapCommit)
  <2>1. UNCHANGED token
    BY <1>6 DEF ReapStep, ReapBegin, ReapFail, ReapTokens, ReapTokensLock, ReapCodes, ReapCodesLock,
              ReapGrants, ReapSessions, ReapSessionsLock, dbVars
  <2> QED BY <1>1, <2>1
<1>7. CASE UNCHANGED vars BY <1>1, <1>7 DEF vars
<1> QED BY <1>1, <1>2, <1>3, <1>4, <1>5, <1>6, <1>7 DEF Next

\* Only a redemption's commit spends a code.
LEMMA SpentCodes ==
    ASSUME IInv, [Next]_vars, NEW c \in Codes, ~code[c].consumed, code'[c].consumed
    PROVE  \E p \in Requests : CodeCommit(p) /\ req[p].code = c
<1>0. Typed /\ code \in [Codes -> CodeRow] BY DEF IInv, Typed, TypeOK
<1>1. CASE UNCHANGED code BY <1>1
<1>2. ASSUME NEW p \in Requests, CodeCommit(p) PROVE \E q \in Requests : CodeCommit(q) /\ req[q].code = c
  BY <1>0, <1>2, Redeems
<1>3. CASE ReapCommit
  <2>1. code'[c] = IF c \in reap.codes THEN [code[c] EXCEPT !.st = "gone"] ELSE code[c]
    BY <1>0, <1>3 DEF ReapCommit, Delete
  <2>2. code[c] \in CodeRow BY <1>0
  <2> QED BY <2>1, <2>2 DEF CodeRow
<1>4. CASE Environment
  <2>1. ASSUME NEW d \in Codes, NEW client \in Clients, NEW s \in Sessions, NEW kind \in CodeKinds,
               IssueAuthorizationCode(d, client, s, kind)
        PROVE  FALSE
    <3>1. code'[c] = code[c] \/ code'[c] = NewCode(client, s, kind, now)
      BY <1>0, <2>1 DEF IssueAuthorizationCode
    <3> QED BY <3>1 DEF NewCode
  <2>2. UNCHANGED code
    BY <1>4, <2>1 DEF Environment, Tick, SetEnabled, SetPolicy, EndAllAccess, Login, EndSession, EvictSession,
              RevokeForSubjectClient, RespondToRevocationRequest
  <2> QED BY <1>1, <2>2
<1>5. ASSUME NEW p \in Requests, Arrive(p) \/ Fail(p) PROVE UNCHANGED code
  BY <1>5 DEF Arrive, PresentRefreshToken, PresentCode, Fail, dbVars
<1>6. ASSUME NEW p \in Requests, HandlerStep(p), ~CodeCommit(p) PROVE UNCHANGED code
  BY <1>6 DEF HandlerStep, RotateBegin, RotateConsume, RotateLookup, RotateReuse, RotateReadGrant,
     RotateReadSession, RotateCommit, MintRefreshed, CodeConsume, CodeLookup, CodeReplay, CodeDecide,
     CodeInsert, Finish, dbVars
<1>7. CASE ReapBegin \/ ReapFail \/ (ReapStep /\ ~ReapCommit)
  <2>1. UNCHANGED code
    BY <1>7 DEF ReapStep, ReapBegin, ReapFail, ReapTokens, ReapTokensLock, ReapCodes, ReapCodesLock,
              ReapGrants, ReapSessions, ReapSessionsLock, dbVars
  <2> QED BY <1>1, <2>1
<1>8. CASE UNCHANGED vars BY <1>1, <1>8 DEF vars
<1> QED BY <1>1, <1>2, <1>3, <1>4, <1>5, <1>6, <1>7, <1>8 DEF Next

\* Time does not run backwards, and the pass moves by its own steps.
LEMMA PassUnmoved ==
    ASSUME IInv, [Next]_vars
    PROVE  /\ now' \in Nat /\ now <= now'
           /\ UNCHANGED reap \/ (UNCHANGED now /\ (ReapBegin \/ ReapStep \/ ReapFail))
<1>0. now \in Nat BY DEF IInv, Typed, TypeOK
<1>1. CASE Environment
  <2>1. UNCHANGED reap /\ (now' = now \/ now' = now + 1)
    BY <1>1 DEF Environment, Tick, SetEnabled, SetPolicy, EndAllAccess, Login, EndSession, EvictSession,
                IssueAuthorizationCode, RevokeForSubjectClient, RespondToRevocationRequest
  <2> QED BY <1>0, <2>1
<1>2. ASSUME NEW p \in Requests, Arrive(p) \/ Fail(p) PROVE UNCHANGED <<now, reap>>
  <2>1. \A client, t, scope, resource : PresentRefreshToken(p, client, t, scope, resource) => UNCHANGED <<now, reap>>
    BY DEF PresentRefreshToken, envVars
  <2>2. \A client, c, proof, resource : PresentCode(p, client, c, proof, resource) => UNCHANGED <<now, reap>>
    BY DEF PresentCode, envVars
  <2>3. Fail(p) => UNCHANGED <<now, reap>> BY DEF Fail, envVars
  <2> QED BY <1>2, <2>1, <2>2, <2>3 DEF Arrive
<1>3. ASSUME NEW p \in Requests, HandlerStep(p) PROVE UNCHANGED <<now, reap>>
  BY <1>3 DEF HandlerStep, RotateBegin, RotateConsume, RotateLookup, RotateReuse, RotateReadGrant,
     RotateReadSession, RotateCommit, MintRefreshed, CodeConsume, CodeLookup, CodeReplay, CodeDecide,
     CodeInsert, CodeCommit, Finish, envVars
<1>4. CASE ReapBegin \/ ReapStep \/ ReapFail
  <2>1. UNCHANGED now
    BY <1>4 DEF ReapStep, ReapBegin, ReapFail, ReapTokens, ReapTokensLock, ReapCodes, ReapCodesLock,
              ReapGrants, ReapSessions, ReapSessionsLock, ReapCommit, envVars
  <2> QED BY <1>0, <1>4, <2>1
<1>5. CASE UNCHANGED vars BY <1>0, <1>5 DEF vars
<1> QED BY <1>0, <1>1, <1>2, <1>3, <1>4, <1>5 DEF Next

\* A request comes to hold a code by finding it there, unspent and in time.
LEMMA ComesToHold ==
    ASSUME IInv, [Next]_vars, NEW p \in Requests, pc'[p] \in Redeeming
    PROVE  /\ req'[p].code = req[p].code /\ req'[p].at = req[p].at
           /\ pc[p] \in CodePlaces
           /\ pc[p] \in Redeeming \/ (UNCHANGED code /\ Redeemable(req[p].code, req[p].at))
<1>0. Typed /\ req[p] \in Request BY DEF IInv, Typed, TypeOK
<1> USE DEF Redeeming, CodePlaces
<1>1. CASE ~RequestStep(p) BY <1>1, OthersStay
<1>2. ASSUME NEW outcome, NEW reason, Answer(p, outcome, reason) PROVE FALSE
  BY <1>0, <1>2, Answering
<1>3. CASE Arrive(p)
  <2>1. ASSUME NEW client \in Clients, NEW t \in Tokens, NEW scope \in AskedScopes,
               NEW resource \in AskedResources, PresentRefreshToken(p, client, t, scope, resource)
        PROVE  FALSE
    BY <1>0, <2>1, Presenting
  <2>2. ASSUME NEW client \in Clients, NEW c \in Codes, NEW proof \in BOOLEAN,
               NEW resource \in AskedResources, PresentCode(p, client, c, proof, resource)
        PROVE  FALSE
    BY <1>0, <2>2, PresentingCode
  <2> QED BY <1>3, <2>1, <2>2 DEF Arrive
<1>4. CASE Fail(p) BY <1>2, <1>4 DEF Fail
<1>5. CASE RotateBegin(p) \/ Finish(p) BY <1>0, <1>5, Carrying
<1>6. CASE RotateConsume(p) \/ RotateLookup(p) \/ RotateReuse(p) \/ RotateReadSession(p)
           \/ RotateCommit(p) \/ MintRefreshed(p) \/ CodeReplay(p)
  <2>1. \/ \E place \in {"readGrant", "lookup", "reuse", "rotate", "mint"} : Goto(p, place)
        \/ \E outcome, reason : Answer(p, outcome, reason)
    BY <1>6 DEF RotateConsume, RotateLookup, RotateReuse, RotateReadSession, RotateCommit, MintRefreshed,
                CodeReplay
  <2>2. ASSUME NEW place \in {"readGrant", "lookup", "reuse", "rotate", "mint"}, Goto(p, place) PROVE FALSE
    BY <1>0, <2>2, Going
  <2> QED BY <1>2, <2>1, <2>2
<1>7. CASE RotateReadGrant(p)
  <2>1. CASE Row(grant[req[p].grant]) /\ ~Revoked(req[p].grant) BY <1>0, <1>7, <2>1, Carrying
  <2>2. CASE ~(Row(grant[req[p].grant]) /\ ~Revoked(req[p].grant))
    BY <1>2, <1>7, <2>2 DEF RotateReadGrant, Revoked
  <2> QED BY <2>1, <2>2
<1>8. CASE CodeConsume(p)
  <2>1. /\ pc[p] = "codeConsume" /\ UNCHANGED code
        /\ Goto(p, IF Redeemable(req[p].code, req[p].at) THEN "codeDecide" ELSE "codeLookup")
    BY <1>8 DEF CodeConsume, dbVars
  <2>2. req'[p] = req[p] /\ pc'[p] = IF Redeemable(req[p].code, req[p].at) THEN "codeDecide" ELSE "codeLookup"
    BY <1>0, <2>1, Going
  <2> QED BY <2>1, <2>2
<1>9. CASE CodeLookup(p)
  <2>1. CASE Row(code[req[p].code]) /\ code[req[p].code].grant # None BY <1>0, <1>9, <2>1, Carrying
  <2>2. CASE ~(Row(code[req[p].code]) /\ code[req[p].code].grant # None)
    BY <1>2, <1>9, <2>2 DEF CodeLookup
  <2> QED BY <2>1, <2>2
<1>10. CASE CodeDecide(p)
  <2>1. CASE RedeemVerdict(p) = "ok"
    <3>1. pc[p] = "codeDecide" /\ req'[p] = [req[p] EXCEPT !.now = now] BY <1>0, <1>10, <2>1, Carrying
    <3> QED BY <1>0, <3>1 DEF Request
  <2>2. CASE RedeemVerdict(p) # "ok" BY <1>2, <1>10, <2>2 DEF CodeDecide
  <2> QED BY <2>1, <2>2
<1>11. CASE CodeInsert(p)
  <2>1. pc[p] = "codeInsert" /\ (Goto(p, "codeCommit") \/ \E outcome, reason : Answer(p, outcome, reason))
    BY <1>11 DEF CodeInsert
  <2> QED BY <1>0, <1>2, <2>1, Going
<1>12. CASE CodeCommit(p) BY <1>2, <1>12 DEF CodeCommit
<1> QED BY <1>1, <1>3, <1>4, <1>5, <1>6, <1>7, <1>8, <1>9, <1>10, <1>11, <1>12 DEF RequestStep, HandlerStep

\* Only a redemption's commit makes a grant.
LEMMA NewGrants ==
    ASSUME IInv, [Next]_vars, NEW g \in Grants, grant[g].st = "none", grant'[g].st # "none"
    PROVE  \E p \in Requests : CodeCommit(p) /\ grant'[g] = NewGrant(req[p])
<1>0. Typed /\ grant \in [Grants -> GrantRow] /\ now \in Nat /\ \A p \in Requests : req[p].now \in Nat
  BY DEF IInv, Typed, TypeOK, Request
<1>1. CASE UNCHANGED grant BY <1>1
<1>2. ASSUME NEW p \in Requests, CodeCommit(p)
      PROVE  \E q \in Requests : CodeCommit(q) /\ grant'[g] = NewGrant(req[q])
  BY <1>0, <1>2, Redeems
<1>3. ASSUME NEW gs, NEW t \in Nat, grant' = RevokeAll(gs, t) PROVE FALSE
  BY <1>0, <1>3, RevokeAllTyped
<1>4. CASE ReapCommit
  <2>1. g \notin reap.grants BY DEF IInv, Typed, ReapRefs
  <2>2. grant'[g].st = grant[g].st BY <1>0, <1>4, <2>1, Reaps
  <2> QED BY <2>2
<1>5. CASE Environment
  BY <1>0, <1>1, <1>3, <1>5 DEF Environment, Tick, SetEnabled, SetPolicy, EndAllAccess, Login, EndSession,
     EvictSession, IssueAuthorizationCode, RevokeForSubjectClient, RespondToRevocationRequest
<1>6. ASSUME NEW p \in Requests, Arrive(p) \/ Fail(p) PROVE UNCHANGED grant
  BY <1>6 DEF Arrive, PresentRefreshToken, PresentCode, Fail, dbVars
<1>7. ASSUME NEW p \in Requests, HandlerStep(p), ~CodeCommit(p) PROVE UNCHANGED grant
  <2>1. CASE RotateReuse(p) BY <1>0, <1>3, <2>1 DEF RotateReuse
  <2>2. CASE CodeReplay(p) BY <1>0, <1>3, <2>2 DEF CodeReplay
  <2>3. CASE ~RotateReuse(p) /\ ~CodeReplay(p)
    BY <1>7, <2>3 DEF HandlerStep, RotateBegin, RotateConsume, RotateLookup, RotateReadGrant,
       RotateReadSession, RotateCommit, MintRefreshed, CodeConsume, CodeLookup, CodeDecide,
       CodeInsert, Finish, dbVars
  <2> QED BY <2>1, <2>2, <2>3
<1>8. CASE ReapBegin \/ ReapFail \/ (ReapStep /\ ~ReapCommit)
  <2>1. UNCHANGED grant
    BY <1>8 DEF ReapStep, ReapBegin, ReapFail, ReapTokens, ReapTokensLock, ReapCodes, ReapCodesLock,
              ReapGrants, ReapSessions, ReapSessionsLock, dbVars
  <2> QED BY <1>1, <2>1
<1>9. CASE UNCHANGED vars BY <1>1, <1>9 DEF vars
<1> QED BY <1>1, <1>2, <1>3, <1>4, <1>5, <1>6, <1>7, <1>8, <1>9 DEF Next

\* Only the authorization endpoint makes a code, for a live session.
LEMMA NewCodes ==
    ASSUME IInv, [Next]_vars, NEW c \in Codes, code[c].st = "none", code'[c].st # "none", c \notin reap.codes
    PROVE  \E client \in Clients, s \in Sessions, kind \in CodeKinds :
             IssueAuthorizationCode(c, client, s, kind)
<1>0. Typed /\ code \in [Codes -> CodeRow] BY DEF IInv, Typed, TypeOK
<1>1. CASE UNCHANGED code BY <1>1
<1>2. ASSUME NEW p \in Requests, CodeCommit(p) PROVE FALSE
  BY <1>0, <1>2, Redeems
<1>3. CASE ReapCommit
  <2>1. code'[c].st = code[c].st BY <1>0, <1>3, Reaps
  <2> QED BY <2>1
<1>4. ASSUME NEW d \in Codes, NEW client \in Clients, NEW s \in Sessions, NEW kind \in CodeKinds,
             IssueAuthorizationCode(d, client, s, kind)
      PROVE  d = c
  BY <1>0, <1>4 DEF IssueAuthorizationCode
<1>6. CASE Environment
  <2>1. \/ UNCHANGED code
        \/ \E d \in Codes, client \in Clients, s \in Sessions, kind \in CodeKinds :
             IssueAuthorizationCode(d, client, s, kind)
    BY <1>6 DEF Environment, Tick, SetEnabled, SetPolicy, EndAllAccess, Login, EndSession, EvictSession,
              RevokeForSubjectClient, RespondToRevocationRequest
  <2> QED BY <1>1, <1>4, <2>1
<1>7. ASSUME NEW p \in Requests, Arrive(p) \/ Fail(p) PROVE UNCHANGED code
  BY <1>7 DEF Arrive, PresentRefreshToken, PresentCode, Fail, dbVars
<1>8. ASSUME NEW p \in Requests, HandlerStep(p), ~CodeCommit(p) PROVE UNCHANGED code
  BY <1>8 DEF HandlerStep, RotateBegin, RotateConsume, RotateLookup, RotateReuse, RotateReadGrant,
     RotateReadSession, RotateCommit, MintRefreshed, CodeConsume, CodeLookup, CodeReplay, CodeDecide,
     CodeInsert, Finish, dbVars
<1>9. CASE ReapBegin \/ ReapFail \/ (ReapStep /\ ~ReapCommit)
  <2>1. UNCHANGED code
    BY <1>9 DEF ReapStep, ReapBegin, ReapFail, ReapTokens, ReapTokensLock, ReapCodes, ReapCodesLock,
              ReapGrants, ReapSessions, ReapSessionsLock, dbVars
  <2> QED BY <1>1, <2>1
<1>10. CASE UNCHANGED vars BY <1>1, <1>10 DEF vars
<1> QED BY <1>1, <1>2, <1>3, <1>6, <1>7, <1>8, <1>9, <1>10 DEF Next

\* A request on its way through the rotation keeps what it presented, learns
\* the grant where it is read, and comes to hold its token by finding it there.
LEMMA RefreshMoves ==
    ASSUME IInv, [Next]_vars, NEW p \in Requests, pc[p] # "idle", pc'[p] \in RefreshPlaces
    PROVE  /\ pc[p] \in RefreshPlaces
           /\ req'[p].client = req[p].client /\ req'[p].token = req[p].token
           /\ req'[p].grant = req[p].grant /\ req'[p].scope = req[p].scope
           /\ req'[p].resource = req[p].resource /\ req'[p].policy = req[p].policy
           /\ req'[p].now = req[p].now /\ req'[p].code = req[p].code /\ req'[p].outcome = req[p].outcome
           /\ pc'[p] = "begin" => pc[p] = "begin"
           /\ pc'[p] # "begin" =>
                \/ pc[p] # "begin" /\ req'[p].at = req[p].at
                \/ pc'[p] = "consume" /\ UNCHANGED now /\ req'[p].at = now
           /\ pc'[p] \in {"readSession", "rotate", "mint"} =>
                \/ pc[p] \in {"readSession", "rotate", "mint"} /\ req'[p].seen = req[p].seen
                \/ /\ UNCHANGED grant /\ req'[p].seen = grant[req[p].grant]
                   /\ ~Revoked(req[p].grant)
           /\ pc'[p] \in Rotating =>
                pc[p] \in Rotating \/ (UNCHANGED token /\ Consumable(req[p].token, req[p].at))
<1>0. Typed /\ req[p] \in Request BY DEF IInv, Typed, TypeOK
<1> USE DEF RefreshPlaces, Rotating
<1>1. CASE ~RequestStep(p) BY <1>1, OthersStay
<1>2. ASSUME NEW outcome, NEW reason, Answer(p, outcome, reason) PROVE FALSE
  BY <1>0, <1>2, Answering
<1>3. ~Arrive(p) BY DEF Arrive, PresentRefreshToken, PresentCode
<1>4. ~Fail(p) BY <1>2 DEF Fail
<1>5. ~Finish(p) BY <1>0, Carrying
<1>6. CASE RotateBegin(p)
  <2>1. /\ pc[p] = "begin" /\ pc'[p] = "consume" /\ UNCHANGED now
        /\ req'[p] = [req[p] EXCEPT !.at = now, !.ended = Ended(req[p].grant, req[p].now)]
    BY <1>0, <1>6, Carrying DEF envVars
  <2>2. /\ req'[p].client = req[p].client /\ req'[p].token = req[p].token
        /\ req'[p].grant = req[p].grant /\ req'[p].scope = req[p].scope
        /\ req'[p].resource = req[p].resource /\ req'[p].policy = req[p].policy
        /\ req'[p].now = req[p].now /\ req'[p].code = req[p].code /\ req'[p].outcome = req[p].outcome
        /\ req'[p].at = now
    BY <1>0, <2>1 DEF Request
  <2> QED BY <2>1, <2>2
<1>7. CASE RotateConsume(p)
  <2>1. /\ pc[p] = "consume" /\ UNCHANGED token
        /\ Goto(p, IF Consumable(req[p].token, req[p].at) THEN "readGrant" ELSE "lookup")
    BY <1>7 DEF RotateConsume, dbVars
  <2>2. req'[p] = req[p] /\ pc'[p] = IF Consumable(req[p].token, req[p].at) THEN "readGrant" ELSE "lookup"
    BY <1>0, <2>1, Going
  <2> QED BY <2>1, <2>2
<1>8. CASE RotateLookup(p)
  <2>1. pc[p] = "lookup" /\ Goto(p, "reuse") BY <1>2, <1>8 DEF RotateLookup
  <2> QED BY <1>0, <2>1, Going
<1>9. CASE RotateReadGrant(p)
  <2>1. Row(grant[req[p].grant]) /\ ~Revoked(req[p].grant) BY <1>2, <1>9 DEF RotateReadGrant, Revoked
  <2>2. /\ pc[p] = "readGrant" /\ UNCHANGED grant
        /\ pc'[p] = IF grant[req[p].grant].session = None THEN "rotate" ELSE "readSession"
        /\ req'[p] = [req[p] EXCEPT !.seen = grant[req[p].grant]]
    BY <1>0, <1>9, <2>1, Carrying DEF dbVars
  <2>3. /\ req'[p].client = req[p].client /\ req'[p].token = req[p].token
        /\ req'[p].grant = req[p].grant /\ req'[p].scope = req[p].scope
        /\ req'[p].resource = req[p].resource /\ req'[p].policy = req[p].policy
        /\ req'[p].now = req[p].now /\ req'[p].code = req[p].code /\ req'[p].outcome = req[p].outcome
        /\ req'[p].at = req[p].at /\ req'[p].seen = grant[req[p].grant]
    BY <1>0, <2>2 DEF Request
  <2> QED BY <2>1, <2>2, <2>3
<1>10. CASE RotateReadSession(p)
  <2>1. pc[p] = "readSession" /\ Goto(p, "rotate") BY <1>2, <1>10 DEF RotateReadSession
  <2> QED BY <1>0, <2>1, Going
<1>11. CASE RotateCommit(p)
  <2>1. pc[p] = "rotate" /\ Goto(p, "mint") BY <1>2, <1>11 DEF RotateCommit
  <2> QED BY <1>0, <2>1, Going
<1>12. ~RotateReuse(p) /\ ~MintRefreshed(p) /\ ~CodeReplay(p) /\ ~CodeCommit(p)
  BY <1>2 DEF RotateReuse, MintRefreshed, CodeReplay, CodeCommit
<1>13. ~CodeConsume(p) /\ ~CodeInsert(p)
  <2>1. CodeConsume(p) => Goto(p, "codeDecide") \/ Goto(p, "codeLookup") BY DEF CodeConsume
  <2>2. CodeInsert(p) => Goto(p, "codeCommit") BY <1>2 DEF CodeInsert
  <2>3. ~Goto(p, "codeDecide") /\ ~Goto(p, "codeLookup") /\ ~Goto(p, "codeCommit") BY <1>0, Going
  <2> QED BY <2>1, <2>2, <2>3
<1>14. ~CodeLookup(p) /\ ~CodeDecide(p)
  <2>1. CodeLookup(p) => Row(code[req[p].code]) /\ code[req[p].code].grant # None
    BY <1>2 DEF CodeLookup
  <2>2. CodeDecide(p) => RedeemVerdict(p) = "ok" BY <1>2 DEF CodeDecide
  <2>3. CodeLookup(p) => pc'[p] = "codeReplay" BY <1>0, <2>1, Carrying
  <2>4. CodeDecide(p) => pc'[p] = "codeInsert" BY <1>0, <2>2, Carrying
  <2> QED BY <2>3, <2>4
<1> QED BY <1>1, <1>3, <1>4, <1>5, <1>6, <1>7, <1>8, <1>9, <1>10, <1>11, <1>12, <1>13, <1>14
        DEF RequestStep, HandlerStep

\* A redemption keeps its code and passes the rules before it inserts anything.
LEMMA CodeMoves ==
    ASSUME IInv, [Next]_vars, NEW p \in Requests, pc[p] # "idle", pc'[p] \in CodePlaces
    PROVE  /\ pc[p] \in CodePlaces
           /\ req'[p].code = req[p].code /\ req'[p].resource = req[p].resource
           /\ req'[p].at = req[p].at /\ req'[p].token = req[p].token /\ req'[p].outcome = req[p].outcome
           /\ \/ /\ req'[p].now = req[p].now
                 /\ pc'[p] \in {"codeInsert", "codeCommit"} <=> pc[p] \in {"codeInsert", "codeCommit"}
              \/ /\ pc[p] = "codeDecide" /\ pc'[p] = "codeInsert"
                 /\ RedeemVerdict(p) = "ok" /\ UNCHANGED <<now, code>> /\ req'[p].now = now
<1>0. Typed /\ req[p] \in Request BY DEF IInv, Typed, TypeOK
<1> USE DEF CodePlaces
<1>1. CASE ~RequestStep(p) BY <1>1, OthersStay
<1>2. ASSUME NEW outcome, NEW reason, Answer(p, outcome, reason) PROVE FALSE
  BY <1>0, <1>2, Answering
<1>3. ~Arrive(p) BY DEF Arrive, PresentRefreshToken, PresentCode
<1>4. ~Fail(p) BY <1>2 DEF Fail
<1>5. ~Finish(p) /\ ~RotateBegin(p) BY <1>0, Carrying
<1>6. ASSUME NEW place \in {"readGrant", "lookup", "reuse", "rotate", "mint"}, Goto(p, place) PROVE FALSE
  BY <1>0, <1>6, Going
<1>7. /\ ~RotateConsume(p) /\ ~RotateLookup(p) /\ ~RotateReuse(p) /\ ~RotateReadSession(p)
      /\ ~RotateCommit(p) /\ ~MintRefreshed(p) /\ ~CodeReplay(p) /\ ~CodeCommit(p)
  BY <1>2, <1>6 DEF RotateConsume, RotateLookup, RotateReuse, RotateReadSession, RotateCommit, MintRefreshed,
                    CodeReplay, CodeCommit
<1>8. ~RotateReadGrant(p)
  <2>1. RotateReadGrant(p) => Row(grant[req[p].grant]) /\ ~Revoked(req[p].grant)
    BY <1>2 DEF RotateReadGrant, Revoked
  <2> QED BY <1>0, <2>1, Carrying
<1>9. CASE CodeConsume(p)
  <2>1. pc[p] = "codeConsume" /\ (Goto(p, "codeDecide") \/ Goto(p, "codeLookup"))
    BY <1>9 DEF CodeConsume
  <2> QED BY <1>0, <2>1, Going
<1>10. CASE CodeLookup(p)
  <2>1. Row(code[req[p].code]) /\ code[req[p].code].grant # None BY <1>2, <1>10 DEF CodeLookup
  <2>2. /\ pc[p] = "codeLookup" /\ pc'[p] = "codeReplay"
        /\ req'[p] = [req[p] EXCEPT !.grant = code[req[p].code].grant]
    BY <1>0, <1>10, <2>1, Carrying
  <2> QED BY <1>0, <2>2 DEF Request
<1>11. CASE CodeDecide(p)
  <2>1. RedeemVerdict(p) = "ok" BY <1>2, <1>11 DEF CodeDecide
  <2>2. /\ pc[p] = "codeDecide" /\ pc'[p] = "codeInsert" /\ UNCHANGED <<now, code>>
        /\ req'[p] = [req[p] EXCEPT !.now = now]
    BY <1>0, <1>11, <2>1, Carrying DEF envVars, dbVars
  <2>3. /\ req'[p].code = req[p].code /\ req'[p].resource = req[p].resource
        /\ req'[p].at = req[p].at /\ req'[p].now = now
        /\ req'[p].token = req[p].token /\ req'[p].outcome = req[p].outcome
    BY <1>0, <2>2 DEF Request
  <2> QED BY <2>1, <2>2, <2>3
<1>12. CASE CodeInsert(p)
  <2>1. pc[p] = "codeInsert" /\ Goto(p, "codeCommit") BY <1>2, <1>12 DEF CodeInsert
  <2> QED BY <1>0, <2>1, Going
<1> QED BY <1>1, <1>3, <1>4, <1>5, <1>7, <1>8, <1>9, <1>10, <1>11, <1>12 DEF RequestStep, HandlerStep

\* Only the decision taken again after the rotation burns a token.
LEMMA Burning ==
    ASSUME IInv, [Next]_vars, NEW p \in Requests, req'[p].outcome = "burned"
    PROVE  \/ req'[p].outcome = req[p].outcome /\ req'[p].reason = req[p].reason
           \/ pc[p] = "mint" /\ MintVerdict(p) # "ok" /\ req'[p].reason = MintVerdict(p)
<1>0. Typed /\ req[p] \in Request /\ req \in [Requests -> Request] BY DEF IInv, Typed, TypeOK
<1>1. CASE ~RequestStep(p) BY <1>1, OthersStay
<1>2. ASSUME NEW outcome, NEW reason, Answer(p, outcome, reason), outcome # "burned" PROVE FALSE
  BY <1>0, <1>2, Answering
<1>3. CASE UNCHANGED req BY <1>3
<1>4. ~Arrive(p)
  <2>1. ASSUME NEW client \in Clients, NEW t \in Tokens, NEW scope \in AskedScopes,
               NEW resource \in AskedResources, PresentRefreshToken(p, client, t, scope, resource)
        PROVE  FALSE
    <3>1. req'[p].outcome = "none" \/ req'[p].outcome = "refused" BY <1>0, <2>1, Presenting
    <3> QED BY <3>1
  <2>2. ASSUME NEW client \in Clients, NEW c \in Codes, NEW proof \in BOOLEAN,
               NEW resource \in AskedResources, PresentCode(p, client, c, proof, resource)
        PROVE  FALSE
    BY <1>0, <2>2, PresentingCode
  <2> QED BY <2>1, <2>2 DEF Arrive
<1>5. ~Fail(p) BY <1>2 DEF Fail
<1>6. ~Finish(p) BY <1>0, Carrying, BlankRequest
<1>7. CASE RotateBegin(p)
  <2>1. req'[p] = [req[p] EXCEPT !.at = now, !.ended = Ended(req[p].grant, req[p].now)]
    BY <1>0, <1>7, Carrying
  <2> QED BY <1>0, <2>1 DEF Request
<1>8. CASE \/ RotateConsume(p) \/ RotateLookup(p) \/ RotateReuse(p) \/ RotateReadSession(p)
           \/ RotateCommit(p) \/ CodeConsume(p) \/ CodeReplay(p) \/ CodeInsert(p) \/ CodeCommit(p)
  BY <1>2, <1>3, <1>8 DEF RotateConsume, RotateLookup, RotateReuse, RotateReadSession, RotateCommit,
     CodeConsume, CodeReplay, CodeInsert, CodeCommit, Goto
<1>9. CASE RotateReadGrant(p)
  <2>1. Row(grant[req[p].grant]) /\ ~Revoked(req[p].grant) BY <1>2, <1>9 DEF RotateReadGrant, Revoked
  <2>2. req'[p] = [req[p] EXCEPT !.seen = grant[req[p].grant]] BY <1>0, <1>9, <2>1, Carrying
  <2> QED BY <1>0, <2>2 DEF Request
<1>10. CASE CodeLookup(p)
  <2>1. Row(code[req[p].code]) /\ code[req[p].code].grant # None BY <1>2, <1>10 DEF CodeLookup
  <2>2. req'[p] = [req[p] EXCEPT !.grant = code[req[p].code].grant] BY <1>0, <1>10, <2>1, Carrying
  <2> QED BY <1>0, <2>2 DEF Request
<1>11. CASE CodeDecide(p)
  <2>1. RedeemVerdict(p) = "ok" BY <1>2, <1>11 DEF CodeDecide
  <2>2. req'[p] = [req[p] EXCEPT !.now = now] BY <1>0, <1>11, <2>1, Carrying
  <2> QED BY <1>0, <2>2 DEF Request
<1>12. CASE MintRefreshed(p)
  <2>1. pc[p] = "mint" /\ MintVerdict(p) # "ok" /\ Answer(p, "burned", MintVerdict(p))
    BY <1>2, <1>12 DEF MintRefreshed
  <2>2. req'[p].reason = MintVerdict(p) BY <1>0, <2>1, Answering
  <2> QED BY <2>1, <2>2
<1> QED BY <1>1, <1>4, <1>5, <1>6, <1>7, <1>8, <1>9, <1>10, <1>11, <1>12 DEF RequestStep, HandlerStep

\* An idle request moves by arriving.
LEMMA Starting ==
    ASSUME IInv, [Next]_vars, NEW p \in Requests, pc[p] = "idle"
    PROVE  \/ pc'[p] = "idle" /\ req'[p] = req[p]
           \/ \E client \in Clients, t \in Tokens, scope \in AskedScopes, resource \in AskedResources :
                PresentRefreshToken(p, client, t, scope, resource)
           \/ \E client \in Clients, c \in Codes, proof \in BOOLEAN, resource \in AskedResources :
                PresentCode(p, client, c, proof, resource)
<1>1. ~HandlerStep(p) /\ ~Fail(p)
  BY DEF HandlerStep, Fail, RotateBegin, RotateConsume, RotateLookup, RotateReuse, RotateReadGrant,
     RotateReadSession, RotateCommit, MintRefreshed, CodeConsume, CodeLookup, CodeReplay, CodeDecide,
     CodeInsert, CodeCommit, Finish
<1>2. CASE ~RequestStep(p) BY <1>2, OthersStay
<1>3. CASE Arrive(p) BY <1>3 DEF Arrive
<1> QED BY <1>1, <1>2, <1>3 DEF RequestStep

\* A request that is idle holds nothing.
LEMMA Idling ==
    ASSUME IInv, [Next]_vars, NEW p \in Requests, pc'[p] = "idle", pc[p] # "idle"
    PROVE  req'[p] = NoRequest
<1>0. Typed BY DEF IInv
<1>1. ASSUME NEW outcome, NEW reason, Answer(p, outcome, reason) PROVE FALSE
  BY <1>0, <1>1, Answering
<1>2. ASSUME NEW place \in Places \ {"idle"}, Goto(p, place) PROVE FALSE
  BY <1>0, <1>2, Going
<1>3. RequestStep(p) BY OthersStay
<1>4. ~Arrive(p) /\ ~Fail(p) BY <1>1 DEF Arrive, PresentRefreshToken, PresentCode, Fail
<1>5. CASE Finish(p) BY <1>0, <1>5, Carrying
<1>6. ~RotateBegin(p) BY <1>0, Carrying
<1>7. /\ ~RotateConsume(p) /\ ~RotateLookup(p) /\ ~RotateReuse(p) /\ ~RotateReadSession(p)
      /\ ~RotateCommit(p) /\ ~MintRefreshed(p) /\ ~CodeReplay(p) /\ ~CodeCommit(p)
      /\ ~CodeConsume(p) /\ ~CodeInsert(p)
  BY <1>1, <1>2 DEF RotateConsume, RotateLookup, RotateReuse, RotateReadSession, RotateCommit, MintRefreshed,
     CodeReplay, CodeCommit, CodeConsume, CodeInsert, Places
<1>8. ~RotateReadGrant(p)
  <2>1. RotateReadGrant(p) => Row(grant[req[p].grant]) /\ ~Revoked(req[p].grant)
    BY <1>1 DEF RotateReadGrant, Revoked
  <2> QED BY <1>0, <2>1, Carrying
<1>9. ~CodeLookup(p) /\ ~CodeDecide(p)
  <2>1. CodeLookup(p) => Row(code[req[p].code]) /\ code[req[p].code].grant # None
    BY <1>1 DEF CodeLookup
  <2>2. CodeDecide(p) => RedeemVerdict(p) = "ok" BY <1>1 DEF CodeDecide
  <2>3. CodeLookup(p) => pc'[p] = "codeReplay" BY <1>0, <2>1, Carrying
  <2>4. CodeDecide(p) => pc'[p] = "codeInsert" BY <1>0, <2>2, Carrying
  <2> QED BY <2>3, <2>4
<1> QED BY <1>3, <1>4, <1>5, <1>6, <1>7, <1>8, <1>9 DEF RequestStep, HandlerStep

\* Only the clock moves the clock, and waits for the requests at their bound.
LEMMA Clock ==
    ASSUME IInv, [Next]_vars, now' # now
    PROVE  /\ now' = now + 1 /\ UNCHANGED <<pc, req>>
           /\ \A p \in Requests : pc[p] \notin {"idle", "done"} => now < req[p].now + MaxRequestTicks
<1>1. CASE Environment
  BY <1>1 DEF Environment, Tick, SetEnabled, SetPolicy, EndAllAccess, Login, EndSession, EvictSession,
              IssueAuthorizationCode, RevokeForSubjectClient, RespondToRevocationRequest
<1>2. ASSUME NEW p \in Requests, Arrive(p) \/ Fail(p) PROVE UNCHANGED now
  <2>1. \A client, t, scope, resource : PresentRefreshToken(p, client, t, scope, resource) => UNCHANGED now
    BY DEF PresentRefreshToken, envVars
  <2>2. \A client, c, proof, resource : PresentCode(p, client, c, proof, resource) => UNCHANGED now
    BY DEF PresentCode, envVars
  <2>3. Fail(p) => UNCHANGED now BY DEF Fail, envVars
  <2> QED BY <1>2, <2>1, <2>2, <2>3 DEF Arrive
<1>3. ASSUME NEW p \in Requests, HandlerStep(p) PROVE UNCHANGED now
  BY <1>3 DEF HandlerStep, RotateBegin, RotateConsume, RotateLookup, RotateReuse, RotateReadGrant,
     RotateReadSession, RotateCommit, MintRefreshed, CodeConsume, CodeLookup, CodeReplay, CodeDecide,
     CodeInsert, CodeCommit, Finish, envVars
<1>4. CASE ReapBegin \/ ReapStep \/ ReapFail
  BY <1>4 DEF ReapStep, ReapBegin, ReapFail, ReapTokens, ReapTokensLock, ReapCodes, ReapCodesLock,
              ReapGrants, ReapSessions, ReapSessionsLock, ReapCommit, envVars
<1>5. CASE UNCHANGED vars BY <1>5 DEF vars
<1> QED BY <1>1, <1>2, <1>3, <1>4, <1>5 DEF Next
=============================================================================
