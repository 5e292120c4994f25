----------------------------- MODULE TokenFamilies -----------------------------
(***************************************************************************)
(* The token endpoint's families: an authorization code is redeemed into a *)
(* grant, the grant's refresh token rotates, a replay or a logout ends the *)
(* family, and the retention pass deletes what no decision can still read. *)
(*                                                                         *)
(* Concurrency is the database's: requests run side by side, and each step *)
(* below is one statement (or a run of statements no other transaction can *)
(* tell apart) of a READ COMMITTED transaction.  A statement sees what is  *)
(* committed when it starts; a row a transaction has updated stays locked, *)
(* and its new version unseen, until the transaction commits.              *)
(*                                                                         *)
(* One tenant and one subject: every row of this component is scoped to    *)
(* the first, and no rule here relates two subjects.                       *)
(***************************************************************************)
EXTENDS GrantRules

CONSTANTS
    Requests,       \* requests in flight at once
    Clients,        \* authenticated clients of the tenant
    Unvetted,       \* those of them that needsApproval
    Sessions, Codes, Grants, Tokens,   \* ids and hashes there are to hand out
    None,           \* a null reference
    CodeKinds,      \* what /authorize puts on a code: [scope, resource]
    AskedScopes,    \* scope parameters a refresh may carry ({} is an absent one)
    AskedResources, \* resource parameters a request may carry
    CodeTtl, RefreshTtl, SessionMax, SessionIdle,  \* lifetimes, in ticks
    GrantWindow, OfflineWindow, CodeGrace, SessionGrace, \* retention windows, in ticks
    Disruptions,    \* bound: which of the events below that end or disturb a family are explored
    MaxNow,         \* bound: the last instant explored
    MaxRequestTicks,\* bound: how many ticks one request may span
    MaxReaps        \* bound: retention passes explored

AllDisruptions ==
    {"disable", "policy", "logout", "eviction", "recovery", "consent", "revocation", "failure"}

ASSUME ConstantsAssumption ==
    /\ Disruptions \subseteq AllDisruptions
    /\ None \notin Requests \union Clients \union Sessions \union Codes \union Grants \union Tokens
    /\ Unvetted \subseteq Clients /\ Tokens \subseteq Nat /\ Grants \subseteq Nat
    /\ CodeKinds \subseteq [scope : SUBSET Scopes, resource : SUBSET Audiences]
    /\ AskedScopes \subseteq SUBSET Scopes
    /\ AskedResources \subseteq Audiences \union {"none"}
    /\ {CodeTtl, RefreshTtl, SessionMax, SessionIdle} \subseteq Nat \ {0}
    /\ {GrantWindow, OfflineWindow, CodeGrace, SessionGrace, MaxNow, MaxRequestTicks, MaxReaps} \subseteq Nat

VARIABLES
    now,       \* the clock, shared by the application and the database
    enabled,   \* subjects.enabled
    policy,    \* the tenant's client registration policy
    session,   \* sessions
    code,      \* authorization_codes
    grant,     \* token_grants
    token,     \* refresh_tokens
    pc, req,   \* each request's place in its handler, and what it holds
    reap       \* the retention pass

dbVars == <<session, code, grant, token>>
vars == <<now, enabled, policy, session, code, grant, token, pc, req, reap>>

\* A row is not there yet, there, or deleted.
RowStates == {"none", "row", "gone"}

SessionRow == [st : RowStates, expires : Nat, active : Nat]
CodeRow == [st : RowStates, client : Clients \union {None}, session : Sessions \union {None},
            scope : SUBSET Scopes, resource : SUBSET Audiences, expires : Nat,
            consumed : BOOLEAN, grant : Grants \union {None}]
\* `from`, the code a grant was redeemed from, is history: no column holds it.
GrantRow == [st : RowStates, client : Clients \union {None}, session : Sessions \union {None},
             scope : SUBSET Scopes, audience : SUBSET Audiences, created : Nat,
             revokedAt : Nat \union {NotRevoked}, from : Codes \union {None}]
TokenRow == [st : RowStates, grant : Grants \union {None}, expires : Nat,
             used : BOOLEAN, replacedBy : Tokens \union {None}]

NoSession == [st |-> "none", expires |-> 0, active |-> 0]
NoCode == [st |-> "none", client |-> None, session |-> None, scope |-> {}, resource |-> {},
           expires |-> 0, consumed |-> FALSE, grant |-> None]
NoGrant == [st |-> "none", client |-> None, session |-> None, scope |-> {}, audience |-> {},
            created |-> 0, revokedAt |-> NotRevoked, from |-> None]
NoToken == [st |-> "none", grant |-> None, expires |-> 0, used |-> FALSE, replacedBy |-> None]

\* What the repositories insert.
NewSession(t) == [st |-> "row", expires |-> t + SessionMax, active |-> t]
NewCode(client, s, kind, t) ==
    [st |-> "row", client |-> client, session |-> s, scope |-> kind.scope,
     resource |-> kind.resource, expires |-> t + CodeTtl, consumed |-> FALSE, grant |-> None]
NewToken(g, t) ==
    [st |-> "row", grant |-> g, expires |-> t + RefreshTtl, used |-> FALSE, replacedBy |-> None]

Outcomes == {"none", "issued", "refused", "unknown", "revoked", "reused", "replayed",
             "burned", "error"}
Reasons == {"", "client_mismatch", "grant_revoked", "subject_disabled", "write_not_refreshable",
            "scope_widened", "mcp_scope_dropped", "unknown", "ceiling", "invalid_target",
            "invalid_scope", "invalid_grant"}

\* What a request carries between its statements.  `at` is its transaction's
\* now(), `now` the application clock it read first, `seen` the grant row the
\* rotation read.  `spent` and `ended` are history: the presented token had
\* been used when the request arrived, and the family was over when the
\* rotating transaction began.
Request == [client : Clients \union {None}, token : Tokens \union {None}, code : Codes \union {None},
            scope : SUBSET Scopes, resource : Audiences \union {"none"}, proof : BOOLEAN,
            policy : {"mcp", "disabled"}, now : Nat, at : Nat, grant : Grants \union {None},
            seen : GrantRow, outcome : Outcomes, reason : Reasons,
            spent : BOOLEAN, ended : BOOLEAN]
NoRequest == [client |-> None, token |-> None, code |-> None, scope |-> {}, resource |-> "none",
              proof |-> FALSE, policy |-> "disabled", now |-> 0, at |-> 0, grant |-> None,
              seen |-> NoGrant, outcome |-> "none", reason |-> "", spent |-> FALSE, ended |-> FALSE]

\* Where a request can stand: before the rotating transaction, in it, after it
\* has committed; and the same for a redemption and for a replayed code.
Places == {"idle", "begin", "consume", "lookup", "reuse", "readGrant", "readSession", "rotate",
           "mint", "codeConsume", "codeLookup", "codeReplay", "codeDecide", "codeInsert",
           "codeCommit", "done"}

NoReap == [at |-> 0, tokens |-> {}, codes |-> {}, grants |-> {}, sessions |-> {},
           stage |-> "off", passes |-> 0]
ReapStages == {"off", "tokens", "tokensLock", "codes", "codesLock", "grants", "sessions",
               "sessionsLock", "commit"}

-----------------------------------------------------------------------------
(* Rows and locks *)

Row(r) == r.st = "row"

SessionLive(s, t) ==
    /\ Row(session[s])
    /\ t < session[s].expires
    /\ t - session[s].active < SessionIdle

Revoked(g) == grant[g].revokedAt # NotRevoked

\* sessionRepository.endAll: only a ceiling still ahead moves.
EndAll(ss, t) ==
    [s \in Sessions |->
        IF s \in ss /\ Row(session[s]) /\ session[s].expires > t THEN [session[s] EXCEPT !.expires = t]
        ELSE session[s]]

\* Fault: the WHERE clause without its revoked_at IS NULL.
RevokeAllRestamps(gs, t) ==
    [g \in Grants |-> IF g \in gs /\ Row(grant[g]) THEN [grant[g] EXCEPT !.revokedAt = t] ELSE grant[g]]

\* grant.revoke: one UPDATE on revoked_at IS NULL, so the first stamp stays.
RevokeAll(gs, t) ==
    [g \in Grants |->
        IF g \in gs /\ Row(grant[g]) /\ ~Revoked(g) THEN [grant[g] EXCEPT !.revokedAt = t]
        ELSE grant[g]]

\* A rotation holds its token's row from the UPDATE that marks it used.
TokenHolders(t) == {p \in Requests : pc[p] \in {"readGrant", "readSession", "rotate"} /\ req[p].token = t}
TokenLocked(t) == TokenHolders(t) # {} \/ (reap.stage \notin {"off", "tokens", "tokensLock"} /\ t \in reap.tokens)

\* A redemption holds its code's row likewise.
CodeHolders(c) == {p \in Requests : pc[p] \in {"codeDecide", "codeInsert", "codeCommit"} /\ req[p].code = c}
CodeLocked(c) == CodeHolders(c) # {} \/ (reap.stage \in {"grants", "sessions", "sessionsLock", "commit"} /\ c \in reap.codes)

\* Fault: the pass deletes a family before its tokens.
GrantLockedFirst(g) ==
    reap.stage \notin {"off", "tokens"}
    /\ (g \in reap.grants \/ \E t \in reap.tokens : token[t].grant = g)

\* The pass holds the families it deletes from the statement after the codes'.
GrantLocked(g) == reap.stage \in {"sessions", "sessionsLock", "commit"} /\ g \in reap.grants
NoneLocked(gs) == \A g \in gs : ~GrantLocked(g)
GrantsOf(s) == {g \in Grants : grant[g].session = s}
GrantsTo(client) == {g \in Grants : grant[g].client = client}

\* A redeemed grant keeps the code's session, unless it asks for offline access
\* and may be refreshed.
GrantSession(c) ==
    IF "offline_access" \in code[c].scope /\ RefreshAllowedForScope(code[c].scope)
    THEN None ELSE code[c].session

\* Inserting a session-bound grant share-locks the session row its foreign key
\* names until the redemption commits.
SessionSharers(s) ==
    {p \in Requests : pc[p] = "codeCommit" /\ GrantSession(req[p].code) = s}

SessionLocked(s) == reap.stage = "commit" /\ s \in reap.sessions

Fresh(rows, ids) == {i \in ids : rows[i].st = "none"}
\* Which random id comes next is no rule's business: they are handed out in
\* order.
NextId(rows, ids) == {i \in Fresh(rows, ids) : \A j \in Fresh(rows, ids) : i <= j}

\* Bound: a request starts only while there are ids left for all in flight.
InFlight == {p \in Requests : pc[p] # "idle"}
RoomForToken == Cardinality(Fresh(token, Tokens)) > Cardinality(InFlight)
RoomForGrant ==
    Cardinality(Fresh(grant, Grants)) > Cardinality({p \in InFlight : req[p].code # None})

\* The request ends here with `outcome`; what its open transaction wrote is
\* committed or rolled back by the action that says so.  What it held between
\* statements is gone with it.
Answered(r, outcome, reason) ==
    [NoRequest EXCEPT !.client = r.client, !.token = r.token, !.code = r.code, !.grant = r.grant,
                      !.spent = r.spent, !.ended = r.ended, !.outcome = outcome, !.reason = reason]
Answer(p, outcome, reason) ==
    /\ pc' = [pc EXCEPT ![p] = "done"]
    /\ req' = [req EXCEPT ![p] = Answered(req[p], outcome, reason)]

Goto(p, place) == pc' = [pc EXCEPT ![p] = place] /\ UNCHANGED req

envVars == <<now, enabled, policy>>

-----------------------------------------------------------------------------
(* What happens around the token endpoint *)

Init ==
    /\ now = 0 /\ enabled = TRUE /\ policy = "mcp"
    /\ session = [s \in Sessions |-> NoSession]
    /\ code = [c \in Codes |-> NoCode]
    /\ grant = [g \in Grants |-> NoGrant]
    /\ token = [t \in Tokens |-> NoToken]
    /\ pc = [p \in Requests |-> "idle"]
    /\ req = [p \in Requests |-> NoRequest]
    /\ reap = NoReap

\* Time passes; no request spans more than MaxRequestTicks of it.
Tick ==
    /\ now < MaxNow
    /\ \A p \in Requests : pc[p] \notin {"idle", "done"} => now < req[p].now + MaxRequestTicks
    /\ now' = now + 1
    /\ UNCHANGED <<enabled, policy, session, code, grant, token, pc, req, reap>>

\* A completed login: establishSession inserts the session's row.
Login(s) ==
    /\ session[s].st = "none"
    /\ session' = [session EXCEPT ![s] = NewSession(now)]
    /\ UNCHANGED <<now, enabled, policy, code, grant, token, pc, req, reap>>

\* issueAuthorizationCode, for a browser whose session is live.
IssueAuthorizationCode(c, client, s, kind) ==
    /\ code[c].st = "none" /\ SessionLive(s, now) /\ enabled
    /\ code' = [code EXCEPT ![c] = NewCode(client, s, kind, now)]
    /\ UNCHANGED <<now, enabled, policy, session, grant, token, pc, req, reap>>

\* Fault: the ceiling moved just before now, to be dead for certain.
EndSessionJustBefore(s) ==
    /\ Row(session[s])
    /\ session' = [session EXCEPT ![s].expires = now - 1]
    /\ UNCHANGED <<now, enabled, policy, code, grant, token, pc, req, reap>>

\* endSession, for a logout or an operator: the ceiling moves to now unless it
\* has passed, and every grant of the session is revoked, all in one
\* transaction.
EndSession(s) ==
    /\ "logout" \in Disruptions
    /\ Row(session[s]) /\ ~SessionLocked(s) /\ NoneLocked(GrantsOf(s))
    /\ session' = EndAll({s}, now)
    /\ grant' = RevokeAll(GrantsOf(s), now)
    /\ UNCHANGED <<now, enabled, policy, code, token, pc, req, reap>>

\* A new login over the browser's cap ends an older session, and leaves its
\* grants as they are.
EvictSession(s) ==
    /\ "eviction" \in Disruptions
    /\ Row(session[s]) /\ session[s].expires > now /\ ~SessionLocked(s)
    /\ session' = [session EXCEPT ![s].expires = now]
    /\ UNCHANGED <<now, enabled, policy, code, grant, token, pc, req, reap>>

\* endAllAccess, when an account is recovered: every session and every grant of
\* the subject, offline ones too.
EndAllAccess ==
    /\ "recovery" \in Disruptions
    /\ \A s \in Sessions : ~SessionLocked(s)
    /\ NoneLocked(Grants)
    /\ session' = EndAll(Sessions, now)
    /\ grant' = RevokeAll(Grants, now)
    /\ UNCHANGED <<now, enabled, policy, code, token, pc, req, reap>>

\* revokeForSubjectClient, for a consent or a client's grants withdrawn.
RevokeForSubjectClient(client) ==
    /\ "consent" \in Disruptions /\ NoneLocked(GrantsTo(client))
    /\ grant' = RevokeAll(GrantsTo(client), now)
    /\ UNCHANGED <<now, enabled, policy, session, code, token, pc, req, reap>>

\* The revocation endpoint: any token of the family names the grant, and only
\* the client it was issued to may end it.
RespondToRevocationRequest(client, g) ==
    /\ "revocation" \in Disruptions
    /\ Row(grant[g]) /\ grant[g].client = client /\ ~GrantLocked(g)
    /\ grant' = RevokeAll({g}, now)
    /\ UNCHANGED <<now, enabled, policy, session, code, token, pc, req, reap>>

SetEnabled ==
    /\ "disable" \in Disruptions
    /\ enabled' = ~enabled
    /\ UNCHANGED <<now, policy, session, code, grant, token, pc, req, reap>>

\* Read only for an unvetted client's requests.
SetPolicy ==
    /\ "policy" \in Disruptions
    /\ policy' = IF policy = "mcp" THEN "disabled" ELSE "mcp"
    /\ UNCHANGED <<now, enabled, session, code, grant, token, pc, req, reap>>

-----------------------------------------------------------------------------
(* grant_type=refresh_token *)

\* Fault: the rules are left to the copy after rotation.
GateVerdictLookupOnly(client, t, scope, resource) == IF Row(token[t]) THEN "ok" ELSE "unknown"

\* evaluatePresentedRefreshToken: decided from the presented token before
\* anything is rotated.  It writes nothing.
GateVerdict(client, t, scope, resource) ==
    LET g == grant[token[t].grant]
        verdict == EvaluateRefreshGrant(g, client, enabled, scope)
        held == RequestedTokens(g.scope, scope)
        audience == AudiencesHeld(client \in Unvetted, policy, g.audience)
    IN IF ~Row(token[t]) THEN "unknown"
       ELSE IF verdict # "ok" THEN verdict
       ELSE IF RefreshCeilingRefuses(client \in Unvetted, policy, held, g.audience)
         THEN "ceiling"
       ELSE IF ~ResourceAllowed(audience, resource) THEN "invalid_target"
       ELSE "ok"

PresentRefreshToken(p, client, t, scope, resource) ==
    /\ pc[p] = "idle" /\ token[t].st # "none" /\ RoomForToken
    /\ LET verdict == GateVerdict(client, t, scope, resource)
           arrived == [NoRequest EXCEPT !.client = client, !.token = t, !.scope = scope,
                           !.resource = resource, !.policy = policy, !.now = now,
                           !.grant = token[t].grant, !.spent = token[t].used]
       IN IF verdict = "ok"
          THEN /\ pc' = [pc EXCEPT ![p] = "begin"]
               /\ req' = [req EXCEPT ![p] = arrived]
          ELSE /\ pc' = [pc EXCEPT ![p] = "done"]
               /\ req' = [req EXCEPT ![p] = Answered(arrived, "refused", verdict)]
    /\ UNCHANGED <<envVars, dbVars, reap>>

\* The family is over: revoked, or bound to a session that has ended.
Ended(g, t) ==
    \/ ~Row(grant[g]) \/ Revoked(g)
    \/ /\ grant[g].session # None
       /\ ~Row(session[grant[g].session]) \/ session[grant[g].session].expires <= t

\* withTenant opens the rotation's own transaction, which fixes its now().
RotateBegin(p) ==
    /\ pc[p] = "begin"
    /\ pc' = [pc EXCEPT ![p] = "consume"]
    /\ req' = [req EXCEPT ![p].at = now, ![p].ended = Ended(req[p].grant, req[p].now)]
    /\ UNCHANGED <<envVars, dbVars, reap>>

\* The WHERE clause of refreshTokenRepository.consume.
Consumable(t, at) == Row(token[t]) /\ ~token[t].used /\ token[t].expires > at

\* Fault: a SELECT, judged, then an UPDATE by hash alone.
RotateConsumeUnlocked(p) ==
    /\ pc[p] = "consume"
    /\ Goto(p, IF Consumable(req[p].token, req[p].at) THEN "readGrant" ELSE "lookup")
    /\ UNCHANGED <<envVars, dbVars, reap>>

\* consume: one UPDATE, which waits for the row's lock and then judges the row
\* as the holder left it.
RotateConsume(p) ==
    /\ pc[p] = "consume" /\ ~TokenLocked(req[p].token)
    /\ Goto(p, IF Consumable(req[p].token, req[p].at) THEN "readGrant" ELSE "lookup")
    /\ UNCHANGED <<envVars, dbVars, reap>>

\* Fault: a consume that found nothing is taken for an unknown token.
RotateLookupForgetful(p) ==
    /\ pc[p] = "lookup" /\ Answer(p, "unknown", "")
    /\ UNCHANGED <<envVars, dbVars, reap>>

\* byHash, to tell a used token from one unknown or expired.
RotateLookup(p) ==
    /\ pc[p] = "lookup"
    /\ IF Row(token[req[p].token]) /\ token[req[p].token].used
       THEN Goto(p, "reuse") ELSE Answer(p, "unknown", "")
    /\ UNCHANGED <<envVars, dbVars, reap>>

\* Reuse revokes the family and commits, whatever becomes of the audit row.
RotateReuse(p) ==
    /\ pc[p] = "reuse" /\ ~GrantLocked(req[p].grant)
    /\ grant' = RevokeAll({req[p].grant}, req[p].now)
    /\ Answer(p, "reused", "")
    /\ UNCHANGED <<envVars, session, code, token, reap>>

SpendToken(t) == token' = [token EXCEPT ![t].used = TRUE]

\* Fault: the gate's reading of the grant is trusted.
RotateReadGrantTrusting(p) ==
    /\ pc[p] = "readGrant"
    /\ pc' = [pc EXCEPT ![p] = "rotate"]
    /\ req' = [req EXCEPT ![p].seen = [grant[req[p].grant] EXCEPT !.revokedAt = NotRevoked]]
    /\ UNCHANGED <<envVars, dbVars, reap>>

\* A revoked family: the transaction commits, so the token stays consumed.
RotateReadGrant(p) ==
    /\ pc[p] = "readGrant"
    /\ LET g == grant[req[p].grant] IN
       \/ /\ ~Row(g) /\ Answer(p, "error", "") /\ UNCHANGED token
       \/ /\ Row(g) /\ g.revokedAt # NotRevoked
          /\ Answer(p, "revoked", "") /\ SpendToken(req[p].token)
       \/ /\ Row(g) /\ g.revokedAt = NotRevoked
          /\ pc' = [pc EXCEPT ![p] = IF g.session = None THEN "rotate" ELSE "readSession"]
          /\ req' = [req EXCEPT ![p].seen = g]
          /\ UNCHANGED token
    /\ UNCHANGED <<envVars, session, code, grant, reap>>

\* A session-bound family lives as long as its session.
RotateReadSession(p) ==
    /\ pc[p] = "readSession"
    /\ IF SessionLive(req[p].seen.session, req[p].now)
       THEN Goto(p, "rotate") /\ UNCHANGED token
       ELSE Answer(p, "revoked", "") /\ SpendToken(req[p].token)
    /\ UNCHANGED <<envVars, session, code, grant, reap>>

Touch(s, t) ==
    IF s # None /\ Row(session[s]) THEN session' = [session EXCEPT ![s].active = t]
    ELSE UNCHANGED session

\* The rest of the rotation, seen by others only at its commit: the session is
\* touched, the successor inserted (its foreign key needs the grant's row), the
\* presented token marked used and its replacement attached.
RotateCommit(p) ==
    /\ pc[p] = "rotate" /\ ~GrantLocked(req[p].grant)
    /\ req[p].seen.session # None => ~SessionLocked(req[p].seen.session)
    /\ IF Row(grant[req[p].grant])
       THEN /\ \E next \in NextId(token, Tokens) :
                 token' = [token EXCEPT
                     ![next] = NewToken(req[p].grant, req[p].now),
                     ![req[p].token].used = TRUE, ![req[p].token].replacedBy = next]
            /\ Touch(req[p].seen.session, req[p].now)
            /\ Goto(p, "mint")
       ELSE Answer(p, "error", "") /\ UNCHANGED <<session, token>>
    /\ UNCHANGED <<envVars, code, grant, reap>>

\* The decision taken again, on the grant the rotation read and a fresh read of
\* the subject, and what mintAccessToken refuses to sign.
MintVerdictUnder(held, p) ==
    LET r == req[p]
        unvetted == r.client \in Unvetted
        verdict == EvaluateRefreshGrant(r.seen, r.client, enabled, r.scope)
        asked == RequestedTokens(r.seen.scope, r.scope)
        audience == AudiencesHeld(unvetted, held, r.seen.audience)
    IN IF verdict # "ok" THEN verdict
       ELSE IF RefreshCeilingRefuses(unvetted, held, asked, r.seen.audience) THEN "ceiling"
       ELSE IF ~ResourceAllowed(audience, r.resource) THEN "invalid_target"
       ELSE IF ~MintAccessToken(ScopeHeld(unvetted, held, asked),
                                NarrowedAudience(audience, r.resource))
         THEN "invalid_scope"
       ELSE "ok"

\* Fault: the registration policy is read again after rotation.
MintVerdictReread(p) == MintVerdictUnder(policy, p)

\* Under the registration policy the gate read, and carried here.
MintVerdict(p) == MintVerdictUnder(req[p].policy, p)

MintRefreshed(p) ==
    /\ pc[p] = "mint"
    /\ IF MintVerdict(p) = "ok" THEN Answer(p, "issued", "")
       ELSE Answer(p, "burned", MintVerdict(p))
    /\ UNCHANGED <<envVars, dbVars, reap>>

-----------------------------------------------------------------------------
(* grant_type=authorization_code *)

\* The request's one transaction opens; it is rolled back by any refusal.
PresentCode(p, client, c, proof, resource) ==
    /\ pc[p] = "idle" /\ code[c].st # "none" /\ RoomForToken /\ RoomForGrant
    /\ pc' = [pc EXCEPT ![p] = "codeConsume"]
    /\ req' = [req EXCEPT ![p] =
                [NoRequest EXCEPT !.client = client, !.code = c, !.proof = proof,
                     !.resource = resource, !.now = now, !.at = now,
                     !.spent = code[c].consumed]]
    /\ UNCHANGED <<envVars, dbVars, reap>>

Redeemable(c, at) == Row(code[c]) /\ ~code[c].consumed /\ code[c].expires > at

\* Fault: a SELECT, judged, then an UPDATE by hash alone.
CodeConsumeUnlocked(p) ==
    /\ pc[p] = "codeConsume"
    /\ Goto(p, IF Redeemable(req[p].code, req[p].at) THEN "codeDecide" ELSE "codeLookup")
    /\ UNCHANGED <<envVars, dbVars, reap>>

\* consume: as for a refresh token, the row's lock decides between two.
CodeConsume(p) ==
    /\ pc[p] = "codeConsume" /\ ~CodeLocked(req[p].code)
    /\ Goto(p, IF Redeemable(req[p].code, req[p].at) THEN "codeDecide" ELSE "codeLookup")
    /\ UNCHANGED <<envVars, dbVars, reap>>

\* byHash: only a code that produced a grant has one to revoke.
CodeLookup(p) ==
    /\ pc[p] = "codeLookup"
    /\ LET c == code[req[p].code] IN
       IF Row(c) /\ c.grant # None
       THEN /\ pc' = [pc EXCEPT ![p] = "codeReplay"]
            /\ req' = [req EXCEPT ![p].grant = c.grant]
       ELSE Answer(p, "refused", "unknown")
    /\ UNCHANGED <<envVars, dbVars, reap>>

\* Fault: the revocation runs in the transaction its refusal rolls back.
CodeReplayRolledBack(p) ==
    /\ pc[p] = "codeReplay" /\ ~GrantLocked(req[p].grant)
    /\ Answer(p, "replayed", "")
    /\ UNCHANGED <<envVars, dbVars, reap>>

\* The replay's revocation commits in a transaction of its own, before the
\* refusal rolls the request's back.
CodeReplay(p) ==
    /\ pc[p] = "codeReplay" /\ ~GrantLocked(req[p].grant)
    /\ grant' = RevokeAll({req[p].grant}, now)
    /\ Answer(p, "replayed", "")
    /\ UNCHANGED <<envVars, session, code, token, reap>>

\* The grant rules, the subject's state, and what may be signed.
RedeemVerdict(p) ==
    LET c == code[req[p].code] IN
    IF ~EvaluateAuthorizationCodeGrant(c.client, req[p].client, req[p].proof) THEN "invalid_grant"
    ELSE IF ~enabled THEN "subject_disabled"
    ELSE IF ~ResourceAllowed(c.resource, req[p].resource) THEN "invalid_target"
    ELSE IF ~MintAccessToken(c.scope, NarrowedAudience(c.resource, req[p].resource))
      THEN "invalid_scope"
    ELSE "ok"

\* A refusal here rolls the consume back with the transaction.
CodeDecide(p) ==
    /\ pc[p] = "codeDecide"
    /\ IF RedeemVerdict(p) = "ok"
       THEN /\ pc' = [pc EXCEPT ![p] = "codeInsert"]
            /\ req' = [req EXCEPT ![p].now = now]
       ELSE Answer(p, "refused", RedeemVerdict(p))
    /\ UNCHANGED <<envVars, dbVars, reap>>

\* The grant's insert: its foreign key needs the session's row.
CodeInsert(p) ==
    /\ pc[p] = "codeInsert"
    /\ LET s == GrantSession(req[p].code) IN
       \/ s = None /\ Goto(p, "codeCommit")
       \/ /\ s # None /\ ~SessionLocked(s)
          /\ IF Row(session[s]) THEN Goto(p, "codeCommit") ELSE Answer(p, "error", "")
    /\ UNCHANGED <<envVars, dbVars, reap>>

\* The row the redemption `r` inserts.
NewGrant(r) ==
    [st |-> "row", client |-> r.client, session |-> GrantSession(r.code), scope |-> code[r.code].scope,
     audience |-> NarrowedAudience(code[r.code].resource, r.resource) \union {Issuer},
     created |-> r.at, revokedAt |-> NotRevoked, from |-> r.code]

\* The redemption commits: the grant, the code bound to it, and a refresh token
\* where the scope allows one.
CodeCommit(p) ==
    /\ pc[p] = "codeCommit"
    /\ LET c == code[req[p].code] IN
       \E g \in NextId(grant, Grants) :
          /\ grant' = [grant EXCEPT ![g] = NewGrant(req[p])]
          /\ code' = [code EXCEPT ![req[p].code].consumed = TRUE, ![req[p].code].grant = g]
          /\ IF RefreshAllowedForScope(c.scope)
             THEN \E t \in NextId(token, Tokens) :
                    token' = [token EXCEPT ![t] = NewToken(g, req[p].now)]
             ELSE UNCHANGED token
    /\ Answer(p, "issued", "")
    /\ UNCHANGED <<envVars, session, reap>>

-----------------------------------------------------------------------------
(* Every request *)

\* The process dies, or a statement fails: the open transaction is rolled back
\* and nothing of it was ever seen.  At "mint" the rotation has committed and
\* only the answer is lost.
Fail(p) ==
    /\ "failure" \in Disruptions
    /\ pc[p] \notin {"idle", "done"}
    /\ Answer(p, "error", "")
    /\ UNCHANGED <<envVars, dbVars, reap>>

\* The answer is sent; the slot takes another request.
Finish(p) ==
    /\ pc[p] = "done"
    /\ pc' = [pc EXCEPT ![p] = "idle"]
    /\ req' = [req EXCEPT ![p] = NoRequest]
    /\ UNCHANGED <<envVars, dbVars, reap>>

-----------------------------------------------------------------------------
(* The retention pass: one transaction, `now` fixed at its start, each       *)
(* statement with a snapshot of its own, deletes seen by others at commit.   *)

\* Fault: a family's age alone.
GrantPastRetentionByAge(g, at, deleted) ==
    Row(grant[g]) /\ grant[g].created + (IF grant[g].session = None THEN OfflineWindow ELSE GrantWindow) < at

\* A family is past retention once it is old and no token of it is usable.
GrantPastRetention(g, at, deleted) ==
    LET window == IF grant[g].session = None THEN OfflineWindow ELSE GrantWindow IN
    /\ Row(grant[g])
    /\ grant[g].created + (IF window > SessionMax THEN window ELSE SessionMax) < at
    /\ \A t \in Tokens \ deleted :
         ~(Row(token[t]) /\ token[t].grant = g /\ ~token[t].used /\ token[t].expires > at)

ReapBegin ==
    /\ reap.stage = "off" /\ reap.passes < MaxReaps
    /\ reap' = [NoReap EXCEPT !.at = now, !.stage = "tokens", !.passes = reap.passes + 1]
    /\ UNCHANGED <<envVars, dbVars, pc, req>>

\* Fault: a token goes on its own once it is spent.
ReapTokensSpent ==
    /\ reap.stage = "tokens"
    /\ reap' = [reap EXCEPT !.stage = "tokensLock", !.tokens =
                 {t \in Tokens : Row(token[t]) /\ token[t].used}]
    /\ UNCHANGED <<envVars, dbVars, pc, req>>

ReapTokens ==
    /\ reap.stage = "tokens"
    /\ reap' = [reap EXCEPT !.stage = "tokensLock", !.tokens =
                 {t \in Tokens : Row(token[t]) /\ GrantPastRetention(token[t].grant, reap.at, {})}]
    /\ UNCHANGED <<envVars, dbVars, pc, req>>

\* A row updated while the statement waited for it is deleted all the same: its
\* grant_id is unchanged, and the rest of the predicate is judged on the
\* statement's snapshot.
ReapTokensLock ==
    /\ reap.stage = "tokensLock" /\ \A t \in reap.tokens : TokenHolders(t) = {}
    /\ reap' = [reap EXCEPT !.stage = "codes"]
    /\ UNCHANGED <<envVars, dbVars, pc, req>>

\* Fault: a code goes on its own expiry.
ReapCodesByAge ==
    /\ reap.stage = "codes"
    /\ reap' = [reap EXCEPT !.stage = "codesLock", !.codes =
                 {c \in Codes : Row(code[c]) /\ code[c].expires + CodeGrace < reap.at}]
    /\ UNCHANGED <<envVars, dbVars, pc, req>>

\* A code that produced a grant goes with the family, any other on its own.
ReapCodes ==
    /\ reap.stage = "codes"
    /\ reap' = [reap EXCEPT !.stage = "codesLock", !.codes =
                 {c \in Codes :
                    /\ Row(code[c]) /\ code[c].expires + CodeGrace < reap.at
                    /\ \/ code[c].grant = None
                       \/ ~Row(grant[code[c].grant])
                       \/ GrantPastRetention(code[c].grant, reap.at, reap.tokens)}]
    /\ UNCHANGED <<envVars, dbVars, pc, req>>

ReapCodesLock ==
    /\ reap.stage = "codesLock" /\ \A c \in reap.codes : CodeHolders(c) = {}
    /\ reap' = [reap EXCEPT !.stage = "grants"]
    /\ UNCHANGED <<envVars, dbVars, pc, req>>

ReapGrants ==
    /\ reap.stage = "grants"
    /\ reap' = [reap EXCEPT !.stage = "sessions", !.grants =
                 {g \in Grants : GrantPastRetention(g, reap.at, reap.tokens)}]
    /\ UNCHANGED <<envVars, dbVars, pc, req>>

\* Fault: a session goes on its own expiry.
ReapSessionsByAge ==
    /\ reap.stage = "sessions"
    /\ reap' = [reap EXCEPT !.stage = "sessionsLock", !.sessions =
                 {s \in Sessions : Row(session[s]) /\ session[s].expires + SessionGrace < reap.at}]
    /\ UNCHANGED <<envVars, dbVars, pc, req>>

\* Only a session no grant row names.
ReapSessions ==
    /\ reap.stage = "sessions"
    /\ reap' = [reap EXCEPT !.stage = "sessionsLock", !.sessions =
                 {s \in Sessions :
                    /\ Row(session[s]) /\ session[s].expires + SessionGrace < reap.at
                    /\ \A g \in Grants \ reap.grants : ~(Row(grant[g]) /\ grant[g].session = s)}]
    /\ UNCHANGED <<envVars, dbVars, pc, req>>

\* The delete waits for a share lock and is not judged again after it: the row
\* was locked, not updated.
ReapSessionsLock ==
    /\ reap.stage = "sessionsLock" /\ \A s \in reap.sessions : SessionSharers(s) = {}
    /\ reap' = [reap EXCEPT !.stage = "commit"]
    /\ UNCHANGED <<envVars, dbVars, pc, req>>

Delete(rows, ids) == [i \in DOMAIN rows |-> IF i \in ids THEN [rows[i] EXCEPT !.st = "gone"] ELSE rows[i]]

\* The tokens a deleted grant takes with it.
Cascaded == {t \in Tokens : Row(token[t]) /\ token[t].grant \in reap.grants}

\* The commit, with what the foreign keys do: tokens go with their grant, and a
\* grant whose session is deleted has its session_id set to null.
ReapCommit ==
    /\ reap.stage = "commit" /\ \A t \in Cascaded : TokenHolders(t) = {}
    /\ token' = Delete(token, reap.tokens \union Cascaded)
    /\ code' = Delete(code, reap.codes)
    /\ grant' = [g \in Grants |->
                    IF g \in reap.grants THEN [grant[g] EXCEPT !.st = "gone"]
                    ELSE IF grant[g].session \in reap.sessions THEN [grant[g] EXCEPT !.session = None]
                    ELSE grant[g]]
    /\ session' = Delete(session, reap.sessions)
    /\ reap' = [NoReap EXCEPT !.passes = reap.passes]
    /\ UNCHANGED <<envVars, pc, req>>

ReapFail ==
    /\ "failure" \in Disruptions
    /\ reap.stage # "off"
    /\ reap' = [NoReap EXCEPT !.passes = reap.passes]
    /\ UNCHANGED <<envVars, dbVars, pc, req>>

ReapStep ==
    \/ ReapTokens \/ ReapTokensLock \/ ReapCodes \/ ReapCodesLock
    \/ ReapGrants \/ ReapSessions \/ ReapSessionsLock \/ ReapCommit

-----------------------------------------------------------------------------
Environment ==
    \/ Tick \/ SetEnabled \/ SetPolicy \/ EndAllAccess
    \/ \E s \in Sessions : Login(s) \/ EndSession(s) \/ EvictSession(s)
    \/ \E c \in Codes, client \in Clients, s \in Sessions, kind \in CodeKinds :
          IssueAuthorizationCode(c, client, s, kind)
    \/ \E client \in Clients : RevokeForSubjectClient(client)
    \/ \E client \in Clients, g \in Grants : RespondToRevocationRequest(client, g)

Arrive(p) ==
    \/ \E client \in Clients, t \in Tokens, scope \in AskedScopes, resource \in AskedResources :
          PresentRefreshToken(p, client, t, scope, resource)
    \/ \E client \in Clients, c \in Codes, proof \in BOOLEAN, resource \in AskedResources :
          PresentCode(p, client, c, proof, resource)

\* What the handler does next of its own accord.
HandlerStep(p) ==
    \/ RotateBegin(p) \/ RotateConsume(p) \/ RotateLookup(p) \/ RotateReuse(p)
    \/ RotateReadGrant(p) \/ RotateReadSession(p) \/ RotateCommit(p) \/ MintRefreshed(p)
    \/ CodeConsume(p) \/ CodeLookup(p) \/ CodeReplay(p) \/ CodeDecide(p)
    \/ CodeInsert(p) \/ CodeCommit(p) \/ Finish(p)

Next ==
    \/ Environment
    \/ \E p \in Requests : Arrive(p) \/ HandlerStep(p) \/ Fail(p)
    \/ ReapBegin \/ ReapStep \/ ReapFail

Spec == Init /\ [][Next]_vars

\* A handler and the pass keep going; a statement waiting for a row's lock gets
\* it in its turn, since the database queues the waiters.  Nothing is assumed
\* of arrivals, of the clock or of failures.
FairSpec ==
    /\ Spec
    /\ \A p \in Requests : SF_vars(HandlerStep(p))
    /\ WF_vars(ReapStep)

-----------------------------------------------------------------------------
(* Properties *)

\* The type invariant of the endpoint's state.
TypeOK ==
    /\ now \in Nat /\ enabled \in BOOLEAN /\ policy \in {"mcp", "disabled"}
    /\ session \in [Sessions -> SessionRow]
    /\ code \in [Codes -> CodeRow]
    /\ grant \in [Grants -> GrantRow]
    /\ token \in [Tokens -> TokenRow]
    /\ pc \in [Requests -> Places]
    /\ req \in [Requests -> Request]
    /\ reap \in [at : Nat, tokens : SUBSET Tokens, codes : SUBSET Codes, grants : SUBSET Grants,
                  sessions : SUBSET Sessions, stage : ReapStages, passes : Nat]

\* A family never has two unused refresh tokens, however many requests present
\* the same one at once: the consume's row lock picks one rotation, and the
\* successor appears in the commit that spends its predecessor.
OneUsableToken ==
    \A t, u \in Tokens :
        /\ Row(token[t]) /\ ~token[t].used
        /\ Row(token[u]) /\ ~token[u].used
        /\ token[t].grant = token[u].grant
        => t = u

\* Of any number of redemptions of one code, concurrent or retried after a
\* failure, one produces a grant.
OneGrantPerCode ==
    \A g, h \in Grants :
        grant[g].st # "none" /\ grant[h].st # "none" /\ grant[g].from = grant[h].from => g = h

\* A request that presented a refresh token already used ends its family, unless
\* the gate refused the request on its own account (another client's token, a
\* disabled subject, a scope or resource too wide) or it died on the way.
PresentedUsed(p) ==
    /\ pc[p] = "done" /\ req[p].token # None /\ req[p].spent
    /\ \/ req[p].outcome \in {"unknown", "revoked", "reused", "issued", "burned"}
       \/ req[p].outcome = "refused" /\ req[p].reason \in {"unknown", "grant_revoked"}
ReuseEndsFamily ==
    \A p \in Requests :
        PresentedUsed(p) => ~Row(grant[req[p].grant]) \/ Revoked(req[p].grant)

\* A redemption of a code already redeemed, answered at all, leaves the grant the
\* first one made revoked.
ReplayEndsGrant ==
    \A p \in Requests :
        (pc[p] = "done" /\ req[p].code # None /\ req[p].spent /\ req[p].outcome # "error")
        => \A g \in Grants : Row(grant[g]) /\ grant[g].from = req[p].code => Revoked(g)

\* Once a refresh token has been spent, the answer is refused only because the
\* subject was disabled meanwhile: every other refusal is made before rotation,
\* and a registration policy that ends in between does not reach it.
OnlyDisablingBurns ==
    \A p \in Requests : req[p].outcome = "burned" => req[p].reason = "subject_disabled"

\* A rotation that began after its family was over yields no successor: what the
\* gate read may be stale, and the rotating transaction reads again.
EndedFamilyYieldsNothing ==
    \A p \in Requests :
        pc[p] = "mint" \/ (req[p].token # None /\ req[p].outcome \in {"issued", "burned"})
        => ~req[p].ended

\* No client spends a refresh token of another client's family, whatever it is
\* answered.
ForeignClientSpendsNothing ==
    [][\A t \in Tokens :
         Row(token[t]) /\ ~token[t].used /\ token'[t].used
         => \E p \in TokenHolders(t) : req[p].client = grant[token[t].grant].client]_vars

\* A revocation is never undone or moved: logout, reuse, replay and recovery
\* each keep the first stamp.
RevocationIsFinal ==
    [][\A g \in Grants : Revoked(g) => grant'[g].revokedAt = grant[g].revokedAt]_vars

\* A refresh token's row leaves only with its family's: until then a replay of
\* it can still be told from an unknown token.
EvidenceLeavesWithFamily ==
    [][\A t \in Tokens :
         Row(token[t]) /\ ~Row(token'[t]) => ~Row(grant'[token[t].grant])]_vars

\* The retention pass never deletes a refresh token a client could still use.
ReapSparesUsable ==
    [][\A t \in Tokens :
         Row(token[t]) /\ ~Row(token'[t]) => token[t].used \/ token[t].expires <= now]_vars

\* No session-bound grant outlives its session's row as an offline one: the pass
\* deletes a session only once no redemption can bind to it.  It holds while the
\* session grace covers a code's lifetime and the requests that redeem it
\* (CodeTtl + 2 * MaxRequestTicks <= SessionGrace + 1); with a shorter grace the
\* foreign key's ON DELETE SET NULL makes the grant an offline one (reap.ts).
SessionBindingKept ==
    [][\A g \in Grants :
         Row(grant[g]) /\ Row(grant'[g]) => grant'[g].session = grant[g].session]_vars

\* Every request is answered: no two transactions wait on each other's rows for
\* ever, the retention pass included.
EveryRequestAnswered == \A p \in Requests : pc[p] # "idle" ~> pc[p] = "idle"
=============================================================================
