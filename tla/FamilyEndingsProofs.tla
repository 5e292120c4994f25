-------------------------- MODULE FamilyEndingsProofs --------------------------
(***************************************************************************)
(* What TLAPS proves of how a family ends: a token or a code used twice    *)
(* ends it, the retention pass leaves the evidence of that as long as the  *)
(* family, no session-bound family outlives its session, and no rotation   *)
(* of a family that is over yields a token.                                *)
(*                                                                         *)
(* These fail in a corner, which the RetentionBoundary run shows of the    *)
(* evidence: a row a request holds lapses while it holds it, and a         *)
(* retention pass begun meanwhile judges it by its lapse.                  *)
(* HeldRowsInTime and HeldSessionsInTime exclude those states.             *)
(***************************************************************************)
EXTENDS FamilySteps

\* Nothing a transaction in flight holds has lapsed at the instant the pass
\* judges by, unless its family is too young to be judged by it.
HeldRowsInTime ==
    reap.stage # "off" => \A p \in Requests :
        /\ pc[p] \in Rotating =>
             \/ token[req[p].token].expires > reap.at
             \/ ~GrantPastRetention(req[p].grant, reap.at, Tokens)
        /\ pc[p] \in Redeeming => code[req[p].code].expires + CodeGrace >= reap.at
HeldSessionsInTime ==
    reap.stage # "off" => \A p \in Requests :
        pc[p] \in Redeeming =>
            session[code[req[p].code].session].expires + SessionGrace >= reap.at

-----------------------------------------------------------------------------
(* The invariant, part by part *)

\* A request presents one thing, and has no outcome before it is answered.
Kind(p) ==
    /\ pc[p] # "done" => req[p].outcome = "none"
    /\ pc[p] \in RefreshPlaces => req[p].code = None
    /\ pc[p] \in CodePlaces => req[p].token = None
Kinds == \A p \in Requests : Kind(p)

\* What a request found spent stays spent, so its consume finds nothing.
Spent(p) ==
    /\ pc[p] \in RefreshPlaces /\ req[p].spent => token[req[p].token].used /\ pc[p] # "mint"
    /\ pc[p] \in CodePlaces /\ req[p].spent => code[req[p].code].consumed
    /\ pc[p] = "codeReplay" /\ req[p].spent => req[p].grant = code[req[p].code].grant

\* The family is deleted or revoked, for good.
Over(g) == ~Row(grant[g]) \/ Revoked(g)

ReuseAnswered(p) ==
    PresentedUsed(p) =>
        req[p].grant \in Grants /\ grant[req[p].grant].st # "none" /\ Over(req[p].grant)
ReplayAnswered(p) ==
    pc[p] = "done" /\ req[p].code # None /\ req[p].spent /\ req[p].outcome # "error" =>
        req[p].code \in Codes /\ code[req[p].code].consumed /\ Over(code[req[p].code].grant)

Requested == \A p \in Requests : Kind(p) /\ Spent(p) /\ ReuseAnswered(p) /\ ReplayAnswered(p)

\* A token or a redeemed code is deleted no sooner than its family.
TokenEvidence == \A t \in Tokens : token[t].st = "gone" => ~Row(grant[token[t].grant])
CodeEvidence ==
    \A c \in Codes : code[c].consumed =>
        /\ code[c].grant \in Grants /\ grant[code[c].grant].st # "none"
        /\ grant[code[c].grant].from = c
        /\ code[c].st = "gone" => ~Row(grant[code[c].grant])
HeldCodes == \A p \in Requests : pc[p] \in Redeeming => Row(code[req[p].code])

\* What the pass has judged is still as it judged it.
Dead(g) == GrantPastRetention(g, reap.at, {})
PassIdle ==
    /\ reap.at <= now
    /\ reap.stage = "off" =>
         reap.tokens = {} /\ reap.codes = {} /\ reap.grants = {} /\ reap.sessions = {}
PassTokens == \A t \in reap.tokens : Dead(token[t].grant)
PassCodes ==
    \A c \in reap.codes :
        /\ code[c].st # "none" /\ code[c].expires + CodeGrace < reap.at
        /\ code[c].consumed => ~Row(grant[code[c].grant]) \/ Dead(code[c].grant)
PassGrants ==
    /\ \A g \in reap.grants : Dead(g)
    /\ reap.stage \in {"sessions", "sessionsLock", "commit"} =>
         /\ \A t \in reap.tokens : token[t].grant \in reap.grants
         /\ \A c \in reap.codes : code[c].consumed =>
              ~Row(grant[code[c].grant]) \/ code[c].grant \in reap.grants
Pass == PassIdle /\ PassTokens /\ PassCodes /\ PassGrants

Endings == Requested /\ TokenEvidence /\ CodeEvidence /\ HeldCodes /\ Pass

\* A code and a grant name a session there is or was, and a code lapses no
\* more than its lifetime after the session does.
SessionRefs ==
    /\ \A c \in reap.codes : code[c].st # "none"
    /\ \A c \in Codes : code[c].st # "none" =>
         /\ code[c].session \in Sessions /\ session[code[c].session].st # "none"
         /\ code[c].expires <= now + CodeTtl
         /\ code[c].expires <= session[code[c].session].expires + CodeTtl
    /\ \A g \in Grants : grant[g].st # "none" /\ grant[g].session # None =>
         grant[g].session \in Sessions /\ session[grant[g].session].st # "none"
PassSessions ==
    /\ reap.stage \notin {"sessionsLock", "commit"} => reap.sessions = {}
    /\ \A s \in reap.sessions :
         /\ Row(session[s]) /\ session[s].expires + SessionGrace < reap.at
         /\ \A g \in Grants \ reap.grants : ~(Row(grant[g]) /\ grant[g].session = s)

\* A family that was over when the rotation began is over at each later read.
SessionOver(s, t) == s \in Sessions /\ (~Row(session[s]) \/ session[s].expires <= t)
EndedRead(p) ==
    /\ pc[p] \in {"consume", "readGrant"} /\ req[p].ended => Ended(req[p].grant, req[p].now)
    /\ pc[p] = "readSession" /\ req[p].ended =>
         SessionOver(req[p].seen.session, req[p].now) /\ session[req[p].seen.session].st # "none"
    /\ pc[p] \in {"rotate", "mint"} => ~req[p].ended
    /\ pc[p] = "done" /\ req[p].token # None /\ req[p].outcome \in {"issued", "burned"} => ~req[p].ended
Bindings == PassSessions /\ \A p \in Requests : EndedRead(p)

\* A request spans at most MaxRequestTicks from the instant it read last, and
\* holds what had not lapsed when its transaction began.
Prompt(p) ==
    /\ pc[p] \in RefreshPlaces \union CodePlaces => req[p].now <= now /\ now <= req[p].now + MaxRequestTicks
    /\ pc[p] \in RefreshPlaces \ {"begin"} => req[p].now <= req[p].at
    /\ pc[p] \in CodePlaces =>
         req[p].now <= req[p].at + (IF pc[p] \in {"codeInsert", "codeCommit"} THEN MaxRequestTicks ELSE 0)
    /\ pc[p] \in Rotating => token[req[p].token].expires > req[p].at
    /\ pc[p] \in Redeeming => code[req[p].code].expires > req[p].at
Promptness ==
    /\ \A p \in Requests : Prompt(p)
    /\ reap.at <= now
    /\ MaxReaps = 0 => reap.stage = "off"

\* Past the gate, the grant's rules hold of the request, whatever is revoked or
\* disabled later.
Allowed(r, g) ==
    /\ g.client = r.client /\ RefreshAllowedForScope(g.scope)
    /\ RequestedTokens(g.scope, r.scope) \subseteq g.scope
    /\ HoldsMcpScope(g.scope) => HoldsMcpScope(RequestedTokens(g.scope, r.scope))
    /\ ~RefreshCeilingRefuses(r.client \in Unvetted, r.policy, RequestedTokens(g.scope, r.scope), g.audience)
    /\ ResourceAllowed(AudiencesHeld(r.client \in Unvetted, r.policy, g.audience), r.resource)
    /\ r.resource \in AskedResources
Gated(p) ==
    /\ pc[p] \in RefreshPlaces => Allowed(req[p], grant[req[p].grant])
    /\ pc[p] \in {"readSession", "rotate", "mint"} =>
         /\ req[p].seen.revokedAt = NotRevoked
         /\ req[p].seen.client = grant[req[p].grant].client
         /\ req[p].seen.scope = grant[req[p].grant].scope
         /\ req[p].seen.audience = grant[req[p].grant].audience
    /\ pc[p] \in {"codeInsert", "codeCommit"} =>
         MintAccessToken(code[req[p].code].scope,
                         NarrowedAudience(code[req[p].code].resource, req[p].resource))
    /\ req[p].outcome = "burned" => req[p].reason = "subject_disabled"
Coherent ==
    \A g \in Grants : grant[g].st # "none" => MintAccessToken(grant[g].scope, grant[g].audience)
Gate == Coherent /\ \A p \in Requests : Gated(p)

-----------------------------------------------------------------------------
(* What was spent when it was presented *)

\* A family that is over stays over.
LEMMA OverStays ==
    ASSUME RowsKept, NEW g \in Grants, grant[g].st # "none", Over(g)
    PROVE  grant'[g].st # "none" /\ Over(g)'
BY DEF RowsKept, GrantKept, Over, Row, Revoked

\* Revoking a family ends it.
LEMMA RevokedIsOver ==
    ASSUME Typed, NEW g \in Grants, NEW t \in Nat, grant[g].st # "none", grant' = RevokeAll({g}, t)
    PROVE  grant'[g].st # "none" /\ Over(g)'
<1>1. grant[g] \in GrantRow BY DEF Typed, TypeOK
<1>2. grant'[g] = IF Row(grant[g]) /\ ~Revoked(g)
                  THEN [grant[g] EXCEPT !.revokedAt = t] ELSE grant[g]
  BY DEF RevokeAll
<1>3. CASE Row(grant[g]) /\ ~Revoked(g)
  <2>1. grant'[g].revokedAt = t /\ grant'[g].st = "row" BY <1>1, <1>2, <1>3 DEF GrantRow, Row
  <2> QED BY <2>1 DEF Over, Revoked, NotRevoked
<1>4. CASE ~(Row(grant[g]) /\ ~Revoked(g)) BY <1>2, <1>4 DEF Over, Row, Revoked
<1> QED BY <1>3, <1>4

\* The refusals of the gate that say a family is over.
LEMMA GateSaysOver ==
    ASSUME IInv, TokenEvidence, NEW t \in Tokens, token[t].st # "none", NEW client, NEW scope, NEW resource,
           GateVerdict(client, t, scope, resource) \in {"unknown", "grant_revoked"}
    PROVE  token[t].grant \in Grants /\ grant[token[t].grant].st # "none" /\ Over(token[t].grant)
<1>1. token[t].grant \in Grants /\ grant[token[t].grant].st # "none"
  BY DEF IInv, Typed, TokenRefs
<1>2. token[t].st \in RowStates BY DEF IInv, Typed, TypeOK, TokenRow
<1>3. CASE ~Row(token[t]) BY <1>1, <1>2, <1>3 DEF TokenEvidence, RowStates, Row, Over
<1>4. CASE Row(token[t])
  <2>1. EvaluateRefreshGrant(grant[token[t].grant], client, enabled, scope) = "grant_revoked"
    BY <1>4, RefreshVerdict DEF GateVerdict, EvaluateRefreshGrant
  <2>2. grant[token[t].grant].revokedAt # NotRevoked BY <2>1 DEF EvaluateRefreshGrant
  <2> QED BY <1>1, <2>2 DEF Over, Revoked
<1> QED BY <1>3, <1>4

\* A step of another request, or of anything else, leaves the request's facts.
LEMMA UnmovedRequest ==
    ASSUME IInv, CodeEvidence, RowsKept, NEW p \in Requests,
           Kind(p), Spent(p), ReuseAnswered(p), ReplayAnswered(p),
           pc'[p] = pc[p], req'[p] = req[p]
    PROVE  Kind(p)' /\ Spent(p)' /\ ReuseAnswered(p)' /\ ReplayAnswered(p)'
<1>1. Kind(p)' BY DEF Kind
<1>2. \A c \in Codes : code[c].consumed =>
        /\ code'[c].consumed /\ code'[c].grant = code[c].grant
        /\ code[c].grant \in Grants /\ grant[code[c].grant].st # "none"
  BY DEF IInv, Families, GrantOrigin, CodeEvidence, RowsKept, CodeKept
<1>3. Spent(p)'
  <2>1. pc[p] \in RefreshPlaces /\ req[p].spent => token'[req[p].token].used
    BY DEF Spent, IInv, Typed, RefreshRefs, RowsKept, TokenKept
  <2>2. pc[p] \in CodePlaces /\ req[p].spent =>
          code'[req[p].code].consumed /\ code'[req[p].code].grant = code[req[p].code].grant
    BY <1>2 DEF Spent, IInv, Typed, CodeRefs
  <2> QED BY <2>1, <2>2 DEF Spent, CodePlaces
<1>4. ReuseAnswered(p)' BY OverStays DEF ReuseAnswered, PresentedUsed
<1>5. ReplayAnswered(p)' BY <1>2, OverStays DEF ReplayAnswered
<1> QED BY <1>1, <1>3, <1>4, <1>5

LEMMA OwnRefreshStep ==
    ASSUME IInv, TokenEvidence, RowsKept, NEW p \in Requests, Kind(p), Spent(p),
           \/ RotateBegin(p) \/ RotateConsume(p) \/ RotateLookup(p) \/ RotateReuse(p)
           \/ RotateReadGrant(p) \/ RotateReadSession(p) \/ RotateCommit(p) \/ MintRefreshed(p)
    PROVE  Kind(p)' /\ Spent(p)' /\ ReuseAnswered(p)' /\ ReplayAnswered(p)'
<1> DEFINE t == req[p].token
<1> PICK g : g = req[p].grant OBVIOUS
<1>0. Typed /\ req[p] \in Request BY DEF IInv, Typed, TypeOK
<1>1. /\ pc[p] \in RefreshPlaces /\ pc[p] # "done" /\ pc[p] \notin CodePlaces
      /\ req[p].code = None /\ req[p].outcome = "none"
      /\ t \in Tokens /\ token[t].st # "none" /\ g = token[t].grant /\ g \in Grants /\ grant[g].st # "none"
      /\ req[p].spent => token[t].used
  <2>1. pc[p] \in RefreshPlaces /\ pc[p] # "done" /\ pc[p] \notin CodePlaces
    BY DEF RotateBegin, RotateConsume, RotateLookup, RotateReuse, RotateReadGrant, RotateReadSession,
           RotateCommit, MintRefreshed, RefreshPlaces, CodePlaces
  <2> QED BY <2>1 DEF Kind, Spent, IInv, Typed, RefreshRefs, TokenRefs
<1>2. pc[p] \in Rotating => ~req[p].spent
  BY <1>1 DEF IInv, Families, TokenHeld
<1>3. token'[t].used \/ ~token[t].used BY <1>1 DEF RowsKept, TokenKept
<1>4. ASSUME pc'[p] \in RefreshPlaces, req'[p].token = t, req'[p].code = None, req'[p].outcome = "none",
             req'[p].spent = req[p].spent, pc'[p] = "mint" => ~req[p].spent
      PROVE  Kind(p)' /\ Spent(p)' /\ ReuseAnswered(p)' /\ ReplayAnswered(p)'
  <2>1. pc'[p] # "done" /\ pc'[p] \notin CodePlaces /\ pc'[p] # "codeReplay"
    BY <1>4 DEF RefreshPlaces, CodePlaces
  <2> QED BY <1>1, <1>3, <1>4, <2>1 DEF Kind, Spent, ReuseAnswered, PresentedUsed, ReplayAnswered
<1>5. ASSUME NEW outcome, NEW reason, Answer(p, outcome, reason),
             req[p].spent /\ outcome \in {"unknown", "revoked", "reused", "issued", "burned"} => Over(g)',
             outcome # "refused"
      PROVE  Kind(p)' /\ Spent(p)' /\ ReuseAnswered(p)' /\ ReplayAnswered(p)'
  <2>1. /\ pc'[p] = "done" /\ req'[p].token = t /\ req'[p].code = None /\ req'[p].grant = g
        /\ req'[p].spent = req[p].spent /\ req'[p].outcome = outcome
    BY <1>0, <1>1, <1>5, Answering
  <2>2. grant'[g].st # "none" BY <1>1 DEF RowsKept, GrantKept
  <2>3. "done" \notin RefreshPlaces /\ "done" \notin CodePlaces BY DEF RefreshPlaces, CodePlaces
  <2> QED BY <1>1, <1>5, <2>1, <2>2, <2>3 DEF Kind, Spent, ReuseAnswered, PresentedUsed, ReplayAnswered
<1>6. ASSUME NEW place \in RefreshPlaces, Goto(p, place), place = "mint" => ~req[p].spent
      PROVE  Kind(p)' /\ Spent(p)' /\ ReuseAnswered(p)' /\ ReplayAnswered(p)'
  <2>1. pc'[p] = place /\ req'[p] = req[p] BY <1>0, <1>6, Going
  <2> QED BY <1>1, <1>4, <1>6, <2>1
<1>7. CASE RotateBegin(p)
  <2>1. pc'[p] = "consume" /\ req'[p] = [req[p] EXCEPT !.at = now, !.ended = Ended(req[p].grant, req[p].now)]
    BY <1>0, <1>7, Carrying
  <2> QED BY <1>0, <1>1, <1>4, <2>1 DEF Request, RefreshPlaces
<1>8. CASE RotateConsume(p)
  BY <1>6, <1>8 DEF RotateConsume, RefreshPlaces
<1>9. CASE RotateLookup(p)
  <2>1. CASE Row(token[t]) /\ token[t].used
    BY <1>6, <1>9, <2>1 DEF RotateLookup, RefreshPlaces
  <2>2. CASE ~(Row(token[t]) /\ token[t].used)
    <3>1. req[p].spent => token[t].st = "gone"
      BY <1>1, <2>2 DEF IInv, Typed, TypeOK, TokenRow, RowStates, Row
    <3>2. req[p].spent => Over(g) BY <1>1, <3>1 DEF TokenEvidence, Over
    <3>3. req[p].spent => Over(g)' BY <1>1, <3>2, OverStays
    <3>4. Answer(p, "unknown", "") BY <1>9, <2>2 DEF RotateLookup
    <3> QED BY <1>5, <3>3, <3>4
  <2> QED BY <2>1, <2>2
<1>10. CASE RotateReuse(p)
  <2>1. Over(g)'
    <3>1. req[p].now \in Nat BY <1>0 DEF Request
    <3> QED BY <1>0, <1>1, <1>10, <3>1, RevokedIsOver DEF RotateReuse
  <2> QED BY <1>5, <1>10, <2>1 DEF RotateReuse
<1>11. CASE RotateReadGrant(p)
  <2>0. ~req[p].spent BY <1>2, <1>11 DEF RotateReadGrant, Rotating
  <2>1. CASE ~Row(grant[g]) \/ Revoked(g)
    <3>1. Answer(p, "error", "") \/ Answer(p, "revoked", "")
      BY <1>11, <2>1 DEF RotateReadGrant, Revoked
    <3> QED BY <1>5, <2>0, <3>1
  <2>2. CASE Row(grant[g]) /\ ~Revoked(g)
    <3>1. pc'[p] \in {"rotate", "readSession"} /\ req'[p] = [req[p] EXCEPT !.seen = grant[g]]
      BY <1>0, <1>11, <2>2, Carrying
    <3> QED BY <1>0, <1>1, <1>4, <3>1 DEF Request, RefreshPlaces
  <2> QED BY <2>1, <2>2
<1>12. CASE RotateReadSession(p)
  <2>0. ~req[p].spent BY <1>2, <1>12 DEF RotateReadSession, Rotating
  <2>1. Goto(p, "rotate") \/ Answer(p, "revoked", "") BY <1>12 DEF RotateReadSession
  <2> QED BY <1>5, <1>6, <2>0, <2>1 DEF RefreshPlaces
<1>13. CASE RotateCommit(p)
  <2>0. ~req[p].spent BY <1>2, <1>13 DEF RotateCommit, Rotating
  <2>1. Goto(p, "mint") \/ Answer(p, "error", "") BY <1>13 DEF RotateCommit
  <2> QED BY <1>5, <1>6, <2>0, <2>1 DEF RefreshPlaces
<1>14. CASE MintRefreshed(p)
  <2>0. ~req[p].spent BY <1>14 DEF MintRefreshed, Spent, RefreshPlaces
  <2>1. Answer(p, "issued", "") \/ Answer(p, "burned", MintVerdict(p)) BY <1>14 DEF MintRefreshed
  <2> QED BY <1>5, <2>0, <2>1
<1> QED BY <1>7, <1>8, <1>9, <1>10, <1>11, <1>12, <1>13, <1>14

LEMMA OwnCodeStep ==
    ASSUME IInv, CodeEvidence, RowsKept, NEW p \in Requests, Kind(p), Spent(p),
           \/ CodeConsume(p) \/ CodeLookup(p) \/ CodeReplay(p) \/ CodeDecide(p)
           \/ CodeInsert(p) \/ CodeCommit(p)
    PROVE  Kind(p)' /\ Spent(p)' /\ ReuseAnswered(p)' /\ ReplayAnswered(p)'
<1> PICK c : c = req[p].code OBVIOUS
<1> PICK g : g = code[c].grant OBVIOUS
<1>0. Typed /\ req[p] \in Request BY DEF IInv, Typed, TypeOK
<1>1. /\ pc[p] \in CodePlaces /\ pc[p] # "done" /\ pc[p] \notin RefreshPlaces
      /\ req[p].token = None /\ req[p].outcome = "none" /\ c \in Codes
      /\ req[p].spent => code[c].consumed
  <2>1. pc[p] \in CodePlaces /\ pc[p] # "done" /\ pc[p] \notin RefreshPlaces
    BY DEF CodeConsume, CodeLookup, CodeReplay, CodeDecide, CodeInsert, CodeCommit,
           RefreshPlaces, CodePlaces
  <2> QED BY <2>1 DEF Kind, Spent, IInv, Typed, CodeRefs
<1>2. pc[p] \in Redeeming => ~req[p].spent
  BY <1>1 DEF IInv, Families, CodeHeld
<1>3. code[c].consumed =>
        /\ code[c].st # "none" /\ code'[c].consumed /\ code'[c].grant = g
        /\ g \in Grants /\ grant[g].st # "none"
  BY <1>1 DEF IInv, Families, GrantOrigin, CodeEvidence, RowsKept, CodeKept
<1>4. ASSUME pc'[p] \in CodePlaces, req'[p].token = None, req'[p].code = c, req'[p].outcome = "none",
             req'[p].spent = req[p].spent,
             pc'[p] = "codeReplay" /\ req[p].spent => req'[p].grant = g
      PROVE  Kind(p)' /\ Spent(p)' /\ ReuseAnswered(p)' /\ ReplayAnswered(p)'
  <2>1. pc'[p] # "done" /\ pc'[p] \notin RefreshPlaces BY <1>4 DEF RefreshPlaces, CodePlaces
  <2> QED BY <1>1, <1>3, <1>4, <2>1 DEF Kind, Spent, ReuseAnswered, PresentedUsed, ReplayAnswered
<1>5. ASSUME NEW outcome, NEW reason, Answer(p, outcome, reason),
             req[p].spent /\ outcome # "error" => Over(g)'
      PROVE  Kind(p)' /\ Spent(p)' /\ ReuseAnswered(p)' /\ ReplayAnswered(p)'
  <2>1. /\ pc'[p] = "done" /\ req'[p].token = None /\ req'[p].code = c
        /\ req'[p].spent = req[p].spent /\ req'[p].outcome = outcome
    BY <1>0, <1>1, <1>5, Answering
  <2>2. "done" \notin RefreshPlaces /\ "done" \notin CodePlaces BY DEF RefreshPlaces, CodePlaces
  <2>3. ReplayAnswered(p)'
    <3>1. req[p].spent => code'[c].consumed /\ code'[c].grant = g BY <1>1, <1>3
    <3>2. req[p].spent /\ outcome # "error" => Over(code[req[p].code].grant)'
      BY <1>5, <2>1, <3>1 DEF Over, Row, Revoked
    <3> QED BY <1>1, <2>1, <3>1, <3>2 DEF ReplayAnswered
  <2> QED BY <2>1, <2>2, <2>3 DEF Kind, Spent, ReuseAnswered, PresentedUsed
<1>6. ASSUME NEW place \in CodePlaces \ {"codeReplay"}, Goto(p, place)
      PROVE  Kind(p)' /\ Spent(p)' /\ ReuseAnswered(p)' /\ ReplayAnswered(p)'
  <2>1. pc'[p] = place /\ req'[p] = req[p] BY <1>0, <1>6, Going
  <2> QED BY <1>1, <1>4, <1>6, <2>1
<1>7. CASE CodeConsume(p) BY <1>6, <1>7 DEF CodeConsume, CodePlaces
<1>8. CASE CodeLookup(p)
  <2>1. CASE Row(code[c]) /\ code[c].grant # None
    <3>1. pc'[p] = "codeReplay" /\ req'[p] = [req[p] EXCEPT !.grant = code[c].grant]
      BY <1>0, <1>8, <2>1, Carrying
    <3> QED BY <1>0, <1>1, <1>4, <3>1 DEF Request, CodePlaces
  <2>2. CASE ~(Row(code[c]) /\ code[c].grant # None)
    <3>1. req[p].spent => code[c].st = "gone"
      <4>1. code[c].st \in RowStates BY <1>1 DEF IInv, Typed, TypeOK, CodeRow
      <4>2. None \notin Grants BY ConstantsAssumption
      <4> QED BY <1>1, <1>3, <2>2, <4>1, <4>2 DEF RowStates, Row
    <3>2. req[p].spent => Over(g) BY <1>1, <3>1 DEF CodeEvidence, Over
    <3>3. req[p].spent => Over(g)' BY <1>1, <1>3, <3>2, OverStays
    <3>4. Answer(p, "refused", "unknown") BY <1>8, <2>2 DEF CodeLookup
    <3> QED BY <1>5, <3>3, <3>4
  <2> QED BY <2>1, <2>2
<1>9. CASE CodeReplay(p)
  <2>1. req[p].spent => Over(g)'
    <3>1. req[p].spent => req[p].grant = g BY <1>9 DEF CodeReplay, Spent
    <3>2. now \in Nat BY DEF IInv, Typed, TypeOK
    <3>3. grant' = RevokeAll({req[p].grant}, now) BY <1>9 DEF CodeReplay
    <3> QED BY <1>0, <1>1, <1>3, <3>1, <3>2, <3>3, RevokedIsOver
  <2> QED BY <1>5, <1>9, <2>1 DEF CodeReplay
<1>10. CASE CodeDecide(p)
  <2>0. ~req[p].spent BY <1>2, <1>10 DEF CodeDecide, Redeeming
  <2>1. CASE RedeemVerdict(p) = "ok"
    <3>1. pc'[p] = "codeInsert" /\ req'[p] = [req[p] EXCEPT !.now = now]
      BY <1>0, <1>10, <2>1, Carrying
    <3> QED BY <1>0, <1>1, <1>4, <3>1 DEF Request, CodePlaces
  <2>2. CASE RedeemVerdict(p) # "ok"
    BY <1>5, <1>10, <2>0, <2>2 DEF CodeDecide
  <2> QED BY <2>1, <2>2
<1>11. CASE CodeInsert(p)
  <2>1. Goto(p, "codeCommit") \/ Answer(p, "error", "") BY <1>11 DEF CodeInsert
  <2> QED BY <1>5, <1>6, <2>1 DEF CodePlaces
<1>12. CASE CodeCommit(p)
  <2>0. ~req[p].spent BY <1>2, <1>12 DEF CodeCommit, Redeeming
  <2> QED BY <1>5, <1>12, <2>0 DEF CodeCommit
<1> QED BY <1>7, <1>8, <1>9, <1>10, <1>11, <1>12

LEMMA ArrivingRequest ==
    ASSUME IInv, TokenEvidence, NEW p \in Requests, Arrive(p)
    PROVE  Kind(p)' /\ Spent(p)' /\ ReuseAnswered(p)' /\ ReplayAnswered(p)'
<1>0. Typed BY DEF IInv
<1>1. ASSUME NEW client \in Clients, NEW t \in Tokens, NEW scope \in AskedScopes,
             NEW resource \in AskedResources, PresentRefreshToken(p, client, t, scope, resource)
      PROVE  Kind(p)' /\ Spent(p)' /\ ReuseAnswered(p)' /\ ReplayAnswered(p)'
  <2>1. /\ token[t].st # "none" /\ UNCHANGED dbVars
        /\ req'[p].token = t /\ req'[p].code = None
        /\ req'[p].grant = token[t].grant /\ (req'[p].spent <=> token[t].used)
    BY <1>0, <1>1, Presenting
  <2>2. CASE Admitted(client, t, scope, resource)
    <3>1. pc'[p] = "begin" /\ req'[p].outcome = "none" BY <1>0, <1>1, <2>2, Presenting
    <3>2. Kind(p)' /\ ReuseAnswered(p)' /\ ReplayAnswered(p)'
      BY <2>1, <3>1 DEF Kind, ReuseAnswered, PresentedUsed, ReplayAnswered, RefreshPlaces, CodePlaces
    <3>3. "begin" \notin CodePlaces BY DEF CodePlaces
    <3>4. req'[p].spent => token'[req'[p].token].used BY <2>1 DEF dbVars
    <3> QED BY <3>1, <3>2, <3>3, <3>4 DEF Spent
  <2>3. CASE ~Admitted(client, t, scope, resource)
    <3>0. PICK verdict : verdict = GateVerdict(client, t, scope, resource) OBVIOUS
    <3>1. pc'[p] = "done" /\ req'[p].outcome = "refused" /\ req'[p].reason = verdict
      BY <1>0, <1>1, <2>3, <3>0, Presenting
    <3>2. Kind(p)' /\ Spent(p)' /\ ReplayAnswered(p)'
      BY <2>1, <3>1 DEF Kind, Spent, ReplayAnswered, RefreshPlaces, CodePlaces
    <3>3. verdict \in {"unknown", "grant_revoked"} =>
            token[t].grant \in Grants /\ grant[token[t].grant].st # "none" /\ Over(token[t].grant)
      BY <2>1, <3>0, GateSaysOver
    <3>4. ReuseAnswered(p)'
      BY <2>1, <3>1, <3>3 DEF ReuseAnswered, PresentedUsed, Over, Row, Revoked, dbVars
    <3> QED BY <3>2, <3>4
  <2> QED BY <2>2, <2>3
<1>2. ASSUME NEW client \in Clients, NEW c \in Codes, NEW proof \in BOOLEAN,
             NEW resource \in AskedResources, PresentCode(p, client, c, proof, resource)
      PROVE  Kind(p)' /\ Spent(p)' /\ ReuseAnswered(p)' /\ ReplayAnswered(p)'
  <2>1. /\ UNCHANGED dbVars /\ pc'[p] = "codeConsume" /\ req'[p].token = None /\ req'[p].code = c
        /\ req'[p].spent = code[c].consumed /\ req'[p].outcome = "none"
    BY <1>0, <1>2, PresentingCode
  <2> QED BY <2>1 DEF Kind, Spent, ReuseAnswered, PresentedUsed, ReplayAnswered, RefreshPlaces, CodePlaces, dbVars
<1> QED BY <1>1, <1>2 DEF Arrive

LEMMA RequestedNext ==
    ASSUME IInv, Requested, TokenEvidence, CodeEvidence, [Next]_vars PROVE Requested'
<1>0. RowsKept BY RowsStep
<1> SUFFICES ASSUME NEW p \in Requests
             PROVE  Kind(p)' /\ Spent(p)' /\ ReuseAnswered(p)' /\ ReplayAnswered(p)'
  BY DEF Requested
<1>1. Kind(p) /\ Spent(p) /\ ReuseAnswered(p) /\ ReplayAnswered(p) /\ Typed BY DEF Requested, IInv
<1>2. CASE ~RequestStep(p) BY <1>0, <1>1, <1>2, OthersStay, UnmovedRequest
<1>3. CASE Arrive(p) BY <1>3, ArrivingRequest
<1>4. CASE Fail(p)
  <2>1. Answer(p, "error", "") /\ pc[p] # "idle" BY <1>4 DEF Fail
  <2>2. pc'[p] = "done" /\ req'[p].outcome = "error" BY <1>1, <2>1, Answering
  <2> QED BY <2>2 DEF Kind, Spent, ReuseAnswered, PresentedUsed, ReplayAnswered, RefreshPlaces, CodePlaces
<1>5. CASE Finish(p)
  <2>1. pc'[p] = "idle" /\ req'[p] = NoRequest BY <1>1, <1>5, Carrying
  <2>2. req'[p].outcome = "none" BY <2>1, BlankRequest
  <2>3. "idle" \notin RefreshPlaces /\ "idle" \notin CodePlaces BY DEF RefreshPlaces, CodePlaces
  <2> QED BY <2>1, <2>2, <2>3 DEF Kind, Spent, ReuseAnswered, PresentedUsed, ReplayAnswered
<1>6. CASE HandlerStep(p) /\ ~Finish(p)
  BY <1>0, <1>1, <1>6, OwnRefreshStep, OwnCodeStep DEF HandlerStep
<1> QED BY <1>2, <1>3, <1>4, <1>5, <1>6 DEF RequestStep

-----------------------------------------------------------------------------
(* What the retention pass has judged *)

\* A family past retention is so whatever tokens are left out.
LEMMA DeadSpared ==
    ASSUME NEW g, Dead(g), NEW deleted PROVE GrantPastRetention(g, reap.at, deleted)
BY DEF Dead, GrantPastRetention

\* No rotation makes a family past retention young again: the one that could
\* holds an unlapsed token of it.
LEMMA DeadStays ==
    ASSUME IInv, HeldRowsInTime, [Next]_vars, reap.stage # "off", ~ReapCommit, reap'.at = reap.at,
           NEW g \in Grants, Dead(g)
    PROVE  Dead(g)'
<1>0. RowsKept /\ Typed /\ Row(grant[g]) BY RowsStep DEF IInv, Dead, GrantPastRetention
<1>1. /\ grant'[g].st = grant[g].st /\ grant'[g].session = grant[g].session
      /\ grant'[g].created = grant[g].created
  BY <1>0 DEF RowsKept, GrantKept, Row
<1>2. ASSUME NEW t \in Tokens, Row(token'[t]), token'[t].grant = g, ~token'[t].used, token'[t].expires > reap.at
      PROVE  FALSE
  <2>1. CASE token[t].st # "none"
    <3>1. /\ token[t].st = "row" /\ token[t].grant = g /\ ~token[t].used /\ token[t].expires > reap.at
      BY <1>0, <1>2, <2>1 DEF RowsKept, TokenKept, Row
    <3> QED BY <3>1 DEF Dead, GrantPastRetention, Row
  <2>2. CASE token[t].st = "none"
    <3>1. PICK p \in Requests : pc[p] = "rotate" /\ g = req[p].grant
      BY <1>0, <1>2, <2>2, NewTokens DEF Row
    <3>2. pc[p] \in Rotating /\ pc[p] \in RefreshPlaces BY <3>1 DEF Rotating, RefreshPlaces
    <3>3. /\ req[p].token \in Tokens /\ Row(token[req[p].token]) /\ ~token[req[p].token].used
          /\ token[req[p].token].grant = g /\ token[req[p].token].expires > reap.at
      BY <3>1, <3>2, DeadSpared DEF HeldRowsInTime, IInv, Families, TokenHeld, Typed, RefreshRefs
    <3> QED BY <3>3 DEF Dead, GrantPastRetention
  <2> QED BY <2>1, <2>2
<1>3. PICK w : w = grant[g].created + (IF (IF grant[g].session = None THEN OfflineWindow ELSE GrantWindow) > SessionMax
                                      THEN (IF grant[g].session = None THEN OfflineWindow ELSE GrantWindow)
                                      ELSE SessionMax)
  OBVIOUS
<1>4. w < reap.at BY <1>3 DEF Dead, GrantPastRetention
<1>5. Row(grant'[g]) BY <1>0, <1>1 DEF Row
<1> QED BY <1>1, <1>2, <1>3, <1>4, <1>5 DEF Dead, GrantPastRetention

\* Judging without the tokens the pass deletes spares no family more.
LEMMA DeadWithout ==
    ASSUME IInv, PassTokens, NEW g \in Grants, GrantPastRetention(g, reap.at, reap.tokens)
    PROVE  Dead(g)
<1>1. CASE \E t \in reap.tokens : token[t].grant = g BY <1>1 DEF PassTokens
<1>2. CASE \A t \in reap.tokens : token[t].grant # g
  BY <1>2 DEF GrantPastRetention, Dead
<1> QED BY <1>1, <1>2

\* A step that leaves the pass alone leaves what it has judged.
LEMMA PassKept ==
    ASSUME IInv, CodeEvidence, Pass, HeldRowsInTime, [Next]_vars, UNCHANGED reap, ~ReapCommit
    PROVE  Pass'
<1>0. /\ Typed /\ RowsKept /\ now <= now' /\ now \in Nat /\ now' \in Nat /\ reap.at \in Nat
      /\ reap.tokens \subseteq Tokens /\ reap.codes \subseteq Codes /\ reap.grants \subseteq Grants
  BY RowsStep, PassUnmoved DEF IInv, Typed, TypeOK
<1>1. PassIdle' BY <1>0 DEF Pass, PassIdle
<1>2. CASE reap.stage = "off"
  <2>1. reap.tokens = {} /\ reap.codes = {} /\ reap.grants = {} BY <1>2 DEF Pass, PassIdle
  <2> QED BY <1>1, <1>2, <2>1 DEF Pass, PassTokens, PassCodes, PassGrants
<1>3. CASE reap.stage # "off"
  <2>1. \A g \in Grants : Dead(g) => Dead(g)' BY <1>3, DeadStays
  <2>2. \A t \in reap.tokens : token'[t].grant = token[t].grant /\ token[t].grant \in Grants
    BY <1>0 DEF RowsKept, TokenKept, Typed, ReapRefs, TokenRefs
  <2>3. PassTokens' BY <2>1, <2>2 DEF Pass, PassTokens, Dead
  <2>4. ASSUME NEW c \in reap.codes
        PROVE  /\ code'[c].st # "none" /\ code'[c].expires = code[c].expires
               /\ code'[c].consumed =>
                    /\ code[c].consumed /\ code'[c].grant = code[c].grant
                    /\ code[c].grant \in Grants /\ grant[code[c].grant].st # "none"
    <3>0. c \in Codes BY <1>0
    <3>1. code[c].st # "none" /\ code[c].expires + CodeGrace < reap.at BY DEF Pass, PassCodes
    <3>2. CodeKept(c) BY <1>0, <3>0, <3>1 DEF RowsKept
    <3>3. code'[c].st # "none" /\ code'[c].expires = code[c].expires BY <3>1, <3>2 DEF CodeKept
    <3>4. ASSUME code'[c].consumed, ~code[c].consumed PROVE FALSE
      <4>1. PICK p \in Requests : CodeCommit(p) /\ req[p].code = c BY <3>0, <3>4, SpentCodes
      <4>2. pc[p] \in Redeeming BY <4>1 DEF CodeCommit, Redeeming
      <4>3. code[c].expires + CodeGrace >= reap.at BY <1>3, <4>1, <4>2 DEF HeldRowsInTime
      <4>4. code[c].expires \in Nat /\ CodeGrace \in Nat
        BY <3>0, ConstantsAssumption DEF IInv, Typed, TypeOK, CodeRow
      <4> QED BY <1>0, <3>1, <4>3, <4>4
    <3>5. code[c].consumed =>
            /\ code'[c].grant = code[c].grant
            /\ code[c].grant \in Grants /\ grant[code[c].grant].st # "none"
      BY <3>0, <3>2 DEF CodeKept, CodeEvidence
    <3> QED BY <3>3, <3>4, <3>5
  <2>5. \A g \in Grants : grant[g].st # "none" /\ ~Row(grant[g]) => ~Row(grant'[g])
    BY <1>0 DEF RowsKept, GrantKept, Row
  <2>6. PassCodes'
    <3>1. ASSUME NEW c \in reap.codes PROVE
            /\ code'[c].st # "none" /\ code'[c].expires + CodeGrace < reap.at
            /\ code'[c].consumed => ~Row(grant'[code[c].grant]) \/ Dead(code[c].grant)'
      <4>1. /\ code[c].expires + CodeGrace < reap.at
            /\ code[c].consumed => ~Row(grant[code[c].grant]) \/ Dead(code[c].grant)
        BY DEF Pass, PassCodes
      <4>2. PICK g : g = code[c].grant OBVIOUS
      <4>3. code'[c].consumed => ~Row(grant'[g]) \/ Dead(g)'
        BY <2>1, <2>4, <2>5, <4>1, <4>2
      <4>4. code'[c].consumed => code'[c].grant = g BY <2>4, <4>2
      <4>5. code'[c].consumed => ~Row(grant'[code'[c].grant]) \/ Dead(code[c].grant)'
        BY <4>3, <4>4 DEF Dead, GrantPastRetention
      <4> QED BY <2>4, <4>1, <4>2, <4>4, <4>5
    <3>2. ASSUME NEW c \in reap.codes, code'[c].consumed PROVE code'[c].grant = code[c].grant
      BY <2>4, <3>2
    <3> QED BY <3>1, <3>2 DEF PassCodes
  <2>7. PassGrants'
    <3>1. \A g \in reap.grants : Dead(g)' BY <1>0, <2>1 DEF Pass, PassGrants
    <3>2. reap.stage \in {"sessions", "sessionsLock", "commit"} =>
            /\ \A t \in reap.tokens : token'[t].grant \in reap.grants
            /\ \A c \in reap.codes : code'[c].consumed =>
                 ~Row(grant'[code'[c].grant]) \/ code'[c].grant \in reap.grants
      BY <2>2, <2>4, <2>5 DEF Pass, PassGrants
    <3> QED BY <3>1, <3>2 DEF PassGrants, Dead
  <2> QED BY <1>1, <2>3, <2>6, <2>7 DEF Pass
<1> QED BY <1>2, <1>3

\* A step of the pass that leaves the tables alone judges by them as they are.
LEMMA DeadReread ==
    ASSUME UNCHANGED <<grant, token>>, reap'.at = reap.at, NEW g
    PROVE  Dead(g)' <=> Dead(g)
BY DEF Dead, GrantPastRetention, Row

LEMMA PassJudges ==
    ASSUME IInv, CodeEvidence, Pass, ReapBegin \/ ReapStep \/ ReapFail
    PROVE  Pass'
<1>0. /\ Typed /\ now \in Nat /\ reap.at \in Nat
      /\ reap \in [at : Nat, tokens : SUBSET Tokens, codes : SUBSET Codes, grants : SUBSET Grants,
                   sessions : SUBSET Sessions, stage : ReapStages, passes : Nat]
  BY DEF IInv, Typed, TypeOK
<1>1. ASSUME reap'.tokens = {}, reap'.codes = {}, reap'.grants = {}, reap'.sessions = {},
             reap'.at = 0 \/ (reap'.at = now /\ reap'.stage = "tokens"), UNCHANGED now
      PROVE  Pass'
  BY <1>0, <1>1 DEF Pass, PassIdle, PassTokens, PassCodes, PassGrants
<1>2. CASE ReapBegin \/ ReapFail \/ ReapCommit
  <2>1. UNCHANGED now /\ reap' \in {[NoReap EXCEPT !.at = now, !.stage = "tokens", !.passes = reap.passes + 1],
                                   [NoReap EXCEPT !.passes = reap.passes]}
    BY <1>2 DEF ReapBegin, ReapFail, ReapCommit, envVars
  <2> QED BY <1>1, <2>1 DEF NoReap
<1>3. ASSUME UNCHANGED <<now, dbVars>>, reap'.at = reap.at, reap.stage # "off", reap'.stage # "off",
             PassTokens', PassCodes', PassGrants'
      PROVE  Pass'
  BY <1>3 DEF Pass, PassIdle
<1>4. ASSUME UNCHANGED <<now, dbVars>>, reap'.at = reap.at PROVE \A g \in Grants : Dead(g)' <=> Dead(g)
  BY <1>4, DeadReread DEF dbVars
<1>5. CASE ReapTokens
  <2>1. /\ reap.stage = "tokens" /\ UNCHANGED <<now, dbVars>> /\ reap'.at = reap.at
        /\ reap'.stage = "tokensLock" /\ reap'.codes = reap.codes /\ reap'.grants = reap.grants
        /\ reap'.tokens = {t \in Tokens : Row(token[t]) /\ Dead(token[t].grant)}
    BY <1>0, <1>5 DEF ReapTokens, envVars, Dead
  <2>2. \A t \in Tokens : Row(token[t]) => token[t].grant \in Grants
    BY DEF IInv, Typed, TokenRefs, Row
  <2>3. PassTokens' BY <1>4, <2>1, <2>2 DEF PassTokens, dbVars
  <2>4. PassCodes'
    <3>1. \A c \in reap.codes : code[c].consumed => code[c].grant \in Grants
      BY <1>0 DEF CodeEvidence
    <3> QED BY <1>4, <2>1, <3>1 DEF Pass, PassCodes, dbVars
  <2>5. PassGrants' BY <1>0, <1>4, <2>1 DEF Pass, PassGrants
  <2> QED BY <1>3, <2>1, <2>3, <2>4, <2>5
<1>6. CASE ReapTokensLock \/ ReapCodesLock \/ ReapSessions \/ ReapSessionsLock
  <2>1. /\ UNCHANGED <<now, dbVars>> /\ reap'.at = reap.at /\ reap.stage # "off" /\ reap'.stage # "off"
        /\ reap'.tokens = reap.tokens /\ reap'.codes = reap.codes /\ reap'.grants = reap.grants
        /\ reap'.stage \in {"sessions", "sessionsLock", "commit"} =>
             reap.stage \in {"sessions", "sessionsLock", "commit"}
    BY <1>0, <1>6 DEF ReapTokensLock, ReapCodesLock, ReapSessions, ReapSessionsLock, envVars
  <2>2. \A t \in reap.tokens : token[t].grant \in Grants
    BY <1>0 DEF Typed, ReapRefs, TokenRefs
  <2>3. \A c \in reap.codes : code[c].consumed => code[c].grant \in Grants
    BY <1>0 DEF CodeEvidence
  <2>4. PassTokens' BY <1>4, <2>1, <2>2 DEF Pass, PassTokens, dbVars
  <2>5. PassCodes' BY <1>4, <2>1, <2>3 DEF Pass, PassCodes, dbVars
  <2>6. PassGrants' BY <1>0, <1>4, <2>1 DEF Pass, PassGrants, dbVars
  <2> QED BY <1>3, <2>1, <2>4, <2>5, <2>6
<1>7. CASE ReapCodes
  <2>1. /\ reap.stage = "codes" /\ UNCHANGED <<now, dbVars>> /\ reap'.at = reap.at
        /\ reap'.stage = "codesLock" /\ reap'.tokens = reap.tokens /\ reap'.grants = reap.grants
        /\ reap'.codes = {c \in Codes :
              /\ Row(code[c]) /\ code[c].expires + CodeGrace < reap.at
              /\ \/ code[c].grant = None
                 \/ ~Row(grant[code[c].grant])
                 \/ GrantPastRetention(code[c].grant, reap.at, reap.tokens)}
    BY <1>0, <1>7 DEF ReapCodes, envVars
  <2>2. \A t \in reap.tokens : token[t].grant \in Grants
    BY <1>0 DEF Typed, ReapRefs, TokenRefs
  <2>3. PassTokens' BY <1>4, <2>1, <2>2 DEF Pass, PassTokens, dbVars
  <2>4. PassCodes'
    <3>1. ASSUME NEW c \in reap'.codes PROVE
            /\ code[c].st # "none" /\ code[c].expires + CodeGrace < reap.at
            /\ code[c].consumed => code[c].grant \in Grants /\ (~Row(grant[code[c].grant]) \/ Dead(code[c].grant))
      <4>1. /\ c \in Codes /\ Row(code[c]) /\ code[c].expires + CodeGrace < reap.at
            /\ \/ code[c].grant = None
               \/ ~Row(grant[code[c].grant])
               \/ GrantPastRetention(code[c].grant, reap.at, reap.tokens)
        BY <2>1, <3>1
      <4>2. code[c].consumed => code[c].grant \in Grants /\ code[c].grant # None
        BY <4>1, ConstantsAssumption DEF CodeEvidence
      <4>3. code[c].consumed => ~Row(grant[code[c].grant]) \/ Dead(code[c].grant)
        BY <4>1, <4>2, DeadWithout DEF Pass
      <4> QED BY <4>1, <4>2, <4>3 DEF Row
    <3> QED BY <1>4, <2>1, <3>1 DEF PassCodes, dbVars
  <2>5. PassGrants' BY <1>0, <1>4, <2>1 DEF Pass, PassGrants
  <2> QED BY <1>3, <2>1, <2>3, <2>4, <2>5
<1>8. CASE ReapGrants
  <2>1. /\ reap.stage = "grants" /\ UNCHANGED <<now, dbVars>> /\ reap'.at = reap.at
        /\ reap'.stage = "sessions" /\ reap'.tokens = reap.tokens /\ reap'.codes = reap.codes
        /\ reap'.grants = {g \in Grants : GrantPastRetention(g, reap.at, reap.tokens)}
    BY <1>0, <1>8 DEF ReapGrants, envVars
  <2>2. \A t \in reap.tokens : token[t].grant \in Grants
    BY <1>0 DEF Typed, ReapRefs, TokenRefs
  <2>3. \A c \in reap.codes : code[c].consumed => code[c].grant \in Grants
    BY <1>0 DEF CodeEvidence
  <2>4. PassTokens' BY <1>4, <2>1, <2>2 DEF Pass, PassTokens, dbVars
  <2>5. PassCodes' BY <1>4, <2>1, <2>3 DEF Pass, PassCodes, dbVars
  <2>6. \A g \in Grants : Dead(g) <=> g \in reap'.grants
    BY <2>1, DeadWithout, DeadSpared DEF Pass
  <2>7. PassGrants'
    <3>1. \A g \in reap'.grants : Dead(g)' BY <1>4, <2>1, <2>6
    <3>2. \A t \in reap.tokens : token'[t].grant \in reap'.grants
      BY <2>1, <2>2, <2>6 DEF Pass, PassTokens, dbVars
    <3>3. \A c \in reap.codes : code'[c].consumed =>
            ~Row(grant'[code'[c].grant]) \/ code'[c].grant \in reap'.grants
      BY <2>1, <2>3, <2>6 DEF Pass, PassCodes, dbVars
    <3> QED BY <2>1, <3>1, <3>2, <3>3 DEF PassGrants
  <2> QED BY <1>3, <2>1, <2>4, <2>5, <2>7
<1> QED BY <1>2, <1>5, <1>6, <1>7, <1>8 DEF ReapStep

-----------------------------------------------------------------------------
(* The evidence of a reuse goes with the family *)

LEMMA TokenEvidenceNext ==
    ASSUME IInv, TokenEvidence, Pass, [Next]_vars PROVE TokenEvidence'
<1>0. Typed /\ RowsKept BY RowsStep DEF IInv
<1> SUFFICES ASSUME NEW t \in Tokens, token'[t].st = "gone" PROVE ~Row(grant'[token'[t].grant])
  BY DEF TokenEvidence
<1>1. token[t].st # "none" BY NewTokens
<1>2. PICK g \in Grants : g = token[t].grant /\ grant[g].st # "none" /\ g = token'[t].grant
  BY <1>0, <1>1 DEF Typed, TokenRefs, RowsKept, TokenKept
<1>3. CASE ~Row(grant[g]) BY <1>0, <1>2, <1>3 DEF RowsKept, GrantKept, Row
<1>4. CASE Row(grant[g])
  <2>1. token[t].st # "gone" BY <1>2, <1>4 DEF TokenEvidence
  <2>2. ReapCommit BY <1>0, <1>1, <2>1 DEF RowsKept, TokenKept
  <2>3. t \in reap.tokens \union Cascaded BY <1>0, <2>1, <2>2, Reaps
  <2>4. g \in reap.grants
    <3>1. CASE t \in reap.tokens
      BY <1>2, <2>2, <3>1 DEF ReapCommit, Pass, PassGrants
    <3>2. CASE t \in Cascaded BY <1>2, <3>2 DEF Cascaded
    <3> QED BY <2>3, <3>1, <3>2
  <2>5. grant'[g].st = "gone" BY <1>0, <2>2, <2>4, Reaps
  <2> QED BY <1>2, <2>5 DEF Row
<1> QED BY <1>3, <1>4

LEMMA HeldCodesNext ==
    ASSUME IInv, HeldCodes, Pass, HeldRowsInTime, [Next]_vars PROVE HeldCodes'
<1>0. Typed /\ RowsKept BY RowsStep DEF IInv
<1> SUFFICES ASSUME NEW p \in Requests, pc'[p] \in Redeeming PROVE Row(code'[req'[p].code])
  BY DEF HeldCodes
<1>1. /\ req'[p].code = req[p].code /\ pc[p] \in CodePlaces
      /\ pc[p] \in Redeeming \/ (UNCHANGED code /\ Redeemable(req[p].code, req[p].at))
  BY ComesToHold
<1>2. CASE UNCHANGED code /\ Redeemable(req[p].code, req[p].at)
  BY <1>1, <1>2 DEF Redeemable
<1>3. CASE pc[p] \in Redeeming
  <2>1. PICK c \in Codes : c = req[p].code /\ Row(code[c])
    BY <1>0, <1>1, <1>3 DEF HeldCodes, Typed, CodeRefs
  <2>2. CASE ReapCommit
    <3>1. c \notin reap.codes
      <4>1. code[c].expires + CodeGrace >= reap.at
        BY <1>3, <2>1, <2>2 DEF HeldRowsInTime, ReapCommit
      <4>2. code[c].expires \in Nat /\ CodeGrace \in Nat /\ reap.at \in Nat
        BY ConstantsAssumption DEF IInv, Typed, TypeOK, CodeRow
      <4> QED BY <4>1, <4>2 DEF Pass, PassCodes
    <3>2. code'[c].st = code[c].st BY <1>0, <2>2, <3>1, Reaps
    <3> QED BY <1>1, <2>1, <3>2 DEF Row
  <2>3. CASE ~ReapCommit
    <3>1. code'[c].st = code[c].st BY <1>0, <2>1, <2>3 DEF RowsKept, CodeKept, Row
    <3> QED BY <1>1, <2>1, <3>1 DEF Row
  <2> QED BY <2>2, <2>3
<1> QED BY <1>1, <1>2, <1>3

LEMMA CodeEvidenceNext ==
    ASSUME IInv, CodeEvidence, HeldCodes, Pass, [Next]_vars PROVE CodeEvidence'
<1>0. Typed /\ RowsKept BY RowsStep DEF IInv
<1> SUFFICES ASSUME NEW c \in Codes, code'[c].consumed
             PROVE  /\ code'[c].grant \in Grants /\ grant'[code'[c].grant].st # "none"
                    /\ grant'[code'[c].grant].from = c
                    /\ code'[c].st = "gone" => ~Row(grant'[code'[c].grant])
  BY DEF CodeEvidence
<1>1. CASE code[c].consumed
  <2>1. CodeKept(c) /\ code[c].st # "none"
    BY <1>0, <1>1 DEF RowsKept, IInv, Families, GrantOrigin
  <2>2. PICK g \in Grants : /\ g = code[c].grant /\ g = code'[c].grant /\ grant[g].st # "none"
                            /\ grant[g].from = c /\ (code[c].st = "gone" => ~Row(grant[g]))
    BY <1>1, <2>1 DEF CodeEvidence, CodeKept
  <2>3. grant'[g].st # "none" /\ grant'[g].from = c /\ (~Row(grant[g]) => ~Row(grant'[g]))
    BY <1>0, <2>2 DEF RowsKept, GrantKept, Row
  <2>4. ASSUME code'[c].st = "gone", Row(grant'[g]) PROVE FALSE
    <3>1. code[c].st # "gone" /\ Row(grant[g]) BY <2>2, <2>3, <2>4
    <3>2. ReapCommit BY <2>1, <2>4, <3>1 DEF CodeKept
    <3>3. c \in reap.codes BY <1>0, <2>4, <3>1, <3>2, Reaps
    <3>4. g \in reap.grants
      BY <1>1, <2>2, <3>1, <3>2, <3>3 DEF ReapCommit, Pass, PassGrants
    <3>5. grant'[g].st = "gone" BY <1>0, <3>2, <3>4, Reaps
    <3> QED BY <2>4, <3>5 DEF Row
  <2> QED BY <2>2, <2>3, <2>4
<1>2. CASE ~code[c].consumed
  <2>1. PICK p \in Requests : CodeCommit(p) /\ req[p].code = c BY <1>2, SpentCodes
  <2>2. PICK g \in Grants : /\ grant'[g] = NewGrant(req[p]) /\ code'[c].grant = g
                            /\ code'[c].st = code[c].st
    BY <1>0, <2>1, Redeems
  <2>3. Row(code[c]) BY <2>1 DEF HeldCodes, CodeCommit, Redeeming
  <2>4. NewGrant(req[p]).st = "row" /\ NewGrant(req[p]).from = req[p].code BY DEF NewGrant
  <2> QED BY <2>1, <2>2, <2>3, <2>4 DEF Row
<1> QED BY <1>1, <1>2

LEMMA EndingsInit == Init => Endings
<1> SUFFICES ASSUME Init PROVE Endings OBVIOUS
<1>1. Requested
  BY BlankRequest DEF Init, Requested, Kind, Spent, ReuseAnswered, PresentedUsed, ReplayAnswered, RefreshPlaces, CodePlaces
<1>2. TokenEvidence /\ CodeEvidence /\ HeldCodes
  BY DEF Init, TokenEvidence, CodeEvidence, HeldCodes, NoToken, NoCode, Redeeming
<1>3. Pass BY DEF Init, Pass, PassIdle, PassTokens, PassCodes, PassGrants, NoReap
<1> QED BY <1>1, <1>2, <1>3 DEF Endings

LEMMA EndingsNext == IInv /\ Endings /\ HeldRowsInTime /\ [Next]_vars => Endings'
<1> SUFFICES ASSUME IInv, Endings, HeldRowsInTime, [Next]_vars PROVE Endings' OBVIOUS
<1>1. Requested' BY RequestedNext DEF Endings
<1>2. TokenEvidence' BY TokenEvidenceNext DEF Endings
<1>3. CodeEvidence' /\ HeldCodes' BY CodeEvidenceNext, HeldCodesNext DEF Endings
<1>4. Pass'
  <2>1. CASE ReapBegin \/ ReapStep \/ ReapFail BY <2>1, PassJudges DEF Endings
  <2>2. CASE ~(ReapBegin \/ ReapStep \/ ReapFail)
    BY <2>2, PassUnmoved, PassKept DEF Endings, ReapStep
  <2> QED BY <2>1, <2>2
<1> QED BY <1>1, <1>2, <1>3, <1>4 DEF Endings

\* While no row a request holds lapses under a retention pass, what the pass has
\* judged and what a request found spent stay as they were.
THEOREM EndingsInvariant == Spec /\ []HeldRowsInTime => []Endings
BY EndingsInit, EndingsNext, FamilyInvariant, PTL DEF Spec

\* A refresh token presented again after it was used leaves its family deleted
\* or revoked, whichever statements the requests and the pass interleave.
THEOREM ReuseEndsFamilyInTime == Spec /\ []HeldRowsInTime => []ReuseEndsFamily
<1>1. Endings => ReuseEndsFamily
  BY DEF Endings, Requested, ReuseAnswered, ReuseEndsFamily, Over
<1> QED BY <1>1, EndingsInvariant, PTL

\* So does a code presented again after it was redeemed.
THEOREM ReplayEndsGrantInTime == Spec /\ []HeldRowsInTime => []ReplayEndsGrant
<1>1. ASSUME IInv, Endings PROVE ReplayEndsGrant
  <2> SUFFICES ASSUME NEW p \in Requests, pc[p] = "done", req[p].code # None, req[p].spent,
                      req[p].outcome # "error", NEW g \in Grants, Row(grant[g]), grant[g].from = req[p].code
               PROVE  Revoked(g)
    BY DEF ReplayEndsGrant
  <2>1. req[p].code \in Codes /\ code[req[p].code].consumed /\ Over(code[req[p].code].grant)
    BY <1>1 DEF Endings, Requested, ReplayAnswered
  <2>2. code[req[p].code].grant = g
    BY <1>1, <2>1 DEF Endings, CodeEvidence, IInv, Families, OneGrantPerCode, Row
  <2> QED BY <2>1, <2>2 DEF Over
<1> QED BY <1>1, EndingsInvariant, FamilyInvariant, PTL

\* No refresh token's row leaves before its family's: a replay is told from an
\* unknown token as long as there is a family to end.
THEOREM EvidenceLeavesWithFamilyInTime == Spec /\ []HeldRowsInTime => EvidenceLeavesWithFamily
<1>1. ASSUME IInv, TokenEvidence', [Next]_vars
      PROVE  \A t \in Tokens : Row(token[t]) /\ ~Row(token'[t]) => ~Row(grant'[token[t].grant])
  <2>1. RowsKept BY <1>1, RowsStep
  <2> QED BY <1>1, <2>1 DEF RowsKept, TokenKept, TokenEvidence, Row
<1>2. Endings => TokenEvidence BY DEF Endings
<1> QED BY <1>1, <1>2, EndingsInvariant, FamilyInvariant, PTL DEF Spec, EvidenceLeavesWithFamily

\* The retention pass deletes no refresh token a client could still use.
THEOREM ReapSparesUsableInTime == Spec /\ []HeldRowsInTime => ReapSparesUsable
<1>1. ASSUME IInv, Endings, [Next]_vars
      PROVE  \A t \in Tokens : Row(token[t]) /\ ~Row(token'[t]) => token[t].used \/ token[t].expires <= now
  <2>0. Typed /\ RowsKept BY <1>1, RowsStep DEF IInv
  <2> SUFFICES ASSUME NEW t \in Tokens, Row(token[t]), ~Row(token'[t]), ~token[t].used
               PROVE  token[t].expires <= now
    OBVIOUS
  <2>1. ReapCommit BY <2>0 DEF RowsKept, TokenKept, Row
  <2>2. t \in reap.tokens \union Cascaded BY <2>0, <2>1, Reaps DEF Row
  <2>3. Dead(token[t].grant)
    BY <1>1, <2>2 DEF Endings, Pass, PassTokens, PassGrants, Cascaded
  <2>4. ~(token[t].expires > reap.at) BY <2>3 DEF Dead, GrantPastRetention
  <2>5. reap.at <= now /\ reap.at \in Nat /\ now \in Nat /\ token[t].expires \in Nat
    BY <1>1 DEF Endings, Pass, PassIdle, IInv, Typed, TypeOK, TokenRow
  <2> QED BY <2>4, <2>5
<1> QED BY <1>1, EndingsInvariant, FamilyInvariant, PTL DEF Spec, ReapSparesUsable

-----------------------------------------------------------------------------
(* A family and its session *)

LEMMA SessionRefsNext == IInv /\ SessionRefs /\ [Next]_vars => SessionRefs'
<1> SUFFICES ASSUME IInv, SessionRefs, [Next]_vars PROVE SessionRefs' OBVIOUS
<1>0. /\ Typed /\ RowsKept /\ now \in Nat /\ now' \in Nat /\ now <= now' /\ CodeTtl \in Nat
      /\ reap.codes \subseteq Codes
  BY RowsStep, PassUnmoved, ConstantsAssumption DEF IInv, Typed, TypeOK
<1>1. \A c \in reap'.codes : code'[c].st # "none"
  <2>1. \A c \in reap.codes : code'[c].st # "none"
    BY <1>0 DEF SessionRefs, RowsKept, CodeKept
  <2>2. CASE UNCHANGED reap BY <2>1, <2>2
  <2>3. CASE ReapBegin \/ ReapFail \/ ReapCommit
    <3>1. reap' \in {[NoReap EXCEPT !.at = now, !.stage = "tokens", !.passes = reap.passes + 1],
                     [NoReap EXCEPT !.passes = reap.passes]}
      BY <2>3 DEF ReapBegin, ReapFail, ReapCommit
    <3>2. reap'.codes = {} BY <3>1 DEF NoReap
    <3> QED BY <3>2
  <2>4. CASE ReapCodes
    <3>1. reap \in [at : Nat, tokens : SUBSET Tokens, codes : SUBSET Codes, grants : SUBSET Grants,
                    sessions : SUBSET Sessions, stage : ReapStages, passes : Nat]
      BY DEF IInv, Typed, TypeOK
    <3>2. \A c \in reap'.codes : c \in Codes /\ Row(code[c]) BY <2>4, <3>1 DEF ReapCodes
    <3> QED BY <1>0, <3>2 DEF RowsKept, CodeKept, Row
  <2>5. CASE ReapTokens \/ ReapTokensLock \/ ReapCodesLock \/ ReapGrants \/ ReapSessions \/ ReapSessionsLock
    <3>1. reap \in [at : Nat, tokens : SUBSET Tokens, codes : SUBSET Codes, grants : SUBSET Grants,
                    sessions : SUBSET Sessions, stage : ReapStages, passes : Nat]
      BY DEF IInv, Typed, TypeOK
    <3>2. reap'.codes = reap.codes
      BY <2>5, <3>1 DEF ReapTokens, ReapTokensLock, ReapCodesLock, ReapGrants, ReapSessions, ReapSessionsLock
    <3> QED BY <2>1, <3>2
  <2> QED BY <2>2, <2>3, <2>4, <2>5, PassUnmoved DEF ReapStep
<1>2. ASSUME NEW s \in Sessions, session[s].st # "none"
      PROVE  /\ session'[s].st # "none" /\ session[s].expires \in Nat /\ session'[s].expires \in Nat
             /\ session'[s].expires = session[s].expires \/ session'[s].expires = now
  <2>1. session'[s].st # "none" /\ (session'[s].expires = session[s].expires \/ session'[s].expires = now)
    BY <1>0, <1>2 DEF RowsKept, SessionKept
  <2>2. session[s].expires \in Nat BY DEF IInv, Typed, TypeOK, SessionRow
  <2> QED BY <1>0, <2>1, <2>2
<1>3. ASSUME NEW c \in Codes, code'[c].st # "none"
      PROVE  /\ code'[c].session \in Sessions /\ session'[code'[c].session].st # "none"
             /\ code'[c].expires <= now' + CodeTtl
             /\ code'[c].expires <= session'[code'[c].session].expires + CodeTtl
  <2>1. CASE code[c].st # "none"
    <3>1. CodeKept(c) BY <1>0, <2>1 DEF RowsKept
    <3>2. PICK s \in Sessions :
            /\ s = code[c].session /\ s = code'[c].session /\ code'[c].expires = code[c].expires
            /\ session[s].st # "none" /\ code[c].expires <= now + CodeTtl
            /\ code[c].expires <= session[s].expires + CodeTtl
      BY <2>1, <3>1 DEF SessionRefs, CodeKept
    <3>3. code[c].expires \in Nat BY DEF IInv, Typed, TypeOK, CodeRow
    <3>4. /\ code[c].expires <= now' + CodeTtl /\ session'[s].st # "none"
          /\ code[c].expires <= session'[s].expires + CodeTtl
      BY <1>0, <1>2, <3>2, <3>3
    <3> QED BY <3>2, <3>4
  <2>2. CASE code[c].st = "none"
    <3>1. c \notin reap.codes BY <2>2 DEF SessionRefs
    <3>2. PICK client \in Clients, s \in Sessions, kind \in CodeKinds :
            IssueAuthorizationCode(c, client, s, kind)
      BY <1>3, <2>2, <3>1, NewCodes
    <3>3. /\ code'[c] = NewCode(client, s, kind, now) /\ SessionLive(s, now) /\ UNCHANGED <<now, session>>
      BY <3>2 DEF IssueAuthorizationCode, IInv, Typed, TypeOK
    <3>4. code'[c].session = s /\ code'[c].expires = now + CodeTtl BY <3>3 DEF NewCode
    <3>5. session[s].st # "none" /\ now < session[s].expires BY <3>3 DEF SessionLive, Row
    <3>6. session[s].expires \in Nat BY DEF IInv, Typed, TypeOK, SessionRow
    <3> QED BY <1>0, <3>3, <3>4, <3>5, <3>6
  <2> QED BY <2>1, <2>2
<1>4. ASSUME NEW g \in Grants, grant'[g].st # "none", grant'[g].session # None
      PROVE  grant'[g].session \in Sessions /\ session'[grant'[g].session].st # "none"
  <2>1. CASE grant[g].st # "none"
    <3>1. grant'[g].session \in {grant[g].session, None}
      BY <1>0, <2>1, Reaps DEF RowsKept, GrantKept
    <3> QED BY <1>2, <1>4, <2>1, <3>1 DEF SessionRefs
  <2>2. CASE grant[g].st = "none"
    <3>1. PICK p \in Requests : CodeCommit(p) /\ grant'[g] = NewGrant(req[p]) BY <1>4, <2>2, NewGrants
    <3>2. pc[p] \in Redeeming /\ pc[p] \in CodePlaces BY <3>1 DEF CodeCommit, Redeeming, CodePlaces
    <3>3. req[p].code \in Codes /\ code[req[p].code].st # "none"
      BY <3>2 DEF IInv, Typed, CodeRefs, Families, CodeHeld
    <3>4. grant'[g].session = GrantSession(req[p].code) BY <3>1 DEF NewGrant
    <3>5. grant'[g].session = code[req[p].code].session BY <1>4, <3>4 DEF GrantSession
    <3> QED BY <1>2, <3>3, <3>5 DEF SessionRefs
  <2> QED BY <2>1, <2>2
<1> QED BY <1>1, <1>3, <1>4 DEF SessionRefs

LEMMA SessionRefsAlways == Spec => []SessionRefs
<1>1. Init => SessionRefs BY DEF Init, SessionRefs, NoReap, NoCode, NoGrant
<1> QED BY <1>1, SessionRefsNext, FamilyInvariant, PTL DEF Spec

-----------------------------------------------------------------------------
(* Requests and the clock *)

LEMMA KindsAlways == Spec => []Kinds
<1>1. ASSUME Init PROVE Kinds
  <2>1. \A p \in Requests : pc[p] = "idle" /\ req[p].outcome = "none" BY <1>1, BlankRequest DEF Init
  <2> QED BY <2>1 DEF Kinds, Kind, RefreshPlaces, CodePlaces
<1>2. IInv /\ Kinds /\ [Next]_vars => Kinds'
  <2> SUFFICES ASSUME IInv, Kinds, [Next]_vars, NEW p \in Requests PROVE Kind(p)' BY DEF Kinds
  <2>0. Typed /\ Kind(p) /\ pc'[p] \in Places
    BY IInvNext DEF IInv, Typed, TypeOK, Kinds
  <2>1. CASE pc'[p] = "done" BY <2>1 DEF Kind, RefreshPlaces, CodePlaces
  <2>2. CASE pc'[p] = "idle"
    <3>1. pc[p] = "idle" => req'[p] = req[p]
      <4>1. \A client \in Clients, t \in Tokens, scope \in AskedScopes, resource \in AskedResources :
              ~PresentRefreshToken(p, client, t, scope, resource)
        <5>1. ASSUME NEW client \in Clients, NEW t \in Tokens, NEW scope \in AskedScopes,
                     NEW resource \in AskedResources, PresentRefreshToken(p, client, t, scope, resource)
              PROVE  FALSE
          BY <2>0, <2>2, <5>1, Presenting
        <5> QED BY <5>1
      <4>2. \A client \in Clients, c \in Codes, proof \in BOOLEAN, resource \in AskedResources :
              ~PresentCode(p, client, c, proof, resource)
        BY <2>0, <2>2, PresentingCode
      <4> QED BY <4>1, <4>2, Starting
    <3>2. req'[p].outcome = "none" BY <2>0, <2>2, <3>1, Idling, BlankRequest DEF Kind
    <3> QED BY <2>2, <3>2 DEF Kind, RefreshPlaces, CodePlaces
  <2>3. CASE pc[p] # "idle" /\ pc'[p] \in RefreshPlaces
    <3>1. /\ pc[p] \in RefreshPlaces /\ req'[p].code = req[p].code /\ req'[p].outcome = req[p].outcome
      BY <2>3, RefreshMoves
    <3> QED BY <2>0, <2>3, <3>1 DEF Kind, RefreshPlaces, CodePlaces
  <2>4. CASE pc[p] # "idle" /\ pc'[p] \in CodePlaces
    <3>1. /\ pc[p] \in CodePlaces /\ req'[p].token = req[p].token /\ req'[p].outcome = req[p].outcome
      BY <2>4, CodeMoves
    <3> QED BY <2>0, <2>4, <3>1 DEF Kind, RefreshPlaces, CodePlaces
  <2>5. CASE pc[p] = "idle" /\ pc'[p] # "idle" /\ pc'[p] # "done"
    <3>1. ASSUME NEW client \in Clients, NEW t \in Tokens, NEW scope \in AskedScopes,
                 NEW resource \in AskedResources, PresentRefreshToken(p, client, t, scope, resource)
          PROVE  Kind(p)'
      <4>1. pc'[p] = "begin" /\ req'[p].code = None /\ req'[p].outcome = "none"
        BY <2>0, <2>5, <3>1, Presenting
      <4> QED BY <4>1 DEF Kind, CodePlaces
    <3>2. ASSUME NEW client \in Clients, NEW c \in Codes, NEW proof \in BOOLEAN,
                 NEW resource \in AskedResources, PresentCode(p, client, c, proof, resource)
          PROVE  Kind(p)'
      <4>1. pc'[p] = "codeConsume" /\ req'[p].token = None /\ req'[p].outcome = "none"
        BY <2>0, <3>2, PresentingCode
      <4> QED BY <4>1 DEF Kind, RefreshPlaces
    <3> QED BY <2>5, <3>1, <3>2, Starting
  <2>6. pc'[p] \in {"idle", "done"} \union RefreshPlaces \union CodePlaces
    BY <2>0 DEF Places, RefreshPlaces, CodePlaces
  <2> QED BY <2>1, <2>2, <2>3, <2>4, <2>5, <2>6
<1> QED BY <1>1, <1>2, FamilyInvariant, PTL DEF Spec

LEMMA PromptNext ==
    ASSUME IInv, Promptness, [Next]_vars, NEW p \in Requests PROVE Prompt(p)'
<1>0. /\ Typed /\ RowsKept /\ Prompt(p) /\ now \in Nat /\ MaxRequestTicks \in Nat
      /\ req[p].now \in Nat /\ req[p].at \in Nat
  BY RowsStep, ConstantsAssumption DEF IInv, Typed, TypeOK, Request, Promptness
<1>1. CASE pc'[p] \notin RefreshPlaces \union CodePlaces
  BY <1>1 DEF Prompt, RefreshPlaces, CodePlaces, Rotating, Redeeming
<1>2. CASE pc[p] = "idle" /\ pc'[p] # "idle"
  <2>1. ASSUME NEW client \in Clients, NEW t \in Tokens, NEW scope \in AskedScopes,
               NEW resource \in AskedResources, PresentRefreshToken(p, client, t, scope, resource)
        PROVE  Prompt(p)'
    <3>1. pc'[p] = "done" \/ (pc'[p] = "begin" /\ req'[p].now = now /\ UNCHANGED now)
      BY <1>0, <2>1, Presenting DEF envVars
    <3>2. CASE pc'[p] = "begin"
      <4>1. now <= now + MaxRequestTicks BY <1>0
      <4> QED BY <1>0, <3>1, <3>2, <4>1 DEF Prompt, CodePlaces, Rotating, Redeeming
    <3> QED BY <1>1, <3>1, <3>2 DEF RefreshPlaces, CodePlaces
  <2>2. ASSUME NEW client \in Clients, NEW c \in Codes, NEW proof \in BOOLEAN,
               NEW resource \in AskedResources, PresentCode(p, client, c, proof, resource)
        PROVE  Prompt(p)'
    <3>1. pc'[p] = "codeConsume" /\ req'[p].now = now /\ req'[p].at = now /\ UNCHANGED now
      BY <1>0, <2>2, PresentingCode DEF envVars
    <3>2. now <= now + MaxRequestTicks /\ now <= now + 0 BY <1>0
    <3> QED BY <1>0, <3>1, <3>2 DEF Prompt, RefreshPlaces, Rotating, Redeeming
  <2> QED BY <1>2, <2>1, <2>2, Starting
<1>3. ASSUME pc[p] \in RefreshPlaces \union CodePlaces
      PROVE  /\ req[p].now <= now' /\ now' <= req[p].now + MaxRequestTicks
             /\ now' \in Nat
  <2>1. req[p].now <= now /\ now <= req[p].now + MaxRequestTicks BY <1>0, <1>3 DEF Prompt
  <2>2. CASE now' # now
    <3>1. now' = now + 1 /\ now < req[p].now + MaxRequestTicks
      BY <1>3, <2>2, Clock DEF RefreshPlaces, CodePlaces
    <3> QED BY <1>0, <2>1, <3>1
  <2> QED BY <1>0, <2>1, <2>2
<1>4. CASE pc[p] # "idle" /\ pc'[p] \in RefreshPlaces
  <2>1. /\ pc[p] \in RefreshPlaces /\ req'[p].now = req[p].now /\ req'[p].token = req[p].token
        /\ pc'[p] # "begin" =>
             \/ pc[p] # "begin" /\ req'[p].at = req[p].at
             \/ pc'[p] = "consume" /\ UNCHANGED now /\ req'[p].at = now
        /\ pc'[p] \in Rotating =>
             pc[p] \in Rotating \/ (UNCHANGED token /\ Consumable(req[p].token, req[p].at))
    BY <1>4, RefreshMoves
  <2>2. req'[p].now <= now' /\ now' <= req'[p].now + MaxRequestTicks BY <1>3, <2>1
  <2>3. pc'[p] # "begin" => req'[p].now <= req'[p].at BY <1>0, <1>3, <2>1 DEF Prompt
  <2>4. pc'[p] \in Rotating => token'[req'[p].token].expires > req'[p].at
    <3> SUFFICES ASSUME pc'[p] \in Rotating PROVE token'[req'[p].token].expires > req'[p].at OBVIOUS
    <3>1. req'[p].at = req[p].at BY <2>1 DEF Rotating
    <3>2. token[req[p].token].expires > req[p].at BY <1>0, <2>1 DEF Prompt, Consumable
    <3>3. token'[req[p].token].expires = token[req[p].token].expires
      BY <1>0, <2>1 DEF RowsKept, TokenKept, IInv, Typed, RefreshRefs
    <3> QED BY <2>1, <3>1, <3>2, <3>3
  <2>5. pc'[p] \notin CodePlaces /\ pc'[p] \notin Redeeming
    BY <1>4 DEF RefreshPlaces, CodePlaces, Redeeming
  <2> QED BY <1>4, <2>2, <2>3, <2>4, <2>5 DEF Prompt
<1>5. CASE pc[p] # "idle" /\ pc'[p] \in CodePlaces
  <2> DEFINE Deciding == {"codeInsert", "codeCommit"}
  <2>1. /\ pc[p] \in CodePlaces /\ req'[p].code = req[p].code /\ req'[p].at = req[p].at
        /\ \/ req'[p].now = req[p].now /\ (pc'[p] \in Deciding <=> pc[p] \in Deciding)
           \/ /\ pc[p] = "codeDecide" /\ pc'[p] = "codeInsert" /\ UNCHANGED now /\ req'[p].now = now
    BY <1>5, CodeMoves
  <2>2. req'[p].now <= now' /\ now' <= req'[p].now + MaxRequestTicks
    BY <1>0, <1>3, <2>1
  <2>3. req'[p].now <= req'[p].at + (IF pc'[p] \in Deciding THEN MaxRequestTicks ELSE 0)
    <3>1. req[p].now <= req[p].at + (IF pc[p] \in Deciding THEN MaxRequestTicks ELSE 0)
      BY <1>0, <2>1 DEF Prompt
    <3>2. CASE req'[p].now = req[p].now /\ (pc'[p] \in Deciding <=> pc[p] \in Deciding)
      BY <2>1, <3>1, <3>2
    <3>3. CASE pc[p] = "codeDecide" /\ pc'[p] = "codeInsert" /\ UNCHANGED now /\ req'[p].now = now
      <4>1. req[p].now <= req[p].at BY <1>0, <3>1, <3>3
      <4>2. now <= req[p].now + MaxRequestTicks BY <1>3, <2>1, <3>3
      <4> QED BY <1>0, <2>1, <3>3, <4>1, <4>2
    <3> QED BY <2>1, <3>2, <3>3
  <2>4. pc'[p] \in Redeeming => code'[req'[p].code].expires > req'[p].at
    <3> SUFFICES ASSUME pc'[p] \in Redeeming PROVE code'[req'[p].code].expires > req'[p].at OBVIOUS
    <3>1. CASE pc[p] \in Redeeming
      <4>1. code'[req[p].code].expires = code[req[p].code].expires
        BY <1>0, <2>1, <3>1 DEF RowsKept, CodeKept, IInv, Families, CodeHeld, Typed, CodeRefs
      <4> QED BY <1>0, <2>1, <3>1, <4>1 DEF Prompt
    <3>2. CASE pc[p] \notin Redeeming
      <4>1. UNCHANGED code /\ Redeemable(req[p].code, req[p].at) BY <3>2, ComesToHold
      <4> QED BY <2>1, <4>1 DEF Redeemable
    <3> QED BY <3>1, <3>2
  <2>5. pc'[p] \notin RefreshPlaces /\ pc'[p] \notin Rotating
    BY <1>5 DEF RefreshPlaces, CodePlaces, Rotating
  <2> QED BY <1>5, <2>2, <2>3, <2>4, <2>5 DEF Prompt
<1> QED BY <1>1, <1>2, <1>4, <1>5 DEF RefreshPlaces, CodePlaces

\* Who holds what, and since when: no request outlives its bound.
LEMMA PromptnessAlways == Spec => []Promptness
<1>1. ASSUME Init PROVE Promptness
  <2>1. \A p \in Requests : pc[p] = "idle" BY <1>1 DEF Init
  <2>2. reap.at <= now /\ reap.stage = "off" BY <1>1 DEF Init, NoReap
  <2> QED BY <2>1, <2>2 DEF Promptness, Prompt, RefreshPlaces, CodePlaces, Rotating, Redeeming
<1>2. IInv /\ Promptness /\ [Next]_vars => Promptness'
  <2> SUFFICES ASSUME IInv, Promptness, [Next]_vars PROVE Promptness' OBVIOUS
  <2>0. /\ now \in Nat /\ now' \in Nat /\ now <= now' /\ reap.at <= now
        /\ reap \in [at : Nat, tokens : SUBSET Tokens, codes : SUBSET Codes, grants : SUBSET Grants,
                     sessions : SUBSET Sessions, stage : ReapStages, passes : Nat]
    BY PassUnmoved DEF IInv, Typed, TypeOK, Promptness
  <2>1. \A p \in Requests : Prompt(p)' BY PromptNext
  <2>2. reap'.at <= now' /\ (MaxReaps = 0 => reap'.stage = "off")
    <3>1. CASE UNCHANGED reap BY <2>0, <3>1 DEF Promptness
    <3>2. CASE ReapBegin
      <4>1. reap' = [NoReap EXCEPT !.at = now, !.stage = "tokens", !.passes = reap.passes + 1]
            /\ reap.passes < MaxReaps
        BY <3>2 DEF ReapBegin
      <4>2. reap'.at = now BY <4>1 DEF NoReap
      <4>3. MaxReaps # 0 BY <2>0, <4>1
      <4> QED BY <2>0, <4>2, <4>3
    <3>3. CASE ReapFail \/ ReapCommit
      <4>1. reap' = [NoReap EXCEPT !.passes = reap.passes] BY <3>3 DEF ReapFail, ReapCommit
      <4>2. reap'.at = 0 /\ reap'.stage = "off" BY <4>1 DEF NoReap
      <4> QED BY <2>0, <4>2
    <3>4. CASE ReapStep /\ ~ReapCommit
      <4>1. reap'.at = reap.at /\ reap.stage # "off"
        BY <2>0, <3>4 DEF ReapStep, ReapTokens, ReapTokensLock, ReapCodes, ReapCodesLock, ReapGrants,
           ReapSessions, ReapSessionsLock
      <4> QED BY <2>0, <4>1 DEF Promptness
    <3> QED BY <3>1, <3>2, <3>3, <3>4, PassUnmoved
  <2> QED BY <2>1, <2>2 DEF Promptness
<1> QED BY <1>1, <1>2, FamilyInvariant, PTL DEF Spec

-----------------------------------------------------------------------------
(* Sessions and their families *)

\* The pass deletes no session a grant names, but for the grants it deletes too.
LEMMA PassSessionsNext ==
    ASSUME IInv, reap.at <= now, PassSessions, HeldSessionsInTime, [Next]_vars PROVE PassSessions'
<1>0. /\ Typed /\ RowsKept /\ now \in Nat /\ reap.at <= now /\ SessionGrace \in Nat
      /\ reap \in [at : Nat, tokens : SUBSET Tokens, codes : SUBSET Codes, grants : SUBSET Grants,
                   sessions : SUBSET Sessions, stage : ReapStages, passes : Nat]
  BY RowsStep, ConstantsAssumption DEF IInv, Typed, TypeOK
<1>1. CASE ReapBegin \/ ReapFail \/ ReapCommit
  <2>1. reap' \in {[NoReap EXCEPT !.at = now, !.stage = "tokens", !.passes = reap.passes + 1],
                   [NoReap EXCEPT !.passes = reap.passes]}
    BY <1>1 DEF ReapBegin, ReapFail, ReapCommit
  <2>2. reap'.sessions = {} BY <2>1 DEF NoReap
  <2> QED BY <2>2 DEF PassSessions
<1>2. CASE ReapTokens \/ ReapTokensLock \/ ReapCodes \/ ReapCodesLock \/ ReapGrants
  <2>1. reap.stage \notin {"sessionsLock", "commit"} /\ reap'.sessions = reap.sessions
    BY <1>0, <1>2 DEF ReapTokens, ReapTokensLock, ReapCodes, ReapCodesLock, ReapGrants
  <2>2. reap'.sessions = {} BY <2>1 DEF PassSessions
  <2> QED BY <2>2 DEF PassSessions
<1>3. CASE ReapSessions
  <2>1. /\ reap'.stage = "sessionsLock" /\ reap'.at = reap.at /\ reap'.grants = reap.grants
        /\ UNCHANGED dbVars
        /\ reap'.sessions = {s \in Sessions :
              /\ Row(session[s]) /\ session[s].expires + SessionGrace < reap.at
              /\ \A g \in Grants \ reap.grants : ~(Row(grant[g]) /\ grant[g].session = s)}
    BY <1>0, <1>3 DEF ReapSessions
  <2> QED BY <2>1 DEF PassSessions, dbVars, Row
<1>4. CASE ReapSessionsLock
  <2>1. /\ reap'.stage = "commit" /\ reap'.at = reap.at /\ reap'.grants = reap.grants
        /\ reap'.sessions = reap.sessions /\ UNCHANGED dbVars
    BY <1>0, <1>4 DEF ReapSessionsLock
  <2> QED BY <2>1 DEF PassSessions, dbVars, Row
<1>5. CASE UNCHANGED reap /\ ~ReapCommit
  <2> SUFFICES ASSUME NEW s \in reap.sessions
               PROVE  /\ Row(session'[s]) /\ session'[s].expires + SessionGrace < reap.at
                      /\ \A g \in Grants \ reap.grants : ~(Row(grant'[g]) /\ grant'[g].session = s)
    BY <1>5 DEF PassSessions
  <2>1. /\ s \in Sessions /\ Row(session[s]) /\ session[s].expires + SessionGrace < reap.at
        /\ \A g \in Grants \ reap.grants : ~(Row(grant[g]) /\ grant[g].session = s)
        /\ session[s].expires \in Nat /\ reap.stage # "off" /\ s # None
    BY <1>0, ConstantsAssumption DEF PassSessions, IInv, Typed, TypeOK, SessionRow
  <2>2. SessionKept(s) BY <1>0, <2>1 DEF RowsKept, Row
  <2>3. Row(session'[s]) /\ session'[s].expires = session[s].expires
    BY <1>0, <1>5, <2>1, <2>2 DEF SessionKept, Row
  <2>4. ASSUME NEW g \in Grants \ reap.grants, Row(grant'[g]), grant'[g].session = s PROVE FALSE
    <3>1. CASE grant[g].st # "none"
      <4>1. Row(grant[g]) /\ grant[g].session = s
        BY <1>0, <1>5, <2>4, <3>1 DEF RowsKept, GrantKept, Row
      <4> QED BY <2>1, <4>1
    <3>2. CASE grant[g].st = "none"
      <4>1. PICK p \in Requests : CodeCommit(p) /\ grant'[g] = NewGrant(req[p])
        BY <2>4, <3>2, NewGrants DEF Row
      <4>2. pc[p] \in Redeeming BY <4>1 DEF CodeCommit, Redeeming
      <4>3. GrantSession(req[p].code) = s BY <2>4, <4>1 DEF NewGrant
      <4>4. code[req[p].code].session = s BY <2>1, <4>3 DEF GrantSession
      <4>5. session[s].expires + SessionGrace >= reap.at
        BY <2>1, <4>2, <4>4 DEF HeldSessionsInTime
      <4> QED BY <1>0, <2>1, <4>5
    <3> QED BY <3>1, <3>2
  <2> QED BY <2>1, <2>3, <2>4
<1> QED BY <1>1, <1>2, <1>3, <1>4, <1>5, PassUnmoved DEF ReapStep

\* So a grant that stays keeps its session.
LEMMA BindingStep ==
    ASSUME IInv, PassSessions, [Next]_vars, NEW g \in Grants, Row(grant[g]), Row(grant'[g])
    PROVE  grant'[g].session = grant[g].session
<1>0. Typed /\ RowsKept BY RowsStep DEF IInv
<1>1. CASE ReapCommit
  <2>1. g \notin reap.grants BY <1>0, <1>1, Reaps DEF Row
  <2>2. grant[g].session \notin reap.sessions BY <2>1 DEF PassSessions
  <2>3. grant'[g] = grant[g] BY <1>0, <1>1, <2>1, <2>2, Reaps
  <2> QED BY <2>3
<1>2. CASE ~ReapCommit BY <1>0, <1>2 DEF RowsKept, GrantKept, Row
<1> QED BY <1>1, <1>2

\* A session that is over stays over, and so does a family.
LEMMA SessionOverStays ==
    ASSUME IInv, RowsKept, NEW s \in Sessions, session[s].st # "none", NEW t \in Nat, SessionOver(s, t)
    PROVE  SessionOver(s, t)' /\ session'[s].st # "none"
<1>1. SessionKept(s) BY DEF RowsKept
<1>2. session[s].expires \in Nat /\ now \in Nat BY DEF IInv, Typed, TypeOK, SessionRow
<1> QED BY <1>1, <1>2 DEF SessionKept, SessionOver, Row

LEMMA EndedStays ==
    ASSUME IInv, SessionRefs, PassSessions, [Next]_vars, NEW g \in Grants, grant[g].st # "none",
           NEW t \in Nat, Ended(g, t)
    PROVE  Ended(g, t)'
<1>0. RowsKept BY RowsStep
<1>1. CASE Over(g) BY <1>0, <1>1, OverStays DEF Over, Ended
<1>2. CASE ~Over(g) /\ Row(grant'[g])
  <2>1. /\ Row(grant[g]) /\ grant[g].session # None
        /\ ~Row(session[grant[g].session]) \/ session[grant[g].session].expires <= t
    BY <1>2 DEF Ended, Over
  <2>2. PICK s \in Sessions : s = grant[g].session /\ session[s].st # "none"
    BY <2>1 DEF SessionRefs
  <2>3. SessionOver(s, t)' BY <1>0, <2>1, <2>2, SessionOverStays DEF SessionOver
  <2>4. grant'[g].session = s BY <1>2, <2>1, <2>2, BindingStep
  <2>5. s # None BY <2>1, <2>2
  <2> QED BY <2>3, <2>4, <2>5 DEF Ended, SessionOver
<1>3. CASE ~Row(grant'[g]) BY <1>3 DEF Ended
<1> QED BY <1>1, <1>2, <1>3

LEMMA EndedReadNext ==
    ASSUME IInv, SessionRefs, Kinds, Bindings, [Next]_vars, NEW p \in Requests
    PROVE  EndedRead(p)'
<1> PICK g : g = req[p].grant OBVIOUS
<1> PICK n : n = req[p].now OBVIOUS
<1>0. Typed /\ RowsKept /\ req[p] \in Request /\ n \in Nat /\ PassSessions /\ EndedRead(p) /\ Kind(p)
  BY RowsStep DEF IInv, Typed, TypeOK, Request, Bindings, Kinds
<1>1. pc[p] \in RefreshPlaces => g \in Grants /\ grant[g].st # "none"
  BY DEF IInv, Typed, RefreshRefs, TokenRefs
<1>2. \A h \in Grants : grant[h].st # "none" /\ Ended(h, n) => Ended(h, n)'
  BY <1>0, EndedStays
<1>3. ASSUME NEW outcome, NEW reason, Answer(p, outcome, reason),
             outcome \in {"issued", "burned"} /\ req[p].token # None => ~req[p].ended
      PROVE  EndedRead(p)'
  <2>1. /\ pc'[p] = "done" /\ req'[p].token = req[p].token /\ req'[p].outcome = outcome
        /\ (req'[p].ended <=> req[p].ended)
    BY <1>0, <1>3, Answering
  <2> QED BY <1>3, <2>1 DEF EndedRead
<1>4. ASSUME pc'[p] \notin {"consume", "readGrant", "readSession", "rotate", "mint", "done"}
      PROVE  EndedRead(p)'
  BY <1>4 DEF EndedRead
<1>5. CASE ~RequestStep(p)
  <2>1. pc'[p] = pc[p] /\ req'[p] = req[p] BY <1>5, OthersStay
  <2>2. pc[p] \in {"consume", "readGrant"} /\ req[p].ended => Ended(g, n)'
    BY <1>0, <1>1, <1>2 DEF EndedRead, RefreshPlaces
  <2>3. pc[p] = "readSession" /\ req[p].ended =>
          SessionOver(req[p].seen.session, n)' /\ session'[req'[p].seen.session].st # "none"
    <3>1. PICK s : s = req[p].seen.session OBVIOUS
    <3>2. pc[p] = "readSession" /\ req[p].ended =>
            s \in Sessions /\ SessionOver(s, n) /\ session[s].st # "none"
      BY <1>0, <3>1 DEF EndedRead, SessionOver
    <3>3. pc[p] = "readSession" /\ req[p].ended => SessionOver(s, n)' /\ session'[s].st # "none"
      BY <1>0, <3>2, SessionOverStays
    <3> QED BY <2>1, <3>1, <3>3
  <2>4. g = req'[p].grant /\ n = req'[p].now BY <2>1
  <2>5. pc'[p] \in {"consume", "readGrant"} /\ req'[p].ended => Ended(req[p].grant, req[p].now)'
    BY <2>1, <2>2, <2>4
  <2>6. pc'[p] = "readSession" /\ req'[p].ended =>
          SessionOver(req[p].seen.session, req[p].now)' /\ session'[req'[p].seen.session].st # "none"
    BY <2>1, <2>3, <2>4
  <2> QED BY <1>0, <2>1, <2>5, <2>6 DEF EndedRead
<1>6. CASE Arrive(p)
  <2>1. ASSUME NEW client \in Clients, NEW t \in Tokens, NEW scope \in AskedScopes,
               NEW resource \in AskedResources, PresentRefreshToken(p, client, t, scope, resource)
        PROVE  EndedRead(p)'
    <3>1. ~req'[p].ended BY <1>0, <2>1, Presenting
    <3>2. pc'[p] = "begin" \/ pc'[p] = "done" BY <1>0, <2>1, Presenting
    <3> QED BY <3>1, <3>2 DEF EndedRead
  <2>2. ASSUME NEW client \in Clients, NEW c \in Codes, NEW proof \in BOOLEAN,
               NEW resource \in AskedResources, PresentCode(p, client, c, proof, resource)
        PROVE  EndedRead(p)'
    <3>1. pc'[p] = "codeConsume" BY <1>0, <2>2, PresentingCode
    <3> QED BY <1>4, <3>1
  <2> QED BY <1>6, <2>1, <2>2 DEF Arrive
<1>7. CASE Fail(p) BY <1>3, <1>7 DEF Fail
<1>8. CASE RotateBegin(p)
  <2>1. /\ pc[p] = "begin" /\ pc'[p] = "consume" /\ UNCHANGED dbVars
        /\ req'[p] = [req[p] EXCEPT !.at = now, !.ended = Ended(g, n)]
    BY <1>0, <1>8, Carrying
  <2>2. req'[p].grant = g /\ req'[p].now = n /\ (req'[p].ended => Ended(g, n))
    BY <1>0, <2>1 DEF Request
  <2>3. Ended(g, n) => Ended(g, n)' BY <1>1, <1>2, <2>1 DEF RefreshPlaces
  <2>4. req'[p].ended => Ended(req[p].grant, req[p].now)'
    BY <2>2, <2>3 DEF Ended
  <2> QED BY <2>1, <2>4 DEF EndedRead
<1>9. CASE RotateConsume(p)
  <2>1. /\ pc[p] = "consume" /\ UNCHANGED dbVars
        /\ Goto(p, "readGrant") \/ Goto(p, "lookup")
    BY <1>9 DEF RotateConsume
  <2>2. req'[p] = req[p] /\ pc'[p] \in {"readGrant", "lookup"} BY <1>0, <2>1, Going
  <2>3. req[p].ended => Ended(g, n)' BY <1>0, <1>1, <1>2, <2>1 DEF EndedRead, RefreshPlaces
  <2>4. req'[p].ended => Ended(req[p].grant, req[p].now)' BY <2>2, <2>3 DEF Ended
  <2> QED BY <2>2, <2>4 DEF EndedRead
<1>10. CASE RotateLookup(p)
  <2>1. Goto(p, "reuse") \/ Answer(p, "unknown", "") BY <1>10 DEF RotateLookup
  <2>2. Goto(p, "reuse") => pc'[p] = "reuse" BY <1>0, Going
  <2> QED BY <1>3, <1>4, <2>1, <2>2
<1>11. CASE RotateReuse(p) BY <1>3, <1>11 DEF RotateReuse
<1>12. CASE RotateReadGrant(p)
  <2>1. CASE Row(grant[g]) /\ ~Revoked(g)
    <3>1. /\ pc[p] = "readGrant" /\ UNCHANGED dbVars
          /\ pc'[p] = IF grant[g].session = None THEN "rotate" ELSE "readSession"
          /\ req'[p] = [req[p] EXCEPT !.seen = grant[g]]
      BY <1>0, <1>12, <2>1, Carrying
    <3>2. req'[p].now = n /\ req'[p].seen = grant[g] /\ (req'[p].ended <=> req[p].ended)
      BY <1>0, <3>1 DEF Request
    <3>3. req[p].ended =>
            /\ grant[g].session # None
            /\ ~Row(session[grant[g].session]) \/ session[grant[g].session].expires <= n
      BY <1>0, <2>1, <3>1 DEF EndedRead, Ended
    <3>4. req[p].ended => grant[g].session \in Sessions /\ session[grant[g].session].st # "none"
      BY <1>1, <3>1, <3>3 DEF SessionRefs, RefreshPlaces
    <3>5. CASE grant[g].session = None
      <4>1. pc'[p] = "rotate" /\ ~req'[p].ended BY <3>1, <3>2, <3>3, <3>5
      <4> QED BY <4>1 DEF EndedRead
    <3>6. CASE grant[g].session # None
      <4>1. pc'[p] = "readSession" BY <3>1, <3>6
      <4>2. req'[p].ended => SessionOver(req[p].seen.session, req[p].now)'
        BY <3>1, <3>2, <3>3, <3>4 DEF SessionOver, dbVars, Row
      <4>3. req'[p].ended => session'[req'[p].seen.session].st # "none"
        BY <3>1, <3>2, <3>4 DEF dbVars
      <4> QED BY <4>1, <4>2, <4>3 DEF EndedRead
    <3> QED BY <3>5, <3>6
  <2>2. CASE ~(Row(grant[g]) /\ ~Revoked(g))
    <3>1. Answer(p, "error", "") \/ Answer(p, "revoked", "") BY <1>12, <2>2 DEF RotateReadGrant, Revoked
    <3> QED BY <1>3, <3>1
  <2> QED BY <2>1, <2>2
<1>13. CASE RotateReadSession(p)
  <2>1. CASE SessionLive(req[p].seen.session, n)
    <3>1. pc[p] = "readSession" /\ Goto(p, "rotate") BY <1>13, <2>1 DEF RotateReadSession
    <3>2. req'[p] = req[p] /\ pc'[p] = "rotate" BY <1>0, <3>1, Going
    <3>3. ASSUME req[p].ended PROVE FALSE
      <4>1. SessionOver(req[p].seen.session, n) BY <1>0, <3>1, <3>3 DEF EndedRead
      <4>2. session[req[p].seen.session].expires \in Nat
        BY <4>1 DEF SessionOver, IInv, Typed, TypeOK, SessionRow
      <4> QED BY <1>0, <2>1, <4>1, <4>2 DEF SessionOver, SessionLive
    <3> QED BY <3>2, <3>3 DEF EndedRead
  <2>2. CASE ~SessionLive(req[p].seen.session, n)
    BY <1>3, <1>13, <2>2 DEF RotateReadSession
  <2> QED BY <2>1, <2>2
<1>14. CASE RotateCommit(p)
  <2>1. pc[p] = "rotate" /\ (Goto(p, "mint") \/ Answer(p, "error", "")) BY <1>14 DEF RotateCommit
  <2>2. ~req[p].ended BY <1>0, <2>1 DEF EndedRead
  <2>3. ASSUME Goto(p, "mint") PROVE EndedRead(p)'
    <3>1. req'[p] = req[p] /\ pc'[p] = "mint" BY <1>0, <2>3, Going
    <3> QED BY <2>2, <3>1 DEF EndedRead
  <2> QED BY <1>3, <2>1, <2>3
<1>15. CASE MintRefreshed(p)
  <2>1. ~req[p].ended BY <1>0, <1>15 DEF MintRefreshed, EndedRead
  <2> QED BY <1>3, <1>15, <2>1 DEF MintRefreshed
<1>16. CASE Finish(p)
  <2>1. pc'[p] = "idle" BY <1>0, <1>16, Carrying
  <2> QED BY <1>4, <2>1
<1>17. CASE CodeConsume(p) \/ CodeLookup(p) \/ CodeReplay(p) \/ CodeDecide(p) \/ CodeInsert(p) \/ CodeCommit(p)
  <2>1. pc[p] \in CodePlaces
    BY <1>17 DEF CodePlaces, CodeConsume, CodeLookup, CodeReplay, CodeDecide, CodeInsert, CodeCommit
  <2>2. req[p].token = None BY <1>0, <2>1 DEF Kind
  <2>3. ASSUME NEW outcome, NEW reason, Answer(p, outcome, reason) PROVE EndedRead(p)'
    BY <1>3, <2>2, <2>3
  <2>4. ASSUME NEW place \in CodePlaces, Goto(p, place) PROVE EndedRead(p)'
    <3>1. pc'[p] = place BY <1>0, <2>4, Going
    <3> QED BY <1>4, <3>1 DEF CodePlaces
  <2>5. CASE CodeConsume(p) BY <2>4, <2>5 DEF CodeConsume, CodePlaces
  <2>6. CASE CodeLookup(p)
    <3>1. CASE Row(code[req[p].code]) /\ code[req[p].code].grant # None
      <4>1. pc'[p] = "codeReplay" BY <1>0, <2>6, <3>1, Carrying
      <4> QED BY <1>4, <4>1
    <3>2. CASE ~(Row(code[req[p].code]) /\ code[req[p].code].grant # None)
      BY <2>3, <2>6, <3>2 DEF CodeLookup
    <3> QED BY <3>1, <3>2
  <2>7. CASE CodeReplay(p) BY <2>3, <2>7 DEF CodeReplay
  <2>8. CASE CodeDecide(p)
    <3>1. CASE RedeemVerdict(p) = "ok"
      <4>1. pc'[p] = "codeInsert" BY <1>0, <2>8, <3>1, Carrying
      <4> QED BY <1>4, <4>1
    <3>2. CASE RedeemVerdict(p) # "ok" BY <2>3, <2>8, <3>2 DEF CodeDecide
    <3> QED BY <3>1, <3>2
  <2>9. CASE CodeInsert(p) BY <2>3, <2>4, <2>9 DEF CodeInsert, CodePlaces
  <2>10. CASE CodeCommit(p) BY <2>3, <2>10 DEF CodeCommit
  <2> QED BY <1>17, <2>5, <2>6, <2>7, <2>8, <2>9, <2>10
<1> QED BY <1>5, <1>6, <1>7, <1>8, <1>9, <1>10, <1>11, <1>12, <1>13, <1>14, <1>15, <1>16, <1>17
        DEF RequestStep, HandlerStep

LEMMA BindingsInvariant == Spec /\ []HeldSessionsInTime => []Bindings
<1>1. ASSUME Init PROVE Bindings
  <2>1. PassSessions BY <1>1 DEF Init, NoReap, PassSessions
  <2>2. \A p \in Requests : pc[p] = "idle" /\ req[p].token = None BY <1>1, BlankRequest DEF Init
  <2> QED BY <2>1, <2>2 DEF Bindings, EndedRead
<1>2. IInv /\ SessionRefs /\ Kinds /\ Promptness /\ Bindings /\ HeldSessionsInTime /\ [Next]_vars => Bindings'
  <2> SUFFICES ASSUME IInv, SessionRefs, Kinds, Promptness, Bindings, HeldSessionsInTime, [Next]_vars
               PROVE  Bindings'
    OBVIOUS
  <2>1. PassSessions' BY PassSessionsNext DEF Promptness, Bindings
  <2>2. \A p \in Requests : EndedRead(p)' BY EndedReadNext
  <2> QED BY <2>1, <2>2 DEF Bindings
<1> QED BY <1>1, <1>2, SessionRefsAlways, KindsAlways, PromptnessAlways, FamilyInvariant, PTL DEF Spec

\* No session-bound grant outlives its session's row as an offline one, while no
\* session a redemption binds to lapses past its grace under a retention pass.
THEOREM SessionBindingKeptInTime == Spec /\ []HeldSessionsInTime => SessionBindingKept
<1>1. ASSUME IInv, Bindings, [Next]_vars
      PROVE  \A g \in Grants : Row(grant[g]) /\ Row(grant'[g]) => grant'[g].session = grant[g].session
  BY <1>1, BindingStep DEF Bindings
<1> QED BY <1>1, BindingsInvariant, FamilyInvariant, PTL DEF Spec, SessionBindingKept

\* Under the same condition a rotation begun after its family was over yields
\* no successor, however stale what the gate read.
THEOREM EndedFamilyYieldsNothingInTime == Spec /\ []HeldSessionsInTime => []EndedFamilyYieldsNothing
<1>1. Kinds /\ Bindings => EndedFamilyYieldsNothing
  BY DEF Kinds, Kind, Bindings, EndedRead, EndedFamilyYieldsNothing
<1> QED BY <1>1, KindsAlways, BindingsInvariant, PTL

\* The condition holds where the session grace covers a code's lifetime and the
\* two spans a redemption may take: the operator's settings, not the schedule,
\* then decide that a family ends with its session.
THEOREM GraceKeepsSessionsInTime ==
    ASSUME MaxReaps = 0 \/ CodeTtl + 2 * MaxRequestTicks <= SessionGrace + 1
    PROVE  Spec => []HeldSessionsInTime
<1>1. ASSUME IInv, SessionRefs, Promptness PROVE HeldSessionsInTime
  <2> SUFFICES ASSUME reap.stage # "off", NEW p \in Requests, pc[p] \in Redeeming
               PROVE  session[code[req[p].code].session].expires + SessionGrace >= reap.at
    BY DEF HeldSessionsInTime
  <2>1. PICK c : c = req[p].code OBVIOUS
  <2>2. pc[p] \in CodePlaces BY DEF Redeeming, CodePlaces
  <2>3. c \in Codes /\ code[c].st # "none"
    BY <1>1, <2>1, <2>2 DEF IInv, Typed, CodeRefs, Families, CodeHeld
  <2>4. PICK s \in Sessions : s = code[c].session /\ code[c].expires <= session[s].expires + CodeTtl
    BY <1>1, <2>3 DEF SessionRefs
  <2>5. /\ now \in Nat /\ reap.at \in Nat /\ session[s].expires \in Nat /\ code[c].expires \in Nat
        /\ req[p].now \in Nat /\ req[p].at \in Nat
        /\ CodeTtl \in Nat /\ SessionGrace \in Nat /\ MaxRequestTicks \in Nat
    BY <1>1, <2>3, ConstantsAssumption DEF IInv, Typed, TypeOK, SessionRow, CodeRow, Request
  <2>6. /\ now <= req[p].now + MaxRequestTicks /\ req[p].now <= req[p].at + MaxRequestTicks
        /\ code[c].expires > req[p].at
    <3>1. req[p].now <= req[p].at + (IF pc[p] \in {"codeInsert", "codeCommit"} THEN MaxRequestTicks ELSE 0)
      BY <1>1, <2>2 DEF Promptness, Prompt
    <3>2. req[p].now <= req[p].at + MaxRequestTicks
      <4>1. CASE pc[p] \in {"codeInsert", "codeCommit"} BY <3>1, <4>1
      <4>2. CASE pc[p] \notin {"codeInsert", "codeCommit"} BY <2>5, <3>1, <4>2
      <4> QED BY <4>1, <4>2
    <3> QED BY <1>1, <2>1, <2>2, <3>2 DEF Promptness, Prompt
  <2>7. reap.at <= now /\ CodeTtl + 2 * MaxRequestTicks <= SessionGrace + 1 BY <1>1 DEF Promptness
  <2>8. session[s].expires + SessionGrace >= reap.at BY <2>4, <2>5, <2>6, <2>7
  <2> QED BY <2>1, <2>4, <2>8
<1> QED BY <1>1, FamilyInvariant, SessionRefsAlways, PromptnessAlways, PTL

\* A request within an instant never holds a row a pass sees lapsed.
THEOREM PromptRowsInTime ==
    ASSUME MaxReaps = 0 \/ MaxRequestTicks = 0
    PROVE  Spec => []HeldRowsInTime
<1>1. ASSUME IInv, Promptness PROVE HeldRowsInTime
  <2> SUFFICES ASSUME reap.stage # "off", NEW p \in Requests
               PROVE  /\ pc[p] \in Rotating => token[req[p].token].expires > reap.at
                      /\ pc[p] \in Redeeming => code[req[p].code].expires + CodeGrace >= reap.at
    BY DEF HeldRowsInTime
  <2>1. /\ now \in Nat /\ reap.at \in Nat /\ req[p].now \in Nat /\ req[p].at \in Nat /\ CodeGrace \in Nat
        /\ reap.at <= now /\ MaxRequestTicks = 0 /\ Prompt(p)
    BY <1>1, ConstantsAssumption DEF IInv, Typed, TypeOK, Request, Promptness
  <2>2. pc[p] \in RefreshPlaces \union CodePlaces => now <= req[p].now
    BY <2>1 DEF Prompt
  <2>3. ASSUME pc[p] \in Rotating PROVE token[req[p].token].expires > reap.at
    <3>1. pc[p] \in RefreshPlaces \ {"begin"} BY <2>3 DEF Rotating, RefreshPlaces
    <3>2. req[p].token \in Tokens BY <1>1, <3>1 DEF IInv, Typed, RefreshRefs
    <3>3. token[req[p].token].expires \in Nat BY <1>1, <3>2 DEF IInv, Typed, TypeOK, TokenRow
    <3>4. req[p].now <= req[p].at /\ token[req[p].token].expires > req[p].at
      BY <2>1, <2>3, <3>1 DEF Prompt
    <3> QED BY <2>1, <2>2, <3>1, <3>3, <3>4
  <2>4. ASSUME pc[p] \in Redeeming PROVE code[req[p].code].expires + CodeGrace >= reap.at
    <3>1. pc[p] \in CodePlaces BY <2>4 DEF Redeeming, CodePlaces
    <3>2. req[p].code \in Codes BY <1>1, <3>1 DEF IInv, Typed, CodeRefs
    <3>3. code[req[p].code].expires \in Nat BY <1>1, <3>2 DEF IInv, Typed, TypeOK, CodeRow
    <3>4. req[p].now <= req[p].at + 0 /\ code[req[p].code].expires > req[p].at
      BY <2>1, <2>4, <3>1 DEF Prompt
    <3> QED BY <2>1, <2>2, <3>1, <3>3, <3>4
  <2> QED BY <2>3, <2>4
<1> QED BY <1>1, FamilyInvariant, PromptnessAlways, PTL

\* Together, for every setting of the constants that keeps a request within an
\* instant or explores no pass: a token or a code used twice ends its family, and
\* the pass deletes no evidence of it early.
THEOREM EndingsWherePrompt ==
    ASSUME MaxReaps = 0 \/ MaxRequestTicks = 0
    PROVE  Spec => /\ []ReuseEndsFamily /\ []ReplayEndsGrant
                   /\ EvidenceLeavesWithFamily /\ ReapSparesUsable
BY PromptRowsInTime, ReuseEndsFamilyInTime, ReplayEndsGrantInTime, EvidenceLeavesWithFamilyInTime,
   ReapSparesUsableInTime, PTL

\* And, for every setting whose session grace is long enough, a family ends with
\* its session.
THEOREM BindingsUnderGrace ==
    ASSUME MaxReaps = 0 \/ CodeTtl + 2 * MaxRequestTicks <= SessionGrace + 1
    PROVE  Spec => SessionBindingKept /\ []EndedFamilyYieldsNothing
BY GraceKeepsSessionsInTime, SessionBindingKeptInTime, EndedFamilyYieldsNothingInTime, PTL

-----------------------------------------------------------------------------
(* What the gate decided holds at the mint *)

\* What the gate says yes to.
LEMMA GateAllows ==
    ASSUME NEW r, NEW client, NEW t, NEW scope, NEW resource \in AskedResources,
           Admitted(client, t, scope, resource),
           r.client = client, r.scope = scope, r.resource = resource, r.policy = policy
    PROVE  Allowed(r, grant[token[t].grant])
<1> DEFINE g == grant[token[t].grant]
<1>1. /\ EvaluateRefreshGrant(g, client, enabled, scope) = "ok"
      /\ ~RefreshCeilingRefuses(client \in Unvetted, policy, RequestedTokens(g.scope, scope), g.audience)
      /\ ResourceAllowed(AudiencesHeld(client \in Unvetted, policy, g.audience), resource)
  BY DEF Admitted, GateVerdict
<1>2. /\ g.client = client /\ RefreshAllowedForScope(g.scope)
      /\ RequestedTokens(g.scope, scope) \subseteq g.scope
      /\ HoldsMcpScope(g.scope) => HoldsMcpScope(RequestedTokens(g.scope, scope))
  BY <1>1 DEF EvaluateRefreshGrant
<1> QED BY <1>1, <1>2 DEF Allowed

\* A refresh of a coherent grant narrows to a coherent token: a scope without
\* mcp:write loses its only MCP scope with the audience that goes with it.
LEMMA NarrowingCoherent ==
    ASSUME NEW scope, NEW asked, NEW audience, NEW client, NEW held, NEW resource,
           MintAccessToken(scope, audience), asked \subseteq scope, RefreshAllowedForScope(scope),
           ResourceAllowed(AudiencesHeld(client \in Unvetted, held, audience), resource), resource # Issuer
    PROVE  MintAccessToken(ScopeHeld(client \in Unvetted, held, asked),
                           NarrowedAudience(AudiencesHeld(client \in Unvetted, held, audience), resource))
<1> DEFINE kept == AudiencesHeld(client \in Unvetted, held, audience)
           signed == ScopeHeld(client \in Unvetted, held, asked)
<1> SUFFICES ASSUME HoldsMcpScope(signed)
             PROVE  /\ NarrowedAudience(kept, resource) \ {Issuer} # {}
                    /\ NarrowedAudience(kept, resource) \ {Issuer} \subseteq {McpAudience, AdminAudience}
  BY DEF MintAccessToken, ScopesCoherentWithAudience
<1>1. "mcp:read" \in signed
  BY DEF HoldsMcpScope, McpScopes, RefreshAllowedForScope, ScopeHeld
<1>2. "mcp:read" \in scope /\ kept = audience BY <1>1 DEF ScopeHeld, AudiencesHeld
<1>3. audience \ {Issuer} # {} /\ audience \ {Issuer} \subseteq {McpAudience, AdminAudience}
  <2>1. HoldsMcpScope(scope) BY <1>2 DEF HoldsMcpScope, McpScopes
  <2> QED BY <2>1 DEF MintAccessToken, ScopesCoherentWithAudience
<1> QED BY <1>2, <1>3 DEF NarrowedAudience, ResourceAllowed

\* So the decision taken again can only find the subject disabled.
LEMMA MintAfterGate ==
    ASSUME NEW p, NEW g, enabled \in BOOLEAN, Issuer \notin AskedResources, Allowed(req[p], g),
           MintAccessToken(g.scope, g.audience), req[p].seen.revokedAt = NotRevoked,
           req[p].seen.client = g.client, req[p].seen.scope = g.scope, req[p].seen.audience = g.audience
    PROVE  MintVerdict(p) = "ok" \/ MintVerdict(p) = "subject_disabled"
<1> DEFINE r == req[p]
           asked == RequestedTokens(g.scope, r.scope)
           verdict == EvaluateRefreshGrant(r.seen, r.client, enabled, r.scope)
           kept == AudiencesHeld(r.client \in Unvetted, r.policy, g.audience)
<1>1. verdict = "ok" \/ verdict = "subject_disabled" BY DEF EvaluateRefreshGrant, Allowed
<1>2. MintAccessToken(ScopeHeld(r.client \in Unvetted, r.policy, asked), NarrowedAudience(kept, r.resource))
  <2>1. r.resource # Issuer BY DEF Allowed
  <2>2. /\ asked \subseteq g.scope /\ RefreshAllowedForScope(g.scope) /\ ResourceAllowed(kept, r.resource)
    BY DEF Allowed
  <2> QED BY <2>1, <2>2, NarrowingCoherent
<1>3. /\ ~RefreshCeilingRefuses(r.client \in Unvetted, r.policy, asked, g.audience)
      /\ ResourceAllowed(kept, r.resource)
  BY DEF Allowed
<1> HIDE DEF verdict
<1>4. MintVerdict(p) = IF verdict # "ok" THEN verdict ELSE "ok"
  BY <1>2, <1>3 DEF MintVerdict, MintVerdictUnder, verdict
<1> QED BY <1>1, <1>4

\* A grant is made from a code whose token could be signed.
LEMMA CoherentNext == ASSUME IInv, Gate, [Next]_vars PROVE Coherent'
<1> SUFFICES ASSUME NEW g \in Grants, grant'[g].st # "none"
             PROVE  MintAccessToken(grant'[g].scope, grant'[g].audience)
  BY DEF Coherent
<1>1. CASE grant[g].st # "none"
  BY <1>1, RowsStep DEF RowsKept, GrantKept, Gate, Coherent
<1>2. CASE grant[g].st = "none"
  <2>1. PICK p \in Requests : CodeCommit(p) /\ grant'[g] = NewGrant(req[p]) BY <1>2, NewGrants
  <2>2. /\ grant'[g].scope = code[req[p].code].scope
        /\ grant'[g].audience = NarrowedAudience(code[req[p].code].resource, req[p].resource) \union {Issuer}
    BY <2>1 DEF NewGrant
  <2>3. MintAccessToken(code[req[p].code].scope,
                        NarrowedAudience(code[req[p].code].resource, req[p].resource))
    BY <2>1 DEF Gate, Gated, CodeCommit
  <2>4. \A a : (a \union {Issuer}) \ {Issuer} = a \ {Issuer} OBVIOUS
  <2> QED BY <2>2, <2>3, <2>4 DEF MintAccessToken
<1> QED BY <1>1, <1>2

LEMMA GatedNext ==
    ASSUME Issuer \notin AskedResources, IInv, Gate, [Next]_vars, NEW p \in Requests
    PROVE  Gated(p)'
<1>0. Typed /\ RowsKept /\ Gated(p) /\ Coherent /\ enabled \in BOOLEAN
  BY RowsStep DEF IInv, Typed, TypeOK, Gate
<1>1. ASSUME pc[p] = "idle", pc'[p] # "idle"
      PROVE  /\ pc'[p] \in {"begin", "done", "codeConsume"}
             /\ pc'[p] = "begin" => Allowed(req'[p], grant'[req'[p].grant])
  <2>1. ASSUME NEW client \in Clients, NEW c \in Codes, NEW proof \in BOOLEAN,
               NEW resource \in AskedResources, PresentCode(p, client, c, proof, resource)
        PROVE  pc'[p] = "codeConsume"
    BY <1>0, <2>1, PresentingCode
  <2>2. ASSUME NEW client \in Clients, NEW t \in Tokens, NEW scope \in AskedScopes,
               NEW resource \in AskedResources, PresentRefreshToken(p, client, t, scope, resource)
        PROVE  pc'[p] = "done" \/ (pc'[p] = "begin" /\ Allowed(req'[p], grant'[req'[p].grant]))
    <3>1. CASE ~Admitted(client, t, scope, resource) BY <1>0, <2>2, <3>1, Presenting
    <3>2. CASE Admitted(client, t, scope, resource)
      <4>1. /\ UNCHANGED dbVars /\ pc'[p] = "begin" /\ req'[p].grant = token[t].grant
            /\ req'[p].client = client /\ req'[p].scope = scope
            /\ req'[p].resource = resource /\ req'[p].policy = policy
        BY <1>0, <2>2, <3>2, Presenting
      <4>2. Allowed(req'[p], grant[token[t].grant]) BY <3>2, <4>1, GateAllows
      <4> QED BY <4>1, <4>2 DEF dbVars
    <3> QED BY <3>1, <3>2
  <2> QED BY <1>1, <2>1, <2>2, Starting
<1>2. ASSUME pc[p] # "idle", pc'[p] \in RefreshPlaces
      PROVE  /\ Allowed(req'[p], grant'[req'[p].grant])
             /\ pc'[p] \in {"readSession", "rotate", "mint"} =>
                  /\ req'[p].seen.revokedAt = NotRevoked
                  /\ req'[p].seen.client = grant'[req'[p].grant].client
                  /\ req'[p].seen.scope = grant'[req'[p].grant].scope
                  /\ req'[p].seen.audience = grant'[req'[p].grant].audience
  <2>1. /\ pc[p] \in RefreshPlaces
        /\ req'[p].client = req[p].client /\ req'[p].grant = req[p].grant /\ req'[p].scope = req[p].scope
        /\ req'[p].resource = req[p].resource /\ req'[p].policy = req[p].policy
    BY <1>2, RefreshMoves
  <2>2. PICK g : g = req[p].grant OBVIOUS
  <2>3. g \in Grants /\ grant[g].st # "none" BY <2>1, <2>2 DEF IInv, Typed, RefreshRefs, TokenRefs
  <2>4. /\ grant'[g].client = grant[g].client /\ grant'[g].scope = grant[g].scope
        /\ grant'[g].audience = grant[g].audience
    BY <1>0, <2>3 DEF RowsKept, GrantKept
  <2>5. Allowed(req[p], grant[g]) BY <1>0, <2>1, <2>2 DEF Gated
  <2>6. Allowed(req'[p], grant'[g]) BY <2>1, <2>4, <2>5 DEF Allowed
  <2>7. pc'[p] \in {"readSession", "rotate", "mint"} =>
          \/ pc[p] \in {"readSession", "rotate", "mint"} /\ req'[p].seen = req[p].seen
          \/ grant[g].revokedAt = NotRevoked /\ req'[p].seen = grant[g]
    BY <1>2, <2>2, RefreshMoves DEF Revoked
  <2>8. pc'[p] \in {"readSession", "rotate", "mint"} =>
          /\ req'[p].seen.revokedAt = NotRevoked /\ req'[p].seen.client = grant[g].client
          /\ req'[p].seen.scope = grant[g].scope /\ req'[p].seen.audience = grant[g].audience
    BY <1>0, <2>2, <2>7 DEF Gated
  <2> QED BY <2>1, <2>2, <2>4, <2>6, <2>8
<1>3. ASSUME pc[p] # "idle", pc'[p] \in {"codeInsert", "codeCommit"}
      PROVE  MintAccessToken(code'[req'[p].code].scope,
                             NarrowedAudience(code'[req'[p].code].resource, req'[p].resource))
  <2>1. /\ pc[p] \in CodePlaces /\ req'[p].code = req[p].code /\ req'[p].resource = req[p].resource
        /\ pc[p] \in {"codeInsert", "codeCommit"} \/ (UNCHANGED code /\ RedeemVerdict(p) = "ok")
    BY <1>3, CodeMoves DEF CodePlaces
  <2>2. CASE pc[p] \in {"codeInsert", "codeCommit"}
    <3>1. req[p].code \in Codes BY <2>1 DEF IInv, Typed, CodeRefs
    <3>2. code[req[p].code].st # "none"
      BY <2>2 DEF IInv, Families, CodeHeld, Redeeming, Row
    <3>3. /\ code'[req[p].code].scope = code[req[p].code].scope
          /\ code'[req[p].code].resource = code[req[p].code].resource
      BY <1>0, <3>1, <3>2 DEF RowsKept, CodeKept
    <3> QED BY <1>0, <2>1, <2>2, <3>3 DEF Gated
  <2>3. CASE UNCHANGED code /\ RedeemVerdict(p) = "ok"
    <3>1. MintAccessToken(code[req[p].code].scope,
                          NarrowedAudience(code[req[p].code].resource, req[p].resource))
      BY <2>3 DEF RedeemVerdict
    <3> QED BY <2>1, <2>3, <3>1
  <2> QED BY <2>1, <2>2, <2>3
<1>4. req'[p].outcome = "burned" => req'[p].reason = "subject_disabled"
  <2> SUFFICES ASSUME req'[p].outcome = "burned" PROVE req'[p].reason = "subject_disabled" OBVIOUS
  <2>1. CASE req'[p].outcome = req[p].outcome /\ req'[p].reason = req[p].reason
    BY <1>0, <2>1 DEF Gated
  <2>2. CASE pc[p] = "mint" /\ MintVerdict(p) # "ok" /\ req'[p].reason = MintVerdict(p)
    <3>1. PICK g : g = req[p].grant OBVIOUS
    <3>2. g \in Grants /\ grant[g].st # "none"
      BY <2>2, <3>1 DEF IInv, Typed, RefreshRefs, TokenRefs, RefreshPlaces
    <3>3. MintAccessToken(grant[g].scope, grant[g].audience) BY <1>0, <3>2 DEF Coherent
    <3>4. /\ Allowed(req[p], grant[g]) /\ req[p].seen.revokedAt = NotRevoked
          /\ req[p].seen.client = grant[g].client /\ req[p].seen.scope = grant[g].scope
          /\ req[p].seen.audience = grant[g].audience
      BY <1>0, <2>2, <3>1 DEF Gated, RefreshPlaces
    <3>5. MintVerdict(p) = "ok" \/ MintVerdict(p) = "subject_disabled"
      BY <1>0, <3>3, <3>4, MintAfterGate
    <3> QED BY <2>2, <3>5
  <2> QED BY <2>1, <2>2, Burning
<1>5. pc'[p] \in RefreshPlaces => Allowed(req'[p], grant'[req'[p].grant])
  BY <1>1, <1>2 DEF RefreshPlaces
<1>6. pc'[p] \in {"readSession", "rotate", "mint"} =>
        /\ req'[p].seen.revokedAt = NotRevoked
        /\ req'[p].seen.client = grant'[req'[p].grant].client
        /\ req'[p].seen.scope = grant'[req'[p].grant].scope
        /\ req'[p].seen.audience = grant'[req'[p].grant].audience
  BY <1>1, <1>2 DEF RefreshPlaces
<1>7. pc'[p] \in {"codeInsert", "codeCommit"} =>
        MintAccessToken(code'[req'[p].code].scope,
                        NarrowedAudience(code'[req'[p].code].resource, req'[p].resource))
  BY <1>1, <1>3
<1> QED BY <1>4, <1>5, <1>6, <1>7 DEF Gated

\* A refresh token spent by a rotation yields its successor unless the subject
\* is disabled meanwhile, whatever else changes after the gate, while no request
\* narrows its audience to the issuer alone (the NarrowedRefresh run does).
THEOREM OnlyDisablingBurnsOffIssuer ==
    ASSUME Issuer \notin AskedResources
    PROVE  Spec => []OnlyDisablingBurns
<1>1. ASSUME Init PROVE Gate
  <2>1. Coherent BY <1>1 DEF Init, Coherent, NoGrant
  <2>2. ASSUME NEW p \in Requests PROVE Gated(p)
    <3>1. pc[p] = "idle" /\ req[p].outcome = "none" BY <1>1, <2>2, BlankRequest DEF Init
    <3> QED BY <3>1 DEF Gated, RefreshPlaces
  <2> QED BY <2>1, <2>2 DEF Gate
<1>2. IInv /\ Gate /\ [Next]_vars => Gate'
  <2> SUFFICES ASSUME IInv, Gate, [Next]_vars PROVE Gate' OBVIOUS
  <2>1. \A p \in Requests : Gated(p)' BY GatedNext
  <2> QED BY <2>1, CoherentNext DEF Gate
<1>3. Gate => OnlyDisablingBurns BY DEF Gate, Gated, OnlyDisablingBurns
<1> QED BY <1>1, <1>2, <1>3, FamilyInvariant, PTL DEF Spec
=============================================================================
