------------------------------ MODULE GrantRules ------------------------------
(***************************************************************************)
(* The rules that decide a token request from records already read: the    *)
(* code owns no state here and runs no query.  A scope or an audience list *)
(* of the code is a set, since no rule reads its order.                    *)
(*                                                                         *)
(* A client nobody at the tenant vetted (registrationOrigin 'anonymous' or *)
(* 'cimd') is one for which needsApproval holds; the rules take that as a  *)
(* Boolean.  "none" is a request that names no resource.                   *)
(***************************************************************************)
EXTENDS Integers, FiniteSets

\* A null revoked_at; every real stamp is a natural number.
NotRevoked == -1

McpScopes == {"mcp:read", "mcp:write"}
Scopes == {"openid", "offline_access"} \union McpScopes

Issuer == "issuer"
McpAudience == "mcp"
AdminAudience == "admin"
Audiences == {Issuer, McpAudience, AdminAudience, "api"}

HoldsMcpScope(scope) == scope \intersect McpScopes # {}

RefreshAllowedForScope(scope) == "mcp:write" \notin scope

\* The rules of the authorization_code grant: the same client, the same
\* redirect_uri, and a verifier that proves the code's PKCE challenge.
EvaluateAuthorizationCodeGrant(codeClient, client, proof) ==
    /\ codeClient = client
    /\ proof

\* The scope a refresh asks for: an empty parameter is the whole grant.
RequestedTokens(granted, requested) ==
    IF requested = {} THEN granted ELSE requested

\* The rules of the refresh_token grant, in the code's order: the first that
\* fails names the refusal.
EvaluateRefreshGrant(grant, client, enabled, requested) ==
    LET tokens == RequestedTokens(grant.scope, requested) IN
    IF grant.client # client THEN "client_mismatch"
    ELSE IF grant.revokedAt # NotRevoked THEN "grant_revoked"
    ELSE IF ~enabled THEN "subject_disabled"
    ELSE IF ~RefreshAllowedForScope(grant.scope) THEN "write_not_refreshable"
    ELSE IF ~(tokens \subseteq grant.scope) THEN "scope_widened"
    ELSE IF HoldsMcpScope(grant.scope) /\ ~HoldsMcpScope(tokens) THEN "mcp_scope_dropped"
    ELSE "ok"

\* What the tenant's registration policy leaves of an audience.
AudiencesHeld(unvetted, policy, audience) ==
    IF unvetted /\ policy # "mcp" THEN audience \ {McpAudience} ELSE audience

\* What it leaves of a scope.
ScopeHeld(unvetted, policy, scope) ==
    IF unvetted /\ policy # "mcp" THEN scope \ {"mcp:read"} ELSE scope

\* A chain that would lose mcp:read and still reach the admin API ends.
RefreshCeilingRefuses(unvetted, policy, scope, audience) ==
    /\ HoldsMcpScope(scope)
    /\ ~HoldsMcpScope(ScopeHeld(unvetted, policy, scope))
    /\ AdminAudience \in AudiencesHeld(unvetted, policy, audience)

\* RFC 8707: a named resource must be one of the audience it narrows.
ResourceAllowed(base, resource) == resource = "none" \/ resource \in base

NarrowedAudience(base, resource) ==
    IF resource = "none" THEN base ELSE {resource}

\* An MCP scope belongs in a token for the MCP endpoint and the admin API only.
ScopesCoherentWithAudience(scope, audience) ==
    HoldsMcpScope(scope) =>
        audience # {} /\ audience \subseteq {McpAudience, AdminAudience}

\* mintAccessToken's one refusal, the last thing before a token is signed.  The
\* issuer, which every token names, is not judged.
MintAccessToken(scope, audience) == ScopesCoherentWithAudience(scope, audience \ {Issuer})
=============================================================================
