---------------------------- MODULE MCTokenFamilies ----------------------------
(* TokenFamilies on small instances. *)
EXTENDS TokenFamilies, TLC

OfflineCode == [scope |-> {"openid", "offline_access"}, resource |-> {"api"}]
SessionCode == [scope |-> {"openid"}, resource |-> {"api"}]
McpReadCode == [scope |-> {"openid", "offline_access", "mcp:read"}, resource |-> {McpAudience}]
McpWriteCode == [scope |-> {"openid", "offline_access", "mcp:write"}, resource |-> {McpAudience}]

McpAdminCode ==
    [scope |-> {"openid", "mcp:read"}, resource |-> {McpAudience, AdminAudience}]

OfflineOnly == {OfflineCode}
SessionOnly == {SessionCode}
McpKinds == {McpReadCode, McpWriteCode}
MixedKinds == {SessionCode, McpReadCode}
PolicyKinds == {SessionCode, McpReadCode, McpWriteCode, McpAdminCode}

WholeGrant == {{}}
NarrowedScopes == {{}, {"openid"}, {"openid", "mcp:read"}}
IssuerResource == {"none", Issuer}
NoResource == {"none"}

\* Consent withdrawal and revocation do to a grant what logout and recovery do.
OneOfEachEnding == AllDisruptions \ {"consent", "revocation"}
Nothing == {}

Interchangeable == Permutations(Requests)
=============================================================================
