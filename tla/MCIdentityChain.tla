-------------------------- MODULE MCIdentityChain --------------------------
(* Users with a token for the BFF that expires early or late, a token for  *)
(* an application, a token of another audience or of no known tenant;      *)
(* fixtures that one service or all of them accept.                        *)
EXTENDS IdentityChain, TLC

CONSTANTS bffApi, agentApi, mcpApi, read, write, issuer, tenant, stranger, empty, fragment

MCStrings ==
  {bffApi, agentApi, mcpApi, read, write, issuer, tenant, stranger, empty, fragment}
MCTrim == [s \in MCStrings |-> s]
MCLength == [s \in MCStrings |-> CASE s = empty -> 0 [] s = fragment -> 10 [] OTHER -> 4]

Service(api, scopes) ==
  [issuer |-> issuer, tenants |-> {tenant}, audiences |-> {api}, scopes |-> scopes]

MCConfig ==
  [s \in Services |->
     CASE s = "bff" -> Service(bffApi, {read})
       [] s = "agent" -> Service(agentApi, {read, write})
       [] s = "mcp" -> Service(mcpApi, {read, write})]

Token(audiences, scp, tid, exp) ==
  [aud |-> IF Len(audiences) = 1 THEN Text(audiences) ELSE List(audiences),
   scp |-> IF scp = <<>> THEN NoValue ELSE Text(scp), scope |-> NoValue,
   roles |-> IF scp = <<>> THEN List(<<read>>) ELSE NoValue,
   iss |-> issuer, tid |-> tid, exp |-> exp, nbf |-> 0, iat |-> Absent,
   decimal |-> FALSE]

MCUserTokens ==
  {Token(<<bffApi>>, <<read>>, tenant, 1), Token(<<bffApi>>, <<read>>, tenant, 3),
   Token(<<bffApi>>, <<>>, tenant, 3), Token(<<bffApi>>, <<read>>, stranger, 3),
   Token(<<agentApi>>, <<read>>, tenant, 3)}

MCFixtures ==
  {Token(<<bffApi, agentApi, mcpApi>>, <<read, write>>, tenant, 9),
   Token(<<agentApi, bffApi, mcpApi>>, <<read>>, tenant, 2)}

MCOboScopes == <<read, write>>

============================================================================
