---------------------------- MODULE ServiceConfig ----------------------------
(***************************************************************************)
(* What load_settings lets start: the config.py of the BFF, the Agent      *)
(* Execution Service and the MCP protected API, with validate_strict_config *)
(* and validate_entra_obo_config.  A service whose environment is refused  *)
(* raises at import and never serves a request.                            *)
(***************************************************************************)
EXTENDS TokenGuards

CONSTANTS
  Placeholders,        \* values left for somebody to fill in
  BlueprintPlaceholder \* BLUEPRINT_AUDIENCE_PLACEHOLDER

ASSUME ConfigAssumption ==
  Placeholders \subseteq Strings /\ BlueprintPlaceholder \in Strings

OboFields == {"OBO_TOKEN_URL", "OBO_CLIENT_ID", "OBO_CLIENT_SECRET", "OBO_REQUIRED_SCOPES"}

\* A blank variable counts as Absent, as `_normalize` and the csv lists do.
Environment ==
  [mode : {"disabled", "mock", "strict"},
   guards : Settings,     \* AUTH_ISSUER, TRUSTED_TENANTS, ALLOWED_AUDIENCES, REQUIRED_SCOPES
   jwksUrl : OptString,   \* AUTH_JWKS_URL
   blueprint : OptString, \* BLUEPRINT_AUDIENCE, the Agent's
   chained : BOOLEAN,     \* CHAT_SESSION_CHAIN_ENABLED, MCP_CHAIN_ENABLED
   endpoint : OptString,  \* base URL of the service chained to
   obo : SUBSET OboFields \* the exchange variables that are set
  ]

LooksLikePlaceholder(v) == v = Absent \/ v \in Placeholders

\* One real value is enough for a list.
HasNonPlaceholder(values) == \E v \in values : ~LooksLikePlaceholder(v)

StrictOffencesButScopes(e) ==
  {f \in {"issuer", "jwks_url", "allowed_audiences", "trusted_tenants"} :
     CASE f = "issuer" -> LooksLikePlaceholder(e.guards.issuer)
       [] f = "jwks_url" -> LooksLikePlaceholder(e.jwksUrl)
       [] f = "allowed_audiences" -> ~HasNonPlaceholder(e.guards.audiences)
       [] f = "trusted_tenants" -> ~HasNonPlaceholder(e.guards.tenants)}

StrictOffences(e) ==
  {f \in {"issuer", "jwks_url", "allowed_audiences", "required_scopes", "trusted_tenants"} :
     CASE f = "issuer" -> LooksLikePlaceholder(e.guards.issuer)
       [] f = "jwks_url" -> LooksLikePlaceholder(e.jwksUrl)
       [] f = "allowed_audiences" -> ~HasNonPlaceholder(e.guards.audiences)
       [] f = "required_scopes" -> e.guards.scopes = {}
       [] f = "trusted_tenants" -> ~HasNonPlaceholder(e.guards.tenants)}

MissingObo(e) == IF e.chained THEN OboFields \ e.obo ELSE {}

ChainRefusals(e) ==
  IF e.chained /\ e.endpoint = Absent THEN {"base_url"} ELSE {}

BffRefusals(e) ==
  ChainRefusals(e)
    \union (IF e.mode = "strict" THEN StrictOffences(e) \union MissingObo(e) ELSE {})

\* Only the one placeholder is refused as a blueprint, a blank is not.
AgentRefusals(e) ==
  BffRefusals(e)
    \union (IF e.mode = "strict" /\ e.blueprint = BlueprintPlaceholder
            THEN {"BLUEPRINT_AUDIENCE"} ELSE {})

\* The MCP API calls nobody.
McpRefusals(e) == IF e.mode = "strict" THEN StrictOffences(e) ELSE {}

==============================================================================
