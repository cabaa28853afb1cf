---------------------------- MODULE TokenVerdicts ----------------------------
(***************************************************************************)
(* One token in use: its claims are what some client sends to the BFF, the *)
(* Agent Execution Service and the MCP protected API while time passes.    *)
(* The services, started with one environment each of them lets pass,      *)
(* evaluate the guards of TokenGuards on it, each with its own code; so    *)
(* does the Agent's sidecar.  This module states how the verdicts relate.  *)
(***************************************************************************)
EXTENDS ServiceConfig

CONSTANTS
  Tokens,             \* claims clients send
  Environments,       \* what the services may be configured with
  Tool,               \* scope of the MCP route
  DownstreamAudience, \* OBO_DOWNSTREAM_AUDIENCE of the Agent
  DownstreamScopes,   \* words of the Agent's OBO_REQUIRED_SCOPES
  MaxTime             \* bound of the clock

\* What a service may be configured to require: items of comma-separated lists,
\* which are trimmed and not empty.  None ends in the ellipsis of a cut string.
Required(e) == e.guards.tenants \union e.guards.audiences \union e.guards.scopes

ASSUME VerdictAssumption ==
  /\ Tokens \subseteq Claims
  /\ Environments \subseteq Environment
  /\ \A e \in Environments :
       /\ \A x \in Required(e) : Trim[x] = x
       /\ {Empty, Fragment} \intersect Required(e) = {}
       /\ TrimOpt(e.guards.issuer) \notin {Empty, Fragment}
       /\ e.blueprint # Empty
  /\ Tool \in Strings \ {Empty, Fragment}
  /\ DownstreamAudience \in Strings
  /\ Trim[DownstreamAudience] = DownstreamAudience
  /\ DownstreamScopes \in Seq(Strings)
  /\ MaxTime \in Nat

VARIABLES
  now,      \* time.time()
  claims,   \* of the token
  env       \* the services' environment

vars == <<now, claims, env>>

TypeOK == now \in Int /\ claims \in Tokens /\ env \in Environments

Init ==
  /\ now = 0
  /\ env \in Environments
  /\ BffRefusals(env) = {} /\ AgentRefusals(env) = {} /\ McpRefusals(env) = {}
  /\ claims \in Tokens

Tick == now < MaxTime /\ now' = now + 1 /\ UNCHANGED <<claims, env>>

Next == Tick

Spec == Init /\ [][Next]_vars

------------------------------------------------------------------------------
settings == env.guards
Bff == BffVerdict(claims, settings, now)
Agent == AgentVerdict(claims, settings, now)
Mcp == McpVerdict(claims, settings, Tool, now)
Sidecar == SidecarVerdict(claims, env.blueprint, settings.tenants, now)

\* The BFF stops at the first failure, the Agent collects them all and sorts
\* them into 401 and 403 by a list of names: for the same settings both give
\* the same status.
GatewaysAgree == Bff = Agent

\* What the MCP route asks for, as settings of the BFF's checks.
ToolSettings == [settings EXCEPT !.scopes = McpRequiredScopes(Tool, settings)]

\* A token sanitize_claims does not change.
Plain(c) == SanitizeClaims(c) = c

\* Checking the sanitized claims rather than the token's makes no difference
\* for such a token: the MCP API's verdict is the one the BFF would give with
\* the tool's scopes.
SanitizingKeepsVerdict ==
  Plain(claims) => Mcp = BffVerdict(claims, ToolSettings, now)

TrimValue(v) == [v EXCEPT !.items = TrimItems(@)]

\* The token's claims with their blanks off and without an iat of null.
Told(c) ==
  [c EXCEPT !.aud = TrimValue(@), !.scp = TrimValue(@), !.scope = TrimValue(@),
            !.roles = TrimValue(@), !.iss = TrimOpt(@), !.tid = TrimOpt(@),
            !.iat = SanitizeTime(@)]

\* For any other token sanitizing widens what the MCP API lets through in three
\* ways and no other.  Blanks around a value do not matter; an iat of null,
\* which the BFF refuses, is one the token does not have; and an over-long
\* object in `scp`, in which the BFF finds no scope, becomes a text with words.
\* Audience, tenant, issuer and times stand as the BFF's checks want them, and
\* so do the scopes of any list or text, wherever it was cut.
SanitizingWidensAsNamed ==
  Mcp = 200 =>
    LET verdict == BffVerdict(Told(claims), ToolSettings, now)
    IN  verdict = 200 \/ (verdict = 403 /\ claims.scp.form = "object")

\* The claims the Agent's mock exchange mints are good for the downstream API
\* only, whatever the token came with: no service that names its audiences and
\* does not share the downstream audience lets them through.
ExchangeIsConfined ==
  settings.audiences # {} /\ DownstreamAudience \notin settings.audiences =>
    BffVerdict(MockExchange(claims, DownstreamAudience, DownstreamScopes), settings, now) = 401

\* An empty list or a blank issuer switches its guard off.  What strict mode
\* refuses to start with is enough for none to be off: in a strict service that
\* runs, a 200 means an issuer, a tenant, an audience and a scope that were
\* configured, and a token in its time.
Vouched(c) ==
  /\ c.iss # Absent /\ TrimOpt(c.iss) = TrimOpt(settings.issuer)
  /\ c.tid \in settings.tenants
  /\ Items(c.aud) \intersect settings.audiences # {}
  /\ Scopes(c) \intersect settings.scopes # {}

StrictArmsEveryGuard ==
  env.mode = "strict" =>
    /\ Bff = 200 => Vouched(claims)
    /\ Mcp = 200 => Vouched(SanitizeClaims(claims))

\* What only the services look at, or look at with other rules.
SidecarBlind ==
  {"missing_issuer", "invalid_issuer", "missing_nbf", "invalid_nbf", "token_not_yet_valid",
   "invalid_iat", "token_issued_in_future", "missing_scope"}

\* A blank scp, or one that is neither string nor list, is truthy all the same.
WordlessScp(c) == c.scp # NoValue /\ Items(c.scp) = {}

\* The Agent's own checks and those of its sidecar, for the same blueprint and
\* the same tenants: what the sidecar lets through and the Agent does not is
\* for one of these reasons or an scp without a word, never for a wrong audience
\* or tenant or an expired token.  The other way round the sidecar refuses only
\* a token whose audience is not the one string but a list, that has no `scp`,
\* that is of a tenant nobody listed, whose exp is a decimal string, or that is
\* in the skew after its expiry.  What it accepts it exchanges.
SidecarAgrees ==
  env.blueprint # Absent =>
    LET own == [settings EXCEPT !.audiences = {env.blueprint}]
    IN  /\ Sidecar = 200 =>
             /\ AgentFailures(claims, own, now) \subseteq
                  SidecarBlind \union
                  (IF WordlessScp(claims) THEN {"delegated_required"} ELSE {})
             /\ SidecarExchanges(claims, env.blueprint)
        /\ AgentVerdict(claims, own, now) = 200 /\ Sidecar # 200 =>
             \/ claims.aud.form = "list"
             \/ claims.scp = NoValue
             \/ settings.tenants = {}
             \/ claims.decimal
             \/ now - Skew <= claims.exp /\ claims.exp < now

\* As time passes a verdict changes twice at most: a refused token becomes
\* acceptable only when its nbf or iat comes within the skew, and an accepted
\* one is refused only once its exp is out of it.
ValidityIsAnInterval ==
  [][/\ Bff # 200 /\ Bff' = 200 =>
          \/ claims.nbf > now + Skew
          \/ claims.iat # Absent /\ claims.iat > now + Skew
     /\ Bff = 200 /\ Bff' # 200 => claims.exp < now' - Skew]_vars

==============================================================================
