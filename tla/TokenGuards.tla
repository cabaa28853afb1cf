----------------------------- MODULE TokenGuards -----------------------------
(***************************************************************************)
(* The claim guards of identity_lab_auth and the verdicts the three        *)
(* services build from them: guards.py, token_type.py, claims.py, the mock *)
(* exchange of obo.py, the sidecar of agent_obo.py, and the auth.py of the *)
(* BFF, the Agent Execution Service and the MCP protected API.             *)
(*                                                                         *)
(* Claims are compared as opaque strings.  Of a string the model knows     *)
(* what is left without surrounding blanks (Trim) and how long it is       *)
(* (Length), which is what sanitize_claims looks at.                       *)
(***************************************************************************)
EXTENDS Integers, Sequences, FiniteSets, FiniteSetsExt

CONSTANTS
  Strings,     \* claim values
  Trim,        \* value -> value without surrounding blanks
  Length,      \* value -> number of its characters
  Empty,       \* ""
  Fragment,    \* the end of a cut string: what is left of a value, and the ellipsis
  Absent,      \* a claim the token does not have
  Null,        \* a time claim whose value is null
  Unparsable,  \* a time claim that is not a number
  MaxItems,    \* items sanitize_claims keeps of a list
  MaxChars,    \* characters it keeps of a string
  Skew         \* clock_skew_seconds

ASSUME GuardAssumption ==
  /\ Trim \in [Strings -> Strings]
  /\ \A s \in Strings : Trim[Trim[s]] = Trim[s]
  /\ Length \in [Strings -> Nat]
  /\ Empty \in Strings /\ Trim[Empty] = Empty /\ Length[Empty] = 0
  /\ Fragment \in Strings /\ Trim[Fragment] = Fragment /\ Length[Fragment] > MaxChars
  /\ Absent \notin Strings
  /\ Absent \notin Int /\ Null \notin Int /\ Unparsable \notin Int
  /\ Absent # Null /\ Absent # Unparsable /\ Null # Unparsable
  /\ MaxItems \in Nat \ {0}
  /\ MaxChars \in Nat \ {0}
  /\ Skew \in Nat

\* An iss or tid that is no string is Absent to every reader.
OptString == Strings \union {Absent}
Time == Int \union {Absent, Null, Unparsable}
Parsed(t) == t \notin {Absent, Null, Unparsable}

Words(q) == {q[i] : i \in DOMAIN q}

\* The claims that may hold several values: a list of strings, a text whose
\* words they are (none if it is blank),
\* or another JSON value, which the guards read nothing in.  The items of the
\* latter are the words of its serialisation, if that is over-long.
Value == [form : {"list", "text", "object"}, items : Seq(Strings)]
List(q) == [form |-> "list", items |-> q]
Text(q) == [form |-> "text", items |-> q]

\* Absent, null, "" and [] are the same to every reader: falsy.
NoValue == List(<<>>)

\* A text in `aud` is one string, and an over-long object no audience.
Audience ==
  {v \in Value : CASE v.form = "list" -> TRUE
                   [] v.form = "text" -> Len(v.items) = 1
                   [] v.form = "object" -> Words(v.items) \subseteq {Fragment}}

Claims ==
  [aud : Audience, scp : Value, scope : Value, roles : Value,
   iss : OptString, tid : OptString, exp : Time, nbf : Time, iat : Time,
   decimal : BOOLEAN]  \* exp is a string that float() reads and int() does not

\* What a service is configured to require; an empty set requires nothing.
Settings ==
  [issuer : OptString, tenants : SUBSET Strings,
   audiences : SUBSET Strings, scopes : SUBSET Strings]

Items(v) == IF v.form = "object" THEN {} ELSE Words(v.items) \ {Empty}
TrimOpt(s) == IF s = Absent THEN Absent ELSE Trim[s]

------------------------------------------------------------------------------
(* guards.py and token_type.py                                             *)

\* `scope` counts only when `scp` is falsy, which a blank is not.
Scopes(c) == IF c.scp # NoValue THEN Items(c.scp) ELSE Items(c.scope)

TokenType(c) ==
  IF Scopes(c) # {} THEN "delegated"
  ELSE IF Items(c.roles) # {} THEN "app-only" ELSE "unknown"

RequireAny(held, required) == required = {} \/ held \intersect required # {}
RequireScope(c, required) == RequireAny(Scopes(c), required)
RequireAudience(c, required) == RequireAny(Items(c.aud), required)
RequireDelegated(c) == TokenType(c) = "delegated"

IssuerFailures(c, s) ==
  IF s.issuer = Absent \/ TrimOpt(c.iss) = TrimOpt(s.issuer) THEN {}
  ELSE IF TrimOpt(c.iss) \in {Absent, Empty} THEN {"missing_issuer"} ELSE {"invalid_issuer"}

\* Unlike the issuer, the tenant is compared as it stands.
TenantFailures(c, s) ==
  IF s.tenants = {} \/ c.tid \in s.tenants THEN {}
  ELSE IF TrimOpt(c.tid) \in {Absent, Empty} THEN {"missing_tenant"} ELSE {"untrusted_tenant"}

ExpFailures(c, now) ==
  CASE c.exp \in {Absent, Null} -> {"missing_exp"}
    [] c.exp = Unparsable -> {"invalid_exp"}
    [] OTHER -> IF now - Skew > c.exp THEN {"token_expired"} ELSE {}

NbfFailuresWrongSkew(c, now) ==
  CASE c.nbf \in {Absent, Null} -> {"missing_nbf"}
    [] c.nbf = Unparsable -> {"invalid_nbf"}
    [] OTHER -> IF now - Skew < c.nbf THEN {"token_not_yet_valid"} ELSE {}

NbfFailures(c, now) ==
  CASE c.nbf \in {Absent, Null} -> {"missing_nbf"}
    [] c.nbf = Unparsable -> {"invalid_nbf"}
    [] OTHER -> IF now + Skew < c.nbf THEN {"token_not_yet_valid"} ELSE {}

\* iat is optional, but a null is an iat.
IatFailures(c, now) ==
  CASE c.iat = Absent -> {}
    [] c.iat \in {Null, Unparsable} -> {"invalid_iat"}
    [] OTHER -> IF c.iat > now + Skew THEN {"token_issued_in_future"} ELSE {}

ValidateClaims(c, s, now) ==
  IssuerFailures(c, s) \union TenantFailures(c, s)
    \union ExpFailures(c, now) \union NbfFailures(c, now) \union IatFailures(c, now)

------------------------------------------------------------------------------
(* claims.py: what of the claims an AuthContext keeps.                     *)

Shorten(s) == IF Length[Trim[s]] > MaxChars THEN Fragment ELSE Trim[s]
ShortenOpt(s) == IF s = Absent THEN Absent ELSE Shorten(s)

\* Where in the text of q its i-th word ends, with one blank between words.
End(q, i) == MapThenSumSet(LAMBDA j : Length[q[j]], 1 .. i) + i - 1

\* The words that stand whole, with the blank after them, in the first MaxChars
\* characters, and the rest of those with the ellipsis.
Cut(q) ==
  SubSeq(q, 1, Cardinality({i \in 1 .. Len(q) : End(q, i) < MaxChars})) \o <<Fragment>>

TrimItems(q) == [i \in DOMAIN q |-> Trim[q[i]]]

SanitizeText(q) ==
  LET trimmed == TrimItems(q)
  IN  IF Words(trimmed) \subseteq {Empty} THEN NoValue
      ELSE IF End(trimmed, Len(q)) > MaxChars THEN Text(Cut(trimmed)) ELSE Text(trimmed)

\* Of a list the first MaxItems items, each by itself.
SanitizeList(q) ==
  List([i \in 1 .. IF Len(q) <= MaxItems THEN Len(q) ELSE MaxItems |-> Shorten(q[i])])

\* An over-long object is kept as a text: the beginning of its serialisation.
Sanitize(v) ==
  CASE v.form = "list" -> SanitizeList(v.items)
    [] v.form = "text" -> SanitizeText(v.items)
    [] v.form = "object" -> IF v.items = <<>> THEN v ELSE Text(v.items)

SanitizeTime(t) == IF t = Null THEN Absent ELSE t

\* `scope` is not on the allowlist, `scp` is; what is null is dropped.
SanitizeClaims(c) ==
  [aud |-> Sanitize(c.aud), scp |-> Sanitize(c.scp), scope |-> NoValue,
   roles |-> Sanitize(c.roles), iss |-> ShortenOpt(c.iss), tid |-> ShortenOpt(c.tid),
   exp |-> SanitizeTime(c.exp), nbf |-> SanitizeTime(c.nbf), iat |-> SanitizeTime(c.iat),
   decimal |-> c.decimal]

------------------------------------------------------------------------------
(* The verdict of each service on the claims it has read: 200 lets the     *)
(* handler run.                                                            *)

BffVerdict(c, s, now) ==
  IF ValidateClaims(c, s, now) # {} \/ ~RequireAudience(c, s.audiences) THEN 401
  ELSE IF ~RequireDelegated(c) \/ ~RequireScope(c, s.scopes) THEN 403 ELSE 200

UnauthorizedButTenant ==
  {"invalid_audience", "missing_claims", "missing_issuer", "invalid_issuer",
   "missing_exp", "invalid_exp", "token_expired", "missing_nbf", "invalid_nbf",
   "token_not_yet_valid", "invalid_iat", "token_issued_in_future"}

\* The failures that make the Agent answer 401 rather than 403.
Unauthorized ==
  {"invalid_audience", "missing_claims", "missing_issuer", "invalid_issuer",
   "missing_tenant", "untrusted_tenant", "missing_exp", "invalid_exp",
   "token_expired", "missing_nbf", "invalid_nbf", "token_not_yet_valid",
   "invalid_iat", "token_issued_in_future"}

AgentFailures(c, s, now) ==
  ValidateClaims(c, s, now)
    \union (IF RequireDelegated(c) THEN {} ELSE {"delegated_required"})
    \union (IF RequireAudience(c, s.audiences) THEN {} ELSE {"invalid_audience"})
    \union (IF RequireScope(c, s.scopes) THEN {} ELSE {"missing_scope"})

AgentVerdict(c, s, now) ==
  LET failures == AgentFailures(c, s, now)
  IN  IF failures = {} THEN 200
      ELSE IF failures \intersect Unauthorized # {} THEN 401 ELSE 403

\* A tool's scope when the service is configured with it; else any of those
\* the service is configured with.
McpRequiredScopes(scope, s) ==
  IF s.scopes = {} \/ scope \in s.scopes THEN {scope} ELSE s.scopes

McpVerdictAnyAudience(c, s, scope, now) ==
  LET kept == SanitizeClaims(c)
  IN  IF ValidateClaims(kept, s, now) # {} THEN 401
      ELSE IF ~RequireDelegated(kept) \/ ~RequireScope(kept, McpRequiredScopes(scope, s))
           THEN 403 ELSE 200

McpVerdictScopeFirst(c, s, scope, now) ==
  LET kept == SanitizeClaims(c)
  IN  IF ~RequireDelegated(kept) \/ ~RequireScope(kept, McpRequiredScopes(scope, s))
      THEN 403
      ELSE IF ValidateClaims(kept, s, now) # {} \/ ~RequireAudience(kept, s.audiences)
           THEN 401 ELSE 200

\* The MCP API checks the sanitized claims of its AuthContext, not the token's.
McpVerdict(c, s, scope, now) ==
  LET kept == SanitizeClaims(c)
  IN  IF ValidateClaims(kept, s, now) # {} \/ ~RequireAudience(kept, s.audiences)
      THEN 401
      ELSE IF ~RequireDelegated(kept) \/ ~RequireScope(kept, McpRequiredScopes(scope, s))
           THEN 403 ELSE 200

------------------------------------------------------------------------------
(* obo.py, exchange_on_behalf_of: the Agent's exchange outside strict mode. *)

MockExchangeAddsAudience(c, audience, scopes) ==
  LET kept == SanitizeClaims(c)
  IN  SanitizeClaims([kept EXCEPT !.aud = List(<<audience>> \o kept.aud.items),
                                  !.scp = Text(scopes)])

\* The audience and the scopes are minted as one text each, which is cut like
\* any other.
MockExchange(c, audience, scopes) ==
  LET kept == SanitizeClaims(c)
      minted == [kept EXCEPT !.aud = Text(<<audience>>),
                             !.scp = IF scopes # <<>> THEN Text(scopes) ELSE kept.scp]
  IN  SanitizeClaims(minted)

------------------------------------------------------------------------------
(* agent_obo.py, MockAgentSidecarClient: a second set of checks on an      *)
(* inbound token, of the co-located sidecar, with a clock of its own and   *)
(* conversions of its own.                                                 *)

SidecarAcceptsAnyTenant(c, blueprint, tenants, now) ==
  /\ c.aud = Text(<<blueprint>>)
  /\ Parsed(c.exp) /\ ~c.decimal /\ c.exp >= now
  /\ c.scp # NoValue

\* No skew, no nbf, no iat, no issuer.  The audience must be the very string,
\* not a list that holds it, int() must read exp, and any truthy scp will do.
SidecarAccepts(c, blueprint, tenants, now) ==
  /\ c.aud = Text(<<blueprint>>)
  /\ c.tid \in tenants
  /\ Parsed(c.exp) /\ ~c.decimal /\ c.exp >= now
  /\ c.scp # NoValue

\* SidecarConfig raises for a blank blueprint: there is no sidecar then.
SidecarVerdict(c, blueprint, tenants, now) ==
  IF blueprint # Absent /\ SidecarAccepts(c, blueprint, tenants, now) THEN 200 ELSE 401

\* downstream_api looks at the audience once more, and at nothing else.
SidecarExchanges(c, blueprint) == blueprint # Absent /\ c.aud = Text(<<blueprint>>)

==============================================================================
