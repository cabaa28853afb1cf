-------------------------- MODULE MCTokenVerdicts --------------------------
(* Tokens with every kind of claim: absent, null, right, wrong, padded with *)
(* blanks, blank, a list, a text, an object, longer than sanitize_claims   *)
(* keeps.  Values are four characters long: two of them are a text of nine. *)
EXTENDS TokenVerdicts, TLC

MCStrings ==
  {"api", "mcp", "read", " read ", "write", "issuer", "tenant", " tenant ", "other",
   "lengthy", "", "..."}
MCTrim ==
  [s \in MCStrings |-> CASE s = " tenant " -> "tenant" [] s = " read " -> "read" [] OTHER -> s]
MCLength ==
  [s \in MCStrings |-> CASE s = "" -> 0 [] s \in {"lengthy", "..."} -> 11 [] OTHER -> 4]

Object(q) == [form |-> "object", items |-> q]

\* Every list, text and object, with times that are good, that have a null iat
\* or that only the guards can read.
ListTokens ==
  [aud : {NoValue, Text(<<"api">>), Text(<<"mcp">>), Text(<<"lengthy">>), List(<<"api">>),
          List(<<"other", "other", "api">>), Object(<<"...">>)},
   scp : {NoValue, Text(<<>>), Text(<<"write">>), Text(<<"other", "read">>),
          Text(<<"read", "other", "write">>), List(<<"other", " read ">>),
          List(<<"read", "other", "write">>), Object(<<>>), Object(<<"write", "...">>)},
   scope : {NoValue, Text(<<"write">>)},
   roles : {NoValue, Text(<<"other">>)},
   iss : {Absent, "issuer", "other"},
   tid : {Absent, "tenant", " tenant ", "other"},
   exp : {1}, nbf : {0}, iat : {Absent, Null}, decimal : BOOLEAN]

\* Every time.
TimeTokens ==
  [aud : {Text(<<"api">>)}, scp : {Text(<<"read">>), List(<<"read", "write">>)},
   scope : {NoValue}, roles : {NoValue}, iss : {"issuer"}, tid : {"tenant", "other"},
   exp : {Absent, Null, Unparsable, 1}, nbf : {Absent, Null, Unparsable, 0, 2},
   iat : {Absent, Null, Unparsable, 2}, decimal : {FALSE}]

MCTokens == ListTokens \union TimeTokens

\* Guards that are off in mock mode, guards that strict mode may find off or
\* still to be filled in ("other" is a placeholder).
Env(mode, guards, url, chained, obo) ==
  [mode |-> mode, guards |-> guards, jwksUrl |-> url, blueprint |-> "api",
   chained |-> chained, endpoint |-> "api", obo |-> obo]

MCEnvironments ==
  {Env("mock", g, "other", FALSE, {}) :
     g \in [issuer : {"issuer"}, tenants : {{}, {"tenant"}},
           audiences : {{"api"}}, scopes : {{}, {"read"}}]} \union
  {Env("strict", g, u, c, o) :
     g \in [issuer : {Absent, "issuer"}, tenants : {{}, {"other"}, {"other", "tenant"}},
           audiences : {{}, {"other"}, {"api"}}, scopes : {{}, {"read"}}],
     u \in {"other", "read"}, c \in BOOLEAN, o \in {{}, OboFields}}

MCDownstreamScopes == <<"read", "write", "other">>

============================================================================
