---------------------------- MODULE IdentityChain ----------------------------
(***************************************************************************)
(* One POST /chat/session and the chain it starts: the BFF's handler calls *)
(* the Agent Execution Service, whose handler calls the MCP protected API, *)
(* each with the credentials its auth mode gives it.  Requests share no    *)
(* state but the key cache (JwksCache), so one stands for all of them.     *)
(*                                                                         *)
(* The handlers run in three processes.  An httpx time-out ends the wait,  *)
(* not the handler waited for: it goes on, and its late answer is for      *)
(* nobody.  Any process may die at any moment (a restart, a scale-in).     *)
(***************************************************************************)
EXTENDS TokenGuards

CONSTANTS
  UserTokens,  \* claims of the tokens users hold
  Fixtures,    \* claims of the fixture files of mock mode
  Config,      \* service -> what it requires of a token
  Tool,        \* scope of the MCP route
  OboScopes,   \* scopes the exchanges ask for
  Lifetime,    \* longest life of a token the identity provider mints
  MaxTime,     \* bound of the clock
  NoToken      \* no Authorization header, no fixture

Services == {"bff", "agent", "mcp"}
Modes == {"disabled", "mock", "strict"}
Resources == Config["agent"].audiences \union Config["mcp"].audiences

\* A header holds a token and, as far as the model knows, who put it there.
Sent == [by : {"client", "bff", "agent"}, token : Claims]
Headers == Sent \union {NoToken}

\* Outside strict mode the Agent sends the literal "obo-token".
Stub == [by |-> "stub"]

ASSUME ChainAssumption ==
  /\ UserTokens \subseteq Claims
  /\ Fixtures \subseteq Claims
  /\ Config \in [Services -> Settings]
  /\ OboScopes \in Seq(Strings)
  /\ Lifetime \in Nat \ {0}
  /\ MaxTime \in Nat
  /\ NoToken \notin Claims /\ NoToken \notin Sent /\ NoToken # Stub

VARIABLES
  now,         \* the clock all services and the provider read
  mode,        \* AUTH_MODE of the deployment
  chained,     \* the services that call on: CHAT_SESSION_CHAIN_ENABLED of the
               \* BFF, MCP_CHAIN_ENABLED of the Agent
  resource,    \* service -> the API whose scopes its exchange asks for
  fixture,     \* service -> fixture it reads in mock mode
  userToken,   \* the client's bearer token
  bff,         \* where the BFF's handler stands
  agent,       \* where the Agent's handler stands
  mcp,         \* where the MCP API's handler stands
  toAgent,     \* Authorization header of the call to the Agent
  toMcp,       \* Authorization header of the call to the MCP API
  answer,      \* what the client got
  authorised   \* services that have authorised the request (their spans say so)

vars == <<now, mode, chained, resource, fixture, userToken, bff, agent, mcp,
          toAgent, toMcp, answer, authorised>>
deployment == <<mode, chained, resource, fixture>>

Handling == {"auth", "handler", "exchange", "call", "wait"}

TypeOK ==
  /\ now \in Nat
  /\ mode \in Modes
  /\ chained \subseteq {"bff", "agent"}
  /\ resource \in [{"bff", "agent"} -> Resources]
  /\ fixture \in [Services -> Fixtures \union {NoToken}]
  /\ userToken \in UserTokens \union {NoToken}
  /\ bff \in Handling \union {"idle", "done"}
  /\ agent \in Handling \union {"idle", "ok", "error", "dead"}
  /\ mcp \in {"idle", "auth", "ok", "error", "dead"}
  /\ toAgent \in Headers
  /\ toMcp \in Headers \union {Stub}
  /\ answer \in {"none", "session", "denied", "bad_gateway", "broken"}
  /\ authorised \subseteq Services

Init ==
  /\ now = 0
  /\ mode \in Modes
  /\ chained \in SUBSET {"bff", "agent"}
  /\ resource \in [{"bff", "agent"} -> Resources]
  /\ \/ /\ mode = "mock"
        /\ fixture \in [Services -> Fixtures \union {NoToken}]
     \/ /\ mode # "mock"
        /\ fixture = [s \in Services |-> NoToken]
  /\ userToken \in UserTokens \union {NoToken}
  /\ bff = "idle" /\ agent = "idle" /\ mcp = "idle"
  /\ toAgent = NoToken /\ toMcp = NoToken
  /\ answer = "none"
  /\ authorised = {}

Tick ==
  /\ now < MaxTime
  /\ now' = now + 1
  /\ UNCHANGED <<deployment, userToken, bff, agent, mcp, toAgent, toMcp, answer, authorised>>

------------------------------------------------------------------------------
(* Authentication, the same in the three services up to their verdicts.    *)

DecodeAcceptsExpired(c, s) ==
  /\ Parsed(c.exp) /\ ~c.decimal
  /\ Parsed(c.nbf) /\ c.nbf <= now
  /\ c.iat = Absent \/ (Parsed(c.iat) /\ c.iat <= now)
  /\ c.iss = s.issuer
  /\ Items(c.aud) \intersect s.audiences # {}

\* jwks.py, validate_strict: jwt.decode with no leeway, on top of which the
\* guards' skew has no effect.
DecodeAccepts(c, s) ==
  /\ Parsed(c.exp) /\ ~c.decimal /\ now < c.exp
  /\ Parsed(c.nbf) /\ c.nbf <= now
  /\ c.iat = Absent \/ (Parsed(c.iat) /\ c.iat <= now)
  /\ c.iss = s.issuer
  /\ Items(c.aud) \intersect s.audiences # {}

\* The claims a service reads: nothing of the request in mock mode, where the
\* calls between services carry no fixture header.
ClaimsRead(service, header) ==
  IF mode = "mock" THEN fixture[service] ELSE header

Verdict(service, c) ==
  CASE service = "bff" -> BffVerdict(c, Config["bff"], now)
    [] service = "agent" -> AgentVerdict(c, Config["agent"], now)
    [] service = "mcp" -> McpVerdict(c, Config["mcp"], Tool, now)

Admits(service, header) ==
  \/ mode = "disabled"
  \/ LET c == ClaimsRead(service, header)
     IN  /\ c # NoToken
         /\ mode = "strict" => DecodeAccepts(c, Config[service])
         /\ Verdict(service, c) = 200

\* In strict mode a token may be refused for want of the provider's keys.
MayRefuse(service, header) == mode = "strict" \/ ~Admits(service, header)

------------------------------------------------------------------------------
(* The identity provider's on-behalf-of grant.                             *)

Mint(c, audience, exp) ==
  [aud |-> Text(<<audience>>), scp |-> Text(OboScopes), scope |-> NoValue,
   roles |-> NoValue, iss |-> c.iss, tid |-> c.tid, exp |-> exp, nbf |-> now,
   iat |-> now, decimal |-> FALSE]

\* It takes a live assertion only.
Mintable(c, audience) == {Mint(c, audience, exp) : exp \in
                            IF now < c.exp THEN (now + 1) .. (now + Lifetime) ELSE {}}

------------------------------------------------------------------------------
(* The BFF.                                                                *)

Answer(a) == bff' = "done" /\ answer' = a

Request ==
  /\ bff = "idle"
  /\ bff' = "auth"
  /\ UNCHANGED <<now, deployment, userToken, agent, mcp, toAgent, toMcp, answer, authorised>>

BffAuthenticate ==
  /\ bff = "auth"
  /\ \/ /\ Admits("bff", userToken)
        /\ bff' = "handler"
        /\ authorised' = authorised \union {"bff"}
        /\ UNCHANGED answer
     \/ /\ MayRefuse("bff", userToken)
        /\ Answer("denied")
        /\ UNCHANGED authorised
  /\ UNCHANGED <<now, deployment, userToken, agent, mcp, toAgent, toMcp>>

BffHandleForwarding ==
  /\ bff = "handler"
  /\ \/ /\ "bff" \notin chained
        /\ Answer("session")
        /\ UNCHANGED toAgent
     \/ /\ "bff" \in chained
        /\ bff' = "call"
        /\ toAgent' = IF userToken = NoToken THEN NoToken
                      ELSE [by |-> "client", token |-> userToken]
        /\ UNCHANGED answer
  /\ UNCHANGED <<now, deployment, userToken, agent, mcp, toMcp, authorised>>

\* create_chat_session up to the first call: the session is issued at once if
\* the chain is off; strict mode replaces the inbound header, the other modes
\* pass it on.
BffHandle ==
  /\ bff = "handler"
  /\ \/ /\ "bff" \notin chained
        /\ Answer("session")
        /\ UNCHANGED toAgent
     \/ /\ "bff" \in chained
        /\ mode = "strict"
        /\ bff' = "exchange"
        /\ UNCHANGED <<toAgent, answer>>
     \/ /\ "bff" \in chained
        /\ mode # "strict"
        /\ bff' = "call"
        /\ toAgent' = IF userToken = NoToken THEN NoToken
                      ELSE [by |-> "client", token |-> userToken]
        /\ UNCHANGED answer
  /\ UNCHANGED <<now, deployment, userToken, agent, mcp, toMcp, authorised>>

BffExchange ==
  /\ bff = "exchange"
  /\ \/ \E c \in Mintable(userToken, resource["bff"]) :
          /\ toAgent' = [by |-> "bff", token |-> c]
          /\ bff' = "call"
          /\ UNCHANGED answer
     \/ /\ Answer("bad_gateway")
        /\ UNCHANGED toAgent
  /\ UNCHANGED <<now, deployment, userToken, agent, mcp, toMcp, authorised>>

\* httpx.post: the Agent starts handling the call, or cannot be reached.
BffCall ==
  /\ bff = "call"
  /\ \/ /\ bff' = "wait"
        /\ agent' = "auth"
        /\ UNCHANGED answer
     \/ /\ Answer("bad_gateway")
        /\ UNCHANGED agent
  /\ UNCHANGED <<now, deployment, userToken, mcp, toAgent, toMcp, authorised>>

BffGiveUpNever == FALSE

\* The time-out passes or the connection breaks.
BffGiveUp ==
  /\ bff = "wait"
  /\ Answer("bad_gateway")
  /\ UNCHANGED <<now, deployment, userToken, agent, mcp, toAgent, toMcp, authorised>>

BffReceiveAnyStatus ==
  /\ bff = "wait"
  /\ agent \in {"ok", "error"}
  /\ Answer("session")
  /\ UNCHANGED <<now, deployment, userToken, agent, mcp, toAgent, toMcp, authorised>>

\* The BFF refuses a status of 400 or more alone.  The Agent's routes answer no
\* 3xx, so an error is every answer of theirs but 200.
BffReceive ==
  /\ bff = "wait"
  /\ agent \in {"ok", "error"}
  /\ Answer(IF agent = "ok" THEN "session" ELSE "bad_gateway")
  /\ UNCHANGED <<now, deployment, userToken, agent, mcp, toAgent, toMcp, authorised>>

BffDie ==
  /\ bff \in Handling
  /\ Answer("broken")
  /\ UNCHANGED <<now, deployment, userToken, agent, mcp, toAgent, toMcp, authorised>>

------------------------------------------------------------------------------
(* The Agent Execution Service.                                            *)

AgentAuthenticate ==
  /\ agent = "auth"
  /\ LET header == IF toAgent = NoToken THEN NoToken ELSE toAgent.token
     IN  \/ /\ Admits("agent", header)
            /\ agent' = "handler"
            /\ authorised' = authorised \union {"agent"}
         \/ /\ MayRefuse("agent", header)
            /\ agent' = "error"
            /\ UNCHANGED authorised
  /\ UNCHANGED <<now, deployment, userToken, bff, mcp, toAgent, toMcp, answer>>

\* _invoke_response up to the exchange.  In disabled mode the context is of no
\* token type, so nothing is exchanged and the MCP API is not called.
AgentHandle ==
  /\ agent = "handler"
  /\ \/ /\ mode = "disabled" \/ "agent" \notin chained
        /\ agent' = "ok"
        /\ UNCHANGED toMcp
     \/ /\ mode = "mock" /\ "agent" \in chained
        /\ agent' = "call"
        /\ toMcp' = Stub
     \/ /\ mode = "strict" /\ "agent" \in chained
        /\ agent' = "exchange"
        /\ UNCHANGED toMcp
  /\ UNCHANGED <<now, deployment, userToken, bff, mcp, toAgent, answer, authorised>>

AgentExchange ==
  /\ agent = "exchange"
  /\ \/ \E c \in Mintable(toAgent.token, resource["agent"]) :
          /\ toMcp' = [by |-> "agent", token |-> c]
          /\ agent' = "call"
     \/ /\ agent' = "error"
        /\ UNCHANGED toMcp
  /\ UNCHANGED <<now, deployment, userToken, bff, mcp, toAgent, answer, authorised>>

AgentCall ==
  /\ agent = "call"
  /\ \/ agent' = "wait" /\ mcp' = "auth"
     \/ agent' = "error" /\ UNCHANGED mcp
  /\ UNCHANGED <<now, deployment, userToken, bff, toAgent, toMcp, answer, authorised>>

AgentGiveUpNever == FALSE

AgentGiveUp ==
  /\ agent = "wait"
  /\ agent' = "error"
  /\ UNCHANGED <<now, deployment, userToken, bff, mcp, toAgent, toMcp, answer, authorised>>

\* Any answer below 400 with a JSON object is taken; an unreadable body is not.
AgentReceive ==
  /\ agent = "wait"
  /\ mcp \in {"ok", "error"}
  /\ \/ mcp = "ok" /\ agent' = "ok"
     \/ agent' = "error"
  /\ UNCHANGED <<now, deployment, userToken, bff, mcp, toAgent, toMcp, answer, authorised>>

AgentDie ==
  /\ agent \in Handling
  /\ agent' = "dead"
  /\ UNCHANGED <<now, deployment, userToken, bff, mcp, toAgent, toMcp, answer, authorised>>

------------------------------------------------------------------------------
(* The MCP protected API: POST /tools/authorization-check.                 *)

McpAuthenticate ==
  /\ mcp = "auth"
  /\ LET header == IF toMcp = Stub THEN NoToken ELSE toMcp.token
     IN  \/ /\ Admits("mcp", header)
            /\ mcp' = "ok"
            /\ authorised' = authorised \union {"mcp"}
         \/ /\ MayRefuse("mcp", header)
            /\ mcp' = "error"
            /\ UNCHANGED authorised
  /\ UNCHANGED <<now, deployment, userToken, bff, agent, toAgent, toMcp, answer>>

McpDie ==
  /\ mcp = "auth"
  /\ mcp' = "dead"
  /\ UNCHANGED <<now, deployment, userToken, bff, agent, toAgent, toMcp, answer, authorised>>

------------------------------------------------------------------------------
BffStep == BffAuthenticate \/ BffHandle \/ BffExchange \/ BffCall \/ BffGiveUp \/ BffReceive
AgentStep ==
  AgentAuthenticate \/ AgentHandle \/ AgentExchange \/ AgentCall \/ AgentGiveUp \/ AgentReceive

Next ==
  \/ Tick \/ Request
  \/ BffStep \/ BffDie
  \/ AgentStep \/ AgentDie
  \/ McpAuthenticate \/ McpDie

Spec == Init /\ [][Next]_vars

\* Handlers keep running, and no wait outlives its time-out: while one waits,
\* its answer or its time-out comes.
FairSpec ==
  Spec /\ WF_vars(BffStep) /\ WF_vars(AgentStep) /\ WF_vars(McpAuthenticate)

------------------------------------------------------------------------------
(* What the chain promises.                                                *)

\* The services a session needs in this deployment.
Required ==
  {"bff"} \union
  (IF "bff" \notin chained THEN {}
   ELSE {"agent"} \union
        (IF "agent" \in chained /\ mode # "disabled" THEN {"mcp"} ELSE {}))

\* The user's own token never gets to the MCP API, in strict mode not even to
\* the Agent; nor does one hop's token to the next.
InboundTokenStays ==
  /\ toMcp # NoToken => toMcp.by \in {"agent", "stub"}
  /\ mode = "strict" /\ toAgent # NoToken => toAgent.by = "bff"
  /\ mode = "strict" /\ toMcp # NoToken => toMcp.by = "agent"

\* A refused client leaves no trace behind the BFF.
RefusalStopsAtBff == answer = "denied" => agent = "idle" /\ mcp = "idle" /\ authorised = {}

\* Delegation expires: the Agent authorises a request no later than one token
\* lifetime after the user's token has expired, the MCP API no later than two.
DelegationExpires ==
  [][mode = "strict" =>
       /\ "agent" \in authorised' \ authorised => now < userToken.exp + Lifetime
       /\ "mcp" \in authorised' \ authorised => now < userToken.exp + 2 * Lifetime]_vars

\* Every request is answered, whatever hangs or dies behind the BFF.
EveryRequestAnswered == (bff = "auth") ~> (answer # "none")

\* No handler is left running for a caller that has given up on it.
EveryHandlerEnds == (agent = "auth" \/ mcp = "auth") ~> (agent \notin Handling /\ mcp # "auth")

------------------------------------------------------------------------------
(* Why it holds: how far each handler has come bounds the others and says  *)
(* who has authorised the request.                                         *)

BffPlace ==
  /\ answer = "none" <=> bff # "done"
  /\ bff \in {"idle", "auth"} => authorised = {}
  /\ bff \in {"handler", "exchange", "call", "wait"} => "bff" \in authorised
  /\ bff \in {"exchange", "call", "wait"} => "bff" \in chained
  /\ bff = "exchange" => mode = "strict"
  /\ bff \in {"idle", "auth", "handler", "exchange", "call"} => agent = "idle"

AgentPlace ==
  /\ agent \in {"idle", "auth"} => "agent" \notin authorised
  /\ agent # "idle" => {"bff"} \subseteq authorised /\ "bff" \in chained
  /\ agent \in {"handler", "exchange", "call", "wait", "ok"} => "agent" \in authorised
  /\ agent \in {"exchange", "call", "wait"} => "agent" \in chained /\ mode # "disabled"
  /\ agent = "exchange" => mode = "strict"
  /\ agent \in {"idle", "auth", "handler", "exchange", "call"} => mcp = "idle"
  /\ agent = "ok" /\ "agent" \in chained /\ mode # "disabled" => "mcp" \in authorised

McpPlace ==
  /\ mcp \in {"idle", "auth"} => "mcp" \notin authorised
  /\ mcp # "idle" => {"bff", "agent"} \subseteq authorised
  /\ mcp = "ok" => "mcp" \in authorised

AnswerPlace ==
  /\ answer = "session" => Required \subseteq authorised
  /\ RefusalStopsAtBff

\* In strict mode a header that has been sent holds a token of the sender's
\* exchange, no more than a lifetime younger than the assertion for it.
Minted(header, sender, limit) ==
  /\ header \in Sent /\ header.by = sender
  /\ header.token.exp \in Int /\ header.token.exp < limit

Tokens ==
  mode = "strict" =>
    /\ bff \in {"handler", "exchange", "call", "wait"} \/ agent # "idle" =>
         userToken # NoToken /\ userToken.exp \in Int
    /\ bff \in {"call", "wait"} \/ agent # "idle" =>
         Minted(toAgent, "bff", userToken.exp + Lifetime)
    /\ agent \in {"call", "wait"} \/ mcp # "idle" =>
         Minted(toMcp, "agent", userToken.exp + 2 * Lifetime)

\* The inductive invariant.
IInv ==
  /\ TypeOK
  /\ BffPlace /\ AgentPlace /\ McpPlace /\ AnswerPlace
  /\ InboundTokenStays /\ Tokens

------------------------------------------------------------------------------
\* The chain is a gate before the session.
Gate ==
  INSTANCE SessionGate WITH
    required <- Required,
    answer <- IF answer \in {"bad_gateway", "broken"} THEN "failed" ELSE answer

ImplementsSessionGate == Gate!Spec

==============================================================================
