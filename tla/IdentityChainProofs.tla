------------------------- MODULE IdentityChainProofs -------------------------
(***************************************************************************)
(* The chain's promises for every deployment, token and time.              *)
(***************************************************************************)
EXTENDS IdentityChain, TLAPS

(* What the identity provider mints is a token with a numeric exp.         *)
LEMMA MintType ==
  ASSUME TypeOK, NEW a \in Claims, a.exp \in Int, NEW r \in Resources,
         NEW c \in Mintable(a, r)
  PROVE  /\ c \in Claims
         /\ now < a.exp
         /\ c.exp \in Int /\ c.exp <= now + Lifetime
<1>1. /\ now \in Int /\ Lifetime \in Int /\ OboScopes \in Seq(Strings)
      /\ <<r>> \in Seq(Strings)
  BY ChainAssumption DEF TypeOK, Resources, Settings, Services
<1>2. PICK exp \in IF now < a.exp THEN (now + 1) .. (now + Lifetime) ELSE {} :
        c = Mint(a, r, exp)
  BY DEF Mintable
<1>3. now < a.exp /\ exp \in Int /\ exp <= now + Lifetime
  BY <1>1, <1>2
<1>4. c.exp = exp
  BY <1>2 DEF Mint
<1>5. c \in Claims
  <2>1. NoValue \in Value
    <3>1. <<>> \in Seq(Strings)
      OBVIOUS
    <3>. QED BY <3>1 DEF NoValue, List, Value
  <2>2. Text(OboScopes) \in Value
    BY <1>1 DEF Text, Value
  <2>3. Text(<<r>>) \in Audience
    <3>1. Text(<<r>>) \in Value
      BY <1>1 DEF Text, Value
    <3>2. Text(<<r>>).form = "text" /\ Len(Text(<<r>>).items) = 1
      BY DEF Text
    <3>. QED BY <3>1, <3>2 DEF Audience
  <2>4. now \in Time /\ exp \in Time
    BY <1>1, <1>3 DEF Time
  <2>. QED BY <1>2, <2>1, <2>2, <2>3, <2>4 DEF Mint, Claims
<1>. QED BY <1>3, <1>4, <1>5

(* A token strict mode admits has a numeric exp that has not passed.       *)
LEMMA AdmittedLives ==
  ASSUME NEW s, NEW c \in Claims \union {NoToken}, mode = "strict", Admits(s, c)
  PROVE  c \in Claims /\ c.exp \in Int /\ now < c.exp
<1>1. c # NoToken /\ DecodeAccepts(c, Config[s])
  BY DEF Admits, ClaimsRead
<1>2. c.exp \in Time
  BY <1>1 DEF Claims
<1>. QED BY <1>1, <1>2 DEF DecodeAccepts, Time, Parsed

(* Initially no handler runs.                                              *)
LEMMA InitIInv == Init => IInv
<1>. SUFFICES ASSUME Init PROVE IInv
  OBVIOUS
<1>1. TypeOK
  BY DEF Init, TypeOK, Headers
<1>2. BffPlace /\ AgentPlace /\ McpPlace /\ AnswerPlace
  BY DEF Init, BffPlace, AgentPlace, McpPlace, AnswerPlace, RefusalStopsAtBff
<1>3. InboundTokenStays /\ Tokens
  BY DEF Init, InboundTokenStays, Tokens
<1>. QED BY <1>1, <1>2, <1>3 DEF IInv

(* Every step keeps the types.                                             *)
LEMMA TypeOKStep ==
  ASSUME IInv, [Next]_vars
  PROVE  TypeOK'
<1>. USE DEF IInv
<1>1. CASE Tick
  BY <1>1 DEF Tick, deployment, TypeOK, Handling, Services

<1>2. CASE Request
  BY <1>2 DEF Request, deployment, TypeOK, Handling, Services

<1>3. CASE BffAuthenticate
  BY <1>3 DEF BffAuthenticate, Answer, deployment, TypeOK, Handling, Services

<1>4. CASE BffHandle
  <2>1. userToken # NoToken => [by |-> "client", token |-> userToken] \in Headers
    BY ChainAssumption DEF TypeOK, Headers, Sent, IInv
  <2>2. NoToken \in Headers
    BY DEF Headers
  <2>3. toAgent' \in Headers
    BY <1>4, <2>1, <2>2 DEF BffHandle, TypeOK
  <2>. QED BY <1>4, <2>3 DEF BffHandle, Answer, deployment, TypeOK, Handling

<1>5. CASE BffExchange
  <2>1. ASSUME NEW c \in Mintable(userToken, resource["bff"]),
               toAgent' = [by |-> "bff", token |-> c], mode = "strict"
        PROVE  toAgent' \in Headers
    <3>1. userToken \in Claims /\ userToken.exp \in Int
      BY <1>5, <2>1, ChainAssumption DEF BffExchange, IInv, Tokens, TypeOK
    <3>2. resource["bff"] \in Resources
      BY DEF TypeOK
    <3>3. c \in Claims
      BY <3>1, <3>2, <2>1, MintType
    <3>. QED BY <3>3, <2>1 DEF Headers, Sent
  <2>2. mode = "strict"
    BY <1>5 DEF BffExchange, IInv, BffPlace
  <2>. QED BY <1>5, <2>1, <2>2 DEF BffExchange, Answer, deployment, TypeOK, Handling

<1>6. CASE BffCall
  BY <1>6 DEF BffCall, Answer, deployment, TypeOK, Handling, Services

<1>7. CASE BffGiveUp
  BY <1>7 DEF BffGiveUp, Answer, deployment, TypeOK, Handling, Services

<1>8. CASE BffReceive
  BY <1>8 DEF BffReceive, Answer, deployment, TypeOK, Handling, Services

<1>9. CASE BffDie
  BY <1>9 DEF BffDie, Answer, deployment, TypeOK, Handling, Services

<1>10. CASE AgentAuthenticate
  BY <1>10 DEF AgentAuthenticate, deployment, TypeOK, Handling, Services

<1>11. CASE AgentHandle
  BY <1>11 DEF AgentHandle, deployment, TypeOK, Handling

<1>12. CASE AgentExchange
  <2>1. ASSUME NEW c \in Mintable(toAgent.token, resource["agent"]),
               toMcp' = [by |-> "agent", token |-> c], mode = "strict"
        PROVE  toMcp' \in Headers
    <3>1. toAgent.token \in Claims /\ toAgent.token.exp \in Int
      BY <1>12, <2>1 DEF AgentExchange, IInv, Tokens, Minted, Sent
    <3>2. resource["agent"] \in Resources
      BY DEF TypeOK
    <3>3. c \in Claims
      BY <3>1, <3>2, <2>1, MintType
    <3>. QED BY <3>3, <2>1 DEF Headers, Sent
  <2>2. mode = "strict"
    BY <1>12 DEF AgentExchange, IInv, AgentPlace
  <2>. QED BY <1>12, <2>1, <2>2 DEF AgentExchange, deployment, TypeOK, Handling

<1>13. CASE AgentCall
  BY <1>13 DEF AgentCall, deployment, TypeOK, Handling, Services

<1>14. CASE AgentGiveUp
  BY <1>14 DEF AgentGiveUp, deployment, TypeOK, Handling, Services

<1>15. CASE AgentReceive
  BY <1>15 DEF AgentReceive, deployment, TypeOK, Handling, Services

<1>16. CASE AgentDie
  BY <1>16 DEF AgentDie, deployment, TypeOK, Handling, Services

<1>17. CASE McpAuthenticate
  BY <1>17 DEF McpAuthenticate, deployment, TypeOK, Handling, Services

<1>18. CASE McpDie
  BY <1>18 DEF McpDie, deployment, TypeOK, Handling, Services

<1>19. CASE UNCHANGED vars
  BY <1>19 DEF vars, deployment, TypeOK, Handling, Services

<1>. QED BY <1>1, <1>2, <1>3, <1>4, <1>5, <1>6, <1>7, <1>8, <1>9, <1>10, <1>11, <1>12, <1>13, <1>14, <1>15, <1>16, <1>17, <1>18, <1>19
        DEF Next, BffStep, AgentStep

(* Every step keeps each handler within its place.                         *)
LEMMA PlaceStep ==
  ASSUME IInv, [Next]_vars
  PROVE  BffPlace' /\ AgentPlace' /\ McpPlace' /\ AnswerPlace'
<1>. USE DEF IInv, TypeOK, Handling, Services, BffPlace, AgentPlace, McpPlace,
             AnswerPlace, RefusalStopsAtBff, Required
<1>1. CASE Tick
  BY <1>1 DEF Tick, deployment

<1>2. CASE Request
  BY <1>2 DEF Request, deployment

<1>3. CASE BffAuthenticate
  BY <1>3 DEF BffAuthenticate, Answer, deployment

<1>4. CASE BffHandle
  BY <1>4 DEF BffHandle, Answer, deployment

<1>5. CASE BffExchange
  BY <1>5 DEF BffExchange, Answer, deployment

<1>6. CASE BffCall
  BY <1>6 DEF BffCall, Answer, deployment

<1>7. CASE BffGiveUp
  BY <1>7 DEF BffGiveUp, Answer, deployment

<1>8. CASE BffReceive
  BY <1>8 DEF BffReceive, Answer, deployment

<1>9. CASE BffDie
  BY <1>9 DEF BffDie, Answer, deployment

<1>10. CASE AgentAuthenticate
  BY <1>10 DEF AgentAuthenticate, deployment

<1>11. CASE AgentHandle
  BY <1>11 DEF AgentHandle, deployment

<1>12. CASE AgentExchange
  BY <1>12 DEF AgentExchange, deployment

<1>13. CASE AgentCall
  BY <1>13 DEF AgentCall, deployment

<1>14. CASE AgentGiveUp
  BY <1>14 DEF AgentGiveUp, deployment

<1>15. CASE AgentReceive
  BY <1>15 DEF AgentReceive, deployment

<1>16. CASE AgentDie
  BY <1>16 DEF AgentDie, deployment

<1>17. CASE McpAuthenticate
  BY <1>17 DEF McpAuthenticate, deployment

<1>18. CASE McpDie
  BY <1>18 DEF McpDie, deployment

<1>19. CASE UNCHANGED vars
  BY <1>19 DEF vars, deployment

<1>. QED BY <1>1, <1>2, <1>3, <1>4, <1>5, <1>6, <1>7, <1>8, <1>9, <1>10, <1>11, <1>12, <1>13, <1>14, <1>15, <1>16, <1>17, <1>18, <1>19
        DEF Next, BffStep, AgentStep

(* Every step sends only the token it is to send.                          *)
LEMMA TokenStep ==
  ASSUME IInv, [Next]_vars
  PROVE  InboundTokenStays' /\ Tokens'
<1>. USE DEF IInv, TypeOK, Handling, BffPlace, AgentPlace, McpPlace, InboundTokenStays, Tokens
<1>1. CASE Tick
  BY <1>1 DEF Tick, deployment

<1>2. CASE Request
  BY <1>2 DEF Request, deployment

<1>3. CASE BffAuthenticate
  <2>1. Admits("bff", userToken) /\ mode = "strict" => userToken # NoToken /\ userToken.exp \in Int
    BY AdmittedLives, ChainAssumption DEF TypeOK
  <2>. QED BY <1>3, <2>1 DEF BffAuthenticate, Answer, deployment

<1>4. CASE BffHandle
  BY <1>4 DEF BffHandle, Answer, deployment

<1>5. CASE BffExchange
  <2>1. CASE bff' = "done" /\ UNCHANGED toAgent
    BY <1>5, <2>1 DEF BffExchange, Answer, deployment
  <2>2. ASSUME NEW c \in Mintable(userToken, resource["bff"]),
               toAgent' = [by |-> "bff", token |-> c], bff' = "call"
        PROVE  InboundTokenStays' /\ Tokens'
    <3>1. /\ mode = "strict" /\ userToken \in Claims /\ userToken.exp \in Int
          /\ userToken # NoToken
          /\ agent = "idle" /\ mcp = "idle"
      BY <1>5, ChainAssumption DEF BffExchange
    <3>2. /\ c \in Claims /\ c.exp \in Int /\ c.exp <= now + Lifetime
          /\ now < userToken.exp
      BY <3>1, <2>2, MintType
    <3>3. Minted(toAgent', "bff", userToken.exp + Lifetime)
      BY <3>1, <3>2, <2>2, ChainAssumption DEF Minted, Sent
    <3>4. UNCHANGED <<mode, userToken, agent, mcp, toMcp>>
      BY <1>5 DEF BffExchange, deployment
    <3>. QED BY <3>1, <3>3, <3>4, <2>2 DEF Minted
  <2>. QED BY <1>5, <2>1, <2>2 DEF BffExchange, Answer

<1>6. CASE BffCall
  BY <1>6 DEF BffCall, Answer, deployment

<1>7. CASE BffGiveUp
  BY <1>7 DEF BffGiveUp, Answer, deployment

<1>8. CASE BffReceive
  BY <1>8 DEF BffReceive, Answer, deployment

<1>9. CASE BffDie
  BY <1>9 DEF BffDie, Answer, deployment

<1>10. CASE AgentAuthenticate
  BY <1>10 DEF AgentAuthenticate, deployment

<1>11. CASE AgentHandle
  <2>1. Stub # NoToken /\ Stub.by = "stub"
    BY ChainAssumption DEF Stub
  <2>. QED BY <1>11, <2>1 DEF AgentHandle, deployment

<1>12. CASE AgentExchange
  <2>1. CASE agent' = "error" /\ UNCHANGED toMcp
    BY <1>12, <2>1 DEF AgentExchange, deployment
  <2>2. ASSUME NEW c \in Mintable(toAgent.token, resource["agent"]),
               toMcp' = [by |-> "agent", token |-> c], agent' = "call"
        PROVE  InboundTokenStays' /\ Tokens'
    <3>1. /\ mode = "strict" /\ userToken # NoToken /\ userToken.exp \in Int
          /\ Minted(toAgent, "bff", userToken.exp + Lifetime)
          /\ mcp = "idle"
      BY <1>12 DEF AgentExchange
    <3>2. /\ toAgent.token \in Claims /\ toAgent.token.exp \in Int
          /\ toAgent.token.exp < userToken.exp + Lifetime
      BY <3>1 DEF Minted, Sent
    <3>3. /\ c \in Claims /\ c.exp \in Int /\ c.exp <= now + Lifetime
          /\ now < toAgent.token.exp
      BY <3>2, <2>2, MintType
    <3>4. Minted(toMcp', "agent", userToken.exp + 2 * Lifetime)
      BY <3>1, <3>2, <3>3, <2>2, ChainAssumption DEF Minted, Sent
    <3>5. UNCHANGED <<mode, userToken, bff, mcp, toAgent>>
      BY <1>12 DEF AgentExchange, deployment
    <3>. QED BY <3>1, <3>4, <3>5, <2>2 DEF Minted
  <2>. QED BY <1>12, <2>1, <2>2 DEF AgentExchange

<1>13. CASE AgentCall
  BY <1>13 DEF AgentCall, deployment

<1>14. CASE AgentGiveUp
  BY <1>14 DEF AgentGiveUp, deployment

<1>15. CASE AgentReceive
  BY <1>15 DEF AgentReceive, deployment

<1>16. CASE AgentDie
  BY <1>16 DEF AgentDie, deployment

<1>17. CASE McpAuthenticate
  BY <1>17 DEF McpAuthenticate, deployment

<1>18. CASE McpDie
  BY <1>18 DEF McpDie, deployment

<1>19. CASE UNCHANGED vars
  BY <1>19 DEF vars, deployment

<1>. QED BY <1>1, <1>2, <1>3, <1>4, <1>5, <1>6, <1>7, <1>8, <1>9, <1>10, <1>11, <1>12, <1>13, <1>14, <1>15, <1>16, <1>17, <1>18, <1>19
        DEF Next, BffStep, AgentStep

LEMMA IInvStep == IInv /\ [Next]_vars => IInv'
BY TypeOKStep, PlaceStep, TokenStep DEF IInv

THEOREM Inductive == Spec => []IInv
<1>. QED BY InitIInv, IInvStep, PTL DEF Spec

(* Every variable keeps to its type.                                       *)
THEOREM TypeCorrect == Spec => []TypeOK
<1>1. IInv => TypeOK
  BY DEF IInv
<1>. QED BY <1>1, Inductive, PTL

(* No service but the one it is for is sent a token.                       *)
THEOREM TokenConfined == Spec => []InboundTokenStays
<1>1. IInv => InboundTokenStays
  BY DEF IInv
<1>. QED BY <1>1, Inductive, PTL

(* A client gets a session only if every service this deployment requires  *)
(* has authorised its request.                                             *)
THEOREM SessionIsEarned == Spec => [](answer = "session" => Required \subseteq authorised)
<1>1. IInv => (answer = "session" => Required \subseteq authorised)
  BY DEF IInv, AnswerPlace
<1>. QED BY <1>1, Inductive, PTL

(* A client the BFF refuses is known to no other service.                  *)
THEOREM RefusalIsFinal == Spec => []RefusalStopsAtBff
<1>1. IInv => RefusalStopsAtBff
  BY DEF IInv, AnswerPlace
<1>. QED BY <1>1, Inductive, PTL

------------------------------------------------------------------------------
(* Who authorises, and until when.                                         *)
LEMMA ExpiryStep ==
  ASSUME IInv, [Next]_vars, mode = "strict"
  PROVE  /\ "agent" \in authorised' \ authorised => now < userToken.exp + Lifetime
         /\ "mcp" \in authorised' \ authorised => now < userToken.exp + 2 * Lifetime
<1>. USE DEF IInv
<1>1. now \in Int /\ Lifetime \in Int
  BY ChainAssumption DEF TypeOK
<1>2. CASE AgentAuthenticate
  <2>1. authorised' \subseteq authorised \union {"agent"}
    BY <1>2 DEF AgentAuthenticate
  <2>2. /\ Minted(toAgent, "bff", userToken.exp + Lifetime)
        /\ userToken.exp \in Int
    BY <1>2 DEF AgentAuthenticate, Tokens
  <2>3. toAgent # NoToken /\ toAgent.token \in Claims
    BY <2>2, ChainAssumption DEF Minted, Sent
  <2>4. "agent" \in authorised' \ authorised => Admits("agent", toAgent.token)
    BY <1>2, <2>3 DEF AgentAuthenticate
  <2>5. Admits("agent", toAgent.token) => now < toAgent.token.exp
    BY <2>3, AdmittedLives
  <2>. QED BY <1>1, <2>1, <2>2, <2>4, <2>5 DEF Minted
<1>3. CASE McpAuthenticate
  <2>1. authorised' \subseteq authorised \union {"mcp"}
    BY <1>3 DEF McpAuthenticate
  <2>2. /\ Minted(toMcp, "agent", userToken.exp + 2 * Lifetime)
        /\ userToken.exp \in Int
    BY <1>3 DEF McpAuthenticate, Tokens, McpPlace, AgentPlace
  <2>3. toMcp # Stub /\ toMcp.token \in Claims
    BY <2>2 DEF Minted, Sent, Stub
  <2>4. "mcp" \in authorised' \ authorised => Admits("mcp", toMcp.token)
    BY <1>3, <2>3 DEF McpAuthenticate
  <2>5. Admits("mcp", toMcp.token) => now < toMcp.token.exp
    BY <2>3, AdmittedLives
  <2>. QED BY <1>1, <2>1, <2>2, <2>4, <2>5 DEF Minted
<1>4. CASE BffAuthenticate
  BY <1>4 DEF BffAuthenticate
<1>5. CASE UNCHANGED authorised
  BY <1>5
<1>. QED
  BY <1>2, <1>3, <1>4, <1>5
  DEF Next, BffStep, AgentStep, vars, Tick, Request, BffHandle, BffExchange, BffCall,
      BffGiveUp, BffReceive, BffDie, AgentHandle, AgentExchange, AgentCall, AgentGiveUp,
      AgentReceive, AgentDie, McpDie

(* Authority delegated along the chain ends two lifetimes after the user's. *)
THEOREM DelegationEnds == Spec => DelegationExpires
<1>1. IInv /\ [Next]_vars =>
        [mode = "strict" =>
           /\ "agent" \in authorised' \ authorised => now < userToken.exp + Lifetime
           /\ "mcp" \in authorised' \ authorised =>
                now < userToken.exp + 2 * Lifetime]_vars
  BY ExpiryStep
<1>. QED BY <1>1, Inductive, PTL DEF Spec, DelegationExpires

------------------------------------------------------------------------------
(* Refinement: what a step of the chain is for the gate.                   *)
\* No step changes the deployment, so none changes what a session needs.
LEMMA RequiredStays == [Next]_vars => UNCHANGED Required
BY DEF Next, BffStep, AgentStep, vars, deployment, Tick, Request, BffAuthenticate,
       BffHandle, BffExchange, BffCall, BffGiveUp, BffReceive, BffDie, AgentAuthenticate,
       AgentHandle, AgentExchange, AgentCall, AgentGiveUp, AgentReceive, AgentDie,
       McpAuthenticate, McpDie, Required

(* A step that only answers the client.                                    *)
LEMMA AnswerStep ==
  ASSUME IInv, IInv', UNCHANGED <<Required, authorised>>,
         bff # "done", bff' = "done",
         answer' = "denied" => bff = "auth"
  PROVE  Gate!Open \/ Gate!Deny \/ Gate!Fail
<1>1. answer = "none" /\ answer' # "none"
  BY DEF IInv, BffPlace
<1>2. CASE answer' = "session"
  <2>1. Required \subseteq authorised
    BY <1>2 DEF IInv, AnswerPlace
  <2>. QED BY <1>1, <1>2, <2>1 DEF Gate!Open
<1>3. CASE answer' = "denied"
  <2>1. authorised = {}
    BY <1>3 DEF IInv, BffPlace
  <2>. QED BY <1>1, <1>3, <2>1 DEF Gate!Deny
<1>4. CASE answer' \in {"bad_gateway", "broken"}
  BY <1>1, <1>4 DEF Gate!Fail
<1>5. answer' \in {"none", "session", "denied", "bad_gateway", "broken"}
  BY DEF IInv, TypeOK
<1>. QED BY <1>1, <1>2, <1>3, <1>4, <1>5

(* A step in which one more service authorises the request.                *)
LEMMA AuthoriseStep ==
  ASSUME UNCHANGED <<Required, answer>>,
         NEW s \in {"bff", "agent", "mcp"}, s \notin authorised,
         s # "bff" => "bff" \in authorised, s = "mcp" => "agent" \in authorised,
         authorised' = authorised \union {s}
  PROVE  \E x \in Gate!Services : Gate!Authorise(x)
<1>1. Gate!Before(s) \subseteq authorised
  <2>1. CASE s = "bff"
    BY <2>1 DEF Gate!Before
  <2>2. CASE s = "agent"
    BY <2>2 DEF Gate!Before
  <2>3. CASE s = "mcp"
    BY <2>3 DEF Gate!Before
  <2>. QED BY <2>1, <2>2, <2>3
<1>2. Gate!Authorise(s)
  BY <1>1 DEF Gate!Authorise
<1>. QED BY <1>2 DEF Gate!Services

LEMMA StepRefinement ==
  ASSUME IInv, IInv', [Next]_vars
  PROVE  [Gate!Next]_(Gate!vars)
<1>. USE RequiredStays
<1>1. CASE BffAuthenticate
  <2>1. CASE answer' = "denied"
    <3>1. bff # "done" /\ bff' = "done" /\ bff = "auth" /\ UNCHANGED authorised
      BY <1>1, <2>1 DEF BffAuthenticate, Answer, IInv, BffPlace
    <3>. QED BY <3>1, AnswerStep DEF Gate!Next
  <2>2. CASE answer' # "denied"
    <3>1. /\ UNCHANGED answer
          /\ authorised = {} /\ authorised' = authorised \union {"bff"}
      BY <1>1, <2>2 DEF BffAuthenticate, Answer, IInv, BffPlace
    <3>. QED BY <3>1, AuthoriseStep DEF Gate!Next
  <2>. QED BY <2>1, <2>2
<1>2. CASE BffHandle \/ BffExchange \/ BffCall \/ BffGiveUp \/ BffReceive \/ BffDie
  <2>1. /\ UNCHANGED authorised
        /\ UNCHANGED answer \/ (bff # "done" /\ bff' = "done" /\ answer' # "denied")
    BY <1>2 DEF BffHandle, BffExchange, BffCall, BffGiveUp, BffReceive, BffDie, Answer,
                Handling
  <2>2. CASE UNCHANGED answer
    BY <2>1, <2>2 DEF Gate!vars
  <2>. QED BY <2>1, <2>2, AnswerStep DEF Gate!Next
<1>3. CASE AgentAuthenticate
  <2>1. UNCHANGED answer
    BY <1>3 DEF AgentAuthenticate
  <2>2. CASE UNCHANGED authorised
    BY <2>1, <2>2 DEF Gate!vars
  <2>3. CASE authorised' = authorised \union {"agent"}
    <3>1. "bff" \in authorised /\ "agent" \notin authorised
      BY <1>3 DEF AgentAuthenticate, IInv, AgentPlace
    <3>. QED BY <2>1, <2>3, <3>1, AuthoriseStep DEF Gate!Next
  <2>. QED BY <1>3, <2>2, <2>3 DEF AgentAuthenticate
<1>4. CASE McpAuthenticate
  <2>1. UNCHANGED answer
    BY <1>4 DEF McpAuthenticate
  <2>2. CASE UNCHANGED authorised
    BY <2>1, <2>2 DEF Gate!vars
  <2>3. CASE authorised' = authorised \union {"mcp"}
    <3>1. {"bff", "agent"} \subseteq authorised /\ "mcp" \notin authorised
      BY <1>4 DEF McpAuthenticate, IInv, McpPlace
    <3>. QED BY <2>1, <2>3, <3>1, AuthoriseStep DEF Gate!Next
  <2>. QED BY <1>4, <2>2, <2>3 DEF McpAuthenticate
<1>5. CASE UNCHANGED <<answer, authorised>>
  BY <1>5 DEF Gate!vars
<1>. QED
  BY <1>1, <1>2, <1>3, <1>4, <1>5
  DEF Next, BffStep, AgentStep, vars, Tick, Request, AgentHandle, AgentExchange, AgentCall,
      AgentGiveUp, AgentReceive, AgentDie, McpDie

(* The chain implements the gate.                                          *)
THEOREM Refinement == Spec => ImplementsSessionGate
<1>1. Init => Gate!Init
  BY DEF Init, Gate!Init, Required
<1>2. IInv /\ IInv' /\ [Next]_vars => [Gate!Next]_(Gate!vars)
  BY StepRefinement
<1>. QED BY <1>1, <1>2, Inductive, PTL DEF Spec, Gate!Spec, ImplementsSessionGate

------------------------------------------------------------------------------
(* A request comes to its end, in all three services.                      *)

(* The most steps a handler has still to take.                             *)
Left(place) ==
  CASE place = "idle" -> 6
    [] place = "auth" -> 5
    [] place = "handler" -> 4
    [] place = "exchange" -> 3
    [] place = "call" -> 2
    [] place = "wait" -> 1
    [] place \in {"done", "ok", "error", "dead"} -> 0

(* All that is left of a request: what its handlers have still to do,      *)
(* those not yet called included.                                          *)
StepsLeft == Left(bff) + Left(agent) + Left(mcp)

(* Left is a number.                                                       *)
LEMMA LeftType ==
  TypeOK => Left(bff) \in 0..6 /\ Left(agent) \in 0..6 /\ Left(mcp) \in 0..6
BY DEF TypeOK, Left, Handling

(* A request takes eighteen steps at most, on the way to its answer and    *)
(* after it: no service is called twice, no handler goes back, and one     *)
(* that is over, or dead, is not begun anew.                               *)
THEOREM RequestsAdvance ==
  Spec => [][/\ StepsLeft \in 0..18
             /\ StepsLeft' < StepsLeft \/ (Tick /\ StepsLeft' = StepsLeft)]_vars
<1>1. ASSUME IInv, Next
      PROVE  /\ StepsLeft \in 0..18
             /\ StepsLeft' < StepsLeft \/ (Tick /\ StepsLeft' = StepsLeft)
  <2>0. TypeOK /\ TypeOK' /\ BffPlace /\ AgentPlace
    BY <1>1, IInvStep DEF IInv
  <2>a. /\ Left(bff) \in Int /\ Left(agent) \in Int /\ Left(mcp) \in Int
        /\ Left(bff') \in Int /\ Left(agent') \in Int /\ Left(mcp') \in Int
    <3>1. Left(bff') \in Int /\ Left(agent') \in Int /\ Left(mcp') \in Int
      BY <2>0 DEF TypeOK, Left, Handling
    <3>. QED BY <2>0, <3>1, LeftType
  <2>b. StepsLeft \in 0..18
    BY <2>0, LeftType DEF StepsLeft
  <2>1. CASE Tick
    BY <2>b, <2>1 DEF Tick, StepsLeft
  <2>2. CASE \/ Request \/ BffAuthenticate \/ BffHandle \/ BffExchange
             \/ BffGiveUp \/ BffReceive \/ BffDie
    <3>1. Left(bff') < Left(bff) /\ UNCHANGED <<agent, mcp>>
      BY <2>2 DEF Request, BffAuthenticate, BffHandle, BffExchange, BffGiveUp, BffReceive, BffDie,
                  Answer, Left, Handling
    <3>. QED BY <2>a, <2>b, <3>1 DEF StepsLeft
  <2>3. CASE BffCall
    <3>1. Left(bff') < Left(bff) /\ Left(agent') <= Left(agent) /\ UNCHANGED mcp
      BY <2>0, <2>3, <2>a DEF BffCall, Answer, Left, BffPlace
    <3>. QED BY <2>a, <2>b, <3>1 DEF StepsLeft
  <2>4. CASE \/ AgentAuthenticate \/ AgentHandle \/ AgentExchange
             \/ AgentGiveUp \/ AgentReceive \/ AgentDie
    <3>1. Left(agent') < Left(agent) /\ UNCHANGED <<bff, mcp>>
      BY <2>4 DEF AgentAuthenticate, AgentHandle, AgentExchange, AgentGiveUp, AgentReceive,
                  AgentDie, Left, Handling
    <3>. QED BY <2>a, <2>b, <3>1 DEF StepsLeft
  <2>5. CASE AgentCall
    <3>1. Left(agent') < Left(agent) /\ Left(mcp') <= Left(mcp) /\ UNCHANGED bff
      BY <2>0, <2>5, <2>a DEF AgentCall, Left, AgentPlace
    <3>. QED BY <2>a, <2>b, <3>1 DEF StepsLeft
  <2>6. CASE McpAuthenticate \/ McpDie
    <3>1. Left(mcp') < Left(mcp) /\ UNCHANGED <<bff, agent>>
      BY <2>6 DEF McpAuthenticate, McpDie, Left
    <3>. QED BY <2>a, <2>b, <3>1 DEF StepsLeft
  <2>. QED BY <1>1, <2>b, <2>1, <2>2, <2>3, <2>4, <2>5, <2>6 DEF Next, BffStep, AgentStep
<1>2. IInv /\ [Next]_vars =>
        [/\ StepsLeft \in 0..18
         /\ StepsLeft' < StepsLeft \/ (Tick /\ StepsLeft' = StepsLeft)]_vars
  BY <1>1
<1>. QED BY <1>2, Inductive, PTL DEF Spec

==============================================================================
