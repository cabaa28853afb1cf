------------------------- MODULE TokenVerdictsProofs -------------------------
(***************************************************************************)
(* How the verdicts of the three services relate, for every token, every   *)
(* configuration and every time.                                           *)
(***************************************************************************)
EXTENDS TokenVerdicts, FiniteSetTheorems, TLAPS

(* Every failure validate_claims reports is one the Agent answers 401 for. *)
LEMMA FailuresAreUnauthorized ==
  ASSUME NEW c, NEW s, NEW t
  PROVE  ValidateClaims(c, s, t) \subseteq Unauthorized
<1>1. IssuerFailures(c, s) \subseteq Unauthorized
  BY DEF IssuerFailures, Unauthorized
<1>2. TenantFailures(c, s) \subseteq Unauthorized
  BY DEF TenantFailures, Unauthorized
<1>3. ExpFailures(c, t) \subseteq Unauthorized
  BY DEF ExpFailures, Unauthorized
<1>4. NbfFailures(c, t) \subseteq Unauthorized
  BY DEF NbfFailures, Unauthorized
<1>5. IatFailures(c, t) \subseteq Unauthorized
  BY DEF IatFailures, Unauthorized
<1>. QED BY <1>1, <1>2, <1>3, <1>4, <1>5 DEF ValidateClaims

(* The BFF's early returns and the Agent's collected failures come to the  *)
(* same status.                                                            *)
LEMMA SameStatus ==
  ASSUME NEW c, NEW s, NEW t
  PROVE  BffVerdict(c, s, t) = AgentVerdict(c, s, t)
<1>. DEFINE V == ValidateClaims(c, s, t)
            A == IF RequireAudience(c, s.audiences) THEN {} ELSE {"invalid_audience"}
            D == IF RequireDelegated(c) THEN {} ELSE {"delegated_required"}
            P == IF RequireScope(c, s.scopes) THEN {} ELSE {"missing_scope"}
<1>1. AgentFailures(c, s, t) = V \union D \union A \union P
  BY DEF AgentFailures
<1>2. V \subseteq Unauthorized
  BY FailuresAreUnauthorized
<1>3. A \subseteq Unauthorized /\ (A = {} <=> RequireAudience(c, s.audiences))
  BY DEF Unauthorized
<1>4. /\ D \intersect Unauthorized = {}
      /\ D = {} <=> RequireDelegated(c)
  BY DEF Unauthorized
<1>5. /\ P \intersect Unauthorized = {}
      /\ P = {} <=> RequireScope(c, s.scopes)
  BY DEF Unauthorized
<1>. HIDE DEF V, A, D, P
<1>6. V \union D \union A \union P = {} <=> V = {} /\ A = {} /\ D = {} /\ P = {}
  OBVIOUS
<1>7. (V \union D \union A \union P) \intersect Unauthorized = {} <=> V = {} /\ A = {}
  BY <1>2, <1>3, <1>4, <1>5
<1>8. /\ V = ValidateClaims(c, s, t)
      /\ BffVerdict(c, s, t) =
           IF V # {} \/ ~(A = {}) THEN 401
           ELSE IF ~(D = {}) \/ ~(P = {}) THEN 403 ELSE 200
  BY <1>3, <1>4, <1>5 DEF BffVerdict, V
<1>9. AgentVerdict(c, s, t) =
        IF V \union D \union A \union P = {} THEN 200
        ELSE IF (V \union D \union A \union P) \intersect Unauthorized # {} THEN 401 ELSE 403
  BY <1>1 DEF AgentVerdict
<1>. QED BY <1>6, <1>7, <1>8, <1>9

------------------------------------------------------------------------------
(* A cut text has the words of the text, and the end of the cut one.       *)
LEMMA CutWords ==
  ASSUME NEW q \in Seq(Strings)
  PROVE  Cut(q) \in Seq(Strings) /\ Words(Cut(q)) \subseteq Words(q) \union {Fragment}
<1>. DEFINE S == {i \in 1 .. Len(q) : End(q, i) < MaxChars}
            n == Cardinality(S)
<1>1. n \in Nat /\ n <= Len(q)
  <2>1. IsFiniteSet(1 .. Len(q)) /\ Cardinality(1 .. Len(q)) = Len(q)
    <3>1. Len(q) \in Nat
      OBVIOUS
    <3>. QED BY <3>1, FS_Interval
  <2>2. S \subseteq 1 .. Len(q)
    OBVIOUS
  <2>. HIDE DEF S
  <2>3. IsFiniteSet(S) /\ Cardinality(S) <= Cardinality(1 .. Len(q))
    BY <2>1, <2>2, FS_Subset
  <2>. QED BY <2>1, <2>3, FS_CardinalityType
<1>2. Cut(q) = SubSeq(q, 1, n) \o <<Fragment>>
  BY DEF Cut
<1>. HIDE DEF n
<1>3. SubSeq(q, 1, n) \in Seq(Strings) /\ Len(SubSeq(q, 1, n)) = n
  BY <1>1
<1>4. \A i \in 1 .. n : SubSeq(q, 1, n)[i] = q[i] /\ i \in DOMAIN q
  BY <1>1
<1>. DEFINE p == SubSeq(q, 1, n)
<1>5. p \in Seq(Strings) /\ Len(p) = n /\ \A i \in 1 .. n : p[i] \in Words(q)
  BY <1>3, <1>4 DEF Words
<1>. HIDE DEF p
<1>6. Fragment \in Strings
  BY GuardAssumption
<1>7. p \o <<Fragment>> \in Seq(Strings)
  BY <1>5, <1>6
<1>8. Words(p \o <<Fragment>>) \subseteq Words(q) \union {Fragment}
  <2>1. DOMAIN (p \o <<Fragment>>) = 1 .. (n + 1)
    BY <1>5, <1>6
  <2>2. \A i \in 1 .. (n + 1) : (p \o <<Fragment>>)[i] = IF i \in 1 .. n THEN p[i] ELSE Fragment
    BY <1>5, <1>6
  <2>. QED BY <1>5, <2>1, <2>2 DEF Words
<1>. QED BY <1>2, <1>7, <1>8 DEF p

(* What sanitizing keeps of a list or a text is some of its items, trimmed, *)
(* and perhaps the end of a cut one; an object may become the words of its *)
(* serialisation.                                                          *)
LEMMA SanitizeItems ==
  ASSUME NEW v \in Value
  PROVE  /\ v.form # "object" =>
              Items(Sanitize(v)) \subseteq Items(TrimValue(v)) \union {Fragment}
         /\ v.form = "object" => Items(Sanitize(v)) \subseteq Words(v.items)
<1>1. v = [form |-> v.form, items |-> v.items] /\ v.items \in Seq(Strings)
  BY DEF Value
<1>. DEFINE q == v.items
            m == TrimItems(q)
<1>2. m \in Seq(Strings) /\ DOMAIN m = DOMAIN q /\ Len(m) = Len(q)
  <2>1. m = [i \in 1 .. Len(q) |-> Trim[q[i]]]
    BY <1>1 DEF TrimItems
  <2>2. \A i \in 1 .. Len(q) : Trim[q[i]] \in Strings
    BY <1>1, GuardAssumption
  <2>. QED BY <1>1, <2>1, <2>2
<1>3. TrimValue(v).form = v.form /\ TrimValue(v).items = m
  BY <1>1 DEF TrimValue
<1>4. CASE v.form = "list"
  <2>1. Sanitize(v) = SanitizeList(q)
    BY <1>4 DEF Sanitize
  <2>. DEFINE w == SanitizeList(q).items
  <2>2. Items(Sanitize(v)) = Words(w) \ {Empty}
    BY <2>1 DEF SanitizeList, List, Items
  <2>3. /\ DOMAIN w \subseteq DOMAIN q
        /\ \A i \in DOMAIN w : w[i] = Shorten(q[i])
    BY <1>1, GuardAssumption DEF SanitizeList, List
  <2>4. \A i \in DOMAIN w : w[i] = Fragment \/ w[i] = m[i]
    BY <2>3 DEF Shorten, TrimItems
  <2>5. Words(w) \subseteq Words(m) \union {Fragment}
    BY <1>2, <2>3, <2>4 DEF Words
  <2>6. Items(TrimValue(v)) = Words(m) \ {Empty}
    BY <1>3, <1>4 DEF Items
  <2>. QED BY <1>4, <2>2, <2>5, <2>6
<1>5. CASE v.form = "text"
  <2>1. Sanitize(v) = SanitizeText(q)
    BY <1>5 DEF Sanitize
  <2>2. Items(TrimValue(v)) = Words(m) \ {Empty}
    BY <1>3, <1>5 DEF Items
  <2>3. \/ SanitizeText(q) = NoValue
        \/ SanitizeText(q) = Text(Cut(m))
        \/ SanitizeText(q) = Text(m)
    BY DEF SanitizeText
  <2>4. Items(NoValue) = {}
    BY DEF Items, NoValue, List, Words
  <2>5. Items(Text(m)) = Words(m) \ {Empty}
    BY DEF Items, Text
  <2>6. Items(Text(Cut(m))) \subseteq (Words(m) \ {Empty}) \union {Fragment}
    <3>1. Items(Text(Cut(m))) = Words(Cut(m)) \ {Empty}
      BY DEF Items, Text
    <3>. QED BY <1>2, <3>1, CutWords
  <2>. HIDE DEF m, q
  <2>7. Items(SanitizeText(q)) \subseteq (Words(m) \ {Empty}) \union {Fragment}
    BY <2>3, <2>4, <2>5, <2>6
  <2>. QED BY <1>5, <2>1, <2>2, <2>7
<1>6. CASE v.form = "object"
  <2>1. Sanitize(v) = IF q = <<>> THEN v ELSE Text(q)
    BY <1>6 DEF Sanitize
  <2>2. Items(Sanitize(v)) \subseteq Words(q)
    BY <1>6, <2>1 DEF Items, Text
  <2>. QED BY <1>6, <2>2
<1>. QED BY <1>4, <1>5, <1>6 DEF Value

(* Settings as strict or mock services have them: none is "" or ends in    *)
(* the ellipsis of a cut string.                                           *)
Sound(s) ==
  /\ {Empty, Fragment} \intersect (s.tenants \union s.audiences \union s.scopes) = {}
  /\ TrimOpt(s.issuer) \notin {Empty, Fragment}

(* What validate_claims and require_audience do not refuse of the          *)
(* sanitized claims, they do not refuse of the token's.                    *)
LEMMA ChecksStand ==
  ASSUME NEW c \in Claims, NEW s \in Settings, Sound(s), NEW t \in Int,
         ValidateClaims(SanitizeClaims(c), s, t) = {},
         RequireAudience(SanitizeClaims(c), s.audiences)
  PROVE  ValidateClaims(Told(c), s, t) = {} /\ RequireAudience(Told(c), s.audiences)
<1>. DEFINE k == SanitizeClaims(c)
            u == Told(c)
<1>1. /\ u.iss = TrimOpt(c.iss) /\ u.tid = TrimOpt(c.tid)
      /\ u.exp = c.exp /\ u.nbf = c.nbf /\ u.iat = SanitizeTime(c.iat)
      /\ u.aud = TrimValue(c.aud)
  BY DEF Told, Claims
<1>2. /\ k.iss = ShortenOpt(c.iss) /\ k.tid = ShortenOpt(c.tid)
      /\ k.exp = SanitizeTime(c.exp) /\ k.nbf = SanitizeTime(c.nbf)
      /\ k.iat = SanitizeTime(c.iat) /\ k.aud = Sanitize(c.aud)
  BY DEF SanitizeClaims
<1>3. /\ c.iss \in OptString /\ c.tid \in OptString
      /\ c.exp \in Time /\ c.nbf \in Time /\ c.aud \in Audience
  BY DEF Claims
<1>. HIDE DEF k, u
<1>4. /\ IssuerFailures(k, s) = {} /\ TenantFailures(k, s) = {}
      /\ ExpFailures(k, t) = {} /\ NbfFailures(k, t) = {} /\ IatFailures(k, t) = {}
  BY DEF ValidateClaims, k
<1>5. \A x \in OptString : ShortenOpt(x) = TrimOpt(x) \/ ShortenOpt(x) = Fragment
  BY DEF ShortenOpt, Shorten, TrimOpt, OptString
<1>6. IssuerFailures(u, s) = {}
  <2>1. s.issuer = Absent \/ TrimOpt(k.iss) = TrimOpt(s.issuer)
    BY <1>4 DEF IssuerFailures
  <2>2. TrimOpt(Fragment) = Fragment /\ Fragment # Absent
    BY GuardAssumption DEF TrimOpt
  <2>3. s.issuer = Absent \/ k.iss = u.iss
    BY <2>1, <2>2, <1>1, <1>2, <1>3, <1>5 DEF Sound
  <2>. QED BY <2>1, <2>3 DEF IssuerFailures
<1>7. TenantFailures(u, s) = {}
  <2>1. s.tenants = {} \/ k.tid \in s.tenants
    BY <1>4 DEF TenantFailures
  <2>2. s.tenants = {} \/ k.tid = u.tid
    BY <2>1, <1>1, <1>2, <1>3, <1>5 DEF Sound
  <2>. QED BY <2>1, <2>2 DEF TenantFailures
<1>8. ExpFailures(u, t) = {}
  <2>1. c.exp # Null
    BY <1>2, <1>4 DEF SanitizeTime, ExpFailures
  <2>. QED BY <2>1, <1>1, <1>2, <1>4 DEF SanitizeTime, ExpFailures
<1>9. NbfFailures(u, t) = {}
  <2>1. c.nbf # Null
    BY <1>2, <1>4 DEF SanitizeTime, NbfFailures
  <2>. QED BY <2>1, <1>1, <1>2, <1>4 DEF SanitizeTime, NbfFailures
<1>10. IatFailures(u, t) = {}
  BY <1>1, <1>2, <1>4 DEF IatFailures
<1>11. RequireAudience(u, s.audiences)
  <2>1. c.aud \in Value /\ (c.aud.form = "object" => Words(c.aud.items) \subseteq {Fragment})
    BY <1>3 DEF Audience
  <2>2. Items(k.aud) \subseteq Items(u.aud) \union {Fragment}
    BY <2>1, <1>1, <1>2, SanitizeItems
  <2>3. s.audiences = {} \/ Items(k.aud) \intersect s.audiences # {}
    BY DEF RequireAudience, RequireAny, k
  <2>. QED BY <2>2, <2>3 DEF RequireAudience, RequireAny, Sound
<1>. QED BY <1>6, <1>7, <1>8, <1>9, <1>10, <1>11 DEF ValidateClaims, u

(* And the scopes of a list or a text that were found in the sanitized     *)
(* claims are in the token's.                                              *)
LEMMA ScopesStand ==
  ASSUME NEW c \in Claims, c.scp.form # "object", NEW r, r # {},
         {Empty, Fragment} \intersect r = {},
         RequireScope(SanitizeClaims(c), r)
  PROVE  RequireDelegated(Told(c)) /\ RequireScope(Told(c), r)
<1>. DEFINE k == SanitizeClaims(c)
            u == Told(c)
<1>1. c.scp \in Value
  BY DEF Claims
<1>2. k.scp = Sanitize(c.scp) /\ k.scope = NoValue /\ u.scp = TrimValue(c.scp)
  BY DEF SanitizeClaims, Told, Claims
<1>3. Scopes(k) \intersect r # {}
  BY DEF RequireScope, RequireAny
<1>. HIDE DEF k, u
<1>4. Items(NoValue) = {}
  BY DEF Items, NoValue, List, Words
<1>5. Scopes(k) = Items(Sanitize(c.scp))
  BY <1>2, <1>3, <1>4 DEF Scopes
<1>6. Items(u.scp) \intersect r # {}
  BY <1>1, <1>2, <1>3, <1>5, SanitizeItems
<1>7. Scopes(u) = Items(u.scp)
  BY <1>4, <1>6 DEF Scopes
<1>8. RequireDelegated(u) /\ RequireScope(u, r)
  BY <1>6, <1>7 DEF RequireDelegated, TokenType, RequireScope, RequireAny
<1>. QED BY <1>8 DEF u

(* What the MCP API lets through, the BFF's checks let through, but for    *)
(* the scopes of an object.                                                *)
LEMMA WidensAsNamed ==
  ASSUME NEW c \in Claims, NEW s \in Settings, Sound(s), NEW t \in Int,
         NEW tool, tool \notin {Empty, Fragment},
         McpVerdict(c, s, tool, t) = 200,
         NEW v, v = BffVerdict(Told(c), [s EXCEPT !.scopes = McpRequiredScopes(tool, s)], t)
  PROVE  v = 200 \/ (v = 403 /\ c.scp.form = "object")
<1>. DEFINE k == SanitizeClaims(c)
            u == Told(c)
            r == McpRequiredScopes(tool, s)
            z == [s EXCEPT !.scopes = r]
<1>1. z.issuer = s.issuer /\ z.tenants = s.tenants /\ z.audiences = s.audiences /\ z.scopes = r
  BY DEF Settings
<1>2. /\ ValidateClaims(k, s, t) = {} /\ RequireAudience(k, s.audiences)
      /\ RequireDelegated(k) /\ RequireScope(k, r)
  BY DEF McpVerdict
<1>3. r # {} /\ {Empty, Fragment} \intersect r = {}
  BY DEF McpRequiredScopes, Sound
<1>4. ValidateClaims(u, s, t) = {} /\ RequireAudience(u, s.audiences)
  BY <1>2, ChecksStand
<1>5. c.scp.form # "object" => RequireDelegated(u) /\ RequireScope(u, r)
  BY <1>2, <1>3, ScopesStand
<1>. HIDE DEF k, u, r, z
<1>6. ValidateClaims(u, z, t) = {} /\ RequireAudience(u, z.audiences)
  BY <1>1, <1>4 DEF ValidateClaims, IssuerFailures, TenantFailures
<1>7. BffVerdict(u, z, t) \in {200, 403}
  BY <1>6 DEF BffVerdict
<1>8. c.scp.form # "object" => BffVerdict(u, z, t) = 200
  BY <1>1, <1>5, <1>6 DEF BffVerdict
<1>. QED BY <1>7, <1>8 DEF u, z, r

------------------------------------------------------------------------------
(* Minted claims are refused by a service of other audiences.              *)
LEMMA ExchangeConfined ==
  ASSUME TypeOK, settings.audiences # {}, DownstreamAudience \notin settings.audiences
  PROVE  BffVerdict(MockExchange(claims, DownstreamAudience, DownstreamScopes),
                    settings, now) = 401
<1>. DEFINE k == MockExchange(claims, DownstreamAudience, DownstreamScopes)
            v == Text(<<DownstreamAudience>>)
<1>1. k.aud = Sanitize(v)
  BY DEF MockExchange, SanitizeClaims
<1>2. /\ v \in Value /\ v.form = "text"
      /\ Items(TrimValue(v)) \subseteq {DownstreamAudience}
  <2>1. <<DownstreamAudience>> \in Seq(Strings)
    BY VerdictAssumption
  <2>2. v \in Value /\ v.form = "text" /\ v.items = <<DownstreamAudience>>
    BY <2>1 DEF Value, Text
  <2>3. TrimValue(v).form = "text" /\ TrimValue(v).items = TrimItems(<<DownstreamAudience>>)
    BY DEF TrimValue, Text
  <2>4. Words(TrimItems(<<DownstreamAudience>>)) \subseteq {DownstreamAudience}
    BY VerdictAssumption DEF Words, TrimItems
  <2>. QED BY <2>2, <2>3, <2>4 DEF Items
<1>. HIDE DEF v, k
<1>3. Items(k.aud) \subseteq {DownstreamAudience, Fragment}
  BY <1>1, <1>2, SanitizeItems
<1>4. Fragment \notin settings.audiences
  BY VerdictAssumption DEF TypeOK, Required, settings
<1>5. ~RequireAudience(k, settings.audiences)
  BY <1>3, <1>4 DEF RequireAudience, RequireAny
<1>6. BffVerdict(k, settings, now) = 401
  BY <1>5 DEF BffVerdict
<1>. QED BY <1>6 DEF k

------------------------------------------------------------------------------
(* The part of the BFF's verdict that no clock enters.                     *)
Timeless(c, s) ==
  /\ IssuerFailures(c, s) = {} /\ TenantFailures(c, s) = {}
  /\ RequireAudience(c, s.audiences)
  /\ RequireDelegated(c) /\ RequireScope(c, s.scopes)

(* When the exp guard is silent.                                           *)
LEMMA ExpInTime ==
  ASSUME NEW c, c.exp \in Time, NEW t \in Int
  PROVE  ExpFailures(c, t) = {} <=> c.exp \in Int /\ t - Skew <= c.exp
<1>1. Skew \in Int
  BY GuardAssumption
<1>. QED BY <1>1, GuardAssumption DEF ExpFailures, Time

(* When a verdict is 200.                                                  *)
LEMMA VerdictInTime ==
  ASSUME NEW c \in Claims, NEW s \in Settings, NEW t \in Int
  PROVE  BffVerdict(c, s, t) = 200 <=>
           /\ Timeless(c, s)
           /\ c.exp \in Int /\ t - Skew <= c.exp
           /\ c.nbf \in Int /\ c.nbf <= t + Skew
           /\ c.iat = Absent \/ (c.iat \in Int /\ c.iat <= t + Skew)
<1>1. c.exp \in Time /\ c.nbf \in Time /\ c.iat \in Time /\ Skew \in Int
  BY GuardAssumption DEF Claims
<1>2. ExpFailures(c, t) = {} <=> c.exp \in Int /\ t - Skew <= c.exp
  BY <1>1, ExpInTime
<1>3. NbfFailures(c, t) = {} <=> c.nbf \in Int /\ c.nbf <= t + Skew
  <2>1. CASE c.nbf \in {Absent, Null}
    BY <2>1, GuardAssumption DEF NbfFailures
  <2>2. CASE c.nbf = Unparsable
    BY <2>2, GuardAssumption DEF NbfFailures
  <2>3. CASE c.nbf \in Int
    <3>1. NbfFailures(c, t) = IF t + Skew < c.nbf THEN {"token_not_yet_valid"} ELSE {}
      BY <2>3, GuardAssumption DEF NbfFailures
    <3>. QED BY <3>1, <2>3, <1>1
  <2>. QED BY <1>1, <2>1, <2>2, <2>3 DEF Time
<1>4. IatFailures(c, t) = {} <=> c.iat = Absent \/ (c.iat \in Int /\ c.iat <= t + Skew)
  <2>1. CASE c.iat = Absent
    BY <2>1, GuardAssumption DEF IatFailures
  <2>2. CASE c.iat \in {Null, Unparsable}
    BY <2>2, GuardAssumption DEF IatFailures
  <2>3. CASE c.iat \in Int
    <3>1. IatFailures(c, t) = IF c.iat > t + Skew THEN {"token_issued_in_future"} ELSE {}
      BY <2>3, GuardAssumption DEF IatFailures
    <3>. QED BY <3>1, <2>3, <1>1, GuardAssumption
  <2>. QED BY <1>1, <2>1, <2>2, <2>3 DEF Time
<1>5. BffVerdict(c, s, t) = 200 <=>
        /\ Timeless(c, s)
        /\ ExpFailures(c, t) = {} /\ NbfFailures(c, t) = {} /\ IatFailures(c, t) = {}
  BY DEF BffVerdict, ValidateClaims, Timeless
<1>. QED BY <1>2, <1>3, <1>4, <1>5

(* A step of the clock changes a verdict for the reasons stated.           *)
LEMMA IntervalStep ==
  ASSUME TypeOK, [Next]_vars
  PROVE  /\ Bff # 200 /\ Bff' = 200 =>
              \/ claims.nbf > now + Skew
              \/ claims.iat # Absent /\ claims.iat > now + Skew
         /\ Bff = 200 /\ Bff' # 200 => claims.exp < now' - Skew
<1>. DEFINE c == claims
            s == settings
<1>1. c \in Claims /\ s \in Settings /\ now \in Int
  BY VerdictAssumption DEF TypeOK, Environment, settings
<1>2. /\ claims' = claims /\ env' = env /\ settings' = settings
      /\ now' = now + 1 \/ now' = now
  BY DEF Next, Tick, vars, settings
<1>3. now' \in Int /\ now <= now'
  BY <1>1, <1>2
<1>4. Bff = BffVerdict(c, s, now) /\ Bff' = BffVerdict(c, s, now')
  BY <1>2 DEF Bff, BffVerdict, ValidateClaims, ExpFailures, NbfFailures, IatFailures, settings
<1>. HIDE DEF c, s
<1>5. Bff = 200 <=>
           /\ Timeless(c, s)
           /\ c.exp \in Int /\ now - Skew <= c.exp
           /\ c.nbf \in Int /\ c.nbf <= now + Skew
           /\ c.iat = Absent \/ (c.iat \in Int /\ c.iat <= now + Skew)
  BY <1>1, <1>4, VerdictInTime
<1>6. Bff' = 200 <=>
           /\ Timeless(c, s)
           /\ c.exp \in Int /\ now' - Skew <= c.exp
           /\ c.nbf \in Int /\ c.nbf <= now' + Skew
           /\ c.iat = Absent \/ (c.iat \in Int /\ c.iat <= now' + Skew)
  BY <1>1, <1>3, <1>4, VerdictInTime
<1>7. Skew \in Int
  BY GuardAssumption
<1>8. Bff # 200 /\ Bff' = 200 => c.nbf > now + Skew \/ (c.iat # Absent /\ c.iat > now + Skew)
  BY <1>1, <1>3, <1>5, <1>6, <1>7
<1>9. Bff = 200 /\ Bff' # 200 => c.exp < now' - Skew
  BY <1>1, <1>3, <1>5, <1>6, <1>7
<1>. QED BY <1>8, <1>9 DEF c

------------------------------------------------------------------------------
(* Strict settings that may start leave no guard without a list.           *)
LEMMA StrictGuards ==
  ASSUME NEW e, e.mode = "strict", BffRefusals(e) = {}
  PROVE  /\ e.guards.issuer # Absent
         /\ e.guards.tenants # {} /\ e.guards.audiences # {} /\ e.guards.scopes # {}
<1>1. StrictOffences(e) = {}
  BY DEF BffRefusals
<1>2. ~LooksLikePlaceholder(e.guards.issuer)
  BY <1>1 DEF StrictOffences
<1>3. HasNonPlaceholder(e.guards.audiences)
  BY <1>1 DEF StrictOffences
<1>4. e.guards.scopes # {}
  BY <1>1 DEF StrictOffences
<1>5. HasNonPlaceholder(e.guards.tenants)
  BY <1>1 DEF StrictOffences
<1>. QED BY <1>2, <1>3, <1>4, <1>5 DEF LooksLikePlaceholder, HasNonPlaceholder

(* With every guard on, claims that pass the checks are vouched for.       *)
LEMMA GuardsVouch ==
  ASSUME settings \in Settings, NEW c, NEW t, NEW z,
         settings.issuer # Absent, settings.tenants # {}, settings.audiences # {},
         ValidateClaims(c, settings, t) = {}, RequireAudience(c, settings.audiences),
         z \subseteq settings.scopes, z # {}, RequireScope(c, z)
  PROVE  Vouched(c)
<1>1. IssuerFailures(c, settings) = {} /\ TenantFailures(c, settings) = {}
  BY DEF ValidateClaims
<1>2. TrimOpt(c.iss) = TrimOpt(settings.issuer)
  BY <1>1 DEF IssuerFailures
<1>3. TrimOpt(settings.issuer) \in Strings
  BY GuardAssumption DEF Settings, OptString, TrimOpt
<1>4. c.iss # Absent
  BY <1>2, <1>3, GuardAssumption DEF TrimOpt
<1>5. c.tid \in settings.tenants
  BY <1>1 DEF TenantFailures
<1>6. Items(c.aud) \intersect settings.audiences # {}
  BY DEF RequireAudience, RequireAny
<1>7. Scopes(c) \intersect settings.scopes # {}
  BY DEF RequireScope, RequireAny
<1>. QED BY <1>2, <1>4, <1>5, <1>6, <1>7 DEF Vouched

(* What the sidecar accepts, the Agent refuses for what the sidecar does   *)
(* not look at only, or for an scp without a word.                         *)
LEMMA SidecarSound ==
  ASSUME NEW c \in Claims, NEW own \in Settings, NEW b, own.audiences = {b}, b # Empty,
         NEW t \in Int, SidecarAccepts(c, b, own.tenants, t)
  PROVE  AgentFailures(c, own, t) \subseteq
           SidecarBlind \union (IF WordlessScp(c) THEN {"delegated_required"} ELSE {})
<1>2. TenantFailures(c, own) = {}
  BY DEF SidecarAccepts, TenantFailures
<1>3. ExpFailures(c, t) = {}
  <2>1. c.exp \in Int /\ c.exp >= t
    BY DEF SidecarAccepts, Claims, Time, Parsed
  <2>2. ~(t - Skew > c.exp)
    BY <2>1, GuardAssumption
  <2>. QED BY <2>1, <2>2, GuardAssumption DEF ExpFailures
<1>4. RequireAudience(c, own.audiences)
  <2>1. c.aud = Text(<<b>>)
    BY DEF SidecarAccepts
  <2>2. Items(c.aud) = {b}
    BY <2>1 DEF Items, Words, Text
  <2>. QED BY <2>2 DEF RequireAudience, RequireAny
<1>5. WordlessScp(c) \/ RequireDelegated(c)
  BY DEF SidecarAccepts, WordlessScp, RequireDelegated, TokenType, Scopes
<1>6. /\ IssuerFailures(c, own) \subseteq SidecarBlind
      /\ NbfFailures(c, t) \subseteq SidecarBlind
      /\ IatFailures(c, t) \subseteq SidecarBlind
  BY DEF IssuerFailures, NbfFailures, IatFailures, SidecarBlind
<1>. QED
  BY <1>2, <1>3, <1>4, <1>5, <1>6 DEF AgentFailures, ValidateClaims, SidecarBlind

Excuse(c, own, t) ==
  \/ c.aud.form = "list" \/ c.scp = NoValue \/ own.tenants = {} \/ c.decimal
  \/ t - Skew <= c.exp /\ c.exp < t

(* And what the Agent accepts, the sidecar refuses for five reasons only.  *)
LEMMA SidecarComplete ==
  ASSUME NEW c \in Claims, NEW own \in Settings, NEW b, own.audiences = {b},
         b # Absent, NEW t \in Int, AgentVerdict(c, own, t) = 200,
         SidecarVerdict(c, b, own.tenants, t) # 200
  PROVE  Excuse(c, own, t)
<1>. SUFFICES ASSUME c.aud.form # "list", c.scp # NoValue, own.tenants # {}, ~c.decimal,
                     ~(t - Skew <= c.exp /\ c.exp < t)
              PROVE  SidecarVerdict(c, b, own.tenants, t) = 200
  BY DEF Excuse
<1>2. AgentFailures(c, own, t) = {}
  BY DEF AgentVerdict
<1>3. TenantFailures(c, own) = {} /\ ExpFailures(c, t) = {}
  BY <1>2 DEF AgentFailures, ValidateClaims
<1>4. c.tid \in own.tenants
  BY <1>3 DEF TenantFailures
<1>5. c.exp \in Int /\ t - Skew <= c.exp
  <2>1. c.exp \in Time
    BY DEF Claims
  <2>. QED BY <2>1, <1>3, ExpInTime
<1>6. c.aud = Text(<<b>>)
  <2>1. c.aud \in Audience
    BY DEF Claims
  <2>2. RequireAudience(c, own.audiences)
    BY <1>2 DEF AgentFailures
  <2>3. b \in Items(c.aud)
    BY <2>2 DEF RequireAudience, RequireAny
  <2>4. c.aud.form # "object"
    BY <2>3 DEF Items
  <2>5. c.aud.form = "text" /\ Len(c.aud.items) = 1 /\ c.aud.items \in Seq(Strings)
    BY <2>1, <2>4 DEF Audience, Value
  <2>6. b \in Words(c.aud.items)
    BY <2>3, <2>5 DEF Items
  <2>7. c.aud.items = <<b>>
    BY <2>5, <2>6 DEF Words
  <2>8. c.aud = [form |-> c.aud.form, items |-> c.aud.items]
    BY <2>1 DEF Audience, Value
  <2>. QED BY <2>5, <2>7, <2>8 DEF Text
<1>7. SidecarAccepts(c, b, own.tenants, t)
  BY <1>4, <1>5, <1>6, GuardAssumption DEF SidecarAccepts, Parsed
<1>. QED BY <1>7 DEF SidecarVerdict

------------------------------------------------------------------------------
(* The clock is an integer, and the token and the settings stay.           *)
THEOREM TypeCorrect == Spec => []TypeOK
<1>1. Init => TypeOK
  BY DEF Init, TypeOK
<1>2. TypeOK /\ [Next]_vars => TypeOK'
  BY DEF TypeOK, Next, Tick, vars
<1>. QED BY <1>1, <1>2, PTL DEF Spec

(* The BFF and the Agent answer the same status, always.                   *)
THEOREM Agreement == Spec => []GatewaysAgree
<1>1. GatewaysAgree
  BY SameStatus DEF GatewaysAgree, Bff, Agent
<1>. QED BY <1>1, PTL

(* Sanitizing first makes no difference for a plain token.                 *)
THEOREM KeptVerdict == Spec => []SanitizingKeepsVerdict
<1>1. TypeOK => SanitizingKeepsVerdict
  <2>. SUFFICES ASSUME TypeOK, Plain(claims) PROVE SanitizingKeepsVerdict
    BY DEF SanitizingKeepsVerdict
  <2>. DEFINE r == McpRequiredScopes(Tool, settings)
              z == [settings EXCEPT !.scopes = r]
  <2>1. settings \in Settings
    BY VerdictAssumption DEF TypeOK, Environment, settings
  <2>2. /\ z.issuer = settings.issuer /\ z.tenants = settings.tenants
        /\ z.audiences = settings.audiences /\ z.scopes = r
    BY <2>1 DEF Settings
  <2>. HIDE DEF z
  <2>3. ValidateClaims(claims, z, now) = ValidateClaims(claims, settings, now)
    BY <2>2 DEF ValidateClaims, IssuerFailures, TenantFailures
  <2>4. McpVerdict(claims, settings, Tool, now) = BffVerdict(claims, z, now)
    BY <2>2, <2>3 DEF McpVerdict, BffVerdict, Plain
  <2>. QED BY <2>4 DEF SanitizingKeepsVerdict, Mcp, ToolSettings, z
<1>. QED BY <1>1, TypeCorrect, PTL

(* Sanitizing first lets more through in the ways named, and in no other.  *)
THEOREM WidenedAsNamed == Spec => []SanitizingWidensAsNamed
<1>1. TypeOK => SanitizingWidensAsNamed
  <2>. SUFFICES ASSUME TypeOK, McpVerdict(claims, settings, Tool, now) = 200
                PROVE  SanitizingWidensAsNamed
    BY DEF SanitizingWidensAsNamed, Mcp
  <2>1. claims \in Claims /\ settings \in Settings /\ now \in Int
    BY VerdictAssumption DEF TypeOK, Environment, settings
  <2>2. Sound(settings)
    BY VerdictAssumption DEF TypeOK, Sound, Required, settings
  <2>3. Tool \notin {Empty, Fragment}
    BY VerdictAssumption
  <2>. DEFINE v == BffVerdict(Told(claims),
                     [settings EXCEPT !.scopes = McpRequiredScopes(Tool, settings)], now)
  <2>4. v = BffVerdict(Told(claims),
              [settings EXCEPT !.scopes = McpRequiredScopes(Tool, settings)], now)
    OBVIOUS
  <2>. HIDE DEF v
  <2>5. v = 200 \/ (v = 403 /\ claims.scp.form = "object")
    <3>. DEFINE c == claims
                s == settings
                t == now
    <3>1. /\ c \in Claims /\ s \in Settings /\ Sound(s) /\ t \in Int
          /\ McpVerdict(c, s, Tool, t) = 200
          /\ v = BffVerdict(Told(c), [s EXCEPT !.scopes = McpRequiredScopes(Tool, s)], t)
      BY <2>1, <2>2, <2>4
    <3>. HIDE DEF c, s, t
    <3>2. v = 200 \/ (v = 403 /\ c.scp.form = "object")
      BY <2>3, <3>1, WidensAsNamed
    <3>. QED BY <3>2 DEF c
  <2>. QED BY <2>4, <2>5 DEF SanitizingWidensAsNamed, ToolSettings
<1>. QED BY <1>1, TypeCorrect, PTL

(* What the exchange mints, no service of other audiences lets through.    *)
THEOREM ExchangeOnlyForMcp == Spec => []ExchangeIsConfined
<1>1. TypeOK => ExchangeIsConfined
  BY ExchangeConfined DEF ExchangeIsConfined
<1>. QED BY <1>1, TypeCorrect, PTL

(* A strict service that runs has every guard on: what it lets through was *)
(* vouched for by its configuration.                                       *)
THEOREM StrictIsArmed == Spec => []StrictArmsEveryGuard
<1>. DEFINE Inv == TypeOK /\ BffRefusals(env) = {}
<1>1. Init => Inv
  BY DEF Init, TypeOK
<1>2. Inv /\ [Next]_vars => Inv'
  BY DEF TypeOK, Next, Tick, vars
<1>3. Inv => StrictArmsEveryGuard
  <2>. SUFFICES ASSUME Inv, env.mode = "strict" PROVE StrictArmsEveryGuard
    BY DEF StrictArmsEveryGuard
  <2>1. settings \in Settings
    BY VerdictAssumption DEF TypeOK, Environment, settings
  <2>2. /\ settings.issuer # Absent /\ settings.tenants # {}
        /\ settings.audiences # {} /\ settings.scopes # {}
    BY StrictGuards DEF settings
  <2>3. ASSUME Bff = 200 PROVE Vouched(claims)
    <3>1. /\ ValidateClaims(claims, settings, now) = {}
          /\ RequireAudience(claims, settings.audiences)
          /\ RequireScope(claims, settings.scopes)
      BY <2>3 DEF Bff, BffVerdict
    <3>. QED BY <2>1, <2>2, <3>1, GuardsVouch
  <2>4. ASSUME Mcp = 200 PROVE Vouched(SanitizeClaims(claims))
    <3>. DEFINE k == SanitizeClaims(claims)
                r == McpRequiredScopes(Tool, settings)
    <3>1. /\ ValidateClaims(k, settings, now) = {}
          /\ RequireAudience(k, settings.audiences)
          /\ RequireScope(k, r)
      BY <2>4 DEF Mcp, McpVerdict
    <3>2. r \subseteq settings.scopes /\ r # {}
      BY <2>2 DEF McpRequiredScopes
    <3>. HIDE DEF k, r
    <3>3. Vouched(k)
      BY <2>1, <2>2, <3>1, <3>2, GuardsVouch
    <3>. QED BY <3>3 DEF k
  <2>. QED BY <2>3, <2>4 DEF StrictArmsEveryGuard
<1>. QED BY <1>1, <1>2, <1>3, PTL DEF Spec

(* The Agent and its sidecar differ in the ways named, and in no other.    *)
THEOREM SidecarAgreement == Spec => []SidecarAgrees
<1>1. TypeOK => SidecarAgrees
  <2>. SUFFICES ASSUME TypeOK, env.blueprint # Absent PROVE SidecarAgrees
    BY DEF SidecarAgrees
  <2>. DEFINE own == [settings EXCEPT !.audiences = {env.blueprint}]
  <2>1. claims \in Claims /\ settings \in Settings /\ now \in Int
    BY VerdictAssumption DEF TypeOK, Environment, settings
  <2>0. own.tenants = settings.tenants /\ own.audiences = {env.blueprint}
    BY <2>1 DEF Settings
  <2>4. own \in Settings
    <3>1. env.blueprint \in Strings
      BY VerdictAssumption DEF TypeOK, Environment, OptString
    <3>. QED BY <2>1, <3>1 DEF Settings
  <2>5. env.blueprint # Absent
    OBVIOUS
  <2>. HIDE DEF own
  <2>2. ASSUME Sidecar = 200
        PROVE  /\ AgentFailures(claims, own, now) \subseteq
                    SidecarBlind \union
                    (IF WordlessScp(claims) THEN {"delegated_required"} ELSE {})
               /\ SidecarExchanges(claims, env.blueprint)
    <3>0. env.blueprint # Empty
      BY VerdictAssumption DEF TypeOK
    <3>1. SidecarAccepts(claims, env.blueprint, settings.tenants, now)
      BY <2>2 DEF Sidecar, SidecarVerdict
    <3>2. SidecarExchanges(claims, env.blueprint)
      BY <3>1 DEF SidecarAccepts, SidecarExchanges
    <3>. QED BY <2>0, <2>1, <2>4, <3>0, <3>1, <3>2, SidecarSound
  <2>3. ASSUME AgentVerdict(claims, own, now) = 200, Sidecar # 200
        PROVE  \/ claims.aud.form = "list" \/ claims.scp = NoValue
               \/ settings.tenants = {} \/ claims.decimal
               \/ now - Skew <= claims.exp /\ claims.exp < now
    <3>. DEFINE b == env.blueprint
    <3>1. b # Absent /\ own.audiences = {b}
      BY <2>0, <2>5
    <3>2. SidecarVerdict(claims, b, own.tenants, now) # 200
      BY <2>0, <2>3 DEF Sidecar
    <3>3. claims \in Claims /\ now \in Int /\ own \in Settings
      BY <2>1, <2>4
    <3>. HIDE DEF b
    <3>4. Excuse(claims, own, now)
      BY <2>3, <3>1, <3>2, <3>3, SidecarComplete
    <3>. QED BY <2>0, <3>4 DEF Excuse
  <2>. QED BY <2>2, <2>3 DEF SidecarAgrees, own
<1>. QED BY <1>1, TypeCorrect, PTL

(* A token is acceptable during one interval of time.                      *)
THEOREM OneInterval == Spec => ValidityIsAnInterval
<1>1. TypeOK /\ [Next]_vars =>
        [/\ Bff # 200 /\ Bff' = 200 =>
              \/ claims.nbf > now + Skew
              \/ claims.iat # Absent /\ claims.iat > now + Skew
         /\ Bff = 200 /\ Bff' # 200 => claims.exp < now' - Skew]_vars
  BY IntervalStep
<1>. QED BY <1>1, TypeCorrect, PTL DEF Spec, ValidityIsAnInterval

==============================================================================
