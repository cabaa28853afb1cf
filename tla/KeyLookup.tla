------------------------------ MODULE KeyLookup ------------------------------
(***************************************************************************)
(* What a signing-key lookup promises its callers, whatever the cache      *)
(* behind it does: a request thread asks for a `kid`, and later gets the   *)
(* key, a "kid not found" error, or a fetch error.                         *)
(*                                                                         *)
(*   - a key it hands out is one the identity provider publishes, or       *)
(*     published less than MaxAge before the call;                         *)
(*   - it denies a kid only if the provider does not publish it, or began  *)
(*     to publish it no earlier than MaxLag before the call;               *)
(*   - it reports a fetch error only while the endpoint is down.           *)
(*                                                                         *)
(* JwksCache implements this specification; see KeyLookupOfCache there.    *)
(***************************************************************************)
EXTENDS Integers

CONSTANTS
  Threads,   \* request threads of one service process
  Kids,      \* key identifiers
  MaxAge,    \* how long after its retirement a key may still be handed out
  MaxLag,    \* how long after its publication a kid may still be denied
  MaxTime    \* bound of the clock

VARIABLES
  now,          \* monotonic clock
  jwks,         \* kids the provider publishes
  publishedAt,  \* kid -> when it was last added to the JWKS
  retiredAt,    \* kid -> when it was last withdrawn from the JWKS
  up,           \* does the JWKS endpoint answer?
  kid,          \* thread -> kid it asks for
  since,        \* thread -> when it asked
  phase         \* thread -> progress of its call

vars == <<now, jwks, publishedAt, retiredAt, up, kid, since, phase>>
provider == <<jwks, publishedAt, retiredAt, up>>

Phases == {"idle", "asked", "key", "unknown", "failed"}

Init ==
  /\ now \in Nat
  /\ jwks \in SUBSET Kids
  /\ publishedAt = [k \in Kids |-> 0]
  /\ retiredAt = [k \in Kids |-> 0]
  /\ up \in BOOLEAN
  /\ kid \in [Threads -> Kids]
  /\ since = [t \in Threads |-> 0]
  /\ phase = [t \in Threads |-> "idle"]

Tick ==
  /\ now < MaxTime
  /\ now' = now + 1
  /\ UNCHANGED <<provider, kid, since, phase>>

Publish(k) ==
  /\ jwks' = jwks \union {k}
  /\ publishedAt' = [publishedAt EXCEPT ![k] = now]
  /\ UNCHANGED <<now, retiredAt, up, kid, since, phase>>

Retire(k) ==
  /\ jwks' = jwks \ {k}
  /\ retiredAt' = [retiredAt EXCEPT ![k] = now]
  /\ UNCHANGED <<now, publishedAt, up, kid, since, phase>>

Switch ==
  /\ up' = ~up
  /\ UNCHANGED <<now, jwks, publishedAt, retiredAt, kid, since, phase>>

Ask(t, k) ==
  /\ phase[t] # "asked"
  /\ kid' = [kid EXCEPT ![t] = k]
  /\ since' = [since EXCEPT ![t] = now]
  /\ phase' = [phase EXCEPT ![t] = "asked"]
  /\ UNCHANGED <<now, provider>>

Answer(t, a) ==
  /\ phase[t] = "asked"
  /\ \/ /\ a = "key"
        /\ \/ kid[t] \in jwks
           \/ retiredAt[kid[t]] >= since[t] - MaxAge
     \/ /\ a = "unknown"
        /\ \/ kid[t] \notin jwks
           \/ publishedAt[kid[t]] >= since[t] - MaxLag
     \/ /\ a = "failed"
        /\ ~up
  /\ phase' = [phase EXCEPT ![t] = a]
  /\ UNCHANGED <<now, provider, kid, since>>

Next ==
  \/ Tick
  \/ \E k \in Kids : Publish(k) \/ Retire(k)
  \/ Switch
  \/ \E t \in Threads :
       \/ \E k \in Kids : Ask(t, k)
       \/ \E a \in Phases : Answer(t, a)

Spec == Init /\ [][Next]_vars

==============================================================================
