------------------------------ MODULE JwksCache ------------------------------
(***************************************************************************)
(* The JWKS key cache of identity_lab_auth/jwks.py, shared by the request  *)
(* threads of one service process.                                         *)
(*                                                                         *)
(* auth_settings.py keeps one JwksCache per URL (lru_cache), and FastAPI   *)
(* runs the synchronous dependencies that call it in a thread pool: any    *)
(* number of threads are inside get_key at once, and no lock protects      *)
(* `_cache` and `_fetched_at`, which _refresh assigns one after the other. *)
(* Each step below is one such read or write, or one message of the HTTP   *)
(* fetch; between two of them other threads, the identity provider and the *)
(* clock may move.                                                         *)
(***************************************************************************)
EXTENDS Integers

CONSTANTS
  Threads,       \* threads of the service's pool
  Kids,          \* key identifiers that tokens name
  SigningKids,   \* those of them the provider may publish
  TTL,           \* ttl_seconds
  RefreshBound,  \* most ticks one _refresh takes: the fetch timeout bounds it
  BootTimes,     \* values of time.monotonic() when the process starts
  MaxTime        \* bound of the clock

ASSUME ConstantsAssumption ==
  /\ SigningKids \subseteq Kids
  /\ TTL \in Nat
  /\ RefreshBound \in Nat
  /\ BootTimes \subseteq Nat
  /\ MaxTime \in Nat

VARIABLES
  now,          \* time.monotonic()
  jwks,         \* kids in the document the provider serves
  publishedAt,  \* kid -> when it was last added to that document
  retiredAt,    \* kid -> when it was last withdrawn from it
  up,           \* does the JWKS endpoint answer a fetch?
  cache,        \* _cache: the kids it holds a key for
  fetchedAt,    \* _fetched_at
  pc,           \* thread -> where its get_key call stands
  kid,          \* thread -> argument of that call
  retry,        \* thread -> past the kid-miss branch of that call?
  calledAt,     \* thread -> when _is_stale read the clock in that call
  startedAt,    \* thread -> when its current _refresh began
  response      \* thread -> kids of the document its last fetch returned

vars == <<now, jwks, publishedAt, retiredAt, up, cache, fetchedAt,
          pc, kid, retry, calledAt, startedAt, response>>
provider == <<jwks, publishedAt, retiredAt, up>>
shared == <<cache, fetchedAt>>
local == <<pc, kid, retry, calledAt, startedAt, response>>

Answered == {"idle", "key", "unknown", "failed"}
Refreshing == {"sent", "received", "stamping"}
Locations == Answered \union Refreshing \union {"lookup"}

TypeOK ==
  /\ now \in Nat
  /\ jwks \in SUBSET SigningKids
  /\ publishedAt \in [Kids -> Nat]
  /\ retiredAt \in [Kids -> Nat]
  /\ up \in BOOLEAN
  /\ cache \subseteq SigningKids
  /\ fetchedAt \in Nat
  /\ pc \in [Threads -> Locations]
  /\ kid \in [Threads -> Kids]
  /\ retry \in [Threads -> BOOLEAN]
  /\ calledAt \in [Threads -> Nat]
  /\ startedAt \in [Threads -> Nat]
  /\ response \in [Threads -> SUBSET SigningKids]

Init ==
  /\ now \in BootTimes
  /\ jwks \in SUBSET SigningKids
  /\ publishedAt = [k \in Kids |-> 0]
  /\ retiredAt = [k \in Kids |-> 0]
  /\ up \in BOOLEAN
  /\ cache = {}
  /\ fetchedAt = 0
  /\ pc = [t \in Threads |-> "idle"]
  /\ kid \in [Threads -> Kids]
  /\ retry = [t \in Threads |-> FALSE]
  /\ calledAt = [t \in Threads |-> 0]
  /\ startedAt = [t \in Threads |-> 0]
  /\ response = [t \in Threads |-> {}]

------------------------------------------------------------------------------
(* The surroundings: the clock and the identity provider.                  *)

\* Time passes, but no _refresh outlives its bound.
Tick ==
  /\ now < MaxTime
  /\ \A t \in Threads : pc[t] \in Refreshing => now < startedAt[t] + RefreshBound
  /\ now' = now + 1
  /\ UNCHANGED <<provider, shared, local>>

\* Key rotation at the provider: a kid enters or leaves the served document.
Publish(k) ==
  /\ k \notin jwks
  /\ jwks' = jwks \union {k}
  /\ publishedAt' = [publishedAt EXCEPT ![k] = now]
  /\ UNCHANGED <<now, retiredAt, up, shared, local>>

Retire(k) ==
  /\ k \in jwks
  /\ jwks' = jwks \ {k}
  /\ retiredAt' = [retiredAt EXCEPT ![k] = now]
  /\ UNCHANGED <<now, publishedAt, up, shared, local>>

\* The endpoint breaks (refused, error status, time-out, no JSON) or recovers.
Switch ==
  /\ up' = ~up
  /\ UNCHANGED <<now, jwks, publishedAt, retiredAt, shared, local>>

------------------------------------------------------------------------------
(* One get_key call.                                                       *)

IsStaleNever == FALSE

IsStale == (now - fetchedAt) > TTL

\* The call ends with answer a and its local variables go.
Answer(t, a) ==
  /\ pc' = [pc EXCEPT ![t] = a]
  /\ retry' = [retry EXCEPT ![t] = FALSE]
  /\ startedAt' = [startedAt EXCEPT ![t] = 0]
  /\ response' = [response EXCEPT ![t] = {}]

\* get_key(k) starts: a stale cache is refreshed first.
Call(t, k) ==
  /\ pc[t] \in Answered
  /\ kid' = [kid EXCEPT ![t] = k]
  /\ calledAt' = [calledAt EXCEPT ![t] = now]
  /\ retry' = [retry EXCEPT ![t] = FALSE]
  /\ IF IsStale
     THEN /\ pc' = [pc EXCEPT ![t] = "sent"]
          /\ startedAt' = [startedAt EXCEPT ![t] = now]
     ELSE /\ pc' = [pc EXCEPT ![t] = "lookup"]
          /\ UNCHANGED startedAt
  /\ UNCHANGED <<now, provider, shared, response>>

\* The endpoint answers the GET: the document is as of this moment.
Receive(t) ==
  /\ pc[t] = "sent"
  /\ up
  /\ response' = [response EXCEPT ![t] = jwks]
  /\ pc' = [pc EXCEPT ![t] = "received"]
  /\ UNCHANGED <<now, provider, shared, kid, retry, calledAt, startedAt>>

FailServingCache(t) ==
  /\ pc[t] = "sent"
  /\ ~up
  /\ pc' = [pc EXCEPT ![t] = "lookup"]
  /\ UNCHANGED <<now, provider, shared, kid, retry, calledAt, startedAt, response>>

\* The GET or raise_for_status raises: the call ends, the cache is untouched.
Fail(t) ==
  /\ pc[t] = "sent"
  /\ ~up
  /\ Answer(t, "failed")
  /\ UNCHANGED <<now, provider, shared, kid, calledAt>>

\* self._cache = {...}: the whole dictionary is replaced.
Store(t) ==
  /\ pc[t] = "received"
  /\ cache' = response[t]
  /\ pc' = [pc EXCEPT ![t] = "stamping"]
  /\ UNCHANGED <<now, provider, fetchedAt, kid, retry, calledAt, startedAt, response>>

\* self._fetched_at = time.monotonic(), whoever stored the cache meanwhile.
Stamp(t) ==
  /\ pc[t] = "stamping"
  /\ fetchedAt' = now
  /\ pc' = [pc EXCEPT ![t] = "lookup"]
  /\ startedAt' = [startedAt EXCEPT ![t] = 0]
  /\ UNCHANGED <<now, provider, cache, kid, retry, calledAt, response>>

LookupWithoutRetry(t) ==
  /\ pc[t] = "lookup"
  /\ Answer(t, IF kid[t] \in cache THEN "key" ELSE "unknown")
  /\ UNCHANGED <<now, provider, shared, kid, calledAt>>

LookupRetryForever(t) ==
  /\ pc[t] = "lookup"
  /\ \/ /\ kid[t] \in cache
        /\ Answer(t, "key")
     \/ /\ kid[t] \notin cache
        /\ pc' = [pc EXCEPT ![t] = "sent"]
        /\ startedAt' = [startedAt EXCEPT ![t] = now]
        /\ UNCHANGED <<retry, response>>
  /\ UNCHANGED <<now, provider, shared, kid, calledAt>>

\* key = self._cache.get(kid): return it, refresh once on a miss, then raise.
Lookup(t) ==
  /\ pc[t] = "lookup"
  /\ \/ /\ kid[t] \in cache
        /\ Answer(t, "key")
     \/ /\ kid[t] \notin cache
        /\ ~retry[t]
        /\ pc' = [pc EXCEPT ![t] = "sent"]
        /\ retry' = [retry EXCEPT ![t] = TRUE]
        /\ startedAt' = [startedAt EXCEPT ![t] = now]
        /\ UNCHANGED response
     \/ /\ kid[t] \notin cache
        /\ retry[t]
        /\ Answer(t, "unknown")
  /\ UNCHANGED <<now, provider, shared, kid, calledAt>>

Step(t) == Receive(t) \/ Fail(t) \/ Store(t) \/ Stamp(t) \/ Lookup(t)

Next ==
  \/ Tick
  \/ \E k \in SigningKids : Publish(k) \/ Retire(k)
  \/ Switch
  \/ \E t \in Threads : Step(t) \/ \E k \in Kids : Call(t, k)

Spec == Init /\ [][Next]_vars

\* A started call keeps running: the pool schedules its thread, and the fetch
\* ends, with a response or at its time-out.
FairSpec == Spec /\ \A t \in Threads : WF_vars(Step(t))

------------------------------------------------------------------------------
(* What get_key promises.                                                  *)

\* A key get_key returns is one the provider still publishes, or withdrew no
\* longer ago than the TTL and two refreshes before the call: one refresh for
\* the age of the document when _fetched_at is stamped, one more because
\* another thread's older document may be stored between a thread's store and
\* its stamp.
FreshKey ==
  \A t \in Threads : pc[t] = "key" =>
    \/ kid[t] \in jwks
    \/ retiredAt[kid[t]] >= calledAt[t] - TTL - 2 * RefreshBound

\* A kid is reported "not found after refresh" only if the provider does not
\* publish it or began to within one refresh of the call: a rotated key is
\* usable at once, without waiting for the TTL, whatever the other threads do.
RotatedKeyUsable ==
  \A t \in Threads : pc[t] = "unknown" =>
    \/ kid[t] \notin jwks
    \/ publishedAt[kid[t]] >= calledAt[t] - RefreshBound

\* Every call ends: no thread refreshes for ever, not even for a kid that no
\* document holds.
CallsEnd == \A t \in Threads : (pc[t] \notin Answered) ~> (pc[t] \in Answered)

------------------------------------------------------------------------------
(* Why FreshKey and RotatedKeyUsable hold: every set of kids the service   *)
(* holds is, kid by kid, what the provider served at some recent moment.   *)

\* Each kid of doc was still published at time x or later, and each kid
\* missing from it was not yet published at time x or later.
ServedSince(doc, x) ==
  /\ \A k \in doc : k \in jwks \/ retiredAt[k] >= x
  /\ \A k \in Kids \ doc : k \notin jwks \/ publishedAt[k] >= x

\* Nothing is dated in the future, and a refresh keeps to its bound.
TimesInOrder ==
  /\ fetchedAt <= now
  /\ \A t \in Threads :
       /\ calledAt[t] <= now
       /\ pc[t] \in Refreshing =>
            calledAt[t] <= startedAt[t] /\ now <= startedAt[t] + RefreshBound
       /\ pc[t] \in Refreshing => startedAt[t] <= now

\* The age of the cache, seen from _fetched_at, from a thread that has stored
\* but not stamped, and from a thread about to look up.
CacheAge ==
  /\ ServedSince(cache, fetchedAt - 2 * RefreshBound)
  /\ \A t \in Threads :
       /\ pc[t] = "received" => ServedSince(response[t], startedAt[t])
       /\ pc[t] = "stamping" => ServedSince(cache, startedAt[t] - RefreshBound)
       /\ pc[t] = "lookup" =>
            ServedSince(cache, calledAt[t] - TTL - 2 * RefreshBound)
       /\ pc[t] = "lookup" /\ retry[t] =>
            ServedSince(cache, calledAt[t] - RefreshBound)

\* The inductive invariant.
IInv == TypeOK /\ TimesInOrder /\ CacheAge /\ FreshKey /\ RotatedKeyUsable

------------------------------------------------------------------------------
\* get_key implements the lookup its callers rely on.
KeyLookupOfCache ==
  INSTANCE KeyLookup WITH
    MaxAge <- TTL + 2 * RefreshBound,
    MaxLag <- RefreshBound,
    since <- calledAt,
    phase <- [t \in Threads |-> IF pc[t] \in Answered THEN pc[t] ELSE "asked"]

ImplementsKeyLookup == KeyLookupOfCache!Spec

==============================================================================
