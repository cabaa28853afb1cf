--------------------------- MODULE JwksCacheProofs ---------------------------
(***************************************************************************)
(* Proofs about JwksCache, for every set of threads and kids and every TTL *)
(* and refresh bound: the inductive invariant IInv, with it the freshness  *)
(* of returned keys and the usability of rotated ones, and the refinement  *)
(* of KeyLookup.                                                           *)
(***************************************************************************)
EXTENDS JwksCache, TLAPS

USE ConstantsAssumption

\* The age of a document may be understated.
LEMMA OlderBound ==
  ASSUME TypeOK, NEW doc \in SUBSET Kids, NEW x \in Int, NEW y \in Int, y <= x,
         ServedSince(doc, x)
  PROVE  ServedSince(doc, y)
BY DEF TypeOK, ServedSince

\* The state of a starting process satisfies the inductive invariant.
LEMMA InitIInv == Init => IInv
BY DEF Init, IInv, TypeOK, TimesInOrder, CacheAge, FreshKey, RotatedKeyUsable,
       ServedSince, Answered, Refreshing, Locations

\* Type correctness is preserved by every step.
LEMMA TypeOKStep == TypeOK /\ [Next]_vars => TypeOK'
<1> SUFFICES ASSUME TypeOK, [Next]_vars PROVE TypeOK'
  OBVIOUS
<1> USE DEF TypeOK, provider, shared, local, Answered, Refreshing, Locations
<1>1. CASE Tick
  BY <1>1 DEF Tick
<1>2. ASSUME NEW k \in SigningKids, Publish(k) \/ Retire(k) PROVE TypeOK'
  BY <1>2 DEF Publish, Retire
<1>3. CASE Switch
  BY <1>3 DEF Switch
<1>4. ASSUME NEW t \in Threads, NEW k \in Kids, Call(t, k) PROVE TypeOK'
  BY <1>4 DEF Call
<1>5. ASSUME NEW t \in Threads, Receive(t) PROVE TypeOK'
  BY <1>5 DEF Receive
<1>6. ASSUME NEW t \in Threads, Fail(t) PROVE TypeOK'
  BY <1>6 DEF Fail, Answer
<1>7. ASSUME NEW t \in Threads, Store(t) PROVE TypeOK'
  BY <1>7 DEF Store
<1>8. ASSUME NEW t \in Threads, Stamp(t) PROVE TypeOK'
  BY <1>8 DEF Stamp
<1>9. ASSUME NEW t \in Threads, Lookup(t) PROVE TypeOK'
  <2>1. CASE kid[t] \notin cache /\ ~retry[t]
    BY <1>9, <2>1 DEF Lookup, Answer
  <2>2. ASSUME NEW a \in {"key", "unknown"}, Answer(t, a),
               UNCHANGED <<now, provider, shared, kid, calledAt>>
        PROVE  TypeOK'
    BY <2>2 DEF Answer
  <2> QED
    BY <1>9, <2>1, <2>2 DEF Lookup
<1>10. CASE UNCHANGED vars
  BY <1>10 DEF vars
<1> QED
  BY <1>1, <1>2, <1>3, <1>4, <1>5, <1>6, <1>7, <1>8, <1>9, <1>10 DEF Next, Step

\* The document the provider serves at this moment is served since now.
LEMMA ServedNow == TypeOK => ServedSince(jwks, now)
BY DEF TypeOK, ServedSince

------------------------------------------------------------------------------
\* The clock readings stay in order, and a refresh keeps to its bound.
LEMMA TimesStep == TypeOK /\ TimesInOrder /\ [Next]_vars => TimesInOrder'
<1> SUFFICES ASSUME TypeOK, TimesInOrder, [Next]_vars PROVE TimesInOrder'
  OBVIOUS
<1> USE DEF TypeOK, TimesInOrder, provider, shared, local, Refreshing
<1>1. CASE Tick
  BY <1>1 DEF Tick
<1>2. ASSUME NEW k \in SigningKids, Publish(k) \/ Retire(k) PROVE TimesInOrder'
  BY <1>2 DEF Publish, Retire
<1>3. CASE Switch
  BY <1>3 DEF Switch
<1>4. ASSUME NEW t \in Threads, NEW k \in Kids, Call(t, k) PROVE TimesInOrder'
  BY <1>4 DEF Call
<1>5. ASSUME NEW t \in Threads, Receive(t) PROVE TimesInOrder'
  BY <1>5 DEF Receive
<1>6. ASSUME NEW t \in Threads, NEW a \in {"failed", "key", "unknown"},
             Answer(t, a), UNCHANGED <<now, provider, shared, kid, calledAt>>
      PROVE  TimesInOrder'
  BY <1>6 DEF Answer
<1>7. ASSUME NEW t \in Threads, Store(t) PROVE TimesInOrder'
  BY <1>7 DEF Store
<1>8. ASSUME NEW t \in Threads, Stamp(t) PROVE TimesInOrder'
  BY <1>8 DEF Stamp
<1>9. ASSUME NEW t \in Threads, Lookup(t), kid[t] \notin cache, ~retry[t]
      PROVE  TimesInOrder'
  BY <1>9 DEF Lookup, Answer
<1>10. CASE UNCHANGED vars
  BY <1>10 DEF vars
<1>11. ASSUME NEW t \in Threads, Fail(t) \/ Lookup(t) PROVE TimesInOrder'
  BY <1>6, <1>9, <1>11 DEF Fail, Lookup
<1> QED
  BY <1>1, <1>2, <1>3, <1>4, <1>5, <1>7, <1>8, <1>10, <1>11 DEF Next, Step

------------------------------------------------------------------------------
\* No step lets a document in use grow older than CacheAge allows.
LEMMA CacheAgeStep ==
  TypeOK /\ TimesInOrder /\ CacheAge /\ [Next]_vars => CacheAge'
<1> SUFFICES ASSUME TypeOK, TimesInOrder, CacheAge, [Next]_vars PROVE CacheAge'
  OBVIOUS
<1> USE DEF provider, shared, local
<1>1. CASE Tick
  BY <1>1 DEF Tick, CacheAge, ServedSince
<1>2. ASSUME NEW k \in SigningKids, Publish(k) \/ Retire(k) PROVE CacheAge'
  <2>1. UNCHANGED <<now, shared, local>>
    BY <1>2 DEF Publish, Retire
  <2>2. ServedSince(cache, fetchedAt - 2 * RefreshBound)'
    BY <1>2, <2>1
      DEF Publish, Retire, ServedSince, TypeOK, TimesInOrder, CacheAge
  <2>3. ASSUME NEW t \in Threads PROVE
          /\ pc'[t] = "received" => ServedSince(response[t], startedAt[t])'
          /\ pc'[t] = "stamping" => ServedSince(cache, startedAt[t] - RefreshBound)'
          /\ pc'[t] = "lookup" =>
               ServedSince(cache, calledAt[t] - TTL - 2 * RefreshBound)'
          /\ pc'[t] = "lookup" /\ retry'[t] =>
               ServedSince(cache, calledAt[t] - RefreshBound)'
    <3>1. pc'[t] = "received" => ServedSince(response[t], startedAt[t])'
      BY <1>2, <2>1
      DEF Publish, Retire, ServedSince, TypeOK, TimesInOrder, CacheAge, Refreshing
    <3>2. pc'[t] = "stamping" => ServedSince(cache, startedAt[t] - RefreshBound)'
      BY <1>2, <2>1
      DEF Publish, Retire, ServedSince, TypeOK, TimesInOrder, CacheAge, Refreshing
    <3>3. pc'[t] = "lookup" =>
            ServedSince(cache, calledAt[t] - TTL - 2 * RefreshBound)'
      BY <1>2, <2>1
      DEF Publish, Retire, ServedSince, TypeOK, TimesInOrder, CacheAge
    <3>4. pc'[t] = "lookup" /\ retry'[t] =>
            ServedSince(cache, calledAt[t] - RefreshBound)'
      BY <1>2, <2>1
      DEF Publish, Retire, ServedSince, TypeOK, TimesInOrder, CacheAge
    <3> QED
      BY <3>1, <3>2, <3>3, <3>4
  <2> QED
    BY <2>2, <2>3 DEF CacheAge
<1>3. CASE Switch
  BY <1>3 DEF Switch, CacheAge, ServedSince
<1>4. ASSUME NEW t \in Threads, NEW k \in Kids, Call(t, k) PROVE CacheAge'
  <2>1. ~IsStale => ServedSince(cache, now - TTL - 2 * RefreshBound)
    BY OlderBound DEF TypeOK, CacheAge, IsStale
  <2> QED
    BY <1>4, <2>1 DEF Call, TypeOK, CacheAge, ServedSince
<1>5. ASSUME NEW t \in Threads, Receive(t) PROVE CacheAge'
  <2>1. ServedSince(jwks, startedAt[t])
    BY <1>5, ServedNow, OlderBound DEF TypeOK, TimesInOrder, Receive, Refreshing
  <2> QED
    BY <1>5, <2>1 DEF Receive, TypeOK, CacheAge, ServedSince
<1>6. ASSUME NEW t \in Threads, NEW a \in {"failed", "key", "unknown"},
             Answer(t, a), UNCHANGED <<now, provider, shared, kid, calledAt>>
      PROVE  CacheAge'
  BY <1>6 DEF Answer, TypeOK, CacheAge, ServedSince
<1>7. ASSUME NEW t \in Threads, Store(t) PROVE CacheAge'
  <2>1. /\ response[t] \in SUBSET Kids
        /\ ServedSince(response[t], startedAt[t])
        /\ startedAt[t] \in Nat
        /\ now <= startedAt[t] + RefreshBound
    BY <1>7 DEF Store, TypeOK, TimesInOrder, CacheAge, Refreshing
  <2>2. ServedSince(response[t], now - RefreshBound)
    BY <2>1, OlderBound DEF TypeOK
  <2>3. \A x \in Int : x <= now - RefreshBound => ServedSince(response[t], x)
    BY <2>1, <2>2, OlderBound DEF TypeOK
  <2>4. UNCHANGED <<now, provider, fetchedAt, calledAt, startedAt, response, retry>>
    BY <1>7 DEF Store
  <2>5. cache' = response[t]
    BY <1>7 DEF Store
  <2>6. \A x \in Int : x <= now - RefreshBound => ServedSince(cache, x)'
    BY <2>3, <2>4, <2>5 DEF ServedSince
  <2>7. pc' = [pc EXCEPT ![t] = "stamping"]
    BY <1>7 DEF Store
  <2>8. ServedSince(cache, fetchedAt - 2 * RefreshBound)'
    BY <2>4, <2>6 DEF TypeOK, TimesInOrder
  <2>9. ASSUME NEW u \in Threads PROVE
          /\ pc'[u] = "received" => ServedSince(response[u], startedAt[u])'
          /\ pc'[u] = "stamping" => ServedSince(cache, startedAt[u] - RefreshBound)'
          /\ pc'[u] = "lookup" =>
               ServedSince(cache, calledAt[u] - TTL - 2 * RefreshBound)'
          /\ pc'[u] = "lookup" /\ retry'[u] =>
               ServedSince(cache, calledAt[u] - RefreshBound)'
    <3>1. pc'[u] = "received" => ServedSince(response[u], startedAt[u])'
      BY <2>4, <2>7 DEF TypeOK, CacheAge, ServedSince
    <3>2. /\ pc'[u] = "stamping" => startedAt[u] <= now
          /\ calledAt[u] <= now
          /\ startedAt[u] \in Nat /\ calledAt[u] \in Nat
      BY <1>7, <2>7 DEF Store, TypeOK, TimesInOrder, Refreshing
    <3>3. pc'[u] = "stamping" => ServedSince(cache, startedAt[u] - RefreshBound)'
      BY <2>4, <2>6, <3>2 DEF TypeOK
    <3>4. /\ ServedSince(cache, calledAt[u] - TTL - 2 * RefreshBound)'
          /\ ServedSince(cache, calledAt[u] - RefreshBound)'
      BY <2>4, <2>6, <3>2 DEF TypeOK
    <3> QED
      BY <3>1, <3>3, <3>4
  <2> QED
    BY <2>8, <2>9 DEF CacheAge
<1>8. ASSUME NEW t \in Threads, Stamp(t) PROVE CacheAge'
  <2>1. /\ ServedSince(cache, startedAt[t] - RefreshBound)
        /\ calledAt[t] <= startedAt[t]
        /\ now <= startedAt[t] + RefreshBound
        /\ startedAt[t] \in Nat /\ calledAt[t] \in Nat
    BY <1>8 DEF Stamp, TypeOK, TimesInOrder, CacheAge, Refreshing
  <2>2. /\ ServedSince(cache, now - 2 * RefreshBound)
        /\ ServedSince(cache, calledAt[t] - RefreshBound)
        /\ ServedSince(cache, calledAt[t] - TTL - 2 * RefreshBound)
    BY <2>1, OlderBound DEF TypeOK
  <2> QED
    BY <1>8, <2>2 DEF Stamp, TypeOK, CacheAge, ServedSince
<1>9. ASSUME NEW t \in Threads, Lookup(t), kid[t] \notin cache, ~retry[t]
      PROVE  CacheAge'
  BY <1>9 DEF Lookup, Answer, TypeOK, CacheAge, ServedSince
<1>10. CASE UNCHANGED vars
  BY <1>10 DEF vars, CacheAge, ServedSince
<1>11. ASSUME NEW t \in Threads, Fail(t) \/ Lookup(t) PROVE CacheAge'
  BY <1>6, <1>9, <1>11 DEF Fail, Lookup
<1> QED
  BY <1>1, <1>2, <1>3, <1>4, <1>5, <1>7, <1>8, <1>10, <1>11 DEF Next, Step

------------------------------------------------------------------------------
\* A returned key stays justified: its retirement can only become later.
LEMMA FreshKeyStep ==
  TypeOK /\ TimesInOrder /\ CacheAge /\ FreshKey /\ [Next]_vars => FreshKey'
<1> SUFFICES ASSUME TypeOK, TimesInOrder, CacheAge, FreshKey, [Next]_vars
             PROVE  FreshKey'
  OBVIOUS
<1> USE DEF provider, shared, local, TypeOK, FreshKey
<1>1. CASE Tick \/ Switch
  BY <1>1 DEF Tick, Switch
<1>2. ASSUME NEW k \in SigningKids, Publish(k) \/ Retire(k) PROVE FreshKey'
  BY <1>2 DEF Publish, Retire, TimesInOrder
<1>3. ASSUME NEW t \in Threads, NEW k \in Kids, Call(t, k) PROVE FreshKey'
  BY <1>3 DEF Call
<1>4. ASSUME NEW t \in Threads, Receive(t) \/ Store(t) \/ Stamp(t) PROVE FreshKey'
  BY <1>4 DEF Receive, Store, Stamp
<1>5. ASSUME NEW t \in Threads, NEW a \in {"failed", "unknown"}, Answer(t, a),
             UNCHANGED <<now, provider, shared, kid, calledAt>>
      PROVE  FreshKey'
  BY <1>5 DEF Answer
<1>6. ASSUME NEW t \in Threads, pc[t] = "lookup", kid[t] \in cache,
             Answer(t, "key"), UNCHANGED <<now, provider, shared, kid, calledAt>>
      PROVE  FreshKey'
  BY <1>6 DEF Answer, CacheAge, ServedSince
<1>7. ASSUME NEW t \in Threads, Lookup(t), kid[t] \notin cache, ~retry[t]
      PROVE  FreshKey'
  BY <1>7 DEF Lookup, Answer
<1>8. CASE UNCHANGED vars
  BY <1>8 DEF vars
<1>9. ASSUME NEW t \in Threads, Fail(t) \/ Lookup(t) PROVE FreshKey'
  BY <1>5, <1>6, <1>7, <1>9 DEF Fail, Lookup
<1> QED
  BY <1>1, <1>2, <1>3, <1>4, <1>8, <1>9 DEF Next, Step

\* A denied kid stays justified: its publication can only become later.
LEMMA RotatedKeyStep ==
  TypeOK /\ TimesInOrder /\ CacheAge /\ RotatedKeyUsable /\ [Next]_vars
    => RotatedKeyUsable'
<1> SUFFICES ASSUME TypeOK, TimesInOrder, CacheAge, RotatedKeyUsable, [Next]_vars
             PROVE  RotatedKeyUsable'
  OBVIOUS
<1> USE DEF provider, shared, local, TypeOK, RotatedKeyUsable
<1>1. CASE Tick \/ Switch
  BY <1>1 DEF Tick, Switch
<1>2. ASSUME NEW k \in SigningKids, Publish(k) \/ Retire(k)
      PROVE  RotatedKeyUsable'
  BY <1>2 DEF Publish, Retire, TimesInOrder
<1>3. ASSUME NEW t \in Threads, NEW k \in Kids, Call(t, k)
      PROVE  RotatedKeyUsable'
  BY <1>3 DEF Call
<1>4. ASSUME NEW t \in Threads, Receive(t) \/ Store(t) \/ Stamp(t)
      PROVE  RotatedKeyUsable'
  BY <1>4 DEF Receive, Store, Stamp
<1>5. ASSUME NEW t \in Threads, NEW a \in {"failed", "key"}, Answer(t, a),
             UNCHANGED <<now, provider, shared, kid, calledAt>>
      PROVE  RotatedKeyUsable'
  BY <1>5 DEF Answer
<1>6. ASSUME NEW t \in Threads, pc[t] = "lookup", kid[t] \notin cache, retry[t],
             Answer(t, "unknown"), UNCHANGED <<now, provider, shared, kid, calledAt>>
      PROVE  RotatedKeyUsable'
  BY <1>6 DEF Answer, CacheAge, ServedSince
<1>7. ASSUME NEW t \in Threads, Lookup(t), kid[t] \notin cache, ~retry[t]
      PROVE  RotatedKeyUsable'
  BY <1>7 DEF Lookup, Answer
<1>8. CASE UNCHANGED vars
  BY <1>8 DEF vars
<1>9. ASSUME NEW t \in Threads, Fail(t) \/ Lookup(t) PROVE RotatedKeyUsable'
  BY <1>5, <1>6, <1>7, <1>9 DEF Fail, Lookup
<1> QED
  BY <1>1, <1>2, <1>3, <1>4, <1>8, <1>9 DEF Next, Step

------------------------------------------------------------------------------
\* IInv is an inductive invariant of the cache.
THEOREM Inductive == Spec => []IInv
<1>1. IInv /\ [Next]_vars => IInv'
  BY TypeOKStep, TimesStep, CacheAgeStep, FreshKeyStep, RotatedKeyStep DEF IInv
<1> QED
  BY InitIInv, <1>1, PTL DEF Spec

\* The variables of the cache and of its threads keep their types.
THEOREM TypeCorrect == Spec => []TypeOK
BY Inductive, PTL DEF IInv

\* get_key never returns a key the provider withdrew more than one TTL and two
\* refreshes before the call, however its threads interleave.
THEOREM KeysAreFresh == Spec => []FreshKey
BY Inductive, PTL DEF IInv

\* get_key never denies a kid that was published one refresh before the call.
THEOREM RotationIsUsable == Spec => []RotatedKeyUsable
BY Inductive, PTL DEF IInv
------------------------------------------------------------------------------
(* The cache implements the lookup of module KeyLookup.                    *)

\* A step of one thread that gives no answer leaves the lookup as it was.
LEMMA SilentStep ==
  ASSUME TypeOK, NEW t \in Threads, pc[t] \notin Answered,
         NEW l \in Refreshing \union {"lookup"}, pc' = [pc EXCEPT ![t] = l],
         UNCHANGED <<now, provider, kid, calledAt>>
  PROVE  UNCHANGED KeyLookupOfCache!vars
<1>1. \A u \in Threads :
        (IF pc[u] \in Answered THEN pc[u] ELSE "asked")
          = (IF pc'[u] \in Answered THEN pc'[u] ELSE "asked")
  BY DEF TypeOK, Answered, Refreshing
<1> QED
  BY <1>1 DEF KeyLookupOfCache!vars, provider

\* A justified answer of the cache is an answer of the lookup.
LEMMA AnswerStep ==
  ASSUME TypeOK, NEW t \in Threads, pc[t] \notin Answered,
         NEW a \in {"key", "unknown", "failed"}, Answer(t, a),
         UNCHANGED <<now, provider, kid, calledAt>>,
         a = "key" => \/ kid[t] \in jwks
                      \/ retiredAt[kid[t]] >= calledAt[t] - (TTL + 2 * RefreshBound),
         a = "unknown" => \/ kid[t] \notin jwks
                          \/ publishedAt[kid[t]] >= calledAt[t] - RefreshBound,
         a = "failed" => ~up
  PROVE  KeyLookupOfCache!Next
<1> DEFINE phase == [u \in Threads |-> IF pc[u] \in Answered THEN pc[u] ELSE "asked"]
<1>1. phase' = [phase EXCEPT ![t] = a]
  BY DEF TypeOK, Answered, Answer
<1>2. phase[t] = "asked"
  OBVIOUS
<1>3. KeyLookupOfCache!Answer(t, a)
  BY <1>1, <1>2 DEF KeyLookupOfCache!Answer, KeyLookupOfCache!provider, provider
<1>4. a \in KeyLookupOfCache!Phases
  BY DEF KeyLookupOfCache!Phases
<1> QED
  BY <1>3, <1>4 DEF KeyLookupOfCache!Next

\* Every step of the cache is a step of the lookup or leaves it unchanged.
LEMMA StepRefinement ==
  IInv /\ IInv' /\ [Next]_vars => [KeyLookupOfCache!Next]_(KeyLookupOfCache!vars)
<1> SUFFICES ASSUME IInv, IInv', [Next]_vars
             PROVE  KeyLookupOfCache!Next \/ UNCHANGED KeyLookupOfCache!vars
  OBVIOUS
<1> USE DEF provider, shared, local
<1>1. CASE Tick
  BY <1>1 DEF Tick, KeyLookupOfCache!Next, KeyLookupOfCache!Tick,
              KeyLookupOfCache!provider
<1>2. ASSUME NEW k \in SigningKids, Publish(k) PROVE KeyLookupOfCache!Next
  <2>1. KeyLookupOfCache!Publish(k)
    BY <1>2 DEF Publish, KeyLookupOfCache!Publish
  <2> QED
    BY <2>1 DEF KeyLookupOfCache!Next
<1>3. ASSUME NEW k \in SigningKids, Retire(k) PROVE KeyLookupOfCache!Next
  <2>1. KeyLookupOfCache!Retire(k)
    BY <1>3 DEF Retire, KeyLookupOfCache!Retire
  <2> QED
    BY <2>1 DEF KeyLookupOfCache!Next
<1>4. CASE Switch
  BY <1>4 DEF Switch, KeyLookupOfCache!Next, KeyLookupOfCache!Switch
<1>5. ASSUME NEW t \in Threads, NEW k \in Kids, Call(t, k)
      PROVE  KeyLookupOfCache!Next
  <2> DEFINE phase ==
        [u \in Threads |-> IF pc[u] \in Answered THEN pc[u] ELSE "asked"]
  <2>1. phase' = [phase EXCEPT ![t] = "asked"]
    <3>1. \E l \in {"sent", "lookup"} : pc' = [pc EXCEPT ![t] = l]
      BY <1>5 DEF Call
    <3> QED
      BY <3>1 DEF IInv, TypeOK, Answered
  <2>2. phase[t] # "asked"
    BY <1>5 DEF Call, Answered
  <2>3. KeyLookupOfCache!Ask(t, k)
    BY <1>5, <2>1, <2>2 DEF Call, KeyLookupOfCache!Ask, KeyLookupOfCache!provider
  <2> QED
    BY <2>3 DEF KeyLookupOfCache!Next
<1>6. ASSUME NEW t \in Threads, Receive(t) \/ Store(t) \/ Stamp(t)
      PROVE  UNCHANGED KeyLookupOfCache!vars
  <2>1. /\ pc[t] \notin Answered
        /\ UNCHANGED <<now, provider, kid, calledAt>>
        /\ \E l \in Refreshing \union {"lookup"} : pc' = [pc EXCEPT ![t] = l]
    BY <1>6 DEF Receive, Store, Stamp, Answered, Refreshing
  <2> QED
    BY <2>1, SilentStep DEF IInv, Refreshing
<1>7. ASSUME NEW t \in Threads, Fail(t) PROVE KeyLookupOfCache!Next
  BY <1>7, AnswerStep DEF Fail, IInv, Answered
<1>8. ASSUME NEW t \in Threads, Lookup(t)
      PROVE  KeyLookupOfCache!Next \/ UNCHANGED KeyLookupOfCache!vars
  <2>1. pc[t] \notin Answered /\ UNCHANGED <<now, provider, kid, calledAt>>
    BY <1>8 DEF Lookup, Answered
  <2>2. CASE kid[t] \notin cache /\ ~retry[t]
    <3>1. pc' = [pc EXCEPT ![t] = "sent"]
      BY <1>8, <2>2 DEF Lookup
    <3> QED
      BY <2>1, <3>1, SilentStep DEF IInv, Refreshing
  <2>3. CASE Answer(t, "key")
    <3>1. pc'[t] = "key"
      BY <2>3 DEF Answer, IInv, TypeOK
    <3>2. \/ kid[t] \in jwks
          \/ retiredAt[kid[t]] >= calledAt[t] - TTL - 2 * RefreshBound
      BY <2>1, <3>1 DEF IInv, FreshKey
    <3>3. retiredAt[kid[t]] \in Nat /\ calledAt[t] \in Nat
      BY DEF IInv, TypeOK
    <3>4. \/ kid[t] \in jwks
          \/ retiredAt[kid[t]] >= calledAt[t] - (TTL + 2 * RefreshBound)
      BY <3>2, <3>3
    <3> QED
      BY <2>1, <2>3, <3>4, AnswerStep DEF IInv
  <2>4. CASE Answer(t, "unknown")
    <3>1. pc'[t] = "unknown"
      BY <2>4 DEF Answer, IInv, TypeOK
    <3>2. \/ kid[t] \notin jwks
          \/ publishedAt[kid[t]] >= calledAt[t] - RefreshBound
      BY <2>1, <3>1 DEF IInv, RotatedKeyUsable
    <3> QED
      BY <2>1, <2>4, <3>2, AnswerStep DEF IInv
  <2> QED
    BY <1>8, <2>2, <2>3, <2>4 DEF Lookup
<1>9. CASE UNCHANGED vars
  BY <1>9 DEF vars, KeyLookupOfCache!vars
<1> QED
  BY <1>1, <1>2, <1>3, <1>4, <1>5, <1>6, <1>7, <1>8, <1>9 DEF Next, Step

\* Whatever its threads interleave, the cache promises what KeyLookup states.
THEOREM Refinement == Spec => ImplementsKeyLookup
<1>1. Init => KeyLookupOfCache!Init
  BY DEF Init, KeyLookupOfCache!Init, Answered
<1>2. IInv /\ IInv' /\ [Next]_vars
        => [KeyLookupOfCache!Next]_(KeyLookupOfCache!vars)
  BY StepRefinement
<1> QED
  BY <1>1, <1>2, Inductive, PTL DEF Spec, ImplementsKeyLookup, KeyLookupOfCache!Spec

------------------------------------------------------------------------------
(* A call comes to its end.                                                *)

\* The most steps a call has still to take: one lookup more while the miss
\* branch is ahead, and one refresh with it.
StepsLeft(t) ==
  (CASE pc[t] = "sent" -> 4
     [] pc[t] = "received" -> 3
     [] pc[t] = "stamping" -> 2
     [] pc[t] = "lookup" -> 1
     [] pc[t] \in Answered -> 0)
  + (IF pc[t] \in Answered \/ retry[t] THEN 0 ELSE 4)

\* No call goes on for ever, whatever the provider, the clock and the other
\* threads do: it takes eight steps at most, two fetches among them, each of
\* its steps leaves it fewer, and only the next call of its thread begins anew.
THEOREM CallsAdvance ==
  Spec => [][\A t \in Threads :
               /\ StepsLeft(t) \in 0..8
               /\ Step(t) => StepsLeft(t)' < StepsLeft(t)
               /\ StepsLeft(t)' <= StepsLeft(t) \/ \E k \in Kids : Call(t, k)]_vars
<1> DEFINE Less(t) ==
      /\ StepsLeft(t) \in 0..8
      /\ Step(t) => StepsLeft(t)' < StepsLeft(t)
      /\ StepsLeft(t)' <= StepsLeft(t) \/ \E k \in Kids : Call(t, k)
<1>1. ASSUME TypeOK, NEW t \in Threads PROVE StepsLeft(t) \in 0..8
  BY <1>1 DEF TypeOK, StepsLeft, Locations, Answered, Refreshing
<1>2. ASSUME TypeOK, NEW t \in Threads, Step(t) PROVE StepsLeft(t)' < StepsLeft(t)
  <2> USE DEF TypeOK, StepsLeft, Locations, Answered, Refreshing
  <2>1. CASE Receive(t)
    BY <1>2, <2>1 DEF Receive
  <2>2. CASE Fail(t)
    BY <1>2, <2>2 DEF Fail, Answer
  <2>3. CASE Store(t)
    BY <1>2, <2>3 DEF Store
  <2>4. CASE Stamp(t)
    BY <1>2, <2>4 DEF Stamp
  <2>5. CASE Lookup(t)
    BY <1>2, <2>5 DEF Lookup, Answer
  <2> QED
    BY <1>2, <2>1, <2>2, <2>3, <2>4, <2>5 DEF Step
<1>3. ASSUME TypeOK, NEW t \in Threads, NEW u \in Threads, u # t,
             Step(u) \/ \E k \in Kids : Call(u, k)
      PROVE  StepsLeft(t)' = StepsLeft(t)
  <2>1. pc'[t] = pc[t] /\ retry'[t] = retry[t]
    BY <1>3 DEF TypeOK, Step, Receive, Fail, Store, Stamp, Lookup, Answer, Call
  <2> QED
    BY <2>1 DEF StepsLeft
<1>4. ASSUME UNCHANGED <<pc, retry>>, NEW t \in Threads PROVE StepsLeft(t)' = StepsLeft(t)
  BY <1>4 DEF StepsLeft
<1>5. Tick \/ (\E k \in SigningKids : Publish(k) \/ Retire(k)) \/ Switch
        => UNCHANGED <<pc, retry>>
  BY DEF Tick, Publish, Retire, Switch, local
<1>6. ASSUME TypeOK, Next, NEW t \in Threads PROVE Less(t)
  <2>1. StepsLeft(t) \in 0..8
    BY <1>1, <1>6
  <2>2. CASE UNCHANGED <<pc, retry>>
    <3>1. StepsLeft(t)' = StepsLeft(t)
      BY <1>4, <2>2
    <3>2. ~Step(t)
      BY <1>6, <2>2 DEF Step, Receive, Fail, Store, Stamp, Lookup, Answer, TypeOK, Answered
    <3> QED
      BY <2>1, <3>1, <3>2
  <2>3. ASSUME NEW u \in Threads, u # t, Step(u) \/ \E k \in Kids : Call(u, k) PROVE Less(t)
    <3>1. StepsLeft(t)' = StepsLeft(t)
      BY <1>3, <1>6, <2>3
    <3>2. ~Step(t)
      <4>1. pc'[t] = pc[t]
        BY <1>6, <2>3 DEF TypeOK, Step, Receive, Fail, Store, Stamp, Lookup, Answer, Call
      <4> QED
        BY <1>6, <4>1 DEF Step, Receive, Fail, Store, Stamp, Lookup, Answer, TypeOK, Answered
    <3> QED
      BY <2>1, <3>1, <3>2
  <2>4. CASE Step(t)
    <3>1. StepsLeft(t)' < StepsLeft(t)
      BY <1>2, <1>6, <2>4
    <3>2. StepsLeft(t)' \in Int
      <4>1. TypeOK'
        BY <1>6, TypeOKStep
      <4> QED
        BY <4>1 DEF TypeOK, StepsLeft, Locations, Answered, Refreshing
    <3> QED
      BY <2>1, <3>1, <3>2
  <2>5. ASSUME NEW k \in Kids, Call(t, k) PROVE Less(t)
    <3>1. ~Step(t)
      BY <1>6, <2>5 DEF Call, Step, Receive, Fail, Store, Stamp, Lookup, Answered
    <3> QED
      BY <2>1, <2>5, <3>1
  <2> QED
    BY <1>5, <1>6, <2>2, <2>3, <2>4, <2>5 DEF Next
<1>7. TypeOK /\ [Next]_vars => [\A t \in Threads : Less(t)]_vars
  BY <1>6
<1> QED
  BY <1>7, TypeCorrect, PTL DEF Spec

==============================================================================
