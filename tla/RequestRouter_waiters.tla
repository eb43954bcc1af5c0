----------------------- MODULE RequestRouter_waiters -----------------------
(***************************************************************************)
(* WaiterFindsResponse for every number of requests up to the cache cap.  *)
(* A waiter rechecks the cache once the request it watched has sent, and *)
(* that request wrote the cache before it sent (StoreResponse precedes    *)
(* SignalAndReturn in proxy_web3_rpc_request), so the key is there unless *)
(* enough other keys were stored in between to push it out with          *)
(* pop_front.  Every request stores at most once, so what can still push  *)
(* a key out is bounded by the requests that have not stored yet; with    *)
(* no more requests than RESPONSE_CACHE_CAP that is never enough.  With   *)
(* more, TLC finds the eviction (3 requests, cap 2).                       *)
(***************************************************************************)
EXTENDS RequestRouter_proofs, FiniteSetTheorems

(* The states of a request that may still store a response.              *)
PreStore == {"idle", "lookup", "entry", "wait", "recheck", "dispatch", "store"}

(* How many requests may still store a response, for the labels f.        *)
PreCount(f) == Cardinality({q \in Req : f[q] \in PreStore})

NPre == PreCount(pc)

(* Key k is in the cache with so few entries newer than it that the      *)
(* remaining stores cannot push it out, or no store remains at all.       *)
Safe(k) ==
    \/ \E i \in 1..Len(cache) :
          /\ cache[i] = k
          /\ Len(cache) - i + NPre <= RESPONSE_CACHE_CAP - 1
    \/ NPre = 0

(* The request owns the in-flight entry it registered: it is fetching the *)
(* key, or it has finished, having sent or given up.                       *)
OwnerState(w) ==
    \/ pc[w] \in {"dispatch", "store", "release", "signal"} /\ chan[w] = "open"
    \/ pc[w] = "done" /\ chan[w] \in {"sent", "closed"}

(* Whoever the in-flight table names for a key fetches that key and has   *)
(* not sent on its channel: it is still fetching, or it gave up (upstream *)
(* error or timeout) and left its entry behind.                            *)
IncomingOwned ==
    \A k \in Key : incoming[k] # NoReq =>
        /\ incoming[k] \in Req
        /\ key[incoming[k]] = k
        /\ \/ pc[incoming[k]] \in {"dispatch", "store", "release"}
              /\ chan[incoming[k]] = "open"
           \/ pc[incoming[k]] = "done" /\ chan[incoming[k]] = "closed"

(* A waiting request watches a request that registered the same key.      *)
WatchOwned ==
    \A r \in Req : pc[r] \in {"wait", "recheck"} =>
        /\ watching[r] \in Req
        /\ key[watching[r]] = key[r]
        /\ OwnerState(watching[r])

(* Request w has stored its response and is releasing, or has sent and   *)
(* is watched by a waiter.                                                 *)
Guarded(w) ==
    \/ pc[w] \in {"release", "signal"}
    \/ /\ chan[w] = "sent"
       /\ \E r \in Req : pc[r] \in {"wait", "recheck"} /\ watching[r] = w

StoredSafe == \A w \in Req : Guarded(w) => Safe(key[w])

(* The inductive invariant behind WaiterFindsResponse.                     *)
WInv == IInv /\ IncomingOwned /\ WatchOwned /\ StoredSafe

-----------------------------------------------------------------------------
(* Where CacheInsert puts the keys: the inserted key last, and every other *)
(* key at a position with at most one more entry after it than before.    *)
LEMMA InsertPositions ==
    ASSUME NEW S, NEW c \in Seq(S), NEW j \in S, IsInjective(c)
    PROVE  /\ CacheInsert(c, j) \in Seq(S)
           /\ Len(CacheInsert(c, j)) \in 1..Len(c) + 1
           /\ CacheInsert(c, j)[Len(CacheInsert(c, j))] = j
           /\ \A i \in 1..Len(c) : c[i] # j =>
                 \E i2 \in 1..Len(CacheInsert(c, j)) :
                    /\ CacheInsert(c, j)[i2] = c[i]
                    /\ Len(CacheInsert(c, j)) - i2 <= Len(c) - i + 1
<1>1. Len(c) \in Nat
  BY LenProperties
<1>2. CASE Contains(c, j)
  <2>1. PICK p \in 1..Len(c) : c[p] = j
    BY <1>2 DEF Contains
  <2>2. PICK q \in 1..Len(c) : c[q] = j /\ q = CHOOSE i \in 1..Len(c) : c[i] = j
    BY <2>1
  <2>. DEFINE m == RemoveAt(c, q)
  <2>3. /\ m \in Seq(S)
        /\ Len(m) = Len(c) - 1
        /\ \A i \in 1..Len(c) - 1 : m[i] = IF i < q THEN c[i] ELSE c[i + 1]
    BY <2>2, RemoveAtProps
  <2>. HIDE DEF m
  <2>4. CacheInsert(c, j) = Append(m, j)
    BY <1>2, <2>2 DEF CacheInsert, m
  <2>5. /\ Append(m, j) \in Seq(S)
        /\ Len(Append(m, j)) = Len(c)
        /\ Append(m, j)[Len(c)] = j
        /\ \A i \in 1..Len(c) - 1 : Append(m, j)[i] = m[i]
    BY <1>1, <2>1, <2>3, AppendProperties
  <2>6. \A i \in 1..Len(c) : c[i] # j =>
           \E i2 \in 1..Len(c) : Append(m, j)[i2] = c[i] /\ Len(c) - i2 <= Len(c) - i + 1
    <3> SUFFICES ASSUME NEW i \in 1..Len(c), c[i] # j
                 PROVE  \E i2 \in 1..Len(c) : Append(m, j)[i2] = c[i]
                                              /\ Len(c) - i2 <= Len(c) - i + 1
      OBVIOUS
    <3>1. i # q
      BY <2>2
    <3>2. CASE i < q
      <4>1. i \in 1..Len(c) - 1
        BY <1>1, <3>2
      <4>2. Append(m, j)[i] = c[i]
        BY <2>3, <2>5, <3>2, <4>1
      <4>3. i \in 1..Len(c) /\ Len(c) - i <= Len(c) - i + 1
        BY <1>1
      <4>. QED  BY <4>2, <4>3
    <3>3. CASE i > q
      <4>1. i - 1 \in 1..Len(c) - 1 /\ ~(i - 1 < q)
        BY <1>1, <3>3
      <4>2. Append(m, j)[i - 1] = c[i]
        BY <1>1, <2>3, <2>5, <4>1
      <4>3. i - 1 \in 1..Len(c) /\ Len(c) - (i - 1) <= Len(c) - i + 1
        BY <1>1, <4>1
      <4>. QED  BY <4>2, <4>3
    <3>4. i < q \/ i > q
      BY <1>1, <2>2, <3>1
    <3>. QED  BY <3>2, <3>3, <3>4
  <2>7. Len(c) \in 1..Len(c) + 1
    BY <1>1, <2>1
  <2>. QED  BY <2>4, <2>5, <2>6, <2>7
<1>3. CASE ~Contains(c, j)
  <2>1. CacheInsert(c, j) = Append(c, j)
    BY <1>3 DEF CacheInsert
  <2>2. /\ Append(c, j) \in Seq(S)
        /\ Len(Append(c, j)) = Len(c) + 1
        /\ Append(c, j)[Len(c) + 1] = j
        /\ \A i \in 1..Len(c) : Append(c, j)[i] = c[i]
    BY AppendProperties
  <2>. QED  BY <1>1, <2>1, <2>2
<1>. QED  BY <1>2, <1>3

(* Where CacheEvict leaves the keys: every key but a popped front one    *)
(* keeps the number of entries after it.                                   *)
LEMMA EvictPositions ==
    ASSUME NEW S, NEW s \in Seq(S)
    PROVE  /\ CacheEvict(s) \in Seq(S)
           /\ \A i \in 1..Len(s) :
                 \/ i = 1 /\ Len(s) >= RESPONSE_CACHE_CAP
                 \/ \E i2 \in 1..Len(CacheEvict(s)) :
                       /\ CacheEvict(s)[i2] = s[i]
                       /\ Len(CacheEvict(s)) - i2 = Len(s) - i
<1>1. Len(s) \in Nat
  BY LenProperties
<1>2. CASE Len(s) >= RESPONSE_CACHE_CAP /\ s # << >>
  <2>1. /\ Tail(s) \in Seq(S)
        /\ Len(Tail(s)) = Len(s) - 1
        /\ \A i \in 1..Len(Tail(s)) : Tail(s)[i] = s[i + 1]
    BY <1>2, HeadTailProperties
  <2>2. CacheEvict(s) = Tail(s)
    BY <1>2 DEF CacheEvict
  <2>3. \A i \in 2..Len(s) : i - 1 \in 1..Len(Tail(s)) /\ Tail(s)[i - 1] = s[i]
    BY <1>1, <2>1
  <2>4. \A i \in 1..Len(s) :
           \/ i = 1 /\ Len(s) >= RESPONSE_CACHE_CAP
           \/ \E i2 \in 1..Len(Tail(s)) : Tail(s)[i2] = s[i]
                                          /\ Len(Tail(s)) - i2 = Len(s) - i
    <3> SUFFICES ASSUME NEW i \in 1..Len(s), i # 1
                 PROVE  \E i2 \in 1..Len(Tail(s)) : Tail(s)[i2] = s[i]
                                                    /\ Len(Tail(s)) - i2 = Len(s) - i
      BY <1>2
    <3>1. i \in 2..Len(s)
      BY <1>1
    <3>. QED  BY <1>1, <2>1, <2>3, <3>1
  <2>. QED  BY <2>1, <2>2, <2>4
<1>3. CASE Len(s) >= RESPONSE_CACHE_CAP /\ s = << >>
  BY <1>3, RouterAssumption DEF CacheEvict
<1>4. CASE ~(Len(s) >= RESPONSE_CACHE_CAP)
  BY <1>1, <1>4 DEF CacheEvict
<1>. QED  BY <1>2, <1>3, <1>4

(* Where StoreResponse leaves the keys: the stored key last (or nowhere,   *)
(* when the cap is 1), and every other key either with at most one more   *)
(* entry after it than before, or popped from the front, which needs it   *)
(* to have had RESPONSE_CACHE_CAP - 2 or more entries after it.           *)
LEMMA StorePositions ==
    ASSUME NEW c \in Seq(Key), NEW j \in Key, IsInjective(c),
           Len(c) < RESPONSE_CACHE_CAP,
           NEW e, e = CacheEvict(CacheInsert(c, j))
    PROVE  /\ e \in Seq(Key)
           /\ \/ \E i2 \in 1..Len(e) : e[i2] = j /\ Len(e) - i2 = 0
              \/ RESPONSE_CACHE_CAP <= 1
           /\ \A i \in 1..Len(c) : c[i] # j =>
                 \/ \E i3 \in 1..Len(e) : e[i3] = c[i] /\ Len(e) - i3 <= Len(c) - i + 1
                 \/ RESPONSE_CACHE_CAP - 1 <= Len(c) - i + 1
<1>. DEFINE s == CacheInsert(c, j)
<1>0. e = CacheEvict(s)
  OBVIOUS
<1>1. /\ s \in Seq(Key)
      /\ Len(s) \in 1..Len(c) + 1
      /\ s[Len(s)] = j
      /\ \A i \in 1..Len(c) : c[i] # j =>
            \E i2 \in 1..Len(s) : s[i2] = c[i] /\ Len(s) - i2 <= Len(c) - i + 1
  BY InsertPositions
<1>2. /\ e \in Seq(Key)
      /\ \A i \in 1..Len(s) :
            \/ i = 1 /\ Len(s) >= RESPONSE_CACHE_CAP
            \/ \E i2 \in 1..Len(e) : e[i2] = s[i] /\ Len(e) - i2 = Len(s) - i
  BY <1>0, <1>1, EvictPositions
<1>. HIDE DEF s
<1>3. Len(c) \in Nat /\ Len(e) \in Nat /\ RESPONSE_CACHE_CAP \in Nat
  BY <1>2, LenProperties, RouterAssumption
<1>4. \/ \E i2 \in 1..Len(e) : e[i2] = j /\ Len(e) - i2 = 0
      \/ RESPONSE_CACHE_CAP <= 1
  <2>1. Len(s) \in 1..Len(s)
    BY <1>1, <1>3
  <2>. QED  BY <1>1, <1>2, <2>1, <1>3
<1>5. ASSUME NEW i \in 1..Len(c), c[i] # j
      PROVE  \/ \E i3 \in 1..Len(e) : e[i3] = c[i] /\ Len(e) - i3 <= Len(c) - i + 1
             \/ RESPONSE_CACHE_CAP - 1 <= Len(c) - i + 1
  <2>1. PICK i2 \in 1..Len(s) : s[i2] = c[i] /\ Len(s) - i2 <= Len(c) - i + 1
    BY <1>1, <1>5
  <2>2. CASE i2 = 1 /\ Len(s) >= RESPONSE_CACHE_CAP
    BY <1>3, <2>1, <2>2
  <2>3. CASE \E i3 \in 1..Len(e) : e[i3] = s[i2] /\ Len(e) - i3 = Len(s) - i2
    <3>1. PICK i3 \in 1..Len(e) : e[i3] = s[i2] /\ Len(e) - i3 = Len(s) - i2
      BY <2>3
    <3>. QED  BY <2>1, <3>1
  <2>. QED  BY <1>2, <2>1, <2>2, <2>3
<1>. QED  BY <1>2, <1>4, <1>5

(* The requests that may still store are finitely many, at most all.     *)
LEMMA PreCountType ==
    ASSUME IsFiniteSet(Req), NEW f
    PROVE  /\ PreCount(f) \in Nat
           /\ PreCount(f) <= Cardinality(Req)
<1>1. {q \in Req : f[q] \in PreStore} \subseteq Req
  OBVIOUS
<1>2. /\ IsFiniteSet({q \in Req : f[q] \in PreStore})
      /\ Cardinality({q \in Req : f[q] \in PreStore}) <= Cardinality(Req)
  BY <1>1, FS_Subset
<1>. QED  BY <1>2, FS_CardinalityType DEF PreCount

(* A step that moves no request back before its store cannot raise the   *)
(* count.                                                                  *)
LEMMA PreCountMono ==
    ASSUME IsFiniteSet(Req), NEW f, NEW g,
           \A q \in Req : g[q] \in PreStore => f[q] \in PreStore
    PROVE  PreCount(g) <= PreCount(f)
<1>1. {q \in Req : g[q] \in PreStore} \subseteq {q \in Req : f[q] \in PreStore}
  OBVIOUS
<1>2. IsFiniteSet({q \in Req : f[q] \in PreStore})
  BY FS_Subset
<1>. QED  BY <1>1, <1>2, FS_Subset DEF PreCount

(* A step in which one request stores, and no other request moves, lowers *)
(* the count by one.                                                       *)
LEMMA PreCountDrop ==
    ASSUME IsFiniteSet(Req), NEW f, NEW g, NEW q0 \in Req,
           f[q0] \in PreStore, g[q0] \notin PreStore,
           \A q \in Req \ {q0} : g[q] = f[q]
    PROVE  /\ PreCount(g) = PreCount(f) - 1
           /\ PreCount(f) >= 1
<1>. DEFINE F == {q \in Req : f[q] \in PreStore}
<1>1. {q \in Req : g[q] \in PreStore} = F \ {q0}
  OBVIOUS
<1>2. IsFiniteSet(F) /\ q0 \in F
  BY FS_Subset
<1>3. Cardinality(F \ {q0}) = Cardinality(F) - 1
  BY <1>2, FS_RemoveElement
<1>4. Cardinality(F) \in Nat /\ Cardinality(F) # 0
  BY <1>2, FS_CardinalityType, FS_EmptySet
<1>. QED  BY <1>1, <1>3, <1>4 DEF PreCount

-----------------------------------------------------------------------------
(* The hypothesis of the theorem below: no more requests in flight than   *)
(* the cache holds entries.                                                *)
FewRequests == IsFiniteSet(Req) /\ Cardinality(Req) <= RESPONSE_CACHE_CAP

(* A key stays safe while the cache is untouched and no request moves     *)
(* back before its store.                                                  *)
LEMMA SafeMono ==
    ASSUME FewRequests, NEW k, Safe(k), cache \in Seq(Key), cache' = cache,
           PreCount(pc') <= PreCount(pc)
    PROVE  Safe(k)'
<1>1. PreCount(pc) \in Nat /\ PreCount(pc') \in Nat
  BY PreCountType DEF FewRequests
<1>2. Len(cache) \in Nat /\ RESPONSE_CACHE_CAP \in Nat
  BY LenProperties, RouterAssumption
<1>. QED  BY <1>1, <1>2 DEF Safe, NPre

(* A step that leaves the cache alone, moves no request back before its   *)
(* store and makes no request newly guarded keeps StoredSafe.             *)
LEMMA QuietStep ==
    ASSUME FewRequests, StoredSafe, cache \in Seq(Key), cache' = cache,
           \A q \in Req : pc'[q] \in PreStore => pc[q] \in PreStore,
           \A w \in Req : Guarded(w)' => Guarded(w) /\ key'[w] = key[w]
    PROVE  StoredSafe'
<1>1. PreCount(pc') <= PreCount(pc)
  BY PreCountMono DEF FewRequests
<1>. QED  BY <1>1, SafeMono DEF StoredSafe

(* Every initial state satisfies the invariant: no request has an entry,  *)
(* waits or has stored.                                                    *)
LEMMA InitWInv == Init => WInv
<1> SUFFICES ASSUME Init PROVE WInv
  OBVIOUS
<1>1. IInv
  BY InitIInv
<1>. QED  BY <1>1, RouterAssumption
          DEF Init, WInv, IncomingOwned, WatchOwned, StoredSafe, Guarded

(* The part of the invariant that the steps below maintain.               *)
RestInv == IncomingOwned /\ WatchOwned /\ StoredSafe

(* A request that has not registered an entry yet owns none and is        *)
(* watched by nobody.                                                      *)
LEMMA NotOwner ==
    ASSUME WInv, NEW r \in Req,
           pc[r] \in {"idle", "lookup", "hit", "entry", "wait", "recheck"}
    PROVE  /\ \A k \in Key : incoming[k] # r
           /\ \A x \in Req : pc[x] \in {"wait", "recheck"} => watching[x] # r
BY RouterAssumption DEF WInv, IncomingOwned, WatchOwned, OwnerState

(* Computing the key: the request owns nothing and nobody watches it.     *)
LEMMA ComputeKeyRest ==
    ASSUME FewRequests, WInv, NEW r \in Req, ComputeKey(r)
    PROVE  RestInv'
<1>1. /\ \A k \in Key : incoming[k] # r
      /\ \A x \in Req : pc[x] \in {"wait", "recheck"} => watching[x] # r
  BY NotOwner DEF ComputeKey
<1>2. IncomingOwned'
  BY <1>1 DEF ComputeKey, WInv, IncomingOwned
<1>3. WatchOwned'
  BY <1>1 DEF ComputeKey, WInv, IInv, TypeOK, WatchOwned, OwnerState
<1>4. \A w \in Req : Guarded(w)' => Guarded(w) /\ key'[w] = key[w]
  BY <1>1 DEF ComputeKey, WInv, IInv, TypeOK, Guarded
<1>5. \A q \in Req : pc'[q] \in PreStore => pc[q] \in PreStore
  BY DEF ComputeKey, WInv, IInv, TypeOK, PreStore
<1>. QED  BY <1>2, <1>3, <1>4, <1>5, QuietStep
          DEF ComputeKey, RestInv, WInv, IInv, TypeOK

(* Steps of a request before it registers an entry: it owns nothing and *)
(* nobody watches it.                                                      *)
LEMMA BypassCacheRest ==
    ASSUME FewRequests, WInv, NEW r \in Req, BypassCache(r)
    PROVE  RestInv'
<1>1. /\ \A k \in Key : incoming[k] # r
      /\ \A x \in Req : pc[x] \in {"wait", "recheck"} => watching[x] # r
  BY NotOwner DEF BypassCache
<1>2. IncomingOwned'
  BY <1>1 DEF BypassCache, WInv, IInv, TypeOK, IncomingOwned
<1>3. WatchOwned'
  BY <1>1 DEF BypassCache, WInv, IInv, TypeOK, WatchOwned, OwnerState
<1>4. \A w \in Req : Guarded(w)' => Guarded(w) /\ key'[w] = key[w]
  BY <1>1 DEF BypassCache, WInv, IInv, TypeOK, Guarded
<1>5. \A q \in Req : pc'[q] \in PreStore => pc[q] \in PreStore
  BY DEF BypassCache, WInv, IInv, TypeOK, PreStore
<1>. QED  BY <1>2, <1>3, <1>4, <1>5, QuietStep
          DEF BypassCache, RestInv, WInv, IInv, TypeOK

LEMMA CacheLookupRest ==
    ASSUME FewRequests, WInv, NEW r \in Req, CacheLookup(r)
    PROVE  RestInv'
<1>1. /\ \A k \in Key : incoming[k] # r
      /\ \A x \in Req : pc[x] \in {"wait", "recheck"} => watching[x] # r
  BY NotOwner DEF CacheLookup
<1>2. IncomingOwned'
  BY <1>1 DEF CacheLookup, WInv, IInv, TypeOK, IncomingOwned
<1>3. WatchOwned'
  BY <1>1 DEF CacheLookup, WInv, IInv, TypeOK, WatchOwned, OwnerState
<1>4. \A w \in Req : Guarded(w)' => Guarded(w) /\ key'[w] = key[w]
  BY <1>1 DEF CacheLookup, WInv, IInv, TypeOK, Guarded
<1>5. \A q \in Req : pc'[q] \in PreStore => pc[q] \in PreStore
  BY DEF CacheLookup, WInv, IInv, TypeOK, PreStore
<1>. QED  BY <1>2, <1>3, <1>4, <1>5, QuietStep
          DEF CacheLookup, RestInv, WInv, IInv, TypeOK

LEMMA RemoveOnHitRest ==
    ASSUME FewRequests, WInv, NEW r \in Req, RemoveOnHit(r)
    PROVE  RestInv'
<1>1. /\ \A k \in Key : incoming[k] # r
      /\ \A x \in Req : pc[x] \in {"wait", "recheck"} => watching[x] # r
  BY NotOwner DEF RemoveOnHit
<1>2. IncomingOwned'
  BY <1>1 DEF RemoveOnHit, WInv, IInv, TypeOK, IncomingOwned
<1>3. WatchOwned'
  BY <1>1 DEF RemoveOnHit, WInv, IInv, TypeOK, WatchOwned, OwnerState
<1>4. \A w \in Req : Guarded(w)' => Guarded(w) /\ key'[w] = key[w]
  BY <1>1 DEF RemoveOnHit, WInv, IInv, TypeOK, Guarded
<1>5. \A q \in Req : pc'[q] \in PreStore => pc[q] \in PreStore
  BY DEF RemoveOnHit, WInv, IInv, TypeOK, PreStore
<1>. QED  BY <1>2, <1>3, <1>4, <1>5, QuietStep
          DEF RemoveOnHit, RestInv, WInv, IInv, TypeOK

LEMMA WaitInFlightRest ==
    ASSUME FewRequests, WInv, NEW r \in Req, WaitInFlight(r)
    PROVE  RestInv'
<1>1. /\ \A k \in Key : incoming[k] # r
      /\ \A x \in Req : pc[x] \in {"wait", "recheck"} => watching[x] # r
  BY NotOwner DEF WaitInFlight
<1>2. IncomingOwned'
  BY <1>1 DEF WaitInFlight, WInv, IInv, TypeOK, IncomingOwned
<1>3. WatchOwned'
  BY <1>1 DEF WaitInFlight, WInv, IInv, TypeOK, WatchOwned, OwnerState
<1>4. \A w \in Req : Guarded(w)' => Guarded(w) /\ key'[w] = key[w]
  BY <1>1 DEF WaitInFlight, WInv, IInv, TypeOK, Guarded
<1>5. \A q \in Req : pc'[q] \in PreStore => pc[q] \in PreStore
  BY DEF WaitInFlight, WInv, IInv, TypeOK, PreStore
<1>. QED  BY <1>2, <1>3, <1>4, <1>5, QuietStep
          DEF WaitInFlight, RestInv, WInv, IInv, TypeOK

LEMMA RecheckCacheRest ==
    ASSUME FewRequests, WInv, NEW r \in Req, RecheckCache(r)
    PROVE  RestInv'
<1>1. /\ \A k \in Key : incoming[k] # r
      /\ \A x \in Req : pc[x] \in {"wait", "recheck"} => watching[x] # r
  BY NotOwner DEF RecheckCache
<1>2. IncomingOwned'
  BY <1>1 DEF RecheckCache, WInv, IInv, TypeOK, IncomingOwned
<1>3. WatchOwned'
  BY <1>1 DEF RecheckCache, WInv, IInv, TypeOK, WatchOwned, OwnerState
<1>4. \A w \in Req : Guarded(w)' => Guarded(w) /\ key'[w] = key[w]
  BY <1>1 DEF RecheckCache, WInv, IInv, TypeOK, Guarded
<1>5. \A q \in Req : pc'[q] \in PreStore => pc[q] \in PreStore
  BY DEF RecheckCache, WInv, IInv, TypeOK, PreStore
<1>. QED  BY <1>2, <1>3, <1>4, <1>5, QuietStep
          DEF RecheckCache, RestInv, WInv, IInv, TypeOK

(* Steps of a request that owns an entry or gives up: the in-flight     *)
(* table and the watchers follow it, and no request becomes guarded.     *)
LEMMA IncomingEntryRest ==
    ASSUME FewRequests, WInv, NEW r \in Req, IncomingEntry(r)
    PROVE  RestInv'
<1>. DEFINE k == key[r]
<1>1. /\ \A j \in Key : incoming[j] # r
      /\ \A x \in Req : pc[x] \in {"wait", "recheck"} => watching[x] # r
  BY NotOwner DEF IncomingEntry
<1>2. /\ pc[r] = "entry" /\ k \in Key
      /\ chan' = [chan EXCEPT ![r] = "open"]
      /\ UNCHANGED <<head, cache, key>>
  BY DEF IncomingEntry, WInv, IInv, KeyDefined
<1>3. IncomingOwned'
  BY RouterAssumption DEF IncomingEntry, WInv, IInv, TypeOK, IncomingOwned
<1>4. CASE incoming[k] # NoReq
  <2>. DEFINE w == incoming[k]
  <2>1. /\ watching' = [watching EXCEPT ![r] = w]
        /\ pc' = [pc EXCEPT ![r] = "wait"]
        /\ UNCHANGED incoming
    BY <1>4 DEF IncomingEntry
  <2>2. /\ w \in Req /\ w # r /\ key[w] = k
        /\ \/ pc[w] \in {"dispatch", "store", "release"} /\ chan[w] = "open"
           \/ pc[w] = "done" /\ chan[w] = "closed"
    BY <1>1, <1>2, <1>4 DEF WInv, IncomingOwned
  <2>3. WatchOwned'
    BY <1>1, <1>2, <2>1, <2>2 DEF WInv, IInv, TypeOK, WatchOwned, OwnerState
  <2>4. \A v \in Req : Guarded(v)' => Guarded(v) /\ key'[v] = key[v]
    BY <1>1, <1>2, <2>1, <2>2 DEF WInv, IInv, TypeOK, Guarded
  <2>5. \A q \in Req : pc'[q] \in PreStore => pc[q] \in PreStore
    BY <1>2, <2>1 DEF WInv, IInv, TypeOK, PreStore
  <2>. QED  BY <1>2, <1>3, <2>3, <2>4, <2>5, QuietStep
            DEF RestInv, WInv, IInv, TypeOK
<1>5. CASE incoming[k] = NoReq
  <2>1. /\ incoming' = [incoming EXCEPT ![k] = r]
        /\ pc' = [pc EXCEPT ![r] = "dispatch"]
        /\ UNCHANGED watching
    BY <1>5 DEF IncomingEntry
  <2>3. WatchOwned'
    BY <1>1, <1>2, <2>1 DEF WInv, IInv, TypeOK, WatchOwned, OwnerState
  <2>4. \A v \in Req : Guarded(v)' => Guarded(v) /\ key'[v] = key[v]
    BY <1>1, <1>2, <2>1 DEF WInv, IInv, TypeOK, Guarded
  <2>5. \A q \in Req : pc'[q] \in PreStore => pc[q] \in PreStore
    BY <1>2, <2>1 DEF WInv, IInv, TypeOK, PreStore
  <2>. QED  BY <1>2, <1>3, <2>3, <2>4, <2>5, QuietStep
            DEF RestInv, WInv, IInv, TypeOK
<1>. QED  BY <1>4, <1>5

LEMMA UpstreamSuccessRest ==
    ASSUME FewRequests, WInv, NEW r \in Req, UpstreamSuccess(r)
    PROVE  RestInv'
<1>2. IncomingOwned'
  BY RouterAssumption DEF UpstreamSuccess, WInv, IInv, TypeOK, IncomingOwned
<1>3. WatchOwned'
  BY RouterAssumption DEF UpstreamSuccess, WInv, IInv, TypeOK, IncomingOwned, WatchOwned, OwnerState
<1>4. \A w \in Req : Guarded(w)' => Guarded(w) /\ key'[w] = key[w]
  BY RouterAssumption DEF UpstreamSuccess, WInv, IInv, TypeOK, IncomingOwned, Guarded
<1>5. \A q \in Req : pc'[q] \in PreStore => pc[q] \in PreStore
  BY DEF UpstreamSuccess, WInv, IInv, TypeOK, PreStore
<1>. QED  BY <1>2, <1>3, <1>4, <1>5, QuietStep
          DEF UpstreamSuccess, RestInv, WInv, IInv, TypeOK

LEMMA UpstreamErrorRest ==
    ASSUME FewRequests, WInv, NEW r \in Req, UpstreamError(r)
    PROVE  RestInv'
<1>2. IncomingOwned'
  BY RouterAssumption DEF UpstreamError, WInv, IInv, TypeOK, IncomingOwned
<1>3. WatchOwned'
  BY RouterAssumption DEF UpstreamError, WInv, IInv, TypeOK, IncomingOwned, WatchOwned, OwnerState
<1>4. \A w \in Req : Guarded(w)' => Guarded(w) /\ key'[w] = key[w]
  BY RouterAssumption DEF UpstreamError, WInv, IInv, TypeOK, IncomingOwned, Guarded
<1>5. \A q \in Req : pc'[q] \in PreStore => pc[q] \in PreStore
  BY DEF UpstreamError, WInv, IInv, TypeOK, PreStore
<1>. QED  BY <1>2, <1>3, <1>4, <1>5, QuietStep
          DEF UpstreamError, RestInv, WInv, IInv, TypeOK

LEMMA TimeoutRest ==
    ASSUME FewRequests, WInv, NEW r \in Req, Timeout(r)
    PROVE  RestInv'
<1>2. IncomingOwned'
  BY RouterAssumption DEF Timeout, WInv, IInv, TypeOK, IncomingOwned
<1>3. WatchOwned'
  BY RouterAssumption DEF Timeout, WInv, IInv, TypeOK, IncomingOwned, WatchOwned, OwnerState
<1>4. \A w \in Req : Guarded(w)' => Guarded(w) /\ key'[w] = key[w]
  BY RouterAssumption DEF Timeout, WInv, IInv, TypeOK, IncomingOwned, Guarded
<1>5. \A q \in Req : pc'[q] \in PreStore => pc[q] \in PreStore
  BY DEF Timeout, WInv, IInv, TypeOK, PreStore
<1>. QED  BY <1>2, <1>3, <1>4, <1>5, QuietStep
          DEF Timeout, RestInv, WInv, IInv, TypeOK

LEMMA RemoveIncomingRest ==
    ASSUME FewRequests, WInv, NEW r \in Req, RemoveIncoming(r)
    PROVE  RestInv'
<1>2. IncomingOwned'
  BY RouterAssumption DEF RemoveIncoming, WInv, IInv, TypeOK, IncomingOwned
<1>3. WatchOwned'
  BY RouterAssumption DEF RemoveIncoming, WInv, IInv, TypeOK, IncomingOwned, WatchOwned, OwnerState
<1>4. \A w \in Req : Guarded(w)' => Guarded(w) /\ key'[w] = key[w]
  BY RouterAssumption DEF RemoveIncoming, WInv, IInv, TypeOK, IncomingOwned, Guarded
<1>5. \A q \in Req : pc'[q] \in PreStore => pc[q] \in PreStore
  BY DEF RemoveIncoming, WInv, IInv, TypeOK, PreStore
<1>. QED  BY <1>2, <1>3, <1>4, <1>5, QuietStep
          DEF RemoveIncoming, RestInv, WInv, IInv, TypeOK

LEMMA SignalAndReturnRest ==
    ASSUME FewRequests, WInv, NEW r \in Req, SignalAndReturn(r)
    PROVE  RestInv'
<1>2. IncomingOwned'
  BY RouterAssumption DEF SignalAndReturn, WInv, IInv, TypeOK, IncomingOwned
<1>3. WatchOwned'
  BY RouterAssumption DEF SignalAndReturn, WInv, IInv, TypeOK, IncomingOwned, WatchOwned, OwnerState
<1>4. \A w \in Req : Guarded(w)' => Guarded(w) /\ key'[w] = key[w]
  BY RouterAssumption DEF SignalAndReturn, WInv, IInv, TypeOK, IncomingOwned, Guarded
<1>5. \A q \in Req : pc'[q] \in PreStore => pc[q] \in PreStore
  BY DEF SignalAndReturn, WInv, IInv, TypeOK, PreStore
<1>. QED  BY <1>2, <1>3, <1>4, <1>5, QuietStep
          DEF SignalAndReturn, RestInv, WInv, IInv, TypeOK

(* After one request stores key j, j and every key that was safe are      *)
(* safe: j is newest and the stores left are one fewer than before, and  *)
(* another key gains at most one newer entry while the stores left drop  *)
(* by one, or is popped only when it was the last store's victim and no  *)
(* store remains.                                                          *)
LEMMA SafeAfterStore ==
    ASSUME FewRequests, cache \in Seq(Key), IsInjective(cache),
           Len(cache) < RESPONSE_CACHE_CAP, NEW j \in Key,
           cache' = CacheEvict(CacheInsert(cache, j)),
           PreCount(pc') = NPre - 1, NPre >= 1,
           NEW k, k = j \/ Safe(k)
    PROVE  Safe(k)'
<1>. DEFINE ev == CacheEvict(CacheInsert(cache, j))
<1>0. ev = CacheEvict(CacheInsert(cache, j))
  OBVIOUS
<1>. HIDE DEF ev
<1>1. /\ ev \in Seq(Key)
      /\ \/ \E i2 \in 1..Len(ev) : ev[i2] = j /\ Len(ev) - i2 = 0
         \/ RESPONSE_CACHE_CAP <= 1
      /\ \A i \in 1..Len(cache) : cache[i] # j =>
            \/ \E i3 \in 1..Len(ev) : ev[i3] = cache[i]
                                     /\ Len(ev) - i3 <= Len(cache) - i + 1
            \/ RESPONSE_CACHE_CAP - 1 <= Len(cache) - i + 1
  <2>1. /\ cache \in Seq(Key) /\ IsInjective(cache)
        /\ Len(cache) < RESPONSE_CACHE_CAP /\ j \in Key
    OBVIOUS
  <2>2. \A cc \in Seq(Key), jj \in Key : \A ee :
           (IsInjective(cc) /\ Len(cc) < RESPONSE_CACHE_CAP
            /\ ee = CacheEvict(CacheInsert(cc, jj))) =>
             /\ ee \in Seq(Key)
             /\ \/ \E i2 \in 1..Len(ee) : ee[i2] = jj /\ Len(ee) - i2 = 0
                \/ RESPONSE_CACHE_CAP <= 1
             /\ \A i \in 1..Len(cc) : cc[i] # jj =>
                   \/ \E i3 \in 1..Len(ee) : ee[i3] = cc[i]
                                            /\ Len(ee) - i3 <= Len(cc) - i + 1
                   \/ RESPONSE_CACHE_CAP - 1 <= Len(cc) - i + 1
    BY StorePositions
  <2>3. ev \in Seq(Key)
    BY <1>0, <2>1, <2>2
  <2>4. \/ \E i2 \in 1..Len(ev) : ev[i2] = j /\ Len(ev) - i2 = 0
        \/ RESPONSE_CACHE_CAP <= 1
    BY <1>0, <2>1, <2>2
  <2>5. \A i \in 1..Len(cache) : cache[i] # j =>
            \/ \E i3 \in 1..Len(ev) : ev[i3] = cache[i]
                                     /\ Len(ev) - i3 <= Len(cache) - i + 1
            \/ RESPONSE_CACHE_CAP - 1 <= Len(cache) - i + 1
    BY <1>0, <2>1, <2>2
  <2>. QED  BY <2>3, <2>4, <2>5
<1>2. /\ NPre \in Nat /\ NPre <= Cardinality(Req)
      /\ Cardinality(Req) \in Nat /\ Cardinality(Req) <= RESPONSE_CACHE_CAP
      /\ RESPONSE_CACHE_CAP \in Nat /\ Len(cache) \in Nat /\ Len(ev) \in Nat
  BY <1>1, PreCountType, FS_CardinalityType, RouterAssumption, LenProperties
     DEF FewRequests, NPre
<1>3. NPre' = NPre - 1
  BY DEF NPre
<1>4. CASE k = j
  <2>1. CASE \E i2 \in 1..Len(ev) : ev[i2] = j /\ Len(ev) - i2 = 0
    <3>1. PICK i2 \in 1..Len(ev) : ev[i2] = j /\ Len(ev) - i2 = 0
      BY <2>1
    <3>2. Len(ev) - i2 + NPre' <= RESPONSE_CACHE_CAP - 1
      BY <1>2, <1>3, <3>1
    <3>. QED  BY <1>4, <3>1, <3>2 DEF Safe, ev
  <2>2. CASE RESPONSE_CACHE_CAP <= 1
    <3>1. NPre' = 0
      BY <1>2, <1>3, <2>2
    <3>. QED  BY <3>1 DEF Safe
  <2>. QED  BY <1>1, <2>1, <2>2
<1>5. CASE k # j
  <2>1. PICK i \in 1..Len(cache) :
           cache[i] = k /\ Len(cache) - i + NPre <= RESPONSE_CACHE_CAP - 1
    BY <1>2, <1>5 DEF Safe
  <2>2. CASE \E i3 \in 1..Len(ev) : ev[i3] = cache[i]
                                   /\ Len(ev) - i3 <= Len(cache) - i + 1
    <3>1. PICK i3 \in 1..Len(ev) : ev[i3] = cache[i]
                                  /\ Len(ev) - i3 <= Len(cache) - i + 1
      BY <2>2
    <3>2. Len(ev) - i3 + NPre' <= RESPONSE_CACHE_CAP - 1
      BY <1>2, <1>3, <2>1, <3>1
    <3>. QED  BY <2>1, <3>1, <3>2 DEF Safe, ev
  <2>3. CASE RESPONSE_CACHE_CAP - 1 <= Len(cache) - i + 1
    <3>1. NPre' = 0
      BY <1>2, <1>3, <2>1, <2>3
    <3>. QED  BY <3>1 DEF Safe
  <2>. QED  BY <1>1, <1>5, <2>1, <2>2, <2>3
<1>. QED  BY <1>4, <1>5

(* The store itself: the response goes into the cache before the waiters *)
(* are woken, and the request moves on to releasing its entry.            *)
LEMMA StoreResponseRest ==
    ASSUME FewRequests, WInv, NEW r \in Req, StoreResponse(r)
    PROVE  RestInv'
<1>. DEFINE j == key[r]
<1>1. /\ pc[r] = "store" /\ j \in Key
      /\ pc' = [pc EXCEPT ![r] = "release"]
      /\ cache' = CacheEvict(CacheInsert(cache, j))
      /\ UNCHANGED <<incoming, chan, key, watching>>
  BY DEF StoreResponse, WInv, IInv, KeyDefined
<1>2. IncomingOwned'
  BY <1>1 DEF WInv, IInv, TypeOK, IncomingOwned
<1>3. WatchOwned'
  BY <1>1 DEF WInv, IInv, TypeOK, WatchOwned, OwnerState
<1>4. PreCount(pc') = NPre - 1 /\ NPre >= 1
  <2>1. \A q \in Req \ {r} : pc'[q] = pc[q]
    BY <1>1 DEF WInv, IInv, TypeOK
  <2>2. pc[r] \in PreStore /\ pc'[r] \notin PreStore
    BY <1>1 DEF WInv, IInv, TypeOK, PreStore
  <2>. QED  BY <2>1, <2>2, PreCountDrop DEF FewRequests, NPre
<1>5. \A w \in Req : Guarded(w)' => (key[w] = j \/ Safe(key[w]))
  <2> SUFFICES ASSUME NEW w \in Req, Guarded(w)', w # r
               PROVE  Safe(key[w])
    OBVIOUS
  <2>1. Guarded(w)
    BY <1>1 DEF WInv, IInv, TypeOK, Guarded
  <2>. QED  BY <2>1 DEF WInv, StoredSafe
<1>6. /\ cache \in Seq(Key) /\ IsInjective(cache)
      /\ Len(cache) < RESPONSE_CACHE_CAP
  BY DEF WInv, IInv, TypeOK, CacheBounded
<1>7. StoredSafe'
  <2> SUFFICES ASSUME NEW w \in Req, Guarded(w)'
               PROVE  Safe(key[w])'
    BY <1>1 DEF StoredSafe
  <2>1. key'[w] = key[w]
    BY <1>1
  <2>. QED  BY <1>1, <1>4, <1>5, <1>6, SafeAfterStore
<1>. QED  BY <1>2, <1>3, <1>7 DEF RestInv

(* A new head, the final idle step and a stutter leave everything the     *)
(* invariant reads alone.                                                  *)
LEMMA EnvRest ==
    ASSUME WInv, NewHead \/ Finished \/ UNCHANGED vars
    PROVE  RestInv'
BY DEF NewHead, Finished, vars, WInv, RestInv, IncomingOwned, WatchOwned,
       OwnerState, StoredSafe, Guarded, Safe, NPre, PreCount

(* Every step keeps the invariant, when there are no more requests than   *)
(* cache entries.                                                          *)
LEMMA WStep ==
    ASSUME FewRequests, WInv, [Next]_vars
    PROVE  WInv'
<1>1. IInv'
  BY StepIInv DEF WInv
<1>2. RestInv'
  <2>1. CASE \E r \in Req : Progress(r) \/ Timeout(r)
    <3>1. PICK r \in Req : Progress(r) \/ Timeout(r)
      BY <2>1
    <3>. QED
      BY <3>1, ComputeKeyRest, BypassCacheRest, CacheLookupRest, RemoveOnHitRest,
         IncomingEntryRest, WaitInFlightRest, RecheckCacheRest,
         UpstreamSuccessRest, UpstreamErrorRest, StoreResponseRest,
         RemoveIncomingRest, SignalAndReturnRest, TimeoutRest
      DEF Progress
  <2>2. CASE NewHead \/ Finished \/ UNCHANGED vars
    BY <2>2, EnvRest
  <2>. QED  BY <2>1, <2>2 DEF Next
<1>. QED  BY <1>1, <1>2 DEF WInv, RestInv

(* The invariant holds throughout every behaviour with few requests.     *)
LEMMA AlwaysWInv == FewRequests => (Spec => []WInv)
<1> SUFFICES ASSUME FewRequests PROVE Spec => []WInv
  OBVIOUS
<1>1. Init => WInv
  BY InitWInv
<1>2. WInv /\ [Next]_vars => WInv'
  BY WStep
<1>. QED  BY <1>1, <1>2, PTL DEF Spec

(* A request that may still store keeps the count of such requests above *)
(* zero.                                                                   *)
LEMMA NPrePositive ==
    ASSUME IsFiniteSet(Req), NEW r \in Req, pc[r] \in PreStore
    PROVE  NPre # 0
<1>. DEFINE F == {q \in Req : pc[q] \in PreStore}
<1>1. IsFiniteSet(F) /\ r \in F
  BY FS_Subset
<1>. QED  BY <1>1, FS_EmptySet DEF NPre, PreCount

(* The invariant gives the property: the watched request has sent, so it *)
(* is guarded and its key is safe, and the waiter itself has not stored.  *)
LEMMA WInvWaiter ==
    ASSUME FewRequests, WInv
    PROVE  WaiterFindsResponse
<1> SUFFICES ASSUME NEW r \in Req, pc[r] = "recheck", chan[watching[r]] = "sent"
             PROVE  Contains(cache, key[r])
  BY DEF WaiterFindsResponse
<1>1. /\ watching[r] \in Req
      /\ key[watching[r]] = key[r]
  BY DEF WInv, WatchOwned
<1>2. Guarded(watching[r])
  BY <1>1 DEF Guarded
<1>3. Safe(key[r])
  BY <1>1, <1>2 DEF WInv, StoredSafe
<1>4. NPre # 0
  BY NPrePositive DEF FewRequests, PreStore
<1>. QED  BY <1>3, <1>4 DEF Safe, Contains

-----------------------------------------------------------------------------
(* WaiterFindsResponse for every number of heads and methods and every    *)
(* cache cap not below the number of requests: in proxy_web3_rpc_request *)
(* a request that joined another's in-flight entry and was woken by its  *)
(* send finds the response in response_cache on its second lookup.  The *)
(* owner inserted it before send(), the waiter itself has not stored yet, *)
(* so the stores that could still pop it from the front are too few.     *)
THEOREM WaiterThm == FewRequests => (Spec => []WaiterFindsResponse)
<1> SUFFICES ASSUME FewRequests PROVE Spec => []WaiterFindsResponse
  OBVIOUS
<1>1. WInv => WaiterFindsResponse
  BY WInvWaiter
<1>. QED  BY <1>1, AlwaysWInv, PTL

=============================================================================
