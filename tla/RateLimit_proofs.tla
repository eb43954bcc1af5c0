-------------------------- MODULE RateLimit_proofs --------------------------
(***************************************************************************)
(* Proofs about the frontend rate limiting of RateLimit: type correctness, *)
(* that no key without an active user_keys row is ever let through, and   *)
(* that the key limiter lets at most requests_per_minute requests of a    *)
(* key through, for every number of requests, keys and limits.             *)
(***************************************************************************)
EXTENDS RateLimit, FiniteSetTheorems, TLAPS

(* The requests of key k that the key limiter itself let through.         *)
Admitted(k) ==
    {r \in Reqs \ failOpen : key[r] = k /\ result[r] = "AllowedUser"}

(* The user_per_period count cache_user_data gives a key's row (111-115). *)
RowCount(k) == IF Rpm[k] = U64Max THEN None ELSE Rpm[k]

(* What a UserCacheValue held for key k can be: the key's own row, built  *)
(* while the row was active, or the user-0 value of a missing row.         *)
ValueFor(k, v) ==
    \/ v.user = k /\ k \in everActive /\ v.count = RowCount(k)
    \/ v.user = NoUser /\ v.count = 0

(* The strengthening of the two safety properties into an inductive       *)
(* invariant: a request past its cache check holds an api key; a request *)
(* still under way has no answer; a row found active belongs to a key in  *)
(* everActive; every cache entry and the data of a request at the limiter *)
(* are the values cache_user_data builds; and the key limiter's count    *)
(* bounds the requests it let through and is bounded by the limit.        *)
KeyHeld ==
    \A r \in Reqs : pc[r] \in {"query", "fill", "throttle"} => key[r] \in ApiKeys

NoAnswerYet ==
    \A r \in Reqs : pc[r] \in {"idle", "query", "fill", "throttle"} =>
                       result[r] = "none"

ActiveEver == \A k \in ApiKeys : active[k] => k \in everActive

CacheValid ==
    \A k \in ApiKeys : userCache[k] # None => ValueFor(k, userCache[k])

FoundKnown == \A r \in Reqs : pc[r] = "fill" /\ found[r] => key[r] \in everActive

ThrottleData ==
    \A r \in Reqs : pc[r] = "throttle" =>
        /\ data[r] \in CacheValues
        /\ data[r].user = key[r]
        /\ Rpm[key[r]] # U64Max
        /\ data[r].count = Rpm[key[r]]
        /\ key[r] \in everActive

Budget ==
    \A k \in ApiKeys : Rpm[k] # U64Max =>
        /\ Cardinality(Admitted(k)) <= count[k]
        /\ count[k] <= Rpm[k]

IInv ==
    /\ TypeOK
    /\ KeyHeld
    /\ NoAnswerYet
    /\ ActiveEver
    /\ CacheValid
    /\ FoundKnown
    /\ ThrottleData
    /\ UnknownKeyNeverAdmitted
    /\ Budget

-----------------------------------------------------------------------------
(* The requests a key's limiter let through are a finite set.             *)
LEMMA AdmittedFinite ==
    ASSUME NEW k
    PROVE  /\ IsFiniteSet(Admitted(k))
           /\ Cardinality(Admitted(k)) \in Nat
<1>1. IsFiniteSet(Admitted(k))
  BY RateLimitAssumption, FS_Subset DEF Admitted
<1>. QED  BY <1>1, FS_CardinalityType

(* No request has been answered in an initial state, every cache entry is *)
(* empty and the limiter's counts are zero.                                *)
LEMMA InitIInv == Init => IInv
<1> SUFFICES ASSUME Init PROVE IInv
  OBVIOUS
<1>1. TypeOK
  BY RateLimitAssumption DEF Init, TypeOK, Results
<1>2. \A k : Admitted(k) = {}
  BY DEF Init, Admitted
<1>3. Budget
  BY <1>2, FS_EmptySet, RateLimitAssumption DEF Budget, Init
<1>. QED
  BY <1>1, <1>3, RateLimitAssumption
  DEF Init, IInv, KeyHeld, NoAnswerYet, ActiveEver, CacheValid, FoundKnown,
      ThrottleData, UnknownKeyNeverAdmitted

(* The clock, a database write and the final stutter touch no request and *)
(* no cache entry; a write only ever adds a key to everActive.            *)
LEMMA EnvIInv ==
    ASSUME IInv, Tick \/ SetActive \/ Finished \/ UNCHANGED vars
    PROVE  IInv'
<1>1. \A k : Admitted(k)' = Admitted(k)
  BY DEF Tick, SetActive, Finished, vars, Admitted
<1>2. CASE Tick
  <2>1. TypeOK'
    BY <1>2, RateLimitAssumption DEF Tick, IInv, TypeOK
  <2>. QED
  BY <1>1, <1>2, <2>1 DEF Tick, IInv, KeyHeld, NoAnswerYet, ActiveEver,
     CacheValid, ValueFor, RowCount, FoundKnown, ThrottleData,
     UnknownKeyNeverAdmitted, Budget
<1>3. CASE SetActive
  <2>1. TypeOK'
    BY <1>3, RateLimitAssumption DEF SetActive, IInv, TypeOK
  <2>2. ActiveEver'
    BY <1>3 DEF SetActive, IInv, TypeOK, ActiveEver
  <2>3. everActive \subseteq everActive'
    BY <1>3 DEF SetActive
  <2>. QED
    BY <1>1, <1>3, <2>1, <2>2, <2>3
    DEF SetActive, IInv, KeyHeld, NoAnswerYet, CacheValid, ValueFor, RowCount,
        FoundKnown, ThrottleData, UnknownKeyNeverAdmitted, Budget
<1>4. CASE Finished \/ UNCHANGED vars
  BY <1>1, <1>4 DEF Finished, vars, IInv, TypeOK, KeyHeld, NoAnswerYet,
     ActiveEver, CacheValid, ValueFor, RowCount, FoundKnown, ThrottleData,
     UnknownKeyNeverAdmitted, Budget
<1>. QED  BY <1>2, <1>3, <1>4

(* The IP limiter answers an idle request with AllowedIp or RateLimitedIp *)
(* and touches nothing the key limiter counts.                             *)
LEMMA ByIpIInv ==
    ASSUME IInv, NEW r \in Reqs, RateLimitByIp(r)
    PROVE  IInv'
<1>1. \A k : Admitted(k)' = Admitted(k)
  BY DEF RateLimitByIp, IInv, TypeOK, NoAnswerYet, Admitted
<1>2. TypeOK'
  BY RateLimitAssumption DEF RateLimitByIp, Throttled, IInv, TypeOK, Results
<1>. QED
  BY <1>1, <1>2 DEF RateLimitByIp, IInv, TypeOK, KeyHeld, NoAnswerYet,
     ActiveEver, CacheValid, ValueFor, RowCount, FoundKnown, ThrottleData,
     UnknownKeyNeverAdmitted, Budget

(* The user_keys query reads the key's active flag, so a row it finds     *)
(* belongs to a key in everActive; its error answers "error".             *)
LEMMA QueryIInv ==
    ASSUME IInv, NEW r \in Reqs, QueryUserKeys(r)
    PROVE  IInv'
<1>1. \A k : Admitted(k)' = Admitted(k)
  BY DEF QueryUserKeys, IInv, TypeOK, NoAnswerYet, Admitted
<1>2. TypeOK'
  BY DEF QueryUserKeys, IInv, TypeOK, KeyHeld, Results
<1>3. FoundKnown'
  BY DEF QueryUserKeys, IInv, TypeOK, KeyHeld, ActiveEver, FoundKnown
<1>. QED
  BY <1>1, <1>2, <1>3 DEF QueryUserKeys, IInv, TypeOK, KeyHeld, NoAnswerYet,
     ActiveEver, CacheValid, ValueFor, RowCount, ThrottleData,
     UnknownKeyNeverAdmitted, Budget

(* A step that changes the key and the answer of one request still under *)
(* way, and leaves failOpen alone, changes the requests a key's limiter   *)
(* let through only for the key that request is now let through for.     *)
LEMMA AdmittedOthers ==
    ASSUME IInv, NEW r \in Reqs, pc[r] \in {"idle", "query", "fill", "throttle"},
           \A q \in Reqs \ {r} : key'[q] = key[q] /\ result'[q] = result[q],
           failOpen' = failOpen,
           NEW j, result'[r] = "AllowedUser" => key'[r] # j
    PROVE  Admitted(j)' = Admitted(j)
BY DEF IInv, NoAnswerYet, Admitted

(* A cache hit decides at once on a value cache_user_data built; a miss  *)
(* goes on to the query with nothing answered.                             *)
LEMMA CheckCacheIInv ==
    ASSUME IInv, NEW r \in Reqs, CheckCache(r)
    PROVE  IInv'
<1>. USE DEF IInv
<1>1. PICK k \in ApiKeys :
        /\ key' = [key EXCEPT ![r] = k]
        /\ IF userCache[k] # None /\ ~(userCache[k].expires < now)
             THEN Decide(r, userCache[k])
             ELSE /\ pc' = [pc EXCEPT ![r] = "query"]
                  /\ UNCHANGED <<data, result>>
  BY DEF CheckCache
<1>2. /\ pc[r] = "idle"
      /\ UNCHANGED <<now, active, dbWrites, userCache, count, ipCount, found,
                     everActive, failOpen>>
  BY DEF CheckCache
<1>3. /\ \A q \in Reqs \ {r} : key'[q] = key[q] /\ result'[q] = result[q]
      /\ key'[r] = k
  BY <1>1 DEF Decide, TypeOK
<1>4. CASE ~(userCache[k] # None /\ ~(userCache[k].expires < now))
  <2>1. \A j : Admitted(j)' = Admitted(j)
    BY <1>1, <1>2, <1>3, <1>4, AdmittedOthers DEF NoAnswerYet
  <2>. QED
    BY <1>1, <1>2, <1>3, <1>4, <2>1
    DEF TypeOK, KeyHeld, NoAnswerYet, ActiveEver, CacheValid, ValueFor,
        RowCount, FoundKnown, ThrottleData, UnknownKeyNeverAdmitted, Budget
<1>5. CASE userCache[k] # None /\ ~(userCache[k].expires < now)
  <2>. DEFINE v == userCache[k]
  <2>1. Decide(r, v)
    BY <1>1, <1>5
  <2>2. v \in CacheValues /\ ValueFor(k, v)
    BY <1>5 DEF TypeOK, CacheValid
  <2>3. v.user # NoUser => v.user = k /\ k \in everActive /\ v.count = RowCount(k)
    BY <2>2 DEF ValueFor
  <2>4. v.user = NoUser => v.count = 0
    BY <2>2, RateLimitAssumption DEF ValueFor
  <2>5. \A j \in ApiKeys : Rpm[j] # U64Max => Admitted(j)' = Admitted(j)
    <3> SUFFICES ASSUME NEW j \in ApiKeys, Rpm[j] # U64Max
                 PROVE  Admitted(j)' = Admitted(j)
      OBVIOUS
    <3>1. result'[r] = "AllowedUser" => v.user # NoUser /\ v.count = None
      BY <1>2, <2>1 DEF Decide, NoAnswerYet, TypeOK
    <3>2. v.user # NoUser /\ v.count = None => Rpm[k] = U64Max
      BY <2>3, RateLimitAssumption DEF RowCount
    <3>3. result'[r] = "AllowedUser" => key'[r] # j
      BY <1>3, <3>1, <3>2
    <3>. QED  BY <1>2, <1>3, <3>3, AdmittedOthers DEF NoAnswerYet
  <2>6. TypeOK'
    BY <1>1, <1>2, <2>1, <2>2 DEF Decide, TypeOK, Results
  <2>7. ThrottleData'
    BY <1>2, <1>3, <2>1, <2>2, <2>3, RateLimitAssumption
    DEF Decide, ThrottleData, TypeOK, RowCount
  <2>8. UnknownKeyNeverAdmitted'
    BY <1>2, <1>3, <2>1, <2>3 DEF Decide, UnknownKeyNeverAdmitted, TypeOK
  <2>9. Budget'
    BY <1>2, <2>5 DEF Budget
  <2>. QED
    BY <1>2, <1>3, <2>1, <2>6, <2>7, <2>8, <2>9
    DEF Decide, TypeOK, KeyHeld, NoAnswerYet, ActiveEver, CacheValid, ValueFor,
        RowCount, FoundKnown
<1>. QED  BY <1>4, <1>5

(* The value cache_user_data builds for a request at "fill" is one a      *)
(* cache entry of its key may hold.                                        *)
LEMMA UserValueValid ==
    ASSUME IInv, NEW r \in Reqs, pc[r] = "fill"
    PROVE  /\ UserValue(key[r], found[r]) \in CacheValues
           /\ ValueFor(key[r], UserValue(key[r], found[r]))
<1>1. key[r] \in ApiKeys /\ now \in 0..MaxTime
  BY DEF IInv, KeyHeld, TypeOK
<1>2. UserValue(key[r], found[r]) \in CacheValues
  BY <1>1, RateLimitAssumption DEF UserValue, CacheValues, Time, RowCount
<1>3. ValueFor(key[r], UserValue(key[r], found[r]))
  BY <1>1, RateLimitAssumption DEF UserValue, ValueFor, RowCount, IInv, FoundKnown
<1>. QED  BY <1>2, <1>3

(* cache_user_data inserts the value it built and the request decides on *)
(* it, as a cache hit does.                                                *)
LEMMA FillCacheIInv ==
    ASSUME IInv, NEW r \in Reqs, FillCache(r)
    PROVE  IInv'
<1>. USE DEF IInv
<1>. DEFINE k == key[r]
            v == UserValue(k, found[r])
<1>1. /\ pc[r] = "fill"
      /\ userCache' = [userCache EXCEPT ![k] = v]
      /\ Decide(r, v)
      /\ UNCHANGED <<now, active, dbWrites, count, ipCount, key, found,
                     everActive, failOpen>>
  BY DEF FillCache
<1>2. k \in ApiKeys /\ v \in CacheValues /\ ValueFor(k, v)
  BY <1>1, UserValueValid DEF KeyHeld
<1>. HIDE DEF v
<1>3. v.user # NoUser => v.user = k /\ k \in everActive /\ v.count = RowCount(k)
  BY <1>2 DEF ValueFor
<1>4. \A j \in ApiKeys : Rpm[j] # U64Max => Admitted(j)' = Admitted(j)
  <2> SUFFICES ASSUME NEW j \in ApiKeys, Rpm[j] # U64Max
               PROVE  Admitted(j)' = Admitted(j)
    OBVIOUS
  <2>1. result'[r] = "AllowedUser" => v.user # NoUser /\ v.count = None
    BY <1>1 DEF Decide, NoAnswerYet, TypeOK
  <2>2. v.user # NoUser /\ v.count = None => Rpm[k] = U64Max
    BY <1>2, <1>3, RateLimitAssumption DEF RowCount
  <2>3. \A q \in Reqs \ {r} : key'[q] = key[q] /\ result'[q] = result[q]
    BY <1>1 DEF Decide, TypeOK
  <2>. QED  BY <1>1, <2>1, <2>2, <2>3, AdmittedOthers DEF NoAnswerYet
<1>5. TypeOK'
  BY <1>1, <1>2 DEF Decide, TypeOK, Results
<1>6. CacheValid'
  BY <1>1, <1>2 DEF CacheValid, ValueFor, TypeOK
<1>7. ThrottleData'
  BY <1>1, <1>2, <1>3, RateLimitAssumption
  DEF Decide, ThrottleData, TypeOK, RowCount
<1>8. UnknownKeyNeverAdmitted'
  BY <1>1, <1>3 DEF Decide, UnknownKeyNeverAdmitted, TypeOK
<1>9. Budget'
  BY <1>1, <1>4 DEF Budget
<1>. QED
  BY <1>1, <1>5, <1>6, <1>7, <1>8, <1>9
  DEF Decide, TypeOK, KeyHeld, NoAnswerYet, ActiveEver, FoundKnown

(* The key limiter: Allowed counts the request it lets through, so the   *)
(* count still bounds them and, being under the limit before, is at most *)
(* the limit after; RetryAt lets nothing through; Err lets the request   *)
(* through outside the count, and the request joins failOpen.             *)
LEMMA ThrottleKeyIInv ==
    ASSUME IInv, NEW r \in Reqs, ThrottleKey(r)
    PROVE  IInv'
<1>. USE DEF IInv
<1>. DEFINE k == key[r]
<1>1. PICK t \in Throttled(data[r].count, count[k]) :
        /\ count' = [count EXCEPT ![k] = t.cnt]
        /\ result' = [result EXCEPT ![r] = IF LetThrough(t) THEN "AllowedUser"
                                                           ELSE "RateLimitedUser"]
        /\ failOpen' = IF t.verdict = "Err" THEN failOpen \cup {r} ELSE failOpen
  BY DEF ThrottleKey
<1>2. /\ pc[r] = "throttle"
      /\ pc' = [pc EXCEPT ![r] = "done"]
      /\ UNCHANGED <<now, active, dbWrites, userCache, ipCount, key, found, data,
                     everActive>>
  BY DEF ThrottleKey
<1>3. /\ k \in ApiKeys /\ k \in everActive
      /\ Rpm[k] \in Nat /\ Rpm[k] # U64Max /\ data[r].count = Rpm[k]
      /\ count[k] \in Nat /\ result[r] = "none"
  BY <1>2, RateLimitAssumption DEF ThrottleData, TypeOK, NoAnswerYet
<1>4. \/ t.verdict = "Allowed" /\ count[k] < Rpm[k] /\ t.cnt = count[k] + 1
      \/ t.verdict = "RetryAt" /\ t.cnt = count[k]
      \/ t.verdict = "Err" /\ t.cnt = count[k]
  BY <1>1, <1>3 DEF Throttled
<1>5. \A q \in Reqs \ {r} : key'[q] = key[q] /\ result'[q] = result[q]
  BY <1>1, <1>2 DEF TypeOK
<1>6. \A j \in ApiKeys : j # k => Admitted(j)' = Admitted(j)
  <2> SUFFICES ASSUME NEW j \in ApiKeys, j # k PROVE Admitted(j)' = Admitted(j)
    OBVIOUS
  <2>1. CASE t.verdict = "Err"
    BY <1>1, <1>5, <2>1 DEF Admitted
  <2>2. CASE t.verdict # "Err"
    BY <1>1, <1>2, <1>5, <2>2, AdmittedOthers
  <2>. QED  BY <2>1, <2>2
<1>7. Admitted(k)' \subseteq Admitted(k) \cup {r}
  BY <1>1, <1>2, <1>5 DEF Admitted
<1>8. ASSUME t.verdict = "Allowed" PROVE Budget'
  <2>. DEFINE A == Admitted(k)
              A1 == Admitted(k)'
  <2>1. IsFiniteSet(A) /\ Cardinality(A) \in Nat
    BY AdmittedFinite
  <2>2. A1 \subseteq A \cup {r}
    BY <1>7
  <2>. HIDE DEF A, A1
  <2>3. /\ IsFiniteSet(A \cup {r})
        /\ Cardinality(A \cup {r}) = IF r \in A THEN Cardinality(A)
                                               ELSE Cardinality(A) + 1
    BY <2>1, FS_AddElement
  <2>4. Cardinality(A1) <= Cardinality(A \cup {r})
    BY <2>2, <2>3, FS_Subset
  <2>5. Cardinality(A) <= count[k]
    BY <1>3 DEF Budget, A
  <2>6. count'[k] = count[k] + 1 /\ count[k] + 1 <= Rpm[k]
    BY <1>1, <1>3, <1>4, <1>8 DEF TypeOK
  <2>7. Cardinality(A1) \in Nat
    BY <2>2, <2>3, FS_Subset, FS_CardinalityType
  <2>8. Cardinality(A1) <= count'[k] /\ count'[k] <= Rpm[k]
    BY <2>1, <2>3, <2>4, <2>5, <2>6, <2>7, <1>3
  <2>9. \A j \in ApiKeys : j # k => count'[j] = count[j]
    BY <1>1 DEF TypeOK
  <2> SUFFICES ASSUME NEW j \in ApiKeys, Rpm[j] # U64Max
                PROVE  /\ Cardinality(Admitted(j)') <= count'[j]
                       /\ count'[j] <= Rpm[j]
    BY DEF Budget
  <2>10. CASE j = k
    BY <1>2, <2>8, <2>10 DEF A1, Admitted
  <2>11. CASE j # k
    BY <1>6, <2>9, <2>11 DEF Budget
  <2>. QED  BY <2>10, <2>11
<1>9. ASSUME t.verdict \in {"RetryAt", "Err"} PROVE Budget'
  <2>1. r \notin Admitted(k) /\ r \notin Admitted(k)'
    BY <1>1, <1>3, <1>9 DEF Admitted, LetThrough, TypeOK
  <2>2. failOpen \subseteq failOpen' /\ failOpen' \subseteq failOpen \cup {r}
    BY <1>1
  <2>3. Admitted(k)' = Admitted(k)
    BY <1>2, <1>5, <2>1, <2>2 DEF Admitted
  <2>4. count' = count
    BY <1>1, <1>3, <1>4, <1>9 DEF TypeOK
  <2> SUFFICES ASSUME NEW j \in ApiKeys, Rpm[j] # U64Max
                PROVE  /\ Cardinality(Admitted(j)') <= count'[j]
                       /\ count'[j] <= Rpm[j]
    BY DEF Budget
  <2>5. CASE j = k
    BY <1>2, <2>3, <2>4, <2>5 DEF Budget, Admitted
  <2>6. CASE j # k
    BY <1>6, <2>4, <2>6 DEF Budget
  <2>. QED  BY <2>5, <2>6
<1>10. Budget'
  <2>1. CASE t.verdict = "Allowed"
    BY <1>8, <2>1
  <2>2. CASE t.verdict \in {"RetryAt", "Err"}
    BY <1>9, <2>2
  <2>. QED  BY <1>4, <2>1, <2>2
<1>11. TypeOK'
  BY <1>1, <1>2, <1>3, <1>4 DEF TypeOK, Results
<1>12. UnknownKeyNeverAdmitted'
  BY <1>1, <1>2, <1>3 DEF UnknownKeyNeverAdmitted, TypeOK
<1>. QED
  BY <1>1, <1>2, <1>10, <1>11, <1>12
  DEF TypeOK, KeyHeld, NoAnswerYet, ActiveEver, CacheValid, ValueFor, RowCount,
      FoundKnown, ThrottleData

(* Every step of the system, a stutter included, keeps the invariant.     *)
LEMMA StepIInv == IInv /\ [Next]_vars => IInv'
<1> SUFFICES ASSUME IInv, [Next]_vars PROVE IInv'
  OBVIOUS
<1>1. CASE \E r \in Reqs : CheckCache(r)
  BY <1>1, CheckCacheIInv
<1>2. CASE \E r \in Reqs : QueryUserKeys(r)
  BY <1>2, QueryIInv
<1>3. CASE \E r \in Reqs : FillCache(r)
  BY <1>3, FillCacheIInv
<1>4. CASE \E r \in Reqs : ThrottleKey(r)
  BY <1>4, ThrottleKeyIInv
<1>5. CASE \E r \in Reqs : RateLimitByIp(r)
  BY <1>5, ByIpIInv
<1>6. CASE Tick \/ SetActive \/ Finished \/ UNCHANGED vars
  BY <1>6, EnvIInv
<1>. QED  BY <1>1, <1>2, <1>3, <1>4, <1>5, <1>6 DEF Next

(* The inductive invariant holds in every state of every behaviour.      *)
LEMMA AlwaysIInv == Spec => []IInv
BY InitIInv, StepIInv, PTL DEF Spec

-----------------------------------------------------------------------------
(* Type correctness of the rate limiting model.                           *)
THEOREM TypeCorrect == Spec => []TypeOK
<1>1. IInv => TypeOK
  BY DEF IInv
<1>. QED  BY <1>1, AlwaysIInv, PTL

(* rate_limit_by_key never lets a request through on a key that has never *)
(* had an active user_keys row, whatever the interleaving of requests,    *)
(* cache expiry and database writes and even when the limiter fails open *)
(* (203): the user-0 value cache_user_data caches for a missing row stops *)
(* the request at 165, before the limiter.                                *)
THEOREM UnknownKeyThm == Spec => []UnknownKeyNeverAdmitted
<1>1. IInv => UnknownKeyNeverAdmitted
  BY DEF IInv
<1>. QED  BY <1>1, AlwaysIInv, PTL

(* However many requests share a cached UserCacheValue and race to the    *)
(* key limiter, the requests of a key it let through never exceed the    *)
(* key's requests_per_minute (unless that is u64::MAX): only a limiter   *)
(* error, which the frontend answers by failing open, admits more.        *)
THEOREM WithinLimitThm == Spec => []AdmittedWithinLimit
<1>1. IInv => AdmittedWithinLimit
  <2> SUFFICES ASSUME IInv, NEW k \in ApiKeys, Rpm[k] # U64Max
               PROVE  Cardinality(Admitted(k)) <= Rpm[k]
    BY DEF AdmittedWithinLimit, Admitted
  <2>1. Cardinality(Admitted(k)) <= count[k] /\ count[k] <= Rpm[k]
    BY DEF IInv, Budget
  <2>2. Cardinality(Admitted(k)) \in Nat /\ count[k] \in Nat /\ Rpm[k] \in Nat
    BY AdmittedFinite, RateLimitAssumption DEF IInv, TypeOK
  <2>. QED  BY <2>1, <2>2
<1>. QED  BY <1>1, AlwaysIInv, PTL

=============================================================================
