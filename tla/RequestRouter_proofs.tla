------------------------ MODULE RequestRouter_proofs ------------------------
(***************************************************************************)
(* Proofs about RequestRouter for every value of its constants.            *)
(***************************************************************************)
EXTENDS RequestRouter, SequenceTheorems, TLAPS

(***************************************************************************)
(* Lemmas about the response cache helpers.                                *)
(***************************************************************************)

(* Concatenating the part of c before position i with the part after it *)
(* drops position i.  Stated for any two such parts, so that the provers  *)
(* need not reason about SubSeq terms while they do arithmetic.           *)
LEMMA ConcatAroundPosition ==
    ASSUME NEW S, NEW c \in Seq(S), NEW i \in 1..Len(c),
           NEW a \in Seq(S), NEW b \in Seq(S),
           Len(a) = i - 1, Len(b) = Len(c) - i,
           \A j \in 1..i - 1 : a[j] = c[j],
           \A j \in 1..Len(c) - i : b[j] = c[i + j]
    PROVE  /\ a \o b \in Seq(S)
           /\ Len(a \o b) = Len(c) - 1
           /\ \A j \in 1..Len(c) - 1 : (a \o b)[j] = IF j < i THEN c[j] ELSE c[j + 1]
<1>1. /\ a \o b \in Seq(S)
      /\ Len(a \o b) = Len(a) + Len(b)
      /\ \A j \in 1..Len(a) + Len(b) :
            (a \o b)[j] = IF j <= Len(a) THEN a[j] ELSE b[j - Len(a)]
  BY ConcatProperties
<1>2. QED
  BY <1>1

(* RemoveAt drops one position of a sequence, keeping the others in order. *)
LEMMA RemoveAtProps ==
    ASSUME NEW S, NEW c \in Seq(S), NEW i \in 1..Len(c)
    PROVE  /\ RemoveAt(c, i) \in Seq(S)
           /\ Len(RemoveAt(c, i)) = Len(c) - 1
           /\ \A j \in 1..Len(c) - 1 :
                 RemoveAt(c, i)[j] = IF j < i THEN c[j] ELSE c[j + 1]
<1> DEFINE front == SubSeq(c, 1, i - 1)
           back  == SubSeq(c, i + 1, Len(c))
<1> HIDE DEF front, back
<1>1. Len(c) \in Nat
  BY LenProperties
<1>2. /\ front \in Seq(S)
      /\ Len(front) = i - 1
      /\ \A j \in 1..i - 1 : front[j] = c[j]
  BY LenProperties, SubSeqProperties DEF front
<1>3. /\ back \in Seq(S)
      /\ Len(back) = Len(c) - i
      /\ \A j \in 1..Len(c) - i : back[j] = c[i + j]
  <2>1. \A k \in (i + 1)..Len(c) : c[k] \in S
    BY LenProperties
  <2>2. /\ back \in Seq(S)
        /\ Len(back) = IF i + 1 <= Len(c) THEN Len(c) - (i + 1) + 1 ELSE 0
        /\ \A j \in 1..Len(c) - (i + 1) + 1 : back[j] = c[(i + 1) + j - 1]
    BY <2>1, SubSeqProperties DEF back
  <2>3. Len(back) = IF i + 1 <= Len(c) THEN Len(c) - (i + 1) + 1 ELSE 0
    BY <2>2
  <2>4. Len(back) = Len(c) - i
    BY <1>1, <2>3
  <2>5. \A j \in 1..Len(c) - (i + 1) + 1 : back[j] = c[(i + 1) + j - 1]
    BY <2>2
  <2>6. \A j \in 1..Len(c) - i : back[j] = c[i + j]
    BY <1>1, <2>5
  <2>7. QED
    BY <2>2, <2>4, <2>6
<1>4. /\ front \o back \in Seq(S)
      /\ Len(front \o back) = Len(c) - 1
      /\ \A j \in 1..Len(c) - 1 : (front \o back)[j] = IF j < i THEN c[j] ELSE c[j + 1]
  BY <1>1, <1>2, <1>3, ConcatAroundPosition
<1>5. RemoveAt(c, i) = front \o back
  BY DEF RemoveAt, front, back
<1>6. QED
  BY <1>4, <1>5

(* Removing a position of a sequence without repeats leaves a sequence   *)
(* without repeats that no longer holds the removed element.              *)
LEMMA RemoveAtInjective ==
    ASSUME NEW S, NEW c \in Seq(S), NEW i \in 1..Len(c), IsInjective(c)
    PROVE  /\ IsInjective(RemoveAt(c, i))
           /\ \A j \in 1..Len(c) - 1 : RemoveAt(c, i)[j] # c[i]
<1>1. Len(c) \in Nat /\ DOMAIN c = 1..Len(c)
  BY LenProperties
<1>2. /\ RemoveAt(c, i) \in Seq(S)
      /\ Len(RemoveAt(c, i)) = Len(c) - 1
      /\ \A j \in 1..Len(c) - 1 :
            RemoveAt(c, i)[j] = IF j < i THEN c[j] ELSE c[j + 1]
  BY RemoveAtProps
<1>3. DOMAIN RemoveAt(c, i) = 1..Len(c) - 1
  BY <1>2, LenProperties
<1>4. \A j \in 1..Len(c) - 1 :
         \E m \in 1..Len(c) : m # i /\ RemoveAt(c, i)[j] = c[m]
                            /\ m = IF j < i THEN j ELSE j + 1
  BY <1>1, <1>2
<1>5. \A j \in 1..Len(c) - 1 : RemoveAt(c, i)[j] # c[i]
  BY <1>1, <1>4 DEF IsInjective
<1>6. IsInjective(RemoveAt(c, i))
  <2> SUFFICES ASSUME NEW a \in 1..Len(c) - 1, NEW b \in 1..Len(c) - 1,
                      RemoveAt(c, i)[a] = RemoveAt(c, i)[b]
               PROVE  a = b
    BY <1>3 DEF IsInjective
  <2>1. PICK ma \in 1..Len(c) : RemoveAt(c, i)[a] = c[ma]
                                /\ ma = IF a < i THEN a ELSE a + 1
    BY <1>4
  <2>2. PICK mb \in 1..Len(c) : RemoveAt(c, i)[b] = c[mb]
                                /\ mb = IF b < i THEN b ELSE b + 1
    BY <1>4
  <2>3. ma = mb
    BY <1>1, <2>1, <2>2 DEF IsInjective
  <2>4. QED
    BY <2>1, <2>2, <2>3
<1>7. QED
  BY <1>5, <1>6

(* Appending an element a sequence without repeats does not hold keeps  *)
(* it without repeats.                                                     *)
LEMMA AppendFreshInjective ==
    ASSUME NEW S, NEW s \in Seq(S), NEW k \in S, IsInjective(s),
           \A j \in 1..Len(s) : s[j] # k
    PROVE  /\ Append(s, k) \in Seq(S)
           /\ Len(Append(s, k)) = Len(s) + 1
           /\ IsInjective(Append(s, k))
<1>1. /\ Len(s) \in Nat
      /\ DOMAIN s = 1..Len(s)
      /\ Append(s, k) \in Seq(S)
      /\ Len(Append(s, k)) = Len(s) + 1
      /\ \A j \in 1..Len(s) : Append(s, k)[j] = s[j]
      /\ Append(s, k)[Len(s) + 1] = k
  BY AppendProperties, LenProperties
<1>2. DOMAIN Append(s, k) = 1..Len(s) + 1
  BY <1>1, LenProperties
<1>3. QED
  BY <1>1, <1>2 DEF IsInjective

(* CacheInsert keeps the keys distinct and adds at most one entry.        *)
LEMMA CacheInsertProps ==
    ASSUME NEW S, NEW c \in Seq(S), NEW k \in S, IsInjective(c)
    PROVE  /\ CacheInsert(c, k) \in Seq(S)
           /\ Len(CacheInsert(c, k)) \in 1..Len(c) + 1
           /\ IsInjective(CacheInsert(c, k))
<1>1. Len(c) \in Nat
  BY LenProperties
<1>2. CASE Contains(c, k)
  <2>1. PICK p \in 1..Len(c) : c[p] = k
    BY <1>2 DEF Contains
  <2>2. (CHOOSE i \in 1..Len(c) : c[i] = k) \in 1..Len(c)
        /\ c[CHOOSE i \in 1..Len(c) : c[i] = k] = k
    BY <2>1
  <2>3. PICK q \in 1..Len(c) : c[q] = k /\ q = CHOOSE i \in 1..Len(c) : c[i] = k
    BY <2>2
  <2>4. /\ RemoveAt(c, q) \in Seq(S)
        /\ Len(RemoveAt(c, q)) = Len(c) - 1
        /\ IsInjective(RemoveAt(c, q))
        /\ \A j \in 1..Len(c) - 1 : RemoveAt(c, q)[j] # k
    BY <2>3, RemoveAtProps, RemoveAtInjective
  <2>5. /\ Append(RemoveAt(c, q), k) \in Seq(S)
        /\ Len(Append(RemoveAt(c, q), k)) = Len(c) - 1 + 1
        /\ IsInjective(Append(RemoveAt(c, q), k))
    BY <2>4, AppendFreshInjective
  <2>6. CacheInsert(c, k) = Append(RemoveAt(c, q), k)
    BY <1>2, <2>3 DEF CacheInsert
  <2>7. Len(c) \in Nat \ {0}
    BY <1>1, <2>1
  <2>8. QED
    BY <2>5, <2>6, <2>7
<1>3. CASE ~Contains(c, k)
  <2>1. \A j \in 1..Len(c) : c[j] # k
    BY <1>3 DEF Contains
  <2>2. CacheInsert(c, k) = Append(c, k)
    BY <1>3 DEF CacheInsert
  <2>3. QED
    BY <1>1, <2>1, <2>2, AppendFreshInjective
<1>4. QED
  BY <1>2, <1>3

(* The pop_front after an insert brings a cache of at most               *)
(* RESPONSE_CACHE_CAP keys back under the cap, keeping the keys distinct. *)
LEMMA CacheEvictProps ==
    ASSUME NEW S, NEW c \in Seq(S), IsInjective(c),
           Len(c) <= RESPONSE_CACHE_CAP
    PROVE  /\ CacheEvict(c) \in Seq(S)
           /\ Len(CacheEvict(c)) < RESPONSE_CACHE_CAP
           /\ IsInjective(CacheEvict(c))
<1>1. /\ Len(c) \in Nat
      /\ DOMAIN c = 1..Len(c)
      /\ RESPONSE_CACHE_CAP \in Nat \ {0}
  BY LenProperties, RouterAssumption
<1>2. CASE Len(c) >= RESPONSE_CACHE_CAP
  <2>1. c # << >>
    BY <1>1, <1>2
  <2>2. /\ Tail(c) \in Seq(S)
        /\ Len(Tail(c)) = Len(c) - 1
        /\ \A i \in 1..Len(Tail(c)) : Tail(c)[i] = c[i + 1]
    BY <2>1, HeadTailProperties
  <2>3. DOMAIN Tail(c) = 1..Len(c) - 1
    BY <2>2, LenProperties
  <2>4. IsInjective(Tail(c))
    BY <1>1, <2>2, <2>3 DEF IsInjective
  <2>5. CacheEvict(c) = Tail(c)
    BY <1>2 DEF CacheEvict
  <2>6. QED
    BY <1>1, <1>2, <2>2, <2>4, <2>5
<1>3. CASE ~(Len(c) >= RESPONSE_CACHE_CAP)
  <2>1. CacheEvict(c) = c
    BY <1>3 DEF CacheEvict
  <2>2. QED
    BY <1>1, <1>3, <2>1
<1>4. QED
  BY <1>2, <1>3

-----------------------------------------------------------------------------
(***************************************************************************)
(* The inductive invariant.  TypeOK alone is not inductive: StoreResponse *)
(* appends key[r] to the cache, which is a key only because every request *)
(* between "idle" and "done" has computed one (KeyDefined: a request that *)
(* bypasses the cache ends without one); and the cache stays a       *)
(* sequence of distinct keys under the cap only because it was one before *)
(* the insert (CacheBounded).                                              *)
(***************************************************************************)
KeyDefined == \A r \in Req : pc[r] \notin {"idle", "done"} => key[r] \in Key

IInv == TypeOK /\ KeyDefined /\ CacheBounded

LEMMA InitIInv == Init => IInv
<1> SUFFICES ASSUME Init PROVE IInv
  OBVIOUS
<1>1. 0 \in Heads
  BY RouterAssumption DEF Heads
<1>2. << >> \in Seq(Key) /\ Len(<< >>) = 0
  BY EmptySeq
<1>3. IsInjective(<< >>)
  BY DEF IsInjective
<1>4. QED
  BY <1>1, <1>2, <1>3, RouterAssumption
     DEF Init, IInv, TypeOK, KeyDefined, CacheBounded, ChanStates, Labels

(* A step that leaves the cache alone keeps CacheBounded.                 *)
LEMMA StepIInv == IInv /\ [Next]_vars => IInv'
<1> SUFFICES ASSUME IInv, [Next]_vars PROVE IInv'
  OBVIOUS
<1> USE DEF IInv, TypeOK, KeyDefined, ChanStates, Labels
<1>1. ASSUME NEW r \in Req, ComputeKey(r) PROVE IInv'
  <2>1. PICK m \in Methods : key' = [key EXCEPT ![r] = <<head, m>>]
    BY <1>1 DEF ComputeKey
  <2>2. <<head, m>> \in Key
    BY DEF Key
  <2>3. QED
    BY <1>1, <2>1, <2>2 DEF ComputeKey, CacheBounded
<1>2. ASSUME NEW r \in Req, CacheLookup(r) PROVE IInv'
  BY <1>2 DEF CacheLookup, CacheBounded
<1>3. ASSUME NEW r \in Req, IncomingEntry(r) PROVE IInv'
  BY <1>3 DEF IncomingEntry, CacheBounded
<1>4. ASSUME NEW r \in Req, WaitInFlight(r) PROVE IInv'
  BY <1>4 DEF WaitInFlight, CacheBounded
<1>5. ASSUME NEW r \in Req, RecheckCache(r) PROVE IInv'
  BY <1>5 DEF RecheckCache, CacheBounded
<1>6. ASSUME NEW r \in Req, UpstreamSuccess(r) PROVE IInv'
  BY <1>6 DEF UpstreamSuccess, CacheBounded
<1>7. ASSUME NEW r \in Req, UpstreamError(r) PROVE IInv'
  BY <1>7 DEF UpstreamError, CacheBounded
<1>8. ASSUME NEW r \in Req, StoreResponse(r) PROVE IInv'
  <2>1. key[r] \in Key
    BY <1>8 DEF StoreResponse
  <2>2. /\ CacheInsert(cache, key[r]) \in Seq(Key)
        /\ Len(CacheInsert(cache, key[r])) \in 1..Len(cache) + 1
        /\ IsInjective(CacheInsert(cache, key[r]))
    BY <2>1, CacheInsertProps DEF CacheBounded
  <2>3. Len(cache) \in Nat
    BY LenProperties
  <2>4. Len(CacheInsert(cache, key[r])) <= RESPONSE_CACHE_CAP
    BY <2>2, <2>3, RouterAssumption DEF CacheBounded
  <2>5. /\ cache' \in Seq(Key)
        /\ Len(cache') < RESPONSE_CACHE_CAP
        /\ IsInjective(cache')
    BY <1>8, <2>2, <2>4, CacheEvictProps DEF StoreResponse
  <2>6. QED
    BY <1>8, <2>5 DEF StoreResponse, CacheBounded
<1>9. ASSUME NEW r \in Req, RemoveIncoming(r) PROVE IInv'
  BY <1>9 DEF RemoveIncoming, CacheBounded
<1>10. ASSUME NEW r \in Req, SignalAndReturn(r) PROVE IInv'
  BY <1>10 DEF SignalAndReturn, CacheBounded
<1>11. ASSUME NEW r \in Req, Timeout(r) PROVE IInv'
  BY <1>11 DEF Timeout, CacheBounded
<1>12. CASE NewHead
  BY <1>12, RouterAssumption DEF NewHead, Heads, CacheBounded
<1>13. CASE Finished \/ UNCHANGED vars
  BY <1>13 DEF Finished, vars, CacheBounded
<1>14. ASSUME NEW r \in Req, BypassCache(r) PROVE IInv'
  BY <1>14 DEF BypassCache, CacheBounded
<1>15. ASSUME NEW r \in Req, RemoveOnHit(r) PROVE IInv'
  BY <1>15 DEF RemoveOnHit, CacheBounded
<1>16. QED
  BY <1>1, <1>2, <1>3, <1>4, <1>5, <1>6, <1>7, <1>8, <1>9, <1>10,
     <1>11, <1>12, <1>13, <1>14, <1>15 DEF Next, Progress

(* Type correctness of every state the request tasks of                   *)
(* proxy_web3_rpc_request and the head updates can reach.                  *)
THEOREM TypeCorrect == Spec => []TypeOK
<1>1. IInv => TypeOK
  BY DEF IInv
<1>2. QED
  BY InitIInv, StepIInv, <1>1, PTL DEF Spec

(* For every cap, the insert-then-pop_front of proxy_web3_rpc_request     *)
(* keeps the response cache under RESPONSE_CACHE_CAP entries, each key    *)
(* held once, however the request tasks interleave.                       *)
THEOREM CacheBoundedThm == Spec => []CacheBounded
<1>1. IInv => CacheBounded
  BY DEF IInv
<1>2. QED
  BY InitIInv, StepIInv, <1>1, PTL DEF Spec


=============================================================================
