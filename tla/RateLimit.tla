----------------------------- MODULE RateLimit -----------------------------
(***************************************************************************)
(* Frontend rate limiting (src/web3_proxy/src/frontend/rate_limit.rs).     *)
(* rate_limit_by_key looks the api key up in the app's user_cache; a miss  *)
(* or an entry whose expires_at has passed runs cache_user_data, which     *)
(* queries user_keys for the active row of the key, stamps the result with *)
(* Instant::now() + 60 s and inserts it.  A key with no active row is      *)
(* cached as user 0 and answered UnknownKey.  A limited user then asks the *)
(* shared limiter; a limiter error lets the request through (fail open),   *)
(* as does a limiter error in rate_limit_by_ip.                            *)
(*                                                                         *)
(* Time is a bounded counter of ticks; TTL is the 60 s of lines 118/127 in *)
(* ticks.  The database (which keys are active) and the limiter, a counter *)
(* per key against the limit it is given (spec 6, throttle), are the       *)
(* environment.                                                            *)
(***************************************************************************)
EXTENDS Naturals, FiniteSets

CONSTANTS
    Reqs,           \* concurrent frontend requests
    ApiKeys,        \* api keys of user_keys rows; a key is its own user id
    Rpm,            \* requests_per_minute of each key's row
    U64Max,         \* u64::MAX, the "unlimited" requests_per_minute
    TTL,            \* cache lifetime of user data, in ticks
    MaxTime,        \* ticks the model lets pass
    MaxDbWrites,    \* activations and deactivations the model lets happen
    IpLimit,        \* the limit the IP limiter applies
    LimiterMayFail, \* throttle may return Err (redis unreachable)
    NoUser,         \* user id 0
    None            \* Option::None

ASSUME RateLimitAssumption ==
    /\ IsFiniteSet(Reqs)
    /\ Rpm \in [ApiKeys -> Nat \cup {U64Max}]
    /\ TTL \in Nat /\ MaxTime \in Nat /\ MaxDbWrites \in Nat /\ IpLimit \in Nat
    /\ LimiterMayFail \in BOOLEAN
    /\ NoUser \notin ApiKeys
    /\ None \notin Nat

Time == 0..(MaxTime + TTL)

(* UserCacheValue: expires_at, user_id and user_count_per_period.          *)
CacheValues == [expires : Time, user : ApiKeys \cup {NoUser},
                count : Nat \cup {None}]

Results == {"none", "AllowedUser", "RateLimitedUser", "UnknownKey",
            "AllowedIp", "RateLimitedIp", "error"}

VARIABLES
    now,         \* Instant::now(), in ticks
    active,      \* user_keys.active of each key
    dbWrites,    \* database writes made so far
    userCache,   \* Web3ProxyApp.user_cache: key -> value, or None
    count,       \* the key limiter's count of the current period per key
    ipCount,     \* the IP limiter's count of the current period
    pc,          \* where each request is
    key,         \* the api key a request presents
    found,       \* whether the user_keys query found an active row
    data,        \* the UserCacheValue a request holds
    result,      \* what the request's rate limit check returned
    everActive,  \* history: the keys that have been active at some time
    failOpen     \* history: the requests a limiter error let through

vars == <<now, active, dbWrites, userCache, count, ipCount, pc, key, found,
          data, result, everActive, failOpen>>

TypeOK ==
    /\ now \in 0..MaxTime
    /\ active \in [ApiKeys -> BOOLEAN]
    /\ dbWrites \in 0..MaxDbWrites
    /\ userCache \in [ApiKeys -> CacheValues \cup {None}]
    /\ count \in [ApiKeys -> Nat]
    /\ ipCount \in Nat
    /\ pc \in [Reqs -> {"idle", "query", "fill", "throttle", "done"}]
    /\ key \in [Reqs -> ApiKeys \cup {None}]
    /\ found \in [Reqs -> BOOLEAN]
    /\ data \in [Reqs -> CacheValues \cup {None}]
    /\ result \in [Reqs -> Results]
    /\ everActive \subseteq ApiKeys
    /\ failOpen \subseteq Reqs

Init ==
    /\ now = 0
    /\ active \in [ApiKeys -> BOOLEAN]
    /\ dbWrites = 0
    /\ userCache = [k \in ApiKeys |-> None]
    /\ count = [k \in ApiKeys |-> 0]
    /\ ipCount = 0
    /\ pc = [r \in Reqs |-> "idle"]
    /\ key = [r \in Reqs |-> None]
    /\ found = [r \in Reqs |-> FALSE]
    /\ data = [r \in Reqs |-> None]
    /\ result = [r \in Reqs |-> "none"]
    /\ everActive = {k \in ApiKeys : active[k]}
    /\ failOpen = {}

-----------------------------------------------------------------------------
(* The limiter's throttle(key, limit, 1) (spec 6): Allowed, counting the *)
(* request, while the count is under the limit, else RetryAt; Err (redis *)
(* unreachable) when LimiterMayFail, counting nothing.                     *)
Throttled(limit, c) ==
    (IF c < limit THEN {[verdict |-> "Allowed", cnt |-> c + 1]}
                  ELSE {[verdict |-> "RetryAt", cnt |-> c]})
    \cup (IF LimiterMayFail THEN {[verdict |-> "Err", cnt |-> c]} ELSE {})

(* The caller's mapping of the answer: Allowed and Err let the request   *)
(* through (fail open, 73 and 203), RetryAt and RetryNever limit it.     *)
LetThrough(t) == t.verdict \in {"Allowed", "Err"}

(* Mutant: the user-0 early return is missing, so an unknown key goes on  *)
(* to the limiter with its Some(0) count.                                  *)
DecideNoUnknownReturn(r, v) ==
    /\ data' = [data EXCEPT ![r] = v]
    /\ \/ /\ v.count = None
          /\ result' = [result EXCEPT ![r] = "AllowedUser"]
          /\ pc' = [pc EXCEPT ![r] = "done"]
       \/ /\ v.count # None
          /\ pc' = [pc EXCEPT ![r] = "throttle"]
          /\ UNCHANGED result

(* What rate_limit_by_key does once it holds user data v: user 0 is       *)
(* UnknownKey (165), no count is AllowedUser (175), otherwise throttle.    *)
Decide(r, v) ==
    /\ data' = [data EXCEPT ![r] = v]
    /\ \/ /\ v.user = NoUser
          /\ result' = [result EXCEPT ![r] = "UnknownKey"]
          /\ pc' = [pc EXCEPT ![r] = "done"]
       \/ /\ v.user # NoUser
          /\ v.count = None
          /\ result' = [result EXCEPT ![r] = "AllowedUser"]
          /\ pc' = [pc EXCEPT ![r] = "done"]
       \/ /\ v.user # NoUser
          /\ v.count # None
          /\ pc' = [pc EXCEPT ![r] = "throttle"]
          /\ UNCHANGED result

(* rate_limit_by_key up to its first await: user_cache.get and the expiry *)
(* check (142-154); a fresh entry is used at once (165-178).               *)
CheckCache(r) ==
    /\ pc[r] = "idle"
    /\ \E k \in ApiKeys :
         /\ key' = [key EXCEPT ![r] = k]
         /\ IF userCache[k] # None /\ ~(userCache[k].expires < now)
              THEN Decide(r, userCache[k])
              ELSE /\ pc' = [pc EXCEPT ![r] = "query"]
                   /\ UNCHANGED <<data, result>>
    /\ UNCHANGED <<now, active, dbWrites, userCache, count, ipCount, found,
                   everActive, failOpen>>

(* The user_keys query of cache_user_data (96-107): the database reads    *)
(* the key's active row; its `?` (107, 161) makes the check an error.      *)
QueryUserKeys(r) ==
    /\ pc[r] = "query"
    /\ \/ /\ found' = [found EXCEPT ![r] = active[key[r]]]
          /\ pc' = [pc EXCEPT ![r] = "fill"]
          /\ UNCHANGED result
       \/ /\ result' = [result EXCEPT ![r] = "error"]
          /\ pc' = [pc EXCEPT ![r] = "done"]
          /\ UNCHANGED found
    /\ UNCHANGED <<now, active, dbWrites, userCache, count, ipCount, key, data,
                   everActive, failOpen>>

(* Mutant: requests_per_minute is always used as the count, u64::MAX too. *)
UserValueNoUnlimited(k, f) ==
    IF f THEN [expires |-> now + TTL, user |-> k, count |-> Rpm[k]]
         ELSE [expires |-> now + TTL, user |-> NoUser, count |-> 0]

(* Mutant: the entry outlives its 60 s by one tick.                        *)
UserValueExpiresLate(k, f) ==
    IF f THEN [expires |-> now + TTL + 1, user |-> k,
               count |-> IF Rpm[k] = U64Max THEN None ELSE Rpm[k]]
         ELSE [expires |-> now + TTL + 1, user |-> NoUser, count |-> 0]

(* The value cache_user_data builds once the query has answered f for key *)
(* k (109-131): Instant::now() + 60 s, the row's user id and count, None  *)
(* for u64::MAX; no row is user 0 with Some(0).                            *)
UserValue(k, f) ==
    IF f THEN [expires |-> now + TTL, user |-> k,
               count |-> IF Rpm[k] = U64Max THEN None ELSE Rpm[k]]
         ELSE [expires |-> now + TTL, user |-> NoUser, count |-> 0]

(* The rest of cache_user_data: the value, user_cache.insert (135); then  *)
(* rate_limit_by_key goes on with it (165-178).                            *)
FillCache(r) ==
    /\ pc[r] = "fill"
    /\ userCache' = [userCache EXCEPT ![key[r]] = UserValue(key[r], found[r])]
    /\ Decide(r, UserValue(key[r], found[r]))
    /\ UNCHANGED <<now, active, dbWrites, count, ipCount, key, found,
                   everActive, failOpen>>

(* Mutant: only RetryNever limits; RetryAt is let through.                 *)
ThrottleKeyRetryAtAllowed(r) ==
    /\ pc[r] = "throttle"
    /\ \E t \in Throttled(data[r].count, count[key[r]]) :
         /\ count' = [count EXCEPT ![key[r]] = t.cnt]
         /\ result' = [result EXCEPT ![r] =
                         IF t.verdict = "RetryAt" /\ data[r].count = 0
                           THEN "RateLimitedUser" ELSE "AllowedUser"]
         /\ failOpen' = IF t.verdict = "Err" THEN failOpen \cup {r} ELSE failOpen
    /\ pc' = [pc EXCEPT ![r] = "done"]
    /\ UNCHANGED <<now, active, dbWrites, userCache, ipCount, key, found, data,
                   everActive>>

(* frontend_key_rate_limiter.throttle(&user_key, count, 1) and the match  *)
(* on its answer (179-209).                                                 *)
ThrottleKey(r) ==
    /\ pc[r] = "throttle"
    /\ \E t \in Throttled(data[r].count, count[key[r]]) :
         /\ count' = [count EXCEPT ![key[r]] = t.cnt]
         /\ result' = [result EXCEPT ![r] = IF LetThrough(t) THEN "AllowedUser"
                                                            ELSE "RateLimitedUser"]
         /\ failOpen' = IF t.verdict = "Err" THEN failOpen \cup {r} ELSE failOpen
    /\ pc' = [pc EXCEPT ![r] = "done"]
    /\ UNCHANGED <<now, active, dbWrites, userCache, ipCount, key, found, data,
                   everActive>>

(* rate_limit_by_ip (54-79): one throttle of the IP limiter.               *)
RateLimitByIp(r) ==
    /\ pc[r] = "idle"
    /\ \E t \in Throttled(IpLimit, ipCount) :
         /\ ipCount' = t.cnt
         /\ result' = [result EXCEPT ![r] = IF LetThrough(t) THEN "AllowedIp"
                                                            ELSE "RateLimitedIp"]
    /\ pc' = [pc EXCEPT ![r] = "done"]
    /\ UNCHANGED <<now, active, dbWrites, userCache, count, key, found, data,
                   everActive, failOpen>>

(* Environment: a tick of the clock.                                       *)
Tick ==
    /\ now < MaxTime
    /\ now' = now + 1
    /\ UNCHANGED <<active, dbWrites, userCache, count, ipCount, pc, key, found,
                   data, result, everActive, failOpen>>

(* Environment: a user_keys row is activated or deactivated.               *)
SetActive ==
    /\ dbWrites < MaxDbWrites
    /\ \E k \in ApiKeys :
         /\ active' = [active EXCEPT ![k] = ~active[k]]
         /\ everActive' = IF active'[k] THEN everActive \cup {k} ELSE everActive
    /\ dbWrites' = dbWrites + 1
    /\ UNCHANGED <<now, userCache, count, ipCount, pc, key, found, data, result,
                   failOpen>>

(* Every request has its answer and the environment is spent.              *)
Finished ==
    /\ \A r \in Reqs : pc[r] = "done"
    /\ now = MaxTime
    /\ UNCHANGED vars

Next ==
    \/ \E r \in Reqs :
          \/ CheckCache(r) \/ QueryUserKeys(r) \/ FillCache(r)
          \/ ThrottleKey(r) \/ RateLimitByIp(r)
    \/ Tick
    \/ SetActive
    \/ Finished

Spec == Init /\ [][Next]_vars

-----------------------------------------------------------------------------
(* Properties.                                                             *)

(* A key that has never been active is never let through, even when the   *)
(* limiter fails open (203): the user-0 value cache_user_data caches for   *)
(* a missing row must stop the request before the limiter (165).           *)
UnknownKeyNeverAdmitted ==
    \A r \in Reqs : result[r] = "AllowedUser" => key[r] \in everActive

(* Only a limiter error takes a key past its budget: the requests of a    *)
(* key that the limiter itself let through are at most its               *)
(* requests_per_minute, unless that is u64::MAX (the None of 111-115),    *)
(* however the concurrent requests share the cached user data and its    *)
(* count.                                                                  *)
AdmittedWithinLimit ==
    \A k \in ApiKeys :
        Rpm[k] # U64Max =>
            Cardinality({r \in Reqs \ failOpen :
                           key[r] = k /\ result[r] = "AllowedUser"})
                <= Rpm[k]

=============================================================================
