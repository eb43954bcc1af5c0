--------------------------- MODULE RequestRouter ---------------------------
(***************************************************************************)
(* The cacheable branch of Web3ProxyApp::proxy_web3_rpc_request           *)
(* (src/web3-proxy/src/app.rs): every JSON-RPC method that is neither     *)
(* forbidden nor eth_sendRawTransaction goes through the response cache   *)
(* (a LinkedHashMap under a RwLock, bounded by RESPONSE_CACHE_CAP) and    *)
(* through the in-flight table incoming_requests (a DashMap from cache    *)
(* key to the watch::Receiver of the request that is fetching it).        *)
(*                                                                         *)
(* Each element of Req is one request task; its steps are the code       *)
(* between two points where another task can interleave: a lock taken and *)
(* released, a DashMap call, or an await.  A cache key is the pair        *)
(* <<head block hash, method>>: params are abstracted into the method,    *)
(* and a head hash is the index of the head in the order the node pool    *)
(* reported it.  The response body is left out: no property here looks   *)
(* at it, only at which keys are cached.                                   *)
(***************************************************************************)
EXTENDS Naturals, Sequences, SequencesExt, FiniteSets

CONSTANTS
    Req,                 \* the request tasks
    Methods,             \* cacheable methods (params folded in)
    MaxHead,             \* the last head block the model lets the pool report
    RESPONSE_CACHE_CAP,  \* app.rs: const RESPONSE_CACHE_CAP
    NoReq,               \* "no request": an empty DashMap slot
    NoKey,               \* the key of a request that has not computed it yet
    UpstreamMayFail      \* FALSE: every upstream call answers within the timeout

Heads == 0..MaxHead
Key == Heads \X Methods

ASSUME RouterAssumption ==
    /\ RESPONSE_CACHE_CAP \in Nat \ {0}
    /\ MaxHead \in Nat
    /\ NoReq \notin Req
    /\ NoKey \notin Key
    /\ UpstreamMayFail \in BOOLEAN

VARIABLES
    head,       \* hash of the pool's current head block (get_head_block_hash)
    cache,      \* response_cache: its keys, oldest first
    incoming,   \* incoming_requests: key -> request whose receiver is stored
    chan,       \* state of each request's watch::Sender incoming_tx
    pc,         \* where each request task is
    key,        \* the cache key each request computed
    watching    \* whose receiver a waiting request cloned

vars == <<head, cache, incoming, chan, pc, key, watching>>

Labels == {"idle", "lookup", "hit", "entry", "wait", "recheck",
           "dispatch", "store", "release", "signal", "done"}

(* "open": incoming_tx alive and unsent; "sent": send(false) was called;  *)
(* "closed": dropped without a send.  "none": not created yet.            *)
ChanStates == {"none", "open", "sent", "closed"}

TypeOK ==
    /\ head \in Heads
    /\ cache \in Seq(Key)
    /\ incoming \in [Key -> Req \cup {NoReq}]
    /\ chan \in [Req -> ChanStates]
    /\ pc \in [Req -> Labels]
    /\ key \in [Req -> Key \cup {NoKey}]
    /\ watching \in [Req -> Req \cup {NoReq}]

Init ==
    /\ head = 0
    /\ cache = << >>
    /\ incoming = [k \in Key |-> NoReq]
    /\ chan = [r \in Req |-> "none"]
    /\ pc = [r \in Req |-> "idle"]
    /\ key = [r \in Req |-> NoKey]
    /\ watching = [r \in Req |-> NoReq]

-----------------------------------------------------------------------------
(* The response cache.                                                     *)

(* LinkedHashMap::insert: a new key goes to the back; an existing key is   *)
(* moved to the back.                                                      *)
CacheInsert(c, k) ==
    LET rest == IF Contains(c, k)
                THEN RemoveAt(c, CHOOSE i \in 1..Len(c) : c[i] = k)
                ELSE c
    IN  Append(rest, k)

(* Mutant: pop_front only once the cap is exceeded.                       *)
CacheEvictPastCap(c) ==
    IF Len(c) > RESPONSE_CACHE_CAP THEN Tail(c) ELSE c

(* if response_cache.len() >= RESPONSE_CACHE_CAP { pop_front() }           *)
CacheEvict(c) ==
    IF Len(c) >= RESPONSE_CACHE_CAP THEN Tail(c) ELSE c

-----------------------------------------------------------------------------
(* One request task.                                                       *)

(* A request arrives and get_cached_response builds its key from the head *)
(* block hash it reads now.                                                *)
ComputeKey(r) ==
    /\ pc[r] = "idle"
    /\ \E m \in Methods : key' = [key EXCEPT ![r] = <<head, m>>]
    /\ pc' = [pc EXCEPT ![r] = "lookup"]
    /\ UNCHANGED <<head, cache, incoming, chan, watching>>

(* A forbidden method returns Err("unimplemented"); eth_sendRawTransaction *)
(* goes to the private relays.  Neither touches the cache or the in-flight *)
(* table.                                                                  *)
BypassCache(r) ==
    /\ pc[r] = "idle"
    /\ pc' = [pc EXCEPT ![r] = "done"]
    /\ UNCHANGED <<head, cache, incoming, chan, key, watching>>

(* The read-locked cache lookup.  A hit goes on to drop the key's entry;  *)
(* the lock is released in between.                                        *)
CacheLookup(r) ==
    /\ pc[r] = "lookup"
    /\ pc' = [pc EXCEPT ![r] = IF Contains(cache, key[r]) THEN "hit" ELSE "entry"]
    /\ UNCHANGED <<head, cache, incoming, chan, key, watching>>

(* watch::channel(true) and incoming_requests.entry(): join the request   *)
(* already in flight for this key, or register as the one that fetches it. *)
IncomingEntry(r) ==
    /\ pc[r] = "entry"
    /\ chan' = [chan EXCEPT ![r] = "open"]
    /\ IF incoming[key[r]] # NoReq
       THEN /\ watching' = [watching EXCEPT ![r] = incoming[key[r]]]
            /\ pc' = [pc EXCEPT ![r] = "wait"]
            /\ UNCHANGED incoming
       ELSE /\ incoming' = [incoming EXCEPT ![key[r]] = r]
            /\ pc' = [pc EXCEPT ![r] = "dispatch"]
            /\ UNCHANGED watching
    /\ UNCHANGED <<head, cache, key>>

(* Mutant: the waiter wakes only on a send, not when the sender drops.   *)
WaitInFlightSentOnly(r) ==
    /\ pc[r] = "wait"
    /\ chan[watching[r]] = "sent"
    /\ pc' = [pc EXCEPT ![r] = "recheck"]
    /\ UNCHANGED <<head, cache, incoming, chan, key, watching>>

(* other_incoming_rx.changed().await: the cloned receiver carries the     *)
(* original's version, so it returns once the owner has sent or dropped   *)
(* its sender, even if that happened before the await.                    *)
WaitInFlight(r) ==
    /\ pc[r] = "wait"
    /\ chan[watching[r]] # "open"
    /\ pc' = [pc EXCEPT ![r] = "recheck"]
    /\ UNCHANGED <<head, cache, incoming, chan, key, watching>>

(* Check the cache again after waiting.  A hit goes on to drop the key's *)
(* entry; a miss goes on to query the upstream servers itself, with no    *)
(* entry of its own.                                                       *)
RecheckCache(r) ==
    /\ pc[r] = "recheck"
    /\ pc' = [pc EXCEPT ![r] = IF Contains(cache, key[r]) THEN "hit" ELSE "dispatch"]
    /\ UNCHANGED <<head, cache, incoming, chan, key, watching>>

(* After a hit: incoming_requests.remove(&cache_key), whoever's entry it  *)
(* is, then (after waiting) send(false) on the request's own sender,      *)
(* which nobody watches, and return the cached response.                   *)
RemoveOnHit(r) ==
    /\ pc[r] = "hit"
    /\ incoming' = [incoming EXCEPT ![key[r]] = NoReq]
    /\ chan' = [chan EXCEPT ![r] = IF @ = "open" THEN "sent" ELSE @]
    /\ pc' = [pc EXCEPT ![r] = "done"]
    /\ UNCHANGED <<head, cache, key, watching>>

(* Mutant: waiters are woken as soon as the upstream answers, before the *)
(* response is written to the cache.                                       *)
UpstreamSuccessEarlySignal(r) ==
    /\ pc[r] = "dispatch"
    /\ chan' = [chan EXCEPT ![r] = "sent"]
    /\ pc' = [pc EXCEPT ![r] = "store"]
    /\ UNCHANGED <<head, cache, incoming, key, watching>>

(* try_send_all_upstream_servers / try_send_best_upstream_server answers. *)
UpstreamSuccess(r) ==
    /\ pc[r] = "dispatch"
    /\ pc' = [pc EXCEPT ![r] = "store"]
    /\ UNCHANGED <<head, cache, incoming, chan, key, watching>>

(* The upstream call fails and `?` returns early: the in-flight entry is  *)
(* left in place and incoming_tx is dropped without a send.               *)
UpstreamError(r) ==
    /\ UpstreamMayFail
    /\ pc[r] = "dispatch"
    /\ chan' = [chan EXCEPT ![r] = "closed"]
    /\ pc' = [pc EXCEPT ![r] = "done"]
    /\ UNCHANGED <<head, cache, incoming, key, watching>>

(* Under the write lock: insert the response, then pop the oldest entry   *)
(* if the cache has reached its cap.                                       *)
StoreResponse(r) ==
    /\ pc[r] = "store"
    /\ cache' = CacheEvict(CacheInsert(cache, key[r]))
    /\ pc' = [pc EXCEPT ![r] = "release"]
    /\ UNCHANGED <<head, incoming, chan, key, watching>>

(* incoming_requests.remove(&cache_key): whoever's entry it is.            *)
RemoveIncoming(r) ==
    /\ pc[r] = "release"
    /\ incoming' = [incoming EXCEPT ![key[r]] = NoReq]
    /\ pc' = [pc EXCEPT ![r] = "signal"]
    /\ UNCHANGED <<head, cache, chan, key, watching>>

(* incoming_tx.send(false) and return the response.                        *)
SignalAndReturn(r) ==
    /\ pc[r] = "signal"
    /\ chan' = [chan EXCEPT ![r] = "sent"]
    /\ pc' = [pc EXCEPT ![r] = "done"]
    /\ UNCHANGED <<head, cache, incoming, key, watching>>

(* proxy_web3_rpc's 60 s timeout drops the request future at one of its   *)
(* awaits: incoming_tx is dropped; a registered entry stays in the map.   *)
Timeout(r) ==
    /\ UpstreamMayFail
    /\ pc[r] \in {"wait", "dispatch"}
    /\ chan' = [chan EXCEPT ![r] = "closed"]
    /\ pc' = [pc EXCEPT ![r] = "done"]
    /\ UNCHANGED <<head, cache, incoming, key, watching>>

-----------------------------------------------------------------------------
(* The node pool (connections.rs, not under src/) reports a new head.      *)
NewHead ==
    /\ head < MaxHead
    /\ head' = head + 1
    /\ UNCHANGED <<cache, incoming, chan, pc, key, watching>>

(* Every request has returned: the proxy idles.                            *)
Finished ==
    /\ \A r \in Req : pc[r] = "done"
    /\ UNCHANGED vars

(* The steps a request task takes on its own, without the timeout.       *)
Progress(r) ==
    \/ ComputeKey(r)
    \/ BypassCache(r)
    \/ CacheLookup(r)
    \/ RemoveOnHit(r)
    \/ IncomingEntry(r)
    \/ WaitInFlight(r)
    \/ RecheckCache(r)
    \/ UpstreamSuccess(r)
    \/ UpstreamError(r)
    \/ StoreResponse(r)
    \/ RemoveIncoming(r)
    \/ SignalAndReturn(r)

Next ==
    \/ \E r \in Req : Progress(r) \/ Timeout(r)
    \/ NewHead
    \/ Finished

(* Tokio polls every task again once it is ready, and an upstream call    *)
(* answers or fails.  The 60 s timeout is not assumed to fire: the        *)
(* liveness below must hold without it.                                   *)
Fairness == \A r \in Req : WF_vars(Progress(r))

Spec == Init /\ [][Next]_vars /\ Fairness

-----------------------------------------------------------------------------
(* Properties.                                                             *)

(* The response cache never holds RESPONSE_CACHE_CAP entries or more, and *)
(* holds each key once (the insert-then-pop_front in proxy_web3_rpc_request). *)
CacheBounded ==
    /\ Len(cache) < RESPONSE_CACHE_CAP
    /\ IsInjective(cache)

(* A request that waited on an in-flight request which then succeeded     *)
(* finds that request's response in the cache when it looks again, as     *)
(* long as nothing was evicted: the owner writes the cache before it      *)
(* wakes its waiters.                                                      *)
WaiterFindsResponse ==
    \A r \in Req :
        (pc[r] = "recheck" /\ chan[watching[r]] = "sent")
            => Contains(cache, key[r])

(* Every request is eventually answered, without relying on the timeout:  *)
(* no waiter is left waiting on a sender that is never sent nor dropped.  *)
AllAnswered == \A r \in Req : <>(pc[r] = "done")

(* Single-flight (spec 4.4, 8.1): at most one upstream call per cache key *)
(* is in flight at any time.                                               *)
SingleFlight ==
    \A k \in Key : Cardinality({r \in Req : pc[r] = "dispatch" /\ key[r] = k}) <= 1

(* Head epoch (spec 8.3): a response served from the cache was cached     *)
(* under the head block that is current when it is returned.              *)
ServedAtCurrentHead ==
    [][\A r \in Req : (pc[r] = "hit" /\ pc'[r] = "done") => key[r][1] = head]_vars

=============================================================================
