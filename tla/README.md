# TLA+ models of web3-proxy

This directory holds TLA+ models of the concurrent parts of the proxy in
`src/web3-proxy/src/`, the TLC configurations that check them, and TLAPS
proofs about the request router, config reload, the rate limiter and the
subscription tasks. `PROJECT.json` lists every component, run,
mutant, mapped source line, finding, hazard and theorem. This file explains
them.

## 1. The system and its parts

| Part | Source | State | Operations |
|---|---|---|---|
| Request router | `app.rs` `proxy_web3_rpc`, `proxy_web3_rpc_requests`, `get_cached_response`, `proxy_web3_rpc_request` | `response_cache` (a `LinkedHashMap` under a `RwLock`, capped by `RESPONSE_CACHE_CAP`); `incoming_requests` (a `DashMap` from cache key to a `watch::Receiver`) | Compute the key from the current head hash; cache lookup; join or register an in-flight entry; wait; recheck; call upstream; store and evict; remove the entry; signal waiters. Also the 60 s timeout and batches via `join_all`. |
| Subscription fan-out | `app.rs` `eth_subscribe` | `next_subscription_id`; the head `watch` channel; the pending-tx `broadcast` channel (16 slots); one spawned task per subscription | Allocate an id; poll the stream; filter `Confirmed`; send to the client sink; abort. |
| Start-up and config reload | `app.rs` `spawn`, `spawn_with_watched_config`, `update_config`; `main.rs` | The app's two `Arc<Web3Connections>` (private may alias balanced); the flume config channel; the config task; main's `select!` | The watcher thread sends a config; the task checks the chain id, spawns the pools and swaps them in; an error ends the task and main returns. |
| Rate limiting | `src/web3_proxy/src/frontend/rate_limit.rs` | `user_cache` (api key to `UserCacheValue` with `expires_at`); the key and IP limiters (external) | Look up the cache; on a miss or expiry, query `user_keys` and insert; user 0 is `UnknownKey`; unlimited or throttle; fail open on limiter errors. |
| Balance | `src/web3_proxy/src/balance.rs` | none (one SQL query over tables other code writes) | `try_from_db`, `remaining`. |
| Config structs | `config.rs` | none | `RpcConfig` data; `Web3ConnectionConfig::spawn` (the `hard_limit` unwrap). |
| `quick_cache_ttl`, `entities` | | | A wrapper over an external crate, and a generated entity. |

The parts interact through shared state. Requests read the head that the
pool publishes and race one another on the cache and the in-flight table.
Subscriptions read the same head channel and the pending-tx channel. Config
reload swaps the pools that requests use. Rate limiting runs before a
request reaches the router, and reads the database that the balance query
also reads.

Hard behaviours in the code:
- interleavings of request tasks at every lock, `DashMap` call and await;
- timeouts that drop a future mid-protocol;
- upstream errors returning through `?` halfway through the protocol;
- watch-channel coalescing and broadcast lag;
- aborts landing mid-send;
- config errors that end a task, and with it the process.

## 2. Modules

### `RequestRouter.tla` — the cacheable branch of `proxy_web3_rpc_request`

`Req` are request tasks. A key is `<<head, method>>`: params are folded into
the method, and a head hash is the head's index. The response body is left
out, because no property looks at it.

Variables:
- `cache`: the `LinkedHashMap`'s keys, oldest first.
- `incoming`: the `DashMap`, holding the request whose receiver is stored.
- `chan`: each request's `watch::Sender`, which is `none`, `open`, `sent`
  (`send(false)`) or `closed` (dropped without a send).
- `pc`, `key`, `watching`: each task's position, key and joined owner.

Each action runs from one interleaving point to the next:
- `ComputeKey`: reads the head, lines 585-603.
- `CacheLookup`: under the read lock, 605.
- `RemoveOnHit`: lines 693/721; a separate step because the lock is released
  first.
- `IncomingEntry`: the `DashMap` entry, 702-711.
- `WaitInFlight`: `changed().await`. A clone keeps the original's version,
  so it returns once the owner sent or dropped its sender.
- `RecheckCache`: line 720.
- `UpstreamSuccess` / `UpstreamError`: the upstream call, 740-753; the error
  path is the `?`.
- `StoreResponse`: insert and `pop_front` under the write lock, 755-765.
- `RemoveIncoming`: line 767.
- `SignalAndReturn`: line 768.
- `Timeout`: proxy_web3_rpc's 60 s timeout dropping the future at an await.
- `BypassCache`: the forbidden methods and `eth_sendRawTransaction`.
- `NewHead`: the pool's head updates, modelled from the spec because
  connections.rs is not under src/.

`UpstreamMayFail` switches both `UpstreamError` and `Timeout` on or off.

### `Subscriptions.tla` — `eth_subscribe`

- `Subscribe`: `fetch_add` and the `match` on params. An unknown kind
  returns `Err` with the id already spent.
- `PollHead`: the `Abortable` `WatchStream`. It yields the current head on
  the first poll, then the latest head whenever the version moved.
  The model assumes that the first poll marks the yielded version as
  seen, as `borrow_and_update` does in tokio-stream's `WatchStream`. The
  repository pins no tokio-stream version (there is no Cargo.lock). The
  receiver cloned at 344 is still at the channel's initial version (256).
  So a `WatchStream` that did not mark the first value would send a
  subscriber that joins after a head was published its first head twice.
  The model leaves this out, and the hazard at app.rs:354 says so.
- `PollTx`: the `Abortable` `BroadcastStream`.
  - A receiver starts after the last event sent.
  - When it has fallen more than `BROADCAST_CAP` behind, it gets
    `Err(Lagged)`, which ends `while let Some(Ok(..))`.
  - `Confirmed` is skipped by `continue`.
- `SendToClient`: `send_async`; an error breaks the loop.

The three `newPending*` kinds share one control flow (`Forward`). They
differ only in the JSON they build, so they are one kind here. The
environment actions are `PublishHead`, `BroadcastTx`, `ClientGone`
(the sink's receiver is dropped) and `Unsubscribe` (the `AbortHandle` fires).
They model code outside src/ from the spec. `afterAbort` is a history
variable that counts deliveries after the abort.

Properties:
- `PendingNoSilentLoss`: for a live pending-tx task, `Forwarded(s)` is what
  the client received plus the event being sent. It is strictly ascending
  in log position, and its set of positions is `Received(s)`: every
  non-Confirmed event from the subscription's start to what it has read.
  A strictly ascending sequence is fixed by its range, so this says that
  exactly those events went out, in order. A lagged receiver ends rather
  than skipping events.
- `AbortPrompt`: at most one message is delivered after the abort.
- `HeadsCatchUp` (liveness): once head `h` is published, a live newHeads
  task is eventually sent `h` or a later head, or it ends.

### `AppConfig.tla` — start-up, reload and the process

`members` maps the app's two pool objects to the upstream names they serve.
`privateRef` says which object the `private_rpcs` field points to: `spawn`
clones the balanced `Arc` when the first config has no private relays
(app.rs:272-276).

- `FileWrite`: the config file is saved (the environment), valid or, when
  `FileMayBeInvalid`, not parseable (`Unparsable`); it raises a notify
  event.
- `WatcherRead`: the watcher thread, main.rs 93-123: it takes the event,
  reads and parses the file and sends the config; an unparsable file panics
  the thread at the `unwrap` (116), and `watcher` becomes `"dead"`.
- `RecvConfig`: the task's `recv_async` and the chain id check, 126-129.
- `SpawnBalanced` / `SpawnPrivate`: lines 135-169, including the clone
  fallback and the `?` failures (`SpawnMayFail`).
- `SwapBalanced` / `SwapPrivate`: lines 172-173, each with the error its
  `.await?` returns (`SwapMayFail`). `swap_rpcs` is in connections.rs,
  which is not in the repository, so the model allows an error at either
  swap. A failed balanced swap ends the task with nothing swapped. A failed
  private swap ends it with the new balanced pool already in place.
- `MainSelect`: `flatten_handles` returns the task's error to main's
  `select!`.

`FairSpec` adds weak fairness of `WatcherRead`, of the config task's steps
(`ConfigTask`) and of `MainSelect` (section 4).

### `ConfigService.tla` — what a reload promises

The abstract specification of config reload (spec 6, line 210): `Submit`
appends a config to `queue`; `Apply` takes the oldest, if its chain id is
the one in force, and at once makes `current` that config and `serving` the
pools it defines (`Pools`, private falling back to balanced); `Fail` takes
the oldest and ends the service (`running`), which is what the proxy does
with a rejected config. `FailAfterSwap` takes the oldest, which has the
chain id in force, swaps in only its balanced upstreams and ends the
service. This is a private swap that failed after the balanced one
succeeded. `AtomicSpec` leaves `FailAfterSwap` out. It is spec 6's promise
that a reload is applied whole or not at all. `Spec`, with
`FailAfterSwap`, is what the code provides.

`AppConfig` maps onto it (`Service`): `queue` is the channel with the
config in flight put back at its head (`QueueView`), `current` is
`applied`, `running` is `task # "failed"`, and `serving` is `SettledView`:
what the pools serve, except in the window between the two swaps
(`task = "swapP"`), where it is the config still in force. `Observed` is
the same mapping with the pools as the router really sees them
(`ServingView`); the run `config_swap_window` shows that it does not
refine `AtomicSpec`. With `SwapMayFail`, `Service` does not refine
`AtomicSpec` either: TLC's counterexample is a failing `SwapPrivate`.

### `RateLimit.tla` — `rate_limit_by_key` and `rate_limit_by_ip`

`Reqs` are concurrent frontend requests, `ApiKeys` the keys (a key is its
own user id), `Rpm` their `requests_per_minute` (`U64Max` is unlimited).
Time is a counter `now` of ticks up to `MaxTime`; `TTL` is the 60 s in
ticks. Each request runs:
- `CheckCache`: `user_cache.get` and the `expires_at < now` check
  (140-163); a fresh entry goes straight to `Decide`.
- `QueryUserKeys`: the `user_keys` query (96-107), reading `active`; its
  `?` makes the check an error.
- `FillCache`: the value stamped `now + TTL` after the query returned
  (`UserValue`, 109-132), `user_cache.insert` (135), then `Decide`.
- `Decide`: user 0 is `UnknownKey` (165); no count is `AllowedUser` (175);
  otherwise the request goes to `ThrottleKey` (179-209).
- `RateLimitByIp`: one throttle of the IP limiter (54-79).

`Throttled` is the limiter of spec 6 (`throttle` returns `Allowed`,
`RetryAt`, or `Err` when `LimiterMayFail`; `LetThrough` is the caller's
mapping, letting `Err` through), a counter per key that does not
reset within a run. The environment is `Tick` and `SetActive` (a key is
activated or deactivated). `everActive` (the keys ever active) and
`failOpen` (the requests a limiter error let through) are history variables
for the properties.

### `Balance.tla` — `Balance::try_from_db` and `remaining`

The tables are variables the environment grows: `receipts` (admin, chain,
stripe, per user), `referee`, and `keys` (each user's keys, each a sequence
of accounting rows). `JoinRows(u)` is the set of rows the FROM clause yields:
the product of one matching row, or NULL (`LeftJoin`), of each joined table,
with the key and its accounting rows joined in `KeyAccounting`. `TryFromDb`
sums each column over those rows (`MapThenSumSet`) and adds the grouped
referrer bonus once; `Remaining` is deposits minus paid credits. The
reference (`LedgerDeposits`, `LedgerPaid`) sums each table on its own.

### The `*_proofs.tla` modules and `RequestRouter_waiters.tla` — TLAPS

`RequestRouter_proofs`, `RequestRouter_waiters`, `AppConfig_proofs`,
`RateLimit_proofs` and `Subscriptions_proofs` each extend
the model they are about. They hold the lemmas, the inductive invariants
and the theorems (section 5). No run uses them.

## 3. Runs

The MC modules (`MC_RequestRouter`, `MC_Subscriptions`, `MC_AppConfig`,
`MC_RateLimit`, `MC_Balance`) give the model values and sets. Each module
has one passing run that checks all its properties on one instance, and
violation runs, each checking one property, for the disagreements found.

| Run | Bounds | Result |
|---|---|---|
| `router` | 3 requests, 1 method, heads 0..2, cap 3, failures on | `WaiterFindsResponse`, `CacheBounded`, `AllAnswered` hold |
| `router_single_flight` | 4 requests, **no** failures | `SingleFlight` violated |
| `router_head_epoch` | 3 requests, heads 0..1 | `ServedAtCurrentHead` violated |
| `subscriptions` | 2 subscriptions, heads 0..1, 2 events, 1-slot channel | `PendingNoSilentLoss`, `AbortPrompt`, `HeadsCatchUp` hold |
| `config` | 2 chains, 2 upstreams, 2 saves (valid or not), spawn and swap failures, private relays at first, `FairSpec` | `PoolsMatchConfig`, `ImplementsConfigService`, `WatchedReloadsTakeEffect` hold |
| `config_aliased_pools` | the same with no private relays at first | `PoolsMatchConfig` violated |
| `config_chain_id_lock` | 1 save | `KeepsServing` violated |
| `config_watcher_dies` | 2 saves, one may not parse, `FairSpec` | `ReloadsTakeEffect` violated |
| `config_swap_window` | 1 save | `SwapsLookAtomic` violated |
| `rate_limit` | 3 requests, 2 keys (limit 1 and unlimited), TTL 1, 3 ticks, 1 database write, database and limiter errors | `TypeOK`, `UnknownKeyNeverAdmitted`, `AdmittedWithinLimit` hold |
| `balance_join` | 2 users, amounts 1..2, up to 4 inserted rows | `JoinLosesNothing` holds |
| `balance_fan_out` | the same | `RemainingMatchesLedger` violated |

With private relays at the start, `PoolsMatchConfig` also follows from
`ImplementsConfigService` (at `task = "recv"` the abstract `serving` is what
the pools serve); it is kept as the plain statement that `PoolsMatchThm`
proves for every instance.

Why the bounds are enough:
- **Router.** Three requests are enough for an owner, a waiter and a third
  request that hits, joins late or dispatches after a recheck miss. Three
  heads give three keys for one method, so a cap of 3 evicts. The
  single-flight break needs four requests: two cache hits and two
  concurrent dispatchers.
- **Subscriptions.** A one-slot channel (a power of two, as tokio rounds
  capacities) with two events makes a subscriber lag, so the lag and
  Confirmed paths all fire; two heads give a head to catch up with.
- **Config.** Two saves cover a reload after a reload. This includes the
  aliasing case (first config without relays, then one with relays) and an
  unparsable save followed by a valid one.
- **Rate limiting.** Three requests on a key with limit 1 give two
  requests that miss the cache at once and a third that hits it; a TTL of
  one tick and three ticks let an entry expire and be refilled; one
  database write deactivates or activates a key under a running query.
- **Balance.** Four rows are enough for two receipts of one table and two
  accounting rows of one key, the smallest fan-out.

Symmetry is used only in runs without liveness properties.

Each property of a passing run has a mutant in `PROJECT.json`: a plausible
bug in a mapped definition that TLC then catches. For example:
- `CacheEvictPastCap`: `>` for `>=`;
- `UpstreamSuccessEarlySignal`: waiters woken before the cache write;
- `WaitInFlightSentOnly`: a waiter that ignores a dropped sender;
- `PollTxSkipLag`: a lagged receiver that skips events;
- `PollTxAbortLast`: the abort looked at only when no event is ready;
- `PollHeadLate`: an off-by-one in the version check;
- `SpawnPrivateNoFallback`: no clone of the balanced pool;
- `WatcherReadSkipsEvent`: the watcher drops a change;
- `RecvConfigNoChainCheck`: no chain id check;
- `DecideNoUnknownReturn`: no early return for user 0;
- `ThrottleKeyRetryAtAllowed`: `RetryAt` let through;
- `KeyAccountingInner`: an inner join of keys and accounting rows.

The type invariants are checked only by the `rate_limit` run, where an
off-by-one in the entry's expiry breaks one. Elsewhere `TypeOK` says only
what Rust's types already guarantee, and no plausible bug in the code
breaks it. It is proved for the router, config and subscriptions as a
lemma of the other proofs, and not checked by a run.

## 4. Fairness

- **Router.** `WF_vars(Progress(r))` for each request. Tokio polls a ready
  task again, and an upstream call eventually answers or fails.
  `Progress` excludes `Timeout`, so `AllAnswered` holds without the 60 s
  timeout ever firing. A waiter is therefore always woken by its owner's
  send or drop.
- **Subscriptions.** `WF_vars(Forward(s))`: the spawned task is polled
  when its stream or sink is ready.
- **Config.** `WF_vars(WatcherRead)`: the watcher thread blocks on
  `rx.recv()` and runs when an event is there. `WF_vars(ConfigTask)`: the
  config task is a tokio task polled whenever its `recv_async` or spawn is
  ready. `WF_vars(MainSelect)`: main's `select!` is woken by the finished
  handle.
- **Environment.** No fairness is assumed for new heads, events, clients,
  file writes, database writes or the clock. Rate limiting and balance have
  only safety properties.

## 5. Proofs (checked by `tlapm`)

### `RequestRouter_proofs.tla`

- `TypeCorrect`: `Spec => []TypeOK`.
- `CacheBoundedThm`: `Spec => []CacheBounded`, for every `Req`, `Methods`,
  `MaxHead` and every cap `RESPONSE_CACHE_CAP \in Nat \ {0}`
  (`RouterAssumption`).

Neither invariant is inductive alone. `StoreResponse` appends `key[r]`,
which is a key only because a request between `idle` and `done` has
computed one (`KeyDefined`). Requests that bypass the cache reach `done`
without a key. The cache stays under the cap only because it was under the
cap before the insert. The inductive invariant is
`IInv == TypeOK /\ KeyDefined /\ CacheBounded`:
- `InitIInv`: `Init => IInv`.
- `StepIInv`: `IInv /\ [Next]_vars => IInv'`, with one step per action. Only
  `StoreResponse` changes the cache. There the proof uses two lemmas:
  - `CacheInsertProps`: insert keeps the keys distinct and adds at most one.
  - `CacheEvictProps`: a pop at the cap brings the cache back under it.
- `CacheInsertProps` rests on `RemoveAtProps`, `RemoveAtInjective` and
  `AppendFreshInjective`. These are facts about `RemoveAt` and `Append`
  from `SequenceTheorems`.

The temporal steps are combined by PTL.

### `AppConfig_proofs.tla`

- `TypeCorrect`: `Spec => []TypeOK`, for all `Chains`, `Upstreams` and
  `MaxReloads` (`AppConfigAssumption`). `InitTypeOK` and `StepTypeOK` have
  one step per action; `WatcherRead` splits on whether the file parsed.
- `PoolsMatchThm`: `~FirstPrivateEmpty => (Spec => []PoolsMatchConfig)`.
  `PoolsMatchConfig` speaks only of `task = "recv"`, so it is not
  inductive: a swap is right only if the pools spawned before it were the
  config's. The strengthening `PoolsInv` states, for each step of
  `update_config`, that `private_rpcs` is its own object, that the config
  in flight has the chain id in force, what the spawned pools are, and what
  the two objects serve, with the window after the balanced swap.
  `IInv == TypeOK /\ PoolsInv`; `InitIInv` and `StepIInv` prove it
  inductive. The hypothesis `~FirstPrivateEmpty` is needed: without it the
  run `config_aliased_pools` shows the property fails.
- `RefinementThm`: `~FirstPrivateEmpty => (Spec => ImplementsConfigService)`,
  for both values of `SwapMayFail`. The abstract `Spec` is `ConfigService`
  with `FailAfterSwap`, because a failed private swap leaves the balanced
  pool swapped. Until the task fails, `SettledView` is `Pools(applied)`
  under `IInv` (`SettledIsApplied`), so the abstract `serving` follows
  `applied`. Once the task has failed, the view is frozen: `ViewFrame` and
  `FailFrame` say that a step which touches neither the pools nor the
  private reference leaves it as it was. `InitRefines` maps the initial
  states. `StepRefines` maps each step:
  - a valid `WatcherRead` is `Submit` (`ConsAppend`: appending behind the
    config in flight);
  - a `RecvConfig` with the wrong chain id, a failed spawn and a failed
    `SwapBalanced` are `Fail` (`ConsProps`);
  - a successful `SwapPrivate` is `Apply`;
  - a failed `SwapPrivate` is `FailAfterSwap`: the balanced members are the
    config's, and the private object is still the old one;
  - every other step is a stutter (`StutterRefines`; `ConsHeadTail` for the
    `RecvConfig` that puts the config back at the head of `QueueView`).

### `RequestRouter_waiters.tla`

- `WaiterThm`: `FewRequests => (Spec => []WaiterFindsResponse)`.
  `FewRequests` says `Req` is finite and has at most `RESPONSE_CACHE_CAP`
  requests. The hypothesis cannot be dropped. With 3 requests and a cap of 2,
  TLC finds the owner's entry popped before the waiter looks again: two
  other keys are stored in between. The run `router` (3 requests, cap 3)
  satisfies it.

The argument counts what can still push a key out. `NPre` is the number of
requests in a state before `store`. Each request stores at most once, so
only those requests can still insert. A key is `Safe` when it is in the
cache with few enough newer entries that `NPre` more inserts cannot pop
it. Another way to be `Safe` is that no store remains.
- A request is `Guarded` while it releases and signals after its store. It
  is also `Guarded` once it has sent and some waiter still watches it.
- `StoredSafe` says every guarded request's key is safe.
- `IncomingOwned` and `WatchOwned` say that the in-flight table and every
  waiter point at a request that registered the same key.
- `OwnerState` gives the watched request's state. It has not sent unless it
  is done.

The inductive invariant is
`WInv == IInv /\ IncomingOwned /\ WatchOwned /\ StoredSafe`. TLC checked
it first, on 3 and on 4 requests.
- Every step but `StoreResponse` leaves the cache alone and makes no request
  newly guarded. It moves no request back before its store (`QuietStep`,
  `PreCountMono`).
- `StoreResponse` puts its key last and lowers `NPre` by one
  (`PreCountDrop`). Every other key gains at most one newer entry. A key is
  popped only if it was the last one the remaining stores could reach.
  The lemma `StorePositions` says this; it rests on `InsertPositions` and
  `EvictPositions`. `SafeAfterStore` combines these facts.
- A waiter at `recheck` is itself before its store, so `NPre # 0`
  (`NPrePositive`). The watched request has sent, so it is guarded and its
  key is in the cache (`WInvWaiter`).

### `RateLimit_proofs.tla`

- `TypeCorrect`: `Spec => []TypeOK`.
- `UnknownKeyThm`: `Spec => []UnknownKeyNeverAdmitted`.
- `WithinLimitThm`: `Spec => []AdmittedWithinLimit`, for every finite `Reqs`,
  every `Rpm`, `TTL` and bound.

Both properties hold because of what a request carries between awaits:
- `KeyHeld`: a request at `query`, `fill` or `throttle` holds a key.
- `NoAnswerYet`: a request has no result before it is done.
- `ActiveEver`: an active key is in `everActive`.
- `CacheValid`: a cached entry is the user-0 value, or the value of a key
  that has been active, with its row's count.
- `FoundKnown`: a request at `fill` that found a row holds a key that has
  been active.
- `ThrottleData`: a request at `throttle` holds the cached value of its own
  key, with a finite `Rpm`.
- `Budget`: for a key with finite `Rpm`, the requests the limiter let
  through are at most the limiter's count, and the count is at most `Rpm`.

`IInv` is the conjunction of these facts, `TypeOK` and
`UnknownKeyNeverAdmitted`. TLC checked it first. `ThrottleKeyIInv` is the
core step: an `Allowed` verdict adds one request (`FS_AddElement`) and one
to the count. `Err` adds the request to `failOpen`, and `RetryAt` admits
nothing. Two assumptions were added to `RateLimitAssumption` for the proof,
and TLC evaluates them on the run: `IsFiniteSet(Reqs)` and `None \notin Nat`
(`Option::None` is no count).

### `Subscriptions_proofs.tla`

- `TypeCorrect`: `Spec => []TypeOK`.
- `AbortPromptThm`: `Spec => []AbortPrompt`.

`AbortPrompt` is inductive once it is strengthened by `AbortInv`. A task
counts no message after the abort unless it is at the `send` it was at when
the `AbortHandle` fired, or past it. Once aborted, a task at `poll` can
only end, because both streams are `Abortable`. So at most one send
completes after the abort.

- `NoSilentLossThm`: `Spec => []PendingNoSilentLoss`, for every number of
  subscriptions and events and every channel capacity.

The inductive invariant is `PendInv`: for every subscription, `PendOK(s)`.
A task that has not subscribed has delivered nothing. A live pending task
has `start < next <= Len(log) + 1`, and `Forwarded(s)` is ascending
(`Ascending`) with range `Received(s)`.
- A `PollTx` that reads a non-Confirmed event appends position `next`. It
  is above every earlier position, so the sequence stays ascending
  (`AppendAscending`), and the range gains exactly that position.
- A Confirmed event moves `next` and adds nothing to either side.
- A lag ends the task, so the property no longer applies. This is the step
  where a receiver that skipped would break it.
- `SendToClient` moves the held event into `delivered` without changing
  `Forwarded` (`ConcatForm`).
- `BroadcastTx` appends to the log without moving any receiver
  (`PendBroadcast`).
- Another subscription's step changes nothing of `s` (`OthersUnchanged`).

The property was first stated with `SelectSeq`, whose value needs
induction over sequences. It was restated as "ascending with the right
range", and TLC checked that the two forms are equivalent on the run's
instance before the swap.

Only TLC checks the following:
- all liveness (`AllAnswered`, `HeadsCatchUp`, `ReloadsTakeEffect`), since
  TLAPS does not handle fairness or `ENABLED` here.
- `JoinLosesNothing` of `Balance`. It sums with
  `MapThenSumSet` and `FoldSeq`. Their values, even on one-element sets,
  follow only from the recursive function's defining equation, whose
  existence needs well-founded induction. The library's induction
  theorems take an operator parameter, which the installed provers cannot
  instantiate.
- `WaiterFindsResponse` with more requests than cache entries. It is false
  there.
- the violation runs.

## 6. Findings

Each finding is a violation run, with the trace TLC prints:
1. **Single-flight does not hold** (`router_single_flight`), even without
   upstream failures. A cache hit removes another request's in-flight entry
   (app.rs:693, 721). A waiter that misses on recheck goes upstream without
   registering (740).
2. **Stale-head responses** (`router_head_epoch`): the head hash is read at
   596, and the response is returned after it may have changed. This is
   against spec 8.3.
3. **The balanced pool is overwritten by private relays**
   (`config_aliased_pools`) when the first config had no private relays:
   `private_rpcs` is the balanced `Arc`, so the second swap at 173 lands in
   it.
4. **A bad chain id stops the proxy** (`config_chain_id_lock`): the `?` at
   201 ends the config task, and main's `select!` returns. This is against
   spec 8.8.
5. **One bad save ends reloading** (`config_watcher_dies`): an unparsable
   file panics the watcher thread (main.rs:116). The proxy keeps running,
   and no later change is ever applied.
6. **The two swaps are not atomic** (`config_swap_window`): between
   app.rs:172 and 173 the router sees the new balanced pool with the old
   private one. This is against spec 6, line 210.
7. **The balance join multiplies sums** (`balance_fan_out`): the LEFT
   JOINs of the receipt tables and of the accounting rows make a product,
   so each deposit and charge is counted once per row of the other tables.
   TLC's trace has one user with two admin receipts, one chain receipt and
   no key. The join has two rows, so the chain deposit is counted twice.
   `test_sum_credits_used.rs` expects deposits minus paid credits. It has
   one receipt and one key, and there the two agree.

Two hazards that the models reach have no run of their own. An upstream
error or timeout leaves the in-flight entry behind (app.rs:751, 545);
`AllAnswered` shows that its waiters are still answered. A key deactivated
while a query that read it is in flight stays admitted for the TTL plus the
query's latency (rate_limit.rs:118, 144).

## 7. Not modelled

- The `todo!` panics when no limiter is configured (rate_limit.rs:82, 213)
  and the wrappers' `unimplemented!` arms: the model always has both
  limiters. The limiter's period reset is not modelled.
- The key's `requests_per_minute` is a constant; changes to it in the
  database are not modelled.
- Code outside src/ (connections.rs, the websocket frontend, the writers of
  the balance tables) appears only as environment actions.
- `quick_cache_ttl` wraps an external crate, and `entities` is generated:
  neither has behaviour of its own.
- The balance sum `JoinLosesNothing` is not
  proved. They would need the defining equation of `MapThenSumSet` and
  `FoldSeq` as a lemma, which the installed provers cannot derive.
