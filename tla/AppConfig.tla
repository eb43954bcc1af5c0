----------------------------- MODULE AppConfig -----------------------------
(***************************************************************************)
(* Configuration reload (src/web3-proxy/src/app.rs, main.rs): main's       *)
(* watcher thread sends every parsed config file on an unbounded flume   *)
(* channel; the config task of spawn_with_watched_config applies each    *)
(* with update_config, which rejects a new chain id, spawns the new       *)
(* balanced and private pools and swaps them into the app's two           *)
(* Arc<Web3Connections>.  A `?` anywhere ends the config task with an     *)
(* error, which flatten_handles hands to main's select!, and main returns. *)
(*                                                                         *)
(* A pool is the set of upstream names it serves.  The app holds two pool *)
(* objects, "balanced" and "private"; privateRef is the one its           *)
(* private_rpcs field points to, "balanced" when spawn found no private   *)
(* relays and cloned the balanced Arc.                                     *)
(***************************************************************************)
EXTENDS Naturals, Sequences

CONSTANTS
    Chains,             \* chain ids a config file may name
    Upstreams,          \* upstream server names
    MaxReloads,         \* config file changes the model lets happen
    SpawnMayFail,       \* Web3Connections::spawn may return an error
    SwapMayFail,        \* swap_rpcs may return an error
    FirstPrivateEmpty,  \* the first config lists no private relays
    FileMayBeInvalid    \* a change may leave the file unparsable

ASSUME AppConfigAssumption ==
    /\ MaxReloads \in Nat
    /\ SpawnMayFail \in BOOLEAN
    /\ SwapMayFail \in BOOLEAN
    /\ FirstPrivateEmpty \in BOOLEAN
    /\ FileMayBeInvalid \in BOOLEAN

(* RpcConfig: shared.chain_id, balanced_rpcs and private_rpcs.             *)
Configs == [chain : Chains, balanced : (SUBSET Upstreams) \ {{}},
            private : SUBSET Upstreams]

Objs == {"balanced", "private"}

(* The pool that serves private sends under config c: the private relays, *)
(* or the balanced pool when there are none.                               *)
PrivateOf(c) == IF c.private = {} THEN c.balanced ELSE c.private

(* A file toml::from_str cannot turn into an RpcConfig.                    *)
Unparsable == [text |-> "unparsable"]

VARIABLES
    chainId,     \* Web3ProxyApp.chain_id, fixed at spawn
    members,     \* what each of the app's two pool objects serves
    privateRef,  \* the object Web3ProxyApp.private_rpcs points to
    inbox,       \* configs sent and not yet received by the config task
    reloads,     \* config changes the watcher thread has sent
    task,        \* where the config task is
    cfg,         \* the config the task is applying
    newB,        \* the balanced pool update_config spawned
    newP,        \* the private pool update_config chose
    applied,     \* the last config the task applied in full
    process,     \* main: "running" until its select! returns
    file,        \* what the config file holds: a config, or Unparsable
    event,       \* a debounced change event waits for the watcher
    watcher      \* the watcher thread: "alive" until it panics

vars == <<chainId, members, privateRef, inbox, reloads, task, cfg, newB, newP,
          applied, process, file, event, watcher>>

Steps == {"recv", "spawnB", "spawnP", "swapB", "swapP", "failed"}

TypeOK ==
    /\ chainId \in Chains
    /\ members \in [Objs -> SUBSET Upstreams]
    /\ privateRef \in Objs
    /\ inbox \in Seq(Configs)
    /\ reloads \in 0..MaxReloads
    /\ task \in Steps
    /\ cfg \in Configs
    /\ newB \in SUBSET Upstreams
    /\ newP \in SUBSET Upstreams
    /\ applied \in Configs
    /\ process \in {"running", "exited"}
    /\ file \in Configs \cup {Unparsable}
    /\ event \in BOOLEAN
    /\ watcher \in {"alive", "dead"}

(* Web3ProxyApp::spawn with the first config: the private field clones the *)
(* balanced Arc when the config has no private relays.                    *)
Init ==
    /\ \E c \in Configs :
          /\ (c.private = {}) = FirstPrivateEmpty
          /\ chainId = c.chain
          /\ privateRef = IF c.private = {} THEN "balanced" ELSE "private"
          /\ members = [o \in Objs |-> IF o = "balanced" THEN c.balanced ELSE c.private]
          /\ cfg = c
          /\ applied = c
          /\ file = c
    /\ inbox = << >>
    /\ reloads = 0
    /\ task = "recv"
    /\ newB = {}
    /\ newP = {}
    /\ process = "running"
    /\ event = FALSE
    /\ watcher = "alive"

-----------------------------------------------------------------------------
(* Environment: the config file is saved, with a config or, part-way     *)
(* through an editor's write, with text toml cannot parse; notify raises  *)
(* a debounced event (several saves within the debounce are one event).  *)
FileWrite ==
    /\ reloads < MaxReloads
    /\ \E c \in Configs \cup (IF FileMayBeInvalid THEN {Unparsable} ELSE {}) :
          file' = c
    /\ event' = TRUE
    /\ reloads' = reloads + 1
    /\ UNCHANGED <<chainId, members, privateRef, inbox, task, cfg, newB, newP,
                   applied, process, watcher>>

(* Mutant: the watcher takes the change for a NoticeWrite and goes on.   *)
WatcherReadSkipsEvent ==
    /\ watcher = "alive"
    /\ event
    /\ event' = FALSE
    /\ UNCHANGED <<chainId, members, privateRef, inbox, reloads, task, cfg,
                   newB, newP, applied, process, file, watcher>>

(* The watcher thread's loop: rx.recv() returns the event, read_to_string *)
(* and toml::from_str, then config_sender.send.  A file that does not     *)
(* parse panics the thread at the unwrap (116): it is never restarted,    *)
(* and nothing else notices.                                               *)
WatcherRead ==
    /\ watcher = "alive"
    /\ event
    /\ event' = FALSE
    /\ \/ /\ file # Unparsable
          /\ inbox' = Append(inbox, file)
          /\ UNCHANGED watcher
       \/ /\ file = Unparsable
          /\ watcher' = "dead"
          /\ UNCHANGED inbox
    /\ UNCHANGED <<chainId, members, privateRef, reloads, task, cfg, newB, newP,
                   applied, process, file>>

(* Mutant: update_config takes any chain id.                            *)
RecvConfigNoChainCheck ==
    /\ task = "recv"
    /\ inbox # << >>
    /\ cfg' = Head(inbox)
    /\ inbox' = Tail(inbox)
    /\ task' = "spawnB"
    /\ UNCHANGED <<chainId, members, privateRef, reloads, newB, newP, applied,
                   process, file, event, watcher>>

(* recv_async, then update_config's chain id check: a different chain id  *)
(* returns Err and the `?` ends the config task.                           *)
RecvConfig ==
    /\ task = "recv"
    /\ inbox # << >>
    /\ cfg' = Head(inbox)
    /\ inbox' = Tail(inbox)
    /\ task' = IF Head(inbox).chain # chainId THEN "failed" ELSE "spawnB"
    /\ UNCHANGED <<chainId, members, privateRef, reloads, newB, newP, applied, process, file, event, watcher>>

(* Web3Connections::spawn for the new balanced servers, `.await?`.          *)
SpawnBalanced ==
    /\ task = "spawnB"
    /\ \/ /\ newB' = cfg.balanced
          /\ task' = "spawnP"
       \/ /\ SpawnMayFail
          /\ task' = "failed"
          /\ UNCHANGED newB
    /\ UNCHANGED <<chainId, members, privateRef, inbox, reloads, cfg, newP, applied, process, file, event, watcher>>

(* Mutant: the private pool is the configured relays even when none are.   *)
SpawnPrivateNoFallback ==
    /\ task = "spawnP"
    /\ newP' = cfg.private
    /\ task' = "swapB"
    /\ UNCHANGED <<chainId, members, privateRef, inbox, reloads, cfg, newB, applied, process, file, event, watcher>>

(* No private relays: clone the new balanced pool.  Otherwise spawn them,  *)
(* `.await?`.                                                               *)
SpawnPrivate ==
    /\ task = "spawnP"
    /\ \/ /\ cfg.private = {}
          /\ newP' = newB
          /\ task' = "swapB"
       \/ /\ cfg.private # {}
          /\ newP' = cfg.private
          /\ task' = "swapB"
       \/ /\ cfg.private # {}
          /\ SpawnMayFail
          /\ task' = "failed"
          /\ UNCHANGED newP
    /\ UNCHANGED <<chainId, members, privateRef, inbox, reloads, cfg, newB, applied, process, file, event, watcher>>

(* self.balanced_rpcs.swap_rpcs(balanced_rpcs).await?: swapped, or an     *)
(* error that the `?` returns, ending the config task with nothing swapped. *)
SwapBalanced ==
    /\ task = "swapB"
    /\ \/ /\ members' = [members EXCEPT !["balanced"] = newB]
          /\ task' = "swapP"
       \/ /\ SwapMayFail
          /\ task' = "failed"
          /\ UNCHANGED members
    /\ UNCHANGED <<chainId, privateRef, inbox, reloads, cfg, newB, newP, applied, process, file, event, watcher>>

(* self.private_rpcs.swap_rpcs(private_rpcs).await?, into whichever object *)
(* the private field points to; then wait for the next config.  An error  *)
(* ends the config task with the balanced pool already swapped.            *)
SwapPrivate ==
    /\ task = "swapP"
    /\ \/ /\ members' = [members EXCEPT ![privateRef] = newP]
          /\ applied' = cfg
          /\ task' = "recv"
       \/ /\ SwapMayFail
          /\ task' = "failed"
          /\ UNCHANGED <<members, applied>>
    /\ UNCHANGED <<chainId, privateRef, inbox, reloads, cfg, newB, newP, process, file, event, watcher>>

(* main's select!: flatten_handles returns the config task's error and    *)
(* main returns, ending the proxy.                                          *)
MainSelect ==
    /\ task = "failed"
    /\ process = "running"
    /\ process' = "exited"
    /\ UNCHANGED <<chainId, members, privateRef, inbox, reloads, task, cfg, newB, newP, applied, file, event, watcher>>

(* The watcher has sent what the model allows and the task has applied it, *)
(* or the proxy has exited.                                                  *)
Quiescent ==
    /\ reloads = MaxReloads
    /\ ~event \/ watcher = "dead"
    /\ \/ task = "recv" /\ inbox = << >>
       \/ process = "exited"
    /\ UNCHANGED vars

Next ==
    \/ FileWrite
    \/ WatcherRead
    \/ RecvConfig
    \/ SpawnBalanced
    \/ SpawnPrivate
    \/ SwapBalanced
    \/ SwapPrivate
    \/ MainSelect
    \/ Quiescent

Spec == Init /\ [][Next]_vars

(* The config task's own steps.                                            *)
ConfigTask ==
    \/ RecvConfig
    \/ SpawnBalanced
    \/ SpawnPrivate
    \/ SwapBalanced
    \/ SwapPrivate

(* The watcher is an OS thread blocked in rx.recv(), the config task a    *)
(* tokio task woken by recv_async, and main's select! is polled whenever  *)
(* a handle finishes: each keeps taking its steps while it can.            *)
FairSpec ==
    /\ Spec
    /\ WF_vars(WatcherRead)
    /\ WF_vars(ConfigTask)
    /\ WF_vars(MainSelect)

-----------------------------------------------------------------------------
(* Properties.                                                             *)

(* Once a reload has been applied in full, the balanced pool serves the   *)
(* config's balanced servers and private sends go to its private relays,  *)
(* or to the balanced servers when it has none (update_config's two      *)
(* swaps).                                                                  *)
PoolsMatchConfig ==
    task = "recv" =>
        /\ members["balanced"] = applied.balanced
        /\ members[privateRef] = PrivateOf(applied)

(* Spec 8.8: a reload with a different chain id is rejected and the proxy *)
(* goes on serving with its previous state.                                *)
KeepsServing == process = "running"

(* A config file change is eventually in force: once the file stops      *)
(* changing, a file that parses is the applied config, unless the proxy  *)
(* has exited.  The watcher thread (main.rs 93-123) must survive a save   *)
(* it cannot parse for this to hold.                                       *)
ReloadsTakeEffect ==
    <>[](file \in Configs => applied = file \/ process = "exited")

(* While the watcher thread lives, the channel, the config task's loop    *)
(* (spawn_with_watched_config) and update_config bring every file that   *)
(* parses into force, unless the proxy has exited: no config is lost or  *)
(* left in the channel.                                                    *)
WatchedReloadsTakeEffect ==
    <>[](watcher = "alive" /\ file \in Configs
           => applied = file \/ process = "exited")

-----------------------------------------------------------------------------
(* Refinement of ConfigService.  The abstract queue is the channel with  *)
(* the config being applied at its head; the config in force is applied; *)
(* the service runs until the task has failed.  A failed private swap is *)
(* ConfigService's FailAfterSwap.                                           *)
InFlight == task \in {"spawnB", "spawnP", "swapB", "swapP"}

QueueView == IF InFlight THEN << cfg >> \o inbox ELSE inbox

(* What the router sees: the balanced pool, and the pool private sends go *)
(* to.                                                                      *)
ServingView == [balanced |-> members["balanced"], private |-> members[privateRef]]

(* The same, with the window between the two swaps (task = "swapP")      *)
(* shown as the config still in force.                                     *)
SettledView ==
    IF task = "swapP"
      THEN [balanced |-> applied.balanced, private |-> PrivateOf(applied)]
      ELSE ServingView

Service == INSTANCE ConfigService WITH
    queue <- QueueView, current <- applied, serving <- SettledView,
    running <- (task # "failed")

Observed == INSTANCE ConfigService WITH
    queue <- QueueView, current <- applied, serving <- ServingView,
    running <- (task # "failed")

(* Spec 5/6: reloads are applied in the order they were sent, each as a  *)
(* whole, and a rejected or failed reload ends the service with the      *)
(* pools as they were, or, when the private swap failed, with only the   *)
(* balanced pool swapped (spawn_with_watched_config's loop and            *)
(* update_config), outside the window between update_config's two swaps. *)
ImplementsConfigService == Service!Spec

(* Spec 6 (line 210): the new upstream sets are swapped in atomically, so *)
(* the router never sees the new balanced pool with the old private one  *)
(* (update_config's swaps at app.rs 172-173).                              *)
SwapsLookAtomic == Observed!AtomicSpec

=============================================================================
