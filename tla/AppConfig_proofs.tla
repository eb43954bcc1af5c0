-------------------------- MODULE AppConfig_proofs --------------------------
(***************************************************************************)
(* Proofs about config reload (AppConfig): every reachable state is well  *)
(* typed; and when the first config has private relays, the pools always *)
(* match the config in force outside the window between the two swaps,   *)
(* and the reload pipeline implements ConfigService.                       *)
(***************************************************************************)
EXTENDS AppConfig, SequenceTheorems, TLAPS

USE AppConfigAssumption

-----------------------------------------------------------------------------
(* Lemmas on the channel with the config being applied put back at its  *)
(* head (QueueView).                                                       *)

LEMMA ConsProps ==
    ASSUME NEW S, NEW c \in S, NEW s \in Seq(S)
    PROVE  /\ << c >> \o s \in Seq(S)
           /\ << c >> \o s # << >>
           /\ Head(<< c >> \o s) = c
           /\ Tail(<< c >> \o s) = s
<1>1. << c >> \in Seq(S)
  OBVIOUS
<1>2. << c >> \o s \in Seq(S) /\ Len(<< c >> \o s) = 1 + Len(s)
  BY <1>1, ConcatProperties
<1>3. << c >> \o s # << >>
  BY <1>2
<1>4. Head(<< c >> \o s) = c
  BY <1>1, ConcatProperties
<1>5. Tail(<< c >> \o s) = s
  <2>1. Tail(<< c >> \o s) \in Seq(S) /\ Len(Tail(<< c >> \o s)) = Len(s)
    BY <1>2, <1>3, HeadTailProperties
  <2>2. \A i \in 1 .. Len(s) : Tail(<< c >> \o s)[i] = s[i]
    BY <1>1, <1>2, <1>3, HeadTailProperties, ConcatProperties
  <2>. QED  BY <2>1, <2>2, SeqEqual
<1>. QED  BY <1>2, <1>3, <1>4, <1>5

LEMMA ConsAppend ==
    ASSUME NEW S, NEW c \in S, NEW s \in Seq(S), NEW e \in S
    PROVE  Append(<< c >> \o s, e) = << c >> \o Append(s, e)
<1>1. << c >> \in Seq(S) /\ << e >> \in Seq(S)
  OBVIOUS
<1>2. << c >> \o s \in Seq(S)
  BY ConsProps
<1>3. Append(<< c >> \o s, e) = (<< c >> \o s) \o << e >>
  BY <1>2, AppendIsConcat
<1>4. Append(s, e) = s \o << e >>
  BY AppendIsConcat
<1>. QED  BY <1>1, <1>3, <1>4, ConcatAssociative

LEMMA ConsHeadTail ==
    ASSUME NEW S, NEW s \in Seq(S), s # << >>
    PROVE  << Head(s) >> \o Tail(s) = s
<1>1. Head(s) \in S /\ Tail(s) \in Seq(S)
  BY HeadTailProperties
<1>2. << Head(s) >> \o Tail(s) \in Seq(S)
       /\ Len(<< Head(s) >> \o Tail(s)) = Len(s)
  BY <1>1, ConcatProperties, HeadTailProperties
<1>3. \A i \in 1 .. Len(s) : (<< Head(s) >> \o Tail(s))[i] = s[i]
  BY <1>1, ConcatProperties, HeadTailProperties
<1>. QED  BY <1>2, <1>3, SeqEqual

-----------------------------------------------------------------------------
(* Type correctness.                                                       *)

LEMMA InitTypeOK == Init => TypeOK
<1> SUFFICES ASSUME Init PROVE TypeOK
  OBVIOUS
<1>1. PICK c \in Configs :
        /\ chainId = c.chain
        /\ privateRef = IF c.private = {} THEN "balanced" ELSE "private"
        /\ members = [o \in Objs |-> IF o = "balanced" THEN c.balanced ELSE c.private]
        /\ cfg = c /\ applied = c /\ file = c
  BY DEF Init
<1>2. members \in [Objs -> SUBSET Upstreams]
  BY <1>1 DEF Configs
<1>3. chainId \in Chains /\ cfg \in Configs /\ applied \in Configs
       /\ file \in Configs \cup {Unparsable}
  BY <1>1 DEF Configs
<1>4. privateRef \in Objs
  BY <1>1 DEF Objs
<1>5. inbox \in Seq(Configs) /\ reloads \in 0..MaxReloads /\ task \in Steps
  BY DEF Init, Steps
<1>6. /\ newB \in SUBSET Upstreams /\ newP \in SUBSET Upstreams
      /\ process \in {"running", "exited"} /\ event \in BOOLEAN
      /\ watcher \in {"alive", "dead"}
  BY DEF Init
<1>. QED  BY <1>2, <1>3, <1>4, <1>5, <1>6 DEF TypeOK

LEMMA StepTypeOK == TypeOK /\ [Next]_vars => TypeOK'
<1> SUFFICES ASSUME TypeOK, [Next]_vars PROVE TypeOK'
  OBVIOUS
<1>1. CASE FileWrite
  BY <1>1 DEF FileWrite, TypeOK
<1>2. CASE WatcherRead
  <2>1. CASE file # Unparsable
    <3>1. file \in Configs
      BY <2>1 DEF TypeOK
    <3>2. inbox' = Append(inbox, file)
      BY <1>2, <2>1 DEF WatcherRead
    <3>. QED  BY <1>2, <3>1, <3>2, AppendProperties DEF WatcherRead, TypeOK
  <2>2. CASE file = Unparsable
    BY <1>2, <2>2 DEF WatcherRead, TypeOK
  <2>. QED  BY <2>1, <2>2
<1>3. CASE RecvConfig
  BY <1>3, HeadTailProperties DEF RecvConfig, TypeOK, Steps
<1>4. CASE SpawnBalanced
  BY <1>4 DEF SpawnBalanced, TypeOK, Steps, Configs
<1>5. CASE SpawnPrivate
  BY <1>5 DEF SpawnPrivate, TypeOK, Steps, Configs
<1>6. CASE SwapBalanced
  BY <1>6 DEF SwapBalanced, TypeOK, Steps, Objs
<1>7. CASE SwapPrivate
  BY <1>7 DEF SwapPrivate, TypeOK, Steps, Objs
<1>8. CASE MainSelect
  BY <1>8 DEF MainSelect, TypeOK
<1>9. CASE Quiescent \/ UNCHANGED vars
  BY <1>9 DEF Quiescent, TypeOK, vars
<1>. QED  BY <1>1, <1>2, <1>3, <1>4, <1>5, <1>6, <1>7, <1>8, <1>9 DEF Next

(* Every reachable state of the reload pipeline is well typed: the       *)
(* channel holds only parsed configs (the watcher sends only what         *)
(* toml::from_str returned) and the pools only configured upstreams.      *)
THEOREM TypeCorrect == Spec => []TypeOK
BY InitTypeOK, StepTypeOK, PTL DEF Spec

-----------------------------------------------------------------------------
(* The pools and the config in force, when the first config has private  *)
(* relays (so private_rpcs is an Arc of its own).  PoolsMatchConfig is    *)
(* not inductive: it speaks only of task = "recv", and a swap is correct  *)
(* only if the pools spawned before it are the config's.  The             *)
(* strengthening says what each step of update_config holds: the chain    *)
(* id of the config in flight, the spawned pools, and the pools in force, *)
(* with the window after the balanced swap where the balanced pool is     *)
(* already the new config's.  Once the task has failed the pools are     *)
(* whatever the failed step left.                                          *)
PoolsInv ==
    /\ privateRef = "private"
    /\ applied.chain = chainId
    /\ InFlight => cfg.chain = chainId
    /\ task \in {"spawnP", "swapB", "swapP"} => newB = cfg.balanced
    /\ task \in {"swapB", "swapP"} => newP = PrivateOf(cfg)
    /\ task \notin {"swapP", "failed"} =>
                         /\ members["balanced"] = applied.balanced
                         /\ members["private"] = PrivateOf(applied)
    /\ task = "swapP" => /\ members["balanced"] = cfg.balanced
                         /\ members["private"] = PrivateOf(applied)

IInv == TypeOK /\ PoolsInv

LEMMA InitIInv == ~FirstPrivateEmpty /\ Init => IInv
<1> SUFFICES ASSUME ~FirstPrivateEmpty, Init PROVE IInv
  OBVIOUS
<1>1. TypeOK
  BY InitTypeOK
<1>2. PICK c \in Configs :
        /\ (c.private = {}) = FirstPrivateEmpty
        /\ chainId = c.chain
        /\ privateRef = IF c.private = {} THEN "balanced" ELSE "private"
        /\ members = [o \in Objs |-> IF o = "balanced" THEN c.balanced ELSE c.private]
        /\ applied = c
  BY DEF Init
<1>3. c.private # {}
  BY <1>2
<1>. QED  BY <1>1, <1>2, <1>3 DEF Init, IInv, PoolsInv, InFlight, PrivateOf, Objs

LEMMA StepIInv == ~FirstPrivateEmpty /\ IInv /\ [Next]_vars => IInv'
<1> SUFFICES ASSUME ~FirstPrivateEmpty, IInv, [Next]_vars PROVE IInv'
  OBVIOUS
<1>0. TypeOK'
  BY StepTypeOK DEF IInv
<1> USE DEF IInv
<1>1. CASE FileWrite
  BY <1>0, <1>1 DEF FileWrite, PoolsInv, InFlight
<1>2. CASE WatcherRead
  BY <1>0, <1>2 DEF WatcherRead, PoolsInv, InFlight
<1>3. CASE RecvConfig
  BY <1>0, <1>3 DEF RecvConfig, PoolsInv, InFlight
<1>4. CASE SpawnBalanced
  BY <1>0, <1>4 DEF SpawnBalanced, PoolsInv, InFlight
<1>5. CASE SpawnPrivate
  BY <1>0, <1>5 DEF SpawnPrivate, PoolsInv, InFlight, PrivateOf
<1>6. CASE SwapBalanced
  BY <1>0, <1>6 DEF SwapBalanced, PoolsInv, InFlight, TypeOK, Objs
<1>7. CASE SwapPrivate
  BY <1>0, <1>7 DEF SwapPrivate, PoolsInv, InFlight, TypeOK, Objs
<1>8. CASE MainSelect
  BY <1>0, <1>8 DEF MainSelect, PoolsInv, InFlight
<1>9. CASE Quiescent \/ UNCHANGED vars
  BY <1>0, <1>9 DEF Quiescent, vars, PoolsInv, InFlight
<1>. QED  BY <1>1, <1>2, <1>3, <1>4, <1>5, <1>6, <1>7, <1>8, <1>9 DEF Next

(* When the first config has private relays, every reload that has been *)
(* applied in full leaves the balanced pool serving its balanced servers *)
(* and private sends going to its private relays, or to the balanced     *)
(* servers when it has none (update_config's spawns and two swaps).      *)
THEOREM PoolsMatchThm == ~FirstPrivateEmpty => (Spec => []PoolsMatchConfig)
<1> SUFFICES ASSUME ~FirstPrivateEmpty PROVE Spec => []PoolsMatchConfig
  OBVIOUS
<1>1. Init => IInv
  BY InitIInv
<1>2. IInv /\ [Next]_vars => IInv'
  BY StepIInv
<1>3. IInv => PoolsMatchConfig
  BY DEF IInv, PoolsInv, PoolsMatchConfig
<1>. QED  BY <1>1, <1>2, <1>3, PTL DEF Spec

-----------------------------------------------------------------------------
(* Refinement of ConfigService.                                            *)

(* Under the invariant, what the router is taken to see while the task   *)
(* runs is what the config in force makes the pools serve.                *)
LEMMA SettledIsApplied ==
    IInv /\ task # "failed" => SettledView = Service!Pools(applied)
BY DEF IInv, PoolsInv, SettledView, ServingView, PrivateOf, Service!Pools

LEMMA InitRefines == ~FirstPrivateEmpty /\ Init => Service!Init
<1> SUFFICES ASSUME ~FirstPrivateEmpty, Init PROVE Service!Init
  OBVIOUS
<1>1. IInv
  BY InitIInv
<1>2. QueueView = << >>
  BY DEF Init, QueueView, InFlight
<1>3. applied \in Service!Configs
  BY <1>1 DEF IInv, TypeOK, Configs, Service!Configs
<1>4. task # "failed"
  BY DEF Init
<1>. QED  BY <1>1, <1>2, <1>3, <1>4, SettledIsApplied DEF Service!Init

(* A step of the running pipeline that changes neither the channel seen   *)
(* with the config in flight nor the config in force, and does not fail,  *)
(* is a stutter of ConfigService.                                          *)
LEMMA StutterRefines ==
    ASSUME IInv, IInv', QueueView' = QueueView, applied' = applied,
           task # "failed", task' # "failed"
    PROVE  UNCHANGED Service!svars
<1>1. SettledView = Service!Pools(applied)
  BY SettledIsApplied
<1>2. SettledView' = Service!Pools(applied')
  BY DEF IInv, PoolsInv, SettledView, ServingView, PrivateOf, Service!Pools
<1>. QED  BY <1>1, <1>2 DEF Service!svars

(* A step that leaves the pools, the private field and the task alone     *)
(* leaves the router's view alone.                                         *)
LEMMA ViewFrame ==
    ASSUME members' = members, privateRef' = privateRef, task' = task,
           applied' = applied
    PROVE  SettledView' = SettledView
BY DEF SettledView, ServingView

(* A step that fails before any swap leaves the router's view alone.      *)
LEMMA FailFrame ==
    ASSUME members' = members, privateRef' = privateRef, task # "swapP",
           task' = "failed"
    PROVE  SettledView' = SettledView
BY DEF SettledView, ServingView

LEMMA StepRefines ==
    ~FirstPrivateEmpty /\ IInv /\ IInv' /\ [Next]_vars
      => [Service!Next]_Service!svars
<1> SUFFICES ASSUME ~FirstPrivateEmpty, IInv, IInv', [Next]_vars
             PROVE  [Service!Next]_Service!svars
  OBVIOUS
<1>0. TypeOK /\ TypeOK'
  BY DEF IInv
<1>1. CASE FileWrite
  <2>1. QueueView' = QueueView /\ SettledView' = SettledView
    BY <1>1, ViewFrame DEF FileWrite, QueueView, InFlight
  <2>. QED  BY <1>1, <2>1 DEF FileWrite, Service!svars
<1>2. CASE WatcherRead
  <2>0. SettledView' = SettledView /\ applied' = applied /\ task' = task
    BY <1>2, ViewFrame DEF WatcherRead
  <2>1. CASE file # Unparsable
    <3>1. file \in Service!Configs
      BY <1>0, <2>1 DEF TypeOK, Configs, Service!Configs
    <3>2. inbox' = Append(inbox, file)
      BY <1>2, <2>1 DEF WatcherRead
    <3>3. QueueView' = Append(QueueView, file)
      <4>1. CASE InFlight
        <5>1. cfg \in Configs /\ inbox \in Seq(Configs) /\ file \in Configs
          BY <1>0, <3>1 DEF TypeOK, Configs, Service!Configs
        <5>. QED  BY <1>2, <3>2, <4>1, <5>1, ConsAppend DEF WatcherRead, QueueView, InFlight
      <4>2. CASE ~InFlight
        BY <1>2, <3>2, <4>2 DEF WatcherRead, QueueView, InFlight
      <4>. QED  BY <4>1, <4>2
    <3>4. Service!Submit
      BY <2>0, <3>1, <3>3 DEF Service!Submit
    <3>. QED  BY <3>4 DEF Service!Next, Service!AtomicNext
  <2>2. CASE file = Unparsable
    <3>. QueueView' = QueueView
      BY <1>2, <2>2 DEF WatcherRead, QueueView, InFlight
    <3>. QED  BY <2>0 DEF Service!svars
  <2>. QED  BY <2>1, <2>2
<1>3. CASE RecvConfig
  <2>1. inbox \in Seq(Configs) /\ inbox # << >> /\ ~InFlight /\ task = "recv"
    BY <1>0, <1>3 DEF TypeOK, RecvConfig, InFlight
  <2>2. QueueView = inbox
    BY <2>1 DEF QueueView
  <2>3. CASE Head(inbox).chain # chainId
    <3>1. task' = "failed" /\ QueueView' = Tail(QueueView) /\ applied' = applied
      BY <1>3, <2>2, <2>3 DEF RecvConfig, QueueView, InFlight
    <3>2. SettledView' = SettledView
      BY <1>3, <2>1, <3>1, FailFrame DEF RecvConfig
    <3>3. Service!Fail
      BY <2>1, <2>2, <3>1, <3>2 DEF Service!Fail
    <3>. QED  BY <3>3 DEF Service!Next, Service!AtomicNext
  <2>4. CASE Head(inbox).chain = chainId
    <3>1. QueueView' = << Head(inbox) >> \o Tail(inbox)
      BY <1>3, <2>4 DEF RecvConfig, QueueView, InFlight
    <3>2. QueueView' = QueueView
      BY <2>1, <2>2, <3>1, ConsHeadTail
    <3>. QED  BY <1>3, <2>1, <2>4, <3>2, StutterRefines DEF RecvConfig
  <2>. QED  BY <2>3, <2>4
<1>4. CASE SpawnBalanced
  <2>1. cfg \in Configs /\ inbox \in Seq(Configs) /\ QueueView = << cfg >> \o inbox
    BY <1>0, <1>4 DEF TypeOK, SpawnBalanced, QueueView, InFlight
  <2>2. CASE task' = "spawnP"
    <3>. QueueView' = QueueView
      BY <1>4, <2>1, <2>2 DEF SpawnBalanced, QueueView, InFlight
    <3>. QED  BY <1>4, <2>2, StutterRefines DEF SpawnBalanced
  <2>3. CASE task' = "failed"
    <3>1. QueueView' = inbox /\ applied' = applied /\ task = "spawnB"
      BY <1>4, <2>3 DEF SpawnBalanced, QueueView, InFlight
    <3>2. QueueView # << >> /\ Tail(QueueView) = inbox
      BY <2>1, ConsProps
    <3>3. SettledView' = SettledView
      BY <1>4, <2>3, <3>1, FailFrame DEF SpawnBalanced
    <3>4. Service!Fail
      BY <2>3, <3>1, <3>2, <3>3 DEF Service!Fail
    <3>. QED  BY <3>4 DEF Service!Next, Service!AtomicNext
  <2>. QED  BY <1>4, <2>2, <2>3 DEF SpawnBalanced
<1>5. CASE SpawnPrivate
  <2>1. cfg \in Configs /\ inbox \in Seq(Configs) /\ QueueView = << cfg >> \o inbox
    BY <1>0, <1>5 DEF TypeOK, SpawnPrivate, QueueView, InFlight
  <2>2. CASE task' = "swapB"
    <3>. QueueView' = QueueView
      BY <1>5, <2>1, <2>2 DEF SpawnPrivate, QueueView, InFlight
    <3>. QED  BY <1>5, <2>2, StutterRefines DEF SpawnPrivate
  <2>3. CASE task' = "failed"
    <3>1. QueueView' = inbox /\ applied' = applied /\ task = "spawnP"
      BY <1>5, <2>3 DEF SpawnPrivate, QueueView, InFlight
    <3>2. QueueView # << >> /\ Tail(QueueView) = inbox
      BY <2>1, ConsProps
    <3>3. SettledView' = SettledView
      BY <1>5, <2>3, <3>1, FailFrame DEF SpawnPrivate
    <3>4. Service!Fail
      BY <2>3, <3>1, <3>2, <3>3 DEF Service!Fail
    <3>. QED  BY <3>4 DEF Service!Next, Service!AtomicNext
  <2>. QED  BY <1>5, <2>2, <2>3 DEF SpawnPrivate
<1>6. CASE SwapBalanced
  <2>1. cfg \in Configs /\ inbox \in Seq(Configs) /\ QueueView = << cfg >> \o inbox
    BY <1>0, <1>6 DEF TypeOK, SwapBalanced, QueueView, InFlight
  <2>2. CASE task' = "swapP"
    <3>. QueueView' = QueueView
      BY <1>6, <2>2 DEF SwapBalanced, QueueView, InFlight
    <3>. QED  BY <1>6, <2>2, StutterRefines DEF SwapBalanced
  <2>3. CASE task' = "failed"
    <3>1. QueueView' = inbox /\ applied' = applied /\ task = "swapB"
      BY <1>6, <2>3 DEF SwapBalanced, QueueView, InFlight
    <3>2. QueueView # << >> /\ Tail(QueueView) = inbox
      BY <2>1, ConsProps
    <3>3. SettledView' = SettledView
      BY <1>6, <2>3, <3>1, FailFrame DEF SwapBalanced
    <3>4. Service!Fail
      BY <2>3, <3>1, <3>2, <3>3 DEF Service!Fail
    <3>. QED  BY <3>4 DEF Service!Next, Service!AtomicNext
  <2>. QED  BY <1>6, <2>2, <2>3 DEF SwapBalanced
<1>7. CASE SwapPrivate
  <2>1. cfg \in Configs /\ inbox \in Seq(Configs) /\ QueueView = << cfg >> \o inbox
    BY <1>0, <1>7 DEF TypeOK, SwapPrivate, QueueView, InFlight
  <2>2. QueueView # << >> /\ Head(QueueView) = cfg /\ Tail(QueueView) = inbox
    BY <2>1, ConsProps
  <2>3. QueueView' = inbox /\ task = "swapP"
    BY <1>7 DEF SwapPrivate, QueueView, InFlight
  <2>4. cfg.chain = applied.chain
    BY <1>7 DEF IInv, PoolsInv, InFlight, SwapPrivate
  <2>5. CASE task' = "recv"
    <3>1. applied' = cfg /\ task' # "failed"
      BY <1>7, <2>5 DEF SwapPrivate
    <3>2. SettledView = Service!Pools(applied) /\ SettledView' = Service!Pools(applied')
      <4>1. SettledView = Service!Pools(applied)
        BY <2>3, SettledIsApplied
      <4>2. SettledView' = Service!Pools(applied')
        BY <3>1 DEF IInv, PoolsInv, SettledView, ServingView, PrivateOf, Service!Pools
      <4>. QED  BY <4>1, <4>2
    <3>3. Service!Apply
      BY <2>2, <2>3, <2>4, <3>1, <3>2 DEF Service!Apply
    <3>. QED  BY <3>3 DEF Service!Next, Service!AtomicNext
  <2>6. CASE task' = "failed"
    <3>1. applied' = applied /\ members' = members /\ privateRef' = privateRef
      BY <1>7, <2>6 DEF SwapPrivate
    <3>2. SettledView = Service!Pools(applied)
      BY <2>3, SettledIsApplied
    <3>3. SettledView' = [balanced |-> members["balanced"], private |-> members["private"]]
      BY <2>6, <3>1 DEF IInv, PoolsInv, SettledView, ServingView
    <3>4. members["balanced"] = cfg.balanced /\ members["private"] = PrivateOf(applied)
      BY <2>3 DEF IInv, PoolsInv
    <3>5. SettledView' = [SettledView EXCEPT !.balanced = Head(QueueView).balanced]
      BY <2>2, <3>2, <3>3, <3>4 DEF Service!Pools, PrivateOf
    <3>6. Service!FailAfterSwap
      BY <2>2, <2>3, <2>4, <2>6, <3>1, <3>5 DEF Service!FailAfterSwap
    <3>. QED  BY <3>6 DEF Service!Next, Service!AtomicNext
  <2>. QED  BY <1>7, <2>5, <2>6 DEF SwapPrivate
<1>8. CASE MainSelect
  <2>. QueueView' = QueueView /\ SettledView' = SettledView
    BY <1>8, ViewFrame DEF MainSelect, QueueView, InFlight
  <2>. QED  BY <1>8 DEF MainSelect, Service!svars
<1>9. CASE Quiescent \/ UNCHANGED vars
  <2>. QueueView' = QueueView /\ SettledView' = SettledView
    BY <1>9, ViewFrame DEF Quiescent, vars, QueueView, InFlight
  <2>. QED  BY <1>9 DEF Quiescent, vars, Service!svars
<1>. QED  BY <1>1, <1>2, <1>3, <1>4, <1>5, <1>6, <1>7, <1>8, <1>9 DEF Next

(* When the first config has private relays, the reload pipeline          *)
(* (watcher thread, channel, update_config's spawns and swaps, main's     *)
(* select!) implements ConfigService: configs are applied whole, in the   *)
(* order they were sent, only with the chain id in force, and a rejected  *)
(* or failed one ends the service, with only the balanced pool swapped   *)
(* when the private swap failed; the swap window is the one place the    *)
(* router's view is not the abstract one (ConfigSwapWindow).              *)
THEOREM RefinementThm ==
    ~FirstPrivateEmpty => (Spec => ImplementsConfigService)
<1> SUFFICES ASSUME ~FirstPrivateEmpty PROVE Spec => Service!Spec
  BY DEF ImplementsConfigService
<1>1. Init => IInv /\ Service!Init
  BY InitIInv, InitRefines
<1>2. IInv /\ [Next]_vars => IInv'
  BY StepIInv
<1>3. IInv /\ IInv' /\ [Next]_vars => [Service!Next]_Service!svars
  BY StepRefines
<1>. QED  BY <1>1, <1>2, <1>3, PTL DEF Spec, Service!Spec

=============================================================================
