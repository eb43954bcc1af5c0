---------------------------- MODULE ConfigService ----------------------------
(***************************************************************************)
(* Config reload as one atomic step per config (spec 6, line 210): configs *)
(* are taken in the order they were sent; each is applied as a whole, so  *)
(* that from one step to the next both pools serve the new config's       *)
(* upstreams, or it ends the service.  Ending the service on a rejected   *)
(* config is what the proxy does; spec 8.8 asks instead that the previous *)
(* state keep serving (AppConfig's KeepsServing).  Spec promises          *)
(* AtomicSpec; the proxy's config task (AppConfig), with a channel, two   *)
(* spawns and two swaps, implements Spec, which adds one way to end: a    *)
(* failure after the balanced pool was swapped leaves it swapped.         *)
(***************************************************************************)
EXTENDS Sequences

CONSTANTS Chains, Upstreams

(* The configs of AppConfig: chain id, balanced and private upstreams.    *)
Configs == [chain : Chains, balanced : (SUBSET Upstreams) \ {{}},
            private : SUBSET Upstreams]

(* What a config makes the pools serve: private sends go to the private  *)
(* relays, or to the balanced servers when there are none (spec 5).       *)
Pools(c) == [balanced |-> c.balanced,
             private |-> IF c.private = {} THEN c.balanced ELSE c.private]

VARIABLES
    queue,     \* configs sent and not yet taken
    current,   \* the config in force
    serving,   \* what the balanced and the private pool serve
    running    \* the service has not ended

svars == <<queue, current, serving, running>>

Init ==
    /\ queue = << >>
    /\ current \in Configs
    /\ serving = Pools(current)
    /\ running = TRUE

(* A new config is sent.                                                   *)
Submit ==
    /\ \E c \in Configs : queue' = Append(queue, c)
    /\ UNCHANGED <<current, serving, running>>

(* The oldest config has the chain id in force and is applied at once.    *)
Apply ==
    /\ running
    /\ queue # << >>
    /\ Head(queue).chain = current.chain
    /\ current' = Head(queue)
    /\ serving' = Pools(Head(queue))
    /\ queue' = Tail(queue)
    /\ UNCHANGED running

(* The oldest config is taken and the service ends: what the proxy does  *)
(* with a config it cannot apply.                                          *)
Fail ==
    /\ running
    /\ queue # << >>
    /\ queue' = Tail(queue)
    /\ running' = FALSE
    /\ UNCHANGED <<current, serving>>

(* The oldest config, with the chain id in force, ends the service after *)
(* only its balanced upstreams were swapped in: update_config's second   *)
(* swap returned an error.  Not atomic, so not in AtomicSpec.              *)
FailAfterSwap ==
    /\ running
    /\ queue # << >>
    /\ Head(queue).chain = current.chain
    /\ serving' = [serving EXCEPT !.balanced = Head(queue).balanced]
    /\ queue' = Tail(queue)
    /\ running' = FALSE
    /\ UNCHANGED current

(* Spec 6: each config is applied as a whole or not at all.               *)
AtomicNext == Submit \/ Apply \/ Fail

AtomicSpec == Init /\ [][AtomicNext]_svars

Next == AtomicNext \/ FailAfterSwap

Spec == Init /\ [][Next]_svars

=============================================================================
