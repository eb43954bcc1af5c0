------------------------ MODULE Subscriptions_proofs ------------------------
(***************************************************************************)
(* Proofs about the eth_subscribe tasks of Subscriptions: type            *)
(* correctness, and that an aborted subscription task sends at most the   *)
(* one message it was already sending, for every number of subscriptions, *)
(* heads and pending-tx events.                                            *)
(***************************************************************************)
EXTENDS Subscriptions, SequenceTheorems, TLAPS

(* The task counts no message after the abort unless it is at the send   *)
(* it was at when the AbortHandle fired, or past it.  Once aborted, a     *)
(* task at "poll" can only end (both streams are Abortable), so at most   *)
(* one send completes after the abort.                                    *)
AbortInv ==
    \A s \in Subs :
        /\ afterAbort[s] <= 1
        /\ (~aborted[s] \/ task[s] = "send") => afterAbort[s] = 0

IInv == TypeOK /\ AbortInv

(* Every initial state is well typed and has counted nothing.             *)
LEMMA InitIInv == Init => IInv
BY SubscriptionsAssumption DEF Init, IInv, TypeOK, AbortInv, Heads, Tasks

(* The steps of one subscription keep the invariant.                       *)
LEMMA SubStepIInv ==
    ASSUME IInv, NEW s \in Subs,
           Subscribe(s) \/ Forward(s) \/ ClientGone(s) \/ Unsubscribe(s)
    PROVE  IInv'
<1>. USE DEF IInv
<1>1. CASE Subscribe(s)
  BY <1>1 DEF Subscribe, TypeOK, AbortInv, Kinds, Tasks
<1>2. CASE PollHead(s)
  <2>1. UNCHANGED <<nextId, subId, kind, head, log, start, next, delivered,
                    sinkOpen, aborted, afterAbort>>
    BY <1>2 DEF PollHead
  <2>2. CASE aborted[s]
    <3>1. task' = [task EXCEPT ![s] = "ended"] /\ UNCHANGED <<seenHead, holding>>
      BY <1>2, <2>2 DEF PollHead
    <3>. QED  BY <2>1, <3>1 DEF TypeOK, AbortInv, Tasks
  <2>3. CASE ~aborted[s]
    <3>1. /\ seenHead' = [seenHead EXCEPT ![s] = head]
          /\ holding' = [holding EXCEPT ![s] = head]
          /\ task' = [task EXCEPT ![s] = "send"]
      BY <1>2, <2>3 DEF PollHead
    <3>2. head \in Nat
      BY SubscriptionsAssumption DEF TypeOK, Heads
    <3>. QED  BY <2>1, <2>3, <3>1, <3>2 DEF TypeOK, AbortInv, Tasks
  <2>. QED  BY <2>2, <2>3
<1>3. CASE PollTx(s)
  <2>1. UNCHANGED <<nextId, subId, kind, head, seenHead, log, start, delivered,
                    sinkOpen, aborted, afterAbort>>
    BY <1>3 DEF PollTx
  <2>2. CASE aborted[s] \/ (next[s] <= Len(log) /\ Lagged(s))
    <3>1. task' = [task EXCEPT ![s] = "ended"] /\ UNCHANGED <<next, holding>>
      BY <1>3, <2>2 DEF PollTx
    <3>. QED  BY <2>1, <3>1 DEF TypeOK, AbortInv, Tasks
  <2>3. CASE ~aborted[s] /\ ~(next[s] <= Len(log) /\ Lagged(s))
    <3>1. /\ next' = [next EXCEPT ![s] = next[s] + 1]
          /\ \/ UNCHANGED <<task, holding>>
             \/ /\ holding' = [holding EXCEPT ![s] = next[s]]
                /\ task' = [task EXCEPT ![s] = "send"]
      BY <1>3, <2>3 DEF PollTx
    <3>2. next'[s] \in Nat \ {0} /\ next[s] \in Nat
      BY <3>1 DEF TypeOK
    <3>3. afterAbort[s] = 0
      BY <2>3 DEF AbortInv
    <3>4. CASE UNCHANGED <<task, holding>>
      BY <2>1, <3>1, <3>2, <3>4 DEF TypeOK, AbortInv
    <3>5. CASE holding' = [holding EXCEPT ![s] = next[s]]
               /\ task' = [task EXCEPT ![s] = "send"]
      BY <2>1, <3>1, <3>2, <3>3, <3>5 DEF TypeOK, AbortInv, Tasks
    <3>. QED  BY <3>1, <3>4, <3>5
  <2>. QED  BY <2>2, <2>3
<1>4. CASE SendToClient(s)
  <2>1. CASE sinkOpen[s]
    <3>1. /\ task[s] = "send"
          /\ delivered' = [delivered EXCEPT ![s] = Append(@, holding[s])]
          /\ afterAbort' = [afterAbort EXCEPT ![s] = IF aborted[s] THEN @ + 1 ELSE @]
          /\ task' = [task EXCEPT ![s] = "poll"]
          /\ UNCHANGED <<nextId, subId, kind, head, seenHead, log, start, next,
                         holding, sinkOpen, aborted>>
      BY <1>4, <2>1 DEF SendToClient
    <3>2. TypeOK'
      BY <3>1 DEF TypeOK, Tasks
    <3>3. afterAbort[s] = 0
      BY <3>1 DEF AbortInv
    <3>4. AbortInv'
      BY <3>1, <3>3 DEF TypeOK, AbortInv
    <3>. QED  BY <3>2, <3>4
  <2>2. CASE ~sinkOpen[s]
    <3>1. /\ task' = [task EXCEPT ![s] = "ended"]
          /\ UNCHANGED <<delivered, afterAbort, nextId, subId, kind, head,
                         seenHead, log, start, next, holding, sinkOpen, aborted>>
      BY <1>4, <2>2 DEF SendToClient
    <3>. QED  BY <3>1 DEF TypeOK, AbortInv, Tasks
  <2>. QED  BY <2>1, <2>2
<1>5. CASE ClientGone(s)
  BY <1>5 DEF ClientGone, TypeOK, AbortInv
<1>6. CASE Unsubscribe(s)
  BY <1>6 DEF Unsubscribe, TypeOK, AbortInv
<1>. QED  BY <1>1, <1>2, <1>3, <1>4, <1>5, <1>6 DEF Forward

(* The pool, the upstreams and the final stutter touch no task.           *)
LEMMA EnvIInv ==
    ASSUME IInv, PublishHead \/ BroadcastTx \/ Quiescent \/ UNCHANGED vars
    PROVE  IInv'
<1>. USE DEF IInv
<1>1. CASE PublishHead
  BY <1>1, SubscriptionsAssumption DEF PublishHead, TypeOK, AbortInv, Heads
<1>2. CASE BroadcastTx
  BY <1>2 DEF BroadcastTx, TypeOK, AbortInv
<1>3. CASE Quiescent \/ UNCHANGED vars
  BY <1>3 DEF Quiescent, vars, TypeOK, AbortInv
<1>. QED  BY <1>1, <1>2, <1>3

(* Every step keeps the invariant.                                        *)
LEMMA StepIInv == IInv /\ [Next]_vars => IInv'
BY SubStepIInv, EnvIInv DEF Next

(* The invariant holds in every state of every behaviour.                 *)
LEMMA AlwaysIInv == Spec => []IInv
BY InitIInv, StepIInv, PTL DEF Spec

-----------------------------------------------------------------------------
(* Type correctness of the subscription model.                            *)
THEOREM TypeCorrect == Spec => []TypeOK
BY AlwaysIInv, PTL DEF IInv

(* eth_unsubscribe is prompt (spec 4.5): once the AbortHandle fires, the  *)
(* spawned task delivers at most the one message it was already sending, *)
(* however the abort interleaves with the stream and the sink.            *)
THEOREM AbortPromptThm == Spec => []AbortPrompt
<1>1. IInv => AbortPrompt
  BY DEF IInv, AbortInv, AbortPrompt
<1>. QED  BY <1>1, AlwaysIInv, PTL
-----------------------------------------------------------------------------
(* PendingNoSilentLoss.  A live pending task's receiver has read the      *)
(* positions start+1 .. next-1, which exist in the log; what it has       *)
(* forwarded is ascending, so the position it reads next is above all of  *)
(* it; and a call still idle has delivered nothing.                        *)

(* The sequence q of positions is strictly ascending.                      *)
Ascending(q) == \A i, j \in 1..Len(q) : i < j => q[i] < q[j]

PendOK(s) ==
    /\ task[s] = "idle" => delivered[s] = << >>
    /\ (kind[s] = "pending" /\ task[s] \in {"poll", "send"}) =>
          /\ start[s] < next[s] /\ next[s] <= Len(log) + 1
          /\ Ascending(Forwarded(s))
          /\ ToSet(Forwarded(s)) = Received(s)

PendInv == \A s \in Subs : PendOK(s)

(* Appending a position above every position of an ascending sequence    *)
(* keeps it ascending and adds the position to its range.                 *)
LEMMA AppendAscending ==
    ASSUME NEW q \in Seq(Nat), NEW v \in Nat, Ascending(q),
           \A x \in ToSet(q) : x < v
    PROVE  /\ Ascending(Append(q, v))
           /\ ToSet(Append(q, v)) = ToSet(q) \cup {v}
<1>1. /\ Len(Append(q, v)) = Len(q) + 1
      /\ Append(q, v)[Len(q) + 1] = v
      /\ \A i \in 1..Len(q) : Append(q, v)[i] = q[i]
      /\ Len(q) \in Nat
  BY AppendProperties
<1>2. \A i \in 1..Len(q) : q[i] < v
  BY DEF ToSet
<1>3. Ascending(Append(q, v))
  BY <1>1, <1>2 DEF Ascending
<1>4. ToSet(Append(q, v)) = ToSet(q) \cup {v}
  BY <1>1 DEF ToSet
<1>. QED  BY <1>3, <1>4

(* What a task forwards: its deliveries, then the item it is sending.    *)
LEMMA ConcatForm ==
    ASSUME NEW d \in Seq(Nat), NEW h \in Nat, NEW t
    PROVE  d \o (IF t = "send" THEN <<h>> ELSE << >>)
             = IF t = "send" THEN Append(d, h) ELSE d
<1>1. CASE t = "send"
  <2>1. Append(d, h) = d \o <<h>>
    BY AppendIsConcat
  <2>. QED  BY <1>1, <2>1
<1>2. CASE t # "send"
  <2>1. d \o << >> = d
    BY ConcatEmptySeq
  <2>. QED  BY <1>2, <2>1
<1>. QED  BY <1>1, <1>2

(* A step that leaves a subscription's fields and the log alone keeps    *)
(* its part of the invariant.                                             *)
LEMMA PendFrame ==
    ASSUME NEW s \in Subs, PendOK(s),
           task'[s] = task[s], kind'[s] = kind[s], delivered'[s] = delivered[s],
           holding'[s] = holding[s], start'[s] = start[s], next'[s] = next[s],
           log' = log
    PROVE  PendOK(s)'
BY DEF PendOK, Forwarded, Received, Ascending

(* A new event in the log changes no position a receiver has read.       *)
LEMMA PendBroadcast ==
    ASSUME TypeOK, NEW s \in Subs, PendOK(s), NEW st \in TxStates,
           log' = Append(log, st),
           task'[s] = task[s], kind'[s] = kind[s], delivered'[s] = delivered[s],
           holding'[s] = holding[s], start'[s] = start[s], next'[s] = next[s]
    PROVE  PendOK(s)'
<1>1. /\ Len(log') = Len(log) + 1
      /\ \A i \in 1..Len(log) : log'[i] = log[i]
      /\ Len(log) \in Nat
  BY AppendProperties DEF TypeOK
<1>2. CASE kind[s] = "pending" /\ task[s] \in {"poll", "send"}
  <2>1. next[s] <= Len(log) + 1 /\ next[s] \in Nat /\ start[s] \in Nat
    BY <1>2 DEF PendOK, TypeOK
  <2>2. Received(s)' = Received(s)
    BY <1>1, <2>1 DEF Received
  <2>3. Forwarded(s)' = Forwarded(s)
    BY DEF Forwarded
  <2>4. start[s] < next[s] /\ Ascending(Forwarded(s))
        /\ ToSet(Forwarded(s)) = Received(s)
    BY <1>2 DEF PendOK
  <2>. QED  BY <1>1, <1>2, <2>1, <2>2, <2>3, <2>4 DEF PendOK
<1>3. CASE ~(kind[s] = "pending" /\ task[s] \in {"poll", "send"})
  BY <1>3 DEF PendOK
<1>. QED  BY <1>2, <1>3
(* The steps of subscription s keep its part of the invariant.             *)
LEMMA PendOwn ==
    ASSUME TypeOK, TypeOK', PendInv, NEW s \in Subs,
           Subscribe(s) \/ Forward(s) \/ ClientGone(s) \/ Unsubscribe(s)
    PROVE  PendOK(s)'
<1>0. PendOK(s)
  BY DEF PendInv
<1>1. CASE Subscribe(s)
  <2>1. /\ delivered'[s] = << >> /\ task'[s] # "send"
        /\ start'[s] = Len(log) /\ next'[s] = Len(log) + 1 /\ log' = log
        /\ task'[s] # "idle"
    BY <1>0, <1>1 DEF Subscribe, PendOK, TypeOK
  <2>2. Forwarded(s)' = << >>
    BY <2>1, ConcatForm DEF TypeOK, Forwarded
  <2>3. Received(s)' = {}
    BY <2>1 DEF Received
  <2>4. Len(log) \in Nat
    BY DEF TypeOK
  <2>. QED  BY <2>1, <2>2, <2>3, <2>4 DEF PendOK, Ascending, ToSet
<1>2. CASE PollHead(s)
  BY <1>2 DEF PollHead, PendOK, TypeOK
<1>3. CASE PollTx(s)
  <2>1. /\ task[s] = "poll" /\ kind[s] = "pending"
        /\ UNCHANGED <<kind, start, delivered, log>>
    BY <1>3 DEF PollTx
  <2>2. /\ start[s] < next[s] /\ next[s] <= Len(log) + 1
        /\ Ascending(delivered[s]) /\ ToSet(delivered[s]) = Received(s)
        /\ delivered[s] \in Seq(Nat) /\ next[s] \in Nat /\ start[s] \in Nat
        /\ Len(log) \in Nat
    BY <1>0, <2>1, ConcatForm DEF PendOK, TypeOK, Forwarded
  <2>3. CASE aborted[s] \/ (next[s] <= Len(log) /\ Lagged(s))
    <3>1. task'[s] = "ended"
      BY <1>3, <2>3 DEF PollTx, TypeOK
    <3>. QED  BY <3>1 DEF PendOK
  <2>4. CASE ~aborted[s] /\ ~(next[s] <= Len(log) /\ Lagged(s))
    <3>1. /\ next[s] <= Len(log)
          /\ next' = [next EXCEPT ![s] = next[s] + 1]
      BY <1>3, <2>4 DEF PollTx
    <3>2. next'[s] = next[s] + 1 /\ next'[s] <= Len(log') + 1
          /\ start'[s] < next'[s]
      BY <2>1, <2>2, <3>1 DEF TypeOK
    <3>3. Received(s)' = Received(s) \cup
                         (IF log[next[s]] # "Confirmed" THEN {next[s]} ELSE {})
      BY <2>1, <2>2, <3>2 DEF Received
    <3>4. CASE log[next[s]] = "Confirmed"
      <4>1. task'[s] = "poll"
        BY <1>3, <2>4, <3>4 DEF PollTx, TypeOK
      <4>2. Forwarded(s)' = delivered[s]
        BY <2>1, <4>1, ConcatForm DEF TypeOK, Forwarded
      <4>. QED  BY <2>1, <2>2, <3>2, <3>3, <3>4, <4>1, <4>2 DEF PendOK
    <3>5. CASE log[next[s]] # "Confirmed"
      <4>1. task'[s] = "send" /\ holding'[s] = next[s]
        BY <1>3, <2>4, <3>5 DEF PollTx, TypeOK
      <4>2. Forwarded(s)' = Append(delivered[s], next[s])
        BY <2>1, <4>1, ConcatForm DEF TypeOK, Forwarded
      <4>3. \A x \in ToSet(delivered[s]) : x < next[s]
        BY <2>2 DEF Received
      <4>4. /\ Ascending(Append(delivered[s], next[s]))
            /\ ToSet(Append(delivered[s], next[s])) = ToSet(delivered[s]) \cup {next[s]}
        BY <2>2, <4>3, AppendAscending
      <4>. QED  BY <2>1, <2>2, <3>2, <3>3, <3>5, <4>1, <4>2, <4>4 DEF PendOK
    <3>. QED  BY <3>4, <3>5
  <2>. QED  BY <2>3, <2>4
<1>4. CASE SendToClient(s)
  <2>1. CASE sinkOpen[s]
    <3>1. /\ task[s] = "send" /\ task'[s] = "poll"
          /\ delivered'[s] = Append(delivered[s], holding[s])
          /\ UNCHANGED <<kind, start, next, log>>
      BY <1>4, <2>1 DEF SendToClient, TypeOK
    <3>2. Forwarded(s)' = Forwarded(s)
      BY <3>1, ConcatForm DEF TypeOK, Forwarded
    <3>. QED  BY <1>0, <3>1, <3>2 DEF PendOK, Received
  <2>2. CASE ~sinkOpen[s]
    <3>1. task'[s] = "ended"
      BY <1>4, <2>2 DEF SendToClient, TypeOK
    <3>. QED  BY <3>1 DEF PendOK
  <2>. QED  BY <2>1, <2>2
<1>5. CASE ClientGone(s) \/ Unsubscribe(s)
  BY <1>0, <1>5, PendFrame DEF ClientGone, Unsubscribe
<1>. QED  BY <1>1, <1>2, <1>3, <1>4, <1>5 DEF Forward
(* A subscription's steps touch no other subscription's fields, nor the   *)
(* log.                                                                    *)
LEMMA OthersUnchanged ==
    ASSUME TypeOK, NEW s \in Subs,
           Subscribe(s) \/ Forward(s) \/ ClientGone(s) \/ Unsubscribe(s),
           NEW s2 \in Subs \ {s}
    PROVE  /\ task'[s2] = task[s2] /\ kind'[s2] = kind[s2]
           /\ delivered'[s2] = delivered[s2] /\ holding'[s2] = holding[s2]
           /\ start'[s2] = start[s2] /\ next'[s2] = next[s2] /\ log' = log
<1>1. CASE Subscribe(s)
  BY <1>1 DEF Subscribe, TypeOK
<1>2. CASE PollHead(s)
  BY <1>2 DEF PollHead, TypeOK
<1>3. CASE PollTx(s)
  BY <1>3 DEF PollTx, TypeOK
<1>4. CASE SendToClient(s)
  BY <1>4 DEF SendToClient, TypeOK
<1>5. CASE ClientGone(s) \/ Unsubscribe(s)
  BY <1>5 DEF ClientGone, Unsubscribe
<1>. QED  BY <1>1, <1>2, <1>3, <1>4, <1>5 DEF Forward

(* Every step keeps PendInv.                                               *)
LEMMA PendStep ==
    ASSUME TypeOK, TypeOK', PendInv, [Next]_vars
    PROVE  PendInv'
<1> SUFFICES ASSUME NEW s2 \in Subs PROVE PendOK(s2)'
  BY DEF PendInv
<1>0. PendOK(s2)
  BY DEF PendInv
<1>1. CASE \E s \in Subs : Subscribe(s) \/ Forward(s) \/ ClientGone(s) \/ Unsubscribe(s)
  <2>1. PICK s \in Subs : Subscribe(s) \/ Forward(s) \/ ClientGone(s) \/ Unsubscribe(s)
    BY <1>1
  <2>2. CASE s2 = s
    BY <2>1, <2>2, PendOwn
  <2>3. CASE s2 # s
    BY <1>0, <2>1, <2>3, OthersUnchanged, PendFrame
  <2>. QED  BY <2>2, <2>3
<1>2. CASE PublishHead
  BY <1>0, <1>2, PendFrame DEF PublishHead
<1>3. CASE BroadcastTx
  <2>1. PICK st \in TxStates : log' = Append(log, st)
    BY <1>3 DEF BroadcastTx
  <2>. QED  BY <1>0, <1>3, <2>1, PendBroadcast DEF BroadcastTx
<1>4. CASE Quiescent \/ UNCHANGED vars
  BY <1>0, <1>4, PendFrame DEF Quiescent, vars
<1>. QED  BY <1>1, <1>2, <1>3, <1>4 DEF Next

(* Nothing is delivered before eth_subscribe runs.                          *)
LEMMA InitPend == Init => PendInv
BY DEF Init, PendInv, PendOK

(* IInv and PendInv hold in every state of every behaviour.                *)
LEMMA AlwaysPend == Spec => [](IInv /\ PendInv)
<1>1. Init => IInv /\ PendInv
  BY InitIInv, InitPend
<1>2. IInv /\ PendInv /\ [Next]_vars => (IInv /\ PendInv)'
  BY StepIInv, PendStep DEF IInv
<1>. QED  BY <1>1, <1>2, PTL DEF Spec

(* A live pending-tx subscription never loses an event silently          *)
(* (app.rs, the `while let Some(Ok(..))` loop over the broadcast          *)
(* receiver): what the client got, with what is being sent, is exactly    *)
(* the Pending and Orphaned events since it subscribed, in order, for     *)
(* every number of subscriptions and events and every channel capacity.  *)
THEOREM NoSilentLossThm == Spec => []PendingNoSilentLoss
<1>1. PendInv => PendingNoSilentLoss
  BY DEF PendInv, PendOK, PendingNoSilentLoss, Ascending
<1>. QED  BY <1>1, AlwaysPend, PTL
=============================================================================
