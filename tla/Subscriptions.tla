--------------------------- MODULE Subscriptions ---------------------------
(***************************************************************************)
(* Web3ProxyApp::eth_subscribe (src/web3-proxy/src/app.rs): each call     *)
(* takes an id from next_subscription_id, then spawns a task that forwards *)
(* either the head block watch channel (newHeads) or the pending-tx       *)
(* broadcast channel (the three newPending* kinds, whose loops differ     *)
(* only in the JSON they build) to the client's sink, until the stream    *)
(* ends, the sink is closed or the AbortHandle fires.                     *)
(*                                                                         *)
(* A head is the index of the block in the order the pool published it;  *)
(* 0 is Block::default(), the watch channel's initial value.  A pending-  *)
(* tx event is the TxState it carries; a delivered pending notification  *)
(* is the position of its event in the broadcast log.                      *)
(***************************************************************************)
EXTENDS Naturals, Sequences, SequencesExt

CONSTANTS
    Subs,           \* eth_subscribe calls, one task each
    MaxHead,        \* the last head the model lets the pool publish
    MaxTx,          \* how many pending-tx events the model broadcasts
    BROADCAST_CAP   \* app.rs: broadcast::channel(16)

ASSUME SubscriptionsAssumption ==
    /\ MaxHead \in Nat
    /\ MaxTx \in Nat
    /\ BROADCAST_CAP \in Nat \ {0}

Heads == 0..MaxHead
TxStates == {"Pending", "Confirmed", "Orphaned"}
(* The param strings eth_subscribe matches; "other" is any other.        *)
Kinds == {"newHeads", "pending", "other"}

VARIABLES
    nextId,     \* next_subscription_id
    subId,      \* the id each call took (0: none yet)
    kind,       \* what each call subscribed to
    task,       \* where each call or its spawned task is
    head,       \* the value in the head block watch channel
    seenHead,   \* the watch version the task's WatchStream last yielded
    log,        \* every TxState sent on pending_tx_sender, in order
    start,      \* Len(log) when the task's broadcast receiver subscribed
    next,       \* the log position the broadcast receiver reads next
    holding,    \* the item the task took from its stream and is sending
    delivered,  \* what the client's sink received from this task
    sinkOpen,   \* the receiving half of subscription_tx is alive
    aborted,    \* the subscription's AbortHandle has fired
    afterAbort  \* history: messages delivered after the abort

vars == <<nextId, subId, kind, task, head, seenHead, log, start, next,
          holding, delivered, sinkOpen, aborted, afterAbort>>

Tasks == {"idle", "poll", "send", "ended", "rejected"}

TypeOK ==
    /\ nextId \in Nat \ {0}
    /\ subId \in [Subs -> Nat]
    /\ kind \in [Subs -> Kinds \cup {"none"}]
    /\ task \in [Subs -> Tasks]
    /\ head \in Heads
    /\ seenHead \in [Subs -> Heads \cup {-1}]
    /\ log \in Seq(TxStates)
    /\ start \in [Subs -> Nat]
    /\ next \in [Subs -> Nat \ {0}]
    /\ holding \in [Subs -> Nat]
    /\ delivered \in [Subs -> Seq(Nat)]
    /\ sinkOpen \in [Subs -> BOOLEAN]
    /\ aborted \in [Subs -> BOOLEAN]
    /\ afterAbort \in [Subs -> Nat]

Init ==
    /\ nextId = 1
    /\ subId = [s \in Subs |-> 0]
    /\ kind = [s \in Subs |-> "none"]
    /\ task = [s \in Subs |-> "idle"]
    /\ head = 0
    /\ seenHead = [s \in Subs |-> -1]
    /\ log = << >>
    /\ start = [s \in Subs |-> 0]
    /\ next = [s \in Subs |-> 1]
    /\ holding = [s \in Subs |-> 0]
    /\ delivered = [s \in Subs |-> << >>]
    /\ sinkOpen = [s \in Subs |-> TRUE]
    /\ aborted = [s \in Subs |-> FALSE]
    /\ afterAbort = [s \in Subs |-> 0]

-----------------------------------------------------------------------------
(* eth_subscribe: fetch_add the id, then match the params.  newHeads     *)
(* clones the head receiver; the pending kinds subscribe a broadcast      *)
(* receiver, which starts after the last event sent; anything else       *)
(* returns Err("unimplemented"), the id already spent.                    *)
Subscribe(s) ==
    /\ task[s] = "idle"
    /\ \E k \in Kinds :
          /\ kind' = [kind EXCEPT ![s] = k]
          /\ task' = [task EXCEPT ![s] = IF k = "other" THEN "rejected" ELSE "poll"]
    /\ subId' = [subId EXCEPT ![s] = nextId]
    /\ nextId' = nextId + 1
    /\ start' = [start EXCEPT ![s] = Len(log)]
    /\ next' = [next EXCEPT ![s] = Len(log) + 1]
    /\ UNCHANGED <<head, seenHead, log, holding, delivered, sinkOpen,
                   aborted, afterAbort>>

(* Mutant: the stream yields only once the head moved by more than one.  *)
PollHeadLate(s) ==
    /\ task[s] = "poll"
    /\ kind[s] = "newHeads"
    /\ \/ /\ aborted[s]
          /\ task' = [task EXCEPT ![s] = "ended"]
          /\ UNCHANGED <<seenHead, holding>>
       \/ /\ ~aborted[s]
          /\ seenHead[s] = -1 \/ head > seenHead[s] + 1
          /\ seenHead' = [seenHead EXCEPT ![s] = head]
          /\ holding' = [holding EXCEPT ![s] = head]
          /\ task' = [task EXCEPT ![s] = "send"]
    /\ UNCHANGED <<nextId, subId, kind, head, log, start, next, delivered,
                   sinkOpen, aborted, afterAbort>>

(* head_block_receiver.next().await on the Abortable WatchStream: None    *)
(* once aborted; otherwise the current head, at once on the first poll   *)
(* and then whenever the watch version has moved past the one seen, which *)
(* skips the heads published in between.  The first poll is taken to mark *)
(* the version it yields as seen (borrow_and_update in tokio-stream's      *)
(* WatchStream).  The repository pins no tokio-stream version; one that   *)
(* did not mark it would yield the first head twice to a subscriber that  *)
(* joined after a head was published, since the receiver cloned at 344 is *)
(* still at the channel's initial version (256).                          *)
PollHead(s) ==
    /\ task[s] = "poll"
    /\ kind[s] = "newHeads"
    /\ \/ /\ aborted[s]
          /\ task' = [task EXCEPT ![s] = "ended"]
          /\ UNCHANGED <<seenHead, holding>>
       \/ /\ ~aborted[s]
          /\ seenHead[s] = -1 \/ head > seenHead[s]
          /\ seenHead' = [seenHead EXCEPT ![s] = head]
          /\ holding' = [holding EXCEPT ![s] = head]
          /\ task' = [task EXCEPT ![s] = "send"]
    /\ UNCHANGED <<nextId, subId, kind, head, log, start, next, delivered,
                   sinkOpen, aborted, afterAbort>>

(* The broadcast receiver has lost the event it would read next: the     *)
(* channel keeps only the last BROADCAST_CAP.                               *)
Lagged(s) == Len(log) - next[s] + 1 > BROADCAST_CAP

(* Mutant: a lagged receiver skips to the oldest kept event and goes on, *)
(* as a loop that dropped the Err items instead of stopping would.        *)
PollTxSkipLag(s) ==
    /\ task[s] = "poll"
    /\ kind[s] = "pending"
    /\ \/ /\ aborted[s]
          /\ task' = [task EXCEPT ![s] = "ended"]
          /\ UNCHANGED <<next, holding>>
       \/ /\ ~aborted[s]
          /\ next[s] <= Len(log)
          /\ Lagged(s)
          /\ next' = [next EXCEPT ![s] = Len(log) - BROADCAST_CAP + 1]
          /\ UNCHANGED <<task, holding>>
       \/ /\ ~aborted[s]
          /\ next[s] <= Len(log)
          /\ ~Lagged(s)
          /\ next' = [next EXCEPT ![s] = next[s] + 1]
          /\ IF log[next[s]] = "Confirmed"
             THEN UNCHANGED <<task, holding>>
             ELSE /\ holding' = [holding EXCEPT ![s] = next[s]]
                  /\ task' = [task EXCEPT ![s] = "send"]
    /\ UNCHANGED <<nextId, subId, kind, head, seenHead, log, start, delivered,
                   sinkOpen, aborted, afterAbort>>

(* Mutant: the abort is looked at only when the stream has nothing ready, *)
(* as if the stream were polled before the abort registration.            *)
PollTxAbortLast(s) ==
    /\ task[s] = "poll"
    /\ kind[s] = "pending"
    /\ \/ /\ aborted[s]
          /\ next[s] > Len(log)
          /\ task' = [task EXCEPT ![s] = "ended"]
          /\ UNCHANGED <<next, holding>>
       \/ /\ next[s] <= Len(log)
          /\ Lagged(s)
          /\ task' = [task EXCEPT ![s] = "ended"]
          /\ UNCHANGED <<next, holding>>
       \/ /\ next[s] <= Len(log)
          /\ ~Lagged(s)
          /\ next' = [next EXCEPT ![s] = next[s] + 1]
          /\ IF log[next[s]] = "Confirmed"
             THEN UNCHANGED <<task, holding>>
             ELSE /\ holding' = [holding EXCEPT ![s] = next[s]]
                  /\ task' = [task EXCEPT ![s] = "send"]
    /\ UNCHANGED <<nextId, subId, kind, head, seenHead, log, start, delivered,
                   sinkOpen, aborted, afterAbort>>

(* pending_tx_receiver.next().await: None once aborted; Err(Lagged) when  *)
(* the receiver fell behind, which ends `while let Some(Ok(..))`; else   *)
(* the next event, skipped by `continue` when it is Confirmed.            *)
PollTx(s) ==
    /\ task[s] = "poll"
    /\ kind[s] = "pending"
    /\ \/ /\ aborted[s]
          /\ task' = [task EXCEPT ![s] = "ended"]
          /\ UNCHANGED <<next, holding>>
       \/ /\ ~aborted[s]
          /\ next[s] <= Len(log)
          /\ Lagged(s)
          /\ task' = [task EXCEPT ![s] = "ended"]
          /\ UNCHANGED <<next, holding>>
       \/ /\ ~aborted[s]
          /\ next[s] <= Len(log)
          /\ ~Lagged(s)
          /\ next' = [next EXCEPT ![s] = next[s] + 1]
          /\ IF log[next[s]] = "Confirmed"
             THEN UNCHANGED <<task, holding>>
             ELSE /\ holding' = [holding EXCEPT ![s] = next[s]]
                  /\ task' = [task EXCEPT ![s] = "send"]
    /\ UNCHANGED <<nextId, subId, kind, head, seenHead, log, start, delivered,
                   sinkOpen, aborted, afterAbort>>

(* subscription_tx.send_async(msg).await: delivered while the client's  *)
(* receiver lives; an error breaks the loop.                              *)
SendToClient(s) ==
    /\ task[s] = "send"
    /\ IF sinkOpen[s]
       THEN /\ delivered' = [delivered EXCEPT ![s] = Append(@, holding[s])]
            /\ afterAbort' = [afterAbort EXCEPT ![s] = IF aborted[s] THEN @ + 1 ELSE @]
            /\ task' = [task EXCEPT ![s] = "poll"]
       ELSE /\ task' = [task EXCEPT ![s] = "ended"]
            /\ UNCHANGED <<delivered, afterAbort>>
    /\ UNCHANGED <<nextId, subId, kind, head, seenHead, log, start, next,
                   holding, sinkOpen, aborted>>

-----------------------------------------------------------------------------
(* The environment: the pool and the websocket frontend (not under src/). *)

(* The pool's head_block_sender publishes a new head.                      *)
PublishHead ==
    /\ head < MaxHead
    /\ head' = head + 1
    /\ UNCHANGED <<nextId, subId, kind, task, seenHead, log, start, next,
                   holding, delivered, sinkOpen, aborted, afterAbort>>

(* An upstream sends a TxState on pending_tx_sender.                       *)
BroadcastTx ==
    /\ Len(log) < MaxTx
    /\ \E st \in TxStates : log' = Append(log, st)
    /\ UNCHANGED <<nextId, subId, kind, task, head, seenHead, start, next,
                   holding, delivered, sinkOpen, aborted, afterAbort>>

(* The client goes away: its end of subscription_tx is dropped.           *)
ClientGone(s) ==
    /\ sinkOpen[s]
    /\ sinkOpen' = [sinkOpen EXCEPT ![s] = FALSE]
    /\ UNCHANGED <<nextId, subId, kind, task, head, seenHead, log, start,
                   next, holding, delivered, aborted, afterAbort>>

(* eth_unsubscribe fires the AbortHandle eth_subscribe returned.           *)
Unsubscribe(s) ==
    /\ task[s] \in {"poll", "send"}
    /\ ~aborted[s]
    /\ aborted' = [aborted EXCEPT ![s] = TRUE]
    /\ UNCHANGED <<nextId, subId, kind, task, head, seenHead, log, start,
                   next, holding, delivered, sinkOpen, afterAbort>>

(* The steps of a subscription task.                                       *)
Forward(s) == PollHead(s) \/ PollTx(s) \/ SendToClient(s)

(* Every call has returned or ended, every client has gone and the      *)
(* model's bounds on heads and events are reached: nothing is left to do. *)
Quiescent ==
    /\ \A s \in Subs : task[s] \in {"ended", "rejected"} /\ ~sinkOpen[s]
    /\ head = MaxHead
    /\ Len(log) = MaxTx
    /\ UNCHANGED vars

Next ==
    \/ \E s \in Subs : Subscribe(s) \/ Forward(s) \/ ClientGone(s) \/ Unsubscribe(s)
    \/ PublishHead
    \/ BroadcastTx
    \/ Quiescent

(* Tokio polls a spawned task again once its stream or its sink is ready. *)
Fairness == \A s \in Subs : WF_vars(Forward(s))

Spec == Init /\ [][Next]_vars /\ Fairness

-----------------------------------------------------------------------------
(* Properties.                                                             *)

(* What a task has delivered to its client, and the item it is sending.   *)
Forwarded(s) ==
    delivered[s] \o (IF task[s] = "send" THEN <<holding[s]>> ELSE << >>)

(* The positions of the non-Confirmed events a pending task's receiver   *)
(* has taken from the channel since it subscribed.                         *)
Received(s) == {i \in start[s] + 1 .. next[s] - 1 : log[i] # "Confirmed"}

(* While a pending-tx subscription is live, the client has received       *)
(* exactly the Pending and Orphaned events sent since it subscribed, in   *)
(* order, but for the one being sent: a receiver that lags behind the    *)
(* broadcast channel's 16 slots must end the loop, never skip events.    *)
(* (A strictly increasing sequence of positions is determined by its     *)
(* range, so this is the sequence of those positions in order.)          *)
PendingNoSilentLoss ==
    \A s \in Subs :
        (kind[s] = "pending" /\ task[s] \in {"poll", "send"}) =>
            /\ \A i, j \in 1..Len(Forwarded(s)) :
                  i < j => Forwarded(s)[i] < Forwarded(s)[j]
            /\ ToSet(Forwarded(s)) = Received(s)

(* After eth_unsubscribe fires the AbortHandle, the task delivers at      *)
(* most the one message it was already sending (spec 4.5: cancel is     *)
(* prompt).                                                                *)
AbortPrompt == \A s \in Subs : afterAbort[s] <= 1

(* A newHeads subscriber that stays subscribed catches up: once head h    *)
(* is published, the client is eventually sent h or a later head, or the *)
(* task ends.                                                              *)
HeadsCatchUp ==
    \A s \in Subs, h \in Heads :
        (kind[s] = "newHeads" /\ task[s] \in {"poll", "send"} /\ head = h)
            ~> (task[s] = "ended" \/ (delivered[s] # << >> /\ Last(delivered[s]) >= h))

=============================================================================
