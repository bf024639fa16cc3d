--------------------------- MODULE EventCpiListener ---------------------------
(***************************************************************************)
(* MatchingEngineProgram.onEventCpi (solana/ts/src/matchingEngine/index.ts *)
(* lines 269-366).  Two subscriptions share a queue and a dedup map:       *)
(*                                                                         *)
(*  - the logs subscription (synchronous callback) enqueues every          *)
(*    signature it has not yet seen at that slot;                          *)
(*  - the slot subscription starts a NEW async handler on every slot.      *)
(*    A handler drains the queue: it reads the head, awaits                *)
(*    getParsedTransaction, then dequeues and hands the events to the      *)
(*    user callback; it ends by evicting dedup entries older than          *)
(*    Horizon slots.                                                       *)
(*                                                                         *)
(* Handlers are not awaited by the subscription, so several of them can be *)
(* suspended in getParsedTransaction at once; every await is a separate    *)
(* step here.  A transaction is a model value; the events it carries are   *)
(* abstracted to one delivery of its signature.                            *)
(***************************************************************************)
EXTENDS Naturals, Sequences, SequencesExt, Functions

CONSTANTS
    Txs,        \* signatures of matching-engine transactions
    MaxSlot,    \* last slot notification of a behaviour
    MaxNotify,  \* log notifications per signature (duplicates included)
    Horizon,    \* eviction horizon of observedTxs (64 in the code)
    Dropped,    \* transactions seen in the logs of a fork that is abandoned:
                \* they land but never reach the confirmed commitment
    RpcErrors,  \* TRUE: getParsedTransaction may reject
    None        \* model value: no slot / no head

ASSUME /\ MaxSlot \in Nat \ {0} /\ MaxNotify \in Nat \ {0} /\ Horizon \in Nat
       /\ Dropped \subseteq Txs /\ RpcErrors \in BOOLEAN

VARIABLES
    slot,            \* slot of the latest slot notification
    txSlot,          \* slot at which a transaction landed, None before
    confirmed,       \* transactions getParsedTransaction can return
    notified,        \* log notifications delivered per signature so far
    observedTxs,     \* Map<slot, Set<signature>>
    unprocessedTxs,  \* ArrayQueue<{signature, eventSlot}>
    pc,              \* control point of the handler started at each slot
    head,            \* the head a handler read before its await
    delivered,       \* history: signatures passed to the callback, in order
    accepted         \* history: signatures enqueued, in order

vars == <<slot, txSlot, confirmed, notified, observedTxs, unprocessedTxs,
          pc, head, delivered, accepted>>

Slots == 0..MaxSlot
Handlers == 1..MaxSlot
Entry == [signature : Txs, eventSlot : Slots]

-----------------------------------------------------------------------------
(* Environment: the chain lands transactions, confirms some of them and    *)
(* produces slots; the RPC node sends (possibly duplicated) log            *)
(* notifications for landed transactions.                                  *)

Land(t) ==
    /\ txSlot[t] = None
    /\ txSlot' = [txSlot EXCEPT ![t] = slot]
    /\ UNCHANGED <<slot, confirmed, notified, observedTxs, unprocessedTxs,
                   pc, head, delivered, accepted>>

Confirm(t) ==
    /\ txSlot[t] # None
    /\ t \notin Dropped
    /\ t \notin confirmed
    /\ confirmed' = confirmed \cup {t}
    /\ UNCHANGED <<slot, txSlot, notified, observedTxs, unprocessedTxs,
                   pc, head, delivered, accepted>>

\* connection.onSlotChange: a new async handler starts at the new slot.
SlotChange ==
    /\ slot < MaxSlot
    /\ slot' = slot + 1
    /\ pc' = [pc EXCEPT ![slot + 1] = "loop"]
    /\ UNCHANGED <<txSlot, confirmed, notified, observedTxs, unprocessedTxs,
                   head, delivered, accepted>>

-----------------------------------------------------------------------------
(* The logs callback (lines 350-365): runs to completion, no await.        *)

OnLogs(t) ==
    LET es == txSlot[t]
        seen == es \in DOMAIN observedTxs /\ t \in observedTxs[es]
    IN
    /\ es # None
    /\ notified[t] < MaxNotify
    /\ notified' = [notified EXCEPT ![t] = @ + 1]
    /\ IF seen
         THEN UNCHANGED <<observedTxs, unprocessedTxs, accepted>>
         ELSE /\ observedTxs' =
                   [s \in DOMAIN observedTxs \cup {es} |->
                      IF s = es
                        THEN (IF s \in DOMAIN observedTxs
                                THEN observedTxs[s] ELSE {}) \cup {t}
                        ELSE observedTxs[s]]
              /\ unprocessedTxs' = Append(unprocessedTxs,
                                          [signature |-> t, eventSlot |-> es])
              /\ accepted' = Append(accepted, t)
    /\ UNCHANGED <<slot, txSlot, confirmed, pc, head, delivered>>

-----------------------------------------------------------------------------
(* The slot handler (lines 285-348).                                       *)

\* Lines 343-347: forget the dedup sets of slots older than the horizon.
Evict(hslot) ==
    observedTxs' = Restrict(observedTxs,
                            {s \in DOMAIN observedTxs : ~(s + Horizon < hslot)})

\* Loop test (line 287) and head read (line 288); an empty queue leaves
\* the loop and runs the clean-up without awaiting anything.
LoopTest(h) ==
    /\ pc[h] = "loop"
    /\ IF unprocessedTxs = <<>>
         THEN /\ Evict(h)
              /\ pc' = [pc EXCEPT ![h] = "done"]
              /\ UNCHANGED head
         ELSE /\ head' = [head EXCEPT ![h] = Head(unprocessedTxs)]
              /\ pc' = [pc EXCEPT ![h] = "await"]
              /\ UNCHANGED observedTxs
    /\ UNCHANGED <<slot, txSlot, confirmed, notified, unprocessedTxs,
                   delivered, accepted>>

\* getParsedTransaction answers null: break, then clean up (lines 305-306).
ParsedTxNull(h) ==
    /\ pc[h] = "await"
    /\ head[h].signature \notin confirmed
    /\ Evict(h)
    /\ pc' = [pc EXCEPT ![h] = "done"]
    /\ UNCHANGED <<slot, txSlot, confirmed, notified, unprocessedTxs, head,
                   delivered, accepted>>

\* Mutant of ParsedTxFound: the callback handed the queue entry instead
\* of its signature.
ParsedTxFoundEntry(h) ==
    /\ pc[h] = "await"
    /\ head[h].signature \in confirmed
    /\ unprocessedTxs # <<>>
    /\ unprocessedTxs' = Tail(unprocessedTxs)
    /\ delivered' = Append(delivered, head[h])
    /\ pc' = [pc EXCEPT ![h] = "loop"]
    /\ UNCHANGED <<slot, txSlot, confirmed, notified, observedTxs, head,
                   accepted>>

\* getParsedTransaction answers the transaction: dequeue whatever is at the
\* head NOW, then call back with the head read before the await
\* (lines 309-340).  Dequeuing an empty ArrayQueue is outside this
\* repository: it either does nothing or throws, ending the handler.
ParsedTxFound(h) ==
    /\ pc[h] = "await"
    /\ head[h].signature \in confirmed
    /\ \/ /\ unprocessedTxs # <<>>
          /\ unprocessedTxs' = Tail(unprocessedTxs)
          /\ delivered' = Append(delivered, head[h].signature)
          /\ pc' = [pc EXCEPT ![h] = "loop"]
       \/ /\ unprocessedTxs = <<>>
          /\ delivered' = Append(delivered, head[h].signature)
          /\ pc' = [pc EXCEPT ![h] = "loop"]
          /\ UNCHANGED unprocessedTxs
       \/ /\ unprocessedTxs = <<>>
          /\ pc' = [pc EXCEPT ![h] = "done"]
          /\ UNCHANGED <<unprocessedTxs, delivered>>
    /\ UNCHANGED <<slot, txSlot, confirmed, notified, observedTxs, head,
                   accepted>>

\* getParsedTransaction rejects (RPC error): the async handler's promise
\* rejects; no dequeue, no callback, no clean-up.
ParsedTxError(h) ==
    /\ RpcErrors
    /\ pc[h] = "await"
    /\ pc' = [pc EXCEPT ![h] = "done"]
    /\ UNCHANGED <<slot, txSlot, confirmed, notified, observedTxs,
                   unprocessedTxs, head, delivered, accepted>>

-----------------------------------------------------------------------------

Init ==
    /\ slot = 0
    /\ txSlot = [t \in Txs |-> None]
    /\ confirmed = {}
    /\ notified = [t \in Txs |-> 0]
    /\ observedTxs = [s \in {} |-> {}]
    /\ unprocessedTxs = <<>>
    /\ pc = [h \in Handlers |-> "idle"]
    /\ head = [h \in Handlers |-> None]
    /\ delivered = <<>>
    /\ accepted = <<>>

\* Every bound is spent and no handler is running: the behaviour ends.
Finished ==
    /\ slot = MaxSlot
    /\ \A h \in Handlers : pc[h] = "done"
    /\ UNCHANGED vars

Next ==
    \/ SlotChange
    \/ \E t \in Txs : Land(t) \/ Confirm(t) \/ OnLogs(t)
    \/ \E h \in Handlers :
          LoopTest(h) \/ ParsedTxNull(h) \/ ParsedTxFound(h) \/ ParsedTxError(h)
    \/ Finished

Spec == Init /\ [][Next]_vars

\* One step of the handler started at slot h, whichever its await answers.
HandlerStep(h) ==
    LoopTest(h) \/ ParsedTxNull(h) \/ ParsedTxFound(h) \/ ParsedTxError(h)

\* The chain keeps producing slots, a landed transaction that is not on an
\* abandoned fork is eventually confirmed, and Node's event loop resumes
\* every handler whose awaited RPC call has settled.  Landing and log
\* notifications get no fairness (a notification may be lost), and a
\* transaction in Dropped is never confirmed.
FairSpec ==
    /\ Spec
    /\ WF_vars(SlotChange)
    /\ \A t \in Txs \ Dropped : WF_vars(Confirm(t))
    /\ \A h \in Handlers : WF_vars(HandlerStep(h))

-----------------------------------------------------------------------------

TypeOK ==
    /\ slot \in Slots
    /\ txSlot \in [Txs -> Slots \cup {None}]
    /\ confirmed \subseteq Txs
    /\ notified \in [Txs -> 0..MaxNotify]
    /\ DOMAIN observedTxs \subseteq Slots
    /\ \A s \in DOMAIN observedTxs : observedTxs[s] \subseteq Txs
    /\ unprocessedTxs \in Seq(Entry)
    /\ pc \in [Handlers -> {"idle", "loop", "await", "done"}]
    /\ head \in [Handlers -> Entry \cup {None}]
    /\ delivered \in Seq(Txs)
    /\ accepted \in Seq(Txs)

\* Exactly once, as far as a state can tell: no signature reaches the
\* callback twice (the dedup map and the single queue are meant to
\* guarantee it), and every enqueued signature is delivered, still queued,
\* or held by a handler awaiting its transaction.
ExactlyOnceDelivery ==
    /\ IsInjective(delivered)
    /\ \A t \in ToSet(accepted) :
          \/ t \in ToSet(delivered)
          \/ \E i \in DOMAIN unprocessedTxs : unprocessedTxs[i].signature = t
          \/ \E h \in Handlers : pc[h] = "await" /\ head[h].signature = t

Queued == {unprocessedTxs[i].signature : i \in DOMAIN unprocessedTxs}

\* Per-event isolation (spec 4.4: the pipeline never blocks subsequent
\* events on one failed event): a confirmed transaction waiting in the
\* queue while slots still come is eventually taken off it, whatever
\* happens to the transactions queued ahead of it.  The slot handler
\* breaks out of its loop at the first head getParsedTransaction answers
\* null for (line 305).
ConfirmedEventuallyDequeued ==
    \A t \in Txs :
        (t \in Queued /\ t \in confirmed /\ slot < MaxSlot) ~> (t \notin Queued)
====
