--------------------------- MODULE NativeSwapRelayer ---------------------------
(***************************************************************************)
(* The native-swap relayer (examples/nativeswap/relayer/relayer.ts).       *)
(*                                                                         *)
(* Every LogMessagePublished notification runs handleRelayerEvent, which   *)
(* parses and validates the payload synchronously and then continues as a  *)
(* detached async task: fetch the signed VAA (retried without limit), ask  *)
(* the target chain whether the VAA is already redeemed, read the receipt  *)
(* and, on the CCTP path, poll Circle for the burn attestation (retried    *)
(* without limit), then submit the fill or revert and wait for it.  Any    *)
(* exception is caught and the event dropped.                              *)
(*                                                                         *)
(* The websocket may notify the same event more than once; each            *)
(* notification is its own task, so tasks of one event run concurrently.  *)
(* The target contract, which is outside this repository, consumes a VAA   *)
(* at most once and reverts a second execution.                            *)
(***************************************************************************)
EXTENDS Naturals, FiniteSets, TLC

CONSTANTS
    Events,          \* published wormhole messages, one VAA each
    Info,            \* Events -> what the payload and the config say of it
    MaxDeliveries,   \* websocket notifications per event (duplicates)
    FILL, REVERT     \* response types of the payload (16 and 32)

ASSUME MaxDeliveries \in Nat \ {0}

(* Info[e] abstracts the bytes of the payload and the ROUTES config to the *)
(* facts the handler's branches test:                                      *)
(*   payloadType   1 (CCTP), 3 (token bridge) or another value;            *)
(*   domainsKnown  both CCTP domains are in CIRCLE_DOMAIN_TO_WORMHOLE_CHAIN;*)
(*   validSender   isValidSender(fromChain, fromAddress);                   *)
(*   responseType  the byte after the fixed payload prefix;                 *)
(*   toSupported   the target chain has ROUTES / SIGNERS entries;           *)
(*   burnInLogs    the receipt holds Circle's MessageSent log.              *)

VARIABLES
    emitted,      \* messages published on their source chain
    signed,       \* messages the guardians have signed (VAA exists)
    attested,     \* CCTP messages Circle reports as "complete"
    deliveries,   \* notifications delivered so far, per event
    pc,           \* control point of each handler task
    consumed,     \* messages whose VAA the target chain consumed
    submitted     \* fill/revert transactions sent, per event

vars == <<emitted, signed, attested, deliveries, pc, consumed, submitted>>

Tasks == Events \X (1..MaxDeliveries)
Ev(task) == task[1]

IsCctp(e) == Info[e].payloadType = 1

-----------------------------------------------------------------------------
(* handleRelayerEvent up to its first await (lines 364-423, with            *)
(* isValidSender 134-153 and parseMessageType 98-104): the events the      *)
(* relayer acts upon.  For payload 3 fromChain comes from getBridgeChainId,*)
(* which always resolves for the bridge the subscription filters on.       *)
\* parseMessageType (lines 98-104): the byte after the fixed payload prefix.
ParseMessageType(e) == Info[e].responseType

\* isValidSender (lines 134-153): the matching engine or the route's router.
IsValidSender(e) == Info[e].validSender

\* getBridgeChainId (lines 155-171): the chain whose configured bridge is
\* the emitter, or null; a null chain makes the address conversion or the
\* null test of lines 398-408 end the handler.
GetBridgeChainId(e) == Info[e].bridgeKnown

Relayable(e) ==
    /\ Info[e].payloadType \in {1, 3}
    /\ IsCctp(e) => Info[e].domainsKnown
    /\ ~IsCctp(e) => GetBridgeChainId(e)
    /\ IsValidSender(e)
    /\ ParseMessageType(e) \in {FILL, REVERT}

-----------------------------------------------------------------------------
(* Environment: source chain, guardians, Circle, websocket.                *)

Emit(e) ==
    /\ e \notin emitted
    /\ emitted' = emitted \cup {e}
    /\ UNCHANGED <<signed, attested, deliveries, pc, consumed, submitted>>

SignVaa(e) ==
    /\ e \in emitted \ signed
    /\ signed' = signed \cup {e}
    /\ UNCHANGED <<emitted, attested, deliveries, pc, consumed, submitted>>

Attest(e) ==
    /\ IsCctp(e)
    /\ e \in emitted \ attested
    /\ attested' = attested \cup {e}
    /\ UNCHANGED <<emitted, signed, deliveries, pc, consumed, submitted>>

\* Mutant of Deliver: the handler skips the payload checks.
DeliverUnvalidated(e) ==
    LET task == <<e, deliveries[e] + 1>> IN
    /\ e \in emitted
    /\ deliveries[e] < MaxDeliveries
    /\ deliveries' = [deliveries EXCEPT ![e] = @ + 1]
    /\ pc' = [pc EXCEPT ![task] = "vaa"]
    /\ UNCHANGED <<emitted, signed, attested, consumed, submitted>>

\* A notification runs the synchronous prefix of the handler: a payload it
\* does not act upon returns before the first await.
Deliver(e) ==
    LET task == <<e, deliveries[e] + 1>> IN
    /\ e \in emitted
    /\ deliveries[e] < MaxDeliveries
    /\ deliveries' = [deliveries EXCEPT ![e] = @ + 1]
    /\ pc' = [pc EXCEPT ![task] = IF Relayable(e) THEN "vaa" ELSE "ignored"]
    /\ UNCHANGED <<emitted, signed, attested, consumed, submitted>>

-----------------------------------------------------------------------------
(* The async task, one action per await.  A step that throws sends the     *)
(* task to "failed" (the catch at lines 463-465).                          *)

Goto(task, to) == pc' = [pc EXCEPT ![task] = to]

\* getSignedVAAWithRetry (lines 429-437): no retry limit is passed, so the
\* task waits until the guardians have signed.
FetchVaa(task) ==
    /\ pc[task] = "vaa"
    /\ Ev(task) \in signed
    /\ Goto(task, "redeemed")
    /\ UNCHANGED <<emitted, signed, attested, deliveries, consumed, submitted>>

\* Mutant of CheckRedeemed: the redeemed test inverted.
CheckRedeemedInverted(task) ==
    LET e == Ev(task) IN
    /\ pc[task] = "redeemed"
    /\ \/ /\ Info[e].toSupported
          /\ Goto(task, IF e \notin consumed THEN "done" ELSE "receipt")
       \/ Goto(task, "failed")
    /\ UNCHANGED <<emitted, signed, attested, deliveries, consumed, submitted>>

\* isTransferRedeemed (lines 305-315): isMessageConsumed of the Circle
\* integration or isTransferCompleted of the token bridge on the target.
IsTransferRedeemed(e) == e \in consumed

\* The redeemed check of handleRelayerEvent (lines 439-450).  An
\* unsupported target chain has no contract to ask: the call throws.
CheckRedeemed(task) ==
    LET e == Ev(task) IN
    /\ pc[task] = "redeemed"
    /\ \/ /\ Info[e].toSupported
          /\ Goto(task, IF IsTransferRedeemed(e) THEN "done" ELSE "receipt")
       \/ Goto(task, "failed")
    /\ UNCHANGED <<emitted, signed, attested, deliveries, consumed, submitted>>

\* Mutant of FetchReceipt: the CCTP path submits without the attestation.
FetchReceiptNoAttest(task) ==
    LET e == Ev(task) IN
    /\ pc[task] = "receipt"
    /\ \/ Goto(task, "submit")
       \/ Goto(task, "failed")
    /\ UNCHANGED <<emitted, signed, attested, deliveries, consumed, submitted>>

\* findCircleMessageInLogs (lines 172-193): the receipt holds the MessageSent
\* log of the source chain's Circle emitter.
FindCircleMessageInLogs(e) == Info[e].burnInLogs

\* getTransactionReceipt and getOrderResponseFromVaa up to the attestation
\* poll (lines 453-459, 274-303, 245-258, 230-240, 172-193): on the CCTP
\* path a receipt without Circle's MessageSent log is an error.
\* getRedeemParameters (lines 244-268): no Circle message in the receipt
\* throws; otherwise its attestation is awaited next.
GetRedeemParameters(e) == IF FindCircleMessageInLogs(e) THEN "attest" ELSE "failed"

\* getOrderResponseFromVaa (lines 276-304): the CCTP path needs the redeem
\* parameters, the token-bridge path only the VAA.
GetOrderResponseFromVaa(e) == IF IsCctp(e) THEN GetRedeemParameters(e) ELSE "submit"

FetchReceipt(task) ==
    LET e == Ev(task) IN
    /\ pc[task] = "receipt"
    /\ \/ Goto(task, GetOrderResponseFromVaa(e))
       \/ Goto(task, "failed")
    /\ UNCHANGED <<emitted, signed, attested, deliveries, consumed, submitted>>

\* getCircleAttestation (lines 199-228): errors and incomplete answers are
\* retried every two seconds, without limit.
AwaitAttestation(task) ==
    /\ pc[task] = "attest"
    /\ Ev(task) \in attested
    /\ Goto(task, "submit")
    /\ UNCHANGED <<emitted, signed, attested, deliveries, consumed, submitted>>

\* Mutant of Submit: a send is retried in place after it went through.
SubmitRetrying(task) ==
    LET e == Ev(task) IN
    /\ pc[task] = "submit"
    /\ submitted' = [submitted EXCEPT ![e] = @ + 1]
    /\ consumed' = consumed \cup {e}
    /\ UNCHANGED <<emitted, signed, attested, deliveries, pc>>

\* handleOrderResponse (lines 317-346): recvAndSwapExactNativeIn or
\* handleOrderRevert, then tx.wait().  The target contract consumes the
\* VAA, or reverts if it was consumed meanwhile; sending may also fail.
Submit(task) ==
    LET e == Ev(task) IN
    /\ pc[task] = "submit"
    /\ \/ /\ submitted' = [submitted EXCEPT ![e] = @ + 1]
          /\ consumed' = consumed \cup {e}
          /\ Goto(task, IF e \in consumed THEN "failed" ELSE "done")
       \/ /\ Goto(task, "failed")
          /\ UNCHANGED <<consumed, submitted>>
    /\ UNCHANGED <<emitted, signed, attested, deliveries>>

-----------------------------------------------------------------------------

Init ==
    /\ emitted = {}
    /\ signed = {}
    /\ attested = {}
    /\ deliveries = [e \in Events |-> 0]
    /\ pc = [task \in Tasks |-> "idle"]
    /\ consumed = {}
    /\ submitted = [e \in Events |-> 0]

TaskStep(task) ==
    \/ FetchVaa(task) \/ CheckRedeemed(task) \/ FetchReceipt(task)
    \/ AwaitAttestation(task) \/ Submit(task)

Terminated ==
    /\ \A task \in Tasks : pc[task] \in {"idle", "ignored", "done", "failed"}
    /\ \A e \in Events : deliveries[e] = MaxDeliveries
    /\ UNCHANGED vars

Next ==
    \/ \E e \in Events : Emit(e) \/ SignVaa(e) \/ Attest(e) \/ Deliver(e)
    \/ \E task \in Tasks : TaskStep(task)
    \/ Terminated

(* Fairness.  Node's event loop resumes every task whose awaited promise  *)
(* has settled (WF on each task's steps).  The guardians eventually sign   *)
(* and Circle eventually attests a published burn: the relayer's unbounded *)
(* retries rely on it.  Notifications are not fair: the websocket may      *)
(* never deliver one.                                                       *)
Fairness ==
    /\ \A task \in Tasks : WF_vars(TaskStep(task))
    /\ \A e \in Events : WF_vars(SignVaa(e)) /\ WF_vars(Attest(e))

Spec == Init /\ [][Next]_vars /\ Fairness

-----------------------------------------------------------------------------

TypeOK ==
    /\ emitted \subseteq Events
    /\ signed \subseteq emitted
    /\ attested \subseteq emitted
    /\ deliveries \in [Events -> 0..MaxDeliveries]
    /\ pc \in [Tasks -> {"idle", "ignored", "vaa", "redeemed", "receipt",
                         "attest", "submit", "done", "failed"}]
    /\ consumed \subseteq emitted
    /\ submitted \in [Events -> 0..MaxDeliveries]

\* Funds move only for what was validated and attested: every fill or
\* revert the relayer submits is for a payload that passed the sender and
\* response-type checks, whose VAA the guardians signed and, on the CCTP
\* path, whose burn Circle attested, however the duplicate tasks of the
\* event interleave.
SubmittedOnlyValidated ==
    \A e \in Events :
        submitted[e] > 0 =>
            /\ Relayable(e)
            /\ e \in signed
            /\ IsCctp(e) => e \in attested

\* A notified, relayable message ends executed on its target chain unless
\* one of its tasks hit an error: no task is left waiting forever and no
\* task drops the message silently.
DeliveredIsSettled ==
    \A e \in Events :
        (Relayable(e) /\ deliveries[e] > 0)
            ~> (e \in consumed \/ \E k \in 1..MaxDeliveries : pc[<<e, k>>] = "failed")

\* The redeemed check of handleRelayerEvent (lines 439-450) is the defense
\* against a message notified more than once: the relayer sends at most
\* one fill or revert per message, so no duplicate notification costs a
\* reverted transaction.
AtMostOneSubmission == \A e \in Events : submitted[e] <= 1
====
