------------------------- MODULE MatchingEngineRelayer -------------------------
(***************************************************************************)
(* The matching-engine relayer (evm/ts/relayer/relayer.ts).                *)
(*                                                                         *)
(* Every LogMessagePublished notification of a subscribed sender runs      *)
(* handleRelayerEvent: a synchronous parse of the payload and the router   *)
(* check, then a detached async task that fetches the signed VAA (retried  *)
(* without limit) and executes the order on the matching engine: on the    *)
(* CCTP path after reading the receipt's Circle message and polling its    *)
(* attestation (retried without limit), on the token-bridge path at once.  *)
(* Unlike the native-swap relayer there is no redeemed check and no        *)
(* response-type filter.  Any exception is caught and the event dropped.  *)
(*                                                                         *)
(* The matching engine contract is outside this repository; it consumes a *)
(* VAA at most once and reverts a second execution.                        *)
(***************************************************************************)
EXTENDS Naturals

CONSTANTS
    Events,          \* published wormhole messages, one VAA each
    Info,            \* Events -> what the payload and the config say of it
    MaxDeliveries    \* websocket notifications per event (duplicates)

ASSUME MaxDeliveries \in Nat \ {0}

(* Info[e] abstracts the payload bytes and the ROUTES config:             *)
(*   payloadType   1 (CCTP), 3 (token bridge) or another value;            *)
(*   domainKnown   the CCTP fromDomain is in CIRCLE_DOMAIN_TO_WORMHOLE_CHAIN;*)
(*   bridgeKnown   getBridgeChainId finds the sender among ROUTES bridges;  *)
(*   fromRouter    fromAddress is ROUTES[fromChain].router;                 *)
(*   burnInLogs    the receipt holds a log of the Circle emitter.           *)

VARIABLES
    emitted,      \* messages published on their source chain
    signed,       \* messages the guardians have signed
    attested,     \* CCTP messages Circle reports as "complete"
    deliveries,   \* notifications delivered so far, per event
    pc,           \* control point of each handler task
    consumed,     \* messages the matching engine executed
    submitted     \* executeOrder transactions sent, per event

vars == <<emitted, signed, attested, deliveries, pc, consumed, submitted>>

Tasks == Events \X (1..MaxDeliveries)
Ev(task) == task[1]
IsCctp(e) == Info[e].payloadType = 1

-----------------------------------------------------------------------------
(* The synchronous prefix (lines 253-303).  Payload 1 needs a known        *)
(* fromDomain (the toDomain is not read); payload 3 needs the sender to be *)
(* a configured bridge (getBridgeChainId, lines 97-112; with null the     *)
(* address conversion before the null test throws, which the catch drops  *)
(* the same way); both need the router of the source chain.               *)
\* getBridgeChainId (lines 97-112): the chain whose configured bridge is
\* the emitter, or null.
GetBridgeChainId(e) == Info[e].bridgeKnown

Relayable(e) ==
    /\ Info[e].payloadType \in {1, 3}
    /\ IsCctp(e) => Info[e].domainKnown
    /\ ~IsCctp(e) => GetBridgeChainId(e)
    /\ Info[e].fromRouter

-----------------------------------------------------------------------------
(* Environment.                                                            *)

Emit(e) ==
    /\ e \notin emitted
    /\ emitted' = emitted \cup {e}
    /\ UNCHANGED <<signed, attested, deliveries, pc, consumed, submitted>>

SignVaa(e) ==
    /\ e \in emitted \ signed
    /\ signed' = signed \cup {e}
    /\ UNCHANGED <<emitted, attested, deliveries, pc, consumed, submitted>>

Attest(e) ==
    /\ IsCctp(e)
    /\ e \in emitted \ attested
    /\ attested' = attested \cup {e}
    /\ UNCHANGED <<emitted, signed, deliveries, pc, consumed, submitted>>

Goto(task, to) == pc' = [pc EXCEPT ![task] = to]

\* Mutant of Deliver: the router check (lines 297-303) left out.
DeliverUnchecked(e) ==
    LET task == <<e, deliveries[e] + 1>> IN
    /\ e \in emitted
    /\ deliveries[e] < MaxDeliveries
    /\ deliveries' = [deliveries EXCEPT ![e] = @ + 1]
    /\ pc' = [pc EXCEPT ![task] = IF Info[e].payloadType \in {1, 3} THEN "vaa" ELSE "ignored"]
    /\ UNCHANGED <<emitted, signed, attested, consumed, submitted>>

\* A notification runs the synchronous prefix.
Deliver(e) ==
    LET task == <<e, deliveries[e] + 1>> IN
    /\ e \in emitted
    /\ deliveries[e] < MaxDeliveries
    /\ deliveries' = [deliveries EXCEPT ![e] = @ + 1]
    /\ pc' = [pc EXCEPT ![task] = IF Relayable(e) THEN "vaa" ELSE "ignored"]
    /\ UNCHANGED <<emitted, signed, attested, consumed, submitted>>

-----------------------------------------------------------------------------
(* The async task.                                                         *)

\* Mutant of FetchVaa: every order executed on the token-bridge path.
FetchVaaNoCctpPath(task) ==
    /\ pc[task] = "vaa"
    /\ Ev(task) \in signed
    /\ Goto(task, "submit")
    /\ UNCHANGED <<emitted, signed, attested, deliveries, consumed, submitted>>

\* getSignedVAAWithRetry (lines 309-317), then the path split (320-329).
FetchVaa(task) ==
    /\ pc[task] = "vaa"
    /\ Ev(task) \in signed
    /\ Goto(task, IF IsCctp(Ev(task)) THEN "receipt" ELSE "submit")
    /\ UNCHANGED <<emitted, signed, attested, deliveries, consumed, submitted>>

\* findCircleMessageInLogs (lines 114-129): the first log of the source
\* chain's Circle emitter, matched by address alone, or null.
FindCircleMessageInLogs(e) == Info[e].burnInLogs

\* getTransactionReceipt and handleCircleMessageInLogs (lines 321,
\* 166-173): no Circle log is an error (lines 191-195).
FetchReceipt(task) ==
    /\ pc[task] = "receipt"
    /\ \/ Goto(task, IF FindCircleMessageInLogs(Ev(task)) THEN "attest" ELSE "failed")
       \/ Goto(task, "failed")
    /\ UNCHANGED <<emitted, signed, attested, deliveries, consumed, submitted>>

\* Mutant of AwaitAttestation: the poll compares the status with a value
\* the attestation service never returns, so it never leaves the loop.
AwaitAttestationWrongStatus(task) ==
    /\ pc[task] = "attest"
    /\ Ev(task) \in attested
    /\ FALSE
    /\ Goto(task, "submit")
    /\ UNCHANGED <<emitted, signed, attested, deliveries, consumed, submitted>>

\* getCircleAttestation (lines 135-164): polls until "complete".
AwaitAttestation(task) ==
    /\ pc[task] = "attest"
    /\ Ev(task) \in attested
    /\ Goto(task, "submit")
    /\ UNCHANGED <<emitted, signed, attested, deliveries, consumed, submitted>>

\* Mutant of Submit: the send repeated without leaving the submit step.
SubmitRepeating(task) ==
    LET e == Ev(task) IN
    /\ pc[task] = "submit"
    /\ submitted' = [submitted EXCEPT ![e] = @ + 1]
    /\ consumed' = consumed \cup {e}
    /\ UNCHANGED <<emitted, signed, attested, deliveries, pc>>

\* Mutant of Submit: a reverted execution taken as a success.
SubmitIgnoringRevert(task) ==
    LET e == Ev(task) IN
    /\ pc[task] = "submit"
    /\ submitted' = [submitted EXCEPT ![e] = @ + 1]
    /\ consumed' = consumed \cup {e}
    /\ Goto(task, "done")
    /\ UNCHANGED <<emitted, signed, attested, deliveries>>

\* executeOrder and tx.wait() (lines 198-217, 220-235): the matching engine
\* executes the order, or reverts if the VAA was consumed meanwhile; the
\* send may also fail.
Submit(task) ==
    LET e == Ev(task) IN
    /\ pc[task] = "submit"
    /\ \/ /\ submitted' = [submitted EXCEPT ![e] = @ + 1]
          /\ consumed' = consumed \cup {e}
          /\ Goto(task, IF e \in consumed THEN "failed" ELSE "done")
       \/ /\ Goto(task, "failed")
          /\ UNCHANGED <<consumed, submitted>>
    /\ UNCHANGED <<emitted, signed, attested, deliveries>>

-----------------------------------------------------------------------------

Init ==
    /\ emitted = {}
    /\ signed = {}
    /\ attested = {}
    /\ deliveries = [e \in Events |-> 0]
    /\ pc = [task \in Tasks |-> "idle"]
    /\ consumed = {}
    /\ submitted = [e \in Events |-> 0]

TaskStep(task) ==
    \/ FetchVaa(task) \/ FetchReceipt(task) \/ AwaitAttestation(task)
    \/ Submit(task)

Terminated ==
    /\ \A task \in Tasks : pc[task] \in {"idle", "ignored", "done", "failed"}
    /\ \A e \in Events : deliveries[e] = MaxDeliveries
    /\ UNCHANGED vars

Next ==
    \/ \E e \in Events : Emit(e) \/ SignVaa(e) \/ Attest(e) \/ Deliver(e)
    \/ \E task \in Tasks : TaskStep(task)
    \/ Terminated

(* Fairness as for the native-swap relayer: the event loop resumes every  *)
(* task whose promise settled; guardians and Circle eventually attest;     *)
(* notifications are not fair.                                             *)
Fairness ==
    /\ \A task \in Tasks : WF_vars(TaskStep(task))
    /\ \A e \in Events : WF_vars(SignVaa(e)) /\ WF_vars(Attest(e))

Spec == Init /\ [][Next]_vars /\ Fairness

-----------------------------------------------------------------------------

TypeOK ==
    /\ emitted \subseteq Events
    /\ signed \subseteq emitted
    /\ attested \subseteq emitted
    /\ deliveries \in [Events -> 0..MaxDeliveries]
    /\ pc \in [Tasks -> {"idle", "ignored", "vaa", "receipt", "attest",
                         "submit", "done", "failed"}]
    /\ consumed \subseteq emitted
    /\ submitted \in [Events -> 0..MaxDeliveries]

\* The matching engine is only asked to execute orders from a registered
\* router whose VAA is signed and, on the CCTP path, whose burn is
\* attested, however the tasks of duplicate notifications interleave.
SubmittedOnlyValidated ==
    \A e \in Events :
        submitted[e] > 0 =>
            /\ Relayable(e)
            /\ e \in signed
            /\ IsCctp(e) => e \in attested

\* A notified relayable order ends executed unless one of its tasks hit an
\* error.
DeliveredIsSettled ==
    \A e \in Events :
        (Relayable(e) /\ deliveries[e] > 0)
            ~> (e \in consumed \/ \E k \in 1..MaxDeliveries : pc[<<e, k>>] = "failed")

\* Spec section 4.4 step 5: duplicate notifications are absorbed by an
\* idempotency check before submission, so at most one executeOrder is
\* sent per message.
AtMostOneSubmission == \A e \in Events : submitted[e] <= 1
====
