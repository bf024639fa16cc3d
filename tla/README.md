# TLA+ models of the liquidity-layer clients and relayers

This directory holds TLA+ models of the off-chain parts of the repository. Each one
is checked with TLC:

- the Solana matching-engine client (`src/solana/ts/src/matchingEngine/index.ts`);
- the native-swap relayer (`src/examples/nativeswap/relayer/relayer.ts`);
- the matching-engine EVM relayer (`src/evm/ts/relayer/relayer.ts`).

The on-chain programs and contracts are not in this repository. Where the
off-chain code depends on them, the models state their behaviour as an
environment: a VAA is consumed at most once, and an auction config is versioned.

## 1. Inventory

### Components and their state

| Component | Source | State it keeps |
|---|---|---|
| `onEventCpi` listener | index.ts 269-366 | `unprocessedTxs` (an ArrayQueue of `{signature, eventSlot}`), `observedTxs` (a Map from slot to a Set of signatures), and one async slot handler per slot notification |
| Native-swap relayer | nativeswap relayer.ts | no state of its own. Every notification starts a detached async task; its local variables and control point are the state |
| Matching-engine relayer | evm/ts/relayer/relayer.ts | the same shape, with no redeemed check |
| Auction arithmetic | index.ts 2581-2631 | none; these are pure functions of `AuctionParameters` and the auction |
| Auction config governance | index.ts 390-396, 1078-1175; deployment script | on chain: the custodian's `auctionConfigId` and `nextProposalId`, and the proposals. The client reads these again for each operation |
| Auction history decoding | index.ts 564-651 | a byte offset into the account data |

### Operations and how the components interact

- **`onEventCpi`** registers two callbacks on one connection.
  - `onLogs` runs synchronously. It enqueues each signature it has not yet seen at its slot.
  - `onSlotChange` starts an `async` handler. The handler loops over four steps:
    1. read the head of the queue;
    2. `await getParsedTransaction`, and break if the answer is `null`;
    3. `dequeue()`;
    4. call the user callback for each event CPI.

    When the loop ends, the handler evicts dedup entries older than 64 slots.

  The subscription does not await the handlers. Several handlers can therefore be
  suspended at the await at the same time, and they share the queue.
- **`handleRelayerEvent`** (native swap) runs on every `LogMessagePublished`
  notification.
  - The synchronous prefix parses the payload type, the CCTP domains and the
    sender. It checks `isValidSender` and requires the response type to be FILL (16)
    or REVERT (32).
  - The detached task then runs five awaits in order:
    1. `getSignedVAAWithRetry`, with no limit on retries;
    2. `isTransferRedeemed` on the target chain;
    3. the transaction receipt and, on CCTP, the MessageSent log;
    4. `getCircleAttestation`, which polls forever;
    5. `recvAndSwapExactNativeIn` or `handleOrderRevert`, followed by `wait()`.
  - A `catch` drops the event on any error. The websocket may notify the same event
    more than once, and every notification is a separate task.
- **The matching-engine relayer** works the same way. It sends `executeOrder` to the
  matching engine and has no redeemed check and no response-type filter.
- **The auction helpers.** The client computes three things with exact BigInt
  arithmetic, where FEE_PRECISION_MAX = 1e6:
  - the executor's deposit penalty (`computeDepositPenalty`);
  - the minimum bid improvement (`computeMinOfferDelta`);
  - the notional security deposit (`computeNotionalSecurityDeposit`).

  The parameters come from `fetchAuctionParameters(configId?)`. When no id is
  given, it reads the custodian's *current* config id.

### The hard behaviours

- Concurrent async slot handlers over one queue. Each one reads the head before an
  await and dequeues after it.
- Duplicated log and event notifications, and the eviction horizon of the dedup
  map.
- Duplicate relayer tasks that race between the redeemed check and the submission.
- Polls that retry forever (VAA, attestation). A failed step drops the event.
- Restarts and lost websocket notifications, which nothing backfills.
- Integer rounding at the boundaries of the penalty ramp: the grace period, the end
  of the penalty period, and a zero penalty period.
- The auction config id moving while a client computes with it.

### What makes each component correct

- **Listener.** Every enqueued transaction reaches the callback exactly once, and
  only after the RPC node returned it. Deliveries follow log order.
- **Relayers.**
  - A message moves funds only if it passed validation and has its VAA and, on CCTP,
    its Circle attestation.
  - Each message is executed at most once, and only after it was published. The
    contract's replay protection (the `consumed` set) ensures this on chain.
  - Every notified relayable message is eventually settled or reported failed.
  - Duplicate notifications cost no second transaction. This is what the spec says
    the redeemed check is for.
- **Penalty.**
  - It is never negative and never more than the deposit.
  - It is zero during grace.
  - It is the full deposit once the penalty period is over.
  - It never decreases as slots pass (spec §8).
- **Governance.** The bid minimum and the penalty that the client computes for an
  auction use that auction's config. A parameter change is proposed before it is
  applied.

## 2. Modules

| Module | Models | Composition |
|---|---|---|
| `EventCpiListener` | `onEventCpi`: `OnLogs` (index.ts 350-365); per handler `LoopTest` (287-298), `ParsedTxNull` (300-307), `ParsedTxFound` (300-340), `ParsedTxError` (300-303); `Evict` (342-347). The environment actions are `Land`, `Confirm` and `SlotChange`. `Dropped` names transactions of an abandoned fork, which never confirm; `RpcErrors` switches `ParsedTxError` off for the liveness run. `FairSpec` adds fairness | `MCEventCpiListener` instantiates it |
| `NativeSwapRelayer` | `handleRelayerEvent`: `Deliver` (the synchronous prefix, 348-423), then one action per await: `FetchVaa`, `CheckRedeemed`, `FetchReceipt`, `AwaitAttestation`, `Submit`. The environment actions are `Emit`, `SignVaa` and `Attest` | `MCNativeSwapRelayer` |
| `MatchingEngineRelayer` | the EVM relayer's `handleRelayerEvent`: `Deliver` (253-303), then `FetchVaa` (305-329), `FetchReceipt` (166-195), `AwaitAttestation` (131-164) and `Submit` (196-235) | `MCMatchingEngineRelayer` |
| `AuctionGovernance` | The custodian's `auctionConfigId` and `nextProposalId`, the proposals and the configs. The client side:<br>- `AdminPropose`, `AdminUpdate` (the propose and update builders);<br>- `placeInitialOfferCctpIx` as `OfferReadCustodian`, `OfferNotional` and `OfferSend`;<br>- `computeMinOfferDelta` as `BidReadCustodian` and `BidFetchConfig`, and `computeDepositPenalty`'s config read as `PenaltyReadCustodian` and `PenaltyFetchConfig`;<br>- `improveOfferIx`/`Tx`, `executeFastOrderCctpIx`/`Tx` and `settleAuctionCompleteTx`/`Ix`, each a read of the auction through `ActiveAuctionComposite` and a send (`ImproveRead`/`ImproveSend`, `ExecuteRead`/`ExecuteSend`, `SettleRead`/`SettleSend`). `SettleRead` takes the best offer token from its caller, as `settleAuctionCompleteTx` does (line 1579), and only the status from `fetchAuction` (line 1599);<br>- the local execution path, `reserveFastFillSequenceActiveAuctionIx` then `executeFastOrderLocalIx` (`ReserveRead`/`ReserveSend`, `ExecuteLocalRead` and the shared `ExecuteSend`);<br>- `settleAuctionNoneTx` with `settleAuctionNoneCctpIx` (`SettleNoneRead`, `SettleNoneCctpRead`, `SettleNoneSend`): two custodian reads of the fee recipient, then a send that creates a settled auction with no info when none exists;<br>- `updateFeeRecipientIx` (`AdminUpdateFeeRecipient`) and `initializeIx` (`Initialize`, which also sets the fee recipient);<br>- `closeAuctionIx`/`Tx` (`CloseRead`/`CloseSend`) and `closeProposalIx` (`AdminClose`);<br>- the deploy script as `ScriptCheck` (line 32's `fetchAuctionParameters()` throws on an uninitialized program, so the proposal branch of lines 46-58 is unreachable) and `ScriptUpdate`.<br>The `...Send` actions are the program's answer to a landed transaction (environment, not client code): accept, fail on the program's own rules, or reject for stale accounts.<br>The program's `initialize`, propose and update are environment operators `Initialize`, `ExecPropose` and `ExecUpdate` | `MCAuctionGovernance` |
| `AuctionHistory` | `fetchAuctionHistory` and `fetchAuctionHistoryHeader` (index.ts 564-686) as operators over a byte sequence: `DecodeEntry` is one iteration of the entry loop at the offsets the code's `offset +=` reach, `DecodeEntries` the loop (RECURSIVE). The state is the account the program writes: `Create` and `AppendEntry`, with the encoding the decoder assumes (`Encode`) | `MCAuctionHistory` |
| `AuctionEconomics` | `ComputeDepositPenalty`, `ComputeMinOfferDelta` and `ComputeNotionalSecurityDeposit`, each a line-by-line translation. The state is one auction whose slot clock ticks | `MCAuctionEconomics` |

How the state corresponds to the code:

- **Listener.** Each handler's `pc` is its position in the loop, and `head[h]` is the
  `const head` it read before the await.
- **Relayer.** A task is a pair of a message and a notification number, and `pc` is
  its await point.
- **Payload bytes and ROUTES config.** These are abstracted to the facts the
  branches test, in `Info[e]`: payload type, known domains, valid sender, response
  type, supported target, and burn log present.
- **Contracts.** The target contract is the `consumed` set. A second execution
  reverts.
- **Relayer helpers.** `getBridgeChainId`, `getRedeemParameters`,
  `getOrderResponseFromVaa` and `findCircleMessageInLogs` are operators over
  `Info[e]`, used in the guards of `Deliver` and `FetchReceipt`.
- **Auction clients.** Each builder is a record (`improver`, `executor`, `settler`,
  `penalty`, `closer`) holding its `pc` and what it read; the auction is one record whose
  status and best offer the program's side changes when a send is accepted. Its
  `info` flag is FALSE for an auction created by `settleAuctionNone`: `fetchAuction`
  then returns no info, and a builder that needs it throws (`pc` "failed").
  `reserved` is the fast-fill sequence the local path reserves.
- **History.** Bytes are naturals, integers little-endian; a decoded integer is kept
  as its bytes, so no 64-bit arithmetic is needed.

## 3. Runs

| Run | Checks | Result |
|---|---|---|
| `EventCpi_pass` | `TypeOK` | passes |
| `EventCpi_once` | `ExactlyOnceDelivery` | **violated** |
| `EventCpi_hol` | `ConfirmedEventuallyDequeued` (under `FairSpec`) | **violated** |
| `NativeSwap_pass` | `TypeOK`, `SubmittedOnlyValidated`, `DeliveredIsSettled` | passes |
| `NativeSwap_dup` | `AtMostOneSubmission` | **violated** |
| `MatchingEngine_pass` | `TypeOK`, `SubmittedOnlyValidated`, `DeliveredIsSettled` | passes |
| `MatchingEngine_dup` | `AtMostOneSubmission` | **violated** |
| `AuctionGovernance_pass` | `TypeOK` | passes |
| `AuctionGovernance_delta` | `ClientEconomicsOfAuctionConfig` | **violated** |
| `AuctionGovernance_script` | `ScriptEnactsTarget` | **violated** |
| `AuctionEconomics_penalty` | `PenaltyWithinDeposit`, `FullPenaltyAfterPenaltyPeriod`, `PenaltyNonDecreasing` | passes |
| `AuctionHistory_decode` | `DecodesWhatWasWritten` | **violated** |

`AuctionGovernance_pass` states no property beyond the type invariant. It
shows that every client read and every program answer is reachable under the
interleavings, for the coverage the violation runs build on. The builders derive
the accounts they name from one read, so a property that they are rejected only
when stale would hold by their shape.

`DeliveredIsSettled` counts a message reported failed as settled, as the spec's
error taxonomy does: errors are logged and not retried. It relies on the RPC
steps being fair, so it cannot show an unbounded retry holding a task forever,
nor an event dropped by the `catch`.

What the violations show:

- **`EventCpi_once`.** Handlers H1 and H2 both read head t1 and await. H1 dequeues t1
  and delivers it. H2 dequeues t2 and delivers t1 a second time, so t1 is delivered
  twice and t2 leaves the queue without being delivered. Both halves come from one
  line: `dequeue()` at index.ts 309 removes the current head, not the head that was
  read at line 288.
- **`EventCpi_hol`.** t1 lands on a fork that is abandoned, so
  `getParsedTransaction` keeps returning null for it; t2 lands behind it and
  confirms. Every slot handler reads t1 at the head and breaks (line 305), so t2 is
  never dequeued or delivered, however many slots pass. Spec §4.4 says the pipeline
  never blocks later events on one failed event.
- **`NativeSwap_dup`.** Two notifications of one message both pass `isTransferRedeemed`
  before either submits. The spec calls that check the primary duplicate defence.
  In fact the contract's replay protection is what keeps the transfer single: the
  second transaction reverts.

- **`MatchingEngine_dup`.** The same spec claim fails without any interleaving. The
  EVM relayer has no redeemed check, so a second notification that arrives after
  the first task finished still sends `executeOrder`, and the contract reverts it.
- **`AuctionGovernance_delta`.** An auction starts under config 0, and then an
  update enacts config 1. A bidder's `computeMinOfferDelta` reads config 1
  (index.ts 2618); so does `computeDepositPenalty` called without its `configId`
  (line 2586).
- **`AuctionHistory_decode`.** The program creates a history and appends one entry
  with destination asset info. The decoder reads `custodyTokenBump` and `amountOut`
  at the same offset (index.ts 621-622) and never moves past those 9 bytes, so the
  entry comes back with a wrong `amountOut`. An entry without the option decodes
  correctly.
- **`AuctionGovernance_script`.** Line 32's `fetchAuctionParameters()` throws on an
  uninitialized program; on an initialized one, the existence check looks at the
  custodian (line 41), which exists, so the script never proposes. Its update then
  names a proposal it never created: it fails, or enacts an operator's proposal.
  - The program is outside the repository. Its rule for `nextProposalId` is
    therefore a constant, `AdvanceOnPropose`.
  - The script run uses `FALSE`, the reading under which the default update
    address names the pending proposal.
  - Under `TRUE`, `updateAuctionParametersIx` without a `proposalId` would also name
    an uncreated proposal.

Every property of a passing run is paired in `PROJECT.json` with a mutant: a
plausible bug in the translated code that TLC finds breaking the property. The
mutants are:

- the listener's callback handed the queue entry instead of its signature (`TypeOK`);
- the native-swap relayer retrying a send in place after it went through (`TypeOK`);
- the native-swap CCTP path submitting without the attestation (`SubmittedOnlyValidated`);
- the redeemed test inverted (`DeliveredIsSettled`);
- the initial offer naming the config one past the id it read (`TypeOK`);
- the EVM relayer repeating the send without leaving the submit step (`TypeOK`);
- the EVM relayer executing every order on the token-bridge path (`SubmittedOnlyValidated`);
- the EVM relayer's attestation poll testing a status never returned (`DeliveredIsSettled`);
- paying the user's reward on top of the penalty (`PenaltyWithinDeposit`, `PenaltyNonDecreasing`);
- counting the penalty period one slot short (`FullPenaltyAfterPenaltyPeriod`).

### Bounds

- **Listener.** Two transactions, three slots, two notifications per signature, and
  a horizon of one slot. Two handlers can overlap, and a duplicate notification can
  arrive before or after eviction. That is enough for both races: their traces
  need two transactions and two handlers.
- **Relayers.** Three messages with two notifications each:
  - a CCTP fill from a valid sender;
  - a token-bridge revert from a valid sender;
  - a token-bridge fill from an invalid sender.

  This covers every branch of the handler and a duplicate task per message. The
  matching-engine relayer's three orders are chosen the same way: a CCTP order and
  a token-bridge order from routers, and one from a non-router.
- **Governance.**
  - Three parameter sets: config 0's, one another operator proposes, and the
    script's.
  - At most two operator proposals.
  - The custodian may start uninitialized, so that the script's throw at line 32
    and `Initialize` both happen.
  - Enough for an update to fall between every pair of client awaits.
  - The violation runs use two bidders (symmetric, `MCBidders`). The pass run uses one
    bidder and one operator proposal (`MCOneBidder`, `MaxProposals = 1`): with the
    executor's two paths, settle-none and the closer added, two bidders and two
    proposals take 24 million states and 14 minutes. One bidder still improves
    between every other client's read and send, and one proposal still enacts a
    new config under every client await.
  - Two fee recipients, interchangeable (`SYMMETRY MCFeeSymmetry`), so an update can
    land before, between or after the settle-none builder's two reads. The pass run
    has about 560,000 distinct states and takes about 20 seconds. The violation runs
    use one fee recipient.
- **Listener liveness.** `EventCpi_hol` uses two transactions, t1 dropped, one
  notification each, and no RPC errors, so the only way to stall is the null branch.
- **History.** Two entries, one with and one without destination asset info, every
  field distinct; the bug needs only the one with it.
- **Penalty.** FEE_PRECISION_MAX = 10, so that rounding is visible. Every bps value
  in 0..10 is tried, with deposits up to 13, durations 0..1, grace periods 0..2,
  penalty periods 0..3, and slots 0..8. This covers each branch of the ramp,
  including a zero penalty period and a 100% initial penalty.

### Fairness

- The relayer's tasks are weakly fair (`WF` on `TaskStep`). Node's event loop resumes
  a task whose awaited promise has settled.
- The guardians' signing and Circle's attestation are weakly fair. This is an
  assumption about the environment, and the relayer's unbounded retries rely on it.
- Notifications are not fair, because the websocket may lose one. `DeliveredIsSettled`
  therefore speaks only of messages that were notified.
- The deploy script is weakly fair (`WF` on each step). It is one sequential async
  function whose awaited transactions confirm or throw.
- The listener's liveness run (`FairSpec`) makes `SlotChange` and each slot
  handler's step weakly fair: the websocket keeps reporting slots, and the event
  loop resumes a handler whose `getParsedTransaction` settled. `Confirm` is weakly
  fair for every transaction not in `Dropped`: a transaction that landed on the
  surviving fork is eventually confirmed. `Land` and `OnLogs` get no fairness, and a
  dropped transaction is never confirmed.
- The other listener runs and the penalty run check safety only.

## 4. Not modelled, and the plan

Not modelled, and why:

- **Crashes and lost notifications of the relayers** (hazards at nativeswap
  relayer.ts 482 and 502). A crash, or a notification lost on reconnect, only loses
  work: nothing is persisted and there is no backfill. The only property they break
  is liveness over emitted messages, and showing that takes a violation run of its
  own. The project's twelve runs are spent on findings already made.
- **Receipt pairing** (EVM relayer.ts 120, utils.ts 150). A transaction with two
  burns pairs a VAA with the wrong Circle message. This too could only be shown by
  a violation run.
- **`settleAuctionNoneLocalIx` and `reserveFastFillSequenceNoAuctionIx`.** Whether
  the program accepts them depends on its rules for a reservation without an
  auction, which the client does not show.
- **`placeInitialOfferTx`.** It always passes the caller's `totalDeposit`, so the
  deposit is priced outside the repository. Its config read at line 1368 is listed
  as a hazard.
- **Router endpoint, pause and ownership builders.** They only pass accounts to
  program instructions, and no client here reads those accounts back.

- The instruction builders: they only derive accounts and assemble instructions for
  programs outside the repository.
- The EVM SDK utilities: they are pure parsing. Their receipt pairing (the last
  wormhole message with the first `MessageSent`) is listed as a hazard.
- The test harnesses.
- Configuration and start-up code: the relayers' imports, environment and config
  set-up, contract factories and `main` (nativeswap relayer 1-97, 105-133, 501-518;
  EVM relayer 1-96, 368-385), and the script's argument and connection set-up
  (1-36, 70-78). They run once before any event and change no state a property
  speaks of.
