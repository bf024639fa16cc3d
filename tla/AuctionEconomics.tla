--------------------------- MODULE AuctionEconomics ---------------------------
(***************************************************************************)
(* The client-side auction arithmetic of MatchingEngineProgram            *)
(* (solana/ts/src/matchingEngine/index.ts, lines 2581-2631): the deposit  *)
(* penalty of a late executor, the minimum offer improvement and the       *)
(* notional security deposit.  All three are exact integer arithmetic over *)
(* BigInt, with FEE_PRECISION_MAX as the denominator of every bps field.   *)
(*                                                                         *)
(* The state machine is one auction past its start whose slot clock       *)
(* advances: its parameters and security deposit are chosen in Init from   *)
(* small ranges, and Tick moves the current slot.  The properties relate   *)
(* the penalty at a slot to the deposit and to the penalty one slot later. *)
(***************************************************************************)
EXTENDS Integers

CONSTANTS
    FeePrecisionMax,  \* FEE_PRECISION_MAX (1_000_000 in the code)
    Bps,              \* bps values tried, a subset of 0..FeePrecisionMax
    Amounts,          \* security deposits tried
    Durations,        \* duration values tried
    GracePeriods,     \* gracePeriod values tried
    PenaltySlots,     \* penaltyPeriod (auctionPenaltySlots) values tried
    MaxSlot           \* the clock stops here

ASSUME Bps \subseteq 0..FeePrecisionMax

VARIABLES
    params,       \* the auction's AuctionParameters
    deposit,      \* auctionInfo.securityDeposit
    currentSlot   \* the slot computeDepositPenalty is asked about

vars == <<params, deposit, currentSlot>>

Params ==
    [userPenaltyRewardBps : Bps, initialPenaltyBps : Bps,
     duration : Durations, gracePeriod : GracePeriods,
     penaltyPeriod : PenaltySlots]

\* The auction starts at slot 0 in every behaviour.
StartSlot == 0

-----------------------------------------------------------------------------

\* Mutants of ComputeDepositPenalty: the ramp branch pays the user's
\* reward on top of the penalty instead of out of it, and the penalty
\* period counted one slot short.
DepositPenaltyRewardOnTop(securityDeposit, slot, p) ==
    LET slotsElapsed == slot - StartSlot - p.duration
        amount == securityDeposit
        penaltyPeriod == slotsElapsed - p.gracePeriod
        Reward(x) == (x * p.userPenaltyRewardBps) \div FeePrecisionMax
    IN
    IF slotsElapsed <= p.gracePeriod
    THEN [penalty |-> 0, userReward |-> 0]
    ELSE IF penaltyPeriod >= p.penaltyPeriod
            \/ p.initialPenaltyBps = FeePrecisionMax
    THEN [penalty |-> amount - Reward(amount), userReward |-> Reward(amount)]
    ELSE LET basePenalty == (amount * p.initialPenaltyBps) \div FeePrecisionMax
             penalty == basePenalty
                        + ((amount - basePenalty) * penaltyPeriod) \div p.penaltyPeriod
         IN [penalty |-> penalty, userReward |-> Reward(penalty)]

DepositPenaltyShortPeriod(securityDeposit, slot, p) ==
    LET slotsElapsed == slot - StartSlot - p.duration
        amount == securityDeposit
        penaltyPeriod == slotsElapsed - p.gracePeriod - 1
        Reward(x) == (x * p.userPenaltyRewardBps) \div FeePrecisionMax
    IN
    IF slotsElapsed <= p.gracePeriod
    THEN [penalty |-> 0, userReward |-> 0]
    ELSE IF penaltyPeriod >= p.penaltyPeriod
            \/ p.initialPenaltyBps = FeePrecisionMax
    THEN [penalty |-> amount - Reward(amount), userReward |-> Reward(amount)]
    ELSE LET basePenalty == (amount * p.initialPenaltyBps) \div FeePrecisionMax
             penalty == basePenalty
                        + ((amount - basePenalty) * penaltyPeriod) \div p.penaltyPeriod
         IN [penalty |-> penalty - Reward(penalty), userReward |-> Reward(penalty)]

\* computeDepositPenalty (lines 2581-2615).  The full-penalty test comes
\* before the division, so a zero penaltyPeriod never divides by zero.
ComputeDepositPenalty(securityDeposit, slot, p) ==
    LET slotsElapsed == slot - StartSlot - p.duration
        amount == securityDeposit
        penaltyPeriod == slotsElapsed - p.gracePeriod
        Reward(x) == (x * p.userPenaltyRewardBps) \div FeePrecisionMax
    IN
    IF slotsElapsed <= p.gracePeriod
    THEN [penalty |-> 0, userReward |-> 0]
    ELSE IF penaltyPeriod >= p.penaltyPeriod
            \/ p.initialPenaltyBps = FeePrecisionMax
    THEN [penalty |-> amount - Reward(amount), userReward |-> Reward(amount)]
    ELSE LET basePenalty == (amount * p.initialPenaltyBps) \div FeePrecisionMax
             penalty == basePenalty
                        + ((amount - basePenalty) * penaltyPeriod) \div p.penaltyPeriod
         IN [penalty |-> penalty - Reward(penalty), userReward |-> Reward(penalty)]

\* computeMinOfferDelta (lines 2617-2620).
ComputeMinOfferDelta(offerPrice, minOfferDeltaBps) ==
    (offerPrice * minOfferDeltaBps) \div FeePrecisionMax + 1

\* computeNotionalSecurityDeposit (lines 2622-2631).
ComputeNotionalSecurityDeposit(amountIn, securityDepositBase, securityDepositBps) ==
    securityDepositBase + (amountIn * securityDepositBps) \div FeePrecisionMax

-----------------------------------------------------------------------------

Init ==
    /\ params \in Params
    /\ deposit \in Amounts
    /\ currentSlot = StartSlot

Tick ==
    /\ currentSlot < MaxSlot
    /\ currentSlot' = currentSlot + 1
    /\ UNCHANGED <<params, deposit>>

\* The clock has reached its bound.
Stopped ==
    /\ currentSlot = MaxSlot
    /\ UNCHANGED vars

Next == Tick \/ Stopped

Spec == Init /\ [][Next]_vars

Penalty == ComputeDepositPenalty(deposit, currentSlot, params)

-----------------------------------------------------------------------------

\* Whatever the rounding of the two bps products, what is taken from the
\* executor's security deposit (the penalty plus the user's reward carved
\* out of it) is never negative and never more than the deposit.
PenaltyWithinDeposit ==
    /\ Penalty.penalty >= 0
    /\ Penalty.userReward >= 0
    /\ Penalty.penalty + Penalty.userReward <= deposit

\* Once grace and penalty periods are over the whole deposit is forfeited:
\* from slotsElapsed = gracePeriod + penaltyPeriod on (and past the grace
\* period when penaltyPeriod is 0), penalty and reward add up to exactly
\* the deposit, with no unit lost to rounding.
FullPenaltyAfterPenaltyPeriod ==
    LET slotsElapsed == currentSlot - StartSlot - params.duration IN
    (/\ slotsElapsed >= params.gracePeriod + params.penaltyPeriod
     /\ slotsElapsed > params.gracePeriod)
        => Penalty.penalty + Penalty.userReward = deposit

\* Executing later never pays less: as the slot advances, neither the
\* penalty nor the user's reward decreases, across the grace boundary, the
\* linear ramp and the switch to the full-penalty branch.
PenaltyNonDecreasing ==
    [][ LET before == Penalty
            after == ComputeDepositPenalty(deposit, currentSlot', params)
        IN /\ after.penalty >= before.penalty
           /\ after.userReward >= before.userReward ]_vars
====
