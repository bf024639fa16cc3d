-------------------------- MODULE AuctionGovernance --------------------------
(***************************************************************************)
(* Versioned auction parameters and the clients that read them             *)
(* (solana/ts/src/matchingEngine/index.ts and                              *)
(* deployment/scripts/solana/updateAuctionParameters.ts).                  *)
(*                                                                         *)
(* The custodian account holds auctionConfigId and nextProposalId.  A      *)
(* parameter change is two transactions: proposeAuctionParameters creates  *)
(* a Proposal account, updateAuctionParameters enacts it into the          *)
(* AuctionConfig account auctionConfigId + 1 and makes that id current.   *)
(* Every client builder reads the custodian with an await of its own, so   *)
(* a read can be stale by the time it is used:                             *)
(*  - placeInitialOfferCctpIx prices the security deposit with one config  *)
(*    and names an auction config account;                                 *)
(*  - computeMinOfferDelta, for a bidder on an existing auction, reads     *)
(*    whatever config is current;                                          *)
(*  - the deployment script decides whether to propose, then updates.     *)
(*                                                                         *)
(* The matching-engine program is outside this repository.  Its two admin  *)
(* instructions are modelled from what the builders pass it: the proposal  *)
(* account is derived from nextProposalId, the new config account from     *)
(* auctionConfigId + 1.  Which instruction advances nextProposalId is not  *)
(* visible from the client, so it is the constant AdvanceOnPropose.        *)
(***************************************************************************)
EXTENDS Naturals, FiniteSets, TLC

CONSTANTS
    Params,            \* parameter sets (model values)
    InitialParams,     \* parameters of config 0, written by initialize
    AdminParams,       \* parameters other operators propose
    Target,            \* getMatchingEngineAuctionParameters(chain) of the script
    MaxProposals,      \* bound on proposals created
    AdvanceOnPropose,  \* TRUE: propose advances nextProposalId; FALSE: enact does
    Bidders,           \* participants who improve the offer
    Initial,           \* the initial offerer's token owner
    Executor,          \* the payer of executeFastOrder and settleAuctionComplete
    FeeRecipients,     \* token accounts the custodian may name as fee recipient
    None

ASSUME /\ InitialParams \in Params /\ Target \in Params
       /\ AdminParams \subseteq Params
       /\ AdvanceOnPropose \in BOOLEAN

VARIABLES
    initialized,       \* the custodian account exists
    feeRecipient,      \* custodian.feeRecipientToken
    auctionConfigId,   \* custodian.auctionConfigId
    nextProposalId,    \* custodian.nextProposalId
    configs,           \* AuctionConfig accounts: id -> parameters
    proposals,         \* Proposal accounts: id -> [params, enacted]
    auction,           \* the auction placeInitialOffer created, or None
    offer,             \* placeInitialOfferCctpIx: [pc, fetchedConfigId, notionalOf, auctionConfig]
    bidder,            \* computeMinOfferDelta: [pc, id, params]
    script,            \* control point of the deployment script
    penalty,           \* computeDepositPenalty: [pc, id, params]
    improver,          \* improveOfferIx per bidder: [pc, config, best]
    executor,          \* executeFastOrderCctpIx: [pc, config, best]
    settler,           \* settleAuction{Complete,None}Tx: [pc, best, beneficiary, baseFee, fee]
    reserved,          \* ReservedFastFillSequence account: its beneficiary, or None
    closer             \* closeAuctionIx: [pc, beneficiary]

clients == <<penalty, improver, executor, settler, reserved, closer>>

vars == <<feeRecipient, initialized, auctionConfigId, nextProposalId, configs, proposals,
          auction, offer, bidder, script, clients>>

-----------------------------------------------------------------------------
(* The program's admin instructions (environment).  A transaction whose    *)
(* accounts do not match fails and changes nothing.                        *)

ProposeAccepted(id) ==
    /\ initialized
    /\ id = nextProposalId
    /\ id \notin DOMAIN proposals

ExecPropose(id, p) ==
    /\ ProposeAccepted(id)
    /\ proposals' = proposals @@ (id :> [params |-> p, enacted |-> FALSE])
    /\ nextProposalId' = IF AdvanceOnPropose THEN id + 1 ELSE nextProposalId
    /\ UNCHANGED <<feeRecipient, initialized, auctionConfigId, configs, clients>>

UpdateAccepted(pid, cid) ==
    /\ initialized
    /\ pid \in DOMAIN proposals
    /\ ~proposals[pid].enacted
    /\ cid = auctionConfigId + 1

ExecUpdate(pid, cid) ==
    /\ UpdateAccepted(pid, cid)
    /\ configs' = configs @@ (cid :> proposals[pid].params)
    /\ auctionConfigId' = cid
    /\ proposals' = [proposals EXCEPT ![pid].enacted = TRUE]
    /\ nextProposalId' = IF AdvanceOnPropose THEN nextProposalId ELSE nextProposalId + 1
    /\ UNCHANGED <<feeRecipient, initialized, clients>>

\* The program's initialize instruction: custodian, its fee recipient token
\* and config 0.
Initialize ==
    /\ ~initialized
    /\ initialized' = TRUE
    /\ configs' = (0 :> InitialParams)
    /\ \E f \in FeeRecipients : feeRecipient' = f
    /\ UNCHANGED <<auctionConfigId, nextProposalId, proposals, auction, offer,
                   bidder, script, clients>>

-----------------------------------------------------------------------------
(* Client reads of the custodian.                                          *)

\* proposalAddress (lines 429-436): an explicit id, else nextProposalId.
ProposalAddress(proposalId) ==
    IF proposalId = None THEN nextProposalId ELSE proposalId

\* fetchAuctionParameters (lines 390-396): an explicit id, else the
\* custodian's current auctionConfigId.
FetchAuctionParameters(id) ==
    configs[IF id = None THEN auctionConfigId ELSE id]

\* Operators: proposeAuctionParametersIx with the default proposal address
\* (lines 1078-1111), sent and confirmed.
AdminPropose(p) ==
    /\ Cardinality(DOMAIN proposals) < MaxProposals
    /\ ExecPropose(ProposalAddress(None), p)
    /\ UNCHANGED <<auction, offer, bidder, script, clients>>

\* Operators: updateAuctionParametersIx naming the proposal explicitly, the
\* config account from the custodian's auctionConfigId + 1 (lines 1139-1175).
AdminUpdate(pid) ==
    /\ ExecUpdate(ProposalAddress(pid), auctionConfigId + 1)
    /\ UNCHANGED <<auction, offer, bidder, script, clients>>

\* The program's closeProposal: an existing proposal not yet enacted is
\* closed; the builder passes its proposedBy as read.
CloseAccepted(pid) ==
    /\ pid \in DOMAIN proposals
    /\ ~proposals[pid].enacted

\* Operators: closeProposalIx (lines 1113-1137), the proposal at the given
\* id or, without one, at nextProposalId; fetchProposal throws when no
\* account is there.
AdminClose(pid) ==
    /\ ProposalAddress(pid) \in DOMAIN proposals
    /\ CloseAccepted(ProposalAddress(pid))
    /\ proposals' = [i \in DOMAIN proposals \ {ProposalAddress(pid)} |-> proposals[i]]
    /\ UNCHANGED <<feeRecipient, initialized, auctionConfigId, nextProposalId, configs,
                   auction, offer, bidder, script, clients>>

\* Owner or assistant: updateFeeRecipientIx (lines 1245-1263), naming the
\* new recipient's token account; the program writes it to the custodian.
AdminUpdateFeeRecipient(f) ==
    /\ initialized
    /\ f # feeRecipient
    /\ feeRecipient' = f
    /\ UNCHANGED <<initialized, auctionConfigId, nextProposalId, configs, proposals,
                   auction, offer, bidder, script, clients>>

-----------------------------------------------------------------------------
(* placeInitialOfferCctpIx (lines 1313-1406) for a fast VAA without an     *)
(* auction, no totalDeposit and no auctionConfig given.                    *)

\* Lines 1355-1356: fetchCustodian, fetchedConfigId = auctionConfigId.
OfferReadCustodian ==
    /\ offer.pc = "start"
    /\ initialized
    /\ offer' = [offer EXCEPT !.pc = "notional", !.fetchedConfigId = auctionConfigId]
    /\ UNCHANGED <<feeRecipient, initialized, auctionConfigId, nextProposalId, configs,
                   proposals, auction, bidder, script, clients>>

\* Mutant of OfferNotional: the config account taken one past the id read,
\* as updateAuctionParametersIx does for the config it creates.
OfferNotionalNextConfig ==
    /\ offer.pc = "notional"
    /\ offer' = [offer EXCEPT !.pc = "send",
                              !.notionalOf = offer.fetchedConfigId,
                              !.auctionConfig = offer.fetchedConfigId + 1]
    /\ UNCHANGED <<feeRecipient, initialized, auctionConfigId, nextProposalId, configs,
                   proposals, auction, bidder, script, clients>>

\* Lines 1358-1372: computeNotionalSecurityDeposit(amountIn, fetchedConfigId)
\* awaits fetchAuctionParameters(fetchedConfigId); then, fetchedConfigId
\* being set, auctionConfig is that same id's account without a new read.
OfferNotional ==
    /\ offer.pc = "notional"
    /\ offer' = [offer EXCEPT !.pc = "send",
                              !.notionalOf = offer.fetchedConfigId,
                              !.auctionConfig = offer.fetchedConfigId]
    /\ UNCHANGED <<feeRecipient, initialized, auctionConfigId, nextProposalId, configs,
                   proposals, auction, bidder, script, clients>>

\* The transaction lands, creating the auction account unless a settlement
\* without auction created it first: the auction records the config
\* account it was given and the config its deposit was priced with.  Whether the program
\* also insists on the current config is outside the client, so the
\* transaction may fail either way.
OfferSend ==
    /\ offer.pc = "send"
    /\ \/ /\ auction = None
          /\ auction' = [info |-> TRUE, configId |-> offer.auctionConfig,
                         depositConfigId |-> offer.notionalOf,
                         bestOffer |-> Initial, preparedBy |-> Initial,
                         status |-> "active"]
          /\ offer' = [offer EXCEPT !.pc = "placed"]
       \/ /\ offer' = [offer EXCEPT !.pc = "failed"]
          /\ UNCHANGED auction
    /\ UNCHANGED <<feeRecipient, initialized, auctionConfigId, nextProposalId, configs,
                   proposals, bidder, script, clients>>

-----------------------------------------------------------------------------
(* A bidder on the auction: computeMinOfferDelta(offerPrice) (lines        *)
(* 2617-2620) calls fetchAuctionParameters() without an id, which awaits   *)
(* fetchCustodian and then the config account.                             *)

BidReadCustodian ==
    /\ bidder.pc = "idle"
    /\ auction # None /\ auction.info
    /\ bidder' = [bidder EXCEPT !.pc = "fetch", !.id = auctionConfigId]
    /\ UNCHANGED <<feeRecipient, initialized, auctionConfigId, nextProposalId, configs,
                   proposals, auction, offer, script, clients>>

BidFetchConfig ==
    /\ bidder.pc = "fetch"
    /\ bidder' = [bidder EXCEPT !.pc = "done", !.params = FetchAuctionParameters(bidder.id)]
    /\ UNCHANGED <<feeRecipient, initialized, auctionConfigId, nextProposalId, configs,
                   proposals, auction, offer, script, clients>>

\* An executor pricing its penalty: computeDepositPenalty(auctionInfo,
\* currentSlot, configId?) (lines 2581-2586) passes its optional configId
\* to fetchAuctionParameters; left out, the custodian is read first.
PenaltyReadCustodian ==
    /\ penalty.pc = "idle"
    /\ auction # None /\ auction.info
    /\ \E configId \in {None, auction.configId} :
          penalty' = [penalty EXCEPT !.pc = "fetch",
                        !.id = IF configId = None THEN auctionConfigId ELSE configId]
    /\ UNCHANGED <<feeRecipient, initialized, auctionConfigId, nextProposalId, configs,
                   proposals, auction, offer, bidder, script, improver,
                   executor, settler, reserved, closer>>

PenaltyFetchConfig ==
    /\ penalty.pc = "fetch"
    /\ penalty' = [penalty EXCEPT !.pc = "done", !.params = FetchAuctionParameters(penalty.id)]
    /\ UNCHANGED <<feeRecipient, initialized, auctionConfigId, nextProposalId, configs,
                   proposals, auction, offer, bidder, script, improver,
                   executor, settler, reserved, closer>>

-----------------------------------------------------------------------------
(* Clients of a live auction.  Each fetches the auction, builds a          *)
(* transaction naming the accounts it read, and sends it later.  The      *)
(* program, outside this repository, checks the named accounts against    *)
(* the auction (Anchor constraints): a mismatch, or an auction no longer  *)
(* in the state the instruction needs, rejects the transaction; a match   *)
(* may still fail on the program's own rules (price, timing).             *)

\* activeAuctionComposite (lines 823-857) with neither config nor
\* bestOfferToken given: both from the auction info read.
ActiveAuctionComposite(info) == [config |-> info.configId, best |-> info.bestOffer]

\* improveOfferIx (lines 1447-1496) without totalDeposit: fetchAuction, then
\* the active-auction accounts from that same info.
ImproveRead(q) ==
    /\ improver[q].pc = "idle"
    /\ auction # None
    /\ \/ /\ auction.info
          /\ LET c == ActiveAuctionComposite(auction) IN
             improver' = [improver EXCEPT ![q] = [pc |-> "send", config |-> c.config, best |-> c.best]]
       \/ /\ ~auction.info
          /\ improver' = [improver EXCEPT ![q].pc = "failed"]
    /\ UNCHANGED <<feeRecipient, initialized, auctionConfigId, nextProposalId, configs,
                   proposals, auction, offer, bidder, script, penalty,
                   executor, settler, reserved, closer>>

\* The program's view of an instruction naming config and best offer.
NamesLiveAuction(c) ==
    /\ auction.status = "active"
    /\ c.config = auction.configId
    /\ c.best = auction.bestOffer

\* improveOfferTx (lines 1408-1445) lands: q's token becomes the best offer.
ImproveSend(q) ==
    /\ improver[q].pc = "send"
    /\ \/ /\ NamesLiveAuction(improver[q])
          /\ auction' = [auction EXCEPT !.bestOffer = q]
          /\ improver' = [improver EXCEPT ![q].pc = "improved"]
       \/ /\ NamesLiveAuction(improver[q])
          /\ improver' = [improver EXCEPT ![q].pc = "failed"]
          /\ UNCHANGED auction
       \/ /\ ~NamesLiveAuction(improver[q])
          /\ improver' = [improver EXCEPT ![q].pc = "rejected"]
          /\ UNCHANGED auction
    /\ UNCHANGED <<feeRecipient, initialized, auctionConfigId, nextProposalId, configs,
                   proposals, offer, bidder, script, penalty, executor, settler, reserved, closer>>

\* executeFastOrderCctpIx (lines 1981-2100): fetchAuction for the initial
\* offer token and participant, and the active-auction accounts from the
\* same info.
ExecuteRead ==
    /\ executor.pc = "idle"
    /\ auction # None
    /\ \/ /\ auction.info
          /\ LET c == ActiveAuctionComposite(auction) IN
             executor' = [pc |-> "send", config |-> c.config, best |-> c.best]
       \/ /\ ~auction.info
          /\ executor' = [executor EXCEPT !.pc = "failed"]
    /\ UNCHANGED <<feeRecipient, initialized, auctionConfigId, nextProposalId, configs,
                   proposals, auction, offer, bidder, script, penalty,
                   improver, settler, reserved, closer>>

\* executeFastOrderTx (lines 1903-1979) lands: the auction completes, with
\* an execute penalty when the executor was late.
ExecuteSend ==
    /\ executor.pc = "send"
    /\ \/ /\ NamesLiveAuction(executor)
          /\ \E late \in BOOLEAN :
                auction' = [auction EXCEPT !.status =
                              IF late THEN "completedPenalty" ELSE "completedNoPenalty"]
          /\ executor' = [executor EXCEPT !.pc = "executed"]
       \/ /\ NamesLiveAuction(executor)
          /\ executor' = [executor EXCEPT !.pc = "failed"]
          /\ UNCHANGED auction
       \/ /\ ~NamesLiveAuction(executor)
          /\ executor' = [executor EXCEPT !.pc = "rejected"]
          /\ UNCHANGED auction
    /\ UNCHANGED <<feeRecipient, initialized, auctionConfigId, nextProposalId, configs,
                   proposals, offer, bidder, script, penalty, improver, settler, reserved, closer>>

\* The local path, reserveFastFillSequenceActiveAuctionIx (lines
\* 2102-2228) without an auctionConfig: the composite derives the reserved
\* sequence and auction accounts from the fast VAA, then fetchAuction
\* names the auction's config account.
ReserveRead ==
    /\ executor.pc = "idle"
    /\ auction # None
    /\ \/ /\ auction.info
          /\ executor' = [pc |-> "reserve", config |-> auction.configId, best |-> None]
       \/ /\ ~auction.info
          /\ executor' = [executor EXCEPT !.pc = "failed"]
    /\ UNCHANGED <<feeRecipient, initialized, auctionConfigId, nextProposalId, configs,
                   proposals, auction, offer, bidder, script, penalty,
                   improver, settler, reserved, closer>>

\* The program's reserveFastFillSequenceActiveAuction: the auction still
\* active under the config named, and no sequence reserved for the VAA.
ReserveAccepted ==
    /\ auction.status = "active"
    /\ executor.config = auction.configId
    /\ reserved = None

ReserveSend ==
    /\ executor.pc = "reserve"
    /\ \/ /\ ReserveAccepted
          /\ reserved' = Executor
          /\ executor' = [executor EXCEPT !.pc = "local"]
       \/ /\ ReserveAccepted
          /\ executor' = [executor EXCEPT !.pc = "failed"]
          /\ UNCHANGED reserved
       \/ /\ ~ReserveAccepted
          /\ executor' = [executor EXCEPT !.pc = "rejected"]
          /\ UNCHANGED reserved
    /\ UNCHANGED <<feeRecipient, initialized, auctionConfigId, nextProposalId, configs,
                   proposals, auction, offer, bidder, script, penalty,
                   improver, settler, closer>>

\* executeFastOrderLocalIx (lines 2273-2377) without the optional accounts:
\* fetchReservedFastFillSequence for the sequence and beneficiary, then
\* fetchAuction for the initial offer, whose info activeAuctionComposite
\* reuses.  The transaction is sent as ExecuteSend.
ExecuteLocalRead ==
    /\ executor.pc = "local"
    /\ reserved # None
    /\ LET c == ActiveAuctionComposite(auction) IN
       executor' = [pc |-> "send", config |-> c.config, best |-> c.best]
    /\ UNCHANGED <<feeRecipient, initialized, auctionConfigId, nextProposalId, configs,
                   proposals, auction, offer, bidder, script, penalty,
                   improver, settler, reserved, closer>>

\* settleAuctionCompleteTx (lines 1574-1628): the caller passes the best
\* offer token; fetchAuction gives only the status.  When
\* status.completed?.executePenalty === null the beneficiary is the owner
\* of that token, otherwise the executor.  An auction not yet completed
\* gives undefined, which is not null.
SettleRead ==
    /\ settler.pc = "idle"
    /\ auction # None
    /\ \E bestOfferToken \in Bidders \cup {Initial} :
          settler' = [settler EXCEPT !.pc = "send", !.best = bestOfferToken,
                        !.beneficiary = IF auction.status = "completedNoPenalty"
                                          THEN bestOfferToken ELSE Executor]
    /\ UNCHANGED <<feeRecipient, initialized, auctionConfigId, nextProposalId, configs,
                   proposals, auction, offer, bidder, script, penalty,
                   improver, executor, reserved, closer>>

\* settleAuctionCompleteIx (lines 1630-1674) lands: the program needs a
\* completed auction, the best offer token it names, and, without a
\* penalty, that token's owner as the beneficiary.
SettleAccepted ==
    /\ auction.status \in {"completedPenalty", "completedNoPenalty"}
    /\ settler.best = auction.bestOffer
    /\ auction.status = "completedNoPenalty" => settler.beneficiary = auction.bestOffer

SettleSend ==
    /\ settler.pc = "send"
    /\ \/ /\ SettleAccepted
          /\ auction' = [auction EXCEPT !.status = "settled"]
          /\ settler' = [settler EXCEPT !.pc = "settled"]
       \/ /\ ~SettleAccepted
          /\ settler' = [settler EXCEPT !.pc = "rejected"]
          /\ UNCHANGED auction
    /\ UNCHANGED <<feeRecipient, initialized, auctionConfigId, nextProposalId, configs,
                   proposals, offer, bidder, script, penalty, improver, executor, reserved, closer>>

\* settleAuctionNoneTx (lines 1676-1737) for a fast VAA nobody bid on, to a
\* CCTP target: fetchCustodian for the fee recipient token that
\* prepareOrderResponseCctpIx takes as its base fee token (line 1690).
SettleNoneRead ==
    /\ settler.pc = "idle"
    /\ auction = None
    /\ \/ /\ initialized
          /\ settler' = [settler EXCEPT !.pc = "noneCctp", !.baseFee = feeRecipient]
       \/ /\ ~initialized
          /\ settler' = [settler EXCEPT !.pc = "failed"]
    /\ UNCHANGED <<feeRecipient, initialized, auctionConfigId, nextProposalId, configs,
                   proposals, auction, offer, bidder, script, penalty,
                   improver, executor, reserved, closer>>

\* settleAuctionNoneCctpIx (lines 1806-1900) derives the auction account
\* from the VAA and awaits fetchCustodian again (line 1861) for the
\* feeRecipientToken it names.
SettleNoneCctpRead ==
    /\ settler.pc = "noneCctp"
    /\ settler' = [settler EXCEPT !.pc = "sendNone", !.fee = feeRecipient]
    /\ UNCHANGED <<feeRecipient, initialized, auctionConfigId, nextProposalId, configs,
                   proposals, auction, offer, bidder, script, penalty,
                   improver, executor, reserved, closer>>

\* The program's settleAuctionNoneCctp creates the auction account,
\* settled, without info and prepared by the executor who paid for it; it
\* needs the custodian's current fee recipient token, and fails when the
\* auction account already exists.  The base fee token of the prepare
\* instruction is any token account of the mint.
SettleNoneAccepted ==
    /\ auction = None
    /\ settler.fee = feeRecipient

SettleNoneSend ==
    /\ settler.pc = "sendNone"
    /\ \/ /\ SettleNoneAccepted
          /\ auction' = [info |-> FALSE, configId |-> None, depositConfigId |-> None,
                         bestOffer |-> None, preparedBy |-> Executor,
                         status |-> "settled"]
          /\ settler' = [settler EXCEPT !.pc = "settled"]
       \/ /\ ~SettleNoneAccepted
          /\ settler' = [settler EXCEPT !.pc = "rejected"]
          /\ UNCHANGED auction
    /\ UNCHANGED <<feeRecipient, initialized, auctionConfigId, nextProposalId, configs,
                   proposals, offer, bidder, script, penalty, improver,
                   executor, reserved, closer>>

\* closeAuctionIx (lines 2379-2400) without a beneficiary: fetchAuction's
\* preparedBy; closeAuctionTx (lines 2402-2420) sends it alone.
CloseRead ==
    /\ closer.pc = "idle"
    /\ auction # None
    /\ closer' = [pc |-> "send", beneficiary |-> auction.preparedBy]
    /\ UNCHANGED <<feeRecipient, initialized, auctionConfigId, nextProposalId, configs,
                   proposals, auction, offer, bidder, script, penalty,
                   improver, executor, settler, reserved>>

\* The program's closeAuction: a settled auction, its rent back to the
\* payer who prepared it.
CloseAuctionAccepted ==
    /\ auction.status = "settled"
    /\ closer.beneficiary = auction.preparedBy

CloseSend ==
    /\ closer.pc = "send"
    /\ \/ /\ CloseAuctionAccepted
          /\ auction' = [auction EXCEPT !.status = "closed"]
          /\ closer' = [closer EXCEPT !.pc = "closed"]
       \/ /\ ~CloseAuctionAccepted
          /\ closer' = [closer EXCEPT !.pc = "rejected"]
          /\ UNCHANGED auction
    /\ UNCHANGED <<feeRecipient, initialized, auctionConfigId, nextProposalId, configs,
                   proposals, offer, bidder, script, penalty, improver,
                   executor, settler, reserved>>

-----------------------------------------------------------------------------
(* The deployment script updateAuctionParameters.ts (lines 32-69).  Each   *)
(* transaction is sent and confirmed; a failed one throws and ends the    *)
(* script.                                                                 *)

\* Lines 32-45: fetchAuctionParameters() reads the custodian and throws on
\* an uninitialized program; after it the custodian exists, so the check
\* of lines 39-45 always skips the proposal of lines 46-58.
ScriptCheck ==
    /\ script = "check"
    /\ script' = IF initialized THEN "update" ELSE "failed"
    /\ UNCHANGED <<feeRecipient, initialized, auctionConfigId, nextProposalId, configs,
                   proposals, auction, offer, bidder, clients>>

\* Lines 60-69: updateAuctionParametersIx({owner}) with no proposalId: the
\* proposal is ProposalAddress(None), the config auctionConfigId + 1.
ScriptUpdate ==
    /\ script = "update"
    /\ \/ /\ ExecUpdate(ProposalAddress(None), auctionConfigId + 1)
          /\ script' = "done"
       \/ /\ ~UpdateAccepted(ProposalAddress(None), auctionConfigId + 1)
          /\ script' = "failed"
          /\ UNCHANGED <<feeRecipient, initialized, auctionConfigId, nextProposalId, configs, proposals, clients>>
    /\ UNCHANGED <<auction, offer, bidder, clients>>

-----------------------------------------------------------------------------

Init ==
    /\ initialized \in BOOLEAN
    /\ feeRecipient \in IF initialized THEN FeeRecipients ELSE {None}
    /\ auctionConfigId = 0
    /\ nextProposalId = 0
    /\ configs = IF initialized THEN (0 :> InitialParams) ELSE [i \in {} |-> InitialParams]
    /\ proposals = [i \in {} |-> [params |-> InitialParams, enacted |-> FALSE]]
    /\ auction = None
    /\ offer = [pc |-> "start", fetchedConfigId |-> None, notionalOf |-> None,
                auctionConfig |-> None]
    /\ bidder = [pc |-> "idle", id |-> None, params |-> None]
    /\ script = "check"
    /\ penalty = [pc |-> "idle", id |-> None, params |-> None]
    /\ improver = [q \in Bidders |-> [pc |-> "idle", config |-> None, best |-> None]]
    /\ executor = [pc |-> "idle", config |-> None, best |-> None]
    /\ settler = [pc |-> "idle", best |-> None, beneficiary |-> None,
                  baseFee |-> None, fee |-> None]
    /\ reserved = None
    /\ closer = [pc |-> "idle", beneficiary |-> None]

\* Every client has finished, or waits for an auction that will not come.
Quiescent ==
    /\ offer.pc \in {"placed", "failed"}
    /\ \/ auction = None
       \/ /\ auction # None
          /\ auction.info => bidder.pc = "done" /\ penalty.pc = "done"
          /\ \A q \in Bidders : improver[q].pc \in {"improved", "failed", "rejected"}
          /\ executor.pc \in {"executed", "failed", "rejected"}
          /\ settler.pc \in {"settled", "rejected", "failed"}
          /\ closer.pc \in {"closed", "rejected"}
    /\ script \in {"done", "failed"}
    /\ UNCHANGED vars

Next ==
    \/ Initialize
    \/ \E p \in AdminParams : AdminPropose(p)
    \/ \E pid \in DOMAIN proposals : AdminUpdate(pid)
    \/ \E pid \in DOMAIN proposals \cup {None} : AdminClose(pid)
    \/ \E f \in FeeRecipients : AdminUpdateFeeRecipient(f)
    \/ OfferReadCustodian \/ OfferNotional \/ OfferSend
    \/ BidReadCustodian \/ BidFetchConfig
    \/ PenaltyReadCustodian \/ PenaltyFetchConfig
    \/ \E q \in Bidders : ImproveRead(q) \/ ImproveSend(q)
    \/ ExecuteRead \/ ExecuteSend
    \/ ReserveRead \/ ReserveSend \/ ExecuteLocalRead
    \/ SettleRead \/ SettleSend \/ SettleNoneRead \/ SettleNoneCctpRead \/ SettleNoneSend
    \/ CloseRead \/ CloseSend
    \/ ScriptCheck \/ ScriptUpdate
    \/ Quiescent

\* The script is one sequential async function: each awaited transaction
\* confirms or throws, so it runs to its end.
Fairness ==
    /\ WF_vars(ScriptCheck) /\ WF_vars(ScriptUpdate)

Spec == Init /\ [][Next]_vars /\ Fairness

-----------------------------------------------------------------------------

\* The operators' proposals and the script's one.
ConfigIds == 0..(MaxProposals + 1)
ProposalIds == 0..(MaxProposals + 1)

AuctionStatus == {"active", "completedPenalty", "completedNoPenalty", "settled", "closed"}

TypeOK ==
    /\ initialized \in BOOLEAN
    /\ feeRecipient \in FeeRecipients \cup {None}
    /\ auctionConfigId \in ConfigIds
    /\ nextProposalId \in ProposalIds
    /\ DOMAIN configs \subseteq ConfigIds /\ \A i \in DOMAIN configs : configs[i] \in Params
    /\ DOMAIN proposals \subseteq ProposalIds
    /\ \A i \in DOMAIN proposals : proposals[i] \in [params : Params, enacted : BOOLEAN]
    /\ auction \in {None} \cup [info : BOOLEAN, configId : DOMAIN configs \cup {None},
                                depositConfigId : DOMAIN configs \cup {None},
                                bestOffer : Bidders \cup {Initial, None},
                                preparedBy : {Initial, Executor}, status : AuctionStatus]
    /\ offer.pc \in {"start", "notional", "send", "placed", "failed"}
    /\ bidder.pc \in {"idle", "fetch", "done"}
    /\ script \in {"check", "update", "done", "failed"}
    /\ penalty.pc \in {"idle", "fetch", "done"}
    /\ \A q \in Bidders : improver[q].pc \in {"idle", "send", "improved", "failed", "rejected"}
    /\ executor.pc \in {"idle", "reserve", "local", "send", "executed", "failed", "rejected"}
    /\ reserved \in {None, Executor}
    /\ closer.pc \in {"idle", "send", "closed", "rejected"}
    /\ settler.pc \in {"idle", "send", "noneCctp", "sendNone", "settled", "rejected", "failed"}
    /\ {settler.baseFee, settler.fee} \subseteq FeeRecipients \cup {None}
    /\ settler.beneficiary \in Bidders \cup {Initial, Executor, None}
    /\ settler.best \in Bidders \cup {Initial, None}

\* The client's auction economics use the parameters of the auction they
\* are about (spec section 4.2: computeMinOfferDelta and
\* computeDepositPenalty are functions of the auction's params): a
\* bidder's minimum improvement, and an executor's penalty when the caller
\* leaves out the optional configId, whatever update is enacted between
\* the auction's start and the computation.
ClientEconomicsOfAuctionConfig ==
    /\ bidder.pc = "done" => bidder.params = configs[auction.configId]
    /\ penalty.pc = "done" => penalty.params = configs[auction.configId]

\* Running the deployment script against an initialized program enacts the
\* parameters it was given.
ScriptEnactsTarget ==
    (script = "check" /\ initialized)
        ~> (auctionConfigId \in DOMAIN configs /\ configs[auctionConfigId] = Target)
====
