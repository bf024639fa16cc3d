------------------------- MODULE MCAuctionGovernance -------------------------
EXTENDS AuctionGovernance

CONSTANTS P0, P1, P2, B1, B2, I, X, F1, F2

\* Three parameter sets: config 0's, another operator's, the script's.
MCParams == {P0, P1, P2}
MCAdminParams == {P1}

\* Two bidders, so that one's improvement can land between the other's
\* read and send.
MCBidders == {B1, B2}

\* One bidder: other clients still change the auction under its read.
MCOneBidder == {B1}

\* Two fee recipient token accounts, so that an update can land between
\* settleAuctionNoneTx's two custodian reads; one where no run needs it.
MCFeeRecipients == {F1, F2}
MCOneFeeRecipient == {F1}

\* The two recipients are interchangeable: initialize names either, and an
\* update may name the other.
MCFeeSymmetry == Permutations(MCFeeRecipients)

\* The bidders are interchangeable in every invariant.
MCSymmetry == Permutations(MCBidders)
====
