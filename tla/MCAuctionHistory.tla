-------------------------- MODULE MCAuctionHistory --------------------------
(* Two settled auctions, one with and one without a destination asset.    *)
(* Every field holds a different byte value, so a field read at another  *)
(* field's offset never decodes to the value written.                    *)
EXTENDS AuctionHistory

\* An entry whose fields hold base, base + 1, ... in layout order.
MkEntry(base, dest) ==
    [vaaHash |-> base, vaaTimestamp |-> base + 1, configId |-> base + 2,
     custodyTokenBump |-> base + 3, vaaSequence |-> base + 4,
     sourceChain |-> base + 5, bestOfferToken |-> base + 6,
     initialOfferToken |-> base + 7, startSlot |-> base + 8,
     amountIn |-> base + 9, securityDeposit |-> base + 10,
     offerPrice |-> base + 11, redeemerMessageLen |-> base + 12,
     destinationAssetInfo |-> dest]

MCEntries ==
    { MkEntry(20, None),
      MkEntry(40, [custodyTokenBump |-> 60, amountOut |-> 61]) }
====
