----------------------- MODULE MCMatchingEngineRelayer -----------------------
(* Three published orders: a CCTP order and a token-bridge order from      *)
(* registered routers, and a token-bridge order from an unregistered one. *)
EXTENDS MatchingEngineRelayer, TLC

CONSTANTS e1, e2, e3

MCEvents == {e1, e2, e3}

MCInfo ==
    e1 :> [payloadType |-> 1, domainKnown |-> TRUE, bridgeKnown |-> FALSE,
           fromRouter |-> TRUE, burnInLogs |-> TRUE]
 @@ e2 :> [payloadType |-> 3, domainKnown |-> FALSE, bridgeKnown |-> TRUE,
           fromRouter |-> TRUE, burnInLogs |-> FALSE]
 @@ e3 :> [payloadType |-> 3, domainKnown |-> FALSE, bridgeKnown |-> TRUE,
           fromRouter |-> FALSE, burnInLogs |-> FALSE]
====
