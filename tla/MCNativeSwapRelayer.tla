------------------------- MODULE MCNativeSwapRelayer -------------------------
(* Three published messages: a CCTP fill and a token-bridge revert from    *)
(* registered routers, and a token-bridge fill from an unregistered one.   *)
EXTENDS NativeSwapRelayer

CONSTANTS e1, e2, e3

MCEvents == {e1, e2, e3}

MCInfo ==
    e1 :> [payloadType |-> 1, domainsKnown |-> TRUE, validSender |-> TRUE, bridgeKnown |-> FALSE,
           responseType |-> FILL, toSupported |-> TRUE, burnInLogs |-> TRUE]
 @@ e2 :> [payloadType |-> 3, domainsKnown |-> TRUE, validSender |-> TRUE, bridgeKnown |-> TRUE,
           responseType |-> REVERT, toSupported |-> TRUE, burnInLogs |-> FALSE]
 @@ e3 :> [payloadType |-> 3, domainsKnown |-> TRUE, validSender |-> FALSE, bridgeKnown |-> TRUE,
           responseType |-> FILL, toSupported |-> TRUE, burnInLogs |-> FALSE]
====
