---------------------------- MODULE AuctionHistory ----------------------------
(***************************************************************************)
(* The auction-history decoders of MatchingEngineProgram                   *)
(* (solana/ts/src/matchingEngine/index.ts): fetchAuctionHistory (lines     *)
(* 564-651) reads the whole account by hand, fetchAuctionHistoryHeader     *)
(* (lines 653-686) reads a 30-byte slice of it.                            *)
(*                                                                         *)
(* The account is written by the matching-engine program, outside this     *)
(* repository; the spec only says the history is append-only.  Its layout  *)
(* is taken from the decoders themselves: the fields in the order and at   *)
(* the widths they read, integers little-endian.  A header timestamp is    *)
(* its tag byte and four bytes whether present or not (the fixed 30-byte   *)
(* header slice assumes it); an entry is the Borsh serialization of        *)
(* AuctionEntry, where an absent option is its tag byte alone, which is    *)
(* what the decoder's null branch assumes.                                 *)
(*                                                                         *)
(* A byte is a natural number.  Every integer field the program writes is  *)
(* small, so its encoding is its value followed by zero bytes; a decoded   *)
(* integer is kept as the bytes it was read from, which is the number they *)
(* denote, so no 64-bit arithmetic is needed.  A public key or hash is a   *)
(* 32-byte field the same way.                                             *)
(***************************************************************************)
EXTENDS Naturals, Sequences

CONSTANTS
    Entries,      \* AuctionEntry values the program may append
    HeaderIds,    \* history ids
    MaxEntries,   \* entries appended in a behaviour
    None          \* model value: an absent option / no account

ASSUME MaxEntries \in Nat

VARIABLE history   \* the account the program wrote, None before it exists

vars == <<history>>

\* The account discriminator (line 578).
Discriminator == <<149, 208, 45, 154, 47, 248, 102, 245>>

-----------------------------------------------------------------------------
(* The program's encoding.                                                 *)

\* An unsigned integer of w bytes, little-endian; v < 256.
U(v, w) == [i \in 1..w |-> IF i = 1 THEN v ELSE 0]

Opt(o, w) == IF o = None THEN U(0, 1 + w) ELSE <<1>> \o U(o, w)

EncodeEntry(e) ==
    U(e.vaaHash, 32) \o U(e.vaaTimestamp, 4) \o U(e.configId, 4)
    \o U(e.custodyTokenBump, 1) \o U(e.vaaSequence, 8) \o U(e.sourceChain, 2)
    \o U(e.bestOfferToken, 32) \o U(e.initialOfferToken, 32)
    \o U(e.startSlot, 8) \o U(e.amountIn, 8) \o U(e.securityDeposit, 8)
    \o U(e.offerPrice, 8) \o U(e.redeemerMessageLen, 2)
    \o (IF e.destinationAssetInfo = None
          THEN <<0>>
          ELSE <<1>> \o U(e.destinationAssetInfo.custodyTokenBump, 1)
                     \o U(e.destinationAssetInfo.amountOut, 8))

RECURSIVE EncodeEntries(_)
EncodeEntries(es) ==
    IF es = <<>> THEN <<>> ELSE EncodeEntry(Head(es)) \o EncodeEntries(Tail(es))

Encode(h) ==
    Discriminator \o U(h.id, 8) \o Opt(h.minTimestamp, 4)
    \o Opt(h.maxTimestamp, 4) \o U(Len(h.entries), 4) \o EncodeEntries(h.entries)

\* What a decoder should return for h: every integer as its bytes.
ViewEntry(e) ==
    [vaaHash |-> U(e.vaaHash, 32), vaaTimestamp |-> U(e.vaaTimestamp, 4),
     configId |-> U(e.configId, 4), custodyTokenBump |-> U(e.custodyTokenBump, 1),
     vaaSequence |-> U(e.vaaSequence, 8), sourceChain |-> U(e.sourceChain, 2),
     bestOfferToken |-> U(e.bestOfferToken, 32),
     initialOfferToken |-> U(e.initialOfferToken, 32),
     startSlot |-> U(e.startSlot, 8), amountIn |-> U(e.amountIn, 8),
     securityDeposit |-> U(e.securityDeposit, 8), offerPrice |-> U(e.offerPrice, 8),
     redeemerMessageLen |-> U(e.redeemerMessageLen, 2),
     destinationAssetInfo |->
        IF e.destinationAssetInfo = None THEN None
        ELSE [custodyTokenBump |-> U(e.destinationAssetInfo.custodyTokenBump, 1),
              amountOut |-> U(e.destinationAssetInfo.amountOut, 8)]]

ViewOpt(o, w) == IF o = None THEN None ELSE U(o, w)

ViewHeader(h) ==
    [id |-> U(h.id, 8), minTimestamp |-> ViewOpt(h.minTimestamp, 4),
     maxTimestamp |-> ViewOpt(h.maxTimestamp, 4)]

-----------------------------------------------------------------------------
(* The client's decoders.  data[i] of the code is data[i + 1] here; a     *)
(* readUIntLE past the end throws a RangeError, which both decoders let    *)
(* propagate: the result is then [ok |-> FALSE], as it is for a missing    *)
(* account or a wrong discriminator.                                       *)

Failed == [ok |-> FALSE]

\* data[offset] === 1 of an option tag; a read past the end is undefined.
TagIsOne(data, offset) == offset < Len(data) /\ data[offset + 1] = 1

\* A 4-byte count, as readUInt32LE returns it.
Num4(b) == b[1] + 256 * (b[2] + 256 * (b[3] + 256 * b[4]))

\* One iteration of the entry loop (lines 594-645), starting at offset o.
\* The offsets are those the code's offset += steps reach.  With a
\* destination asset, custodyTokenBump and amountOut are both read at the
\* byte after the tag, and offset is not moved past them.
DecodeEntry(data, o) ==
    LET F(k, w) == SubSeq(data, o + k + 1, o + k + w)
        some == TagIsOne(data, o + 149)
    IN
    IF o + 149 <= Len(data) /\ (some => o + 158 <= Len(data))
    THEN [ok |-> TRUE, next |-> o + 150,
          entry |->
            [vaaHash |-> F(0, 32), vaaTimestamp |-> F(32, 4),
             configId |-> F(36, 4), custodyTokenBump |-> F(40, 1),
             vaaSequence |-> F(41, 8), sourceChain |-> F(49, 2),
             bestOfferToken |-> F(51, 32), initialOfferToken |-> F(83, 32),
             startSlot |-> F(115, 8), amountIn |-> F(123, 8),
             securityDeposit |-> F(131, 8), offerPrice |-> F(139, 8),
             redeemerMessageLen |-> F(147, 2),
             destinationAssetInfo |->
                IF some THEN [custodyTokenBump |-> F(150, 1),
                              amountOut |-> F(150, 8)]
                ELSE None]]
    ELSE Failed

\* The loop over numEntries entries; the first failing read ends it all.
RECURSIVE DecodeEntries(_, _, _)
DecodeEntries(data, offset, n) ==
    IF n = 0 THEN [ok |-> TRUE, entries |-> <<>>]
    ELSE LET r == DecodeEntry(data, offset) IN
         IF ~r.ok THEN Failed
         ELSE LET rest == DecodeEntries(data, r.next, n - 1) IN
              IF ~rest.ok THEN Failed
              ELSE [ok |-> TRUE, entries |-> <<r.entry>> \o rest.entries]

\* fetchAuctionHistory (lines 564-651): the account, its discriminator,
\* the header at offsets 8-29 (each timestamp read only behind a tag of 1
\* but always skipped), then the entries from offset 30.
FetchAuctionHistory(account) ==
    IF account = None \/ Len(account) < 30
       \/ SubSeq(account, 1, 8) # Discriminator
    THEN Failed
    ELSE LET data == account
             es == DecodeEntries(data, 30, Num4(SubSeq(data, 27, 30)))
         IN IF ~es.ok THEN Failed
            ELSE [ok |-> TRUE,
                  header |->
                    [id |-> SubSeq(data, 9, 16),
                     minTimestamp |->
                        IF TagIsOne(data, 16) THEN SubSeq(data, 18, 21) ELSE None,
                     maxTimestamp |->
                        IF TagIsOne(data, 21) THEN SubSeq(data, 23, 26) ELSE None],
                  data |-> es.entries]

\* fetchAuctionHistoryHeader (lines 653-686): the same reads over the
\* first 30 bytes only (dataSlice), returning the header and numEntries.
FetchAuctionHistoryHeader(account) ==
    IF account = None THEN Failed
    ELSE LET data == SubSeq(account, 1, IF Len(account) < 30 THEN Len(account) ELSE 30)
         IN IF Len(data) < 30 \/ SubSeq(data, 1, 8) # Discriminator THEN Failed
            ELSE [ok |-> TRUE,
                  header |->
                    [id |-> SubSeq(data, 9, 16),
                     minTimestamp |->
                        IF TagIsOne(data, 16) THEN SubSeq(data, 18, 21) ELSE None,
                     maxTimestamp |->
                        IF TagIsOne(data, 21) THEN SubSeq(data, 23, 26) ELSE None],
                  numEntries |-> SubSeq(data, 27, 30)]

-----------------------------------------------------------------------------
(* The program creates the account and appends settled auctions to it.    *)

Init == history = None

Create(id) ==
    /\ history = None
    /\ history' = [id |-> id, minTimestamp |-> None, maxTimestamp |-> None,
                   entries |-> <<>>]

LesserTs(a, b) == IF a = None \/ b < a THEN b ELSE a
GreaterTs(a, b) == IF a = None \/ b > a THEN b ELSE a

AppendEntry(e) ==
    /\ history # None
    /\ Len(history.entries) < MaxEntries
    /\ history' = [history EXCEPT
                     !.entries = Append(@, e),
                     !.minTimestamp = LesserTs(@, e.vaaTimestamp),
                     !.maxTimestamp = GreaterTs(@, e.vaaTimestamp)]

\* The history is full for this bound.
Full ==
    /\ history # None
    /\ Len(history.entries) = MaxEntries
    /\ UNCHANGED history

Next ==
    \/ \E id \in HeaderIds : Create(id)
    \/ \E e \in Entries : AppendEntry(e)
    \/ Full

Spec == Init /\ [][Next]_vars

-----------------------------------------------------------------------------

\* Round trip of the hand-written decoders: whatever entries the program
\* has appended, fetchAuctionHistory returns exactly the header and the
\* entries written, and fetchAuctionHistoryHeader the same header and the
\* number of entries.  Breaking it takes an entry whose optional
\* destination asset info the loop reads at the wrong offsets.
DecodesWhatWasWritten ==
    history # None =>
        LET bytes == Encode(history) IN
        /\ FetchAuctionHistory(bytes)
              = [ok |-> TRUE, header |-> ViewHeader(history),
                 data |-> [i \in DOMAIN history.entries |->
                             ViewEntry(history.entries[i])]]
        /\ FetchAuctionHistoryHeader(bytes)
              = [ok |-> TRUE, header |-> ViewHeader(history),
                 numEntries |-> U(Len(history.entries), 4)]
====
