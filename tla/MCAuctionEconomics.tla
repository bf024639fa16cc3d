------------------------- MODULE MCAuctionEconomics -------------------------
(* FEE_PRECISION_MAX scaled down to 10 so that every bps value, and every *)
(* rounding of the products, can be enumerated.                           *)
EXTENDS AuctionEconomics
====
