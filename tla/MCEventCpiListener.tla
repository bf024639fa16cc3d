------------------------- MODULE MCEventCpiListener -------------------------
(* Model of onEventCpi for TLC: two signatures as model values.  *)
EXTENDS EventCpiListener

CONSTANTS t1, t2

TwoTxs == {t1, t2}

\* No fork is abandoned / t1's fork is.
NoTxs == {}
DropT1 == {t1}

====
