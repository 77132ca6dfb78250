--------------------------- MODULE MCPushDelivery ---------------------------
(***************************************************************************)
(* Instances of PushDelivery for TLC: one alert of a user with two devices *)
(* that another user may take over.                                        *)
(***************************************************************************)
EXTENDS PushDelivery

CONSTANTS ua, ub, t1, t2, a1, i1, i2

OfA == [a \in Alerts |-> ua]
=============================================================================
