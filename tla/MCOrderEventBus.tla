--------------------------- MODULE MCOrderEventBus ---------------------------
(***************************************************************************)
(* Instances of OrderEventBus for TLC: the webhooks of an order's         *)
(* submission and fill, and a poll's own emission of the fill.            *)
(***************************************************************************)
EXTENDS OrderEventBus, TLC

CONSTANTS w1, w2, p1, i1, i2

Reports == (w1 :> "submitted") @@ (w2 :> "filled") @@ (p1 :> "filled")
=============================================================================
