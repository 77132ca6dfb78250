--------------------------- MODULE MCEventStream ---------------------------
(***************************************************************************)
(* Instances of EventStream for TLC.                                       *)
(***************************************************************************)
EXTENDS EventStream, TLC

CONSTANTS e1, e2, e3, i1, i2, k1, k2, k3

\* Every event its own key; an IV alert among the others, before them, or none.
OwnKeys == (e1 :> k1) @@ (e2 :> k2) @@ (e3 :> k3)
KeysOfTwo == (e1 :> k1) @@ (e2 :> k2)

WithAlert == (e1 :> "orderUpdate") @@ (e2 :> "ivAlert") @@ (e3 :> "chartOrder")
AlertThenOrder == (e1 :> "ivAlert") @@ (e2 :> "orderUpdate")
OrderThenChart == (e1 :> "orderUpdate") @@ (e2 :> "chartOrder")

=============================================================================
