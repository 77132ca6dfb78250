--------------------------- MODULE MCOrderRecord ---------------------------
(* Instances of OrderRecord for TLC: an order of two contracts.            *)
EXTENDS OrderRecord, TLC

CONSTANTS a, b, stamper

Three == {a, b, stamper}
OneStamper == {stamper}

Alike == Permutations({a, b})

Says(names, status, filled) ==
  [names |-> names, status |-> status, filled |-> filled, near |-> TRUE]

\* The same, at another time than the placement's.
Later(rep) == [rep EXCEPT !.near = FALSE]

Client == {"client"}
BrokerSide == {"broker"}

\* The placement's answer under the client's id; the webhooks and polls that
\* follow, under the broker's id or both.
Answer == Says(Client, "submitted", 0)
Life == {Answer,
         Says(BrokerSide, "partially_filled", 1), Says(Aliases, "filled", 2),
         Later(Says(BrokerSide, "cancelled", 0)), Says(Client, "cancelled", 1)}

=============================================================================
