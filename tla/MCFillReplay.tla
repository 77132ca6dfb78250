---------------------------- MODULE MCFillReplay ----------------------------
(* Instances of FillReplay for TLC: an entry and its close.                *)
EXTENDS FillReplay, TLC

CONSTANTS a, b

Recorders == Permutations({a, b})

EntryAndClose == 1 :> 1 @@ 2 :> -1
TwoAndOne == 1 :> 2 @@ 2 :> 1

\* Contracts of one order at two prices, which an average hides.
Paid == 1 :> <<1, 3>> @@ 2 :> <<5>>

\* 216, 36, 6, 1.
ASSUME BlendAssumption == FineEnough
=============================================================================
