--------------------------- MODULE MCBracketFire ---------------------------
(* Instances of BracketFire for TLC.                                       *)
EXTENDS BracketFire, TLC

CONSTANTS target, stop, replacement, g1, g2, w1, w2, i1

\* A bracket, and a leg of the bracket drawn after it.
TwoBrackets == {target, stop, replacement}
TwoGroups == {g1, g2}
InTwoGroups == [l \in TwoBrackets |-> IF l = replacement THEN g2 ELSE g1]

TwoWorkers == {w1, w2}

\* Both run in one process, where every check of the lease's owner passes.  Of two
\* processes a guarded statement may match nothing as well and the worker is done,
\* which its death before the statement shows here.
OneInstance == {i1}

\* The properties say nothing of a behaviour after its first slip.
BeforeTheFirstSlip == slips = {}

Symmetric ==
  {p @@ q : p \in Permutations(TwoWorkers), q \in Permutations({target, stop})}

=============================================================================
