-------------------------- MODULE MCOrderPlacement --------------------------
(***************************************************************************)
(* Instances of OrderPlacement for TLC.  The cfgs say what the gateway can *)
(* query, whether its client sends again, and which failures it types.     *)
(***************************************************************************)
EXTENDS OrderPlacement

CONSTANTS r1, r2, r3, k1, k2, contractA

MCRequests == {r1, r2, r3}
MCKeys == {k1, k2}

\* A placement, its retry, and a placement under another key.
RetryAndOther == [r \in MCRequests |-> IF r = r3 THEN k2 ELSE k1]

\* Two keys a recent-orders list cannot tell apart.
Lookalikes == [k \in MCKeys |-> contractA]

\* The liveness run leaves out the requests that outlast their claim's TTL, which
\* the theorems cover.
NoneSlow == {}

FirstKeyAuto == {k1}

\* The Webull client types a refusal, a timeout and a 5xx alike.
EveryAnswer == {"refused", "timeout", "server"}

=============================================================================
