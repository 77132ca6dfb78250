--------------------------- MODULE DurableDelivery ---------------------------
(***************************************************************************)
(* What the event pipeline promises one device of one user, whatever the   *)
(* instances, polls, connections and faults in between: "ordered,          *)
(* resumable, at-least-once delivery" (docs/API-SPEC.md).  The log only    *)
(* grows.  A device without a checkpoint may start anywhere after          *)
(* `origin', the end of the log when it connected, or before; from then on *)
(* it moves its checkpoint past an event only when it has heard it, or     *)
(* when the event is of a kind that is never replayed.                     *)
(***************************************************************************)
EXTENDS Naturals

CONSTANTS Events, Replayed, NoCursor

VARIABLES
    log,         \* the events of the log by sequence
    length,      \* its length
    origin,      \* the length when a device without a checkpoint connected
    checkpoint,  \* the last sequence the device has confirmed
    heard        \* sequences its consumers have observed

vars == <<log, length, origin, checkpoint, heard>>

\* Every replayed event after the origin up to sequence n is in `known'.
CoveredTo(n, start, known) ==
    \A s \in 1..n : start < s /\ log[s] \in Replayed => s \in known

Init ==
    /\ length = 0
    /\ log \in [1..0 -> Events]
    /\ origin = 0
    /\ checkpoint = NoCursor
    /\ heard = {}

AppendEvent(e) ==
    /\ length' = length + 1
    /\ log' = [s \in 1..(length + 1) |-> IF s = length + 1 THEN e ELSE log[s]]
    /\ UNCHANGED <<origin, checkpoint, heard>>

\* A device with no checkpoint connects.
Connect ==
    /\ checkpoint = NoCursor
    /\ origin' = length
    /\ UNCHANGED <<log, length, checkpoint, heard>>

\* Events are observed, again or for the first time, none before an earlier one
\* that is still owed; the checkpoint follows and never goes back.
Deliver ==
    /\ heard \subseteq heard'
    /\ heard' \subseteq 1..length
    /\ \A s \in heard' \ heard : CoveredTo(s, origin, heard')
    /\ checkpoint' # NoCursor => checkpoint' \in 0..length
    /\ checkpoint # NoCursor => checkpoint' # NoCursor /\ checkpoint <= checkpoint'
    /\ checkpoint' # NoCursor => CoveredTo(checkpoint', origin, heard')
    /\ UNCHANGED <<log, length, origin>>

Next == (\E e \in Events : AppendEvent(e)) \/ Connect \/ Deliver

Spec == Init /\ [][Next]_vars

(* Nothing replayable up to the checkpoint went unheard. *)
NothingSkipped == checkpoint # NoCursor => CoveredTo(checkpoint, origin, heard)
=============================================================================
