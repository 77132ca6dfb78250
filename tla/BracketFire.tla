---------------------------- MODULE BracketFire ----------------------------
(***************************************************************************)
(* Firing a bracket of chart orders, one cancels other                     *)
(* (apps/api/src/chart-orders/chart-orders.service.ts): the group claim    *)
(* that retires the siblings, the placement, and the recovery of claims    *)
(* whose worker died, took long or could not tell what the broker did.     *)
(*                                                                         *)
(* All groups protect one position at one broker account.  TradingService  *)
(* is represented by what OrderPlacement shows of it: per leg (the         *)
(* idempotency key is the leg id) a claim row and at most one order.       *)
(***************************************************************************)
EXTENDS Naturals, FiniteSets

CONSTANTS
  Legs, Groups,
  GroupOf,        \* the group of each leg
  Workers,        \* concurrent activities: a client's fire, a watcher tick
  Instances,      \* API processes (fireOwnerId); several workers may run in one
  Nobody          \* null, for legs and owners

ASSUME BracketAssumption ==
  /\ GroupOf \in [Legs -> Groups]
  /\ Nobody \notin Legs

VARIABLES
  group,    \* BracketGroup rows
  leg,      \* ChartOrder rows
  audit,    \* the OrderAudit row of each leg's key
  order,    \* the broker order each leg's key bought
  enabled,  \* the user's kill switch is off
  pc, job,  \* what each worker is doing, and for which leg
  slips     \* the kinds of unsound steps taken so far (history, no step reads it)

vars == <<group, leg, audit, order, enabled, pc, job, slips>>

LegStatus == {"absent", "working", "pending_fire", "triggered", "failed",
              "cancelled", "expired"}
GroupStatus == {"absent", "working", "pending_fire", "fired", "failed", "closed"}
Phases == {"idle", "gate", "prepare", "audit", "place", "sending", "awaiting",
           "finish", "keep", "unwind"}

\* What the code lets happen against its own rule that a claim is given back only
\* where no order can exist, and used only by its holder:
\*   mistyped  the gateway types as a refusal the failure of an order that the
\*             broker took or may still take
\*   unproven  a claim is given back although its key was used by another call
\*   unheld    a worker prepares a claim, or buys under its key, that is over
\*   outlived  a placement lasts longer than the TTL of its key's claim
SlipKinds == {"mistyped", "unproven", "unheld", "outlived"}

\* Rows and workers hold only the statuses and phases the code knows.
TypeOK ==
  /\ group \in [Groups -> [status : GroupStatus, fireLeg : Legs \cup {Nobody},
                           owner : Instances \cup {Nobody},
                           expired : BOOLEAN]]
  /\ leg \in [Legs -> [status : LegStatus, marker : Legs \cup {Nobody}]]
  /\ audit \in [Legs -> {"none", "fresh", "stale", "placed"}]
  /\ order \in [Legs -> {"none", "inflight", "live", "filled", "dead"}]
  /\ enabled \in BOOLEAN
  /\ pc \in [Workers -> Phases]
  /\ job \in [Workers -> [leg : Legs \cup {Nobody}, owner : Instances \cup {Nobody},
                          retired : SUBSET Legs, recovering : BOOLEAN, keyed : BOOLEAN]]
  /\ slips \subseteq SlipKinds

\* keyed: the key's audit row is the one this worker's call of place inserted.
Job(l, i, R, recovering) ==
  [leg |-> l, owner |-> i, retired |-> R, recovering |-> recovering, keyed |-> FALSE]
IdleJob == Job(Nobody, Nobody, {}, FALSE)
FreeGroup(s) == [status |-> s, fireLeg |-> Nobody, owner |-> Nobody, expired |-> FALSE]

Init ==
  /\ group = [g \in Groups |-> FreeGroup("absent")]
  /\ leg = [l \in Legs |-> [status |-> "absent", marker |-> Nobody]]
  /\ audit = [l \in Legs |-> "none"]
  /\ order = [l \in Legs |-> "none"]
  /\ enabled = TRUE
  /\ pc = [w \in Workers |-> "idle"]
  /\ job = [w \in Workers |-> IdleJob]
  /\ slips = {}

LegsOf(g) == {l \in Legs : GroupOf[l] = g}
Siblings(l) == LegsOf(GroupOf[l]) \ {l}
Held == \A l \in Legs : order[l] # "filled"

\* The leg's group is reserved for it.
Reserved(l) == group[GroupOf[l]].status = "pending_fire" /\ group[GroupOf[l]].fireLeg = l

Exposed(l) == order[l] \in {"inflight", "live"}
Active(l) == Exposed(l) \/ order[l] = "filled"
Sends(w) == pc[w] \in {"sending", "awaiting"}

SlipIf(kind, unsound) == slips' = IF unsound THEN slips \cup {kind} ELSE slips

Goto(w, phase) == pc' = [pc EXCEPT ![w] = phase] /\ UNCHANGED job
Rest(w) == pc' = [pc EXCEPT ![w] = "idle"] /\ job' = [job EXCEPT ![w] = IdleJob]

\* Leg rows after the named ones change status and marker.
SetLegs(ls, s, m) ==
  [l \in Legs |-> IF l \in ls THEN [status |-> s, marker |-> m] ELSE leg[l]]

\* closeWorkingGroupIfEmpty, on the rows a transaction is about to commit.
ClosedIfEmpty(g, row, legs) ==
  IF row.status = "working" /\
     \A l \in LegsOf(g) : legs[l].status \notin {"working", "pending_fire", "triggered"}
    THEN FreeGroup("closed") ELSE row

\* Mutant: a fired group no longer reserves the position.
UnresolvedPending(g) == \E h \in Groups \ {g} : group[h].status = "pending_fire"

\* hasUnresolvedCloseReservation: a claim that may still close the position.
Open(h) ==
  \/ group[h].status = "pending_fire"
  \/ group[h].status = "fired" /\ order[group[h].fireLeg] \notin {"filled", "dead"}

Unresolved(g) == \E h \in Groups \ {g} : Open(h)

-----------------------------------------------------------------------------
(* The user and the sweeps, one transaction each.                          *)

\* create with ensureBracketGroup: a new leg, or the same leg armed again; a
\* group that closed is reopened; one working group per position.
Arm(l) ==
  LET g == GroupOf[l] IN
  /\ enabled
  /\ leg[l].status \in {"absent", "failed", "cancelled"}
  /\ group[g].status \in {"absent", "working", "closed"}
  /\ ~Unresolved(g)
  /\ \A h \in Groups \ {g} : group[h].status # "working"
  /\ leg' = SetLegs({l}, "working", Nobody)
  /\ IF group[g].status = "working"
       THEN UNCHANGED group
       ELSE group' = [group EXCEPT ![g] = FreeGroup("working")]
  /\ UNCHANGED <<audit, order, enabled, pc, job, slips>>

\* Mutant: the sweeps update the leg without the working guard.
RetireUnguarded(l, s) ==
  LET g == GroupOf[l]
      legs == SetLegs({l}, s, Nobody) IN
  /\ leg[l].status \in {"working", "pending_fire"}
  /\ leg' = legs
  /\ group' = [group EXCEPT ![g] = ClosedIfEmpty(g, group[g], legs)]
  /\ UNCHANGED <<audit, order, enabled, pc, job, slips>>

Retire(l, s) ==
  LET g == GroupOf[l]
      legs == SetLegs({l}, s, Nobody) IN
  /\ leg[l].status = "working"
  /\ leg' = legs
  /\ group' = [group EXCEPT ![g] = ClosedIfEmpty(g, group[g], legs)]
  /\ UNCHANGED <<audit, order, enabled, pc, job, slips>>

Cancel(l) == group[GroupOf[l]].status = "working" /\ Retire(l, "cancelled")

CancelOrphanedBrackets(l) == ~Held /\ Retire(l, "cancelled")

\* Mutant: a status no reader knows.
ExpireSettledAs(l) == Retire(l, "settled")

ExpireSettled(l) == Retire(l, "expired")

SetKillSwitch(on) ==
  /\ enabled # on
  /\ enabled' = on
  /\ UNCHANGED <<group, leg, audit, order, pc, job, slips>>

-----------------------------------------------------------------------------
(* fire                                                                    *)

\* The reservation is still this worker's instance's, for this leg: the guard of
\* every statement that ends or renews it.
HoldsClaim(w) ==
  Reserved(job[w].leg) /\ group[GroupOf[job[w].leg]].owner = job[w].owner

\* The siblings a claim of l retires.
Armed(l) == {s \in Siblings(l) : leg[s].status = "working"}

\* claimForFireWithSiblings: one transaction claims the group and the leg and
\* retires the working siblings under this leg's marker.
Claim(w, l, i) ==
  LET g == GroupOf[l] IN
  /\ pc[w] = "idle"
  /\ group[g].status = "working"
  /\ leg[l].status = "working"
  /\ ~Unresolved(g)
  /\ group' = [group EXCEPT ![g] = [status |-> "pending_fire", fireLeg |-> l,
                                    owner |-> i, expired |-> FALSE]]
  /\ leg' = [SetLegs(Armed(l), "cancelled", l) EXCEPT
               ![l] = [status |-> "pending_fire", marker |-> Nobody]]
  /\ pc' = [pc EXCEPT ![w] = "gate"]
  /\ job' = [job EXCEPT ![w] = Job(l, i, Armed(l), FALSE)]
  /\ UNCHANGED <<audit, order, enabled, slips>>

\* settleGroupedNoSend: the leg, its retired siblings and the group go back
\* together, or the claim was lost and nothing changes.  It does not look at the
\* key, which only recovery of a line without a bracket does before it fails one.
SettleNoSend(w, s) ==
  LET l == job[w].leg
      g == GroupOf[l]
      R == job[w].retired
      legs == [SetLegs(R, "working", Nobody) EXCEPT ![l] = [status |-> s, marker |-> Nobody]] IN
  /\ IF /\ \A r \in R : leg[r] = [status |-> "cancelled", marker |-> l]
        /\ leg[l].status \in {"pending_fire", "triggered"}
        /\ HoldsClaim(w)
       THEN /\ leg' = legs
            /\ group' = [group EXCEPT ![g] = ClosedIfEmpty(g, FreeGroup("working"), legs)]
            /\ SlipIf("unproven", audit[l] # "none" /\ ~job[w].keyed)
       ELSE UNCHANGED <<group, leg, slips>>
  /\ Rest(w)
  /\ UNCHANGED <<audit, order, enabled>>

\* The account moved, or the contract settled, before the send.
GateMismatch(w) == pc[w] = "gate" /\ SettleNoSend(w, "working")
GateExpired(w) == pc[w] = "gate" /\ SettleNoSend(w, "expired")

PassGate(w) ==
  /\ pc[w] = "gate"
  /\ Goto(w, "place")
  /\ UNCHANGED <<group, leg, audit, order, enabled, slips>>

-----------------------------------------------------------------------------
(* recoverPendingBrackets                                                  *)

TakeLease(w, g, i) ==
  /\ pc[w] = "idle"
  /\ group[g].status = "pending_fire"
  /\ group[g].expired
  /\ group' = [group EXCEPT ![g].owner = i, ![g].expired = FALSE]
  /\ pc' = [pc EXCEPT ![w] = "prepare"]
  /\ job' = [job EXCEPT ![w] = Job(group[g].fireLeg, i, {}, TRUE)]
  /\ UNCHANGED <<leg, audit, order, enabled, slips>>

\* prepareRecoveredClaim: finish a half-made claim before touching the broker;
\* a fire leg that is in no state to recover fails the whole group.  The statements
\* name the leg, the siblings and the owner, not the claim.
Prepare(w) ==
  LET l == job[w].leg
      g == GroupOf[l]
      mine == {s \in Siblings(l) : leg[s] = [status |-> "cancelled", marker |-> l]} IN
  /\ pc[w] = "prepare"
  /\ IF leg[l].status \in {"working", "pending_fire", "triggered"}
       THEN /\ leg' = [SetLegs(Armed(l), "cancelled", l) EXCEPT
                         ![l].status = IF @ = "working" THEN "pending_fire" ELSE @]
            /\ pc' = [pc EXCEPT ![w] = "audit"]
            /\ job' = [job EXCEPT ![w].retired = Armed(l) \cup mine]
            /\ UNCHANGED group
       ELSE /\ group' = IF group[g].owner = job[w].owner
                          THEN [group EXCEPT ![g].status = "failed"] ELSE group
            /\ Rest(w)
            /\ UNCHANGED leg
  /\ SlipIf("unheld", ~Reserved(l))
  /\ UNCHANGED <<audit, order, enabled>>

\* A completed audit finishes the group; a fresh pending one is left to its
\* owner; otherwise the placement is repeated, once the account still matches.
ReadAudit(w) ==
  LET l == job[w].leg IN
  /\ pc[w] = "audit"
  /\ CASE audit[l] = "placed" -> Goto(w, "finish")
       [] audit[l] = "fresh"  -> Rest(w)
       [] OTHER               -> Goto(w, "place") \/ Goto(w, "keep")
  /\ UNCHANGED <<group, leg, audit, order, enabled, slips>>

-----------------------------------------------------------------------------
(* trading.place for the leg's key, as OrderPlacement shows it to behave.  *)

\* The kill switch (legal acceptance and the asserted scope likewise) refuses
\* before the key is looked at.
TradingDisabled(w) ==
  /\ pc[w] = "place"
  /\ ~enabled
  /\ Goto(w, "unwind")
  /\ UNCHANGED <<group, leg, audit, order, enabled, slips>>

\* A statement of claimIdempotencyKey fails in the database, which is no
\* uncertain fire error.
ClaimKeyFails(w) ==
  /\ pc[w] = "place"
  /\ enabled
  /\ Goto(w, "unwind")
  /\ UNCHANGED <<group, leg, audit, order, enabled, slips>>

\* A new claim, or a stale one whose order the broker never got.
ClaimKey(w) ==
  LET l == job[w].leg IN
  /\ pc[w] = "place"
  /\ enabled
  /\ \/ audit[l] = "none"
     \/ audit[l] = "stale" /\ order[l] = "none"
  /\ audit' = [audit EXCEPT ![l] = "fresh"]
  /\ pc' = [pc EXCEPT ![w] = "sending"]
  /\ job' = [job EXCEPT ![w].keyed = TRUE]
  /\ SlipIf("unheld", ~Reserved(l))
  /\ UNCHANGED <<group, leg, order, enabled>>

\* The key already bought an order: completed, or recovered from the broker.
Replay(w) ==
  LET l == job[w].leg IN
  /\ pc[w] = "place"
  /\ enabled
  /\ \/ audit[l] = "placed"
     \/ audit[l] = "stale" /\ order[l] # "none"
  /\ audit' = [audit EXCEPT ![l] = "placed"]
  /\ Goto(w, "finish")
  /\ UNCHANGED <<group, leg, order, enabled, slips>>

\* ORDER_IN_FLIGHT for a fresh claim, ORDER_RECOVERY_* for a stale one.
CannotTell(w) ==
  LET l == job[w].leg IN
  /\ pc[w] = "place"
  /\ enabled
  /\ audit[l] \in {"fresh", "stale"}
  /\ Goto(w, "keep")
  /\ UNCHANGED <<group, leg, audit, order, enabled, slips>>

\* The catch of place deletes the row of its own claim.
DeleteKey(w) ==
  /\ audit' = [audit EXCEPT ![job[w].leg] = "none"]
  /\ pc' = [pc EXCEPT ![w] = "unwind"]
  /\ job' = [job EXCEPT ![w].keyed = FALSE]

\* Validation, or capToPosition of a close-only order, refuses: claim deleted.
RefuseUnsent(w) ==
  /\ pc[w] = "sending"
  /\ DeleteKey(w)
  /\ UNCHANGED <<group, leg, order, enabled, slips>>

Send(w) ==
  /\ pc[w] = "sending"
  /\ Held
  /\ order' = [order EXCEPT ![job[w].leg] = "inflight"]
  /\ Goto(w, "awaiting")
  /\ UNCHANGED <<group, leg, audit, enabled, slips>>

\* Accepted; recording it on the audit row may fail.
Accepted(w) ==
  LET l == job[w].leg IN
  /\ pc[w] = "awaiting"
  /\ order[l] \in {"live", "filled", "dead"}
  /\ audit' \in {audit, [audit EXCEPT ![l] = "placed"]}
  /\ Goto(w, "finish")
  /\ UNCHANGED <<group, leg, order, enabled, slips>>

\* A typed error of the gateway: a refusal, or a timeout or 5xx of the Webull
\* client, whatever became of the order.
Refused(w) ==
  /\ pc[w] = "awaiting"
  /\ DeleteKey(w)
  /\ SlipIf("mistyped", order[job[w].leg] # "none")
  /\ UNCHANGED <<group, leg, order, enabled>>

\* Mutant: an uncertain placement unwinds the claim like a refusal.
UnconfirmedUnwinds(w) ==
  /\ pc[w] = "awaiting"
  /\ Goto(w, "unwind")
  /\ UNCHANGED <<group, leg, audit, order, enabled, slips>>

Unconfirmed(w) ==
  /\ pc[w] = "awaiting"
  /\ Goto(w, "keep")
  /\ UNCHANGED <<group, leg, audit, order, enabled, slips>>

-----------------------------------------------------------------------------
(* What fire and recovery do with the outcome.                             *)

\* finishRecoveredGroup: the leg triggers, its siblings are cancelled for good
\* and the group is fired, if this worker's instance still holds the claim.
Finish(w) ==
  LET l == job[w].leg
      g == GroupOf[l]
      gone == {s \in Siblings(l) : \/ leg[s].status = "working"
                                   \/ leg[s] = [status |-> "cancelled", marker |-> l]} IN
  /\ pc[w] = "finish"
  /\ leg[l].status \in {"pending_fire", "triggered"}
  /\ HoldsClaim(w)
  /\ leg' = [SetLegs(gone, "cancelled", Nobody) EXCEPT ![l].status = "triggered"]
  /\ group' = [group EXCEPT ![g] = [FreeGroup("fired") EXCEPT !.fireLeg = l]]
  /\ Rest(w)
  /\ UNCHANGED <<audit, order, enabled, slips>>

\* Mutant: failing to record an accepted order fails the line.
FinishFailsUnwound(w) == pc[w] = "finish" /\ SettleNoSend(w, "failed")

\* The claim was lost or the transaction failed: fire renews its own lease.
FinishFails(w) ==
  LET g == GroupOf[job[w].leg] IN
  /\ pc[w] = "finish"
  /\ group' = IF HoldsClaim(w) /\ ~job[w].recovering
                THEN [group EXCEPT ![g].expired = FALSE] ELSE group
  /\ Rest(w)
  /\ UNCHANGED <<leg, audit, order, enabled, slips>>

\* An uncertain outcome keeps the claim and renews the lease; recovery only
\* where it is still the owner.
Keep(w) ==
  LET l == job[w].leg
      g == GroupOf[l]
      renew == /\ group[g].status = "pending_fire"
               /\ IF job[w].recovering THEN group[g].owner = job[w].owner
                                       ELSE group[g].fireLeg = l IN
  /\ pc[w] = "keep"
  /\ group' = IF renew THEN [group EXCEPT ![g].expired = FALSE] ELSE group
  /\ Rest(w)
  /\ UNCHANGED <<leg, audit, order, enabled, slips>>

Unwind(w) == pc[w] = "unwind" /\ SettleNoSend(w, "failed")

-----------------------------------------------------------------------------
(* Environment                                                             *)

\* A leg's order at the broker; losing or refusing it leaves none.
BrokerStep(l) ==
  /\ \/ order[l] = "inflight" /\ order' = [order EXCEPT ![l] = "live"]
     \/ order[l] = "inflight" /\ order' = [order EXCEPT ![l] = "none"]
     \/ order[l] = "live" /\ Held /\ order' = [order EXCEPT ![l] = "filled"]
     \/ order[l] = "live" /\ order' = [order EXCEPT ![l] = "dead"]
  /\ UNCHANGED <<group, leg, audit, enabled, pc, job, slips>>

\* GROUP_FIRE_LEASE_MS is over: it runs from the start of the claimant's tick, and
\* holds no worker to it.
ExpireLease(g) ==
  /\ group[g].status = "pending_fire"
  /\ ~group[g].expired
  /\ group' = [group EXCEPT ![g].expired = TRUE]
  /\ UNCHANGED <<leg, audit, order, enabled, pc, job, slips>>

\* The claim row passes its TTL.
AgeAudit(l) ==
  /\ audit[l] = "fresh"
  /\ SlipIf("outlived", order[l] = "inflight" \/ \E w \in Workers : Sends(w) /\ job[w].leg = l)
  /\ audit' = [audit EXCEPT ![l] = "stale"]
  /\ UNCHANGED <<group, leg, order, enabled, pc, job>>

Crash(w) ==
  /\ pc[w] # "idle"
  /\ Rest(w)
  /\ UNCHANGED <<group, leg, audit, order, enabled, slips>>

-----------------------------------------------------------------------------
Fire(w) ==
  \/ \E l \in Legs, i \in Instances : Claim(w, l, i)
  \/ GateMismatch(w) \/ GateExpired(w) \/ PassGate(w)

Recover(w) ==
  \/ \E g \in Groups, i \in Instances : TakeLease(w, g, i)
  \/ Prepare(w) \/ ReadAudit(w)

Place(w) ==
  \/ TradingDisabled(w) \/ ClaimKeyFails(w) \/ ClaimKey(w) \/ Replay(w) \/ CannotTell(w)
  \/ RefuseUnsent(w) \/ Send(w)
  \/ Accepted(w) \/ Refused(w) \/ Unconfirmed(w)

Settle(w) == Finish(w) \/ FinishFails(w) \/ Keep(w) \/ Unwind(w)

Next ==
  \/ \E w \in Workers : Fire(w) \/ Recover(w) \/ Place(w) \/ Settle(w) \/ Crash(w)
  \/ \E l \in Legs :
       \/ Arm(l) \/ Cancel(l) \/ CancelOrphanedBrackets(l) \/ ExpireSettled(l)
       \/ BrokerStep(l) \/ AgeAudit(l)
  \/ \E g \in Groups : ExpireLease(g)
  \/ \E on \in BOOLEAN : SetKillSwitch(on)

Spec == Init /\ [][Next]_vars

-----------------------------------------------------------------------------
\* "A bracket must send at most one order": closing orders for the position
\* that are at work or filled never number two, across legs, groups, workers,
\* crashes and recoveries (claimForFireWithSiblings), before the first slip.
AtMostOneClose ==
  slips = {} => Cardinality({l \in Legs : Active(l)}) <= 1

\* As long as a leg's order may be working, its group stays reserved for it and
\* none of its siblings is armed (settleGroupedNoSend restores them), before the
\* first slip.
ReservationHolds ==
  slips = {} =>
    \A l \in Legs : Exposed(l) =>
      /\ group[GroupOf[l]].status \in {"pending_fire", "fired"}
      /\ group[GroupOf[l]].fireLeg = l
      /\ \A s \in Siblings(l) : leg[s].status # "working"

\* A line is never shown failed, cancelled or armed while its order is at work:
\* the user would lose track of a live order (fire, after the broker accepted);
\* before the first slip.
LegsTellTheTruth ==
  slips = {} =>
    \A l \in Legs : Exposed(l) => leg[l].status \in {"pending_fire", "triggered"}

\* No bracket is given up: while a claim is pending its fire leg stays in a state
\* recovery can finish, whatever the user and the sweeps do meanwhile
\* (prepareRecoveredClaim, "Fire leg cannot be recovered safely"), before the
\* first slip.
NoBracketAbandoned ==
  slips = {} =>
    \A g \in Groups :
      /\ group[g].status # "failed"
      /\ group[g].status = "pending_fire" =>
           leg[group[g].fireLeg].status \in {"pending_fire", "triggered"}

-----------------------------------------------------------------------------
(* Why these hold: before the first slip every part is preserved by every  *)
(* step, given the others (BracketFire_proofs).                            *)

Bought(l) == order[l] \in {"live", "filled", "dead"}

JobSound(w) ==
  /\ pc[w] # "idle" => job[w].leg \in Legs /\ job[w].retired \subseteq Siblings(job[w].leg)
  /\ pc[w] \in {"gate", "prepare", "audit", "place", "unwind"} => ~job[w].keyed

\* Who sends does so under the leg's claim and key, and there is no order before;
\* who goes on to finish has one.
KeyHeld(w) ==
  LET l == job[w].leg IN
  /\ Sends(w) => Reserved(l) /\ audit[l] = "fresh"
  /\ pc[w] = "sending" => order[l] = "none"
  /\ pc[w] = "finish" => audit[l] # "none" /\ Bought(l)

\* The claim row covers the order: fresh while it is under way, kept once there is
\* one, completed only when one was taken.
AuditCovers(l) ==
  /\ audit[l] = "none" => order[l] = "none"
  /\ order[l] = "inflight" => audit[l] = "fresh"
  /\ audit[l] = "placed" => Bought(l)

\* Keys are used under a claim only, and a group's row and its fire leg's agree.
LegAgrees(l) ==
  LET g == GroupOf[l] IN
  /\ leg[l].status \notin {"pending_fire", "triggered"} => audit[l] = "none"
  /\ leg[l].status = "pending_fire" => Reserved(l)
  /\ leg[l].status = "triggered" => group[g].status = "fired" /\ group[g].fireLeg = l

GroupAgrees(g) ==
  LET l == group[g].fireLeg IN
  /\ group[g].status # "failed"
  /\ group[g].status \in {"pending_fire", "fired"} =>
       l \in LegsOf(g) /\ \A s \in Siblings(l) : leg[s].status # "working"
  /\ group[g].status = "pending_fire" => leg[l].status = "pending_fire"
  /\ group[g].status = "fired" => leg[l].status = "triggered" /\ Bought(l)

\* One worker at a time sends under a leg's key, and none while another records the
\* order; one claim at a time may close the position, and one order does.
OneSender ==
  \A v, w \in Workers :
    Sends(v) /\ (Sends(w) \/ pc[w] = "finish") /\ job[v].leg = job[w].leg => v = w
OneOpenClaim == \A g, h \in Groups : Open(g) /\ Open(h) => g = h
OneActive == \A l, m \in Legs : Active(l) /\ Active(m) => l = m

Sound ==
  /\ \A w \in Workers : JobSound(w) /\ KeyHeld(w)
  /\ \A l \in Legs : AuditCovers(l) /\ LegAgrees(l)
  /\ \A g \in Groups : GroupAgrees(g)
  /\ OneSender /\ OneOpenClaim /\ OneActive

BracketInv ==
  /\ TypeOK
  /\ slips = {} => Sound

=============================================================================
