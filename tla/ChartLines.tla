----------------------------- MODULE ChartLines -----------------------------
(***************************************************************************)
(* Standalone chart lines on one underlying: the leased watcher            *)
(* (apps/api/src/chart-orders/chart-order-watcher.service.ts), the         *)
(* client's own trigger, edits and moves, and the fire and recovery of     *)
(* lines outside a bracket (chart-orders.service.ts).  Brackets are        *)
(* BracketFire's; TradingService.place is represented by what              *)
(* OrderPlacement shows of it: per line (the key is the line's id) an      *)
(* audit row and at most one order.                                        *)
(*                                                                         *)
(* The code guards against a refused order that is live all the same (a    *)
(* Webull timeout is an ordinary broker error, webull-client.ts:271-272)   *)
(* and a claim that goes stale under its worker (triggeredAt is the tick's *)
(* start, and a fire settles its line by id alone) by neither; both are    *)
(* steps here, recorded as slips, and LineTellsTheTruth holds until one.   *)
(*                                                                         *)
(* Two times of the code are modelled by what they are compared with:      *)
(* `updatedAt' by the watchers whose observation is not newer, and         *)
(* `triggeredAt', the recovery lease, by the actors that know its value.   *)
(***************************************************************************)
EXTENDS Integers, Sequences, FiniteSets, SequencesExt

CONSTANTS
    Lines,       \* the lines in the order of createdAt
    Prices,      \* prices of the underlying
    Opening,     \* the price at which the lines are drawn
    Levels,      \* the triggers they are drawn at
    Instances, Client,
    NoPrice, Nobody,
    LostClaims,  \* a claim may be lost while its line stays working
    MaxMoves,    \* bound on moves, cancels and switches of the mode
    MaxFaults    \* bound on faults

ASSUME LinesAssumption ==
    /\ IsInjective(Lines)
    /\ Prices \subseteq Nat /\ Opening \in Prices /\ Levels \subseteq Prices \ {Opening}
    /\ Client \notin Instances /\ Nobody \notin Instances
    /\ NoPrice \notin Prices
    /\ LostClaims \in BOOLEAN
    /\ MaxMoves \in Nat /\ MaxFaults \in Nat

Ids == ToSet(Lines)
Actors == Instances \cup {Client}

VARIABLES
    price,    \* the underlying's price
    home,     \* the user's trading mode is the lines' environment
    line,     \* the ChartOrder rows
    knows,    \* actors that know the row's current triggeredAt
    audit,    \* "none", "pending" or "placed", the audit row of each line's key
    bought,   \* lines whose key has an order at the broker
    unclear,  \* lines whose pending audit the broker's history does not settle
    marked,   \* lines whose lastError is the marker of the claim's account scope
    lease,    \* the watcher lease
    obs,      \* the last observation of each instance
    newer,    \* lines updated at or after that observation
    touched,  \* lines updated since the tick that is about to observe began
    job,      \* what each actor is doing
    moves, faults,
    slips     \* the kinds of unsound steps taken so far (history, no step reads it)

watchVars == <<lease, obs>>
placeVars == <<audit, bought, unclear>>
vars == <<price, home, line, marked, knows, placeVars, watchVars, newer, touched, job,
          moves, faults, slips>>

Statuses == {"working", "pending_fire", "triggered", "failed", "cancelled"}
Outcomes == {"placed", "refused", "uncertain"}
SlipKinds == {"mistyped", "outlived"}
Pcs == {"idle", "started", "read", "firing", "gate", "placing", "write",
        "found", "replaying", "replayed", "moving"}
Idle == [pc |-> "idle", at |-> Nobody, todo |-> {}, outcome |-> "none"]

Row == [status : Statuses, trigger : Prices, arm : Prices, aged : BOOLEAN]

\* A line as an actor has read it, and the price its crossing is tested from.
Sight == [id : Ids, trigger : Prices, arm : Prices, from : Prices \cup {NoPrice}]

\* Being at no line is told from being at one.
ASSUME NobodyAssumption == Nobody \notin Sight

\* What an actor is doing: at which line, and which come after it.
Job == [pc : Pcs, at : Sight \cup {Nobody}, todo : SUBSET Sight,
        outcome : Outcomes \cup {"none"}]

\* A line is armed off its trigger, and no fire is without its line.
TypeOK ==
    /\ price \in Prices /\ home \in BOOLEAN
    /\ line \in [Ids -> Row]
    /\ \A l \in Ids : /\ line[l].arm # line[l].trigger
                      /\ line[l].aged => line[l].status = "pending_fire"
    /\ knows \in [Ids -> SUBSET Actors]
    /\ audit \in [Ids -> {"none", "pending", "placed"}]
    /\ bought \subseteq Ids /\ unclear \subseteq Ids /\ marked \subseteq Ids
    /\ lease \in [holder : Instances \cup {Nobody}, lapsed : BOOLEAN]
    /\ obs \in [Instances -> Prices \cup {NoPrice}]
    /\ newer \in [Instances -> SUBSET Ids] /\ touched \in [Instances -> SUBSET Ids]
    /\ job \in [Actors -> Job]
    /\ \A x \in Actors :
          /\ job[x].at = Nobody =>
               job[x].pc \in {"idle", "started"} \/ (x # Client /\ job[x].pc = "read")
          /\ job[x].pc = "moving" => job[x].at.arm # job[x].at.trigger
    /\ moves \in 0..MaxMoves /\ faults \in 0..MaxFaults
    /\ slips \subseteq SlipKinds

\* The lines are drawn; a claim may be left of an earlier process, its account lost
\* (an error in the marker's place, and the audit row of a refused order deleted).
Init ==
    /\ price = Opening
    /\ home = TRUE
    /\ \E at \in [Ids -> Levels], left \in SUBSET Ids :
          line = [l \in Ids |->
                    [status |-> IF l \in left THEN "pending_fire" ELSE "working",
                     trigger |-> at[l], arm |-> price, aged |-> l \in left]]
    /\ knows = [l \in Ids |-> {}]
    /\ audit = [l \in Ids |-> "none"]
    /\ bought = {} /\ unclear = {} /\ marked = {}
    /\ lease = [holder |-> Nobody, lapsed |-> TRUE]
    /\ obs = [i \in Instances |-> NoPrice]
    /\ newer = [i \in Instances |-> {}]
    /\ touched = [i \in Instances |-> {}]
    /\ job = [x \in Actors |-> Idle]
    /\ moves = 0 /\ faults = 0
    /\ slips = {}

Fault == faults < MaxFaults /\ faults' = faults + 1

SlipIf(kind, unsound) == slips' = IF unsound THEN slips \cup {kind} ELSE slips

Snapshot(l, from) ==
    [id |-> l, trigger |-> line[l].trigger, arm |-> line[l].arm, from |-> from]

\* chartOrderCrossed, from the side the line was armed on.
Crossed(s, last) ==
    IF s.arm > s.trigger THEN s.from >= s.trigger /\ last <= s.trigger
    ELSE s.from <= s.trigger /\ last >= s.trigger

\* A write to a row sets updatedAt, which an instance compares with its
\* observation, or with the one it is about to make.
Observing(i) == job[i].pc \in {"started", "read"}
Touch(l) ==
    /\ newer' = [i \in Instances |-> IF obs[i] = NoPrice THEN {} ELSE newer[i] \cup {l}]
    /\ touched' = [i \in Instances |-> IF Observing(i) THEN touched[i] \cup {l} ELSE {}]
Untouched == UNCHANGED <<newer, touched>>

Do(x, pc) == job' = [job EXCEPT ![x].pc = pc]
Rest(x) == job' = [job EXCEPT ![x] = Idle]

\* The check goes on with the first of the lines that are left, or ends.
Position(l) == CHOOSE n \in DOMAIN Lines : Lines[n] = l
FireNext(x, due) ==
    \/ due = {} /\ Rest(x)
    \/ \E s \in due :
          /\ \A t \in due : Position(s.id) <= Position(t.id)
          /\ job' = [job EXCEPT ![x] = [pc |-> "firing", at |-> s, todo |-> due \ {s},
                                        outcome |-> "none"]]
NextLine(x) == FireNext(x, job[x].todo)

-----------------------------------------------------------------------------
(* The watcher: lease, read, quote, crossing *)

\* holdLease, then the tick's `now'.
Tick(i) ==
    /\ job[i].pc = "idle"
    /\ lease.holder = i \/ lease.lapsed
    /\ lease' = [holder |-> i, lapsed |-> FALSE]
    /\ Do(i, "started")
    /\ touched' = [touched EXCEPT ![i] = {}]
    /\ UNCHANGED <<price, home, line, marked, knows, placeVars, obs, newer, moves,
                   faults, slips>>

\* Mutant: the crossing is tested from the last observation whenever there is one.
MutReference(i, l) == IF obs[i] = NoPrice THEN line[l].arm ELSE obs[i]

\* Where the crossing test of a line starts: its own arm price when there is no
\* observation or the row is newer.
Reference(i, l) == IF obs[i] = NoPrice \/ l \in newer[i] THEN line[l].arm ELSE obs[i]

\* armedOrders: the working lines, while the user is in their environment.
Read(i) ==
    LET armed == {l \in Ids : line[l].status = "working" /\ home} IN
    /\ job[i].pc = "started"
    /\ IF armed = {} THEN Rest(i) /\ touched' = [touched EXCEPT ![i] = {}]
       ELSE UNCHANGED touched /\ job' = [job EXCEPT ![i] =
               [pc |-> "read", at |-> Nobody, outcome |-> "none",
                todo |-> {Snapshot(l, Reference(i, l)) : l \in armed}]]
    /\ UNCHANGED <<price, home, line, marked, knows, placeVars, watchVars, newer, moves,
                   faults, slips>>

\* checkGroup with a quote: it becomes the observation, and what it crosses fires.
Quote(i) ==
    /\ job[i].pc = "read"
    /\ obs' = [obs EXCEPT ![i] = price]
    /\ newer' = [newer EXCEPT ![i] = touched[i]]
    /\ touched' = [touched EXCEPT ![i] = {}]
    /\ FireNext(i, {s \in job[i].todo : Crossed(s, price)})
    /\ UNCHANGED <<price, home, line, marked, knows, placeVars, lease, moves, faults,
                   slips>>

\* No quote: the check ends; a stale one forgets the observation too.
NoQuote(i, stale) ==
    /\ job[i].pc = "read"
    /\ Fault
    /\ obs' = [obs EXCEPT ![i] = IF stale THEN NoPrice ELSE @]
    /\ newer' = [newer EXCEPT ![i] = IF stale THEN {} ELSE @]
    /\ touched' = [touched EXCEPT ![i] = {}]
    /\ Rest(i)
    /\ UNCHANGED <<price, home, line, marked, knows, placeVars, lease, moves, slips>>

-----------------------------------------------------------------------------
(* Firing, by a watcher or by the client *)

Current(x) == job[x].at.id

\* claimForFireWithSiblings of a line without a group.  The scope read may fail,
\* as it does while the user is in the other mode: a claim lost, nothing written.
Claim(x, scoped) ==
    LET l == Current(x) IN
    /\ job[x].pc = "firing"
    /\ scoped \in IF home THEN {TRUE, ~LostClaims} ELSE {FALSE}
    /\ IF home /\ ~scoped THEN Fault ELSE UNCHANGED faults
    /\ IF scoped /\ line[l].status = "working"
         THEN /\ line' = [line EXCEPT ![l].status = "pending_fire"]
              /\ marked' = marked \cup {l}
              /\ knows' = [knows EXCEPT ![l] = {x}]
              /\ Touch(l)
              /\ Do(x, "gate")
         ELSE NextLine(x) /\ Untouched /\ UNCHANGED <<line, marked, knows>>
    /\ UNCHANGED <<price, home, placeVars, watchVars, moves, slips>>

\* The environment gate after the claim: another mode unclaims the line.
Gate(x) ==
    LET l == Current(x) IN
    /\ job[x].pc = "gate"
    /\ IF home THEN Do(x, "placing") /\ Untouched /\ UNCHANGED <<line, marked>>
       ELSE /\ line' = [line EXCEPT ![l].status = "working", ![l].aged = FALSE]
            /\ marked' = marked \ {l}
            /\ Touch(l)
            /\ NextLine(x)
    /\ UNCHANGED <<price, home, knows, placeVars, watchVars, moves, faults, slips>>

\* TradingService.place under the line's key.  A placed audit is replayed; of a
\* pending one the broker may show what became of it, or never (ORDER_RECOVERY_*).
\* An order may be refused before its audit row is there (always in another mode) or
\* after, when the row goes, though the order may be live.
Placed(l, outcome) ==
    \/ /\ outcome = "placed"
       /\ audit[l] = "placed" \/ (home /\ l \notin unclear)
       /\ audit' = [audit EXCEPT ![l] = "placed"]
       /\ bought' = bought \cup {l}
       /\ UNCHANGED <<unclear, slips>>
    \/ /\ outcome = "refused"
       /\ UNCHANGED <<placeVars, slips>>
    \/ /\ outcome = "refused" /\ home /\ audit[l] # "placed" /\ l \notin unclear
       /\ audit' = [audit EXCEPT ![l] = "none"]
       /\ bought' \in {bought, bought \cup {l}}
       /\ SlipIf("mistyped", l \in bought')
       /\ UNCHANGED unclear
    \/ /\ outcome = "uncertain" /\ home /\ audit[l] # "placed"
       /\ audit' = [audit EXCEPT ![l] = "pending"]
       /\ bought' \in {bought, bought \cup {l}}
       /\ unclear' \in {unclear, unclear \cup {l}}
       /\ UNCHANGED slips

Place(x, outcome) ==
    LET l == Current(x) IN
    /\ job[x].pc \in {"placing", "replaying"}
    /\ IF \/ outcome = "placed" \/ ~home
          \/ outcome = "uncertain" /\ l \in unclear
         THEN UNCHANGED faults ELSE Fault
    /\ Placed(l, outcome)
    /\ job' = [job EXCEPT ![x].outcome = outcome,
                          ![x].pc = IF @ = "placing" THEN "write" ELSE "replayed"]
    /\ UNCHANGED <<price, home, line, marked, knows, watchVars, newer, touched, moves>>

\* The outcome on the line: by its id, whatever the row holds by now; an uncertain
\* one leaves the claim for the recovery, with the error in the marker's place.
Settle(x, status) ==
    LET l == Current(x) IN
    /\ line' = [line EXCEPT ![l].status = status, ![l].aged = FALSE]
    /\ marked' = marked \ {l}
    /\ Touch(l)

Write(x) ==
    LET l == Current(x) IN
    /\ job[x].pc = "write"
    /\ \/ job[x].outcome = "placed" /\ Settle(x, "triggered")
       \/ job[x].outcome = "refused" /\ Settle(x, "failed")
       \/ /\ job[x].outcome = "uncertain"
          /\ UNCHANGED line
          /\ IF line[l].status = "pending_fire" THEN marked' = marked \ {l} /\ Touch(l)
             ELSE Untouched /\ UNCHANGED marked
    /\ NextLine(x)
    /\ UNCHANGED <<price, home, knows, placeVars, watchVars, moves, faults, slips>>

-----------------------------------------------------------------------------
(* Recovery of pending lines, at the head of a tick *)

\* The claim is older than PENDING_AUDIT_TTL_MS.  Mostly whoever had it is through
\* with it or gone; a worker held up beyond that time is overtaken by the recovery.
Working == {"gate", "placing", "write", "replaying", "replayed"}
AtWork(l) == \E x \in Actors : job[x].pc \in Working /\ Current(x) = l
Age(l) ==
    /\ line[l].status = "pending_fire" /\ ~line[l].aged
    /\ IF AtWork(l) THEN Fault ELSE UNCHANGED faults
    /\ line' = [line EXCEPT ![l].aged = TRUE]
    /\ SlipIf("outlived", AtWork(l))
    /\ UNCHANGED <<price, home, marked, knows, placeVars, watchVars, newer, touched, job,
                   moves>>

\* Mutant: only lines whose placement reached its audit are recovered.
MutRecoverable(l) == line[l].status = "pending_fire" /\ line[l].aged /\ audit[l] # "none"

\* The lines whose claim has outlived its time.
Recoverable(l) == line[l].status = "pending_fire" /\ line[l].aged

RecoverFind(i) ==
    /\ job[i].pc = "started"
    /\ \E l \in Ids :
          /\ Recoverable(l)
          /\ knows' = [knows EXCEPT ![l] = @ \cup {i}]
          /\ job' = [job EXCEPT ![i] = [pc |-> "found", at |-> Snapshot(l, NoPrice),
                                        todo |-> {}, outcome |-> "none"]]
    /\ touched' = [touched EXCEPT ![i] = {}]
    /\ UNCHANGED <<price, home, line, marked, placeVars, watchVars, newer, moves, faults,
                   slips>>

\* The row is pending under the triggeredAt the actor has read or written.
Knows(x, l) == line[l].status = "pending_fire" /\ x \in knows[l]

\* The account to ask is in the audit row, or in the marker while there is none.
ScopeKnown(l) == audit[l] # "none" \/ l \in marked

\* The claim is taken anew.  Without the account the recovery is paused: the line
\* stays pending, a note in the marker's place.
RecoverClaim(i) ==
    LET l == Current(i) IN
    /\ job[i].pc = "found"
    /\ IF Knows(i, l)
         THEN /\ line' = [line EXCEPT ![l].aged = FALSE]
              /\ knows' = [knows EXCEPT ![l] = {i}]
              /\ Touch(l)
              /\ IF ScopeKnown(l) THEN Do(i, "replaying") ELSE Rest(i)
         ELSE Rest(i) /\ Untouched /\ UNCHANGED <<line, knows>>
    /\ UNCHANGED <<price, home, marked, placeVars, watchVars, moves, faults, slips>>

\* Mutant: an error of the replay fails the line.
MutVerdict(i, l) == IF job[i].outcome = "placed" THEN "triggered" ELSE "failed"

\* What the line becomes: an order is the order's whatever the error, a line
\* without an audit has failed, a pending audit keeps the claim.
Verdict(i, l) ==
    CASE job[i].outcome = "placed" \/ audit[l] = "placed" -> "triggered"
      [] job[i].outcome # "placed" /\ audit[l] = "none" -> "failed"
      [] OTHER -> "pending_fire"

\* finishUngroupedFire and the catch of the replay, both under the lease.
RecoverWrite(i) ==
    LET l == Current(i)
        verdict == Verdict(i, l)
    IN  /\ job[i].pc = "replayed"
        /\ IF Knows(i, l)
             THEN /\ line' = [line EXCEPT ![l].status = verdict,
                                         ![l].aged = @ /\ verdict = "pending_fire"]
                  /\ marked' = marked \ {l}
                  /\ Touch(l)
             ELSE UNCHANGED <<line, marked>> /\ Untouched
        /\ Rest(i)
        /\ UNCHANGED <<price, home, knows, placeVars, watchVars, moves, faults, slips>>

-----------------------------------------------------------------------------
(* The client *)

\* triggerNow: the row as it is read, then a quote of its own.
Trigger(l) ==
    /\ job[Client].pc = "idle"
    /\ line[l].status = "working"
    /\ job' = [job EXCEPT ![Client] = [pc |-> "read", at |-> Snapshot(l, line[l].arm),
                                       todo |-> {}, outcome |-> "none"]]
    /\ UNCHANGED <<price, home, line, marked, knows, placeVars, watchVars, newer,
                   touched, moves, faults, slips>>

TriggerQuote ==
    LET s == job[Client].at IN
    /\ job[Client].pc = "read"
    /\ IF Crossed(s, price) THEN Do(Client, "firing") ELSE Rest(Client)
    /\ UNCHANGED <<price, home, line, marked, knows, placeVars, watchVars, newer,
                   touched, moves, faults, slips>>

\* Mutant: the line is armed at its new level.
MutArm(trigger) == trigger

\* armPriceFor: the live quote.
Arm(trigger) == price

\* update with a new trigger: the row as it is read, and a quote off the trigger.
Drag(l, trigger) ==
    /\ moves < MaxMoves /\ moves' = moves + 1
    /\ job[Client].pc = "idle"
    /\ line[l].status = "working"
    /\ trigger \in Prices \ {line[l].trigger, price}
    /\ job' = [job EXCEPT ![Client] =
                 [pc |-> "moving", todo |-> {}, outcome |-> "none",
                  at |-> [id |-> l, trigger |-> trigger, arm |-> Arm(trigger),
                          from |-> NoPrice]]]
    /\ UNCHANGED <<price, home, line, marked, knows, placeVars, watchVars, newer,
                   touched, faults, slips>>

\* Its write checks the status again.
Move ==
    LET s == job[Client].at IN
    /\ job[Client].pc = "moving"
    /\ IF line[s.id].status = "working"
         THEN /\ line' = [line EXCEPT ![s.id].trigger = s.trigger, ![s.id].arm = s.arm]
              /\ Touch(s.id)
         ELSE UNCHANGED line /\ Untouched
    /\ Rest(Client)
    /\ UNCHANGED <<price, home, marked, knows, placeVars, watchVars, moves, faults, slips>>

\* update of the size or the order type: updatedAt moves, the arm price stays.
Resize(l) ==
    /\ line[l].status = "working"
    /\ Touch(l)
    /\ UNCHANGED <<price, home, line, marked, knows, placeVars, watchVars, job, moves,
                   faults, slips>>

Cancel(l) ==
    /\ line[l].status = "working"
    /\ moves < MaxMoves /\ moves' = moves + 1
    /\ line' = [line EXCEPT ![l].status = "cancelled"]
    /\ Touch(l)
    /\ UNCHANGED <<price, home, marked, knows, placeVars, watchVars, job, faults, slips>>

\* Switched away between a watcher's read and its claim, a claim is lost.
SwitchMode ==
    /\ LostClaims \/ \A i \in Instances : job[i].pc \notin {"read", "firing"}
    /\ moves < MaxMoves /\ moves' = moves + 1
    /\ home' = ~home
    /\ UNCHANGED <<price, line, marked, knows, placeVars, watchVars, newer, touched, job,
                   faults, slips>>

-----------------------------------------------------------------------------
(* The environment *)

MovePrice(p) ==
    /\ price' = p /\ p # price
    /\ UNCHANGED <<home, line, marked, knows, placeVars, watchVars, newer, touched, job,
                   moves, faults, slips>>

\* The process of an instance or of the client's request dies; an instance comes
\* back with another lease id and no memory.
Crash(x) ==
    /\ Fault
    /\ job' = [job EXCEPT ![x] = Idle]
    /\ obs' = [i \in Instances |-> IF i = x THEN NoPrice ELSE obs[i]]
    /\ newer' = [i \in Instances |-> newer[i] \ (IF i = x THEN Ids ELSE {})]
    /\ touched' = [i \in Instances |-> touched[i] \ (IF i = x THEN Ids ELSE {})]
    /\ knows' = [l \in Ids |-> knows[l] \ {x}]
    /\ lease' = IF lease.holder = x THEN [lease EXCEPT !.holder = Nobody] ELSE lease
    /\ UNCHANGED <<price, home, line, marked, placeVars, moves, slips>>

\* A fire throws (the database fails): the request fails, or the rest of the
\* check is given up, its observation made.
Abort(x) ==
    /\ LostClaims \/ x = Client
    /\ job[x].pc = "firing"
    /\ Fault
    /\ Rest(x)
    /\ UNCHANGED <<price, home, line, marked, knows, placeVars, watchVars, newer,
                   touched, moves, slips>>

\* The lease runs out; a live holder renews it unless it is held up.
Lapse ==
    /\ ~lease.lapsed
    /\ IF lease.holder = Nobody THEN UNCHANGED faults ELSE Fault
    /\ lease' = [lease EXCEPT !.lapsed = TRUE]
    /\ UNCHANGED <<price, home, line, marked, knows, placeVars, obs, newer, touched, job,
                   moves, slips>>

Fire(x) ==
    \/ \E scoped \in BOOLEAN : Claim(x, scoped)
    \/ Gate(x)
    \/ \E outcome \in Outcomes : Place(x, outcome)
    \/ Write(x)
    \/ Abort(x)

Next ==
    \/ \E i \in Instances :
          \/ Tick(i) \/ Read(i) \/ Quote(i)
          \/ \E stale \in BOOLEAN : NoQuote(i, stale)
          \/ RecoverFind(i) \/ RecoverClaim(i) \/ RecoverWrite(i)
    \/ \E x \in Actors : Fire(x) \/ Crash(x)
    \/ \E l \in Ids :
          \/ Age(l)
          \/ Trigger(l)
          \/ \E trigger \in Prices : Drag(l, trigger)
          \/ Resize(l)
          \/ Cancel(l)
    \/ TriggerQuote \/ Move
    \/ SwitchMode
    \/ \E p \in Prices : MovePrice(p)
    \/ Lapse

Spec == Init /\ [][Next]_vars

\* The timer ticks, quotes and requests are answered, time passes; of the two
\* halves of a tick neither is for ever left out.
Fairness ==
    /\ \A i \in Instances :
          /\ WF_vars(Tick(i)) /\ SF_vars(Read(i)) /\ WF_vars(Quote(i))
          /\ SF_vars(RecoverFind(i)) /\ WF_vars(RecoverClaim(i)) /\ WF_vars(RecoverWrite(i))
    /\ \A x \in Actors :
          /\ WF_vars(\E scoped \in BOOLEAN : Claim(x, scoped))
          /\ WF_vars(Gate(x)) /\ WF_vars(\E outcome \in Outcomes : Place(x, outcome))
          /\ WF_vars(Write(x))
    /\ \A l \in Ids : WF_vars(Age(l))
    /\ WF_vars(TriggerQuote \/ Move)
    /\ WF_vars(Lapse /\ lease.holder = Nobody)

FairSpec == Spec /\ Fairness

-----------------------------------------------------------------------------
\* The price is at or past the line's trigger, seen from where it was armed.
Past(l) ==
    IF line[l].arm > line[l].trigger THEN price <= line[l].trigger
    ELSE price >= line[l].trigger

(* A line whose level the price has passed, and stays past, does not stay   *)
(* working: "a slow tick, a restart, or a failover cannot step over a level *)
(* unnoticed" (chart-order-watcher.service.ts:66-67), nor can a move, a     *)
(* resize, another mode for a while, a missing or a stale quote.            *)
NothingSteppedOver ==
    \A l \in Ids : ~<>[](line[l].status = "working" /\ Past(l) /\ home)

(* A fire whose outcome was lost with its process, or is unknown, ends once *)
(* the user is in the line's mode again, unless the recovery is paused for  *)
(* want of the account, or the broker never shows what became of the order: *)
(* both keep the reservation (chart-orders.service.ts:1203-1212, 1237-1243).*)
PendingSettles ==
    \A l \in Ids : ~<>[](/\ line[l].status = "pending_fire" /\ home
                        /\ ScopeKnown(l) /\ l \notin unclear)

(* What a line says of its order is so, until the first slip: a triggered   *)
(* line has one, and a working, cancelled or failed one has none, whoever   *)
(* fired or recovered it.                                                   *)
Truthful(l) ==
    /\ line[l].status = "triggered" => l \in bought
    /\ line[l].status \in {"working", "cancelled", "failed"} => l \notin bought
LineTellsTheTruth == slips = {} => \A l \in Ids : Truthful(l)

-----------------------------------------------------------------------------
(* Why lines tell the truth until the first slip (ChartLines_proofs).      *)

\* Who works on a line has its claim, by the only known triggeredAt; so has one
\* who found it stale and has not been overtaken, while nobody works on it.
ClaimHeld(x) ==
    LET l == Current(x) IN
    /\ job[x].pc \in Working =>
         line[l].status = "pending_fire" /\ ~line[l].aged /\ knows[l] = {x}
    /\ job[x].pc = "found" /\ x \in knows[l] => line[l].aged

\* A fire comes to a line without an order; what it reports became of it.
OutcomeTrue(x) ==
    LET l == Current(x) IN
    /\ job[x].pc \in {"gate", "placing"} => l \notin bought
    /\ job[x].pc = "write" /\ job[x].outcome = "refused" => l \notin bought
    /\ job[x].pc \in {"write", "replayed"} /\ job[x].outcome = "placed" => l \in bought

\* An audit row is there for every order, and placed only with one.
AuditTrue(l) ==
    /\ l \in bought => audit[l] # "none"
    /\ audit[l] = "placed" => l \in bought

Sound ==
    /\ \A x \in Actors : ClaimHeld(x) /\ OutcomeTrue(x)
    /\ \A l \in Ids : AuditTrue(l) /\ Truthful(l)

LinesInv == TypeOK /\ (slips = {} => Sound)

=============================================================================
