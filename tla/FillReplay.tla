----------------------------- MODULE FillReplay -----------------------------
(***************************************************************************)
(* The position book behind the trade history and the entry lines          *)
(* (apps/api/src/trading/orders.service.ts): what OrdersService.record     *)
(* writes of each order's cumulative fills, and the replay that turns      *)
(* those rows into executions in market order and into an average-cost     *)
(* book.  OrderRecord has the identity of an order; here the rows exist,   *)
(* and there are several orders for one contract, filled bit by bit, whose *)
(* reports arrive late, twice, malformed, in any order, or not at all.     *)
(*                                                                         *)
(* Prices are multiplied by Scale, which the sizes of the orders divide:   *)
(* every average is exact.  The price of the underlying, and rows written  *)
(* in the two older shapes, are left out.                                  *)
(***************************************************************************)
EXTENDS Integers, Sequences, FiniteSets, FiniteSetsExt, Functions

CONSTANTS
    Orders,      \* orders for one contract, in the order they were placed
    Side,        \* 1 for a buy, -1 for a sell
    Size,        \* contracts ordered
    Price,       \* the price of an order's k-th contract
    Scale,       \* what prices are multiplied by
    Reporters,   \* calls of record that may be under way at once
    Null

ASSUME ReplayAssumption ==
    /\ Orders \subseteq Nat /\ IsFiniteSet(Orders)
    /\ Null \notin Int
    /\ Side \in [Orders -> {1, -1}]
    /\ Size \in [Orders -> Nat \ {0}]
    /\ Scale \in Nat \ {0} /\ \A o \in Orders : \A d \in 1..Size[o] : Scale % d = 0
    /\ \A o \in Orders : \A k \in 1..Size[o] : Price[o][k] \in Nat \ {0}

VARIABLES
    fills,       \* the market: <<order, contract>> in the order they executed
    closed,      \* orders cancelled at the broker
    stamps,      \* the broker reports execution times (Webull reports none)
    row,         \* TradeOrder: watermark, fill state, status
    seen,        \* TradeOrderExecution: per order and cumulative, or Null
    call         \* per reporter, the report it records and where it is

vars == <<fills, closed, stamps, row, seen, call>>

-----------------------------------------------------------------------------
(* The market and the broker's reports.  A contract's time is its place in *)
(* fills; the clock is the number of executions so far.                    *)

Now == Len(fills)
Executed(o) == Cardinality({i \in 1..Now : fills[i][1] = o})
ExecutedAt(o, k) == CHOOSE i \in 1..Now : fills[i] = <<o, k>>
Notional(o, q) == Scale * FoldFunction(+, 0, [k \in 1..q |-> Price[o][k]])
Average(o, q) == Notional(o, q) \div q

Long == FoldFunction(+, 0, [o \in Orders |-> Side[o] * Executed(o)])

\* Nobody sells what the account does not hold: closes are capped to the position.
Execute(o) ==
    /\ o \notin closed
    /\ Executed(o) < Size[o]
    /\ Long + Side[o] >= 0
    /\ fills' = Append(fills, <<o, Executed(o) + 1>>)
    /\ UNCHANGED <<closed, stamps, row, seen, call>>

CancelRest(o) ==
    /\ Executed(o) < Size[o]
    /\ closed' = closed \cup {o}
    /\ UNCHANGED <<fills, stamps, row, seen, call>>

Faults == {"none", "price", "overfill"}

\* The status of an order with q contracts filled.
StatusAt(o, q) ==
    IF q = Size[o] THEN "filled"
    ELSE IF o \in closed /\ q = Executed(o) THEN "cancelled"
    ELSE "partially_filled"

\* What the broker says of it; an order filled whole need not name the quantity.
Snapshot(o, q, named, fault) ==
    [order |-> o, status |-> StatusAt(o, q), quantity |-> Size[o],
     filledQuantity |-> IF fault = "overfill" THEN Size[o] + 1
                        ELSE IF named THEN q ELSE Null,
     filledPrice |-> IF fault = "price" THEN 0 ELSE Average(o, q),
     filledAt |-> IF stamps THEN ExecutedAt(o, q) ELSE Null]

-----------------------------------------------------------------------------
(* record, for a row that exists: one action per statement                 *)

\* Mutant: an overfill is taken for a fill.
MutRejected(rep) == FALSE

\* quantityRejection
Rejected(rep) == rep.filledQuantity # Null /\ rep.filledQuantity > rep.quantity

Filled(quantity, filledQuantity) == IF filledQuantity = Null THEN quantity ELSE filledQuantity

IsFillEvent(rep) ==
    /\ rep.filledPrice > 0
    /\ Filled(rep.quantity, rep.filledQuantity) > 0
    /\ \/ rep.status \in {"filled", "partially_filled"}
       \/ rep.status = "cancelled" /\ rep.filledQuantity # Null

CumulativeOf(rep) == IF IsFillEvent(rep) THEN Filled(rep.quantity, rep.filledQuantity) ELSE 0

Idle == [at |-> "idle", report |-> Null, executedAt |-> 0]

\* The status statement's predicate: terminals only give way to `filled'.
Overrides(new, old) ==
    \/ new \in {"partially_filled", "cancelled"} /\ old \in {"submitted", "partially_filled"}
    \/ new = "filled"

\* fillTimeOf: the broker's time, or this moment's.
FillTime(rep) == IF rep.filledAt = Null THEN Now ELSE rep.filledAt

\* The order's earliest execution moves backwards, never forwards.
Stamped(w, rep) ==
    [w EXCEPT !.status = IF Overrides(rep.status, @) THEN rep.status ELSE @,
              !.filledAt = IF IsFillEvent(rep) /\ (@ = Null \/ @ > FillTime(rep))
                             THEN FillTime(rep) ELSE @]

\* A report of any earlier moment arrives, for the first time, again, or in a
\* retry.  Its status and its earliest-fill stamp are one step here: no reader of
\* fills tells them apart.
Report(r, o, q, named, fault) ==
    LET rep == Snapshot(o, q, named, fault) IN
    /\ call[r] = Idle
    /\ q \in 1..Executed(o)
    /\ named \/ (q = Size[o] /\ fault = "none")
    /\ row' = IF Rejected(rep) THEN row ELSE [row EXCEPT ![o] = Stamped(@, rep)]
    /\ call' = IF Rejected(rep) \/ ~IsFillEvent(rep) THEN call
               ELSE [call EXCEPT ![r] = [at |-> "advance", report |-> rep,
                                         executedAt |-> FillTime(rep)]]
    /\ UNCHANGED <<fills, closed, stamps, seen>>

\* Mutant: the fill state follows the latest report, not the largest.
MutAdvanced(w, rep) ==
    [w EXCEPT !.executedQuantity = IF CumulativeOf(rep) > @ THEN CumulativeOf(rep) ELSE @,
              !.filledQuantity = rep.filledQuantity, !.filledPrice = rep.filledPrice]

\* recordFillProgress: watermark and fill state move in one guarded statement.
Advanced(w, rep) ==
    IF w.executedQuantity < CumulativeOf(rep)
      THEN [w EXCEPT !.executedQuantity = CumulativeOf(rep),
                     !.filledQuantity = rep.filledQuantity, !.filledPrice = rep.filledPrice]
      ELSE w

Advance(r) ==
    LET rep == call[r].report IN
    /\ call[r].at = "advance"
    /\ row' = [row EXCEPT ![rep.order] = Advanced(@, rep)]
    /\ call' = [call EXCEPT ![r].at = "observe"]
    /\ UNCHANGED <<fills, closed, stamps, seen>>

\* Mutant: a redelivered cumulative replaces its observation.
MutKept(old, new) == new

\* The first observation of a cumulative stays (the unique index on it).
Kept(old, new) == IF old = Null THEN new ELSE old

\* The observation is recorded whatever the watermark says.
Observe(r) ==
    LET rep == call[r].report IN
    /\ call[r].at = "observe"
    /\ seen' = [seen EXCEPT ![rep.order][CumulativeOf(rep)] =
                  Kept(@, [avgPrice |-> rep.filledPrice, time |-> call[r].executedAt])]
    /\ call' = [call EXCEPT ![r] = Idle]
    /\ UNCHANGED <<fills, closed, stamps, row>>

\* A statement fails or the process dies: what is written stays.  A retry is the
\* report's next arrival.
Fail(r) ==
    /\ call[r] # Idle
    /\ call' = [call EXCEPT ![r] = Idle]
    /\ UNCHANGED <<fills, closed, stamps, row, seen>>

-----------------------------------------------------------------------------
(* The replay: fillCurveFor and fillEventsFor                              *)

IsFill(w) ==
    /\ w.filledPrice # Null
    /\ Filled(w.quantity, w.filledQuantity) > 0
    /\ \/ w.status \in {"filled", "partially_filled"}
       \/ w.status = "cancelled" /\ w.filledQuantity # Null

Larger(m, n) == IF m > n THEN m ELSE n
Smaller(m, n) == IF m < n THEN m ELSE n

\* The quantity the row itself vouches for.
Authority(o) ==
    Larger(row[o].executedQuantity,
           IF IsFill(row[o]) THEN Filled(row[o].quantity, row[o].filledQuantity) ELSE 0)

\* The recorded points of an order's cumulative fill curve.
Points(o) == {q \in 1..Size[o] : seen[o][q] # Null}
Before(o, q) == Max({0} \cup {p \in Points(o) : p < q})

IncrementPrice(o, q) ==
    LET p == Before(o, q)
        derived == (q * seen[o][q].avgPrice - (IF p = 0 THEN 0 ELSE p * seen[o][p].avgPrice))
                   \div (q - p)
    IN  IF p > 0 /\ derived <= 0 THEN seen[o][q].avgPrice ELSE derived

\* Mutant: every increment stays at the time of its own observation.
MutVouchedAt(o, q) == seen[o][q].time

\* The earliest time an observation vouched for the first q contracts.
VouchedAt(o, q) == Min({seen[o][p].time : p \in {p \in Points(o) : p >= q}})

\* Each increment, clamped to the authority.
Take(o, q) == Smaller(q, Authority(o)) - Smaller(Before(o, q), Authority(o))

Increments(o) ==
    {[time |-> VouchedAt(o, q), order |-> o, cumulative |-> q, quantity |-> Take(o, q),
      price |-> IncrementPrice(o, q)] : q \in {p \in Points(o) : Take(o, p) > 0}}

\* The contracts of a set of executions, and what they cost.
QuantityOf(E) == FoldFunction(+, 0, [e \in E |-> e.quantity])
CostOf(E) == FoldFunction(+, 0, [e \in E |-> e.quantity * e.price])

Covered(o) == QuantityOf(Increments(o))

\* The price at which the book's average comes out at the broker's.
Residual(o) ==
    LET price == (Authority(o) * row[o].filledPrice - CostOf(Increments(o)))
                   \div (Authority(o) - Covered(o))
    IN  IF price > 0 THEN price ELSE row[o].filledPrice

Remainder(o) ==
    IF Authority(o) > Covered(o) /\ row[o].filledPrice # Null
      THEN {[time |-> IF row[o].filledAt = Null THEN 0 ELSE row[o].filledAt, order |-> o,
             cumulative |-> Authority(o), quantity |-> Authority(o) - Covered(o),
             price |-> Residual(o)]}
      ELSE {}

\* Market order, then placement order, then the order's own.
Earlier(e, f) ==
    \/ e.time < f.time
    \/ e.time = f.time /\ e.order < f.order
    \/ e.time = f.time /\ e.order = f.order /\ e.cumulative < f.cumulative

InOrder(E) ==
    [i \in 1..Cardinality(E) |-> CHOOSE e \in E : Cardinality({f \in E : Earlier(f, e)}) = i - 1]

FillEvents == InOrder(UNION {Increments(o) \cup Remainder(o) : o \in Orders})

-----------------------------------------------------------------------------
(* applyExecution: the average-cost book                                   *)

Sign(n) == IF n > 0 THEN 1 ELSE IF n < 0 THEN -1 ELSE 0
Abs(n) == IF n < 0 THEN -n ELSE n

NoPosition == [quantity |-> 0, avgPrice |-> 0, openedAt |-> Null, realized |-> 0]

\* Mutant: a position flipped through zero keeps its old average.
MutReduced(p, signed, e) ==
    LET left == p.quantity + signed
        closing == Smaller(e.quantity, Abs(p.quantity))
    IN  [quantity |-> left, avgPrice |-> IF left = 0 THEN 0 ELSE p.avgPrice,
         openedAt |-> IF left = 0 THEN Null ELSE p.openedAt,
         realized |-> p.realized + (e.price - p.avgPrice) * closing * Sign(p.quantity)]

\* Reducing, closing, or flipping through zero: the rest is a new position.
Reduced(p, signed, e) ==
    LET left == p.quantity + signed
        closing == Smaller(e.quantity, Abs(p.quantity))
        kept == Sign(left) = Sign(p.quantity)
    IN  [quantity |-> left,
         avgPrice |-> IF left = 0 THEN 0 ELSE IF kept THEN p.avgPrice ELSE e.price,
         openedAt |-> IF left = 0 THEN Null ELSE IF kept THEN p.openedAt ELSE e.time,
         realized |-> p.realized + (e.price - p.avgPrice) * closing * Sign(p.quantity)]

\* Opening or adding: the average cost is blended.
Added(p, signed, e) ==
    [p EXCEPT !.quantity = @ + signed,
              !.avgPrice = (@ * Abs(p.quantity) + e.price * e.quantity)
                           \div (Abs(p.quantity) + e.quantity),
              !.openedAt = IF p.quantity = 0 THEN e.time ELSE @]

ApplyExecution(p, e) ==
    LET signed == Side[e.order] * e.quantity IN
    IF p.quantity = 0 \/ Sign(p.quantity) = Sign(signed)
      THEN Added(p, signed, e) ELSE Reduced(p, signed, e)

\* The book after the events, one at a time (p names the book before the last of them).
BookAfter(events) ==
    LET after[n \in 0..Len(events)] ==
          IF n = 0 THEN NoPosition
          ELSE CHOOSE book \in {ApplyExecution(p, events[n]) : p \in {after[n - 1]}} : TRUE
    IN  after[Len(events)]

Book == BookAfter(FillEvents)

-----------------------------------------------------------------------------
NoFills(o) == [executedQuantity |-> 0, quantity |-> Size[o], filledQuantity |-> Null,
               filledPrice |-> Null, filledAt |-> Null, status |-> "submitted"]

Init ==
    /\ fills = << >>
    /\ closed = {}
    /\ stamps \in BOOLEAN
    /\ row = [o \in Orders |-> NoFills(o)]
    /\ seen = [o \in Orders |-> [q \in 1..Size[o] |-> Null]]
    /\ call = [r \in Reporters |-> Idle]

Record(r) == Advance(r) \/ Observe(r) \/ Fail(r)

Next ==
    \/ \E o \in Orders : Execute(o) \/ CancelRest(o)
    \/ \E r \in Reporters, o \in Orders : \E q \in 1..Size[o], named \in BOOLEAN, f \in Faults :
         Report(r, o, q, named, f)
    \/ \E r \in Reporters : Record(r)

Spec == Init /\ [][Next]_vars

-----------------------------------------------------------------------------
OrderRow == [executedQuantity : Nat, quantity : Nat, filledQuantity : Nat \cup {Null},
             filledPrice : Nat \cup {Null}, filledAt : Nat \cup {Null},
             status : {"submitted", "partially_filled", "cancelled", "filled"}]
Observation == [avgPrice : Nat, time : Nat]
BrokerReport == [order : Orders, status : {"partially_filled", "cancelled", "filled"},
                 quantity : Nat, filledQuantity : Nat \cup {Null}, filledPrice : Nat,
                 filledAt : Nat \cup {Null}]
Call == [at : {"idle", "advance", "observe"}, report : BrokerReport \cup {Null},
         executedAt : Nat]

TypeOK ==
    /\ fills \in Seq(Orders \X Nat)
    /\ closed \subseteq Orders
    /\ stamps \in BOOLEAN
    /\ row \in [Orders -> OrderRow]
    /\ seen = [o \in Orders |-> seen[o]]
    /\ \A o \in Orders :
         /\ row[o].executedQuantity <= Size[o]
         /\ row[o].filledAt \in 1..Now \cup {Null}
         /\ seen[o] \in [1..Size[o] -> Observation \cup {Null}]
         /\ \A q \in Points(o) : seen[o][q].time \in 1..Now
    /\ call \in [Reporters -> Call]

(* Whatever was reported twice, late, malformed or not at all, and between  *)
(* whichever statements a reader looks, the replay books of each order what *)
(* its watermark says, at what the market paid for exactly those contracts. *)
ReplayedInFull ==
    \A o \in Orders :
      LET w == row[o].executedQuantity
          mine == Increments(o) \cup Remainder(o)
      IN  /\ w <= Executed(o)
          /\ QuantityOf(mine) = w
          /\ CostOf(mine) = Notional(o, w)

(* A late partial pushes no contract past a close that came after the       *)
(* report that vouched for it (fillEventsFor), and no contract that was     *)
(* observed is booked before it executed.                                   *)
PlacedWhenReported ==
    \A o \in Orders :
      /\ \A q \in Points(o) :
           QuantityOf({e \in Increments(o) \cup Remainder(o) : e.time <= seen[o][q].time}) >= q
      /\ \A e \in Increments(o) : e.time >= ExecutedAt(o, e.cumulative)

(* The realized profit is the cash of the recorded executions plus the cost *)
(* of what is still open, in whatever order fills and flips were replayed.  *)
BookAddsUp ==
    LET book == Book
        sum(f) == FoldFunction(+, 0, f)
    IN  /\ book.quantity = sum([o \in Orders |-> Side[o] * row[o].executedQuantity])
        /\ book.realized = book.quantity * book.avgPrice
             - sum([o \in Orders |-> Side[o] * Notional(o, row[o].executedQuantity)])

\* The book averages once for each execution, so for exact averages of averages Scale
\* must divide again and again, by any number of contracts.
FineEnough ==
    LET contracts == FoldFunction(+, 0, Size)
        parts == {g \in 1..Scale : Scale % g = 0}
    IN  \E grain \in [0..contracts -> parts] :
          /\ grain[0] = Scale
          /\ \A n, d \in 1..contracts : grain[n - 1] % (d * grain[n]) = 0

\* Every contract that executed has been recorded and observed.
Settled == \A o \in Orders : \A q \in 1..Executed(o) : seen[o][q] # Null

(* Once every contract is observed, redeliveries, late partials, retries    *)
(* and junk change no average, no opening time and no profit in the book.   *)
SettledHistoryStands ==
    [][<<row, seen>>' # <<row, seen>> /\ Settled /\ fills' = fills => Book' = Book]_vars

-----------------------------------------------------------------------------
(* Why (FillReplay_proofs).                                                *)

\* The market executes each contract once, and those of an order one after the other.
MarketSound ==
    /\ \A o \in Orders :
         /\ Executed(o) \in 0..Size[o]
         /\ \A i \in 1..Now : fills[i][1] = o => fills[i][2] \in 1..Executed(o)
         /\ \A k \in 1..Executed(o) : \E i \in 1..Now : fills[i] = <<o, k>>
    /\ \A i, j \in 1..Now : i < j /\ fills[i][1] = fills[j][1] => fills[i][2] < fills[j][2]

\* A report's fill: of the first q contracts, at what the market paid for them.
Tells(o, q, filledQuantity, filledPrice) ==
    /\ filledPrice = Average(o, q)
    /\ filledQuantity = q \/ (filledQuantity = Null /\ q = Size[o])

\* A row tells of as many contracts as its watermark has.
RowSound(o) ==
    LET w == row[o] IN
    /\ w.executedQuantity <= Executed(o)
    /\ w.quantity = Size[o]
    /\ IF w.executedQuantity = 0 THEN w.filledPrice = Null
       ELSE Tells(o, w.executedQuantity, w.filledQuantity, w.filledPrice)

\* An observation is below the watermark and later than what it observes.
SeenSound(o) ==
    \A q \in Points(o) :
       /\ q <= row[o].executedQuantity
       /\ seen[o][q].avgPrice = Average(o, q)
       /\ seen[o][q].time \in ExecutedAt(o, q)..Now

\* What a reporter is recording, and how far it is.
CallSound(c) ==
    LET o == c.report.order
        q == CumulativeOf(c.report)
    IN  c # Idle =>
          /\ c.at \in {"advance", "observe"}
          /\ c.report \in BrokerReport /\ q \in 1..Executed(o)
          /\ Tells(o, q, c.report.filledQuantity, c.report.filledPrice)
          /\ c.executedAt \in ExecutedAt(o, q)..Now
          /\ c.at = "observe" => q <= row[o].executedQuantity

ReplayInv ==
    /\ TypeOK /\ MarketSound
    /\ \A o \in Orders : RowSound(o) /\ SeenSound(o)
    /\ \A r \in Reporters : CallSound(call[r])
=============================================================================
