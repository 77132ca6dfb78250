------------------------ MODULE OrderRecord_proofs ------------------------
(***************************************************************************)
(* Proofs about OrderRecord, for any recorders and any reports.            *)
(***************************************************************************)
EXTENDS OrderRecord, FiniteSetTheorems, TLAPS

-----------------------------------------------------------------------------
(* Typing.                                                                 *)

\* What the operators on rows and glimpses return.
LEMMA Typed ==
  ASSUME TypeOK
  PROVE  /\ Gone \in OrderRow /\ NotThere \in Glimpses
         /\ \A r \in Recorders : report[r] \in Report /\ report[r].names \in SUBSET Aliases
         /\ \A a \in Aliases : Holder(a) \in Live \cup {Nothing}
         /\ \A i \in Recorders \cup {Nothing} : Glimpse(i) \in Glimpses
         /\ \A i, j \in Recorders, n \in SUBSET Aliases : Merged(i, j, n) \in OrderRow
         /\ Live \subseteq Recorders
<1>1. Gone \in OrderRow /\ NotThere \in Glimpses
  BY DEF Gone, OrderRow, Glimpses, Statuses
<1>2. ASSUME NEW r \in Recorders PROVE report[r] \in Report /\ report[r].names \in SUBSET Aliases
  <2>1. report[r] \in Report
    BY RecordAssumption DEF TypeOK
  <2> QED
    BY <2>1 DEF Report
<1>3. \A a \in Aliases : Holder(a) \in Live \cup {Nothing}
  BY DEF Holder
<1>4. Live \subseteq Recorders
  BY DEF Live
<1>5. ASSUME NEW i \in Recorders \cup {Nothing} PROVE Glimpse(i) \in Glimpses
  <2>1. CASE i = Nothing
    BY <1>1, <2>1 DEF Glimpse
  <2>2. CASE i # Nothing
    <3>1. rows[i] \in OrderRow /\ i \in Recorders
      BY <2>2 DEF TypeOK
    <3> QED
      BY <2>2, <3>1 DEF Glimpse, Glimpses, OrderRow
  <2> QED
    BY <2>1, <2>2
<1>6. ASSUME NEW i \in Recorders, NEW j \in Recorders, NEW n \in SUBSET Aliases
      PROVE  Merged(i, j, n) \in OrderRow
  <2>1. rows[i] \in OrderRow /\ rows[j] \in OrderRow
    BY DEF TypeOK
  <2> QED
    BY <2>1 DEF Merged, OrderRow
<1> QED
  BY <1>1, <1>2, <1>3, <1>4, <1>5, <1>6

\* What a recorder changes of its own variables when convergedIdentityRow comes to
\* a row, or when the call is left.
LEMMA SettleTyped ==
  ASSUME TypeOK, NEW r \in Recorders, NEW g \in Glimpses, Settle(r, g)
  PROVE  /\ pc' \in [Recorders -> Phases]
         /\ found' \in [Recorders -> [Aliases -> Glimpses \cup {Unread}]]
         /\ row' \in [Recorders -> Glimpses] /\ round' \in [Recorders -> 1..2]
<1>1. row' \in [Recorders -> Glimpses]
  BY DEF TypeOK, Settle, Point
<1>2. found' \in [Recorders -> [Aliases -> Glimpses \cup {Unread}]]
  BY DEF TypeOK, Settle, Forget
<1>3. round' = round \/ (round[r] = 1 /\ round' = [round EXCEPT ![r] = 2])
  BY DEF Settle
<1>4. \E p \in Phases : pc' = [pc EXCEPT ![r] = p]
  BY DEF Settle, Goto, Phases
<1> QED
  BY <1>1, <1>2, <1>3, <1>4 DEF TypeOK

\* The same when the call is left.
LEMMA LeaveTyped ==
  ASSUME TypeOK, NEW r \in Recorders, NEW phase \in Phases, Leave(r, phase)
  PROVE  /\ pc' \in [Recorders -> Phases]
         /\ found' \in [Recorders -> [Aliases -> Glimpses \cup {Unread}]]
         /\ row' \in [Recorders -> Glimpses] /\ round' \in [Recorders -> 1..2]
BY Typed DEF TypeOK, Leave, Point, Forget, Goto

\* The same when a statement fails, which writes nothing.
LEMMA ThrowTyped == ASSUME TypeOK, NEW r \in Recorders, Throw(r) PROVE TypeOK'
<1>1. Leave(r, "failed") \/ Leave(r, "look")
  BY DEF Throw
<1>2. "failed" \in Phases /\ "look" \in Phases
  BY DEF Phases
<1>3. /\ pc' \in [Recorders -> Phases]
      /\ found' \in [Recorders -> [Aliases -> Glimpses \cup {Unread}]]
      /\ row' \in [Recorders -> Glimpses] /\ round' \in [Recorders -> 1..2]
  BY <1>1, <1>2, LeaveTyped
<1> QED
  BY <1>3 DEF Throw, TypeOK

\* Recorders start typed.
LEMMA InitType == Init => TypeOK
<1> SUFFICES ASSUME Init PROVE TypeOK
  OBVIOUS
<1>1. Gone \in OrderRow /\ NotThere \in Glimpses
  BY DEF Gone, OrderRow, Glimpses, Statuses
<1> QED
  BY <1>1 DEF Init, TypeOK, Phases

\* Every action keeps the types.
LEMMA TypeStep == TypeOK /\ [Next]_vars => TypeOK'
<1> SUFFICES ASSUME TypeOK, [Next]_vars PROVE TypeOK'
  OBVIOUS
<1>t. /\ \A r \in Recorders : report[r] \in Report /\ report[r].names \in SUBSET Aliases
      /\ \A a \in Aliases : Holder(a) \in Recorders \cup {Nothing}
      /\ \A i \in Recorders \cup {Nothing} : Glimpse(i) \in Glimpses
      /\ Live \subseteq Recorders
  BY Typed
<1>fun. /\ rows \in [Recorders -> OrderRow] /\ audit \in {"open", "done", "failed"}
        /\ pc \in [Recorders -> Phases]
        /\ report \in [Recorders -> Reports \cup {StampReport}]
        /\ found \in [Recorders -> [Aliases -> Glimpses \cup {Unread}]]
        /\ row \in [Recorders -> Glimpses] /\ round \in [Recorders -> 1..2]
  BY DEF TypeOK
<1>1. ASSUME NEW r \in Recorders, Start(r) \/ Skip(r) PROVE TypeOK'
  BY <1>1, <1>fun DEF Start, Skip, Goto, Phases, TypeOK
<1>2. CASE WriteAudit
  BY <1>2, <1>fun DEF WriteAudit, TypeOK
<1>3. ASSUME NEW r \in Recorders, NEW a \in Aliases, Look(r, a) PROVE TypeOK'
  BY <1>3, <1>t, <1>fun DEF Look, TypeOK
<1>4. ASSUME NEW r \in Recorders, NEW g \in Glimpses, Compare(r, g),
             UNCHANGED <<rows, audit, report>>
      PROVE  TypeOK'
  <2>1. CASE Settle(r, g)
    BY <1>4, <1>fun, <2>1, SettleTyped DEF TypeOK
  <2>2. CASE ~Settle(r, g)
    <3>1. Goto(r, "match") /\ Point(r, g) /\ Forget(r) /\ UNCHANGED round
      BY <1>4, <2>2 DEF Compare
    <3>2. row' \in [Recorders -> Glimpses]
      BY <3>1, <1>fun DEF Point
    <3>3. found' \in [Recorders -> [Aliases -> Glimpses \cup {Unread}]]
      BY <3>1, <1>fun DEF Forget
    <3>4. pc' \in [Recorders -> Phases]
      BY <3>1, <1>fun DEF Goto, Phases
    <3> QED
      BY <1>4, <1>fun, <3>1, <3>2, <3>3, <3>4 DEF TypeOK
  <2> QED
    BY <2>1, <2>2
<1>5. ASSUME NEW r \in Recorders, MergeSplit(r) PROVE TypeOK'
  <2> DEFINE left == Pair(r) \cap Live
  <2>1. CASE left = {}
    BY <1>5, <2>1, ThrowTyped DEF MergeSplit
  <2>2. ASSUME NEW last \in left, Settle(r, Glimpse(last)), UNCHANGED rows PROVE TypeOK'
    BY <1>5, <1>t, <1>fun, <2>1, <2>2, SettleTyped, ThrowTyped DEF MergeSplit, TypeOK
  <2>3. ASSUME NEW keep \in left, NEW drop \in left \ {keep},
               rows' = [rows EXCEPT ![keep] = Merged(keep, drop, report[r].names), ![drop] = Gone],
               Settle(r, [id |-> keep, names |-> Merged(keep, drop, report[r].names).names]),
               UNCHANGED <<audit, report>>
        PROVE  TypeOK'
    <3>1. Merged(keep, drop, report[r].names) \in OrderRow /\ Gone \in OrderRow
      BY <1>t, Typed
    <3>2. rows' \in [Recorders -> OrderRow]
      BY <2>3, <3>1, <1>t, <1>fun
    <3>3. [id |-> keep, names |-> Merged(keep, drop, report[r].names).names] \in Glimpses
      BY <3>1, <1>t DEF OrderRow, Glimpses
    <3> QED
      BY <2>3, <3>2, <3>3, <1>fun, SettleTyped DEF TypeOK
  <2> QED
    BY <1>5, <2>1, <2>2, <2>3 DEF MergeSplit
<1>6. ASSUME NEW r \in Recorders, Pick(r) PROVE TypeOK'
  <2>1. \A a \in Aliases : found[r][a].id # Nothing => found[r][a] \in Glimpses
    BY <1>fun DEF Unread
  <2> DEFINE g == LET hits == {a \in report[r].names : found[r][a].id # Nothing} IN
                  IF "broker" \in hits THEN found[r]["broker"]
                  ELSE IF "client" \in hits THEN found[r]["client"] ELSE row[r]
  <2>2. g \in Glimpses
    BY <1>t, <1>fun, <2>1 DEF Aliases
  <2>3. Compare(r, g) /\ UNCHANGED <<rows, audit, report>>
    BY <1>6 DEF Pick
  <2> QED
    BY <1>4, <2>2, <2>3
<1>7. ASSUME NEW r \in Recorders, Match(r) PROVE TypeOK'
  <2>1. Candidates(r) \subseteq Recorders
    BY <1>t DEF Candidates
  <2>2. ASSUME NEW g \in Glimpses, Settle(r, g) PROVE TypeOK'
    BY <1>7, <2>2, <1>fun, SettleTyped DEF Match, TypeOK
  <2>3. ASSUME NEW o \in Candidates(r), NEW a \in Aliases, Goto(r, "join"),
               found' = [found EXCEPT ![r][a] = Glimpse(o)], UNCHANGED <<row, round>>
        PROVE  TypeOK'
    BY <1>7, <2>1, <2>3, <1>t, <1>fun DEF Match, Goto, Phases, TypeOK
  <2> QED
    BY <1>7, <1>t, <1>fun, <2>1, <2>2, <2>3 DEF Match
<1>8. ASSUME NEW r \in Recorders, Attach(r) PROVE TypeOK'
  <2> DEFINE i == row[r].id
             new == report[r].names \ row[r].names
             free == i \in Live /\ \A a \in new : Holder(a) \in {i, Nothing}
  <2>1. CASE ~free
    BY <1>8, <2>1, ThrowTyped DEF Attach
  <2>2. CASE free
    <3>1. /\ rows' = [rows EXCEPT ![i].names = @ \cup new] /\ UNCHANGED <<audit, report>>
          /\ Settle(r, [id |-> i, names |-> row[r].names \cup new])
      BY <1>8, <2>2 DEF Attach
    <3>2. i \in Recorders /\ rows[i] \in OrderRow /\ new \subseteq Aliases
      BY <2>2, <1>t, <1>fun
    <3>3. [id |-> i, names |-> row[r].names \cup new] \in Glimpses
      BY <3>2, <1>fun, RecordAssumption DEF Glimpses, NotThere
    <3>4. [rows[i] EXCEPT !.names = @ \cup new] \in OrderRow
      BY <3>2 DEF OrderRow
    <3>5. rows' \in [Recorders -> OrderRow]
      BY <3>1, <3>2, <3>4, <1>fun
    <3> QED
      BY <3>1, <3>3, <3>5, <1>fun, SettleTyped DEF TypeOK
  <2> QED
    BY <2>1, <2>2
<1>9. ASSUME NEW r \in Recorders, Create(r) PROVE TypeOK'
  <2> DEFINE rep == report[r]
             new == [names |-> rep.names, status |-> rep.status, watermark |-> 0,
                     fill |-> IF r \in Stampers THEN rep.filled ELSE 0,
                     seen |-> {}, anchored |-> r \in Stampers]
  <2>1. new \in OrderRow
    BY <1>t DEF Report, OrderRow
  <2>2. rows' \in [Recorders -> OrderRow]
    BY <1>9, <1>fun, <2>1 DEF Create
  <2>3. \E g \in Glimpses : row' = [row EXCEPT ![r] = g]
    <3>1. [id |-> r, names |-> rep.names] \in Glimpses
      BY <1>t DEF Glimpses
    <3>2. Glimpse(Holder("broker")) \in Glimpses /\ Glimpse(Holder("client")) \in Glimpses
      BY <1>t DEF Aliases
    <3> QED
      BY <1>9, <3>1, <3>2 DEF Create, Point
  <2>4. /\ pc' \in [Recorders -> Phases] /\ round' \in [Recorders -> 1..2]
        /\ found' \in [Recorders -> [Aliases -> Glimpses \cup {Unread}]]
        /\ UNCHANGED <<audit, report>>
    BY <1>9, <1>fun DEF Create, Goto, Forget, Phases
  <2> QED
    BY <1>fun, <2>2, <2>3, <2>4 DEF TypeOK
\* What record writes to a row it may not find any more.
<1>10. ASSUME NEW r \in Recorders, UNCHANGED <<audit, report>>, NEW x \in OrderRow,
              rows' = rows \/ rows' = [rows EXCEPT ![row[r].id] = x],
              \/ Leave(r, "done")
              \/ \E p \in Phases : Goto(r, p) /\ UNCHANGED <<found, row, round>>
       PROVE  TypeOK'
  <2>1. rows' \in [Recorders -> OrderRow]
    BY <1>10, <1>fun
  <2>2. CASE Leave(r, "done")
    <3>1. "done" \in Phases
      BY DEF Phases
    <3> QED
      BY <1>10, <1>fun, <2>1, <2>2, <3>1, LeaveTyped DEF TypeOK
  <2>3. CASE \E p \in Phases : Goto(r, p) /\ UNCHANGED <<found, row, round>>
    BY <1>10, <1>fun, <2>1, <2>3 DEF TypeOK, Goto
  <2> QED
    BY <1>10, <2>2, <2>3
<1>11. ASSUME NEW r \in Recorders,
              WriteStatus(r) \/ Advance(r) \/ Observe(r) \/ Stamp(r)
       PROVE  TypeOK'
  <2> DEFINE i == row[r].id
  <2>1. UNCHANGED <<audit, report>>
    BY <1>11 DEF WriteStatus, Advance, Observe, Stamp
  <2>2. \/ Leave(r, "done")
        \/ \E p \in Phases : Goto(r, p) /\ UNCHANGED <<found, row, round>>
    BY <1>11 DEF WriteStatus, Advance, Observe, Stamp, Phases
  <2>3. CASE i \notin Recorders
    <3>1. rows' = rows
      BY <1>11, <1>t, <1>fun, <2>3 DEF WriteStatus, Advance, Observe, Stamp
    <3> QED
      BY <1>10, <1>t, <2>1, <2>2, <3>1, Typed
  <2>4. CASE i \in Recorders
    <3>0. rows[i] \in OrderRow /\ report[r] \in Report
      BY <1>fun, <1>t, <2>4
    <3>1. CASE WriteStatus(r)
      <4> DEFINE x == [rows[i] EXCEPT !.status = report[r].status]
      <4>1. x \in OrderRow /\ (rows' = rows \/ rows' = [rows EXCEPT ![i] = x])
        BY <3>0, <3>1 DEF WriteStatus, OrderRow, Report
      <4> QED
        BY <1>10, <2>1, <2>2, <4>1
    <3>2. CASE Advance(r)
      <4> DEFINE x == [rows[i] EXCEPT !.watermark = report[r].filled, !.fill = report[r].filled]
      <4>1. x \in OrderRow
        BY <3>0 DEF OrderRow, Report
      <4>2. [rows EXCEPT ![i].watermark = report[r].filled, ![i].fill = report[r].filled]
              = [rows EXCEPT ![i] = x]
        BY <1>fun, <2>4
      <4>3. rows' = rows \/ rows' = [rows EXCEPT ![i] = x]
        BY <3>2, <4>2 DEF Advance
      <4> QED
        BY <1>10, <2>1, <2>2, <4>1, <4>3
    <3>3. CASE Observe(r)
      <4> DEFINE x == [rows[i] EXCEPT !.seen = @ \cup {report[r].filled}]
      <4>1. x \in OrderRow /\ rows' = [rows EXCEPT ![i] = x]
        BY <3>0, <3>3 DEF Observe, OrderRow, Report
      <4> QED
        BY <1>10, <2>1, <2>2, <4>1
    <3>4. CASE Stamp(r)
      <4> DEFINE x == [rows[i] EXCEPT !.anchored = TRUE]
      <4>1. x \in OrderRow /\ (rows' = rows \/ rows' = [rows EXCEPT ![i] = x])
        BY <3>0, <3>4 DEF Stamp, OrderRow
      <4> QED
        BY <1>10, <2>1, <2>2, <4>1
    <3> QED
      BY <1>11, <3>1, <3>2, <3>3, <3>4
  <2> QED
    BY <2>3, <2>4
<1>12. ASSUME NEW r \in Recorders, ObserveFails(r) \/ Fails(r) PROVE TypeOK'
  BY <1>12, ThrowTyped DEF ObserveFails, Fails
<1>13. CASE UNCHANGED vars
  BY <1>13, <1>fun DEF vars, TypeOK
<1> QED
  BY <1>1, <1>2, <1>3, <1>5, <1>6, <1>7, <1>8, <1>9, <1>11, <1>12, <1>13
     DEF Next, Record, Converge

-----------------------------------------------------------------------------
(* What a step does to the rows.                                           *)

\* The ways the table changes in a step: not at all; one row is written forward;
\* two rows become one; a recorder creates the row of names nobody holds.
Untouched == rows' = rows
Forward(i, x) == rows' = [rows EXCEPT ![i] = x] /\ LivesOn(rows[i], x) /\ RowSound(x)
Joined(i, j, x) ==
  /\ i # j /\ rows' = [rows EXCEPT ![i] = x, ![j] = Gone]
  /\ LivesOn(rows[i], x) /\ LivesOn(rows[j], x) /\ RowSound(x)
Made(r, x) ==
  /\ rows' = [rows EXCEPT ![r] = x] /\ RowSound(x) /\ x.names = report[r].names
  /\ pc[r] = "create" /\ \A j \in Live : rows[j].names \cap report[r].names = {}

\* Ranks order the statuses.
LEMMA Ranks == \A s \in Statuses \cup {"none"} : Rank(s) \in 0..4
BY DEF Statuses, Rank

\* LivesOn is reflexive on rows.
LEMMA Same == \A x \in OrderRow : LivesOn(x, x)
<1> SUFFICES ASSUME NEW x \in OrderRow PROVE LivesOn(x, x)
  OBVIOUS
<1>1. x.status \in Statuses \cup {"none"} /\ x.watermark \in Nat
  BY DEF OrderRow
<1>2. Rank(x.status) \in Nat
  BY <1>1, Ranks
<1> QED
  BY <1>1, <1>2 DEF LivesOn

\* An alias is held by a live row exactly when Holder finds one.
LEMMA Held ==
  ASSUME TypeOK, NEW a \in Aliases
  PROVE  Holder(a) = Nothing <=> \A i \in Live : a \notin rows[i].names
<1>1. Live \subseteq Recorders /\ Nothing \notin Recorders
  BY RecordAssumption DEF Live
<1> QED
  BY <1>1 DEF Holder

\* Merging two live rows loses nothing of either.
LEMMA MergeKeeps ==
  ASSUME TypeOK, NEW i \in Live, NEW j \in Live, NEW n \in SUBSET Aliases,
         RowSound(rows[i]), RowSound(rows[j])
  PROVE  /\ LivesOn(rows[i], Merged(i, j, n)) /\ LivesOn(rows[j], Merged(i, j, n))
         /\ RowSound(Merged(i, j, n))
<1> DEFINE x == rows[i]
           y == rows[j]
           m == Merged(i, j, n)
<1>1. x \in OrderRow /\ y \in OrderRow
  BY DEF Live, TypeOK
<1>2. /\ x.status \in Statuses /\ y.status \in Statuses
      /\ x.watermark \in Nat /\ y.watermark \in Nat
  BY <1>1 DEF OrderRow, RowSound
<1>3. Rank(x.status) \in Nat /\ Rank(y.status) \in Nat
  BY <1>2, Ranks
<1>4. /\ m.names = n \cup x.names \cup y.names
      /\ m.status = IF Rank(y.status) > Rank(x.status) THEN y.status ELSE x.status
      /\ m.watermark = IF y.watermark > x.watermark THEN y.watermark ELSE x.watermark
      /\ m.fill = IF y.watermark > x.watermark THEN y.fill ELSE x.fill
      /\ m.seen = x.seen \cup y.seen
  BY DEF Merged
<1>5. Rank(x.status) <= Rank(m.status) /\ Rank(y.status) <= Rank(m.status)
  BY <1>3, <1>4
<1>6. x.watermark <= m.watermark /\ y.watermark <= m.watermark
  BY <1>2, <1>4
<1>7. m.watermark > 0 => m.fill = m.watermark
  BY <1>2, <1>4 DEF RowSound
<1>8. m.names # {} /\ m.status \in Statuses
  BY <1>2, <1>4 DEF RowSound
<1>9. LivesOn(x, m) /\ LivesOn(y, m)
  BY <1>4, <1>5, <1>6 DEF LivesOn
<1> QED
  BY <1>7, <1>8, <1>9 DEF RowSound

\* Every step changes the table in one of these ways.
LEMMA TableStep ==
  ASSUME RecordInv, [Next]_vars
  PROVE  \/ Untouched
         \/ \E i \in Live, x \in OrderRow : Forward(i, x)
         \/ \E i, j \in Live, x \in OrderRow : Joined(i, j, x)
         \/ \E r \in Recorders, x \in OrderRow : Made(r, x)
<1> DEFINE Goal == \/ Untouched
                   \/ \E i \in Live, x \in OrderRow : Forward(i, x)
                   \/ \E i, j \in Live, x \in OrderRow : Joined(i, j, x)
                   \/ \E r \in Recorders, x \in OrderRow : Made(r, x)
<1> SUFFICES Goal
  OBVIOUS
<1>t. TypeOK
  BY DEF RecordInv
<1>rep. \A r \in Recorders : report[r] \in Report /\ report[r].names \in SUBSET Aliases
  BY <1>t, Typed
<1>row. \A i \in Live : i \in Recorders /\ rows[i] \in OrderRow /\ RowSound(rows[i])
  BY <1>t DEF RecordInv, Live, TypeOK
<1>fun. rows \in [Recorders -> OrderRow]
  BY <1>t DEF TypeOK
<1>0. ASSUME rows' = rows PROVE Goal
  BY <1>0 DEF Untouched
<1>th. ASSUME NEW r \in Recorders, Throw(r) PROVE Goal
  BY <1>th, <1>0 DEF Throw
<1>2. ASSUME NEW r \in Recorders, MergeSplit(r) PROVE Goal
  <2> DEFINE left == Pair(r) \cap Live
  <2>1. \/ Throw(r) \/ rows' = rows
        \/ \E keep \in left : \E drop \in left \ {keep} :
             rows' = [rows EXCEPT ![keep] = Merged(keep, drop, report[r].names), ![drop] = Gone]
    BY <1>2 DEF MergeSplit
  <2>2. ASSUME NEW keep \in left, NEW drop \in left \ {keep},
               rows' = [rows EXCEPT ![keep] = Merged(keep, drop, report[r].names), ![drop] = Gone]
        PROVE  Goal
    <3> DEFINE m == Merged(keep, drop, report[r].names)
    <3>1. keep \in Live /\ drop \in Live /\ keep # drop
      OBVIOUS
    <3>2. m \in OrderRow
      BY <3>1, <1>t, <1>rep, <1>row, Typed
    <3>3. LivesOn(rows[keep], m) /\ LivesOn(rows[drop], m) /\ RowSound(m)
      BY <3>1, <1>t, <1>rep, <1>row, MergeKeeps
    <3>4. Joined(keep, drop, m)
      BY <2>2, <3>1, <3>3 DEF Joined
    <3> QED
      BY <3>1, <3>2, <3>4
  <2> QED
    BY <2>1, <2>2, <1>0, <1>th
<1>3. ASSUME NEW r \in Recorders, Attach(r) PROVE Goal
  <2> DEFINE i == row[r].id
             new == report[r].names \ row[r].names
             x == [rows[i] EXCEPT !.names = @ \cup new]
  <2>1. CASE rows' = [rows EXCEPT ![i].names = @ \cup new] /\ i \in Live
    <3>1. /\ rows[i] \in OrderRow /\ RowSound(rows[i]) /\ new \subseteq Aliases
      BY <2>1, <1>row, <1>rep
    <3>2. x \in OrderRow
      BY <3>1 DEF OrderRow
    <3>3. /\ x.names = rows[i].names \cup new /\ x.status = rows[i].status
          /\ x.watermark = rows[i].watermark /\ x.fill = rows[i].fill /\ x.seen = rows[i].seen
      BY <3>1 DEF OrderRow
    <3>4. RowSound(x)
      BY <3>1, <3>3 DEF RowSound
    <3>5. LivesOn(rows[i], x)
      BY <3>1, <3>3, Same DEF LivesOn
    <3>6. rows' = [rows EXCEPT ![i] = x]
      BY <2>1
    <3> QED
      BY <2>1, <3>2, <3>4, <3>5, <3>6 DEF Forward
  <2> QED
    BY <1>3, <2>1, <1>th DEF Attach
<1>4. ASSUME NEW r \in Recorders, Create(r) PROVE Goal
  <2> DEFINE rep == report[r]
             x == [names |-> rep.names, status |-> rep.status, watermark |-> 0,
                   fill |-> IF r \in Stampers THEN rep.filled ELSE 0,
                   seen |-> {}, anchored |-> r \in Stampers]
  <2>1. CASE rows' = [rows EXCEPT ![r] = x] /\ {Holder(a) : a \in rep.names} \ {Nothing} = {}
    <3>0. /\ rep.names \in SUBSET Aliases /\ rep.names # {} /\ rep.status \in Statuses
          /\ rep.filled \in Nat
      <4>1. report[r] \in Report
        BY <1>rep
      <4>2. /\ rep.names \in (SUBSET Aliases) \ {{}} /\ rep.status \in Statuses
            /\ rep.filled \in Nat
        BY <4>1 DEF Report
      <4> QED
        BY <4>2
    <3>1. x \in OrderRow /\ RowSound(x) /\ x.names = rep.names
      <4>1. x \in OrderRow
        BY <3>0 DEF OrderRow
      <4> QED
        BY <3>0, <4>1 DEF RowSound
    <3>2. \A a \in rep.names : Holder(a) = Nothing
      BY <2>1
    <3>3. \A j \in Live : rows[j].names \cap rep.names = {}
      BY <3>2, <1>t, <1>rep, Held
    <3>4. Made(r, x)
      BY <1>4, <2>1, <3>1, <3>3 DEF Made, Create
    <3> QED
      BY <3>1, <3>4
  <2> QED
    BY <1>4, <2>1, <1>0 DEF Create
<1>5. ASSUME NEW r \in Recorders, WriteStatus(r) PROVE Goal
  <2> DEFINE i == row[r].id
             x == [rows[i] EXCEPT !.status = report[r].status]
  <2>1. CASE i \in Live /\ rows' = [rows EXCEPT ![i].status = report[r].status]
              /\ report[r].status # "submitted" /\ rows[i].status \in Overridden(report[r].status)
    <3>1. rows[i] \in OrderRow /\ RowSound(rows[i]) /\ report[r].status \in Statuses
      BY <2>1, <1>row, <1>rep DEF Report
    <3>2. /\ x \in OrderRow /\ x.names = rows[i].names /\ x.status = report[r].status
          /\ x.watermark = rows[i].watermark /\ x.fill = rows[i].fill /\ x.seen = rows[i].seen
      BY <3>1 DEF OrderRow
    <3>3. RowSound(x)
      BY <3>1, <3>2 DEF RowSound
    <3>4. Rank(rows[i].status) <= Rank(x.status)
      BY <2>1, <3>1, <3>2 DEF Overridden, Statuses, Rank
    <3>5. LivesOn(rows[i], x)
      BY <3>1, <3>2, <3>4, Same DEF LivesOn
    <3>6. rows' = [rows EXCEPT ![i] = x]
      BY <2>1
    <3> QED
      BY <2>1, <3>2, <3>3, <3>5, <3>6 DEF Forward
  <2>2. i \in Recorders
    BY <1>5, <1>t DEF RecordInv, Written, WriteStatus, TypeOK, Glimpses, NotThere
  <2>3. CASE i \notin Live
    <3>1. rows[i].status = "none"
      BY <2>2, <2>3 DEF Live, Gone
    <3>2. "none" \notin Overridden(report[r].status)
      BY DEF Overridden, Statuses
    <3> QED
      BY <1>5, <3>1, <3>2, <1>0 DEF WriteStatus
  <2> QED
    BY <1>5, <2>1, <2>3, <1>0 DEF WriteStatus
<1>6. ASSUME NEW r \in Recorders, Advance(r) PROVE Goal
  <2> DEFINE i == row[r].id
             q == report[r].filled
             x == [rows[i] EXCEPT !.watermark = q, !.fill = q]
  <2>1. CASE i \in Live /\ rows[i].watermark < q
              /\ rows' = [rows EXCEPT ![i].watermark = q, ![i].fill = q]
    <3>1. rows[i] \in OrderRow /\ RowSound(rows[i]) /\ q \in Nat
      BY <2>1, <1>row, <1>rep DEF Report
    <3>2. /\ x \in OrderRow /\ x.names = rows[i].names /\ x.status = rows[i].status
          /\ x.watermark = q /\ x.fill = q /\ x.seen = rows[i].seen
      BY <3>1 DEF OrderRow
    <3>3. RowSound(x)
      BY <3>1, <3>2 DEF RowSound
    <3>4. rows[i].watermark <= x.watermark
      BY <2>1, <3>1, <3>2 DEF OrderRow
    <3>5. LivesOn(rows[i], x)
      BY <3>1, <3>2, <3>4, Same DEF LivesOn
    <3>6. rows' = [rows EXCEPT ![i] = x]
      BY <2>1, <1>row, <1>fun
    <3> QED
      BY <2>1, <3>2, <3>3, <3>5, <3>6 DEF Forward
  <2> QED
    BY <1>6, <2>1, <1>0 DEF Advance
<1>7. ASSUME NEW r \in Recorders, Observe(r) PROVE Goal
  <2> DEFINE i == row[r].id
             x == [rows[i] EXCEPT !.seen = @ \cup {report[r].filled}]
  <2>1. i \in Live /\ rows' = [rows EXCEPT ![i] = x]
    BY <1>7 DEF Observe
  <2>2. rows[i] \in OrderRow /\ RowSound(rows[i]) /\ report[r].filled \in Nat
    BY <2>1, <1>row, <1>rep DEF Report
  <2>3. /\ x \in OrderRow /\ x.names = rows[i].names /\ x.status = rows[i].status
        /\ x.watermark = rows[i].watermark /\ x.fill = rows[i].fill
        /\ rows[i].seen \subseteq x.seen
    BY <2>2 DEF OrderRow
  <2>4. RowSound(x)
    BY <2>2, <2>3 DEF RowSound
  <2>5. LivesOn(rows[i], x)
    BY <2>2, <2>3, Same DEF LivesOn
  <2> QED
    BY <2>1, <2>3, <2>4, <2>5 DEF Forward
<1>8. ASSUME NEW r \in Recorders, Stamp(r) PROVE Goal
  <2> DEFINE i == row[r].id
             x == [rows[i] EXCEPT !.anchored = TRUE]
  <2>1. CASE i \in Live /\ rows' = [rows EXCEPT ![i] = x]
    <3>1. rows[i] \in OrderRow /\ RowSound(rows[i])
      BY <2>1, <1>row
    <3>2. /\ x \in OrderRow /\ x.names = rows[i].names /\ x.status = rows[i].status
          /\ x.watermark = rows[i].watermark /\ x.fill = rows[i].fill /\ x.seen = rows[i].seen
      BY <3>1 DEF OrderRow
    <3>3. RowSound(x)
      BY <3>1, <3>2 DEF RowSound
    <3>4. LivesOn(rows[i], x)
      BY <3>1, <3>2, Same DEF LivesOn
    <3> QED
      BY <2>1, <3>2, <3>3, <3>4 DEF Forward
  <2> QED
    BY <1>8, <2>1, <1>0 DEF Stamp
<1>9. ASSUME NEW r \in Recorders,
             Start(r) \/ Skip(r) \/ (\E a \in Aliases : Look(r, a)) \/ Pick(r) \/ Match(r)
      PROVE  Goal
  BY <1>9, <1>0 DEF Start, Skip, Look, Pick, Match
<1>10. ASSUME NEW r \in Recorders, ObserveFails(r) \/ Fails(r) PROVE Goal
  BY <1>10, <1>th DEF ObserveFails, Fails
<1>11. CASE WriteAudit \/ UNCHANGED vars
  BY <1>11, <1>0 DEF WriteAudit, vars
<1> QED
  BY <1>2, <1>3, <1>4, <1>5, <1>6, <1>7, <1>8, <1>9, <1>10, <1>11 DEF Next, Record, Converge

-----------------------------------------------------------------------------
(* What a step does to the recorders.                                      *)

\* A row a recorder comes to refer to is one it has read before, or there.
Source(r, g) ==
  g.id \in {Nothing, row[r].id} \cup Live \cup Live' \cup {found[r][a].id : a \in Aliases}

\* Only the acting recorder's variables change, and these so: it has begun, keeps
\* its report, refers to rows it found, and comes to a phase by its statement.
OwnStep(r) ==
  /\ \A s \in Recorders \ {r} : /\ pc'[s] = pc[s] /\ row'[s] = row[s]
                                /\ found'[s] = found[s] /\ report'[s] = report[s]
  /\ pc'[r] # "idle" /\ (pc[r] # "idle" => report'[r] = report[r])
  /\ Source(r, row'[r]) /\ \A a \in Aliases : Source(r, found'[r][a])
  /\ pc'[r] \in {"attach", "status", "watermark", "observe", "stamp"} => row'[r].id # Nothing
  /\ pc'[r] = "stamp" => r \in Stampers
  /\ pc'[r] = "watermark" => WriteStatus(r) /\ row'[r] = row[r]
  /\ pc'[r] = "observe" => Advance(r) /\ row'[r] = row[r]
  /\ pc'[r] = "done" =>
       pc[r] # "idle" /\ (Observe(r) \/ report[r].filled = 0 \/ r \in Stampers)

\* convergedIdentityRow's outcome is such a step.
LEMMA SettleOwn ==
  ASSUME TypeOK, NEW r \in Recorders, NEW g, Settle(r, g), Source(r, g), UNCHANGED report
  PROVE  OwnStep(r)
<1>fun. /\ pc \in [Recorders -> Phases] /\ row \in [Recorders -> Glimpses]
        /\ found \in [Recorders -> [Aliases -> Glimpses \cup {Unread}]]
  BY DEF TypeOK
<1>1. row' = [row EXCEPT ![r] = g] /\ row'[r] = g
  BY <1>fun DEF Settle, Point
<1>2. /\ found' = [found EXCEPT ![r] = [a \in Aliases |-> Unread]]
      /\ \A a \in Aliases : found'[r][a] = Unread
  BY <1>fun DEF Settle, Forget
<1>3. \A a \in Aliases : Source(r, found'[r][a])
  BY <1>2 DEF Source, Unread
<1>4. PICK p : /\ pc' = [pc EXCEPT ![r] = p]
               /\ \/ p = "create"
                  \/ p \in {"attach", "look", "status"} /\ g.id # Nothing
                  \/ p = "stamp" /\ g.id # Nothing /\ r \in Stampers
  BY DEF Settle, Goto
<1>5. pc'[r] = p
  BY <1>4, <1>fun
<1>6. \A s \in Recorders \ {r} : /\ pc'[s] = pc[s] /\ row'[s] = row[s]
                                 /\ found'[s] = found[s] /\ report'[s] = report[s]
  BY <1>1, <1>2, <1>4, <1>fun
<1> QED
  BY <1>1, <1>3, <1>4, <1>5, <1>6 DEF OwnStep

\* So is leaving the call.
LEMMA LeaveOwn ==
  ASSUME TypeOK, NEW r \in Recorders, NEW p \in {"done", "failed", "look"}, Leave(r, p),
         UNCHANGED report,
         p = "done" =>
           pc[r] # "idle" /\ (Observe(r) \/ report[r].filled = 0 \/ r \in Stampers)
  PROVE  OwnStep(r)
<1>fun. /\ pc \in [Recorders -> Phases] /\ row \in [Recorders -> Glimpses]
        /\ found \in [Recorders -> [Aliases -> Glimpses \cup {Unread}]]
  BY DEF TypeOK
<1>1. row' = [row EXCEPT ![r] = NotThere] /\ row'[r] = NotThere
  BY <1>fun DEF Leave, Point
<1>2. /\ found' = [found EXCEPT ![r] = [a \in Aliases |-> Unread]]
      /\ \A a \in Aliases : found'[r][a] = Unread
  BY <1>fun DEF Leave, Forget
<1>3. Source(r, row'[r]) /\ \A a \in Aliases : Source(r, found'[r][a])
  BY <1>1, <1>2 DEF Source, Unread, NotThere
<1>4. pc' = [pc EXCEPT ![r] = p] /\ pc'[r] = p
  BY <1>fun DEF Leave, Goto
<1>5. \A s \in Recorders \ {r} : /\ pc'[s] = pc[s] /\ row'[s] = row[s]
                                 /\ found'[s] = found[s] /\ report'[s] = report[s]
  BY <1>1, <1>2, <1>4, <1>fun
<1> QED
  BY <1>3, <1>4, <1>5 DEF OwnStep

\* And a statement's failure.
LEMMA ThrowOwn ==
  ASSUME TypeOK, NEW r \in Recorders, Throw(r) PROVE OwnStep(r)
BY LeaveOwn DEF Throw

\* Comparing with the other side's row is one, whether it is done or put off.
LEMMA CompareOwn ==
  ASSUME TypeOK, NEW r \in Recorders, NEW g, Compare(r, g), Source(r, g), UNCHANGED report
  PROVE  OwnStep(r)
<1>fun. /\ pc \in [Recorders -> Phases] /\ row \in [Recorders -> Glimpses]
        /\ found \in [Recorders -> [Aliases -> Glimpses \cup {Unread}]]
  BY DEF TypeOK
<1>1. CASE Settle(r, g)
  BY <1>1, SettleOwn
<1>2. CASE Goto(r, "match") /\ Point(r, g) /\ Forget(r)
  <2>1. row' = [row EXCEPT ![r] = g] /\ row'[r] = g
    BY <1>2, <1>fun DEF Point
  <2>2. /\ found' = [found EXCEPT ![r] = [a \in Aliases |-> Unread]]
        /\ \A a \in Aliases : found'[r][a] = Unread
    BY <1>2, <1>fun DEF Forget
  <2>3. \A a \in Aliases : Source(r, found'[r][a])
    BY <2>2 DEF Source, Unread
  <2>4. pc' = [pc EXCEPT ![r] = "match"] /\ pc'[r] = "match"
    BY <1>2, <1>fun DEF Goto
  <2>5. \A s \in Recorders \ {r} : /\ pc'[s] = pc[s] /\ row'[s] = row[s]
                                   /\ found'[s] = found[s] /\ report'[s] = report[s]
    BY <2>1, <2>2, <2>4, <1>fun
  <2> QED
    BY <2>1, <2>3, <2>4, <2>5 DEF OwnStep
<1> QED
  BY <1>1, <1>2 DEF Compare

\* A glimpse of a row that is there refers to it.
LEMMA Glimpsed ==
  ASSUME TypeOK, NEW r \in Recorders
  PROVE  /\ \A i \in Live : Glimpse(i).id = i /\ Source(r, Glimpse(i))
         /\ \A a \in Aliases : Source(r, Glimpse(Holder(a)))
<1>1. ASSUME NEW i \in Live PROVE Glimpse(i).id = i /\ Source(r, Glimpse(i))
  BY RecordAssumption DEF Live, Glimpse, Source
<1>2. ASSUME NEW a \in Aliases PROVE Source(r, Glimpse(Holder(a)))
  <2>1. CASE Holder(a) = Nothing
    BY <2>1 DEF Glimpse, NotThere, Source
  <2>2. CASE Holder(a) \in Live
    BY <1>1, <2>2
  <2> QED
    BY <2>1, <2>2, Typed
<1> QED
  BY <1>1, <1>2

\* Every step is one recorder's, or touches no recorder.
LEMMA ActorStep ==
  ASSUME TypeOK, \A r \in Recorders : Written(r), [Next]_vars
  PROVE  /\ \A r \in Recorders : Record(r) \/ Fails(r) => OwnStep(r)
         /\ (\E r \in Recorders : OwnStep(r)) \/ UNCHANGED <<pc, report, found, row>>
<1>fun. /\ pc \in [Recorders -> Phases] /\ row \in [Recorders -> Glimpses]
        /\ found \in [Recorders -> [Aliases -> Glimpses \cup {Unread}]]
        /\ report \in [Recorders -> Reports \cup {StampReport}]
        /\ rows \in [Recorders -> OrderRow]
  BY DEF TypeOK
<1>id. ASSUME NEW r \in Recorders
       PROVE  Source(r, row[r]) /\ \A a \in Aliases : Source(r, found[r][a])
  BY DEF Source
\* A recorder goes on to another phase.
<1>0. ASSUME NEW r \in Recorders, NEW p, p \notin {"idle", "done", "stamp"},
             pc' = [pc EXCEPT ![r] = p], UNCHANGED <<found, row>>,
             \/ pc[r] = "idle" /\ \E rep : report' = [report EXCEPT ![r] = rep]
             \/ UNCHANGED report,
             p \in {"attach", "status", "watermark", "observe"} => row[r].id # Nothing,
             p = "watermark" => WriteStatus(r), p = "observe" => Advance(r)
      PROVE  OwnStep(r)
  <2>1. pc'[r] = p /\ row'[r] = row[r] /\ found'[r] = found[r]
    BY <1>0, <1>fun
  <2>2. \A s \in Recorders \ {r} : /\ pc'[s] = pc[s] /\ row'[s] = row[s]
                                   /\ found'[s] = found[s] /\ report'[s] = report[s]
    BY <1>0, <1>fun
  <2>3. pc[r] # "idle" => report'[r] = report[r]
    BY <1>0
  <2> QED
    BY <1>0, <1>id, <2>1, <2>2, <2>3 DEF OwnStep
<1>1. ASSUME NEW r \in Recorders, Start(r) \/ Skip(r) PROVE OwnStep(r)
  <2>1. \/ UNCHANGED report
        \/ \E rep : report' = [report EXCEPT ![r] = rep]
    BY <1>1 DEF Start, Skip
  <2> QED
    BY <1>0, <1>1, <2>1 DEF Start, Skip, Goto
<1>2. ASSUME NEW r \in Recorders, NEW a \in Aliases, Look(r, a) PROVE OwnStep(r)
  <2>1. /\ pc[r] = "look" /\ UNCHANGED <<pc, report, row>>
        /\ found' = [found EXCEPT ![r][a] = Glimpse(Holder(a))]
    BY <1>2 DEF Look
  <2>2. ASSUME NEW b \in Aliases PROVE Source(r, found'[r][b])
    <3>1. found'[r][b] \in {found[r][b], Glimpse(Holder(a))}
      BY <2>1, <1>fun
    <3> QED
      BY <3>1, <1>id, Glimpsed
  <2>3. \A s \in Recorders \ {r} : found'[s] = found[s]
    BY <2>1, <1>fun
  <2> QED
    BY <2>1, <2>2, <2>3, <1>id DEF OwnStep
<1>3. ASSUME NEW r \in Recorders, MergeSplit(r) PROVE OwnStep(r)
  <2> DEFINE left == Pair(r) \cap Live
  <2>1. ASSUME NEW i \in left PROVE Source(r, Glimpse(i))
    BY Glimpsed
  <2>2. ASSUME NEW i \in left, NEW n PROVE Source(r, [id |-> i, names |-> n])
    BY DEF Source
  <2>3. CASE Throw(r)
    BY <2>3, ThrowOwn
  <2>4. ASSUME ~Throw(r)
        PROVE  UNCHANGED report /\ \E g : Settle(r, g) /\ Source(r, g)
    <3>1. UNCHANGED report
      BY <1>3, <2>4 DEF MergeSplit
    <3>2. \/ \E last \in left : Settle(r, Glimpse(last))
          \/ \E keep \in left : \E drop \in left \ {keep} :
               Settle(r, [id |-> keep, names |-> Merged(keep, drop, report[r].names).names])
      BY <1>3, <2>4 DEF MergeSplit
    <3> QED
      BY <3>1, <3>2, <2>1, <2>2
  <2> QED
    BY <2>3, <2>4, SettleOwn
<1>4. ASSUME NEW r \in Recorders, Pick(r) PROVE OwnStep(r)
  <2> DEFINE g == LET hits == {a \in report[r].names : found[r][a].id # Nothing} IN
                  IF "broker" \in hits THEN found[r]["broker"]
                  ELSE IF "client" \in hits THEN found[r]["client"] ELSE row[r]
  <2>1. Compare(r, g) /\ UNCHANGED report
    BY <1>4 DEF Pick
  <2>2. Source(r, g)
    BY <1>id DEF Aliases
  <2> QED
    BY <2>1, <2>2, CompareOwn
<1>5. ASSUME NEW r \in Recorders, Match(r) PROVE OwnStep(r)
  <2>1. Candidates(r) \subseteq Live /\ UNCHANGED report /\ pc[r] = "match"
    BY <1>5 DEF Candidates, Match
  <2>2. CASE Settle(r, row[r])
    BY <2>1, <2>2, <1>id, SettleOwn
  <2>3. ASSUME NEW o \in Candidates(r), Settle(r, Glimpse(o)) PROVE OwnStep(r)
    BY <2>1, <2>3, Glimpsed, SettleOwn
  <2>4. ASSUME NEW o \in Candidates(r), NEW a \in Aliases,
               Goto(r, "join"), found' = [found EXCEPT ![r][a] = Glimpse(o)], UNCHANGED row
        PROVE  OwnStep(r)
    <3>1. pc' = [pc EXCEPT ![r] = "join"] /\ pc'[r] = "join"
      BY <2>4, <1>fun DEF Goto
    <3>2. ASSUME NEW b \in Aliases PROVE Source(r, found'[r][b])
      <4>1. found'[r][b] \in {found[r][b], Glimpse(o)}
        BY <2>4, <1>fun
      <4> QED
        BY <4>1, <2>1, <1>id, Glimpsed
    <3>3. \A s \in Recorders \ {r} : /\ pc'[s] = pc[s] /\ row'[s] = row[s]
                                     /\ found'[s] = found[s] /\ report'[s] = report[s]
      BY <2>1, <2>4, <3>1, <1>fun
    <3> QED
      BY <2>1, <2>4, <3>1, <3>2, <3>3, <1>id DEF OwnStep
  <2> QED
    BY <1>5, <2>2, <2>3, <2>4 DEF Match
<1>6. ASSUME NEW r \in Recorders, Attach(r) PROVE OwnStep(r)
  <2>1. CASE Throw(r)
    BY <2>1, ThrowOwn
  <2>2. ASSUME NEW n, Settle(r, [id |-> row[r].id, names |-> n]), UNCHANGED report
        PROVE  OwnStep(r)
    <3>1. Source(r, [id |-> row[r].id, names |-> n])
      BY DEF Source
    <3> QED
      BY <2>2, <3>1, SettleOwn
  <2> QED
    BY <1>6, <2>1, <2>2 DEF Attach
<1>7. ASSUME NEW r \in Recorders, Create(r) PROVE OwnStep(r)
  <2>1. /\ pc' = [pc EXCEPT ![r] = "look"] /\ pc[r] = "create" /\ UNCHANGED report
        /\ found' = [found EXCEPT ![r] = [a \in Aliases |-> Unread]]
    BY <1>7 DEF Create, Goto, Forget
  <2>2. \E g : row' = [row EXCEPT ![r] = g] /\ Source(r, g)
    <3>1. CASE \E a \in Aliases : row' = [row EXCEPT ![r] = Glimpse(Holder(a))]
      BY <3>1, Glimpsed
    <3>2. CASE \E x : /\ rows' = [rows EXCEPT ![r] = x] /\ x.names # {}
                      /\ row' = [row EXCEPT ![r] = [id |-> r, names |-> report[r].names]]
      <4>1. r \in Live'
        BY <3>2, <1>fun DEF Live, Gone
      <4>2. Source(r, [id |-> r, names |-> report[r].names])
        BY <4>1 DEF Source
      <4> QED
        BY <3>2, <4>2
    <3>3. report[r].names # {} /\ report[r].names \subseteq Aliases
      <4>1. report[r].names \in (SUBSET Aliases) \ {{}}
        BY Typed DEF Report
      <4> QED
        BY <4>1
    <3>4. \/ \E a \in Aliases : row' = [row EXCEPT ![r] = Glimpse(Holder(a))]
          \/ \E x : /\ rows' = [rows EXCEPT ![r] = x] /\ x.names = report[r].names
                    /\ row' = [row EXCEPT ![r] = [id |-> r, names |-> report[r].names]]
      BY <1>7 DEF Create, Point, Aliases
    <3> QED
      BY <3>1, <3>2, <3>3, <3>4
  <2>3. PICK g : row' = [row EXCEPT ![r] = g] /\ Source(r, g)
    BY <2>2
  <2>4. pc'[r] = "look" /\ row'[r] = g /\ \A a \in Aliases : found'[r][a] = Unread
    BY <2>1, <2>3, <1>fun
  <2>5. \A a \in Aliases : Source(r, found'[r][a])
    BY <2>4 DEF Source, Unread
  <2>6. \A s \in Recorders \ {r} : /\ pc'[s] = pc[s] /\ row'[s] = row[s]
                                   /\ found'[s] = found[s] /\ report'[s] = report[s]
    BY <2>1, <2>3, <1>fun
  <2> QED
    BY <2>1, <2>3, <2>4, <2>5, <2>6 DEF OwnStep
<1>8. ASSUME NEW r \in Recorders, WriteStatus(r) PROVE OwnStep(r)
  <2>1. pc[r] = "status" /\ UNCHANGED report /\ row[r].id # Nothing
    BY <1>8 DEF WriteStatus, Written
  <2>2. CASE Goto(r, "watermark") /\ UNCHANGED <<found, row, round>>
    BY <1>0, <1>8, <2>1, <2>2 DEF Goto
  <2>3. CASE ~(report[r].filled > 0) /\ Leave(r, "done")
    <3>1. report[r].filled = 0
      BY <2>3, Typed DEF Report
    <3> QED
      BY <2>1, <2>3, <3>1, LeaveOwn
  <2> QED
    BY <1>8, <2>2, <2>3 DEF WriteStatus
<1>9. ASSUME NEW r \in Recorders, Advance(r) PROVE OwnStep(r)
  <2>1. row[r].id # Nothing
    BY <1>9 DEF Advance, Written
  <2> QED
    BY <1>0, <1>9, <2>1 DEF Advance, Goto
<1>10. ASSUME NEW r \in Recorders, Observe(r) PROVE OwnStep(r)
  BY <1>10, LeaveOwn DEF Observe
<1>11. ASSUME NEW r \in Recorders, Stamp(r) PROVE OwnStep(r)
  BY <1>11, LeaveOwn DEF Stamp, Written
<1>12. ASSUME NEW r \in Recorders, ObserveFails(r) \/ Fails(r) PROVE OwnStep(r)
  BY <1>12, ThrowOwn DEF ObserveFails, Fails
<1>13. \A r \in Recorders : Record(r) \/ Fails(r) => OwnStep(r)
  BY <1>1, <1>2, <1>3, <1>4, <1>5, <1>6, <1>7, <1>8, <1>9, <1>10, <1>11, <1>12
     DEF Record, Converge
<1>14. WriteAudit \/ UNCHANGED vars => UNCHANGED <<pc, report, found, row>>
  BY DEF WriteAudit, vars
<1> QED
  BY <1>13, <1>14 DEF Next

-----------------------------------------------------------------------------
(* The invariant.                                                          *)

\* Every row lives on: in itself while it is there, else in the row it was
\* merged into; a row that is new is its recorder's, of names nobody held.
LEMMA RowsLiveOn ==
  ASSUME RecordInv, [Next]_vars
  PROVE  /\ \A i \in Live : \E j \in Live' : LivesOn(rows[i], rows'[j])
         /\ \A i \in Live \cap Live' : LivesOn(rows[i], rows'[i])
         /\ \A i \in Live' \ Live :
              /\ pc[i] = "create" /\ rows'[i].names = report[i].names
              /\ \A j \in Live : rows[j].names \cap report[i].names = {}
         /\ \A i \in Live' : RowSound(rows'[i])
<1>t. TypeOK
  BY DEF RecordInv
<1>fun. rows \in [Recorders -> OrderRow]
  BY <1>t DEF TypeOK
<1>live. \A i \in Live : i \in Recorders /\ rows[i] \in OrderRow /\ LivesOn(rows[i], rows[i])
  BY <1>fun, Same DEF Live
<1>sound. \A i \in Live : RowSound(rows[i])
  BY DEF RecordInv
<1>full. \A x : RowSound(x) => x # Gone
  BY DEF RowSound, Gone
<1> DEFINE Goal ==
      /\ \A i \in Live : \E j \in Live' : LivesOn(rows[i], rows'[j])
      /\ \A i \in Live \cap Live' : LivesOn(rows[i], rows'[i])
      /\ \A i \in Live' \ Live :
           /\ pc[i] = "create" /\ rows'[i].names = report[i].names
           /\ \A j \in Live : rows[j].names \cap report[i].names = {}
      /\ \A i \in Live' : RowSound(rows'[i])
<1>1. CASE Untouched
  <2>1. rows' = rows /\ Live' = Live
    BY <1>1 DEF Untouched, Live
  <2> QED
    BY <2>1, <1>live, <1>sound
<1>2. ASSUME NEW i \in Live, NEW x \in OrderRow, Forward(i, x) PROVE Goal
  <2>1. rows'[i] = x /\ (\A j \in Recorders \ {i} : rows'[j] = rows[j])
    BY <1>2, <1>fun, <1>live DEF Forward
  <2>2. RowSound(x) /\ LivesOn(rows[i], x)
    BY <1>2 DEF Forward
  <2>3. Live' = Live
    BY <2>1, <2>2, <1>full DEF Live
  <2> QED
    BY <2>1, <2>2, <2>3, <1>live, <1>sound
<1>3. ASSUME NEW i \in Live, NEW j \in Live, NEW x \in OrderRow, Joined(i, j, x) PROVE Goal
  <2>1. /\ i # j /\ rows'[i] = x /\ rows'[j] = Gone
        /\ \A k \in Recorders \ {i, j} : rows'[k] = rows[k]
    BY <1>3, <1>fun, <1>live DEF Joined
  <2>2. RowSound(x) /\ LivesOn(rows[i], x) /\ LivesOn(rows[j], x)
    BY <1>3 DEF Joined
  <2>3. Live' = Live \ {j} /\ i \in Live'
    BY <2>1, <2>2, <1>full, <1>live DEF Live
  <2>4. \A k \in Live' : RowSound(rows'[k])
    BY <2>1, <2>2, <2>3, <1>live, <1>sound
  <2>5. \A k \in Live' : LivesOn(rows[k], rows'[k])
    BY <2>1, <2>2, <2>3, <1>live
  <2>6. \A k \in Live : \E l \in Live' : LivesOn(rows[k], rows'[l])
    BY <2>1, <2>2, <2>3, <2>5
  <2> QED
    BY <2>3, <2>4, <2>5, <2>6
<1>4. ASSUME NEW r \in Recorders, NEW x \in OrderRow, Made(r, x) PROVE Goal
  <2>1. /\ rows'[r] = x /\ (\A k \in Recorders \ {r} : rows'[k] = rows[k])
        /\ x.names = report[r].names /\ pc[r] = "create" /\ RowSound(x)
        /\ \A j \in Live : rows[j].names \cap report[r].names = {}
    BY <1>4, <1>fun DEF Made
  <2>2. x.names # {} /\ report[r].names \subseteq Aliases
    BY <2>1, <1>t, Typed DEF RowSound
  <2>3. r \notin Live
    <3>1. ASSUME r \in Live PROVE FALSE
      <4>1. \A a \in report[r].names : \E j \in Live : a \in rows[j].names
        BY <3>1 DEF RecordInv, Known
      <4> QED
        BY <4>1, <2>1, <2>2
    <3> QED
      BY <3>1
  <2>4. Live' = Live \cup {r}
    BY <2>1, <2>3, <1>full DEF Live
  <2> QED
    BY <2>1, <2>3, <2>4, <1>live, <1>sound
<1> QED
  BY <1>1, <1>2, <1>3, <1>4, TableStep

\* A recorder whose order has rows stays one.
LEMMA KnownStays ==
  ASSUME RecordInv, [Next]_vars, NEW i \in Recorders, Known(i),
         pc'[i] # "idle", report'[i] = report[i]
  PROVE  Known(i)'
<1>1. \A k \in Live : \E j \in Live' : LivesOn(rows[k], rows'[j])
  BY RowsLiveOn
<1>2. \A k \in Live, j \in Live' : LivesOn(rows[k], rows'[j]) => rows[k].names \subseteq rows'[j].names
  BY DEF LivesOn
<1> QED
  BY <1>1, <1>2 DEF Known

\* A row that was merged away does not come back under its id.
LEMMA NoReturn ==
  ASSUME RecordInv, [Next]_vars, NEW i \in Recorders, Known(i), i \in Live'
  PROVE  i \in Live /\ LivesOn(rows[i], rows'[i])
<1>1. report[i].names # {}
  <2>1. report[i].names \in (SUBSET Aliases) \ {{}}
    BY Typed DEF RecordInv, Report
  <2> QED
    BY <2>1
<1>2. i \in Live
  BY <1>1, RowsLiveOn DEF Known
<1> QED
  BY <1>2, RowsLiveOn

\* There are no rows and no calls at the start.
LEMMA InitInv == Init => RecordInv
<1> SUFFICES ASSUME Init PROVE RecordInv
  OBVIOUS
<1>1. TypeOK
  BY InitType
<1>2. Live = {}
  BY DEF Init, Live
<1>3. \A r \in Recorders : /\ pc[r] = "idle" /\ row[r] = NotThere
                           /\ \A a \in Aliases : found[r][a] = Unread
  BY DEF Init
<1> QED
  BY <1>1, <1>2, <1>3
     DEF RecordInv, KnownGlimpse, Written, FillsStayRecorded, Recorded, NotThere, Unread

\* The inductive step: the acting recorder comes to each phase by a statement that
\* wrote what the phase relies on; everybody else's row lives on.
LEMMA InvStep == RecordInv /\ [Next]_vars => RecordInv'
<1> SUFFICES ASSUME RecordInv, [Next]_vars PROVE RecordInv'
  OBVIOUS
<1>t. TypeOK /\ TypeOK'
  BY TypeStep DEF RecordInv
<1>rep. \A r \in Recorders : report[r] \in Report /\ report[r].filled \in Nat
  BY <1>t, Typed DEF Report
<1>rows. /\ \A i \in Live : \E j \in Live' : LivesOn(rows[i], rows'[j])
         /\ \A i \in Live' : RowSound(rows'[i])
         /\ \A i \in Live' \ Live : pc[i] = "create" /\ rows'[i].names = report[i].names
  BY RowsLiveOn
<1>act. (\E r \in Recorders : OwnStep(r)) \/ UNCHANGED <<pc, report, found, row>>
  BY <1>t, ActorStep DEF RecordInv
<1>begun. \A r \in Recorders : pc[r] # "idle" => pc'[r] # "idle" /\ report'[r] = report[r]
  BY <1>act DEF OwnStep
<1>known. \A i \in Recorders : Known(i) => Known(i)'
  BY <1>begun, KnownStays DEF Known
<1>live. \A i \in Live' : RowSound(rows'[i]) /\ Known(i)'
  <2>1. ASSUME NEW i \in Live' PROVE Known(i)'
    <3>1. CASE i \in Live
      BY <3>1, <1>known DEF RecordInv, Live
    <3>2. CASE i \notin Live
      <4>1. i \in Recorders /\ pc[i] # "idle" /\ rows'[i].names = report[i].names
        BY <3>2, <1>rows DEF Live
      <4>2. pc'[i] # "idle" /\ report'[i] = report[i]
        BY <4>1, <1>begun
      <4> QED
        BY <4>1, <4>2 DEF Known
    <3> QED
      BY <3>1, <3>2
  <2> QED
    BY <2>1, <1>rows
\* Whatever a recorder refers to is known.
<1>ids. ASSUME NEW r \in Recorders
        PROVE  /\ row[r].id # Nothing => row[r].id \in Recorders /\ Known(row[r].id)
               /\ \A a \in Aliases : found[r][a].id # Nothing =>
                    found[r][a].id \in Recorders /\ Known(found[r][a].id)
  <2>1. /\ row[r].id \in Recorders \cup {Nothing}
        /\ \A a \in Aliases : found[r][a].id \in Recorders \cup {Nothing}
    BY <1>t DEF TypeOK, Glimpses, NotThere, Unread
  <2> QED
    BY <2>1 DEF RecordInv, KnownGlimpse
<1>src. ASSUME NEW r \in Recorders, NEW g, Source(r, g), g.id # Nothing PROVE Known(g.id)'
  <2>1. CASE g.id \in Live'
    BY <2>1, <1>live
  <2>2. CASE g.id \in Live
    BY <2>2, <1>known DEF RecordInv, Live
  <2>3. CASE g.id = row[r].id
    BY <1>src, <2>3, <1>ids, <1>known
  <2>4. CASE \E a \in Aliases : g.id = found[r][a].id
    BY <1>src, <2>4, <1>ids, <1>known
  <2> QED
    BY <1>src, <2>1, <2>2, <2>3, <2>4 DEF Source
<1>1. ASSUME NEW r \in Recorders
      PROVE  KnownGlimpse(row[r])' /\ \A a \in Aliases : KnownGlimpse(found[r][a])'
  <2>1. CASE row'[r] = row[r] /\ found'[r] = found[r]
    BY <2>1, <1>ids, <1>known DEF KnownGlimpse
  <2>2. CASE OwnStep(r)
    BY <2>2, <1>src DEF OwnStep, KnownGlimpse
  <2> QED
    BY <2>1, <2>2, <1>act DEF OwnStep
\* A row a recorder had found, and still finds, has moved forward only.
<1>still. ASSUME NEW r \in Recorders, row[r].id # Nothing, row[r].id \in Live'
          PROVE  row[r].id \in Live /\ LivesOn(rows[row[r].id], rows'[row[r].id])
  BY <1>still, <1>ids, NoReturn
<1>rank. \A i \in Live : /\ rows[i].status \in Statuses /\ Rank(rows[i].status) \in Nat
                         /\ rows[i].watermark \in Nat
  <2>1. \A i \in Live : rows[i] \in OrderRow /\ rows[i].status \in Statuses
    BY <1>t DEF TypeOK, Live, RecordInv, RowSound
  <2> QED
    BY <2>1, Ranks DEF OrderRow
<1>rank2. \A i \in Live' : /\ rows'[i].status \in Statuses /\ Rank(rows'[i].status) \in Nat
                           /\ rows'[i].watermark \in Nat
  <2>1. \A i \in Live' : rows'[i] \in OrderRow /\ rows'[i].status \in Statuses
    BY <1>t, <1>live DEF TypeOK, Live, RowSound
  <2> QED
    BY <2>1, Ranks DEF OrderRow
<1>rank3. \A r \in Recorders : report[r].status \in Statuses /\ Rank(report[r].status) \in Nat
  BY <1>rep, Ranks DEF Report
<1>2. ASSUME NEW r \in Recorders PROVE Written(r)'
  <2> DEFINE i == row[r].id
  <2>1. CASE pc'[r] = pc[r] /\ row'[r] = row[r] /\ report'[r] = report[r]
    <3>1. Written(r)
      BY DEF RecordInv
    <3>2. ASSUME pc[r] \in {"watermark", "observe"}, i \in Live'
          PROVE  Rank(rows'[i].status) >= Rank(report[r].status)
      <4>1. i # Nothing
        BY <3>1, <3>2 DEF Written
      <4>2. i \in Live /\ LivesOn(rows[i], rows'[i])
        BY <3>2, <4>1, <1>still
      <4>3. Rank(rows[i].status) >= Rank(report[r].status)
        BY <3>1, <3>2, <4>2 DEF Written
      <4> QED
        BY <3>2, <4>2, <4>3, <1>rank, <1>rank2, <1>rank3 DEF LivesOn
    <3>3. ASSUME pc[r] = "observe", i \in Live'
          PROVE  rows'[i].watermark >= report[r].filled
      <4>1. i # Nothing
        BY <3>1, <3>3 DEF Written
      <4>2. i \in Live /\ LivesOn(rows[i], rows'[i])
        BY <3>3, <4>1, <1>still
      <4>3. rows[i].watermark >= report[r].filled
        BY <3>1, <3>3, <4>2 DEF Written
      <4> QED
        BY <3>3, <4>2, <4>3, <1>rank, <1>rank2, <1>rep DEF LivesOn
    <3> QED
      BY <2>1, <3>1, <3>2, <3>3 DEF Written
  <2>2. CASE OwnStep(r)
    <3>1. ASSUME pc'[r] = "watermark" PROVE Written(r)'
      <4>1. WriteStatus(r) /\ row'[r] = row[r] /\ report'[r] = report[r]
        BY <2>2, <3>1 DEF OwnStep, WriteStatus
      <4>2. i # Nothing
        BY <4>1 DEF RecordInv, Written, WriteStatus
      <4>3. ASSUME i \in Live' PROVE Rank(rows'[i].status) >= Rank(report[r].status)
        <5>1. i \in Live /\ i \in Recorders /\ rows \in [Recorders -> OrderRow]
          BY <4>2, <4>3, <1>still, <1>ids, <1>t DEF TypeOK
        <5>2. CASE report[r].status # "submitted" /\ rows[i].status \in Overridden(report[r].status)
          <6>1. rows' = [rows EXCEPT ![i].status = report[r].status]
            BY <4>1, <5>2 DEF WriteStatus
          <6>2. rows'[i].status = report[r].status
            BY <5>1, <6>1 DEF OrderRow
          <6> QED
            BY <6>2, <1>rank3
        <5>3. CASE ~(report[r].status # "submitted" /\ rows[i].status \in Overridden(report[r].status))
          <6>1. rows' = rows
            BY <4>1, <5>3 DEF WriteStatus
          <6>2. Rank(rows[i].status) >= Rank(report[r].status)
            BY <5>1, <5>3, <1>rank, <1>rank3 DEF Overridden, Statuses, Rank
          <6> QED
            BY <6>1, <6>2
        <5> QED
          BY <5>2, <5>3
      <4> QED
        BY <3>1, <4>1, <4>2, <4>3 DEF Written
    <3>2. ASSUME pc'[r] = "observe" PROVE Written(r)'
      <4>1. Advance(r) /\ row'[r] = row[r] /\ report'[r] = report[r]
        BY <2>2, <3>2 DEF OwnStep, Advance
      <4>2. i # Nothing
        BY <4>1 DEF RecordInv, Written, Advance
      <4>3. ASSUME i \in Live'
            PROVE  /\ Rank(rows'[i].status) >= Rank(report[r].status)
                   /\ rows'[i].watermark >= report[r].filled
        <5>1. i \in Live /\ LivesOn(rows[i], rows'[i])
          BY <4>2, <4>3, <1>still
        <5>2. i \in Recorders /\ rows \in [Recorders -> OrderRow]
          BY <4>2, <1>ids, <1>t DEF TypeOK
        <5>3. Rank(rows[i].status) >= Rank(report[r].status)
          BY <4>1, <5>1 DEF RecordInv, Written, Advance
        <5>4. Rank(rows'[i].status) >= Rank(report[r].status)
          BY <4>3, <5>1, <5>3, <1>rank, <1>rank2, <1>rank3 DEF LivesOn
        <5>5. CASE rows[i].watermark < report[r].filled
          <6>1. rows' = [rows EXCEPT ![i].watermark = report[r].filled, ![i].fill = report[r].filled]
            BY <4>1, <5>1, <5>5 DEF Advance
          <6>2. rows'[i].watermark = report[r].filled
            BY <5>2, <6>1 DEF OrderRow
          <6> QED
            BY <5>4, <6>2, <1>rep
        <5>6. CASE ~(rows[i].watermark < report[r].filled)
          <6>1. rows' = rows
            BY <4>1, <5>1, <5>6 DEF Advance
          <6> QED
            BY <5>1, <5>4, <5>6, <6>1, <1>rank, <1>rep
        <5> QED
          BY <5>5, <5>6
      <4> QED
        BY <3>2, <4>1, <4>2, <4>3 DEF Written
    <3>3. CASE pc'[r] \notin {"watermark", "observe"}
      BY <2>2, <3>3 DEF OwnStep, Written
    <3> QED
      BY <3>1, <3>2, <3>3
  <2> QED
    BY <2>1, <2>2, <1>act DEF OwnStep
<1>3. FillsStayRecorded'
  <2> SUFFICES ASSUME NEW r \in Recorders \ Stampers, pc'[r] = "done", report'[r].filled > 0
               PROVE  \E i \in Live' :
                        /\ rows'[i].watermark >= report'[r].filled
                        /\ rows'[i].fill = rows'[i].watermark
                        /\ report'[r].filled \in rows'[i].seen
                        /\ Rank(rows'[i].status) >= Rank(report'[r].status)
    BY DEF FillsStayRecorded, Recorded
  <2>1. CASE pc[r] = "done"
    <3>1. report'[r] = report[r]
      BY <2>1, <1>begun
    <3>2. PICK i \in Live : /\ rows[i].watermark >= report[r].filled
                            /\ report[r].filled \in rows[i].seen
                            /\ Rank(rows[i].status) >= Rank(report[r].status)
      BY <2>1, <3>1 DEF RecordInv, FillsStayRecorded, Recorded
    <3>3. PICK j \in Live' : LivesOn(rows[i], rows'[j])
      BY <1>rows
    <3>4. rows'[j].watermark >= report[r].filled
      BY <3>2, <3>3, <1>rank, <1>rank2, <1>rep DEF LivesOn
    <3>5. report[r].filled \in rows'[j].seen
      BY <3>2, <3>3 DEF LivesOn
    <3>6. Rank(rows'[j].status) >= Rank(report[r].status)
      BY <3>2, <3>3, <1>rank, <1>rank2, <1>rank3 DEF LivesOn
    <3>7. rows'[j].fill = rows'[j].watermark
      <4>1. rows'[j].watermark > 0
        BY <3>1, <3>4, <1>rank2, <1>rep
      <4> QED
        BY <4>1, <1>live DEF RowSound
    <3> QED
      BY <3>1, <3>4, <3>5, <3>6, <3>7
  <2>2. CASE pc[r] # "done"
    <3> DEFINE i == row[r].id
    <3>1. OwnStep(r)
      BY <2>2, <1>act DEF OwnStep
    <3>2. pc[r] # "idle" => report'[r] = report[r]
      BY <1>begun
    <3>3. pc[r] # "idle"
      BY <3>1 DEF OwnStep
    <3>4. report'[r] = report[r] /\ report[r].filled > 0
      BY <3>2, <3>3
    <3>5. Observe(r)
      BY <3>1, <3>4, <1>rep DEF OwnStep
    <3>6. /\ pc[r] = "observe" /\ i \in Live /\ i \in Recorders
          /\ rows' = [rows EXCEPT ![i].seen = @ \cup {report[r].filled}]
      BY <3>5 DEF Observe, Live
    <3>7. rows[i] \in OrderRow /\ RowSound(rows[i]) /\ rows \in [Recorders -> OrderRow]
      BY <3>6, <1>t DEF RecordInv, TypeOK
    <3>8. /\ rows'[i].names = rows[i].names /\ rows'[i].status = rows[i].status
          /\ rows'[i].watermark = rows[i].watermark /\ rows'[i].fill = rows[i].fill
          /\ report[r].filled \in rows'[i].seen
      BY <3>6, <3>7 DEF OrderRow
    <3>9. i \in Live'
      BY <3>6, <3>7, <3>8 DEF Live, RowSound, Gone
    <3>10. /\ rows[i].watermark >= report[r].filled
           /\ Rank(rows[i].status) >= Rank(report[r].status)
      BY <3>6 DEF RecordInv, Written
    <3>11. rows[i].fill = rows[i].watermark
      BY <3>4, <3>6, <3>7, <3>10, <1>rank, <1>rep DEF RowSound
    <3> QED
      BY <3>4, <3>8, <3>9, <3>10, <3>11
  <2> QED
    BY <2>1, <2>2
<1> QED
  BY <1>t, <1>live, <1>1, <1>2, <1>3 DEF RecordInv

\* The invariant of any number of recorders, whatever the broker reports.
LEMMA Invariant == Spec => []RecordInv
<1>1. RecordInv /\ [Next]_vars => RecordInv'
  BY InvStep
<1> QED
  BY <1>1, InitInv, PTL DEF Spec

-----------------------------------------------------------------------------
\* Type correctness: rows, recorders and what they refer to stay of their kinds.
THEOREM TypeCorrect == Spec => []TypeOK
<1>1. RecordInv => TypeOK
  BY DEF RecordInv
<1> QED
  BY <1>1, Invariant, PTL

\* record and recordFillProgress, with mergeIdentityRows under them: a fill whose
\* record returned stays on the books, whoever records whatever at the same time.
THEOREM FillsRecorded == Spec => []FillsStayRecorded
<1>1. RecordInv => FillsStayRecorded
  BY DEF RecordInv
<1> QED
  BY <1>1, Invariant, PTL

\* "Status only moves FORWARD": no statement of any recorder takes back what a row
\* of the order said; a row that goes away lives on in the one it was merged into.
THEOREM NeverBack == Spec => NeverFallsBack
<1>1. RecordInv /\ [Next]_vars => [\A i \in Live : \E j \in Live' : LivesOn(rows[i], rows'[j])]_vars
  BY RowsLiveOn
<1> QED
  BY <1>1, Invariant, PTL DEF Spec, NeverFallsBack

-----------------------------------------------------------------------------
(* One row in the end: the names of the rows.                              *)

\* Two aliases make an order whole.
LEMMA TwoAliases ==
  ASSUME NEW s \in SUBSET Aliases, NEW t \in SUBSET Aliases, s # {}, t # {}, s \cap t = {}
  PROVE  s \cup t = Aliases
BY DEF Aliases

\* Only the merge, attachIdentity and the create write aliases.
LEMMA NamesKept ==
  ASSUME TypeOK, NEW r \in Recorders, NEW k \in Recorders,
         WriteStatus(r) \/ Advance(r) \/ Observe(r) \/ Stamp(r)
  PROVE  rows'[k].names = rows[k].names
<1>fun. rows \in [Recorders -> OrderRow] /\ rows[k] \in OrderRow
  BY DEF TypeOK
<1>1. CASE WriteStatus(r)
  BY <1>1, <1>fun DEF WriteStatus, OrderRow
<1>2. CASE Advance(r)
  BY <1>2, <1>fun DEF Advance, OrderRow
<1>3. CASE Observe(r)
  BY <1>3, <1>fun DEF Observe, OrderRow
<1>4. CASE Stamp(r)
  BY <1>4, <1>fun DEF Stamp, OrderRow
<1> QED
  BY <1>1, <1>2, <1>3, <1>4

\* How the names in the table change: not; one row gets aliases nobody else has;
\* two rows become one that has them all; a new row has aliases nobody had.
SameNames == Live' = Live /\ \A i \in Live : rows'[i].names = rows[i].names
Named(i, new) ==
  /\ Live' = Live /\ rows'[i].names = rows[i].names \cup new
  /\ \A j \in Live \ {i} : rows[j].names \cap new = {} /\ rows'[j].names = rows[j].names
MadeWhole(i, j) ==
  /\ i # j /\ Live' = Live \ {j} /\ rows'[i].names = Aliases
  /\ \A k \in Live \ {i, j} : rows'[k].names = rows[k].names
Begun(r) ==
  /\ r \notin Live /\ Live' = Live \cup {r} /\ pc'[r] = "look"
  /\ rows'[r].names = report[r].names
  /\ \A j \in Live : rows[j].names \cap report[r].names = {} /\ rows'[j].names = rows[j].names

\* A recorder's merge, attachIdentity and create are of these kinds.
LEMMA MergeNames ==
  ASSUME OneRowInv, NEW r \in Recorders, NEW i \in Live, NEW j \in Live, i # j,
         NEW n \in SUBSET Aliases,
         rows' = [rows EXCEPT ![i] = Merged(i, j, n), ![j] = Gone]
  PROVE  MadeWhole(i, j) /\ Merged(i, j, n).names = Aliases
<1>t. TypeOK
  BY DEF OneRowInv, RecordInv
<1>1. /\ i \in Recorders /\ j \in Recorders /\ rows \in [Recorders -> OrderRow]
      /\ rows[i].names \in SUBSET Aliases /\ rows[j].names \in SUBSET Aliases
  BY <1>t DEF Live, TypeOK, OrderRow
<1>2. rows[i].names # {} /\ rows[j].names # {} /\ rows[i].names \cap rows[j].names = {}
  BY DEF OneRowInv, RecordInv, RowSound, Apart
<1>3. rows[i].names \cup rows[j].names = Aliases
  BY <1>1, <1>2, TwoAliases
<1>4. Merged(i, j, n).names = Aliases
  BY <1>3 DEF Merged
<1> DEFINE m == Merged(i, j, n)
<1>5. m # Gone
  BY <1>4 DEF Gone, Aliases
<1> HIDE DEF m
<1>6. rows'[i] = m /\ rows'[j] = Gone /\ \A k \in Recorders \ {i, j} : rows'[k] = rows[k]
  BY <1>1 DEF m
<1>7. Live' = Live \ {j}
  BY <1>1, <1>5, <1>6 DEF Live
<1>8. rows'[i].names = Aliases
  BY <1>4, <1>6 DEF m
<1>9. \A k \in Live \ {i, j} : rows'[k].names = rows[k].names
  BY <1>6 DEF Live
<1> QED
  BY <1>4, <1>7, <1>8, <1>9 DEF MadeWhole

LEMMA AttachNames ==
  ASSUME OneRowInv, NEW r \in Recorders, Attach(r), ~Throw(r)
  PROVE  LET i == row[r].id
             new == report[r].names \ row[r].names
         IN  /\ i \in Live /\ row[r].names \cup new = Aliases
             /\ Settle(r, [id |-> i, names |-> row[r].names \cup new])
             /\ rows'[i].names = Aliases /\ Named(i, new)
<1> DEFINE i == row[r].id
           new == report[r].names \ row[r].names
<1>t. TypeOK
  BY DEF OneRowInv, RecordInv
<1>1. /\ pc[r] = "attach" /\ i \in Live /\ \A a \in new : Holder(a) \in {i, Nothing}
      /\ rows' = [rows EXCEPT ![i].names = @ \cup new]
      /\ Settle(r, [id |-> i, names |-> row[r].names \cup new])
  BY DEF Attach
<1>2. /\ i \in Recorders /\ i # Nothing /\ rows \in [Recorders -> OrderRow]
      /\ rows[i].names \in SUBSET Aliases /\ new \in SUBSET Aliases
      /\ Live \subseteq Recorders
  <2>1. report[r].names \in SUBSET Aliases /\ Live \subseteq Recorders
    BY <1>t, Typed
  <2> QED
    BY <1>1, <1>t, <2>1, RecordAssumption DEF TypeOK, OrderRow
<1>3. new # {} /\ row[r].names # {} /\ row[r].names \subseteq rows[i].names
  BY <1>1, <1>2 DEF OneRowInv, Converging, TrueGlimpse
<1>4. row[r].names \cup new = Aliases
  <2>1. row[r].names \in SUBSET Aliases /\ row[r].names \cap new = {}
    BY <1>2, <1>3
  <2> QED
    BY <1>2, <1>3, <2>1, TwoAliases
<1>5. rows'[i] = [rows[i] EXCEPT !.names = @ \cup new] /\ \A j \in Recorders \ {i} : rows'[j] = rows[j]
  BY <1>1, <1>2
<1>6. rows'[i].names = rows[i].names \cup new
  BY <1>2, <1>5 DEF OrderRow
<1>7. rows'[i].names = Aliases
  BY <1>2, <1>3, <1>4, <1>6
<1>8. Live' = Live
  <2>1. rows'[i] # Gone
    BY <1>7 DEF Gone, Aliases
  <2> QED
    BY <1>1, <1>2, <1>5, <2>1 DEF Live
<1>9. ASSUME NEW j \in Live \ {i}, NEW a \in new PROVE a \notin rows[j].names
  <2>1. SUFFICES ASSUME a \in rows[j].names PROVE FALSE
    OBVIOUS
  <2>2. Holder(a) # Nothing
    BY <1>2, <1>9, <1>t, <2>1, Held
  <2>3. Holder(a) = i
    BY <1>1, <1>9, <2>2
  <2>4. a \in rows[i].names
    <3>1. \E k \in Live : a \in rows[k].names
      BY <1>9, <2>1
    <3> QED
      BY <2>3, <3>1 DEF Holder
  <2> QED
    BY <1>1, <1>9, <2>1, <2>4 DEF OneRowInv, Apart
<1>10. \A j \in Live \ {i} : rows[j].names \cap new = {} /\ rows'[j].names = rows[j].names
  BY <1>2, <1>5, <1>9
<1>11. Named(i, new)
  BY <1>6, <1>8, <1>10 DEF Named
<1> QED
  BY <1>1, <1>4, <1>7, <1>11

LEMMA CreateNames ==
  ASSUME OneRowInv, NEW r \in Recorders, Create(r),
         {Holder(a) : a \in report[r].names} \ {Nothing} = {}
  PROVE  Begun(r) /\ row'[r] = [id |-> r, names |-> report[r].names]
<1>t. TypeOK
  BY DEF OneRowInv, RecordInv
<1> DEFINE new == [names |-> report[r].names, status |-> report[r].status, watermark |-> 0,
                   fill |-> IF r \in Stampers THEN report[r].filled ELSE 0,
                   seen |-> {}, anchored |-> r \in Stampers]
<1>1. /\ {Holder(a) : a \in report[r].names} \ {Nothing} = {}
      /\ rows' = [rows EXCEPT ![r] = new] /\ pc' = [pc EXCEPT ![r] = "look"]
      /\ row' = [row EXCEPT ![r] = [id |-> r, names |-> report[r].names]]
  BY DEF Create, Goto, Point
<1>2. new.names = report[r].names
  OBVIOUS
<1> HIDE DEF new
<1>3. /\ rows \in [Recorders -> OrderRow] /\ pc \in [Recorders -> Phases]
      /\ row \in [Recorders -> Glimpses] /\ Live \subseteq Recorders
  BY <1>t, Typed DEF TypeOK
<1>4. rows'[r] = new /\ pc'[r] = "look" /\ \A j \in Recorders \ {r} : rows'[j] = rows[j]
  BY <1>1, <1>3
<1>5. report[r].names # {} /\ report[r].names \subseteq Aliases
  <2>1. report[r].names \in (SUBSET Aliases) \ {{}}
    BY <1>t, Typed DEF Report
  <2> QED
    BY <2>1
<1>6. \A j \in Live : rows[j].names \cap report[r].names = {}
  <2>1. ASSUME NEW a \in report[r].names PROVE \A j \in Live : a \notin rows[j].names
    <3>1. Holder(a) = Nothing
      BY <1>1
    <3> QED
      BY <1>t, <1>5, <3>1, Held
  <2> QED
    BY <2>1
<1>7. r \notin Live
  <2>1. SUFFICES ASSUME r \in Live PROVE FALSE
    OBVIOUS
  <2>2. \A a \in report[r].names : \E j \in Live : a \in rows[j].names
    BY <2>1 DEF OneRowInv, RecordInv, Known
  <2> QED
    BY <1>5, <1>6, <2>2
<1>8. Live' = Live \cup {r}
  <2>1. new # Gone
    BY <1>2, <1>5 DEF Gone
  <2> QED
    BY <1>3, <1>4, <2>1 DEF Live
<1>9. row'[r] = [id |-> r, names |-> report[r].names]
  BY <1>1, <1>3
<1> QED
  BY <1>2, <1>3, <1>4, <1>6, <1>7, <1>8, <1>9 DEF Begun

\* Every step changes the names in one of these ways.
LEMMA NamesStep ==
  ASSUME OneRowInv, [Next]_vars
  PROVE  \/ SameNames
         \/ \E i \in Live, new \in SUBSET Aliases : Named(i, new) /\ rows'[i].names = Aliases
         \/ \E i, j \in Live : MadeWhole(i, j)
         \/ \E r \in Recorders : Begun(r)
<1> DEFINE Goal ==
      \/ SameNames
      \/ \E i \in Live, new \in SUBSET Aliases : Named(i, new) /\ rows'[i].names = Aliases
      \/ \E i, j \in Live : MadeWhole(i, j)
      \/ \E r \in Recorders : Begun(r)
<1> SUFFICES Goal
  OBVIOUS
<1>t. TypeOK /\ RecordInv
  BY DEF OneRowInv, RecordInv
<1>rep. \A r \in Recorders : report[r].names \in SUBSET Aliases
  BY <1>t, Typed
<1>0. ASSUME rows' = rows PROVE Goal
  BY <1>0 DEF SameNames, Live
<1>1. ASSUME NEW r \in Recorders, MergeSplit(r) PROVE Goal
  <2> DEFINE left == Pair(r) \cap Live
  <2>1. CASE rows' = rows
    BY <2>1, <1>0
  <2>2. CASE rows' # rows
    <3>1. PICK keep \in left, drop \in left :
            keep # drop /\ rows' = [rows EXCEPT ![keep] = Merged(keep, drop, report[r].names), ![drop] = Gone]
      BY <1>1, <2>2 DEF MergeSplit, Throw
    <3>2. keep \in Live /\ drop \in Live /\ keep # drop
      BY <3>1
    <3>3. MadeWhole(keep, drop)
      BY <3>1, <3>2, <1>rep, MergeNames
    <3> QED
      BY <3>2, <3>3
  <2> QED
    BY <2>1, <2>2
<1>2. ASSUME NEW r \in Recorders, Attach(r) PROVE Goal
  <2>1. CASE Throw(r)
    BY <2>1, <1>0 DEF Throw
  <2>2. CASE ~Throw(r)
    <3> DEFINE i == row[r].id
               new == report[r].names \ row[r].names
    <3>1. i \in Live /\ Named(i, new) /\ rows'[i].names = Aliases
      BY <1>2, <2>2, AttachNames
    <3>2. new \in SUBSET Aliases
      BY <1>rep
    <3> QED
      BY <3>1, <3>2
  <2> QED
    BY <2>1, <2>2
<1>3. ASSUME NEW r \in Recorders, Create(r) PROVE Goal
  <2>1. CASE {Holder(a) : a \in report[r].names} \ {Nothing} = {}
    BY <1>3, <2>1, CreateNames
  <2>2. CASE {Holder(a) : a \in report[r].names} \ {Nothing} # {}
    BY <1>3, <2>2, <1>0 DEF Create
  <2> QED
    BY <2>1, <2>2
<1>4. ASSUME NEW r \in Recorders, WriteStatus(r) \/ Advance(r) \/ Observe(r) \/ Stamp(r)
      PROVE  Goal
  <2>1. \A k \in Recorders : rows'[k].names = rows[k].names
    BY <1>4, <1>t, NamesKept
  <2>2. \A k \in Live : rows[k].names # {}
    BY <1>t DEF RecordInv, RowSound
  <2>3. \A k \in Live' : rows'[k].names # {}
    BY <1>t, RowsLiveOn DEF RowSound
  <2>4. Gone.names = {}
    BY DEF Gone
  <2>5. Live \subseteq Live'
    BY <2>1, <2>2, <2>4 DEF Live
  <2>6. Live' \subseteq Live
    BY <2>1, <2>3, <2>4 DEF Live
  <2>7. SameNames
    BY <2>1, <2>5, <2>6 DEF SameNames, Live
  <2> QED
    BY <2>7
<1>5. ASSUME NEW r \in Recorders,
             \/ Start(r) \/ Skip(r) \/ (\E a \in Aliases : Look(r, a)) \/ Pick(r) \/ Match(r)
             \/ ObserveFails(r) \/ Fails(r)
      PROVE  Goal
  BY <1>5, <1>0 DEF Start, Skip, Look, Pick, Match, ObserveFails, Fails, Throw
<1>6. CASE WriteAudit \/ UNCHANGED vars
  BY <1>6, <1>0 DEF WriteAudit, vars
<1> QED
  BY <1>1, <1>2, <1>3, <1>4, <1>5, <1>6 DEF Next, Record, Converge

\* What a recorder saw stays true: g is whatever it remembers.
TrueStill(g) ==
  g.id # Nothing =>
    /\ g.names # {}
    /\ IF g.id \in Live' THEN g.names \subseteq rows'[g.id].names ELSE Whole'

\* A whole order stays whole, rows stay apart, the table does not become empty, and
\* what was seen of a row stays true; two rows are two that were, or a new one's.
LEMMA RowsConverge ==
  ASSUME OneRowInv, [Next]_vars
  PROVE  /\ Whole => Whole' /\ Live' = Live
         /\ Apart'
         /\ Live # {} => Live' # {}
         /\ \A g \in Glimpses \cup {Unread} : TrueGlimpse(g) => TrueStill(g)
         /\ (\E i, j \in Live' : i # j) =>
              (\E i, j \in Live : i # j) \/ \E r \in Recorders : pc'[r] = "look"
<1>t. TypeOK /\ RecordInv /\ Apart
  BY DEF OneRowInv, RecordInv
<1>live. \A i \in Live : /\ i \in Recorders /\ i # Nothing
                         /\ rows[i].names # {} /\ rows[i].names \subseteq Aliases
  BY <1>t, RecordAssumption DEF Live, TypeOK, OrderRow, RecordInv, RowSound
<1>alone. Whole => \E i \in Live : Live = {i} /\ rows[i].names = Aliases
  <2>1. ASSUME NEW i \in Live, rows[i].names = Aliases PROVE Live = {i}
    BY <1>live, <1>t, <2>1 DEF Apart
  <2> QED
    BY <2>1 DEF Whole
<1>id. \A g \in Glimpses \cup {Unread} : g.id \in Recorders \cup {Nothing}
  BY DEF Glimpses, NotThere, Unread
<1> DEFINE Goal == /\ Whole => Whole' /\ Live' = Live
                   /\ Apart'
                   /\ Live # {} => Live' # {}
                   /\ \A g \in Glimpses \cup {Unread} : TrueGlimpse(g) => TrueStill(g)
                   /\ (\E i, j \in Live' : i # j) =>
                        (\E i, j \in Live : i # j) \/ \E r \in Recorders : pc'[r] = "look"
<1>1. CASE SameNames
  <2>1. Live' = Live /\ \A i \in Live : rows'[i].names = rows[i].names
    BY <1>1 DEF SameNames
  <2>2. Whole => Whole'
    BY <2>1 DEF Whole
  <2>3. Apart'
    BY <1>t, <2>1 DEF Apart
  <2>4. \A g : TrueGlimpse(g) => TrueStill(g)
    BY <2>1, <2>2 DEF TrueGlimpse, TrueStill
  <2> QED
    BY <2>1, <2>2, <2>3, <2>4
<1>2. ASSUME NEW i \in Live, NEW new \in SUBSET Aliases, Named(i, new), rows'[i].names = Aliases
      PROVE  Goal
  <2>1. /\ Live' = Live /\ rows'[i].names = rows[i].names \cup new
        /\ \A j \in Live \ {i} : rows[j].names \cap new = {} /\ rows'[j].names = rows[j].names
    BY <1>2 DEF Named
  <2>2. Whole'
    BY <1>2, <2>1 DEF Whole
  <2>3. Apart'
    BY <1>t, <2>1 DEF Apart
  <2>4. \A g : TrueGlimpse(g) => TrueStill(g)
    BY <2>1, <2>2 DEF TrueGlimpse, TrueStill
  <2> QED
    BY <2>1, <2>2, <2>3, <2>4
<1>3. ASSUME NEW i \in Live, NEW j \in Live, MadeWhole(i, j) PROVE Goal
  <2>1. /\ i # j /\ Live' = Live \ {j} /\ rows'[i].names = Aliases
        /\ \A k \in Live \ {i, j} : rows'[k].names = rows[k].names
    BY <1>3 DEF MadeWhole
  <2>2. Whole'
    BY <2>1 DEF Whole
  <2>3. Live = {i, j}
    <3>1. rows[i].names \cup rows[j].names = Aliases
      <4>1. rows[i].names \cap rows[j].names = {} /\ rows[i].names # {} /\ rows[j].names # {}
        BY <2>1, <1>t, <1>live DEF Apart
      <4>2. rows[i].names \in SUBSET Aliases /\ rows[j].names \in SUBSET Aliases
        BY <1>live
      <4> QED
        BY <4>1, <4>2, TwoAliases
    <3>2. ASSUME NEW k \in Live, k # i, k # j PROVE FALSE
      <4>1. /\ rows[k].names \cap rows[i].names = {} /\ rows[k].names \cap rows[j].names = {}
            /\ rows[k].names # {} /\ rows[k].names \subseteq Aliases
        BY <3>2, <1>t, <1>live DEF Apart
      <4> QED
        BY <3>1, <4>1
    <3> QED
      BY <3>2
  <2>4. ~Whole
    BY <1>alone, <2>1
  <2>5. Live' = {i}
    BY <2>1, <2>3
  <2>6. Apart'
    BY <2>5 DEF Apart
  <2>7. ASSUME NEW g \in Glimpses \cup {Unread}, TrueGlimpse(g) PROVE TrueStill(g)
    <3>1. g.id = i => g.names \subseteq rows'[i].names
      <4>1. g.id = i => g.names \subseteq rows[i].names
        BY <2>7, <1>live DEF TrueGlimpse
      <4> QED
        BY <4>1, <2>1, <1>live
    <3> QED
      BY <2>2, <2>5, <2>7, <3>1 DEF TrueGlimpse, TrueStill
  <2> QED
    BY <2>1, <2>4, <2>5, <2>6, <2>7
<1>4. ASSUME NEW r \in Recorders, Begun(r) PROVE Goal
  <2>1. /\ r \notin Live /\ Live' = Live \cup {r} /\ pc'[r] = "look"
        /\ rows'[r].names = report[r].names
        /\ \A j \in Live : rows[j].names \cap report[r].names = {} /\ rows'[j].names = rows[j].names
    BY <1>4 DEF Begun
  <2>2. ~Whole
    <3>1. report[r].names \in (SUBSET Aliases) \ {{}}
      BY <1>t, Typed DEF Report
    <3> QED
      BY <2>1, <3>1 DEF Whole
  <2>3. Apart'
    BY <1>t, <2>1 DEF Apart
  <2>4. \A g \in Glimpses \cup {Unread} : TrueGlimpse(g) => TrueStill(g)
    BY <2>1, <2>2 DEF TrueGlimpse, TrueStill
  <2> QED
    BY <2>1, <2>2, <2>3, <2>4
<1> QED
  BY <1>1, <1>2, <1>3, <1>4, NamesStep

-----------------------------------------------------------------------------
(* One row in the end: the recorders.                                      *)

TwoRows == \E i, j \in Live : i # j
AllNear == \A r \in Recorders : report[r].near

\* A whole order is one row, and has no second.
LEMMA WholeIsOne == ASSUME OneRowInv, Whole PROVE ~TwoRows
<1>1. PICK i \in Live : rows[i].names = Aliases
  BY DEF Whole
<1>2. \A j \in Live : rows[j].names # {} /\ rows[j].names \subseteq Aliases
  BY DEF OneRowInv, RecordInv, RowSound, TypeOK, OrderRow, Live
<1>3. \A j \in Live : j = i
  BY <1>1, <1>2 DEF OneRowInv, Apart
<1> QED
  BY <1>3 DEF TwoRows

\* A recorder remembers what it has read, and reads rows as they are.
LEMMA Remembered ==
  ASSUME OneRowInv
  PROVE  /\ \A r \in Recorders :
              /\ row[r] \in Glimpses /\ TrueGlimpse(row[r])
              /\ \A a \in Aliases : /\ found[r][a] \in Glimpses \cup {Unread}
                                    /\ TrueGlimpse(found[r][a])
         /\ \A i \in Live : Glimpse(i) \in Glimpses /\ TrueGlimpse(Glimpse(i))
         /\ \A a \in Aliases : Glimpse(Holder(a)) \in Glimpses /\ TrueGlimpse(Glimpse(Holder(a)))
<1>t. TypeOK
  BY DEF OneRowInv, RecordInv
<1>1. ASSUME NEW r \in Recorders
      PROVE  /\ row[r] \in Glimpses /\ TrueGlimpse(row[r])
             /\ \A a \in Aliases : /\ found[r][a] \in Glimpses \cup {Unread}
                                   /\ TrueGlimpse(found[r][a])
  BY <1>t DEF TypeOK, OneRowInv, Converging
<1>2. ASSUME NEW i \in Live PROVE Glimpse(i) \in Glimpses /\ TrueGlimpse(Glimpse(i))
  <2>1. i \in Recorders /\ i # Nothing
    BY RecordAssumption DEF Live
  <2>2. rows[i].names # {}
    BY DEF OneRowInv, RecordInv, RowSound
  <2>3. Glimpse(i) = [id |-> i, names |-> rows[i].names]
    BY <2>1 DEF Glimpse
  <2> QED
    BY <1>t, <2>1, <2>2, <2>3, Typed DEF TrueGlimpse
<1>3. ASSUME NEW a \in Aliases
      PROVE  Glimpse(Holder(a)) \in Glimpses /\ TrueGlimpse(Glimpse(Holder(a)))
  <2>1. CASE Holder(a) = Nothing
    BY <2>1, <1>t, Typed DEF Glimpse, TrueGlimpse, NotThere
  <2>2. CASE Holder(a) \in Live
    BY <2>2, <1>2
  <2> QED
    BY <2>1, <2>2, <1>t, Typed
<1> QED
  BY <1>1, <1>2, <1>3

\* A true glimpse of all aliases is one of a whole order.
LEMMA SeenWhole ==
  ASSUME TypeOK', NEW g, TrueStill(g), g.id # Nothing, g.names = Aliases PROVE Whole'
<1>1. CASE g.id \in Live'
  <2>1. g.names \subseteq rows'[g.id].names /\ rows'[g.id].names \subseteq Aliases
    BY <1>1 DEF TrueStill, TypeOK, OrderRow, Live
  <2>2. rows'[g.id].names = Aliases
    BY <2>1
  <2> QED
    BY <1>1, <2>2 DEF Whole
<1> QED
  BY <1>1 DEF TrueStill

\* No recorder writes the audit row.
LEMMA AuditStays == ASSUME NEW r \in Recorders, Record(r) \/ Fails(r) PROVE audit' = audit
<1>1. ASSUME Throw(r) PROVE audit' = audit
  BY <1>1 DEF Throw
<1>2. ASSUME MergeSplit(r) \/ Attach(r) PROVE audit' = audit
  BY <1>1, <1>2 DEF MergeSplit, Attach
<1>3. ASSUME \/ Start(r) \/ Skip(r) \/ (\E a \in Aliases : Look(r, a))
             \/ Pick(r) \/ Match(r) \/ Create(r)
      PROVE  audit' = audit
  BY <1>3 DEF Start, Skip, Look, Pick, Match, Create
<1>4. ASSUME \/ WriteStatus(r) \/ Advance(r) \/ Observe(r) \/ ObserveFails(r)
             \/ Stamp(r) \/ Fails(r)
      PROVE  audit' = audit
  BY <1>1, <1>4 DEF WriteStatus, Advance, Observe, ObserveFails, Stamp, Fails
<1> QED
  BY <1>2, <1>3, <1>4 DEF Record, Converge

\* A recorder that nobody is making a step for stays as it is.
LEMMA BystanderConverges ==
  ASSUME OneRowInv, [Next]_vars, NEW r \in Recorders, pc'[r] = pc[r], row'[r] = row[r],
         found'[r] = found[r], report'[r] = report[r]
  PROVE  Converging(r)' /\ (Due(r) => Due(r)')
<1>1. audit' = "open" => audit = "open"
  BY AuditStays DEF Next, WriteAudit, vars
<1>2. Pair(r)' = Pair(r)
  BY DEF Pair
<1>3. TrueStill(row[r]) /\ \A a \in Aliases : TrueStill(found[r][a])
  BY Remembered, RowsConverge
<1>4. TrueGlimpse(row[r])' /\ \A a \in Aliases : TrueGlimpse(found[r][a])'
  BY <1>3 DEF TrueStill, TrueGlimpse
<1>5. Converging(r)
  BY DEF OneRowInv
<1> QED
  BY <1>1, <1>2, <1>4, <1>5, RowsConverge DEF Converging, Due

\* convergedIdentityRow that comes to a row it truly knows: it goes on with it, and past
\* it only under all the names of its report.
LEMMA SettleConverges ==
  ASSUME OneRowInv, NEW r \in Recorders, NEW g \in Glimpses, Settle(r, g), TrueStill(g),
         pc[r] # "idle", UNCHANGED <<audit, report>>
  PROVE  Converging(r)' /\ (Due(r)' \/ (g.id # Nothing /\ report[r].names \subseteq g.names))
<1>fun. /\ pc \in [Recorders -> Phases] /\ row \in [Recorders -> Glimpses]
        /\ found \in [Recorders -> [Aliases -> Glimpses \cup {Unread}]]
  BY DEF OneRowInv, RecordInv, TypeOK
<1>1. row'[r] = g /\ \A a \in Aliases : found'[r][a] = Unread
  BY <1>fun DEF Settle, Point, Forget
<1>2. \/ pc'[r] \in {"create", "look"}
      \/ pc'[r] = "attach" /\ report[r].names \ g.names # {}
      \/ /\ pc'[r] \in {"stamp", "status"}
         /\ g.id # Nothing /\ report[r].names \subseteq g.names
  BY <1>fun DEF Settle, Goto
<1>3. TrueGlimpse(row[r])' /\ \A a \in Aliases : TrueGlimpse(found[r][a])'
  BY <1>1 DEF TrueStill, TrueGlimpse, Unread
<1>4. r \in Stampers => audit' # "open"
  BY DEF OneRowInv, Converging
<1> QED
  BY <1>1, <1>2, <1>3, <1>4 DEF Converging, Due

\* A statement that fails sends the recorder back to its start, or away for good.
LEMMA ThrowConverges ==
  ASSUME OneRowInv, NEW r \in Recorders, Throw(r), pc[r] # "idle"
  PROVE  Converging(r)' /\ Due(r)'
<1>fun. /\ pc \in [Recorders -> Phases] /\ row \in [Recorders -> Glimpses]
        /\ found \in [Recorders -> [Aliases -> Glimpses \cup {Unread}]]
  BY DEF OneRowInv, RecordInv, TypeOK
<1>1. /\ row'[r] = NotThere /\ \A a \in Aliases : found'[r][a] = Unread
      /\ pc'[r] \in {"look", "failed"}
  BY <1>fun DEF Throw, Leave, Point, Forget, Goto
<1>2. TrueGlimpse(row[r])' /\ \A a \in Aliases : TrueGlimpse(found[r][a])'
  BY <1>1 DEF TrueGlimpse, Unread, NotThere
<1>3. r \in Stampers => audit' # "open"
  BY DEF OneRowInv, Converging, Throw
<1> QED
  BY <1>1, <1>2, <1>3 DEF Converging, Due

\* What mergeIdentityRows was called for are two rows, or one of them has gone and
\* the order is whole.
LEMMA PairOfTwo ==
  ASSUME OneRowInv, NEW r \in Recorders, pc[r] = "join" \/ (Looked(r) /\ Split(r))
  PROVE  \/ Whole
         \/ /\ Pair(r) \subseteq Live /\ Pair(r) # {} /\ Cardinality(Pair(r)) # 1
<1>t. TypeOK
  BY DEF OneRowInv, RecordInv
<1> DEFINE c == found[r]["client"].id
           b == found[r]["broker"].id
           w == row[r].id
<1>1. Pair(r) \subseteq {c, b, w}
  BY DEF Pair, Aliases
<1>2. \A i \in Pair(r) : i \in Live \/ Whole
  <2>1. ASSUME NEW i \in Pair(r) PROVE i \in Live \/ Whole
    <3>1. \E g : g.id = i /\ TrueGlimpse(g) /\ i # Nothing
      BY Remembered DEF Pair
    <3> QED
      BY <3>1 DEF TrueGlimpse
  <2> QED
    BY <2>1
<1>3. \E i, j \in Pair(r) : i # j
  <2>1. CASE pc[r] = "join"
    BY <2>1 DEF OneRowInv, Converging
  <2>2. CASE Looked(r) /\ Split(r)
    <3>1. c \in Pair(r) /\ b \in Pair(r) /\ c # b
      BY <2>2 DEF Split, Pair, Aliases
    <3> QED
      BY <3>1
  <2> QED
    BY <2>1, <2>2
<1>4. IsFiniteSet(Pair(r))
  <2>1. IsFiniteSet({c, b, w})
    <3>1. IsFiniteSet({w})
      BY FS_Singleton
    <3>2. IsFiniteSet({w} \cup {b})
      BY <3>1, FS_AddElement
    <3>3. IsFiniteSet(({w} \cup {b}) \cup {c})
      BY <3>2, FS_AddElement
    <3>4. {c, b, w} = ({w} \cup {b}) \cup {c}
      OBVIOUS
    <3> QED
      BY <3>3, <3>4
  <2> QED
    BY <1>1, <2>1, FS_Subset
<1>5. Cardinality(Pair(r)) # 1
  BY <1>3, <1>4, FS_Singleton
<1> QED
  BY <1>2, <1>3, <1>5

\* A recorder's first statement is still before the order's rows, or its last.
LEMMA FirstStatement ==
  ASSUME TypeOK, NEW r \in Recorders, Record(r) \/ Fails(r), pc[r] = "idle" PROVE Due(r)'
<1>1. Start(r) \/ Skip(r)
  <2>1. /\ ~(\E a \in Aliases : Look(r, a)) /\ ~MergeSplit(r) /\ ~Pick(r)
        /\ ~Match(r) /\ ~Attach(r)
    BY DEF Look, MergeSplit, Looked, Pick, Match, Attach
  <2>2. /\ ~Create(r) /\ ~WriteStatus(r) /\ ~Advance(r) /\ ~Observe(r) /\ ~ObserveFails(r)
        /\ ~Stamp(r) /\ ~Fails(r)
    BY DEF Create, WriteStatus, Advance, Observe, ObserveFails, Stamp, Fails
  <2> QED
    BY <2>1, <2>2 DEF Record, Converge
<1>2. pc'[r] \in {"look", "failed"}
  BY <1>1 DEF Start, Skip, Goto, TypeOK
<1> QED
  BY <1>2 DEF Due

\* Whoever makes a step goes on converging; while there are two rows of an audited
\* placement, all of it near, it does not come past them.
LEMMA ActorConverges ==
  ASSUME Reconciles, StampReport.names = {"client"}, OneRowInv, [Next]_vars,
         NEW r \in Recorders, Record(r) \/ Fails(r)
  PROVE  /\ Converging(r)'
         /\ audit = "done" /\ AllNear /\ TwoRows /\ Due(r) => Due(r)' \/ Whole'
<1> DEFINE Goal == /\ Converging(r)'
                   /\ audit = "done" /\ AllNear /\ TwoRows /\ Due(r) => Due(r)' \/ Whole'
<1>t. TypeOK /\ RecordInv /\ TypeOK'
  BY TypeStep DEF OneRowInv, RecordInv
<1>fun. /\ pc \in [Recorders -> Phases] /\ row \in [Recorders -> Glimpses]
        /\ found \in [Recorders -> [Aliases -> Glimpses \cup {Unread}]]
        /\ report \in [Recorders -> Reports \cup {StampReport}]
  BY <1>t DEF TypeOK
<1>rep. report[r].names # {} /\ report[r].names \subseteq Aliases
  <2>1. report[r].names \in (SUBSET Aliases) \ {{}}
    BY <1>t, Typed DEF Report
  <2> QED
    BY <2>1
<1>true. /\ TrueStill(row[r]) /\ \A a \in Aliases : TrueStill(found[r][a])
         /\ \A i \in Live : TrueStill(Glimpse(i))
         /\ \A a \in Aliases : TrueStill(Glimpse(Holder(a)))
  BY Remembered, RowsConverge
<1>stamper. r \in Stampers /\ audit = "open" => pc[r] = "idle"
  BY DEF OneRowInv, Converging
<1>fail. ASSUME Throw(r), pc[r] # "idle" PROVE Goal
  BY <1>fail, ThrowConverges
\* convergedIdentityRow comes to a row, under all names of the report or on to more.
<1>settle. ASSUME NEW g \in Glimpses, Settle(r, g), TrueStill(g), pc[r] # "idle",
                  UNCHANGED <<audit, report>>,
                  ~(AllNear /\ TwoRows) \/ Whole' \/ report[r].names = Aliases
                    \/ ~(report[r].names \subseteq g.names)
           PROVE  Goal
  <2>1. Converging(r)' /\ (Due(r)' \/ (g.id # Nothing /\ report[r].names \subseteq g.names))
    BY <1>settle, SettleConverges
  <2>2. ASSUME g.id # Nothing, report[r].names \subseteq g.names, report[r].names = Aliases
        PROVE  Whole'
    <3>1. g.names = Aliases
      <4>1. g.names \subseteq Aliases
        BY <2>2 DEF Glimpses, NotThere
      <4> QED
        BY <2>2, <4>1
    <3> QED
      BY <1>settle, <1>t, <2>2, <3>1, SeenWhole
  <2> QED
    BY <1>settle, <2>1, <2>2
<1> SUFFICES Goal
  OBVIOUS
<1> HIDE DEF Goal
<1>1. CASE Start(r) \/ Skip(r)
  <2>1. /\ pc' = [pc EXCEPT ![r] = "look"] \/ pc' = [pc EXCEPT ![r] = "failed"]
        /\ UNCHANGED <<rows, audit, found, row>>
        /\ r \in Stampers => audit # "open"
    BY <1>1 DEF Start, Skip, Goto
  <2>2. pc'[r] \in {"look", "failed"}
    BY <2>1, <1>fun
  <2>3. TrueGlimpse(row[r])' /\ \A a \in Aliases : TrueGlimpse(found[r][a])'
    BY <2>1, <1>true DEF TrueStill, TrueGlimpse
  <2> QED
    BY <2>1, <2>2, <2>3 DEF Goal, Converging, Due
<1>2. ASSUME NEW a \in Aliases, Look(r, a) PROVE Goal
  <2>1. /\ pc[r] = "look" /\ UNCHANGED <<pc, audit, row>>
        /\ found' = [found EXCEPT ![r][a] = Glimpse(Holder(a))]
    BY <1>2 DEF Look
  <2>2. \A b \in Aliases : TrueStill(found'[r][b])
    <3>1. \A b \in Aliases : found'[r][b] \in {found[r][b], Glimpse(Holder(a))}
      BY <2>1, <1>fun
    <3> QED
      BY <3>1, <1>true
  <2>3. TrueGlimpse(row[r])' /\ \A b \in Aliases : TrueGlimpse(found[r][b])'
    BY <2>1, <2>2, <1>true DEF TrueStill, TrueGlimpse
  <2> QED
    BY <2>1, <2>3, <1>stamper DEF Goal, Converging, Due
<1>3. CASE MergeSplit(r)
  <2> DEFINE left == Pair(r) \cap Live
  <2>1. pc[r] \in {"join", "look"} /\ (pc[r] = "join" \/ (Looked(r) /\ Split(r)))
    BY <1>3 DEF MergeSplit, Looked
  <2>2. CASE left = {}
    BY <1>3, <1>fail, <2>1, <2>2 DEF MergeSplit
  <2>3. ASSUME left # {}, Cardinality(left) = 1 PROVE Goal
    <3>1. PICK last \in left : Settle(r, Glimpse(last))
      BY <1>3, <2>3 DEF MergeSplit
    <3>2. UNCHANGED <<audit, report>>
      BY <1>3, <2>3 DEF MergeSplit
    <3>3. Whole
      <4>1. CASE Pair(r) \subseteq Live
        <5>1. left = Pair(r)
          BY <4>1
        <5> QED
          BY <2>1, <2>3, <5>1, PairOfTwo
      <4>2. CASE ~(Pair(r) \subseteq Live)
        BY <2>1, <4>2, PairOfTwo
      <4> QED
        BY <4>1, <4>2
    <3>4. Whole'
      BY <3>3, RowsConverge
    <3>5. Glimpse(last) \in Glimpses /\ TrueStill(Glimpse(last))
      BY Remembered, <1>true
    <3> QED
      BY <2>1, <3>1, <3>2, <3>4, <3>5, <1>settle
  <2>4. ASSUME left # {}, Cardinality(left) # 1 PROVE Goal
    <3>1. PICK keep \in left, drop \in left :
            /\ keep # drop
            /\ rows' = [rows EXCEPT ![keep] = Merged(keep, drop, report[r].names), ![drop] = Gone]
            /\ Settle(r, [id |-> keep, names |-> Merged(keep, drop, report[r].names).names])
            /\ UNCHANGED <<audit, report>>
      BY <1>3, <2>4 DEF MergeSplit
    <3>2. MadeWhole(keep, drop) /\ Merged(keep, drop, report[r].names).names = Aliases
      BY <3>1, <1>rep, MergeNames
    <3>3. keep \in Live' /\ rows'[keep].names = Aliases
      BY <3>1, <3>2 DEF MadeWhole
    <3>4. Whole'
      BY <3>3 DEF Whole
    <3> DEFINE g == [id |-> keep, names |-> Aliases]
    <3>5. g \in Glimpses
      BY <1>t, Typed DEF Glimpses
    <3>6. TrueStill(g)
      BY <3>3 DEF TrueStill, Aliases
    <3> QED
      BY <2>1, <3>1, <3>2, <3>4, <3>5, <3>6, <1>settle
  <2> QED
    BY <2>2, <2>3, <2>4
<1>4. CASE Pick(r)
  <2> DEFINE hits == {a \in report[r].names : found[r][a].id # Nothing}
             g == IF "broker" \in hits THEN found[r]["broker"]
                  ELSE IF "client" \in hits THEN found[r]["client"] ELSE row[r]
  <2>1. Compare(r, g) /\ UNCHANGED <<rows, audit, report>> /\ pc[r] = "look"
    BY <1>4 DEF Pick, Looked
  <2>2. g \in Glimpses /\ TrueStill(g)
    <3>1. \A a \in hits : a \in Aliases /\ found[r][a] \in Glimpses
      BY <1>rep, Remembered DEF Unread
    <3> QED
      BY <3>1, <1>true, Remembered
  <2> HIDE DEF g
  <2>3. CASE report[r].names # Aliases
    <3>1. Goto(r, "match") /\ Point(r, g) /\ Forget(r)
      BY <2>1, <2>3 DEF Compare
    <3>2. pc'[r] = "match" /\ row'[r] = g /\ \A a \in Aliases : found'[r][a] = Unread
      BY <3>1, <1>fun DEF Goto, Point, Forget
    <3>3. TrueGlimpse(row[r])' /\ \A a \in Aliases : TrueGlimpse(found[r][a])'
      BY <2>2, <3>2 DEF TrueStill, TrueGlimpse, Unread
    <3>4. report'[r].names # Aliases /\ (r \in Stampers => audit' # "open")
      BY <2>1, <2>3, <1>stamper
    <3> QED
      BY <3>2, <3>3, <3>4 DEF Goal, Converging, Due
  <2>4. CASE report[r].names = Aliases
    <3>1. Settle(r, g)
      BY <2>1, <2>4 DEF Compare
    <3> QED
      BY <2>1, <2>2, <2>4, <3>1, <1>settle
  <2> QED
    BY <2>3, <2>4
<1>5. CASE Match(r)
  <2>1. pc[r] = "match" /\ UNCHANGED <<rows, audit, report>> /\ report[r].names # Aliases
    BY <1>5 DEF Match, OneRowInv, Converging
  <2>2. \A o \in Candidates(r) : /\ o \in Live /\ o # Nothing /\ Glimpse(o).id = o
                                 /\ Glimpse(o).names = Aliases \ report[r].names
    BY RecordAssumption DEF Candidates, Glimpse, Live
  <2>3. CASE Candidates(r) = {} /\ Settle(r, row[r])
    <3>1. ASSUME audit = "done", AllNear, TwoRows PROVE FALSE
      <4>1. PICK i \in Live, j \in Live : i # j
        BY <3>1 DEF TwoRows
      <4>2. /\ rows[i].names # {} /\ rows[i].names \subseteq Aliases
            /\ rows[j].names # {} /\ rows[j].names \subseteq Aliases
            /\ rows[i].names \cap rows[j].names = {}
        BY <4>1, <1>t DEF OneRowInv, Apart, RecordInv, RowSound, TypeOK, OrderRow, Live
      <4>3. rows[i].names = Aliases \ report[r].names \/ rows[j].names = Aliases \ report[r].names
        BY <4>2, <1>rep, <2>1 DEF Aliases
      <4>4. /\ i \in Recorders /\ j \in Recorders
            /\ report[r].near /\ report[i].near /\ report[j].near
        BY <3>1, <4>1 DEF AllNear, Live
      <4>5. i \in Candidates(r) \/ j \in Candidates(r)
        BY <3>1, <4>1, <4>3, <4>4 DEF Candidates
      <4> QED
        BY <2>3, <4>5
    <3>2. Converging(r)'
      BY <2>1, <2>3, <1>true, Remembered, SettleConverges
    <3> QED
      BY <3>1, <3>2 DEF Goal
  <2>4. ASSUME NEW o \in Candidates(r), Settle(r, Glimpse(o)) PROVE Goal
    <3>1. Glimpse(o) \in Glimpses /\ TrueStill(Glimpse(o))
      BY <2>2, <1>true, Remembered
    <3>2. ~(report[r].names \subseteq Glimpse(o).names)
      BY <2>2, <1>rep
    <3> QED
      BY <2>1, <2>4, <3>1, <3>2, <1>settle
  <2>5. ASSUME NEW o \in Candidates(r), row[r].id \notin {Nothing, o},
               NEW a \in Aliases \ report[r].names, Goto(r, "join"),
               found' = [found EXCEPT ![r][a] = Glimpse(o)], UNCHANGED <<row, round>>
        PROVE  Goal
    <3>1. pc'[r] = "join" /\ found'[r][a] = Glimpse(o)
      BY <2>5, <1>fun DEF Goto
    <3>2. \A b \in Aliases : TrueStill(found'[r][b])
      <4>1. \A b \in Aliases : found'[r][b] \in {found[r][b], Glimpse(o)}
        BY <2>5, <1>fun
      <4> QED
        BY <2>2, <4>1, <1>true
    <3>3. TrueGlimpse(row[r])' /\ \A b \in Aliases : TrueGlimpse(found[r][b])'
      BY <2>5, <3>2, <1>true DEF TrueStill, TrueGlimpse
    <3>4. o \in Pair(r)' /\ row[r].id \in Pair(r)'
      BY <2>2, <2>5, <3>1 DEF Pair
    <3>5. r \in Stampers => audit' # "open"
      BY <2>1, <1>stamper
    <3> QED
      BY <2>5, <3>1, <3>3, <3>4, <3>5 DEF Goal, Converging, Due
  <2> QED
    BY <1>5, <2>3, <2>4, <2>5 DEF Match
<1>6. CASE Attach(r)
  <2>1. CASE Throw(r)
    BY <1>6, <1>fail, <2>1 DEF Attach
  <2>2. CASE ~Throw(r)
    <3> DEFINE i == row[r].id
               g == [id |-> i, names |-> Aliases]
    <3>1. /\ i \in Live /\ Settle(r, g) /\ rows'[i].names = Aliases /\ Live' = Live
      BY <1>6, <2>2, AttachNames DEF Named
    <3>2. Whole'
      BY <3>1 DEF Whole
    <3>3. g \in Glimpses
      BY <3>1, <1>t, Typed DEF Glimpses
    <3>4. TrueStill(g)
      BY <3>1 DEF TrueStill, Aliases
    <3>5. UNCHANGED <<audit, report>> /\ pc[r] = "attach"
      BY <1>6, <2>2 DEF Attach
    <3> QED
      BY <3>1, <3>2, <3>3, <3>4, <3>5, <1>settle
  <2> QED
    BY <2>1, <2>2
<1>7. CASE Create(r)
  <2>1. /\ pc[r] = "create" /\ pc' = [pc EXCEPT ![r] = "look"] /\ UNCHANGED audit
        /\ found' = [found EXCEPT ![r] = [a \in Aliases |-> Unread]]
    BY <1>7 DEF Create, Goto, Forget
  <2>2. pc'[r] = "look" /\ \A a \in Aliases : found'[r][a] = Unread
    BY <2>1, <1>fun
  <2>3. TrueStill(row'[r])
    <3>1. CASE {Holder(a) : a \in report[r].names} \ {Nothing} = {}
      <4>1. /\ row'[r].id = r /\ row'[r].names = report[r].names /\ r \in Live'
            /\ rows'[r].names = report[r].names
        <5>1. Begun(r) /\ row'[r] = [id |-> r, names |-> report[r].names]
          BY <1>7, <3>1, CreateNames
        <5> QED
          BY <5>1 DEF Begun
      <4> QED
        BY <4>1, <1>rep DEF TrueStill
    <3>2. CASE {Holder(a) : a \in report[r].names} \ {Nothing} # {}
      <4>1. \E a \in Aliases : row' = [row EXCEPT ![r] = Glimpse(Holder(a))]
        BY <1>7, <3>2 DEF Create, Point, Aliases
      <4> QED
        BY <4>1, <1>fun, <1>true
    <3> QED
      BY <3>1, <3>2
  <2>4. TrueGlimpse(row[r])' /\ \A a \in Aliases : TrueGlimpse(found[r][a])'
    BY <2>2, <2>3 DEF TrueStill, TrueGlimpse, Unread
  <2> QED
    BY <2>1, <2>2, <2>4, <1>stamper DEF Goal, Converging, Due
<1>8. CASE WriteStatus(r) \/ Advance(r) \/ Observe(r) \/ Stamp(r)
  <2>1. pc[r] \in {"status", "watermark", "observe", "stamp"} /\ UNCHANGED audit
    BY <1>8 DEF WriteStatus, Advance, Observe, Stamp
  <2>2. Live # {}
    <3>1. row[r].id # Nothing
      BY <2>1, <1>t DEF RecordInv, Written
    <3> QED
      BY <3>1, Remembered DEF TrueGlimpse, Whole
  <2>3. Live' # {}
    BY <2>2, RowsConverge
  <2>4. \/ UNCHANGED <<found, row>> /\ pc'[r] \in {"watermark", "observe"}
        \/ /\ row'[r] = NotThere /\ pc'[r] = "done"
           /\ \A a \in Aliases : found'[r][a] = Unread
    BY <1>8, <1>fun DEF WriteStatus, Advance, Observe, Stamp, Goto, Leave, Point, Forget
  <2>5. TrueGlimpse(row[r])' /\ \A a \in Aliases : TrueGlimpse(found[r][a])'
    BY <2>4, <1>true DEF TrueStill, TrueGlimpse, Unread, NotThere
  <2>6. ~Due(r)
    BY <2>1 DEF Due
  <2> QED
    BY <2>1, <2>3, <2>4, <2>5, <2>6, <1>stamper DEF Goal, Converging
<1>9. CASE ObserveFails(r) \/ Fails(r)
  BY <1>9, <1>fail DEF ObserveFails, Fails
<1> QED
  BY <1>1, <1>2, <1>3, <1>4, <1>5, <1>6, <1>7, <1>8, <1>9 DEF Record, Converge

\* The inductive step.  A second row is its creator's to merge; the audit write leaves
\* that to the stampers, which come after it.
LEMMA OneRowStep ==
  ASSUME Reconciles, Stampers # {}, StampReport.names = {"client"}, OneRowInv, [Next]_vars
  PROVE  OneRowInv'
<1>t. TypeOK /\ RecordInv /\ RecordInv'
  BY InvStep DEF OneRowInv, RecordInv
<1>1. \/ /\ audit' = audit
         /\ \E r \in Recorders : (Record(r) \/ Fails(r)) /\ OwnStep(r)
      \/ /\ UNCHANGED <<pc, report, found, row>>
         /\ audit' = audit \/ audit = "open"
  <2>1. \A r \in Recorders : Record(r) \/ Fails(r) => OwnStep(r)
    BY <1>t, ActorStep DEF RecordInv
  <2>2. CASE \E r \in Recorders : Record(r) \/ Fails(r)
    BY <2>1, <2>2, AuditStays
  <2>3. CASE WriteAudit \/ UNCHANGED vars
    BY <2>3 DEF WriteAudit, vars
  <2> QED
    BY <2>2, <2>3 DEF Next
<1>2. ASSUME NEW r \in Recorders, Record(r) \/ Fails(r), OwnStep(r)
      PROVE  /\ \A s \in Recorders : Converging(s)'
             /\ audit = "done" /\ AllNear /\ TwoRows /\ (\E s \in Recorders : Due(s))
                  => (\E s \in Recorders : Due(s)') \/ Whole'
  <2>1. \A s \in Recorders \ {r} : Converging(s)' /\ (Due(s) => Due(s)')
    BY <1>2, BystanderConverges DEF OwnStep
  <2>2. /\ Converging(r)'
        /\ audit = "done" /\ AllNear /\ TwoRows /\ Due(r) => Due(r)' \/ Whole'
    BY <1>2, ActorConverges
  <2> QED
    BY <2>1, <2>2
<1>3. ASSUME UNCHANGED <<pc, report, found, row>>
      PROVE  \A s \in Recorders : Converging(s)' /\ (Due(s) => Due(s)')
  BY <1>3, BystanderConverges
<1>4. \A s \in Recorders : Converging(s)'
  BY <1>1, <1>2, <1>3
<1>5. ASSUME audit' = "done", AllNear', TwoRows' PROVE \E s \in Recorders : Due(s)'
  <2>1. ~Whole'
    <3>1. \A i \in Live' : rows'[i].names # {} /\ rows'[i].names \subseteq Aliases
      BY <1>t DEF RecordInv, RowSound, TypeOK, OrderRow, Live
    <3>2. ASSUME NEW i \in Live', rows'[i].names = Aliases PROVE \A j \in Live' : j = i
      BY <3>1, <3>2, RowsConverge DEF Apart
    <3> QED
      BY <1>5, <3>2 DEF Whole, TwoRows
  <2>2. CASE \E r \in Recorders : pc'[r] = "look"
    BY <2>2 DEF Due
  <2>3. CASE TwoRows /\ audit = "done"
    <3>1. CASE AllNear
      <4>1. \E s \in Recorders : Due(s)
        BY <2>3, <3>1 DEF OneRowInv, TwoRows, AllNear
      <4> QED
        BY <1>1, <1>2, <1>3, <2>1, <2>3, <3>1, <4>1
    <3>2. CASE ~AllNear
      <4>1. PICK r \in Recorders : (Record(r) \/ Fails(r)) /\ OwnStep(r)
        BY <1>1, <1>5, <3>2 DEF AllNear
      <4>2. pc[r] = "idle"
        <5>1. ASSUME pc[r] # "idle" PROVE \A s \in Recorders : report'[s] = report[s]
          BY <4>1, <5>1 DEF OwnStep
        <5> QED
          BY <1>5, <3>2, <5>1 DEF AllNear
      <4> QED
        BY <1>t, <4>1, <4>2, FirstStatement
    <3> QED
      BY <3>1, <3>2
  <2>4. CASE TwoRows /\ audit # "done"
    <3>1. audit = "open" /\ UNCHANGED pc
      BY <1>1, <1>5, <2>4
    <3>2. \A s \in Stampers : s \in Recorders /\ pc'[s] = "idle"
      BY <3>1, RecordAssumption DEF OneRowInv, Converging
    <3> QED
      BY <3>2 DEF Due
  <2> QED
    BY <1>5, <2>2, <2>3, <2>4, RowsConverge DEF TwoRows
<1>6. Apart'
  BY RowsConverge
<1> QED
  BY <1>t, <1>4, <1>5, <1>6 DEF OneRowInv, TwoRows, AllNear

LEMMA OneRowInit == Init => OneRowInv
<1> SUFFICES ASSUME Init PROVE OneRowInv
  OBVIOUS
<1>1. Live = {} /\ RecordInv
  BY InitInv DEF Init, Live
<1>2. \A r \in Recorders : /\ pc[r] = "idle" /\ row[r] = NotThere
                           /\ \A a \in Aliases : found[r][a] = Unread
  BY DEF Init
<1> QED
  BY <1>1, <1>2 DEF OneRowInv, Apart, Converging, TrueGlimpse, NotThere, Unread

\* recordSerialized's "the two placement/webhook calls themselves repair the split", where
\* one-sided reports are reconciled, the placement's answer names the client's id only, all
\* reports look like it, and place has a price to stamp after its audit write: when
\* everybody is through, the order has exactly one row.
THEOREM OneRow ==
  ASSUME Reconciles, Stampers # {}, StampReport.names = {"client"}
  PROVE  Spec => []OneRowInTheEnd
<1>1. OneRowInv /\ [Next]_vars => OneRowInv'
  BY OneRowStep
<1>2. OneRowInv => OneRowInTheEnd
  <2> SUFFICES ASSUME OneRowInv, audit = "done", AllNear,
                      \A r \in Recorders : pc[r] = "done"
               PROVE  Cardinality(Live) = 1
    BY DEF OneRowInTheEnd, AllNear
  <2>1. ~TwoRows
    <3>1. \A r \in Recorders : ~Due(r)
      BY DEF Due
    <3> QED
      BY <3>1 DEF OneRowInv, TwoRows, AllNear
  <2>2. Live # {}
    BY RecordAssumption DEF OneRowInv, Converging
  <2>3. \E i : Live = {i}
    BY <2>1, <2>2 DEF TwoRows
  <2> QED
    BY <2>3, FS_Singleton
<1> QED
  BY <1>1, <1>2, OneRowInit, PTL DEF Spec

=============================================================================
