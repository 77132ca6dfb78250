---------------------------- MODULE OrderRecord ----------------------------
(***************************************************************************)
(* OrdersService.record and recordUnderlyingPrice                          *)
(* (apps/api/src/trading/orders.service.ts): several recorders, on several *)
(* API instances, write what the broker reports of ONE order.  A report    *)
(* names the order by the client's id, by the broker's, or by both, so the *)
(* order may live in two rows until a recorder notices and merges them.    *)
(* There is no transaction around a record: every action here is one       *)
(* statement, and the merge one transaction.                               *)
(*                                                                         *)
(* Prices and times are left out; a recorder's row is named after it.      *)
(***************************************************************************)
EXTENDS Naturals, FiniteSets

CONSTANTS
  Recorders,   \* calls of record and of recordUnderlyingPrice
  Stampers,    \* the calls of recordUnderlyingPrice among them
  Reports,     \* what the broker may report of the order, in any order and number
  StampReport, \* the placement's own result, which a stamper carries
  Reconciles,  \* one-sided reports are matched to the other side (SnapTrade)
  Nothing      \* null

Aliases == {"client", "broker"}
Statuses == {"submitted", "partially_filled", "cancelled", "rejected", "filled"}

\* filled: the cumulative quantity, 0 for a report that is no fill.
\* near: in the placement's form (contract, side, quantity, type, limit), and of a time
\* within windowMs of its audit row and of every other near report.
Report == [names : (SUBSET Aliases) \ {{}}, status : Statuses, filled : Nat, near : BOOLEAN]

ASSUME RecordAssumption ==
  /\ Stampers \subseteq Recorders
  /\ Reports \subseteq Report
  /\ StampReport \in Report /\ StampReport.near
  /\ Reconciles \in BOOLEAN
  /\ Nothing \notin Recorders

VARIABLES
  rows,    \* TradeOrder rows with their executions
  audit,   \* the placement's audit row: its response proves a client id ours
  pc,      \* where each recorder is
  report,  \* what each recorder records
  found,   \* per alias, the row a recorder read and the aliases it saw there
  row,     \* the row a recorder writes to and the aliases it knows of it
  round    \* convergedIdentityRow runs before the create and again after it

vars == <<rows, audit, pc, report, found, row, round>>

Gone == [names |-> {}, status |-> "none", watermark |-> 0, fill |-> 0,
         seen |-> {}, anchored |-> FALSE]

Unread == [id |-> Nothing, names |-> {"unread"}]
NotThere == [id |-> Nothing, names |-> {}]
Glimpse(i) == IF i = Nothing THEN NotThere ELSE [id |-> i, names |-> rows[i].names]

Phases == {"idle", "look", "match", "join", "attach", "create", "status",
           "watermark", "observe", "stamp", "done", "failed"}

OrderRow ==
  [names : SUBSET Aliases, status : Statuses \cup {"none"}, watermark : Nat, fill : Nat,
   seen : SUBSET Nat, anchored : BOOLEAN]

Glimpses == [id : Recorders, names : SUBSET Aliases] \cup {NotThere}

\* Rows hold known statuses and quantities, recorders known phases and rows.
TypeOK ==
  /\ rows \in [Recorders -> OrderRow]
  /\ audit \in {"open", "done", "failed"}
  /\ pc \in [Recorders -> Phases]
  /\ report \in [Recorders -> Reports \cup {StampReport}]
  /\ found \in [Recorders -> [Aliases -> Glimpses \cup {Unread}]]
  /\ row \in [Recorders -> Glimpses]
  /\ round \in [Recorders -> 1..2]

Init ==
  /\ rows = [r \in Recorders |-> Gone]
  /\ audit = "open"
  /\ pc = [r \in Recorders |-> "idle"]
  /\ report = [r \in Recorders |-> StampReport]
  /\ found = [r \in Recorders |-> [a \in Aliases |-> Unread]]
  /\ row = [r \in Recorders |-> NotThere]
  /\ round = [r \in Recorders |-> 1]

Live == {i \in Recorders : rows[i] # Gone}
Holder(a) ==
  IF \E i \in Live : a \in rows[i].names
    THEN CHOOSE i \in Live : a \in rows[i].names ELSE Nothing

Rank(s) == CASE s = "none" -> 0 [] s = "submitted" -> 1 [] s = "partially_filled" -> 2
             [] s \in {"cancelled", "rejected"} -> 3 [] s = "filled" -> 4

Goto(r, phase) == pc' = [pc EXCEPT ![r] = phase]
Point(r, glimpse) == row' = [row EXCEPT ![r] = glimpse]
Forget(r) == found' = [found EXCEPT ![r] = [a \in Aliases |-> Unread]]

\* The call is over, its local variables with it.
Leave(r, phase) ==
  /\ Goto(r, phase)
  /\ Forget(r)
  /\ Point(r, NotThere)
  /\ round' = [round EXCEPT ![r] = 1]

\* A statement failed: record is retried from its start, or its retries are
\* used up; the stamper gives up at once.
Throw(r) ==
  /\ Leave(r, "failed") \/ (r \notin Stampers /\ Leave(r, "look"))
  /\ UNCHANGED <<rows, audit, report>>

\* Mutant: every attached alias starts another convergence.
SettleEachTime(r, g) ==
  /\ Point(r, g)
  /\ Forget(r)
  /\ IF g.id = Nothing
       THEN Goto(r, "create") /\ UNCHANGED round
     ELSE IF report[r].names \ g.names # {}
       THEN Goto(r, "attach") /\ round' = [round EXCEPT ![r] = @ + 1]
     ELSE Goto(r, "look") /\ UNCHANGED round

\* convergedIdentityRow comes to row g: there is none yet, or attachIdentity has
\* aliases to add to it, or the call goes on.
Settle(r, g) ==
  /\ Point(r, g)
  /\ Forget(r)
  /\ IF g.id = Nothing
       THEN Goto(r, "create") /\ UNCHANGED round
     ELSE IF report[r].names \ g.names # {}
       THEN Goto(r, "attach") /\ UNCHANGED round
     ELSE IF round[r] = 1
       THEN Goto(r, "look") /\ round' = [round EXCEPT ![r] = 2]
     ELSE Goto(r, IF r \in Stampers THEN "stamp" ELSE "status") /\ UNCHANGED round

-----------------------------------------------------------------------------
\* The stamper follows the placement's audit write, successful or not.
Start(r) ==
  /\ pc[r] = "idle"
  /\ IF r \in Stampers
       THEN audit # "open" /\ UNCHANGED report
       ELSE \E rep \in Reports : report' = [report EXCEPT ![r] = rep]
  /\ Goto(r, "look")
  /\ UNCHANGED <<rows, audit, found, row, round>>

\* place makes no such call when it knows no price of the underlying.
Skip(r) ==
  /\ pc[r] = "idle"
  /\ r \in Stampers /\ audit # "open"
  /\ Goto(r, "failed")
  /\ UNCHANGED <<rows, audit, report, found, row, round>>

WriteAudit ==
  /\ audit = "open"
  /\ audit' \in {"done", "failed"}
  /\ UNCHANGED <<rows, pc, report, found, row, round>>

(* convergedIdentityRow                                                    *)

\* identityRows: one query per alias, in parallel.
Look(r, a) ==
  /\ pc[r] = "look"
  /\ a \in report[r].names
  /\ found[r][a] = Unread
  /\ found' = [found EXCEPT ![r][a] = Glimpse(Holder(a))]
  /\ UNCHANGED <<rows, audit, pc, report, row, round>>

Looked(r) == pc[r] = "look" /\ \A a \in report[r].names : found[r][a] # Unread
Split(r) ==
  /\ report[r].names = Aliases
  /\ found[r]["client"].id # Nothing
  /\ found[r]["broker"].id # Nothing
  /\ found[r]["client"].id # found[r]["broker"].id

\* Mutant: the executions of the dropped row are deleted with it.
MergedOnly(keep, drop, names) ==
  [rows[keep] EXCEPT !.names = names \cup @ \cup rows[drop].names,
                     !.watermark = IF rows[drop].watermark > @
                                     THEN rows[drop].watermark ELSE @,
                     !.status = IF Rank(rows[drop].status) > Rank(@)
                                  THEN rows[drop].status ELSE @]

\* What the surviving row becomes, under the aliases of the report as well.
Merged(keep, drop, names) ==
  [names |-> names \cup rows[keep].names \cup rows[drop].names,
   status |-> IF Rank(rows[drop].status) > Rank(rows[keep].status)
                THEN rows[drop].status ELSE rows[keep].status,
   watermark |-> IF rows[drop].watermark > rows[keep].watermark
                   THEN rows[drop].watermark ELSE rows[keep].watermark,
   fill |-> IF rows[drop].watermark > rows[keep].watermark
              THEN rows[drop].fill ELSE rows[keep].fill,
   seen |-> rows[keep].seen \cup rows[drop].seen,
   anchored |-> rows[keep].anchored \/ rows[drop].anchored]

\* Mutant: a row found by the report's own alias is not compared.
CompareIfNew(r, g) ==
  IF Reconciles /\ report[r].names # Aliases /\ g.id = Nothing
    THEN Goto(r, "match") /\ Point(r, g) /\ Forget(r) /\ UNCHANGED round
    ELSE Settle(r, g)

\* A one-sided report is first compared with the row of the other side.
Compare(r, g) ==
  IF Reconciles /\ report[r].names # Aliases
    THEN Goto(r, "match") /\ Point(r, g) /\ Forget(r) /\ UNCHANGED round
    ELSE Settle(r, g)

\* mergeIdentityRows, on two rows read earlier: either may be gone by now.
\* Which one survives (durable references, then UUID order) is left open.
Pair(r) ==
  ({found[r][a].id : a \in Aliases} \cup (IF pc[r] = "join" THEN {row[r].id} ELSE {}))
    \ {Nothing}
MergeSplit(r) ==
  LET left == Pair(r) \cap Live IN
  /\ pc[r] = "join" \/ (Looked(r) /\ Split(r))
  /\ IF left = {}
       THEN Throw(r)
       ELSE /\ IF Cardinality(left) = 1
                 THEN /\ \E last \in left : Settle(r, Glimpse(last))
                      /\ UNCHANGED rows
                 ELSE \E keep \in left : \E drop \in left \ {keep} :
                        LET merged == Merged(keep, drop, report[r].names) IN
                        /\ rows' = [rows EXCEPT ![keep] = merged, ![drop] = Gone]
                        /\ Settle(r, [id |-> keep, names |-> merged.names])
            /\ UNCHANGED <<audit, report>>

Pick(r) ==
  LET hits == {a \in report[r].names : found[r][a].id # Nothing} IN
  /\ Looked(r)
  /\ ~Split(r)
  /\ Compare(r, IF "broker" \in hits THEN found[r]["broker"]
                ELSE IF "client" \in hits THEN found[r]["client"] ELSE row[r])
  /\ UNCHANGED <<rows, audit, report>>

\* snapTradeReconciliationCandidate: the row that only has the other alias, once the
\* audit proves that the placement's answer carried no broker id.  The row has the form
\* and the time of the report it was created from, and both have to be the placement's.
\* (Rows of other orders that look alike are not modelled.)
Candidates(r) ==
  {i \in Live : /\ audit = "done" /\ StampReport.names = {"client"}
                /\ rows[i].names = Aliases \ report[r].names
                /\ report[r].near /\ report[i].near}

Match(r) ==
  /\ pc[r] = "match"
  /\ \/ /\ Candidates(r) = {}
        /\ Settle(r, row[r])
     \/ \E o \in Candidates(r) :
          IF row[r].id \in {Nothing, o}
            THEN Settle(r, Glimpse(o))
            ELSE \E a \in Aliases \ report[r].names :
                   /\ Goto(r, "join")
                   /\ found' = [found EXCEPT ![r][a] = Glimpse(o)]
                   /\ UNCHANGED <<row, round>>
  /\ UNCHANGED <<rows, audit, report>>

\* attachIdentity; it fails when the row is gone or another holds the alias.
Attach(r) ==
  LET i == row[r].id
      new == report[r].names \ row[r].names
      free == i \in Live /\ \A a \in new : Holder(a) \in {i, Nothing} IN
  /\ pc[r] = "attach"
  /\ IF free
       THEN /\ rows' = [rows EXCEPT ![i].names = @ \cup new]
            /\ Settle(r, [id |-> i, names |-> row[r].names \cup new])
            /\ UNCHANGED <<audit, report>>
       ELSE Throw(r)

\* The first row of the order, or the one another recorder just created.  Only
\* the stamper creates it with the fill of its report.
Create(r) ==
  LET rep == report[r]
      taken == {Holder(a) : a \in rep.names} \ {Nothing} IN
  /\ pc[r] = "create"
  /\ IF taken = {}
       THEN /\ rows' = [rows EXCEPT ![r] =
                 [names |-> rep.names, status |-> rep.status, watermark |-> 0,
                  fill |-> IF r \in Stampers THEN rep.filled ELSE 0,
                  seen |-> {}, anchored |-> r \in Stampers]]
            /\ Point(r, [id |-> r, names |-> rep.names])
       ELSE /\ UNCHANGED rows
            /\ IF Holder("broker") \in taken
                 THEN Point(r, Glimpse(Holder("broker")))
                 ELSE Point(r, Glimpse(Holder("client")))
  /\ Goto(r, "look")
  /\ Forget(r)
  /\ round' = [round EXCEPT ![r] = 2]
  /\ UNCHANGED <<audit, report>>

-----------------------------------------------------------------------------
(* What record writes, each statement guarded on the row it finds.         *)

\* Mutant: the latest report wins.
OverriddenByLast(s) == Statuses

Overridden(s) ==
  IF s = "filled" THEN Statuses \ {"filled"} ELSE {"submitted", "partially_filled"}

\* "submitted" is create-only; a terminal status is only overridden by filled.
WriteStatus(r) ==
  LET i == row[r].id
      rep == report[r] IN
  /\ pc[r] = "status"
  /\ rows' = IF rep.status # "submitted" /\ rows[i].status \in Overridden(rep.status)
               THEN [rows EXCEPT ![i].status = rep.status] ELSE rows
  /\ IF rep.filled > 0
       THEN Goto(r, "watermark") /\ UNCHANGED <<found, row, round>>
       ELSE Leave(r, "done")
  /\ UNCHANGED <<audit, report>>

\* recordFillProgress: the watermark and the fill state move in one statement.
Advance(r) ==
  LET i == row[r].id
      q == report[r].filled IN
  /\ pc[r] = "watermark"
  /\ rows' = IF i \in Live /\ rows[i].watermark < q
               THEN [rows EXCEPT ![i].watermark = q, ![i].fill = q] ELSE rows
  /\ Goto(r, "observe")
  /\ UNCHANGED <<audit, report, found, row, round>>

\* The observation is a row of its own, referring to the order's.
Observe(r) ==
  LET i == row[r].id IN
  /\ pc[r] = "observe"
  /\ i \in Live
  /\ rows' = [rows EXCEPT ![i].seen = @ \cup {report[r].filled}]
  /\ Leave(r, "done")
  /\ UNCHANGED <<audit, report>>

ObserveFails(r) ==
  /\ pc[r] = "observe"
  /\ row[r].id \notin Live
  /\ Throw(r)

\* recordUnderlyingPrice touches no other column.
Stamp(r) ==
  LET i == row[r].id IN
  /\ pc[r] = "stamp"
  /\ rows' = IF i \in Live THEN [rows EXCEPT ![i].anchored = TRUE] ELSE rows
  /\ Leave(r, "done")
  /\ UNCHANGED <<audit, report>>

\* The database refuses a statement, or the process dies (and the provider
\* delivers again, which is a retry as well).
Fails(r) ==
  /\ pc[r] \notin {"idle", "done", "failed"}
  /\ Throw(r)

-----------------------------------------------------------------------------
Converge(r) ==
  \/ \E a \in Aliases : Look(r, a)
  \/ MergeSplit(r) \/ Pick(r) \/ Match(r) \/ Attach(r)

Record(r) ==
  \/ Start(r) \/ Skip(r) \/ Converge(r) \/ Create(r)
  \/ WriteStatus(r) \/ Advance(r) \/ Observe(r) \/ ObserveFails(r)
  \/ Stamp(r)

Next ==
  \/ \E r \in Recorders : Record(r) \/ Fails(r)
  \/ WriteAudit

Spec == Init /\ [][Next]_vars

-----------------------------------------------------------------------------
Recorded == {r \in Recorders \ Stampers : pc[r] = "done"}

\* A fill whose record returned is on the books for good: a row vouches for its
\* quantity and shows it, keeps the observation and has at least its status,
\* although rows are merged away under a record's statements (recordFillProgress).
FillsStayRecorded ==
  \A r \in Recorded : report[r].filled > 0 =>
    \E i \in Live :
      /\ rows[i].watermark >= report[r].filled
      /\ rows[i].fill = rows[i].watermark
      /\ report[r].filled \in rows[i].seen
      /\ Rank(rows[i].status) >= Rank(report[r].status)

\* Once the placement is audited and everyone is through, place with its price as well,
\* and nothing reported looks like another order's, the order has one row: "the two
\* placement/webhook calls themselves repair the split" (orders.service.ts:1092-1095).
OneRowInTheEnd ==
  audit = "done" /\ (\A r \in Recorders : pc[r] = "done" /\ report[r].near)
    => Cardinality(Live) = 1

\* What a row says is not taken back in the row it lives on in.
LivesOn(was, is) ==
  /\ was.names \subseteq is.names
  /\ Rank(was.status) <= Rank(is.status)
  /\ was.watermark <= is.watermark
  /\ was.seen \subseteq is.seen

\* "Status only moves FORWARD": whatever arrives late, twice or on another
\* instance, and whatever is merged, every row lives on in one that is known by
\* its names, has no weaker status, no smaller executed quantity, and all it saw.
NeverFallsBack == [][\A i \in Live : \E j \in Live' : LivesOn(rows[i], rows'[j])]_vars

-----------------------------------------------------------------------------
(* Why fills stay recorded (OrderRecord_proofs).                           *)

RowSound(x) ==
  /\ x.names # {} /\ x.status \in Statuses
  /\ x.watermark > 0 => x.fill = x.watermark

\* The recorder that created row i has begun, and its order has rows ever since:
\* a row that was merged away never comes back under its id.
Known(i) ==
  pc[i] # "idle" /\ \A a \in report[i].names : \E j \in Live : a \in rows[j].names

KnownGlimpse(g) == g.id # Nothing => Known(g.id)

\* What a record has already written is still on its row, if that is still there.
Written(r) ==
  LET i == row[r].id IN
  /\ pc[r] \in {"attach", "status", "watermark", "observe", "stamp"} => i # Nothing
  /\ pc[r] = "stamp" => r \in Stampers
  /\ pc[r] \in {"watermark", "observe"} /\ i \in Live =>
       Rank(rows[i].status) >= Rank(report[r].status)
  /\ pc[r] = "observe" /\ i \in Live => rows[i].watermark >= report[r].filled

RecordInv ==
  /\ TypeOK
  /\ \A i \in Live : RowSound(rows[i]) /\ Known(i)
  /\ \A r \in Recorders :
       /\ KnownGlimpse(row[r]) /\ \A a \in Aliases : KnownGlimpse(found[r][a])
       /\ Written(r)
  /\ FillsStayRecorded

-----------------------------------------------------------------------------
(* Why there is one row in the end (OrderRecord_proofs).                   *)

\* The order is one row, for good: no report can name it otherwise.
Whole == \E i \in Live : rows[i].names = Aliases

Apart == \A i, j \in Live : i # j => rows[i].names \cap rows[j].names = {}

\* What a recorder once saw of a row is still there, or was merged elsewhere.
TrueGlimpse(g) ==
  g.id # Nothing =>
    /\ g.names # {}
    /\ IF g.id \in Live THEN g.names \subseteq rows[g.id].names ELSE Whole

\* It has still to come past the order's rows, or never returns.
Due(r) ==
  \/ pc[r] \in {"look", "match", "join", "attach", "create", "failed"}
  \/ r \in Stampers /\ pc[r] = "idle"

Converging(r) ==
  /\ TrueGlimpse(row[r]) /\ \A a \in Aliases : TrueGlimpse(found[r][a])
  /\ r \in Stampers /\ audit = "open" => pc[r] = "idle"
  /\ pc[r] = "match" => report[r].names # Aliases
  /\ pc[r] = "join" => \E i, j \in Pair(r) : i # j
  /\ pc[r] = "attach" => report[r].names \ row[r].names # {}
  /\ pc[r] = "done" => Live # {}

\* Two rows of an audited placement, all of it near, are somebody's to merge.
OneRowInv ==
  /\ RecordInv
  /\ Apart
  /\ \A r \in Recorders : Converging(r)
  /\ audit = "done" /\ (\A r \in Recorders : report[r].near) /\ (\E i, j \in Live : i # j)
       => \E r \in Recorders : Due(r)

=============================================================================
