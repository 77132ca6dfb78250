------------------------ MODULE OrderPlacement_proofs ------------------------
(***************************************************************************)
(* Proofs about OrderPlacement, for any requests, keys and brokers.        *)
(***************************************************************************)
EXTENDS OrderPlacement, TLAPS

-----------------------------------------------------------------------------
(* Typing.                                                                 *)

\* The rows that are inserted, and the absent one, are typed.
LEMMA RowTypes ==
  /\ NoRow \in Row
  /\ \A r \in Requests : TypeOK => PendingRow(r) \in Row
BY DEF NoRow, Row, PendingRow, TypeOK, Accepted

\* What the writes to an audit row keep and change.
LEMMA RowWritesTyped ==
  \A row \in Row, o \in Requests \cup {NoRequest} :
    Prepared(row) \in Row /\ Completed(row, o) \in Row /\ Aged(row) \in Row
BY DEF Row, Prepared, Completed, Aged

\* Writes to an audit row keep its owner, and all but a completion its status.
LEMMA RowWritesKeep ==
  \A row \in Row, o \in Requests \cup {NoRequest} :
    /\ Prepared(row).owner = row.owner /\ Prepared(row).before = row.before
    /\ Prepared(row).status = row.status /\ Prepared(row).fresh = row.fresh
    /\ Completed(row, o).owner = row.owner /\ Completed(row, o).before = row.before
    /\ Completed(row, o).status = "placed"
    /\ Aged(row).owner = row.owner /\ Aged(row).before = row.before
    /\ Aged(row).status = row.status
BY DEF Row, Prepared, Completed, Aged

\* Placement starts typed.
LEMMA InitType == Init => TypeOK
BY RowTypes, PlacementAssumption DEF Init, TypeOK, Phases, Answers

\* Every action keeps the types, whatever stalls and whatever the broker does.
LEMMA TypeStep == TypeOK /\ [Next]_vars => TypeOK'
<1> SUFFICES ASSUME TypeOK, [Next]_vars PROVE TypeOK'
  OBVIOUS
<1> USE PlacementAssumption DEF TypeOK, Goto, Reply, NoReply
<1>1. ASSUME NEW r \in Requests, ClaimIdempotencyKey(r) PROVE TypeOK'
  <2>1. CASE Claim(r)
    BY <2>1, RowTypes DEF Claim, Phases
  <2>2. CASE ReadGone(r) \/ ReadFresh(r) \/ ClaimQueryFails(r)
    BY <2>2 DEF ReadGone, ReadFresh, ClaimQueryFails, Phases, Answers
  <2>3. CASE ReadCompleted(r) \/ ReadStale(r)
    <3>1. audit[KeyOf[r]] \in Row
      OBVIOUS
    <3>2. audit[KeyOf[r]].order \in Requests \cup {NoRequest}
      BY <3>1 DEF Row
    <3>3. CASE ReadCompleted(r)
      BY <3>1, <3>2, <3>3 DEF ReadCompleted, Phases
    <3>4. CASE ReadStale(r)
      BY <3>1, <3>4 DEF ReadStale, Phases
    <3> QED
      BY <2>3, <3>3, <3>4
  <2>4. CASE RecoverStalePlacement(r)
    BY <2>4 DEF RecoverStalePlacement, RecoverOne, RecoverNone, RecoverAmbiguous,
         RecoverFails, Found, Candidates, ExactMatch, Accepted, Phases, Answers
  <2>5. CASE Adopt(r)
    <3>1. Completed(audit[KeyOf[r]], result[r]) \in Row
      BY RowWritesTyped
    <3>2. CASE UNCHANGED audit
      BY <2>5, <3>2 DEF Adopt, Phases
    <3>3. CASE audit' = [audit EXCEPT ![KeyOf[r]] = Completed(audit[KeyOf[r]], result[r])]
      BY <2>5, <3>1, <3>3 DEF Adopt, Phases
    <3> QED
      BY <2>5, <3>2, <3>3 DEF Adopt
  <2>6. CASE Ingest(r)
    BY <2>6 DEF Ingest, Phases, Answers
  <2>7. CASE Reclaim(r) \/ Reinsert(r)
    BY <2>7, RowTypes DEF Reclaim, Reinsert, Phases, Answers
  <2> QED
    BY <1>1, <2>1, <2>2, <2>3, <2>4, <2>5, <2>6, <2>7 DEF ClaimIdempotencyKey
<1>2. ASSUME NEW r \in Requests, Place(r) PROVE TypeOK'
  <2>1. CASE RefuseEarly(r) \/ FailValidation(r) \/ GatewayRefuses(r) \/ GatewayFails(r)
    BY <2>1 DEF RefuseEarly, FailValidation, GatewayRefuses, GatewayFails, Phases, Answers
  <2>2. CASE Prepare(r)
    BY <2>2, RowWritesTyped DEF Prepare, Phases
  <2>3. CASE Send(r) \/ Acknowledged(r) \/ Refused(r) \/ TimesOut(r)
    BY <2>3 DEF Send, Acknowledged, Fails, Refused, TimesOut, Sorted, Phases, Answers
  <2>4. CASE RecordPlaced(r)
    <3>1. Completed(audit[KeyOf[r]], r) \in Row
      BY RowWritesTyped
    <3>2. CASE UNCHANGED audit
      BY <2>4, <3>2 DEF RecordPlaced, Phases, Answers
    <3>3. CASE audit' = [audit EXCEPT ![KeyOf[r]] = Completed(audit[KeyOf[r]], r)]
      BY <2>4, <3>1, <3>3 DEF RecordPlaced, Phases, Answers
    <3> QED
      BY <2>4, <3>2, <3>3 DEF RecordPlaced
  <2>5. CASE Release(r)
    BY <2>5, RowTypes DEF Release, Phases, Answers
  <2> QED
    BY <1>2, <2>1, <2>2, <2>3, <2>4, <2>5 DEF Place
<1>3. ASSUME NEW r \in Requests, Arrive(r) \/ Broker(r) \/ Misfortune(r) PROVE TypeOK'
  <2>1. ASSUME NEW outcome, Fails(r, outcome) PROVE TypeOK'
    BY <2>1 DEF Fails, Sorted, Phases, Answers
  <2>2. CASE Arrive(r) \/ Crash(r)
    BY <2>2 DEF Arrive, Crash, Phases
  <2>3. CASE Broker(r) \/ Resend(r)
    BY <2>3 DEF Broker, BrokerAccepts, BrokerRefuses, RequestLost, Resend
  <2> QED
    BY <1>3, <2>1, <2>2, <2>3 DEF Misfortune, Disconnected, ServerFails
<1>4. ASSUME NEW k \in Keys, Age(k) PROVE TypeOK'
  BY <1>4, RowWritesTyped DEF Age
<1>5. CASE UNCHANGED vars
  BY <1>5 DEF vars
<1> QED
  BY <1>1, <1>2, <1>3, <1>4, <1>5 DEF Next

\* Every state of a placement has its variables in the declared ranges.
THEOREM TypeCorrect == Spec => []TypeOK
BY InitType, TypeStep, PTL DEF Spec

-----------------------------------------------------------------------------
(* The inductive invariant.                                                *)

\* No key is claimed and no order sent at the start.
LEMMA InitInv == Init => PlacementInv
<1> SUFFICES ASSUME Init PROVE PlacementInv
  OBVIOUS
<1>1. TypeOK
  BY InitType
<1> QED
  BY <1>1 DEF Init, PlacementInv, RowsNameTheirKey, ClaimHeld, OneSend,
       RefusalsTrue, StaleOwnersSettled, RecoveriesSound, Covered, Live, NoRow

\* placementOutcomeUncertain moves only the request whose failure it sorts.
LEMMA SortedEffect ==
  ASSUME TypeOK, NEW r \in Requests, NEW outcome, Sorted(r, outcome),
         answer[r] # "rejected"
  PROVE  /\ \A s \in Requests \ {r} : pc'[s] = pc[s] /\ answer'[s] = answer[s]
         /\ pc'[r] = IF outcome \in Definite THEN "releasing" ELSE "done"
         /\ answer'[r] # "rejected"
<1>1. CASE outcome \in Definite
  BY <1>1 DEF Sorted, Goto, NoReply, TypeOK
<1>2. CASE outcome \notin Definite
  BY <1>2 DEF Sorted, Goto, Reply, TypeOK
<1> QED
  BY <1>1, <1>2

\* A failed send exposes its request if it gives up the claim of a live order.
LEMMA FailsStep ==
  ASSUME PlacementInv, TypeOK', NEW r \in Requests, NEW outcome, Fails(r, outcome)
  PROVE  PlacementInv'
<1> USE DEF PlacementInv, TypeOK
<1>1. pc[r] = "awaiting" /\ answer[r] # "rejected"
  BY DEF Fails, RefusalsTrue
<1>2. /\ \A s \in Requests \ {r} : pc'[s] = pc[s] /\ answer'[s] = answer[s]
      /\ pc'[r] \in {"releasing", "done"} /\ answer'[r] # "rejected"
      /\ pc'[r] = "releasing" => outcome \in Definite
  BY <1>1, SortedEffect DEF Fails
<1>3. audit' = audit /\ prior' = prior /\ broker' = broker
  BY DEF Fails
<1>4. /\ \A k : Covered(k)' => Covered(k)
      /\ Covered(KeyOf[r])' /\ outcome \in Definite => ~Live(r)
  BY DEF Fails, Covered
<1>5. RowsNameTheirKey' /\ OneSend'
  BY <1>1, <1>2, <1>3 DEF RowsNameTheirKey, OneSend
<1>6. ClaimHeld'
  BY <1>1, <1>2, <1>3, <1>4 DEF ClaimHeld, Live, Owns
<1>7. RefusalsTrue'
  BY <1>1, <1>2, <1>3, <1>4 DEF RefusalsTrue, Live
<1>8. StaleOwnersSettled'
  BY <1>1, <1>2, <1>3, <1>4 DEF StaleOwnersSettled, RowsNameTheirKey, Settled, NoRow
<1>9. RecoveriesSound'
  BY <1>1, <1>2, <1>3, <1>4 DEF RecoveriesSound, Settled
<1> QED
  BY <1>5, <1>6, <1>7, <1>8, <1>9

\* The inductive step, one action at a time; a claim that grows stale under an owner
\* with something left to send exposes it.
LEMMA InvStep == PlacementInv /\ [Next]_vars => PlacementInv'
<1> SUFFICES ASSUME PlacementInv, [Next]_vars PROVE PlacementInv'
  OBVIOUS
<1>type. TypeOK /\ TypeOK'
  BY TypeStep DEF PlacementInv
<1> USE <1>type, PlacementAssumption
    DEF PlacementInv, RowsNameTheirKey, ClaimHeld, OneSend, RefusalsTrue, StaleOwnersSettled,
        RecoveriesSound, Covered, Live, Owns, Settled, Goto, Reply, NoReply, TypeOK
<1>1. ASSUME NEW r \in Requests, ClaimIdempotencyKey(r) PROVE PlacementInv'
  <2>1. CASE Claim(r)
    <3>0. /\ pc[r] = "claiming" /\ prior' = prior /\ broker' = broker /\ answer' = answer
          /\ exposed' = exposed
      BY <2>1 DEF Claim
    <3>1. CASE audit[KeyOf[r]] # NoRow
      <4>1. audit' = audit /\ pc' = [pc EXCEPT ![r] = "conflict"]
        BY <2>1, <3>1 DEF Claim
      <4>2. RowsNameTheirKey' /\ OneSend'
        BY <3>0, <4>1
      <4>3. ClaimHeld'
        BY <3>0, <4>1
      <4>4. RefusalsTrue'
        BY <3>0, <4>1
      <4>5. StaleOwnersSettled'
        BY <3>0, <4>1
      <4>6. RecoveriesSound'
        BY <3>0, <4>1
      <4> QED
        BY <4>2, <4>3, <4>4, <4>5, <4>6
    <3>2. CASE audit[KeyOf[r]] = NoRow
      <4>1. /\ audit' = [audit EXCEPT ![KeyOf[r]] = PendingRow(r)]
            /\ pc' = [pc EXCEPT ![r] = "validating"]
        BY <2>1, <3>2 DEF Claim
      <4>2. /\ PendingRow(r).owner = r /\ PendingRow(r).status = "pending"
            /\ PendingRow(r).fresh /\ r \notin PendingRow(r).before
        BY <3>0 DEF PendingRow, Accepted
      <4>3. RowsNameTheirKey'
        BY <3>0, <4>1, <4>2
      <4>4. ClaimHeld'
        BY <3>0, <3>2, <4>1, <4>2 DEF NoRow
      <4>5. (OneSend /\ RefusalsTrue)'
        BY <3>0, <4>1
      <4>6. StaleOwnersSettled'
        BY <3>0, <4>1, <4>2 DEF NoRow
      <4>7. RecoveriesSound'
        BY <3>0, <4>1
      <4> QED
        BY <4>3, <4>4, <4>5, <4>6, <4>7
    <3> QED
      BY <3>1, <3>2
  <2>2. CASE ReadGone(r)
    BY <2>2 DEF ReadGone
  <2>3. CASE ReadCompleted(r)
    BY <2>3 DEF ReadCompleted
  <2>4. CASE ReadFresh(r)
    BY <2>4 DEF ReadFresh
  <2>5. CASE ReadStale(r)
    BY <2>5 DEF ReadStale, NoRow
  <2>6. CASE ClaimQueryFails(r)
    BY <2>6 DEF ClaimQueryFails
  <2>7. CASE RecoverOne(r)
    BY <2>7 DEF RecoverOne
  <2>8. CASE RecoverNone(r)
    <3>1. RowsNameTheirKey'
      BY <2>8 DEF RecoverNone, Found, Candidates, ExactMatch, LooksLike, Accepted
    <3>2. ClaimHeld'
      BY <2>8 DEF RecoverNone, Found, Candidates, ExactMatch, LooksLike, Accepted
    <3>3. (OneSend /\ RefusalsTrue)'
      BY <2>8 DEF RecoverNone, Found, Candidates, ExactMatch, LooksLike, Accepted
    <3>4. StaleOwnersSettled'
      BY <2>8 DEF RecoverNone, Found, Candidates, ExactMatch, LooksLike, Accepted
    <3>5. RecoveriesSound'
      BY <2>8 DEF RecoverNone, Found, Candidates, ExactMatch, LooksLike, Accepted
    <3> QED
      BY <3>1, <3>2, <3>3, <3>4, <3>5
  <2>9. CASE RecoverAmbiguous(r)
    BY <2>9 DEF RecoverAmbiguous
  <2>10. CASE RecoverFails(r)
    BY <2>10 DEF RecoverFails
  <2>11. CASE Adopt(r)
    <3>r. audit[KeyOf[r]] \in Row /\ result[r] \in Requests \cup {NoRequest}
      OBVIOUS
    <3>0. Completed(audit[KeyOf[r]], result[r]).owner = audit[KeyOf[r]].owner
          /\ Completed(audit[KeyOf[r]], result[r]).before = audit[KeyOf[r]].before
          /\ Completed(audit[KeyOf[r]], result[r]).status = "placed"
      BY <3>r, RowWritesKeep
    <3>1. RowsNameTheirKey'
      BY <2>11, <3>0 DEF Adopt, NoRow
    <3>2. ClaimHeld'
      BY <2>11, <3>0 DEF Adopt, NoRow
    <3>3. (OneSend /\ RefusalsTrue)'
      BY <2>11, <3>0 DEF Adopt, NoRow
    <3>4. StaleOwnersSettled'
      BY <2>11, <3>0 DEF Adopt, NoRow
    <3>5. RecoveriesSound'
      BY <2>11, <3>0 DEF Adopt, NoRow
    <3> QED
      BY <3>1, <3>2, <3>3, <3>4, <3>5
  <2>12. CASE Ingest(r)
    <3>1. CASE Reply(r, "placed", result[r])
      BY <2>12, <3>1 DEF Ingest
    <3>2. CASE Reply(r, "unavailable", NoRequest)
      BY <2>12, <3>2 DEF Ingest
    <3> QED
      BY <2>12, <3>1, <3>2 DEF Ingest
  <2>13. CASE Reclaim(r)
    <3>1. RowsNameTheirKey'
      BY <2>13 DEF Reclaim, NoRow
    <3>2. ClaimHeld'
      BY <2>13 DEF Reclaim, NoRow
    <3>3. (OneSend /\ RefusalsTrue)'
      BY <2>13 DEF Reclaim, NoRow
    <3>4. StaleOwnersSettled'
      BY <2>13 DEF Reclaim, NoRow
    <3>5. RecoveriesSound'
      BY <2>13 DEF Reclaim, NoRow
    <3> QED
      BY <3>1, <3>2, <3>3, <3>4, <3>5
  <2>14. CASE Reinsert(r)
    <3>1. RowsNameTheirKey'
      BY <2>14 DEF Reinsert, PendingRow, NoRow, Accepted
    <3>2. ClaimHeld'
      BY <2>14 DEF Reinsert, PendingRow, NoRow, Accepted
    <3>3. (OneSend /\ RefusalsTrue)'
      BY <2>14 DEF Reinsert, PendingRow, NoRow, Accepted
    <3>4. StaleOwnersSettled'
      BY <2>14 DEF Reinsert, PendingRow, NoRow, Accepted
    <3>5. RecoveriesSound'
      BY <2>14 DEF Reinsert, PendingRow, NoRow, Accepted
    <3> QED
      BY <3>1, <3>2, <3>3, <3>4, <3>5
  <2> QED
    BY <1>1, <2>1, <2>2, <2>3, <2>4, <2>5, <2>6, <2>7, <2>8, <2>9, <2>10, <2>11, <2>12,
       <2>13, <2>14
       DEF ClaimIdempotencyKey, RecoverStalePlacement
<1>2. ASSUME NEW r \in Requests, Place(r) PROVE PlacementInv'
  <2>1. CASE RefuseEarly(r)
    BY <2>1 DEF RefuseEarly
  <2>2. CASE Prepare(r)
    <3>0. Prepared(audit[KeyOf[r]]).owner = audit[KeyOf[r]].owner
          /\ Prepared(audit[KeyOf[r]]).before = audit[KeyOf[r]].before
          /\ Prepared(audit[KeyOf[r]]).status = audit[KeyOf[r]].status
          /\ Prepared(audit[KeyOf[r]]).fresh = audit[KeyOf[r]].fresh
      BY RowWritesKeep
    <3>1. RowsNameTheirKey'
      BY <2>2, <3>0 DEF Prepare, NoRow
    <3>2. ClaimHeld'
      BY <2>2, <3>0 DEF Prepare, NoRow
    <3>3. (OneSend /\ RefusalsTrue)'
      BY <2>2, <3>0 DEF Prepare, NoRow
    <3>4. StaleOwnersSettled'
      BY <2>2, <3>0 DEF Prepare, NoRow
    <3>5. RecoveriesSound'
      BY <2>2, <3>0 DEF Prepare, NoRow
    <3> QED
      BY <3>1, <3>2, <3>3, <3>4, <3>5
  <2>3. CASE FailValidation(r)
    BY <2>3 DEF FailValidation
  <2>4. CASE GatewayRefuses(r)
    BY <2>4 DEF GatewayRefuses
  <2>5. CASE GatewayFails(r)
    BY <2>5 DEF GatewayFails
  <2>6. CASE Send(r)
    BY <2>6 DEF Send
  <2>7. CASE Acknowledged(r)
    BY <2>7 DEF Acknowledged
  <2>8. CASE Refused(r)
    BY <2>8, FailsStep DEF Refused
  <2>9. CASE TimesOut(r)
    BY <2>9, FailsStep DEF TimesOut
  <2>10. CASE RecordPlaced(r)
    <3>0. Completed(audit[KeyOf[r]], r).owner = audit[KeyOf[r]].owner
          /\ Completed(audit[KeyOf[r]], r).before = audit[KeyOf[r]].before
          /\ Completed(audit[KeyOf[r]], r).status = "placed"
      BY RowWritesKeep
    <3>1. RowsNameTheirKey'
      BY <2>10, <3>0 DEF RecordPlaced, NoRow
    <3>2. ClaimHeld'
      BY <2>10, <3>0 DEF RecordPlaced, NoRow
    <3>3. (OneSend /\ RefusalsTrue)'
      BY <2>10, <3>0 DEF RecordPlaced, NoRow
    <3>4. StaleOwnersSettled'
      BY <2>10, <3>0 DEF RecordPlaced, NoRow
    <3>5. RecoveriesSound'
      BY <2>10, <3>0 DEF RecordPlaced, NoRow
    <3> QED
      BY <3>1, <3>2, <3>3, <3>4, <3>5
  <2>11. CASE Release(r)
    <3>1. RowsNameTheirKey'
      BY <2>11 DEF Release, NoRow
    <3>2. ClaimHeld'
      BY <2>11 DEF Release, NoRow
    <3>3. (OneSend /\ RefusalsTrue)'
      BY <2>11 DEF Release, NoRow
    <3>4. StaleOwnersSettled'
      BY <2>11 DEF Release, NoRow
    <3>5. RecoveriesSound'
      BY <2>11 DEF Release, NoRow
    <3> QED
      BY <3>1, <3>2, <3>3, <3>4, <3>5
  <2> QED
    BY <1>2, <2>1, <2>2, <2>3, <2>4, <2>5, <2>6, <2>7, <2>8, <2>9, <2>10, <2>11 DEF Place
<1>3. ASSUME NEW r \in Requests, Broker(r) PROVE PlacementInv'
  <2>1. CASE BrokerAccepts(r)
    BY <2>1 DEF BrokerAccepts
  <2>2. CASE BrokerRefuses(r)
    BY <2>2 DEF BrokerRefuses
  <2>3. CASE RequestLost(r)
    BY <2>3 DEF RequestLost
  <2> QED
    BY <1>3, <2>1, <2>2, <2>3 DEF Broker
<1>4. ASSUME NEW r \in Requests, Arrive(r) \/ Misfortune(r) PROVE PlacementInv'
  <2>1. CASE Arrive(r)
    BY <2>1 DEF Arrive
  <2>2. CASE Disconnected(r) \/ ServerFails(r)
    BY <2>2, FailsStep DEF Disconnected, ServerFails
  <2>4. CASE Resend(r)
    BY <2>4 DEF Resend
  <2>3. CASE Crash(r)
    BY <2>3 DEF Crash
  <2> QED
    BY <1>4, <2>1, <2>2, <2>3, <2>4 DEF Misfortune
<1>5. ASSUME NEW k \in Keys, Age(k) PROVE PlacementInv'
  <2>1. Aged(audit[k]).owner = audit[k].owner /\ Aged(audit[k]).before = audit[k].before
        /\ Aged(audit[k]).status = audit[k].status
    BY RowWritesKeep
  <2>2. RowsNameTheirKey'
    <3>1. audit[k] # NoRow
      BY <1>5 DEF Age, NoRow
    <3>2. \A j \in Keys \ {k} : audit'[j] = audit[j]
      BY <1>5 DEF Age
    <3>3. audit'[k] = Aged(audit[k]) /\ pc' = pc
      BY <1>5 DEF Age
    <3> QED
      BY <2>1, <3>1, <3>2, <3>3
  <2>5. ClaimHeld'
    BY <1>5, <2>1 DEF Age
  <2>6. (OneSend /\ RefusalsTrue)' /\ RecoveriesSound'
    BY <1>5 DEF Age
  <2>3. Covered(k)' => Settled(audit[k].owner)
    BY <1>5 DEF Age, Validating, Placing, NoRow, Phases
  <2>4. StaleOwnersSettled'
    BY <1>5, <2>1, <2>3 DEF Age
  <2> QED
    BY <2>2, <2>4, <2>5, <2>6
<1>6. CASE UNCHANGED vars
  BY <1>6 DEF vars
<1> QED
  BY <1>1, <1>2, <1>3, <1>4, <1>5, <1>6 DEF Next

\* The inductive invariant holds, on every broker and however long anything takes.
THEOREM PlacementInvariant == Spec => []PlacementInv
<1>1. PlacementInv /\ [Next]_vars => PlacementInv'
  BY InvStep
<1> QED
  BY InitInv, <1>1, PTL DEF Spec

\* Two live orders of a covered key would both own its row.
LEMMA InvImpliesOneOrder == PlacementInv => OneOrderPerKey
BY DEF PlacementInv, ClaimHeld, Live, Owns, OneOrderPerKey, Accepted

\* The owner of a live order owns a row that is there.
LEMMA InvImpliesClaimCovers == PlacementInv => ClaimCoversOrder
<1> SUFFICES ASSUME PlacementInv, NEW o \in Requests, Live(o), Covered(KeyOf[o])
             PROVE  audit[KeyOf[o]].status # "none"
  BY DEF ClaimCoversOrder
<1>1. Owns(o)
  BY DEF PlacementInv, ClaimHeld
<1>2. audit[KeyOf[o]] # NoRow /\ KeyOf[o] \in Keys
  BY <1>1, PlacementAssumption DEF Owns, NoRow
<1> QED
  BY <1>2 DEF PlacementInv, RowsNameTheirKey

\* Two orders of one idempotency key are bought only after a claim of the key passed
\* its TTL under a live request or a live order's failure was typed as a refusal: on
\* every broker, whether or not it deduplicates, place and claimIdempotencyKey leave
\* no third way.
THEOREM OneOrderUnlessExposed == Spec => []OneOrderPerKey
BY PlacementInvariant, InvImpliesOneOrder, PTL

\* With the same two exceptions the key of every live order stays claimed, so that a
\* later call of place for it reconciles before it can send.
THEOREM ClaimCoversUnlessExposed == Spec => []ClaimCoversOrder
BY PlacementInvariant, InvImpliesClaimCovers, PTL

-----------------------------------------------------------------------------
(* A completed claim is final.                                             *)

\* The broker takes no order back, and a request sends only once.
LEMMA AcceptedGrows == TypeOK /\ OneSend /\ [Next]_vars => Accepted \subseteq Accepted'
<1> SUFFICES ASSUME TypeOK, OneSend, [Next]_vars, NEW o \in Accepted PROVE o \in Accepted'
  OBVIOUS
<1>1. broker \in [Requests -> {"unsent", "inflight", "lost", "accepted", "refused"}]
  BY DEF TypeOK
<1>2. o \in Requests /\ broker[o] = "accepted" /\ pc[o] # "sending"
  BY DEF Accepted, OneSend
<1>3. CASE UNCHANGED broker
  BY <1>2, <1>3 DEF Accepted
<1>4. ASSUME NEW r \in Requests, Send(r) PROVE o \in Accepted'
  BY <1>1, <1>2, <1>4 DEF Send, Accepted
<1>5. ASSUME NEW r \in Requests, Broker(r) \/ Resend(r) PROVE o \in Accepted'
  BY <1>1, <1>2, <1>5
     DEF Broker, BrokerAccepts, BrokerRefuses, RequestLost, Resend, Accepted
<1> QED
  BY <1>3, <1>4, <1>5
     DEF Next, vars, Arrive, ClaimIdempotencyKey, Claim, ReadGone, ReadCompleted, ReadFresh,
         ReadStale, ClaimQueryFails, RecoverStalePlacement, RecoverOne, RecoverNone,
         RecoverAmbiguous, RecoverFails, Adopt, Ingest, Reclaim, Reinsert, Place, RefuseEarly,
         Prepare, FailValidation, GatewayRefuses, GatewayFails, Acknowledged, Fails, Refused, TimesOut,
         RecordPlaced, Release, Misfortune, Disconnected, ServerFails, Crash, Age

\* Who is exposed stays exposed.
LEMMA ExposedGrows ==
  ASSUME TypeOK, [Next]_vars, NEW k, Covered(k)'
  PROVE  Covered(k)
<1>1. exposed \subseteq exposed'
  BY DEF Next, vars, Arrive, ClaimIdempotencyKey, Claim, ReadGone, ReadCompleted, ReadFresh,
         ReadStale, ClaimQueryFails, RecoverStalePlacement, RecoverOne, RecoverNone,
         RecoverAmbiguous, RecoverFails, Adopt, Ingest, Reclaim, Reinsert, Place, RefuseEarly,
         Prepare, FailValidation, GatewayRefuses, GatewayFails, Send, Acknowledged, Fails,
         Refused, TimesOut, RecordPlaced, Release, Broker, BrokerAccepts, BrokerRefuses,
         RequestLost, Misfortune, Disconnected, ServerFails, Resend, Crash, Age
<1> QED
  BY <1>1 DEF Covered

\* Which rows a step completes, and with what.
LEMMA Completes ==
  ASSUME TypeOK, [Next]_vars, NEW k \in Keys, audit'[k].status = "placed"
  PROVE  \/ audit[k].status = "placed" /\ audit'[k].order = audit[k].order
         \/ \E r \in Requests :
              /\ KeyOf[r] = k
              /\ \/ Adopt(r) /\ audit[k].owner = prior[r].owner /\ audit'[k].order = result[r]
                 \/ RecordPlaced(r) /\ Owns(r) /\ audit'[k].order = r
<1>1. audit \in [Keys -> Row] /\ audit[k] \in Row /\ \A r \in Requests : KeyOf[r] \in Keys
  BY PlacementAssumption DEF TypeOK
<1>2. CASE audit'[k] = audit[k]
  BY <1>2
<1>3. CASE audit'[k] = Aged(audit[k]) \/ audit'[k] = Prepared(audit[k])
  BY <1>1, <1>3 DEF Row, Aged, Prepared
<1>4. audit'[k] # NoRow /\ \A r \in Requests : audit'[k] # PendingRow(r)
  BY DEF NoRow, PendingRow
<1>5. ASSUME NEW r \in Requests, Adopt(r) \/ RecordPlaced(r), audit'[k] # audit[k]
      PROVE  /\ KeyOf[r] = k
             /\ \/ Adopt(r) /\ audit[k].owner = prior[r].owner /\ audit'[k].order = result[r]
                \/ RecordPlaced(r) /\ Owns(r) /\ audit'[k].order = r
  <2>1. CASE Adopt(r)
    <3>1. /\ KeyOf[r] = k /\ audit[k].owner = prior[r].owner
          /\ audit'[k] = Completed(audit[k], result[r])
      BY <1>1, <1>5, <2>1 DEF Adopt
    <3> QED
      BY <1>1, <2>1, <3>1 DEF Completed, Row
  <2>2. CASE RecordPlaced(r)
    <3>1. KeyOf[r] = k /\ Owns(r) /\ audit'[k] = Completed(audit[k], r)
      BY <1>1, <1>5, <2>2 DEF RecordPlaced
    <3> QED
      BY <1>1, <2>2, <3>1 DEF Completed, Row
  <2> QED
    BY <1>5, <2>1, <2>2
<1>6. \/ audit'[k] = audit[k] \/ audit'[k] = NoRow
      \/ audit'[k] = Aged(audit[k]) \/ audit'[k] = Prepared(audit[k])
      \/ \E r \in Requests : audit'[k] = PendingRow(r) \/ Adopt(r) \/ RecordPlaced(r)
  BY <1>1
     DEF Next, vars, Arrive, ClaimIdempotencyKey, Claim, ReadGone, ReadCompleted, ReadFresh,
         ReadStale, ClaimQueryFails, RecoverStalePlacement, RecoverOne, RecoverNone,
         RecoverAmbiguous, RecoverFails, Ingest, Reclaim, Reinsert, Place, RefuseEarly,
         Prepare, FailValidation, GatewayRefuses, GatewayFails, Send, Acknowledged, Fails, Refused,
         TimesOut, Release, Broker, BrokerAccepts, BrokerRefuses, RequestLost, Misfortune,
         Disconnected, ServerFails, Resend, Crash, Age
<1> QED
  BY <1>2, <1>3, <1>4, <1>5, <1>6

\* The broker accepts only what is on its way.
LEMMA AcceptedWasSent ==
  ASSUME TypeOK, [Next]_vars, NEW o \in Accepted'
  PROVE  o \in Accepted \/ broker[o] = "inflight"
BY DEF TypeOK, Accepted, Next, vars, Arrive, ClaimIdempotencyKey, Claim, ReadGone,
       ReadCompleted, ReadFresh, ReadStale, ClaimQueryFails, RecoverStalePlacement, RecoverOne,
       RecoverNone, RecoverAmbiguous, RecoverFails, Adopt, Ingest, Reclaim, Reinsert, Place,
       RefuseEarly, Prepare, FailValidation, GatewayRefuses, GatewayFails, Send, Acknowledged,
       Fails, Refused, TimesOut, RecordPlaced, Release, Broker, BrokerAccepts, BrokerRefuses,
       RequestLost, Misfortune, Disconnected, ServerFails, Resend, Crash, Age

\* A recovery decides once what it adopts.
LEMMA AdoptsOnce ==
  ASSUME TypeOK, [Next]_vars, NEW r \in Requests, pc'[r] = "adopting"
  PROVE  \/ pc[r] = "adopting" /\ prior'[r] = prior[r] /\ result'[r] = result[r]
         \/ RecoverOne(r)
BY DEF TypeOK, Next, vars, Goto, Reply, NoReply, Sorted, Arrive, ClaimIdempotencyKey, Claim,
       ReadGone, ReadCompleted, ReadFresh, ReadStale, ClaimQueryFails, RecoverStalePlacement,
       RecoverOne, RecoverNone, RecoverAmbiguous, RecoverFails, Adopt, Ingest, Reclaim,
       Reinsert, Place, RefuseEarly, Prepare, FailValidation, GatewayRefuses, GatewayFails,
       Send, Acknowledged, Fails, Refused, TimesOut, RecordPlaced, Release, Broker, BrokerAccepts,
       BrokerRefuses, RequestLost, Misfortune, Disconnected, ServerFails, Resend, Crash, Age

\* Whatever the query, the order of the claim's owner is among what it finds.
LEMMA FindsTheOwners ==
  ASSUME NEW r \in Requests, NEW slack, prior[r].owner \in Accepted \ prior[r].before,
         KeyOf[prior[r].owner] = KeyOf[r]
  PROVE  prior[r].owner \in Found(r, slack)
BY DEF Found, ExactMatch, Candidates, LooksLike

\* A recovery adopts only what the broker accepted, and the broker's orders stay.
LEMMA RecoveriesTrueStep ==
  PlacementInv /\ RecoveriesTrue /\ [Next]_vars => RecoveriesTrue'
<1> SUFFICES ASSUME PlacementInv, RecoveriesTrue, [Next]_vars PROVE RecoveriesTrue'
  OBVIOUS
<1>type. TypeOK /\ OneSend
  BY DEF PlacementInv
<1>1. Accepted \subseteq Accepted'
  BY <1>type, AcceptedGrows
<1>2. ASSUME NEW r \in Requests, pc'[r] = "adopting"
      PROVE  /\ result'[r] \in Accepted'
             /\ Covered(KeyOf[r])' /\ prior'[r].owner \in Accepted' =>
                  result'[r] = prior'[r].owner
  <2>0. Covered(KeyOf[r])' => Covered(KeyOf[r])
    BY <1>type, ExposedGrows
  <2>1. CASE pc[r] = "adopting" /\ prior'[r] = prior[r] /\ result'[r] = result[r]
    <3>1. Covered(KeyOf[r]) => broker[prior[r].owner] # "inflight"
      BY <2>1 DEF PlacementInv, RecoveriesSound, Settled
    <3>2. Covered(KeyOf[r]) /\ prior[r].owner \in Accepted' => prior[r].owner \in Accepted
      BY <1>type, <3>1, AcceptedWasSent
    <3> QED
      BY <1>1, <2>0, <2>1, <3>2 DEF RecoveriesTrue
  <2>2. CASE RecoverOne(r)
    <3>0. PICK slack \in SUBSET (prior[r].before \cap Accepted) :
            \E o \in Found(r, slack) : Found(r, slack) = {o} /\ result' = [result EXCEPT ![r] = o]
      BY <2>2 DEF RecoverOne
    <3>1. PICK o \in Found(r, slack) :
            Found(r, slack) = {o} /\ result' = [result EXCEPT ![r] = o]
      BY <3>0
    <3>2. prior' = prior /\ broker' = broker /\ pc[r] = "recovering"
      BY <2>2 DEF RecoverOne
    <3>3. o \in Accepted /\ result'[r] = o
      BY <1>type, <3>1 DEF Found, ExactMatch, Candidates, TypeOK
    <3>4. Covered(KeyOf[r]) /\ prior[r].owner \in Accepted => prior[r].owner = o
      BY <3>1, <3>2, FindsTheOwners DEF PlacementInv, RecoveriesSound
    <3> QED
      BY <2>0, <3>2, <3>3, <3>4 DEF Accepted
  <2> QED
    BY <1>type, <1>2, <2>1, <2>2, AdoptsOnce
<1>3. ASSUME NEW k \in Keys, audit'[k].status = "placed" PROVE audit'[k].order \in Accepted'
  <2>1. CASE audit[k].status = "placed" /\ audit'[k].order = audit[k].order
    BY <1>1, <2>1 DEF RecoveriesTrue
  <2>2. ASSUME NEW r \in Requests, Adopt(r), audit'[k].order = result[r]
        PROVE  audit'[k].order \in Accepted'
    BY <1>1, <2>2 DEF RecoveriesTrue, Adopt
  <2>3. ASSUME NEW r \in Requests, RecordPlaced(r), audit'[k].order = r
        PROVE  audit'[k].order \in Accepted'
    BY <1>1, <1>type, <2>3 DEF RecordPlaced, OneSend, Accepted
  <2> QED
    BY <1>type, <1>3, <2>1, <2>2, <2>3, Completes
<1> QED
  BY <1>2, <1>3 DEF RecoveriesTrue

\* A claim completed with its key's order stays so: no recovery overwrites it with
\* another order and no request deletes it, unless one of the key is exposed.
THEOREM ClaimFinalUnlessExposed == Spec => CompletedClaimIsFinal
<1>1. Init => RecoveriesTrue
  BY DEF Init, RecoveriesTrue, NoRow
<1>2. ASSUME PlacementInv, RecoveriesTrue, [Next]_vars, NEW k \in Keys,
             audit[k].status = "placed", KeyOf[audit[k].order] = k, Covered(k)
      PROVE  audit'[k].status = "placed" /\ audit'[k].order = audit[k].order
  <2>1. PICK p \in Requests : p = audit[k].order /\ broker[p] = "accepted" /\ Owns(p)
    BY <1>2 DEF RecoveriesTrue, PlacementInv, ClaimHeld, Accepted, Live
  <2>2. /\ audit \in [Keys -> Row] /\ audit[k] \in Row /\ audit[k].owner = p
        /\ audit[k] # NoRow /\ \A r \in Requests : KeyOf[r] \in Keys
    BY <1>2, <2>1, PlacementAssumption DEF PlacementInv, TypeOK, Owns, NoRow
  <2>3. ASSUME NEW r \in Requests, Adopt(r)
        PROVE  audit'[k] = audit[k] \/ audit'[k] = Completed(audit[k], p)
    <3>1. CASE KeyOf[r] = k /\ audit[k].owner = prior[r].owner
      <4>1. result[r] = p
        BY <1>2, <2>1, <2>2, <2>3, <3>1 DEF Adopt, RecoveriesTrue, Accepted
      <4> QED
        BY <2>2, <2>3, <3>1, <4>1 DEF Adopt
    <3>2. CASE ~(KeyOf[r] = k /\ audit[k].owner = prior[r].owner)
      BY <2>2, <2>3, <3>2 DEF Adopt
    <3> QED
      BY <3>1, <3>2
  <2>4. ASSUME NEW r \in Requests, Reclaim(r) PROVE audit'[k] = audit[k]
    BY <1>2, <2>1, <2>2, <2>4 DEF Reclaim, PlacementInv, RecoveriesSound
  <2>5. ASSUME NEW r \in Requests, RecordPlaced(r)
        PROVE  audit'[k] = audit[k] \/ audit'[k] = Completed(audit[k], p)
    BY <2>2, <2>5 DEF RecordPlaced, Owns
  <2>6. ASSUME NEW r \in Requests, Release(r) \/ Prepare(r) PROVE audit'[k] = audit[k]
    BY <1>2, <2>1, <2>2, <2>6
       DEF Release, Prepare, Owns, PlacementInv, RefusalsTrue, OneSend, Live
  <2>7. audit'[k] = audit[k] \/ audit'[k] = Completed(audit[k], p)
    BY <1>2, <2>2, <2>3, <2>4, <2>5, <2>6
       DEF Next, vars, Arrive, ClaimIdempotencyKey, Claim, ReadGone, ReadCompleted, ReadFresh,
           ReadStale, ClaimQueryFails, RecoverStalePlacement, RecoverOne, RecoverNone,
           RecoverAmbiguous, RecoverFails, Ingest, Reinsert, Place, RefuseEarly,
           FailValidation, GatewayRefuses, GatewayFails, Send, Acknowledged, Fails, Refused,
           TimesOut, Broker, BrokerAccepts, BrokerRefuses, RequestLost, Misfortune,
           Disconnected, ServerFails, Resend, Crash, Age
  <2> QED
    BY <1>2, <2>1, <2>2, <2>7 DEF Completed, Row
<1>3. PlacementInv /\ RecoveriesTrue /\ [Next]_vars =>
        [\A k \in Keys :
            audit[k].status = "placed" /\ KeyOf[audit[k].order] = k /\ Covered(k) =>
            audit'[k].status = "placed" /\ audit'[k].order = audit[k].order]_vars
  BY <1>2
<1> QED
  BY <1>1, <1>3, PlacementInvariant, RecoveriesTrueStep, PTL DEF Spec, CompletedClaimIsFinal

-----------------------------------------------------------------------------
(* Brokers with an exact query: replies are true, however late.            *)

\* A request sends once, and hears of its order only after that.
LEMMA OneSendStep == TypeOK /\ OneSend /\ [Next]_vars => OneSend'
BY DEF TypeOK, OneSend, Next, vars, Goto, Reply, NoReply, Sorted, Arrive, ClaimIdempotencyKey,
       Claim, ReadGone, ReadCompleted, ReadFresh, ReadStale, ClaimQueryFails,
       RecoverStalePlacement, RecoverOne, RecoverNone, RecoverAmbiguous, RecoverFails, Adopt,
       Ingest, Reclaim, Reinsert, Place, RefuseEarly, Prepare, FailValidation, GatewayRefuses,
       GatewayFails, Send, Acknowledged, Fails, Refused, TimesOut, RecordPlaced, Release, Broker,
       BrokerAccepts, BrokerRefuses, RequestLost, Misfortune, Disconnected, ServerFails, Resend, Crash, Age

\* An answer is given once, with the result it names, by a request under way.
LEMMA AnswersOnce ==
  ASSUME TypeOK, [Next]_vars, NEW r \in Requests
  PROVE  /\ pc[r] = "done" =>
              pc'[r] = "done" /\ answer'[r] = answer[r] /\ result'[r] = result[r]
         /\ pc[r] # "done" => answer'[r] = answer[r] \/ pc'[r] = "done"
BY DEF TypeOK, Next, vars, Goto, Reply, NoReply, Sorted, Arrive, ClaimIdempotencyKey,
       Claim, ReadGone, ReadCompleted, ReadFresh, ReadStale, ClaimQueryFails,
       RecoverStalePlacement, RecoverOne, RecoverNone, RecoverAmbiguous, RecoverFails, Adopt,
       Ingest, Reclaim, Reinsert, Place, RefuseEarly, Prepare, FailValidation, GatewayRefuses,
       GatewayFails, Send, Acknowledged, Fails, Refused, TimesOut, RecordPlaced, Release, Broker,
       BrokerAccepts, BrokerRefuses, RequestLost, Misfortune, Disconnected, ServerFails, Resend, Crash, Age

\* Where the order a request is about to name comes from.
LEMMA Names ==
  ASSUME TypeOK, [Next]_vars, NEW r \in Requests, pc[r] # "done",
         pc'[r] \in {"adopting", "ingesting"} \/ (answer'[r] = "placed" /\ answer[r] # "placed")
  PROVE  \/ pc[r] \in {"adopting", "ingesting"} /\ result'[r] = result[r]
         \/ RecoverOne(r)
         \/ audit[KeyOf[r]].status = "placed" /\ result'[r] = audit[KeyOf[r]].order
         \/ pc[r] = "acked" /\ result'[r] = r
BY DEF TypeOK, Next, vars, Goto, Reply, NoReply, Sorted, Arrive, ClaimIdempotencyKey,
       Claim, ReadGone, ReadCompleted, ReadFresh, ReadStale, ClaimQueryFails,
       RecoverStalePlacement, RecoverOne, RecoverNone, RecoverAmbiguous, RecoverFails, Adopt,
       Ingest, Reclaim, Reinsert, Place, RefuseEarly, Prepare, FailValidation, GatewayRefuses,
       GatewayFails, Send, Acknowledged, Fails, Refused, TimesOut, RecordPlaced, Release, Broker,
       BrokerAccepts, BrokerRefuses, RequestLost, Misfortune, Disconnected, ServerFails, Resend, Crash, Age

\* The inductive step for replies, under exact recovery.
LEMMA ReplyInvStep == ExactRecovery /\ ReplyInv /\ [Next]_vars => ReplyInv'
<1> SUFFICES ASSUME ExactRecovery, ReplyInv, [Next]_vars PROVE ReplyInv'
  OBVIOUS
<1>type. TypeOK /\ OneSend
  BY DEF ReplyInv
<1>1. TypeOK' /\ OneSend' /\ Accepted \subseteq Accepted'
  BY <1>type, TypeStep, OneSendStep, AcceptedGrows
<1>2. ASSUME NEW r \in Requests PROVE answer'[r] # "none" => pc'[r] = "done"
  BY <1>type, AnswersOnce DEF ReplyInv
<1>3. ASSUME NEW r \in Requests,
             pc'[r] \in {"adopting", "ingesting"} \/ answer'[r] = "placed"
      PROVE  result'[r] \in Accepted' /\ KeyOf[result'[r]] = KeyOf[r]
  <2>1. CASE pc[r] = "done"
    BY <1>type, <1>1, <1>3, <2>1, AnswersOnce DEF ReplyInv, NamesOwnOrder
  <2>2. CASE pc[r] # "done"
    <3>1. answer[r] # "placed"
      BY <2>2 DEF ReplyInv
    <3>2. CASE RecoverOne(r)
      <4>1. result'[r] \in ExactMatch(r)
        BY <1>type, <3>2 DEF RecoverOne, Found, TypeOK
      <4> QED
        BY <1>1, <4>1 DEF ExactMatch
    <3>3. CASE audit[KeyOf[r]].status = "placed" /\ result'[r] = audit[KeyOf[r]].order
      BY <1>1, <3>3, PlacementAssumption DEF ReplyInv
    <3>4. CASE pc[r] = "acked" /\ result'[r] = r
      BY <1>type, <1>1, <3>4 DEF OneSend, Accepted
    <3>5. CASE pc[r] \in {"adopting", "ingesting"} /\ result'[r] = result[r]
      BY <1>1, <3>5 DEF ReplyInv, NamesOwnOrder
    <3> QED
      BY <1>type, <1>3, <2>2, <3>1, <3>2, <3>3, <3>4, <3>5, Names
  <2> QED
    BY <2>1, <2>2
<1>4. ASSUME NEW k \in Keys, audit'[k].status = "placed"
      PROVE  audit'[k].order \in Accepted' /\ KeyOf[audit'[k].order] = k
  <2>1. CASE audit[k].status = "placed" /\ audit'[k].order = audit[k].order
    BY <1>1, <2>1 DEF ReplyInv
  <2>2. ASSUME NEW r \in Requests, KeyOf[r] = k, Adopt(r), audit'[k].order = result[r]
        PROVE  audit'[k].order \in Accepted' /\ KeyOf[audit'[k].order] = k
    BY <1>1, <2>2 DEF ReplyInv, NamesOwnOrder, Adopt
  <2>3. ASSUME NEW r \in Requests, KeyOf[r] = k, RecordPlaced(r), audit'[k].order = r
        PROVE  audit'[k].order \in Accepted' /\ KeyOf[audit'[k].order] = k
    BY <1>1, <1>type, <2>3 DEF RecordPlaced, OneSend, Accepted
  <2> QED
    BY <1>type, <1>4, <2>1, <2>2, <2>3, Completes
<1> QED
  BY <1>1, <1>2, <1>3, <1>4 DEF ReplyInv, NamesOwnOrder

\* With an exact query the invariant of replies holds, whatever may be late.
LEMMA RepliesInvariant == ASSUME ExactRecovery PROVE Spec => []ReplyInv
<1>1. Init => ReplyInv
  BY InitType DEF Init, ReplyInv, OneSend, NoRow
<1>2. ReplyInv /\ [Next]_vars => ReplyInv'
  BY ReplyInvStep
<1> QED
  BY <1>1, <1>2, PTL DEF Spec

\* When the broker can be asked for one order by its client order id, a success
\* reply names a live order of the request's own key: sent, replayed or recovered,
\* and even when claims go stale under live owners.
THEOREM ExactReplyIsOwnOrder ==
  ASSUME ExactRecovery PROVE Spec => []ReplyIsOwnOrder
<1>1. ReplyInv => ReplyIsOwnOrder
  BY DEF ReplyInv, ReplyIsOwnOrder, NamesOwnOrder
<1> QED
  BY <1>1, RepliesInvariant, PTL

-----------------------------------------------------------------------------
(* Placement implements keyed submission.                                  *)

Deduplicated == \A o, p \in Accepted : KeyOf[o] = KeyOf[p] => o = p

\* A broker that deduplicates accepts one order per client order id.
LEMMA DedupedStep ==
  Dedupes /\ TypeOK /\ OneSend /\ Deduplicated /\ [Next]_vars => Deduplicated'
<1> SUFFICES ASSUME Dedupes, TypeOK, OneSend, Deduplicated, [Next]_vars PROVE Deduplicated'
  OBVIOUS
<1>1. ASSUME NEW r \in Requests, BrokerAccepts(r) PROVE Deduplicated'
  <2>1. /\ \A o \in Accepted : KeyOf[o] # KeyOf[r]
        /\ Accepted' = Accepted \cup {r}
    BY <1>1 DEF BrokerAccepts, Accepted, TypeOK
  <2> QED
    BY <2>1 DEF Deduplicated
<1>2. (\E r \in Requests : BrokerAccepts(r)) \/ Accepted' \subseteq Accepted
  BY DEF TypeOK, Accepted, Next, vars, Arrive, ClaimIdempotencyKey, Claim, ReadGone,
         ReadCompleted, ReadFresh, ReadStale, ClaimQueryFails, RecoverStalePlacement,
         RecoverOne, RecoverNone, RecoverAmbiguous, RecoverFails, Adopt, Ingest, Reclaim,
         Reinsert, Place, RefuseEarly, Prepare, FailValidation, GatewayRefuses, GatewayFails,
         Send, Acknowledged, Fails, Refused, TimesOut, RecordPlaced, Release, Broker, BrokerRefuses,
         RequestLost, Misfortune, Disconnected, ServerFails, Resend, Crash, Age
<1> QED
  BY <1>1, <1>2 DEF Deduplicated

\* The order a key has bought is the one accepted for it.
LEMMA BoughtIs ==
  ASSUME NEW S, NEW k \in Keys, \A o, p \in S : KeyOf[o] = KeyOf[p] => o = p,
         NEW bought,
         bought = [j \in Keys |-> IF \E o \in S : KeyOf[o] = j
                                    THEN CHOOSE o \in S : KeyOf[o] = j ELSE NoRequest]
  PROVE  /\ \A o \in S : KeyOf[o] = k => bought[k] = o
         /\ (\A o \in S : KeyOf[o] # k) => bought[k] = NoRequest
         /\ bought[k] \in S \cup {NoRequest}
OBVIOUS

\* What a step does to the answers, besides what it does to the broker's books.
LEMMA OneAnswer ==
  ASSUME TypeOK, [Next]_vars
  PROVE  \/ answer' = answer
         \/ \E r \in Requests :
              /\ pc[r] # "done" /\ answer'[r] # "none" /\ broker' = broker
              /\ answer' = [answer EXCEPT ![r] = answer'[r]]
BY DEF TypeOK, Next, vars, Goto, Reply, NoReply, Sorted, Arrive, ClaimIdempotencyKey,
       Claim, ReadGone, ReadCompleted, ReadFresh, ReadStale, ClaimQueryFails,
       RecoverStalePlacement, RecoverOne, RecoverNone, RecoverAmbiguous, RecoverFails, Adopt,
       Ingest, Reclaim, Reinsert, Place, RefuseEarly, Prepare, FailValidation, GatewayRefuses,
       GatewayFails, Send, Acknowledged, Fails, Refused, TimesOut, RecordPlaced, Release, Broker,
       BrokerAccepts, BrokerRefuses, RequestLost, Misfortune, Disconnected, ServerFails, Resend, Crash, Age

\* The books grow by one order at a time, under no answer.
LEMMA OneOrder ==
  ASSUME TypeOK, [Next]_vars, Accepted \subseteq Accepted'
  PROVE  \/ Accepted' = Accepted
         \/ \E r \in Requests : BrokerAccepts(r) /\ Accepted' = Accepted \cup {r}
<1>1. ASSUME NEW r \in Requests, BrokerAccepts(r) PROVE Accepted' = Accepted \cup {r}
  BY <1>1 DEF BrokerAccepts, Accepted, TypeOK
<1>2. (\E r \in Requests : BrokerAccepts(r)) \/ Accepted' \subseteq Accepted
  BY DEF TypeOK, Accepted, Next, vars, Arrive, ClaimIdempotencyKey, Claim, ReadGone,
         ReadCompleted, ReadFresh, ReadStale, ClaimQueryFails, RecoverStalePlacement,
         RecoverOne, RecoverNone, RecoverAmbiguous, RecoverFails, Adopt, Ingest, Reclaim,
         Reinsert, Place, RefuseEarly, Prepare, FailValidation, GatewayRefuses, GatewayFails,
         Send, Acknowledged, Fails, Refused, TimesOut, RecordPlaced, Release, Broker, BrokerRefuses,
         RequestLost, Misfortune, Disconnected, ServerFails, Resend, Crash, Age
<1> QED
  BY <1>1, <1>2

\* What the refinement rests on.
ExactInv == ReplyInv /\ Deduplicated

\* The submission a state stands for starts with nothing bought and told.
LEMMA InitMaps == Init => Submission!Init
<1> SUFFICES ASSUME Init PROVE Submission!Init
  OBVIOUS
<1>1. Accepted = {}
  BY DEF Init, Accepted
<1>2. Bought = [k \in Keys |-> NoRequest]
  BY <1>1 DEF Bought
<1>3. Told = [r \in Requests |-> NoRequest]
  BY DEF Init, Told
<1> QED
  BY <1>2, <1>3 DEF Submission!Init, Init

\* Every step buys one order, gives one answer, or changes neither.
LEMMA StepMaps ==
  ASSUME Dedupes, ExactInv, ExactInv', [Next]_vars
  PROVE  [Submission!Next]_(Submission!vars)
<1>type. TypeOK /\ TypeOK' /\ OneSend
  BY DEF ExactInv, ReplyInv
<1>1. Accepted \subseteq Accepted'
  BY <1>type, AcceptedGrows
<1>now. ASSUME NEW k \in Keys
        PROVE  /\ \A o \in Accepted : KeyOf[o] = k => Bought[k] = o
               /\ (\A o \in Accepted : KeyOf[o] # k) => Bought[k] = NoRequest
               /\ Bought[k] \in Accepted \cup {NoRequest}
  BY BoughtIs DEF Bought, ExactInv, Deduplicated
<1>then. ASSUME NEW k \in Keys
         PROVE  /\ \A o \in Accepted' : KeyOf[o] = k => Bought'[k] = o
                /\ (\A o \in Accepted' : KeyOf[o] # k) => Bought'[k] = NoRequest
  BY BoughtIs DEF Bought, ExactInv, Deduplicated
<1>maps. /\ Bought = [k \in Keys |-> Bought[k]] /\ Bought' = [k \in Keys |-> Bought'[k]]
         /\ Told = [r \in Requests |-> IF answer[r] = "placed" THEN result[r] ELSE NoRequest]
         /\ Told' = [r \in Requests |-> IF answer'[r] = "placed" THEN result'[r] ELSE NoRequest]
  BY DEF Bought, Told
\* An answer that was given names what it named.
<1>2. ASSUME NEW r \in Requests, answer'[r] = answer[r] PROVE Told'[r] = Told[r]
  <2>1. answer[r] = "placed" => result'[r] = result[r]
    BY <1>type, AnswersOnce DEF ExactInv, ReplyInv
  <2> QED
    BY <1>2, <1>maps, <2>1
<1>3. ASSUME answer' = answer PROVE Told' = Told
  BY <1>2, <1>3, <1>maps
<1>4. CASE Accepted' = Accepted
  <2>1. Bought' = Bought
    BY <1>4 DEF Bought
  <2>2. CASE answer' = answer
    BY <1>3, <2>1, <2>2 DEF Submission!vars
  <2>3. ASSUME NEW r \in Requests, pc[r] # "done", answer'[r] # "none",
               answer' = [answer EXCEPT ![r] = answer'[r]]
        PROVE  Submission!Next
    <3>1. answer[r] = "none" /\ KeyOf[r] \in Keys /\ r # NoRequest
      BY <2>3, PlacementAssumption DEF ExactInv, ReplyInv
    <3>2. \A s \in Requests : s # r => Told'[s] = Told[s]
      BY <1>type, <1>2, <2>3 DEF TypeOK
    <3>3. Told[r] = NoRequest
      BY <3>1, <1>maps
    <3>4. CASE answer'[r] = "placed"
      <4>1. result'[r] \in Accepted /\ KeyOf[result'[r]] = KeyOf[r]
        BY <1>4, <3>4 DEF ExactInv, ReplyInv, NamesOwnOrder
      <4>2. Bought[KeyOf[r]] = result'[r] /\ Bought[KeyOf[r]] # NoRequest
        BY <1>now, <3>1, <4>1, PlacementAssumption DEF Accepted
      <4>3. Told' = [Told EXCEPT ![r] = Bought[KeyOf[r]]]
        BY <1>maps, <3>2, <3>4, <4>2
      <4> QED
        BY <2>1, <2>3, <3>1, <3>4, <4>2, <4>3 DEF Submission!Next, Submission!AnswerPlaced
    <3>5. CASE answer'[r] # "placed"
      <4>1. Told' = Told
        BY <1>maps, <3>2, <3>3, <3>5
      <4>2. answer'[r] \in {"rejected", "in_flight", "uncertain", "unavailable", "ambiguous"}
        BY <1>type, <2>3, <3>5 DEF TypeOK, Answers
      <4> QED
        BY <2>1, <2>3, <3>1, <4>1, <4>2 DEF Submission!Next, Submission!AnswerOpen
    <3> QED
      BY <3>4, <3>5
  <2> QED
    BY <1>type, <2>2, <2>3, OneAnswer
<1>5. ASSUME NEW r \in Requests, BrokerAccepts(r), Accepted' = Accepted \cup {r}
      PROVE  Submission!Next
  <2>1. /\ \A o \in Accepted : KeyOf[o] # KeyOf[r]
        /\ answer' = answer
    BY <1>5 DEF BrokerAccepts
  <2>2. KeyOf[r] \in Keys /\ Bought[KeyOf[r]] = NoRequest
    BY <1>now, <2>1, PlacementAssumption
  <2>3. Bought' = [Bought EXCEPT ![KeyOf[r]] = r]
    <3>1. Bought'[KeyOf[r]] = r
      BY <1>5, <1>then, <2>2
    <3>2. ASSUME NEW k \in Keys, k # KeyOf[r] PROVE Bought'[k] = Bought[k]
      BY <1>5, <1>now, <1>then, <3>2
    <3> QED
      BY <1>maps, <3>1, <3>2
  <2> QED
    BY <1>3, <2>1, <2>2, <2>3 DEF Submission!Next, Submission!Buy
<1> QED
  BY <1>type, <1>1, <1>4, <1>5, OneOrder

\* On a broker that deduplicates client order ids and can be asked for one, as Webull
\* is, placement implements keyed submission for any requests and keys: even while
\* claims go stale under live owners and timeouts are typed as refusals.
THEOREM ExactImplementsKeyedSubmission ==
  ASSUME Dedupes, ExactRecovery
  PROVE  Spec => ImplementsKeyedSubmission
<1>1. Init => ExactInv
  BY InitType, PlacementAssumption
     DEF Init, ExactInv, ReplyInv, OneSend, Deduplicated, Accepted, NoRow
<1>2. ExactInv /\ [Next]_vars => ExactInv'
  BY ReplyInvStep, DedupedStep DEF ExactInv, ReplyInv
<1>3. ExactInv /\ ExactInv' /\ [Next]_vars => [Submission!Next]_(Submission!vars)
  BY StepMaps
<1> QED
  BY <1>1, <1>2, <1>3, InitMaps, PTL DEF Spec, ImplementsKeyedSubmission, Submission!Spec

=============================================================================
