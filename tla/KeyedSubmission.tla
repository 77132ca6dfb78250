-------------------------- MODULE KeyedSubmission --------------------------
(***************************************************************************)
(* What keyed placement promises its callers on a broker that keeps one    *)
(* order per client order id and can be asked for it: a key buys at most   *)
(* one order; a request told "placed" is told the order its key bought;    *)
(* any other answer, a rejection included, leaves the outcome open.        *)
(***************************************************************************)
CONSTANTS Requests, Keys, KeyOf, NoRequest

VARIABLES
  bought,  \* the request whose order each key bought
  answer,  \* how each request was answered
  result   \* the order a success names

vars == <<bought, answer, result>>

Init ==
  /\ bought = [k \in Keys |-> NoRequest]
  /\ answer = [r \in Requests |-> "none"]
  /\ result = [r \in Requests |-> NoRequest]

Buy(r) ==
  /\ bought[KeyOf[r]] = NoRequest
  /\ bought' = [bought EXCEPT ![KeyOf[r]] = r]
  /\ UNCHANGED <<answer, result>>

AnswerPlaced(r) ==
  /\ answer[r] = "none"
  /\ bought[KeyOf[r]] # NoRequest
  /\ answer' = [answer EXCEPT ![r] = "placed"]
  /\ result' = [result EXCEPT ![r] = bought[KeyOf[r]]]
  /\ UNCHANGED bought

AnswerOpen(r) ==
  /\ answer[r] = "none"
  /\ \E a \in {"rejected", "in_flight", "uncertain", "unavailable", "ambiguous"} :
       answer' = [answer EXCEPT ![r] = a]
  /\ UNCHANGED <<bought, result>>

Next == \E r \in Requests :
  Buy(r) \/ AnswerPlaced(r) \/ AnswerOpen(r)

Spec == Init /\ [][Next]_vars

=============================================================================
