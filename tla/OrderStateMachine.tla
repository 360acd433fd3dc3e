-------------------------- MODULE OrderStateMachine --------------------------
(***************************************************************************)
(* The order lifecycle of core/execution/order_state_machine.py as pure    *)
(* operators: the states, the table of legal transitions, and what each    *)
(* guard decides and assigns.  OrderTracker drives it from several threads.*)
(*                                                                         *)
(* An order record keeps the fields the guards read or write: the state,   *)
(* filled_quantity, has_sl and whether broker_order_id is set.  Timestamps,*)
(* the history list and the symbol, side and sl_order_id strings are left  *)
(* out: nothing in the code branches on them.                              *)
(***************************************************************************)
EXTENDS Naturals

CONSTANT TotalQty   \* total_quantity of an order

ASSUME TotalQtyAssumption == TotalQty \in Nat

OrderStates == {"DRAFT", "VALIDATED", "SUBMITTED", "PARTIAL", "FILLED",
                "REJECTED", "CANCELLED", "EXPIRED", "ERROR"}

LegalTransitions ==
    {<<"DRAFT", "VALIDATED">>, <<"DRAFT", "REJECTED">>,
     <<"VALIDATED", "SUBMITTED">>, <<"VALIDATED", "REJECTED">>,
     <<"VALIDATED", "ERROR">>,
     <<"SUBMITTED", "PARTIAL">>, <<"SUBMITTED", "FILLED">>,
     <<"SUBMITTED", "REJECTED">>, <<"SUBMITTED", "CANCELLED">>,
     <<"SUBMITTED", "EXPIRED">>, <<"SUBMITTED", "ERROR">>,
     <<"PARTIAL", "FILLED">>, <<"PARTIAL", "CANCELLED">>,
     <<"PARTIAL", "ERROR">>}

TerminalStates == {"FILLED", "REJECTED", "CANCELLED", "EXPIRED", "ERROR"}

ActiveStates == {"SUBMITTED", "PARTIAL"}

\* States an order can only be in once the broker has been handed the order.
BrokerStates == ActiveStates \cup {"FILLED", "CANCELLED", "EXPIRED"}

\* A slot of the store no order has been put in is marked by the state "NONE".
NoState == "NONE"

OrderRecord == [state : OrderStates \cup {NoState}, filled : Nat,
                hasSl : BOOLEAN, brokerId : BOOLEAN]

Blank == [state |-> NoState, filled |-> 0, hasSl |-> FALSE, brokerId |-> FALSE]

\* Mutant of NewOrder: the initial state is not one of the enumeration.
NewOrderOutsideEnum == [Blank EXCEPT !.state = "NEW"]

NewOrder == [Blank EXCEPT !.state = "DRAFT"]

Exists(r) == r.state # NoState

(***************************************************************************)
(* The context a caller passes to transition(): is a broker id given, the  *)
(* quantity of a partial fill, and has_sl / sl_adjusted.                   *)
(***************************************************************************)
Context == [bid : BOOLEAN, qty : Nat, sl : BOOLEAN]

NoContext == [bid |-> FALSE, qty |-> 0, sl |-> FALSE]

(***************************************************************************)
(* The guard of the key <<from, to>>: GuardRefuses when it returns False,  *)
(* GuardRaises when it raises InvariantViolation, and AfterGuard the order *)
(* once its assignments are done -- the quantity is assigned before the    *)
(* stop-loss test, so also when the guard then raises.                     *)
(***************************************************************************)
GuardRefuses(to, c) ==
    \/ to = "SUBMITTED" /\ ~c.bid
    \/ to = "PARTIAL" /\ c.qty = 0

\* Mutant of GuardRaises: guard_full_fill without its stop-loss test.
GuardRaisesNotOnFill(r, from, to, c) ==
    \/ to = "PARTIAL" /\ c.qty > 0 /\ ~c.sl
    \/ from = "PARTIAL" /\ to = "CANCELLED" /\ ~r.hasSl

GuardRaises(r, from, to, c) ==
    \/ to = "PARTIAL" /\ c.qty > 0 /\ ~c.sl
    \/ to = "FILLED" /\ ~c.sl /\ ~r.hasSl
    \/ from = "PARTIAL" /\ to = "CANCELLED" /\ ~r.hasSl

AfterGuard(r, to, c) ==
    CASE to = "SUBMITTED" -> [r EXCEPT !.brokerId = @ \/ c.bid]
      [] to = "PARTIAL"   -> [r EXCEPT !.filled = @ + c.qty,
                                       !.hasSl = @ \/ (c.qty > 0 /\ c.sl)]
      [] to = "FILLED"    -> [r EXCEPT !.filled = TotalQty, !.hasSl = @ \/ c.sl]
      [] OTHER            -> r

\* How far along its life an order is.
Rank(s) ==
    CASE s \in TerminalStates -> 4
      [] s = "PARTIAL" -> 3
      [] s = "SUBMITTED" -> 2
      [] s = "VALIDATED" -> 1
      [] OTHER -> 0

\* An order in state s may have been in state r before (or not existed): ranks
\* only grow along the table.
Precedes(r, s) == r = NoState \/ r = s \/ Rank(r) < Rank(s)

\* A record r has what the state s demands: docstring invariants 1, 2 and 5.
Covers(r, s) ==
    /\ s \in {"PARTIAL", "FILLED"} => r.hasSl
    /\ s \in BrokerStates => r.brokerId
=============================================================================
