--------------------------- MODULE CryptoPositions ---------------------------
(***************************************************************************)
(* One pair on Binance: the coins on the spot account, the isolated margin *)
(* account on which shorts are opened, and the stop orders on each.  The   *)
(* crypto cycle enters and closes; SIGTERM and the emergency close of the  *)
(* Telegram bot close beside it, without its lock; the crypto watchdog     *)
(* looks; stops fill at any time; any call may fail, before or after the   *)
(* exchange has executed it; a position whose price does not come is not   *)
(* listed; an order may expire with a part filled; the process may die.    *)
(*                                                                         *)
(* Quantities are units of one entry, and a stop order covers one unit.    *)
(* Signals are BUY on spot and SELL on margin: the strategies send no      *)
(* other.  What the exchange does is modelled from the calls.              *)
(***************************************************************************)
EXTENDS Integers

CONSTANTS
    Closers,     \* who closes beside the cycle
    MaxCoins,    \* bound: units held and owed together, coins on margin, stop orders
    Faults       \* answers, prices and cancellations fail, orders expire in part, the
                 \* process dies

ASSUME PositionsAssumption ==
    /\ Closers \subseteq {"sigterm", "telegram"}
    /\ MaxCoins \in Nat \ {0} /\ Faults \in BOOLEAN

VARIABLES
    spot,        \* coins on the spot account, free or locked by a stop
    coins,       \* coins on the isolated margin account
    owed,        \* coins borrowed there
    stops,       \* the open stop orders of each account
    pc,          \* where the cycle and every closer are
    closing,     \* what each of them has read and met while it closes
    watch,       \* the crypto watchdog
    left,        \* history: an entry was left without its stop, a CLOSE has passed its
                 \* coins over or sold a part of them, or a closer came
    strayed      \* history: a short was left half done on margin, its stop filled, or
                 \* a closer came

account == <<spot, coins, owed, stops>>
vars == <<spot, coins, owed, stops, pc, closing, watch, left, strayed>>

Accounts == {"spot", "margin"}
Threads == {"cycle"} \cup Closers

\* In closing: the positions the loop still has to go through, the quantity read and,
\* as history, whether since this closing began a call raised, the coins were passed
\* over or sold in part, or the cycle bought.
Closing == [todo : 0..2, qty : 0..MaxCoins, excused : BOOLEAN]

Fresh == [todo |-> 0, qty |-> 0, excused |-> FALSE]

Steps == {"rest", "signals", "protectSpot", "panicSpot", "short", "protectMargin",
          "panicMargin", "cancelFirst", "list", "pick", "sell", "buy", "repay",
          "cancel", "cancelLast", "done"}

StateTyped ==
    /\ spot \in 0..MaxCoins /\ coins \in 0..MaxCoins /\ owed \in 0..MaxCoins
    /\ stops \in [Accounts -> 0..MaxCoins]
    /\ pc \in [Threads -> Steps]
    /\ closing \in [Threads -> Closing]
    /\ watch \in {"rest", "looks", "protected"}
    /\ left \in BOOLEAN

TypeOK == StateTyped /\ strayed \in BOOLEAN

Init ==
    /\ spot = 0 /\ coins = 0 /\ owed = 0
    /\ stops = [a \in Accounts |-> 0]
    /\ pc = [t \in Threads |-> "rest"]
    /\ closing = [t \in Threads |-> Fresh]
    /\ watch = "rest"
    /\ left = FALSE /\ strayed = FALSE

At(t, step) == pc[t] = step

Go(t, step) == pc' = [pc EXCEPT ![t] = step]

Strays(here) == strayed' = (strayed \/ here)

\* The call raises: refused, or executed and the answer lost.
Raises(change) == UNCHANGED account \/ (Faults /\ change)

-----------------------------------------------------------------------------
(* What an order does to the account.                                      *)

BuysSpot ==
    /\ spot + owed < MaxCoins
    /\ spot' = spot + 1
    /\ UNCHANGED <<coins, owed, stops>>

SellsSpot(qty) ==
    /\ spot >= qty
    /\ spot' = spot - qty
    /\ UNCHANGED <<coins, owed, stops>>

\* The rest of a market order expires; the call answers all the same.
SellsPart(qty) ==
    /\ Faults /\ spot >= qty
    /\ \E n \in 0..(qty - 1) : spot' = spot - n
    /\ UNCHANGED <<coins, owed, stops>>

Stops(a) ==
    /\ stops["spot"] + stops["margin"] < MaxCoins
    /\ stops' = [stops EXCEPT ![a] = @ + 1]
    /\ UNCHANGED <<spot, coins, owed>>

Borrows ==
    /\ spot + owed < MaxCoins /\ coins < MaxCoins
    /\ owed' = owed + 1 /\ coins' = coins + 1
    /\ UNCHANGED <<spot, stops>>

SellsMargin ==
    /\ coins > 0
    /\ coins' = coins - 1
    /\ UNCHANGED <<spot, owed, stops>>

BuysMargin(qty) ==
    /\ coins + qty <= MaxCoins
    /\ coins' = coins + qty
    /\ UNCHANGED <<spot, owed, stops>>

BuysPart(qty) ==
    /\ Faults
    /\ \E n \in 0..(qty - 1) : coins + n <= MaxCoins /\ coins' = coins + n
    /\ UNCHANGED <<spot, owed, stops>>

\* Mutant of Repays: what was asked for, however much of it is there.
RepaysAll(qty) ==
    /\ owed' = owed - qty /\ coins' = coins - qty
    /\ UNCHANGED <<spot, stops>>

Repays(qty) ==
    /\ qty <= owed /\ qty <= coins
    /\ owed' = owed - qty /\ coins' = coins - qty
    /\ UNCHANGED <<spot, stops>>

\* Mutant of BuysBack: the order goes out without its side effect.
BuysBackOnly ==
    /\ coins < MaxCoins /\ coins' = coins + 1
    /\ UNCHANGED <<spot, owed, stops>>

\* AUTO_REPAY: what is bought pays back what is owed.
BuysBack ==
    /\ IF owed > 0 THEN owed' = owed - 1 /\ UNCHANGED coins
                   ELSE coins < MaxCoins /\ coins' = coins + 1 /\ UNCHANGED owed
    /\ UNCHANGED <<spot, stops>>

\* openOrders and order of the spot API: the stops of the margin account, placed
\* under /sapi/v1/margin/order, are not among them.  Every failure is swallowed.
CancelsSpotStops ==
    /\ \E n \in 0..stops["spot"] :
          /\ n > 0 => Faults
          /\ stops' = [stops EXCEPT !["spot"] = n]
    /\ UNCHANGED <<spot, coins, owed>>

-----------------------------------------------------------------------------
(* run_crypto_cycle: entries.                                              *)

\* _crypto_lock is held by the cycle or by the watchdog.
CycleStart ==
    /\ At("cycle", "rest") /\ watch = "rest"
    /\ Go("cycle", "signals")
    /\ UNCHANGED <<account, closing, watch, left, strayed>>

CycleEnd ==
    /\ At("cycle", "signals")
    /\ Go("cycle", "rest")
    /\ UNCHANGED <<account, closing, watch, left, strayed>>

CycleBought ==
    closing' = [t \in Threads |->
                    IF t = "cycle" \/ pc[t] = "rest" THEN closing[t]
                    ELSE [closing[t] EXCEPT !.excused = TRUE]]

\* One call of the cycle: it goes to next, or it raises and the cycle goes to other.
\* What an entry that raises has bought or sold stays without a stop.
Calls(step, change, next, other) ==
    /\ At("cycle", step)
    /\ \/ change /\ Go("cycle", next)
       \/ Raises(change) /\ Go("cycle", other)
    /\ UNCHANGED watch

\* An exception other than BrokerError is not caught where the stop is placed.
Escapes(step, change) ==
    /\ At("cycle", step) /\ Faults
    /\ change \/ UNCHANGED account
    /\ Go("cycle", "signals")
    /\ UNCHANGED watch

\* create_position() of a BUY.
EnterSpot ==
    /\ Calls("signals", BuysSpot, "protectSpot", "signals")
    /\ CycleBought
    /\ left' = (left \/ (spot' # spot /\ pc'["cycle"] = "signals"))
    /\ UNCHANGED strayed

ProtectSpot ==
    /\ \/ Calls("protectSpot", Stops("spot"), "signals", "panicSpot")
       \/ Escapes("protectSpot", Stops("spot"))
    /\ left' = (left \/ (stops' = stops /\ pc'["cycle"] = "signals"))
    /\ UNCHANGED <<closing, strayed>>

\* A close that fails is logged, and the entry reported as filled.
PanicSpot ==
    /\ Calls("panicSpot", SellsSpot(1), "signals", "signals")
    /\ left' = (left \/ spot' = spot)
    /\ UNCHANGED <<closing, strayed>>

\* create_position() of a SELL: borrow, sell, protect.
EnterMargin ==
    /\ Calls("signals", Borrows, "short", "signals")
    /\ Strays(coins' # coins /\ pc'["cycle"] = "signals")
    /\ UNCHANGED <<closing, left>>

SellShort ==
    /\ Calls("short", SellsMargin, "protectMargin", "signals")
    /\ left' = (left \/ (coins' # coins /\ pc'["cycle"] = "signals"))
    /\ Strays(coins' = coins)
    /\ UNCHANGED closing

ProtectMargin ==
    /\ \/ Calls("protectMargin", Stops("margin"), "signals", "panicMargin")
       \/ Escapes("protectMargin", Stops("margin"))
    /\ left' = (left \/ (stops' = stops /\ pc'["cycle"] = "signals"))
    /\ UNCHANGED <<closing, strayed>>

\* Whatever comes of it, the entry is reported as closed.
PanicMargin ==
    /\ Calls("panicMargin", BuysBack, "signals", "signals")
    /\ left' = (left \/ UNCHANGED <<coins, owed>>)
    /\ UNCHANGED <<closing, strayed>>

-----------------------------------------------------------------------------
(* close_position, for a CLOSE of the cycle and for the closers.           *)

HasMargin == owed > 0 \/ coins > 0

\* Whether get_positions() shows the coins on spot, and the margin account, under the
\* symbol that is looked for.  Coins whose ticker fails are left out, or listed under the
\* fallback quote, which the next read may take back; the margin account is left out when
\* its own read or ticker fails.  None of these raises.
Seen(coin, margin) ==
    /\ coin = (spot > 0) \/ (Faults /\ ~coin)
    /\ margin = HasMargin \/ (Faults /\ ~margin)

Positions(coin, margin) == (IF coin THEN 1 ELSE 0) + (IF margin THEN 1 ELSE 0)

Left(t) == IF closing[t].todo > 1 THEN closing[t].todo - 1 ELSE 0

\* Back in the loop of the caller: the signals of the cycle, the positions of a closer.
Closed(t, outcome) ==
    \/ /\ t = "cycle"
       /\ closing' = [closing EXCEPT ![t] = Fresh]
       /\ Go(t, "signals")
    \/ /\ t # "cycle"
       /\ closing' = [closing EXCEPT ![t] =
              [todo |-> Left(t), qty |-> 0,
               excused |-> closing[t].excused \/ outcome = "excused"]]
       /\ Go(t, CASE Left(t) > 0 -> "pick"
                   [] Left(t) = 0 /\ t = "sigterm" -> "cancelLast"
                   [] OTHER -> "done")

Excuses(t) == closing' = [closing EXCEPT ![t] = [closing[t] EXCEPT !.excused = TRUE]]

\* A call raises.  close_all_positions goes on after a BrokerError only, the emergency
\* close after every exception.
Fails(t) ==
    \/ Closed(t, "excused")
    \/ /\ Faults /\ t = "sigterm" /\ Go(t, "done")
       /\ closing' = [closing EXCEPT ![t] = [todo |-> 0, qty |-> 0, excused |-> TRUE]]

\* The guard of the cycle has found something on the pair.
CloseSignal ==
    /\ At("cycle", "signals") /\ (spot > 0 \/ HasMargin)
    /\ Go("cycle", "pick")
    /\ UNCHANGED <<account, closing, watch, left, strayed>>

\* Mutant of Picked: only the coins that no stop order locks.
PickedFree(coin, margin, step, qty) ==
    \/ coin /\ step = "sell" /\ spot > stops["spot"] /\ qty = spot - stops["spot"]
    \/ ~coin /\ margin /\ step = "buy" /\ owed > 0 /\ qty = owed
    \/ ~coin /\ margin /\ step = "sell" /\ owed = 0 /\ qty = coins

\* The first position listed under the symbol; spot comes first, and a long on margin
\* is sold on spot.
Picked(coin, margin, step, qty) ==
    \/ coin /\ step = "sell" /\ qty = spot
    \/ ~coin /\ margin /\ step = "buy" /\ owed > 0 /\ qty = owed
    \/ ~coin /\ margin /\ step = "sell" /\ owed = 0 /\ qty = coins

\* The positions are read again.  Coins that are not seen are passed over: the position
\* on margin is closed in their place, or nothing is, without an error.
Pick(t) ==
    /\ At(t, "pick")
    /\ \/ \E coin, margin \in BOOLEAN :
             LET passed == spot > 0 /\ ~coin IN
             /\ Seen(coin, margin)
             /\ \/ \E step \in {"sell", "buy"}, qty \in 1..MaxCoins :
                      /\ Picked(coin, margin, step, qty)
                      /\ closing' = [closing EXCEPT ![t] =
                             [todo |-> closing[t].todo, qty |-> qty,
                              excused |-> closing[t].excused \/ passed]]
                      /\ left' = (left \/ passed)
                      /\ Go(t, step)
                \/ /\ ~coin /\ ~margin
                   /\ Closed(t, IF passed THEN "excused" ELSE "closed")
                   /\ UNCHANGED left
       \/ Faults /\ Fails(t) /\ UNCHANGED left
    /\ UNCHANGED <<account, watch, strayed>>

Proceeds(t, next) == Go(t, next) /\ UNCHANGED closing

\* Mutant of Sell: the stop orders are cancelled in a finally clause.
SellAndCancel(t) ==
    /\ At(t, "sell")
    /\ SellsSpot(closing[t].qty) \/ Raises(SellsSpot(closing[t].qty))
    /\ Proceeds(t, "cancel")
    /\ UNCHANGED <<watch, left, strayed>>

\* The stops are cancelled whatever part of the order has been filled.
Sell(t) ==
    /\ At(t, "sell")
    /\ LET qty == closing[t].qty IN
       \/ SellsSpot(qty) /\ Proceeds(t, "cancel") /\ UNCHANGED left
       \/ SellsPart(qty) /\ Excuses(t) /\ Go(t, "cancel") /\ left' = TRUE
       \/ Raises(SellsSpot(qty) \/ SellsPart(qty)) /\ Fails(t) /\ UNCHANGED left
    /\ UNCHANGED <<watch, strayed>>

Buy(t) ==
    /\ At(t, "buy")
    /\ LET bought == BuysMargin(closing[t].qty) \/ BuysPart(closing[t].qty) IN
       \/ bought /\ Proceeds(t, "repay")
       \/ Raises(bought) /\ Fails(t)
    /\ Strays(coins' # IF pc'[t] = "repay" THEN coins + closing[t].qty ELSE coins)
    /\ UNCHANGED <<watch, left>>

\* A BrokerError of the repayment is logged.
Repay(t) ==
    /\ At(t, "repay")
    /\ Repays(closing[t].qty) \/ UNCHANGED account
    /\ Proceeds(t, "cancel") \/ (Faults /\ Fails(t))
    /\ Strays(owed' = owed)
    /\ UNCHANGED <<watch, left>>

\* None is cancelled, too, where the coins were sold under the fallback symbol: the stops
\* stand on the pair.
Cancel(t) ==
    /\ At(t, "cancel")
    /\ CancelsSpotStops
    /\ Closed(t, "closed") \/ (Faults /\ Fails(t))
    /\ UNCHANGED <<watch, left, strayed>>

CloseStep(t) == Pick(t) \/ Sell(t) \/ Buy(t) \/ Repay(t) \/ Cancel(t)

-----------------------------------------------------------------------------
(* EmergencyCloseAll._close_broker and close_all_positions.                *)

CloserStart(t) ==
    /\ At(t, "rest")
    /\ Go(t, IF t = "telegram" THEN "cancelFirst" ELSE "list")
    /\ left' = TRUE /\ strayed' = TRUE
    /\ UNCHANGED <<account, closing, watch>>

\* The emergency close cancels before it closes, SIGTERM after; either may fail.
CancelAll(t) ==
    /\ CancelsSpotStops
    /\ \/ At(t, "cancelFirst") /\ Proceeds(t, "list")
       \/ At(t, "cancelLast") /\ Proceeds(t, "done")
    /\ UNCHANGED <<watch, left, strayed>>

\* A list that is shorter than the account is no error.
List(t) ==
    /\ At(t, "list")
    /\ \/ \E coin, margin \in BOOLEAN :
             LET found == Positions(coin, margin) IN
             /\ Seen(coin, margin)
             /\ closing' = [closing EXCEPT ![t] =
                    [todo |-> found, qty |-> 0,
                     excused |-> closing[t].excused \/ (spot > 0 /\ ~coin)]]
             /\ Go(t, CASE found > 0 -> "pick"
                         [] found = 0 /\ t = "sigterm" -> "cancelLast"
                         [] OTHER -> "done")
       \/ Faults /\ Excuses(t) /\ Go(t, "done")
    /\ UNCHANGED <<account, watch, left, strayed>>

Report ==
    /\ "telegram" \in Closers /\ At("telegram", "done")
    /\ Go("telegram", "rest")
    /\ closing' = [closing EXCEPT !["telegram"] = Fresh]
    /\ UNCHANGED <<account, watch, left, strayed>>

\* The process dies, or ends with SIGTERM, whatever its threads are at.
Ends ==
    /\ Faults \/ ("sigterm" \in Closers /\ At("sigterm", "done"))
    /\ pc' = [t \in Threads |-> "rest"]
    /\ closing' = [t \in Threads |-> Fresh]
    /\ watch' = "rest"
    /\ left' = (left \/ pc["cycle"] \in {"protectSpot", "panicSpot",
                                          "protectMargin", "panicMargin"})
    /\ Strays(pc["cycle"] \in {"short", "repay"})
    /\ UNCHANGED account

-----------------------------------------------------------------------------
(* run_crypto_watchdog_cycle.                                              *)

WatchStart ==
    /\ watch = "rest" /\ At("cycle", "rest")
    /\ watch' = "looks"
    /\ UNCHANGED <<account, pc, closing, left, strayed>>

\* Every live position is passed over: get_open_orders() raises, since BinanceBroker
\* has no such method.  None is counted as unprotected, and all are reported to be.
WatchLook ==
    /\ watch = "looks"
    /\ \/ \E coin, margin \in BOOLEAN :
             /\ Seen(coin, margin)
             /\ watch' = IF Positions(coin, margin) > 0 THEN "protected" ELSE "rest"
       \/ Faults /\ watch' = "rest"
    /\ UNCHANGED <<account, pc, closing, left, strayed>>

WatchEnd ==
    /\ watch = "protected"
    /\ watch' = "rest"
    /\ UNCHANGED <<account, pc, closing, left, strayed>>

-----------------------------------------------------------------------------
(* The exchange.                                                           *)

\* A stop order fills, or is refused for want of coins.  The one on margin has no
\* side effect: what it buys stays beside the debt.
StopFills ==
    /\ \/ /\ stops["spot"] > 0
          /\ stops' = [stops EXCEPT !["spot"] = @ - 1]
          /\ spot' = IF spot > 0 THEN spot - 1 ELSE 0
          /\ UNCHANGED <<coins, owed, strayed>>
       \/ /\ stops["margin"] > 0 /\ coins < MaxCoins
          /\ stops' = [stops EXCEPT !["margin"] = @ - 1]
          /\ coins' = coins + 1
          /\ strayed' = TRUE
          /\ UNCHANGED <<spot, owed>>
    /\ UNCHANGED <<pc, closing, watch, left>>

CycleStep ==
    \/ CycleStart \/ CycleEnd \/ EnterSpot \/ ProtectSpot \/ PanicSpot
    \/ EnterMargin \/ SellShort \/ ProtectMargin \/ PanicMargin \/ CloseSignal

Next ==
    \/ CycleStep
    \/ \E t \in Threads : CloseStep(t)
    \/ \E t \in Closers : CloserStart(t) \/ CancelAll(t) \/ List(t)
    \/ Report \/ Ends \/ WatchStart \/ WatchLook \/ WatchEnd \/ StopFills

Spec == Init /\ [][Next]_vars

-----------------------------------------------------------------------------
(* Properties.                                                             *)

Covered == spot <= stops["spot"] /\ owed - coins <= stops["margin"]

\* Units of the entry under way, whose stop is still to come.
Entering(a) ==
    LET steps == IF a = "spot" THEN {"protectSpot", "panicSpot"}
                               ELSE {"protectMargin", "panicMargin"} IN
    IF pc["cycle"] \in steps THEN 1 ELSE 0

\* Every coin held and every coin sold short has a stop, until an entry is left without
\* its own (its answer or its emergency close fails, the stop's call raises something
\* else than BrokerError, the process dies in between), a CLOSE cancels the stops of
\* coins it has not sold (their ticker fails and it buys back the short of the pair
\* in their place; the sale is filled in part), or somebody closes beside the cycle.  Nothing else
\* uncovers a coin: a CLOSE that fails at any of its calls, reads that leave positions
\* out, stops that fill in the middle of it, restarts.
CoveredUntilLeft ==
    ~left => /\ spot <= stops["spot"] + Entering("spot")
             /\ owed - coins <= stops["margin"] + Entering("margin")

\* Coins on margin are those of the call under way, borrowed to be sold or bought to be
\* repaid, and a CLOSE buys back what is owed, no more: until a short is left half done
\* (its borrow, sale, purchase or repayment gets lost or filled in part, the process dies
\* between the two), its stop fills beside the debt, or somebody closes beside the cycle.
\* Coins on spot that are passed over make no difference to what is bought back.
MarginIsShort ==
    ~strayed =>
        /\ coins = CASE At("cycle", "short") -> 1
                     [] At("cycle", "repay") -> closing["cycle"].qty
                     [] OTHER -> 0
        /\ pc["cycle"] \in {"buy", "repay"} => closing["cycle"].qty = owed

\* Closing everything beside the cycle and the stops: a closing that no call broke has
\* left no coin on spot, unless a read of it passed the coins over (their ticker failed,
\* or answered for the fallback quote only), the sale was filled in part, or the cycle
\* bought meanwhile.  The closing reports none of these three as an error.
CloseFlattens ==
    \A t \in Closers : At(t, "done") /\ ~closing[t].excused => spot = 0

-----------------------------------------------------------------------------
(* What the documents say and the code does not do.                        *)

\* worker.py, "verify every live Binance position (> $5) has an active stop-loss order
\* on the exchange": the watchdog reports positions as protected when they are.
ProtectedIsCovered ==
    [][watch = "looks" /\ watch' = "protected" => Covered]_vars

=============================================================================
