------------------------------ MODULE LiveMicro ------------------------------
(***************************************************************************)
(* The sleeve that trades BTCUSDC with real money from the paper cycle of  *)
(* its strategy (btc_asia_q80_live_micro_runner): once a day, after the    *)
(* paper entry of the day is journaled, the cycle sells the recorded       *)
(* position if it is due and buys one if the signal says so.  What it      *)
(* knows lives in two files, positions.json and _kill_switch.json.  Orders *)
(* may fail before or after they are executed, writes may fail or be cut   *)
(* off, the process may die, and others trade coins of the same account.   *)
(*                                                                         *)
(* A coin is what one entry buys, less the fee where the fee is taken in   *)
(* the coin; what is left of it after a sale of a part counts as one.      *)
(* Prices enter as the loss a check finds, and dates as the days since the *)
(* entry.                                                                  *)
(***************************************************************************)
EXTENDS Integers

CONSTANTS
    Answers,     \* what create_position() may return: the order as Binance answers it
                 \* ("raw"), which the sleeve is written for, and the dictionary that
                 \* BinanceBroker makes of it ("wrapped")
    MaxCoins,    \* bound: coins of the sleeve on the account
    Faults       \* answers get lost, writes fail, the process dies

ASSUME MicroAssumption ==
    /\ Answers \subseteq {"raw", "wrapped"}
    /\ MaxCoins \in Nat \ {0} /\ Faults \in BOOLEAN

VARIABLES
    held,        \* coins the sleeve has bought and not sold
    fee,         \* the last of them is short of what is recorded, by its fee
    others,      \* whether others hold such coins on the account
    book,        \* positions.json: no position, one, or cut off, and the position's age
    flag,        \* _kill_switch.json exists
    journal,     \* the paper journal has no line of the day, one, or a line cut off
    cycle,       \* the cycle: where it is, its signal, and the sale under way
    killed,      \* history: a sale at the loss limit, and no operator since
    slipped,     \* history: what is recorded and what is held may have come apart
    bought,      \* history: the sleeve has bought on this day
    glued        \* history: a line of this day was appended to one cut off

vars == <<held, fee, others, book, flag, journal, cycle, killed, slipped, bought, glued>>

account == <<held, fee, others>>
today == <<journal, bought, glued>>

Books == [kept : {"none", "one", "torn"}, age : 0..2]

Cycles == [pc : {"rest", "exits", "sells", "flags", "saves", "entry", "buys", "records"},
           signal : {"BUY", "NONE", "stale"}, loss : BOOLEAN, sold : BOOLEAN]

NoBook == [kept |-> "none", age |-> 0]

AtRest == [pc |-> "rest", signal |-> "NONE", loss |-> FALSE, sold |-> FALSE]

Called(signal) == [pc |-> "exits", signal |-> signal, loss |-> FALSE, sold |-> FALSE]

TypeOK ==
    /\ held \in 0..MaxCoins /\ fee \in BOOLEAN /\ others \in BOOLEAN
    /\ book \in Books /\ flag \in BOOLEAN /\ journal \in {"blank", "cut", "written"}
    /\ cycle \in Cycles
    /\ killed \in BOOLEAN /\ slipped \in BOOLEAN
    /\ bought \in BOOLEAN /\ glued \in BOOLEAN

Init ==
    /\ held = 0 /\ fee = FALSE /\ others = FALSE
    /\ book = NoBook /\ flag = FALSE /\ journal = "blank"
    /\ cycle = AtRest
    /\ killed = FALSE /\ slipped = FALSE
    /\ bought = FALSE /\ glued = FALSE

At(step) == cycle.pc = step

Go(step) == cycle' = [cycle EXCEPT !.pc = step]

\* Of a write that raises or is cut off: the file is as it was, or torn.
Spoils == Faults /\ book' \in {book, [book EXCEPT !.kept = "torn"]}

\* An error of the sale is journaled, and the cycle goes on; an error of the journal
\* ends it.
Errs == Go("saves") \/ (Faults /\ cycle' = AtRest)

-----------------------------------------------------------------------------
(* run_btc_asia_mes_leadlag_paper_cycle.                                   *)

\* Mutant of Appended: the line of the day is written after the call.
AppendedAfterCall == journal

\* A line appended to one cut off is as illegible as that, and ends it.
Appended == IF journal = "cut" THEN "blank" ELSE "written"

\* The journal is the only guard against a second run on one day, and is written
\* before the sleeve is called.  While the registry does not say live_micro, or the
\* long signal cannot be computed, the sleeve is not called at all.
PassWithSignal(signal) ==
    /\ At("rest") /\ journal # "written"
    /\ journal' = Appended /\ glued' = (glued \/ journal = "cut")
    /\ \/ cycle' = Called(signal)
       \/ UNCHANGED cycle
    /\ UNCHANGED <<account, book, flag, killed, slipped, bought>>

\* The line is cut off: the disk is full, or the process dies.
JournalFails ==
    /\ Faults /\ At("rest") /\ journal # "written"
    /\ journal' = "cut"
    /\ UNCHANGED <<account, book, flag, cycle, killed, slipped, bought, glued>>

\* The day is missing in the data: the sleeve is called on every pass of the half hour.
PassWithoutDay ==
    /\ At("rest")
    /\ cycle' = Called("stale")
    /\ UNCHANGED <<account, book, flag, killed, slipped, today>>

-----------------------------------------------------------------------------
(* run_exit_if_needed.                                                     *)

\* Mutant of HeldLongEnough: the first day after the entry only.
HeldOnTheDay(due) == due => book.age = 1

\* The cycle runs at the same time of every day, so that one day after the entry is
\* a little more than 24 hours, or a little less.
HeldLongEnough(due) == (book.age = 0 => ~due) /\ (book.age = 2 => due)

\* The broker cannot be built.
NoBroker ==
    /\ At("exits")
    /\ cycle' = AtRest
    /\ UNCHANGED <<account, book, flag, killed, slipped, today>>

\* Nothing recorded (or nothing legible), or no price.
NothingToExit ==
    /\ At("exits")
    /\ Go("entry")
    /\ UNCHANGED <<account, book, flag, killed, slipped, today>>

Exits(loss, due) ==
    /\ At("exits") /\ book.kept = "one" /\ HeldLongEnough(due)
    /\ cycle' = [pc |-> IF loss \/ due THEN "sells" ELSE "saves",
                 signal |-> cycle.signal, loss |-> loss, sold |-> FALSE]
    /\ UNCHANGED <<account, book, flag, killed, slipped, today>>

\* The recorded quantity is sold: what the purchase executed, before its fee.  The
\* account does not tell whose coins are sold: others make up for the fee, or for a
\* coin that is not there, and where nobody does, Binance refuses.
Sellable == IF held = 0 THEN others ELSE fee => others \/ held > 1

TakesCoin ==
    /\ Sellable
    /\ IF held = 0 THEN others' = FALSE /\ UNCHANGED <<held, fee>>
       ELSE held' = held - 1 /\ fee' = (fee /\ held > 1) /\ UNCHANGED others

\* The record is dropped whatever was filled, and the flag written for a sale at the
\* loss limit: of a coin of which nothing or a part was sold nobody knows any more.
\* An answer that could not be journaled counts as an error, and the record stays.
Sells ==
    /\ At("sells")
    /\ killed' = (killed \/ cycle.loss)
    /\ \/ /\ cycle' = [pc |-> IF cycle.loss THEN "flags" ELSE "saves",
                       signal |-> cycle.signal, loss |-> cycle.loss, sold |-> TRUE]
          /\ \/ TakesCoin /\ UNCHANGED slipped
             \/ Sellable /\ UNCHANGED account /\ slipped' = TRUE
       \/ Faults /\ TakesCoin /\ Errs /\ slipped' = TRUE
    /\ UNCHANGED <<book, flag, today>>

\* Refused, or executed (all of it, or a part) and the answer lost.
SellRaises ==
    /\ At("sells")
    /\ \/ UNCHANGED <<account, slipped>>
       \/ Faults /\ Sellable /\ (TakesCoin \/ UNCHANGED account) /\ slipped' = TRUE
    /\ Errs
    /\ UNCHANGED <<book, flag, killed, today>>

\* _trigger_kill_switch(); that it raises is reported as a failed sale.  A file cut
\* off counts as a flag.
Flags ==
    /\ At("flags")
    /\ \/ flag' = TRUE /\ Go("saves") /\ UNCHANGED slipped
       \/ /\ Faults /\ flag' \in {flag, TRUE} /\ Errs
          /\ slipped' = (slipped \/ ~flag' \/ cycle' = AtRest)
    /\ UNCHANGED <<account, book, killed, today>>

\* Mutant of Remaining: what was read.
RemainingAsRead == book

\* The positions in memory at the end of the exits.
Remaining == IF cycle.sold THEN NoBook ELSE book

Saves ==
    /\ At("saves")
    /\ book' = Remaining
    /\ cycle' = [pc |-> "entry", signal |-> cycle.signal, loss |-> FALSE, sold |-> FALSE]
    /\ UNCHANGED <<account, flag, killed, slipped, today>>

\* The exception ends the cycle: no entry.
SaveRaises ==
    /\ At("saves")
    /\ Spoils
    /\ slipped' = TRUE
    /\ cycle' = AtRest
    /\ UNCHANGED <<account, flag, killed, today>>

-----------------------------------------------------------------------------
(* run_entry_if_needed.                                                    *)

\* Mutants of MayBuy: without the look at the record, and at the flag.
MayBuyMore == cycle.signal = "BUY" /\ ~flag
MayBuyKilled == cycle.signal = "BUY" /\ book.kept # "one"

\* A torn file reads as no position.
MayBuy == cycle.signal = "BUY" /\ ~flag /\ book.kept # "one"

Entry ==
    /\ At("entry")
    /\ MayBuy /\ Go("buys")
    /\ UNCHANGED <<account, book, flag, killed, slipped, today>>

\* One of the guards, or the sizing caps.
NoEntry ==
    /\ At("entry")
    /\ cycle' = AtRest
    /\ UNCHANGED <<account, book, flag, killed, slipped, today>>

\* The fee is taken in the coin, or in BNB.
TakesOne ==
    /\ held < MaxCoins /\ held' = held + 1
    /\ fee' \in BOOLEAN /\ bought' = TRUE
    /\ UNCHANGED others

\* _extract_fill_details() finds the fill in a raw answer only: without one the entry
\* counts as not filled, and the coin is not recorded.
Buys(answer) ==
    /\ At("buys") /\ TakesOne
    /\ IF answer = "raw" THEN Go("records") /\ UNCHANGED slipped
                         ELSE cycle' = AtRest /\ slipped' = TRUE
    /\ UNCHANGED <<book, flag, killed, journal, glued>>

\* Refused, or nothing filled, or executed and the answer lost.
BuyRaises ==
    /\ At("buys")
    /\ \/ UNCHANGED <<account, slipped, bought>>
       \/ Faults /\ TakesOne /\ slipped' = TRUE
    /\ cycle' = AtRest
    /\ UNCHANGED <<book, flag, killed, journal, glued>>

\* Mutant of NewBook: the position never gets to the file.
NewBookUnsaved == book

NewBook == [kept |-> "one", age |-> 0]

Records ==
    /\ At("records")
    /\ \/ book' = NewBook /\ UNCHANGED slipped
       \/ Spoils /\ slipped' = TRUE
    /\ cycle' = AtRest
    /\ UNCHANGED <<account, flag, killed, today>>

-----------------------------------------------------------------------------
(* The clock, the operator, the others, and the end of the process.        *)

\* Mutant of Older: without the cap of the model.
OlderUncapped == [book EXCEPT !.age = @ + 1]

Older == [book EXCEPT !.age = IF @ < 2 THEN @ + 1 ELSE 2]

\* A line cut off waits for the line of the next day.
NextDay ==
    /\ At("rest")
    /\ journal' = (IF journal = "cut" THEN "cut" ELSE "blank")
    /\ bought' = FALSE /\ glued' = FALSE
    /\ book' = IF book.kept = "one" THEN Older ELSE book
    /\ UNCHANGED <<account, flag, cycle, killed, slipped>>

\* The way back that the flag itself describes: the operator deletes it.
OperatorClears ==
    /\ flag
    /\ flag' = FALSE /\ killed' = FALSE
    /\ UNCHANGED <<account, book, cycle, slipped, today>>

OthersBuy ==
    /\ ~others
    /\ others' = TRUE
    /\ UNCHANGED <<held, fee, book, flag, cycle, killed, slipped, today>>

\* A CLOSE of another strategy, SIGTERM or an emergency close sells every coin.
OthersClose ==
    /\ held > 0 \/ others
    /\ held' = 0 /\ fee' = FALSE /\ others' = FALSE
    /\ slipped' = (slipped \/ held > 0)
    /\ UNCHANGED <<book, flag, cycle, killed, today>>

\* Between an order and the file that tells of it, or inside a write.
Crash ==
    /\ Faults /\ cycle.pc # "rest"
    /\ cycle' = AtRest
    /\ \/ UNCHANGED book
       \/ cycle.pc \in {"saves", "records"} /\ book' = [book EXCEPT !.kept = "torn"]
    /\ UNCHANGED flag \/ (At("flags") /\ flag' = TRUE)
    /\ slipped' = (slipped \/ cycle.sold \/ At("records") \/ book' # book)
    /\ UNCHANGED <<account, killed, today>>

Step ==
    \/ NoBroker \/ NothingToExit
    \/ \E loss, due \in BOOLEAN : Exits(loss, due)
    \/ Sells \/ SellRaises \/ Flags \/ Saves \/ SaveRaises
    \/ Entry \/ NoEntry \/ (\E answer \in Answers : Buys(answer)) \/ BuyRaises \/ Records

Next ==
    \/ \E signal \in {"BUY", "NONE"} : PassWithSignal(signal)
    \/ JournalFails \/ PassWithoutDay
    \/ Step
    \/ NextDay \/ OperatorClears \/ OthersBuy \/ OthersClose \/ Crash

Spec == Init /\ [][Next]_vars

\* Days pass, on infinitely many of them the sleeve is called and finds a price, and a
\* cycle comes to its end.  Nothing is said of what the broker makes of an order.
FairSpec ==
    /\ Spec
    /\ SF_vars(NextDay)
    /\ SF_vars(\E signal \in {"BUY", "NONE"} : PassWithSignal(signal) /\ At("exits")')
    /\ SF_vars(\E loss \in BOOLEAN : Exits(loss, TRUE))
    /\ WF_vars(Step)

-----------------------------------------------------------------------------
(* Properties.                                                             *)

\* The sleeve holds one coin exactly while positions.json says so, and only between an
\* order and the write that follows it are the two apart: until a purchase whose fill
\* the runner does not find, a sale that fills nothing or a part, an answer, a write or
\* the process lost at a bad moment, or another who takes the coin.
OneAndRecorded ==
    slipped \/ held = IF At("records") \/ (book.kept = "one" /\ ~cycle.sold)
                      THEN 1 ELSE 0

\* Until then no sale of the sleeve takes a coin that another strategy holds on the
\* account, beyond the fee that was taken from the sleeve's own: a refused sale, a crash
\* before the order, a missed day and a price that cannot be read all leave the record
\* and the coin together.
SellsItsOwn == [][others' # others /\ cycle' # cycle => slipped']_vars

\* After a sale at the loss limit the sleeve buys no more until the operator deletes
\* the flag, restarts of the process and further signals included.  A crash or a failed
\* write between the sale and the flag loses the kill, and sets slipped: then, and once
\* slipped for another reason, nothing is promised.
KillEndsSleeve == [][held' > held => ~killed \/ slipped]_vars

\* Whatever is lost, slipped or not recorded, the sleeve buys at most once a day: a
\* purchase that went astray is not tried again before the next day's signal.  The
\* exception is a day whose line in the paper journal was glued to one cut off.
OneBuyADay == [][held' > held => ~bought \/ glued]_vars

\* What the files and the account come to: the sleeve's coins, until something slips.
Sleeve == INSTANCE SleevePromise WITH
    coin <- IF slipped THEN "astray"
            ELSE IF held = 0 THEN "none" ELSE IF held = 1 THEN "one" ELSE "many",
    recorded <- book.kept = "one",
    barred <- killed

\* The sleeve implements its promise: in the order of the cycle, through refused
\* orders, skipped days, guards and restarts, it buys one coin only while none is on
\* record and none barred, records it, sells it, and drops the record, before anything
\* else happens to any of them; what sets slipped ends the promise.
SleeveSpec == Sleeve!Spec

\* While a position stays on record, its sale is tried again and again: a refused sale
\* (the balance short of the fee, a guard, the exchange), a missed price, a crash and a
\* day without a call put it off, and none of them for ever.
SaleIsRetried == book.kept = "one" ~> (At("sells") \/ book.kept # "one")

\* "max 1 position, no pyramid" (the runner's docstring): with the dictionaries that
\* BinanceBroker returns, no buy is recorded, and each signal buys one more.
MaxOnePosition == held <= 1

=============================================================================
