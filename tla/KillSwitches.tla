----------------------------- MODULE KillSwitches -----------------------------
(***************************************************************************)
(* The two kill switches and whoever reads and writes them:                *)
(*   - data/kill_switch_state.json of LiveKillSwitch;                      *)
(*   - data/crypto_kill_switch_state.json of CryptoKillSwitch.             *)
(* Every user builds a fresh object that loads the whole file and saves it *)
(* whole, with open("w"): between the truncation and the write the file    *)
(* cannot be parsed, and both loaders then answer "inactive".              *)
(*                                                                         *)
(* The risk cycle and the crypto cycle are threads of the worker, the      *)
(* Telegram bot and the operator's shell are processes of their own.  The  *)
(* worker's loop runs one cycle after the other, unless one outlives its   *)
(* CycleRunner timeout (Overlap).                                          *)
(*                                                                         *)
(* Left out: history, thresholds, alerts, disabled_strategies, the books   *)
(* without live orders, and the checks of an entry that do not depend on a *)
(* switch.  A switch file and the market are small values, not texts.      *)
(***************************************************************************)
EXTENDS Naturals

CONSTANTS
    Armers,      \* who arms the switches: "risk" (the cycle), "bot" (Telegram)
    Overlap,     \* a cycle may outlive its timeout and run beside the others
    Faults       \* the write of a file may fail (the exception is swallowed)

ASSUME ArmersAssumption == Armers \subseteq {"risk", "bot"}

ASSUME ModesAssumption == Overlap \in BOOLEAN /\ Faults \in BOOLEAN

VARIABLES
    live,        \* the live switch file
    crypto,      \* the crypto switch file; "derived": its reason starts with
                 \* live_kill_ or emergency_LEVEL_
    aged,        \* trigger_time of the crypto switch is more than 24 h old
    arm,         \* where each armer stands
    operator,    \* where a deactivate() from the operator's shell stands
    trade,       \* where the crypto cycle stands
    health,      \* get_book_health("binance_crypto") as the worker cached it
    wired,       \* the brokers EmergencyCloseAll was given at boot
    open,        \* the books that hold positions
    loss,        \* the daily loss is past the threshold
    up,          \* the worker process runs
    beside       \* history: the bot has armed beside the crypto cycle under way

switches == <<live, crypto, aged, arm, operator, trade, health, wired,
              open, loss, up>>
vars == <<switches, beside>>

Books == {"crypto", "futures"}

\* Mutant of AtRest: the reason of the risk cycle is of neither kind.
AtRestUntagged == [pc |-> "rest", tag |-> "other", last |-> FALSE]

\* Whatever the risk cycle arms the crypto switch with is derived.
AtRest == [pc |-> "rest", tag |-> "derived", last |-> FALSE]

ArmRecord ==
    [pc : {"rest", "load", "live", "liveWrite", "crypto", "cryptoWrite", "close"},
     tag : {"own", "derived"}, last : BOOLEAN]

StateTyped ==
    /\ live \in {"off", "on", "torn"}
    /\ crypto \in {"off", "own", "derived", "torn"}
    /\ arm \in [Armers -> ArmRecord]
    /\ operator \in {"rest", "off", "offWrite"}
    /\ trade \in {"rest", "reset", "resetWrite", "check", "trip", "tripWrite", "entry"}
    /\ health \in {"none", "green", "refused"}
    /\ wired \in SUBSET Books
    /\ open \in SUBSET Books
    /\ {aged, loss, up} \subseteq BOOLEAN

TypeOK == StateTyped /\ beside \in BOOLEAN

\* Binance is wired whenever its key is configured; IBKR only when the port of
\* the gateway answers while the worker boots.
Wirings == {Books, {"crypto"}}

Init ==
    /\ live = "off" /\ crypto = "off"
    /\ arm = [a \in Armers |-> AtRest]
    /\ operator = "rest" /\ trade = "rest"
    /\ health = "none"
    /\ wired \in Wirings
    /\ open = {}
    /\ aged = FALSE /\ loss = FALSE /\ up = TRUE
    /\ beside = FALSE

-----------------------------------------------------------------------------
(* Arming: LiveKillSwitch().activate(), then CryptoKillSwitch()._activate().*)

Runs(a) == a = "risk" => up

RiskIsIdle == "risk" \in Armers => arm["risk"].pc = "rest"

\* Mutant of TurnOfTrade: every cycle on a thread of its own.
TurnOfTradeAlways == TRUE

\* One cycle of the worker at a time, unless one has outlived its timeout.
TurnOfRisk == Overlap \/ trade = "rest"

TurnOfTrade == Overlap \/ RiskIsIdle

Go(a, pc) == arm' = [arm EXCEPT ![a].pc = pc]

\* check_automatic_triggers(): which loss is past which threshold is one fact.
\* The object is a new one, so it finds no _deactivated_at: the cooldown of 30
\* minutes never applies.
Triggered == loss

\* run_live_risk_cycle() as far as the trigger; without one it changes nothing.
RiskStart ==
    /\ "risk" \in Armers /\ arm["risk"].pc = "rest"
    /\ up /\ Triggered /\ TurnOfRisk
    /\ Go("risk", "load")
    /\ UNCHANGED <<live, crypto, aged, operator, trade, health, wired,
                   open, loss, up>>

\* /kill and /emergency: close everything they can, then arm.
BotStart ==
    \E closed \in SUBSET open, tag \in {"own", "derived"} :
        /\ "bot" \in Armers /\ arm["bot"].pc = "rest"
        /\ open' = open \ closed
        /\ arm' = [arm EXCEPT !["bot"] = [pc |-> "load", tag |-> tag, last |-> TRUE]]
        /\ UNCHANGED <<live, crypto, aged, operator, trade, health,
                       wired, loss, up>>

\* Mutant of Load: a switch already active ends the cycle.
LoadEndsIfActive(a) ==
    /\ Runs(a) /\ arm[a].pc = "load"
    /\ Go(a, IF live = "on" THEN "rest" ELSE "live")
    /\ UNCHANGED <<live, crypto, aged, operator, trade, health, wired,
                   open, loss, up>>

\* A switch already active is not saved again.
Load(a) ==
    /\ Runs(a) /\ arm[a].pc = "load"
    /\ Go(a, IF live = "on" THEN "crypto" ELSE "live")
    /\ UNCHANGED <<live, crypto, aged, operator, trade, health, wired,
                   open, loss, up>>

\* open("w") truncates; a failure before it leaves the file as it was.
OpenLive(a) ==
    /\ Runs(a) /\ arm[a].pc = "live"
    /\ \/ live' = "torn" /\ Go(a, "liveWrite")
       \/ Faults /\ UNCHANGED live /\ Go(a, "crypto")
    /\ UNCHANGED <<crypto, aged, operator, trade, health, wired, open,
                   loss, up>>

\* A failed write, or one mixed with another writer's, leaves it unreadable.
WriteLive(a) ==
    /\ Runs(a) /\ arm[a].pc = "liveWrite"
    /\ live' = "on" \/ (Faults /\ live' = "torn")
    /\ Go(a, "crypto")
    /\ UNCHANGED <<crypto, aged, operator, trade, health, wired, open,
                   loss, up>>

\* The risk cycle closes after its first arming and arms again after that.
Armed(a) ==
    IF a = "risk" /\ ~arm[a].last THEN Go(a, "close")
                                  ELSE arm' = [arm EXCEPT ![a] = AtRest]

OpenCrypto(a) ==
    /\ Runs(a) /\ arm[a].pc = "crypto"
    /\ \/ crypto' = "torn" /\ Go(a, "cryptoWrite")
       \/ Faults /\ UNCHANGED crypto /\ Armed(a)
    /\ UNCHANGED <<live, aged, operator, trade, health, wired, open,
                   loss, up>>

WriteCrypto(a) ==
    /\ Runs(a) /\ arm[a].pc = "cryptoWrite"
    /\ \/ crypto' = arm[a].tag /\ aged' = FALSE
       \/ Faults /\ crypto' = "torn" /\ UNCHANGED aged
    /\ Armed(a)
    /\ UNCHANGED <<live, operator, trade, health, wired, open, loss, up>>

\* EmergencyCloseAll.execute(): each position of a wired broker is closed or
\* not, then the callback arms both switches -- unless execute() raised.
RiskClose ==
    /\ "risk" \in Armers /\ Runs("risk") /\ arm["risk"].pc = "close"
    /\ \E closed \in SUBSET (wired \cap open) : open' = open \ closed
    /\ \/ arm' = [arm EXCEPT !["risk"].pc = "load", !["risk"].last = TRUE]
       \/ arm' = [arm EXCEPT !["risk"] = AtRest]
    /\ UNCHANGED <<live, crypto, aged, operator, trade, health, wired,
                   loss, up>>

ArmStep(a) ==
    Load(a) \/ OpenLive(a) \/ WriteLive(a) \/ OpenCrypto(a) \/ WriteCrypto(a)

-----------------------------------------------------------------------------
(* LiveKillSwitch().deactivate() from a shell.                             *)

Deactivate ==
    /\ operator = "rest" /\ live = "on"
    /\ operator' = "off"
    /\ UNCHANGED <<live, crypto, aged, arm, trade, health, wired, open,
                   loss, up>>

OpenOff ==
    /\ operator = "off"
    /\ live' = "torn" /\ operator' = "offWrite"
    /\ UNCHANGED <<crypto, aged, arm, trade, health, wired, open, loss, up>>

WriteOff ==
    /\ operator = "offWrite"
    /\ live' = "off" \/ (Faults /\ live' = "torn")
    /\ operator' = "rest"
    /\ UNCHANGED <<crypto, aged, arm, trade, health, wired, open, loss, up>>

-----------------------------------------------------------------------------
(* run_crypto_cycle() around the crypto switch.                            *)

\* Mutant of TradeStart: a derived arming is lifted without a look at the live switch.
TradeStartUnasked ==
    /\ up /\ trade = "rest" /\ TurnOfTrade
    /\ \/ crypto \in {"off", "torn"} /\ trade' = "check"
       \/ crypto = "derived" /\ trade' = "reset"
       \/ crypto = "own" /\ aged /\ trade' = "reset"
    /\ health' \in IF Overlap THEN {"none", health} ELSE {"none"}
    /\ UNCHANGED <<live, crypto, aged, arm, operator, wired, open, loss, up>>

\* Each load of an unreadable file answers inactive.  A cycle starts 15 minutes
\* after the last one ended: what that one had cached has expired, unless the
\* last one outlived its timeout.
TradeStart ==
    /\ up /\ trade = "rest" /\ TurnOfTrade
    /\ \/ crypto \in {"off", "torn"} /\ trade' = "check"
       \/ crypto = "derived" /\ live # "on" /\ trade' = "reset"
       \/ crypto \in {"own", "derived"} /\ aged /\ trade' = "reset"
    /\ health' \in IF Overlap THEN {"none", health} ELSE {"none"}
    /\ UNCHANGED <<live, crypto, aged, arm, operator, wired, open, loss, up>>

\* reset(): the cycle goes on even when the save failed.
TradeReset ==
    /\ up /\ trade = "reset"
    /\ \/ crypto' = "torn" /\ trade' = "resetWrite"
       \/ Faults /\ UNCHANGED crypto /\ trade' = "check"
    /\ UNCHANGED <<live, aged, arm, operator, health, wired, open, loss, up>>

TradeResetWrite ==
    /\ up /\ trade = "resetWrite"
    /\ crypto' = "off" \/ (Faults /\ crypto' = "torn")
    /\ trade' = "check"
    /\ UNCHANGED <<live, aged, arm, operator, health, wired, open, loss, up>>

\* check_all(): one of the crypto triggers kills, and validate_order() then
\* refuses every order of this cycle; or none does.
TradeCheck ==
    /\ up /\ trade = "check"
    /\ trade' \in {"trip", "entry"}
    /\ UNCHANGED <<live, crypto, aged, arm, operator, health, wired,
                   open, loss, up>>

TradeTrip ==
    /\ up /\ trade = "trip"
    /\ \/ crypto' = "torn" /\ trade' = "tripWrite"
       \/ Faults /\ UNCHANGED crypto /\ trade' = "rest"
    /\ UNCHANGED <<live, aged, arm, operator, health, wired, open, loss, up>>

TradeTripWrite ==
    /\ up /\ trade = "tripWrite"
    /\ \/ crypto' = "own" /\ aged' = FALSE
       \/ Faults /\ crypto' = "torn" /\ UNCHANGED aged
    /\ trade' = "rest"
    /\ UNCHANGED <<live, arm, operator, health, wired, open, loss, up>>

\* Mutant of CryptoHealth: an unreadable file passes for an inactive switch.
HealthIgnoresTorn == IF crypto \in {"off", "torn"} THEN "green" ELSE "refused"

\* check_binance_crypto(): an active switch is BLOCKED and an unreadable file is
\* DEGRADED for a cause the guard does not tolerate.
CryptoHealth == IF crypto = "off" THEN "green" ELSE "refused"

\* get_book_health(): cached less than 60 seconds ago, or else computed.
BookHealth == IF health = "none" THEN CryptoHealth ELSE health

\* pre_order_guard() on an order of a strategy: what it asks about the book.
TradeOrder ==
    /\ up /\ trade = "entry"
    /\ health' = BookHealth
    /\ open' = IF BookHealth = "green" THEN open \cup {"crypto"} ELSE open
    /\ UNCHANGED <<live, crypto, aged, arm, operator, trade, wired, loss, up>>

TradeEnd ==
    /\ up /\ trade = "entry"
    /\ trade' = "rest"
    /\ UNCHANGED <<live, crypto, aged, arm, operator, health, wired,
                   open, loss, up>>

\* run_futures_cycle() places its entry; it reads no switch.
FuturesOrder ==
    /\ up /\ "futures" \notin open
    /\ TurnOfRisk /\ TurnOfTrade
    /\ open' = open \cup {"futures"}
    /\ UNCHANGED <<live, crypto, aged, arm, operator, trade, health,
                   wired, loss, up>>

TradeStep ==
    \/ TradeStart \/ TradeReset \/ TradeResetWrite \/ TradeCheck \/ TradeTrip
    \/ TradeTripWrite \/ TradeOrder \/ TradeEnd

-----------------------------------------------------------------------------
(* Time, the market and the process.                                       *)

Passes ==
    /\ \/ crypto \in {"own", "derived"} /\ aged' = TRUE /\ UNCHANGED health
       \/ health' = "none" /\ UNCHANGED aged
    /\ UNCHANGED <<live, crypto, arm, operator, trade, wired, open, loss, up>>

\* The day's loss crosses the threshold; a new day starts from a new baseline;
\* a stop-loss or a target closes a position.
Market ==
    /\ \/ loss' = ~loss /\ UNCHANGED open
       \/ \E b \in open : open' = open \ {b} /\ UNCHANGED loss
    /\ UNCHANGED <<live, crypto, aged, arm, operator, trade, health,
                   wired, up>>

Crash ==
    /\ up
    /\ up' = FALSE
    /\ arm' = [a \in Armers |-> IF a = "risk" THEN AtRest ELSE arm[a]]
    /\ trade' = "rest" /\ health' = "none"
    /\ UNCHANGED <<live, crypto, aged, operator, wired, open, loss>>

Boot ==
    /\ ~up
    /\ up' = TRUE
    /\ wired' \in Wirings
    /\ UNCHANGED <<live, crypto, aged, arm, operator, trade, health,
                   open, loss>>

\* Everything but the steps of an arming.
OtherStep ==
    \/ RiskStart \/ RiskClose \/ BotStart
    \/ Deactivate \/ OpenOff \/ WriteOff
    \/ TradeStep \/ FuturesOrder
    \/ Passes \/ Market \/ Crash \/ Boot

Next ==
    \/ \E a \in Armers :
          ArmStep(a) /\ beside' = (beside \/ (a = "bot" /\ trade # "rest"))
    \/ OtherStep /\ beside' = (beside /\ trade' # "rest")

Spec == Init /\ [][Next]_vars

(***************************************************************************)
(* What the scheduling justifies: while the worker runs, its loop tests the*)
(* timer of the risk cycle on every pass (strong, since another cycle may  *)
(* be running in between), a cycle that has started goes on, and closing   *)
(* everything that is wired, tried again and again, works in the end.      *)
(***************************************************************************)
CloseAll == RiskClose /\ open' = open \ wired

Fairness ==
    /\ SF_switches(RiskStart) /\ WF_switches(ArmStep("risk")) /\ SF_switches(CloseAll)
    /\ WF_switches(TradeStep) /\ WF_switches(TradeEnd)

FairSpec == Spec /\ Fairness

-----------------------------------------------------------------------------
(* Properties.                                                             *)

CryptoEntry == "crypto" \notin open /\ "crypto" \in open'

\* A crypto position is only opened while the crypto switch can be read and is off,
\* although a torn file loads as inactive and the guard works from a cache: what one of
\* the two misses the other catches.
CryptoEntryNeedsOff == [][CryptoEntry => crypto = "off"]_vars

\* With a bot that arms at any moment, an order may go out on a switch that is on or torn
\* only in the cycle beside which the bot armed: neither a cached answer nor a torn file
\* carries it into a cycle that starts later.
EntryNeedsOffOrBot == [][CryptoEntry => crypto = "off" \/ beside]_vars

\* Why the crypto cycle may lift an arming, as run_crypto_cycle() tests it.
Liftable == aged \/ (crypto = "derived" /\ live # "on")

\* When the crypto cycle comes to lift an arming, the cause it found before still stands,
\* unless the bot has armed in between: no other cycle of the worker has, and an operator
\* at work only adds to the cause.
LiftedForCause ==
    [][trade = "reset" /\ trade' = "resetWrite" => Liftable \/ beside]_vars

\* What makes both hold when the worker runs one cycle at a time: its own arming is never
\* under way while the crypto cycle is, and a health answer that this cycle would find in
\* the cache still describes the file, unless the bot has armed beside it.
SerialInv ==
    /\ trade = "rest" \/ RiskIsIdle
    /\ trade # "rest" => up
    /\ trade # "rest" /\ health = "green" /\ ~beside => trade = "entry" /\ crypto = "off"
    /\ beside => trade # "rest" /\ "bot" \in Armers

\* A daily loss that lasts gets everything closed that the emergency close can
\* reach, however often closings fail, files are lost and switches already on:
\* activate() does not close again, but the cycle does.
LossIsFlattened ==
    (loss /\ up /\ wired = Books) ~> (open = {} \/ ~loss \/ ~up)

=============================================================================
