--------------------------- MODULE FuturesProtection ---------------------------
(***************************************************************************)
(* The protection of one live futures position at IBKR.                    *)
(*                                                                         *)
(* Who acts on it: on the main loop, one after the other, the futures cycle*)
(* (run_futures_cycle) and the bracket watchdog; beside them, on a thread  *)
(* that may outlive its timeout, the software stop of the risk cycle; the  *)
(* boot reconciliation; and the broker, which fills or kills the stop and  *)
(* target orders at any moment.  The first two hold _ibkr_lock, the third  *)
(* _risk_lock, so they exclude nobody.                                     *)
(*                                                                         *)
(* What they share: the position, its exit orders ("legs"), and two files  *)
(* with the record of the position: the legacy futures_positions_live.json *)
(* and the canonical ibkr_futures/positions_live.json.                     *)
(*                                                                         *)
(* One symbol, one contract month, buys of one contract.  A price is the   *)
(* number of the trade it was computed for.  A market order that is not    *)
(* filled when the worker looks stays live at the broker, unless its       *)
(* cancellation works, and may be executed in any later cycle.  The        *)
(* behaviour ends when the position has turned short or has doubled.  The  *)
(* broker's positions and orders are read as they are.  The trailing stop  *)
(* is left out: its configuration matches no record's strategy.            *)
(***************************************************************************)
EXTENDS Integers, FiniteSets

CONSTANTS
    Signals,     \* signals for the symbol in one futures cycle
    Tries,       \* attempts of the watchdog to place the legs (3 in the code)
    Numbers,     \* trades that are told apart: numbers start again after it
    MaxGroups,   \* bound: OCA groups with working orders at once
    MaxAdrift    \* bound: market orders at once that are given up and still live

ASSUME BoundsAssumption ==
    /\ Signals \in Nat /\ Tries \in Nat \ {0}
    /\ Numbers \in Nat \ {0} /\ MaxGroups \in Nat \ {0} /\ MaxAdrift \in Nat

VARIABLES
    held,        \* contracts held
    trade,       \* number of the last entry
    legs,        \* the working exit orders at the broker
    buys,        \* entries that are given up and still live at the broker
    sells,       \* closing orders that nobody waits for and that are still live there
    legacy,      \* data/state/futures_positions_live.json
    canonical,   \* data/state/ibkr_futures/positions_live.json
    job,         \* what the main loop is doing under _ibkr_lock
    risk,        \* where the software stop of the risk cycle stands
    up,          \* the worker process runs
    crossed      \* history: after a sale something still counted on the contract sold

vars == <<held, trade, legs, buys, sells, legacy, canonical, job, risk, up, crossed>>
files == <<legacy, canonical>>
adrift == <<buys, sells>>
broker == <<held, trade, legs, adrift>>

Prices == 0 .. Numbers                \* 0: no price
Groups == 1 .. MaxGroups
NoGroup == 0

\* twin tells apart orders that are alike.
Leg == [kind : {"STP", "LMT"}, price : Prices, oca : Groups, twin : Nat \ {0}]

\* What a file holds: "missing" (absent or unreadable: every reader goes on
\* without it), "empty" ({}), or the record of the position.  Of a record, the
\* prices; which of the legs carry its OCA group is left open.
Content == [is : {"missing", "empty", "record"}, sl : Prices, tp : Prices]

Missing == [is |-> "missing", sl |-> 0, tp |-> 0]
Empty == [is |-> "empty", sl |-> 0, tp |-> 0]
Record(sl, tp) == [is |-> "record", sl |-> sl, tp |-> tp]
Recorded(f) == f.is = "record"

\* pos: the position as the cycle has read it; rec: the record as it will be
\* written back; sl, tp: the prices of the legs the watchdog places; oca: the
\* group of the legs being placed; n: signals or attempts left; untold, as history: an
\* entry given up, in this cycle or before it, was executed and the broker's position
\* has not been read since, so that no guard knows of it.
JobRest == [pc |-> "rest", pos |-> 0, rec |-> Empty, sl |-> 0, tp |-> 0,
            oca |-> NoGroup, n |-> 0, target |-> "legacy", untold |-> FALSE]

JobPcs ==
    {"rest", "orders", "rebracketSl", "rebracketTp", "failsafe", "exit",
     "exitClose", "refresh", "entry", "entrySl", "entryTp", "save",
     "watchOrders", "watchSl", "watchTp", "watchSave"}

JobRecord ==
    [pc : JobPcs, pos : 0 .. 1, rec : Content, sl : Prices, tp : Prices,
     oca : Groups \cup {NoGroup}, n : Nat, target : {"legacy", "canonical"},
     untold : BOOLEAN]

RiskRest == [pc |-> "rest", rec |-> Empty]

RiskRecord == [pc : {"rest", "check", "close", "save"}, rec : Content]

TypeOK ==
    /\ held \in -1 .. 2
    /\ trade \in Prices
    /\ legs \subseteq Leg
    /\ buys \in Nat /\ sells \in Nat /\ buys + sells <= MaxAdrift
    /\ legacy \in Content /\ canonical \in Content
    /\ job \in JobRecord
    /\ risk \in RiskRecord
    /\ up \in BOOLEAN /\ crossed \in BOOLEAN

\* The migration left an empty canonical file.  No reader tells an absent legacy
\* file from an empty one, so it is always "empty" then.
Init ==
    /\ held = 0 /\ trade = 0 /\ legs = {} /\ buys = 0 /\ sells = 0
    /\ legacy = Empty /\ canonical \in {Missing, Empty}
    /\ job = JobRest /\ risk = RiskRest
    /\ up = TRUE /\ crossed = FALSE

-----------------------------------------------------------------------------
(* The broker, and the files.                                              *)

Goes == held \in 0 .. 1                \* the behaviour has not ended

Stops == {l \in legs : l.kind = "STP"}
Targets == {l \in legs : l.kind = "LMT"}

\* A uuid: a group no working order has.
LiveGroups == {l.oca : l \in legs}
NewGroup == CHOOSE g \in Groups : g \notin LiveGroups

Alike(kind, price, oca) ==
    {l \in legs : l.kind = kind /\ l.price = price /\ l.oca = oca}

NewTwin(alike) ==
    CHOOSE n \in 1 .. Cardinality(alike) + 1 : \A l \in alike : l.twin # n

WithLeg(kind, price, oca) ==
    legs \cup {[kind |-> kind, price |-> price, oca |-> oca,
                twin |-> NewTwin(Alike(kind, price, oca))]}

MayDrift == buys + sells < MaxAdrift

\* A market order that closes one contract is executed, fails, or stays live: nobody
\* cancels it and its status is only logged.
MarketClose ==
    \/ held' \in {held, held - 1} /\ UNCHANGED sells
    \/ MayDrift /\ sells' = sells + 1 /\ UNCHANGED held

\* A market order that opens one is executed.
Bought == held' = held + 1 /\ trade' = (trade % Numbers) + 1

\* write_text() truncates first: it may fail before or after, and a reader may
\* come between.
AfterWrite(f, rec, truncated) == {f, rec, truncated}
ReadLegacy(beingWritten) == {legacy} \cup (IF beingWritten THEN {Empty} ELSE {})

\* Who has read the position as held and goes on from there: the main loop that may
\* still close it or protect it, the software stop that is about to close it.
JobCounts ==
    \/ job.pc \in {"orders", "exit"} /\ job.pos = 1 /\ Recorded(job.rec)
    \/ job.pc \in {"rebracketSl", "rebracketTp", "failsafe", "exitClose", "entrySl",
                   "entryTp", "watchOrders", "watchSl", "watchTp"}

RiskCounts == risk.pc = "close"

\* What counts on the contract: they, the legs, and a closing order that is still live.
Counting == legs # {} \/ sells > 0 \/ JobCounts \/ RiskCounts

\* A sale crosses what still counts on the contract once it is sold.
Crosses == crossed' = (crossed \/ (held' < held /\ Counting'))

LegFills ==
    /\ Goes
    /\ \E l \in legs :
        /\ legs' = {m \in legs : m.oca # l.oca}
        /\ held' = held - 1
    /\ UNCHANGED <<trade, adrift, files, job, risk, up>>
    /\ Crosses

\* Account presets kill good-till-cancelled orders; a placed order is rejected.
LegVanishes ==
    /\ Goes
    /\ \E l \in legs : legs' = legs \ {l}
    /\ UNCHANGED <<held, trade, adrift, files, job, risk, up, crossed>>

\* An entry that was given up is executed after all, or it is dead at last.
LateEntry ==
    /\ Goes
    /\ buys > 0 /\ buys' = buys - 1
    /\ \/ Bought /\ job' = [job EXCEPT !.untold = TRUE]
       \/ UNCHANGED <<held, trade, job>>
    /\ UNCHANGED <<legs, sells, files, risk, up, crossed>>

\* So is a closing order that nobody waited for.
LateClose ==
    /\ Goes
    /\ sells > 0 /\ sells' = sells - 1
    /\ held' \in {held, held - 1}
    /\ UNCHANGED <<trade, legs, buys, files, job, risk, up>>
    /\ Crosses

-----------------------------------------------------------------------------
(* run_futures_cycle(live=True)                                            *)

At(pc) == up /\ Goes /\ job.pc = pc
Goto(pc) == job' = [job EXCEPT !.pc = pc]

\* The record of a position that the broker no longer has is dropped.
FutStart ==
    /\ At("rest")
    /\ \E f \in ReadLegacy(risk.pc = "save") :
        job' = [JobRest EXCEPT !.pc = "orders", !.pos = held,
                    !.rec = IF Recorded(f) /\ held = 1 THEN f ELSE Empty]
    /\ UNCHANGED <<broker, files, risk, up, crossed>>

\* A recorded position is bare when no order at all works on its contract.
Bare == job.pos = 1 /\ Recorded(job.rec) /\ legs = {}

\* A market order that is still live is such an order, if it is reported as active.
FutBrackets ==
    /\ At("orders")
    /\ \/ (~Bare \/ buys > 0 \/ sells > 0) /\ Goto("exit")
       \/ /\ Bare
          /\ IF job.rec.sl > 0 /\ job.rec.tp > 0
             THEN job' = [job EXCEPT !.pc = "rebracketSl", !.oca = NewGroup]
             ELSE Goto("failsafe")
    /\ UNCHANGED <<broker, files, risk, up, crossed>>

FutRebracketSl ==
    /\ At("rebracketSl")
    /\ \/ legs' = WithLeg("STP", job.rec.sl, job.oca) /\ Goto("rebracketTp")
       \/ UNCHANGED legs /\ Goto("failsafe")
    /\ UNCHANGED <<held, trade, adrift, files, risk, up, crossed>>

FutRebracketTp ==
    /\ At("rebracketTp")
    /\ \/ legs' = WithLeg("LMT", job.rec.tp, job.oca) /\ Goto("exit")
       \/ UNCHANGED legs /\ Goto("failsafe")
    /\ UNCHANGED <<held, trade, adrift, files, risk, up, crossed>>

\* The position is closed at the market and its record dropped, whatever became
\* of the order; an exception, before the order or after it, keeps the record.
CloseAndDrop(next) ==
    /\ MarketClose
    /\ \/ job' = [job EXCEPT !.pc = next, !.rec = Empty]
       \/ Goto(next)

FutFailsafe ==
    /\ At("failsafe")
    /\ CloseAndDrop("exit")
    /\ UNCHANGED <<trade, legs, buys, files, risk, up>>
    /\ Crosses

\* After 48 hours: the legs of the recorded group are cancelled, as far as the
\* cancelling works.
FutTimeExit ==
    /\ At("exit")
    /\ Recorded(job.rec) /\ job.pos = 1
    /\ legs' \in SUBSET legs
    /\ Goto("exitClose")
    /\ UNCHANGED <<held, trade, adrift, files, risk, up, crossed>>

FutTimeExitClose ==
    /\ At("exitClose")
    /\ CloseAndDrop("refresh")
    /\ UNCHANGED <<trade, legs, buys, files, risk, up>>
    /\ Crosses

\* The broker's position is read again before the entries.
FutRefresh ==
    /\ At("exit") \/ At("refresh")
    /\ job' = [job EXCEPT !.pc = "entry", !.pos = held, !.n = Signals,
                       !.untold = FALSE]
    /\ UNCHANGED <<broker, files, risk, up, crossed>>

\* Mutant of MayEnter: the signals are not consumed.
MayEnterUncounted == ~Recorded(job.rec) /\ job.pos = 0

\* Mutant of MayEnter: the broker's position is not looked at.
MayEnterUnseen == job.n > 0 /\ ~Recorded(job.rec)

\* The guards against a second contract: the records of this cycle and the
\* broker's position as refreshed before the first entry.
MayEnter == job.n > 0 /\ ~Recorded(job.rec) /\ job.pos = 0

NextSignal == [job EXCEPT !.pc = "entry", !.oca = NoGroup, !.n = @ - 1]

Untold == [NextSignal EXCEPT !.untold = TRUE]

FutEntry ==
    /\ At("entry") /\ MayEnter
    /\ Bought /\ LiveGroups # Groups
    /\ job' = [job EXCEPT !.pc = "entrySl", !.oca = NewGroup]
    /\ UNCHANGED <<legs, adrift, files, risk, up, crossed>>

\* Not filled in time, or an exception: the order may have been executed or be dead, or
\* it stays live, since a cancellation that fails is swallowed.
FutEntryFails ==
    /\ At("entry") /\ MayEnter
    /\ \/ Bought /\ UNCHANGED buys /\ job' = Untold
       \/ UNCHANGED <<held, trade, buys>> /\ job' = NextSignal
       \/ /\ MayDrift /\ buys' = buys + 1
          /\ UNCHANGED <<held, trade>> /\ job' = NextSignal
    /\ UNCHANGED <<legs, sells, files, risk, up, crossed>>

FutEntrySl ==
    /\ At("entrySl")
    /\ \/ legs' = WithLeg("STP", trade, job.oca) /\ Goto("entryTp")
       \/ UNCHANGED legs /\ job' = Untold
    /\ UNCHANGED <<held, trade, adrift, files, risk, up, crossed>>

\* Only an entry that got this far is recorded.
FutEntryTp ==
    /\ At("entryTp")
    /\ LET withTp == WithLeg("LMT", trade, job.oca) IN
        \/ /\ legs' = withTp
           /\ job' = [NextSignal EXCEPT !.rec = Record(trade, trade)]
        \/ /\ legs' \in {legs, withTp}
           /\ job' = Untold
    /\ UNCHANGED <<held, trade, adrift, files, risk, up, crossed>>

\* No signal is left, or the other guards refuse those that are.
FutEntriesDone ==
    /\ At("entry")
    /\ job' = [JobRest EXCEPT !.pc = "save", !.rec = job.rec]
    /\ UNCHANGED <<broker, files, risk, up, crossed>>

FutSave ==
    /\ At("save")
    /\ legacy' \in AfterWrite(legacy, job.rec, Empty)
    /\ job' = JobRest
    /\ UNCHANGED <<broker, canonical, risk, up, crossed>>

-----------------------------------------------------------------------------
(* run_bracket_watchdog_cycle                                              *)

\* A flat account ends the cycle at once.
WdStart ==
    /\ At("rest") /\ held = 1
    /\ Goto("watchOrders")
    /\ UNCHANGED <<broker, files, risk, up, crossed>>

\* Mutant of CancelDuplicates: a position with both legs is passed over first.
CancelDuplicatesIfBare ==
    \E cancelled \in SUBSET legs :
        /\ \A kept \in {Stops, Targets} : kept # {} => ~(kept \subseteq cancelled)
        /\ Stops # {} /\ Targets # {} => cancelled = {}
        /\ legs' = legs \ cancelled

\* All but one leg of each kind are cancelled, as far as the cancelling works.
CancelDuplicates ==
    \E cancelled \in SUBSET legs :
        /\ \A kept \in {Stops, Targets} : kept # {} => ~(kept \subseteq cancelled)
        /\ legs' = legs \ cancelled

\* The record the legs are taken from, given what the legacy file reads as, and
\* the file that is updated afterwards.
WdRecord(f) == IF Recorded(canonical) THEN canonical
               ELSE IF Recorded(f) THEN f ELSE Empty
WdTarget(f) == IF \/ Recorded(canonical)
                  \/ canonical.is = "empty" /\ ~Recorded(f)
               THEN "canonical" ELSE "legacy"

\* Both prices are recorded, or there is no target and the stop comes from the
\* market, if that can be read.
WdPrices(rec) ==
    IF rec.sl > 0 /\ rec.tp > 0 THEN {[sl |-> rec.sl, tp |-> rec.tp]}
    ELSE {[sl |-> trade, tp |-> 0], [sl |-> 0, tp |-> 0]}

\* The group of the first stop or else the first target, or a new one.
WdGroups == IF Stops # {} THEN {l.oca : l \in Stops}
            ELSE IF Targets # {} THEN {l.oca : l \in Targets}
            ELSE {NewGroup}

\* Mutant of NeedsStop: any working order protects.
NeedsStopIfBare == legs = {}

\* A stop is missing when there is none, whatever else works.
NeedsStop == Stops = {}

\* Both legs are there, or no price is known; else the missing ones are placed.
Place(f, sl, tp, group) ==
    job' = IF sl = 0 /\ tp = 0 THEN JobRest
           ELSE [JobRest EXCEPT !.pc = "watchSl", !.n = Tries,
                     !.sl = sl, !.tp = tp, !.oca = group,
                     !.rec = WdRecord(f), !.target = WdTarget(f)]

WdOrders ==
    /\ At("watchOrders")
    /\ CancelDuplicates
    /\ \E f \in ReadLegacy(risk.pc = "save") :
       \E price \in WdPrices(WdRecord(f)), group \in WdGroups' :
        Place(f, IF NeedsStop THEN price.sl ELSE 0,
              IF Targets = {} THEN price.tp ELSE 0, group)
    /\ UNCHANGED <<held, trade, adrift, files, risk, up, crossed>>

\* Another attempt starts from the first leg, placed or not.
WdRetry == job' = IF job.n > 1 THEN [job EXCEPT !.pc = "watchSl", !.n = @ - 1]
                  ELSE JobRest

Placed(kind, price) == IF price = 0 THEN legs ELSE WithLeg(kind, price, job.oca)

WdSl ==
    /\ At("watchSl")
    /\ \/ legs' = Placed("STP", job.sl) /\ Goto("watchTp")
       \/ UNCHANGED legs /\ WdRetry
    /\ UNCHANGED <<held, trade, adrift, files, risk, up, crossed>>

WdTp ==
    /\ At("watchTp")
    /\ \/ legs' = Placed("LMT", job.tp) /\ Goto("watchSave")
       \/ legs' \in {legs, Placed("LMT", job.tp)} /\ WdRetry
    /\ UNCHANGED <<held, trade, adrift, files, risk, up, crossed>>

\* A price that was not placed stays as it was recorded.
WdSave ==
    /\ At("watchSave")
    /\ LET rec == Record(IF job.sl > 0 THEN job.sl ELSE job.rec.sl,
                         IF job.tp > 0 THEN job.tp ELSE job.rec.tp)
       IN  IF job.target = "canonical"
           THEN canonical' \in AfterWrite(canonical, rec, Missing) /\ UNCHANGED legacy
           ELSE legacy' \in AfterWrite(legacy, rec, Empty) /\ UNCHANGED canonical
    /\ job' = JobRest
    /\ UNCHANGED <<broker, risk, up, crossed>>

-----------------------------------------------------------------------------
(* The software stop of run_live_risk_cycle, on a thread of its own.       *)

RiskAt(pc) == up /\ Goes /\ risk.pc = pc
LegacyBeingWritten ==
    job.pc = "save" \/ (job.pc = "watchSave" /\ job.target = "legacy")

RiskRead ==
    /\ RiskAt("rest")
    /\ \E f \in ReadLegacy(LegacyBeingWritten) :
        Recorded(f) /\ risk' = [pc |-> "check", rec |-> f]
    /\ UNCHANGED <<broker, files, job, up, crossed>>

\* Mutant of RiskCheck: a record is taken for a position.
RiskCheckUnseen ==
    /\ RiskAt("check")
    /\ \/ risk' = [risk EXCEPT !.pc = "save"]
       \/ risk.rec.sl > 0 /\ risk' = [risk EXCEPT !.pc = "close"]
    /\ UNCHANGED <<broker, files, job, up, crossed>>

\* The price has hit the stop or the target of the record, or has not; without
\* a stop nothing is compared, and a record without a position is dropped.
RiskCheck ==
    /\ RiskAt("check")
    /\ \/ risk' = [risk EXCEPT !.pc = "save"]
       \/ risk.rec.sl > 0 /\ held = 0 /\ risk' = [pc |-> "save", rec |-> Empty]
       \/ risk.rec.sl > 0 /\ held = 1 /\ risk' = [risk EXCEPT !.pc = "close"]
    /\ UNCHANGED <<broker, files, job, up, crossed>>

\* The legs are left at the broker; an exception after the order drops nothing.
RiskClose ==
    /\ RiskAt("close")
    /\ MarketClose
    /\ risk' \in {[pc |-> "save", rec |-> Empty], RiskRest}
    /\ UNCHANGED <<trade, legs, buys, files, job, up>>
    /\ Crosses

RiskFails ==
    /\ RiskAt("check") \/ RiskAt("close")
    /\ risk' = RiskRest
    /\ UNCHANGED <<broker, files, job, up, crossed>>

RiskSave ==
    /\ RiskAt("save")
    /\ legacy' \in AfterWrite(legacy, risk.rec, Empty)
    /\ risk' = RiskRest
    /\ UNCHANGED <<broker, canonical, job, up, crossed>>

-----------------------------------------------------------------------------
(* The end of the process, and the reconciliation at its start.            *)

Crash ==
    /\ up /\ Goes
    /\ up' = FALSE
    /\ job' = JobRest /\ risk' = RiskRest
    /\ legacy' \in ReadLegacy(LegacyBeingWritten \/ risk.pc = "save")
    /\ canonical' \in {canonical} \cup
           (IF job.pc = "watchSave" /\ job.target = "canonical" THEN {Missing} ELSE {})
    /\ UNCHANGED <<broker, crossed>>

\* The first file that can be read, be it empty.
BootExisting == IF canonical.is # "missing" THEN canonical ELSE legacy

PriceOf(side) == IF side = {} THEN {0} ELSE {l.price : l \in side}

\* The prices of working legs; else those of the record, if both are there;
\* else the defaults of the symbol, which not every symbol has.
BootRecords ==
    IF legs # {}
    THEN {Record(sl, tp) : sl \in PriceOf(Stops), tp \in PriceOf(Targets)}
    ELSE IF BootExisting.sl > 0 /\ BootExisting.tp > 0 THEN {BootExisting}
    ELSE {Record(trade, trade), Record(0, 0)}

Boot ==
    /\ ~up /\ Goes
    /\ up' = TRUE
    /\ \/ UNCHANGED files               \* the gateway is down, or it is in sync
       \/ \E rec \in IF held = 1 THEN BootRecords ELSE {Empty} :
            /\ held = 1 \/ Recorded(BootExisting)
            /\ canonical' \in AfterWrite(canonical, rec, Missing)
            /\ legacy' \in AfterWrite(legacy, rec, Empty)
    /\ UNCHANGED <<broker, job, risk, crossed>>

-----------------------------------------------------------------------------
FutStep ==
    \/ FutBrackets \/ FutRebracketSl \/ FutRebracketTp \/ FutFailsafe
    \/ FutTimeExit \/ FutTimeExitClose \/ FutRefresh
    \/ FutEntry \/ FutEntryFails \/ FutEntrySl \/ FutEntryTp
    \/ FutEntriesDone \/ FutSave

WdStep == WdOrders \/ WdSl \/ WdTp \/ WdSave

RiskStep == RiskRead \/ RiskCheck \/ RiskClose \/ RiskFails \/ RiskSave

Next ==
    \/ FutStart \/ FutStep \/ WdStart \/ WdStep \/ RiskStep
    \/ LegFills \/ LegVanishes \/ LateEntry \/ LateClose \/ Crash \/ Boot

Spec == Init /\ [][Next]_vars

(***************************************************************************)
(* The main loop starts a watchdog cycle every five minutes and runs it, or*)
(* a futures cycle, to its end.  Strong where the code may fail and tries  *)
(* again: in the end the market's price can be read, the stop is placed    *)
(* and the duplicates are cancelled.                                       *)
(***************************************************************************)
StopComesNext == WdOrders /\ job'.pc = "watchSl"
StopIsPlaced == WdSl /\ legs' = Placed("STP", job.sl)
DuplicatesGo == WdOrders /\ Cardinality(Stops') <= 1

Fairness ==
    /\ WF_vars(FutStep \/ WdStep) /\ SF_vars(WdStart)
    /\ SF_vars(StopComesNext) /\ SF_vars(StopIsPlaced) /\ SF_vars(DuplicatesGo)

FairSpec == Spec /\ Fairness

-----------------------------------------------------------------------------
(* Properties.                                                             *)

\* The cap of one contract that the guards before an entry are for.
PerSymbolCap == held <= 1

\* The position doubles only by an entry the worker had given up: one that was executed
\* all the same, in this cycle or a later one, since the broker's position was last
\* read.  Records lost, two writers that overwrite each other's file, restarts and
\* closes that fail or come late double nothing: where the record does not stop the
\* entry, the broker's position does.
CapUnlessUntold == held > 1 => job.untold

\* The position turns short only after a sale beside which something still counted on
\* the contract: legs left working, another closing order still live, the other thread,
\* or the closer itself after an exception.  No record that is lost, stale or
\* overwritten, no restart and no entry executed late makes the worker sell what it does
\* not hold.
TurnsOnlyCrossed == held < 0 => crossed

HasStop == Stops # {}

\* A position without a stop, be it that an exception ended its entry, the
\* broker killed the stop or the worker died between the two, gets one, or ends.
NakedGetsStop == (up /\ held = 1 /\ ~HasStop) ~> (HasStop \/ held # 1 \/ ~up)

\* Stops the watchdog has placed twice, because a failed attempt starts again
\* from the first leg, do not stay: the second would turn the position.
TwinsGetCancelled ==
    (up /\ held = 1 /\ Cardinality(Stops) > 1)
        ~> (Cardinality(Stops) <= 1 \/ held # 1 \/ ~up)

=============================================================================
