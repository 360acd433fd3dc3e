---------------------------- MODULE CryptoDrawdown ----------------------------
(***************************************************************************)
(* The drawdown baselines of the crypto book: what CryptoRiskManager loads *)
(* from data/crypto_dd_state.json, compares with the equity and saves, and *)
(* what restarts, gaps, new days, failed saves and unreadable accounts do  *)
(* to it.  run_crypto_cycle() builds a manager of its own in every cycle,  *)
(* so that each cycle is a boot and the hourly baseline, never persisted,  *)
(* is always the peak that was loaded.                                     *)
(*                                                                         *)
(* Equities are numbers of dollars; the equity compared leaves out BTC and *)
(* ETH in Earn, the total has them.  The crypto lock keeps a second cycle  *)
(* out.  The remaining checks of check_all() keep no state.                *)
(***************************************************************************)
EXTENDS Integers

CONSTANTS
    Levels,      \* the equities of the account without volatile Earn
    Volatile,    \* what is valued in BTC and ETH Earn (0: no price to be had)
    Nominal,     \* total_capital of crypto_allocation.yaml
    Periods,     \* the periods whose start is kept, "day" among them
    MaxDate,     \* bound: the last date of each period
    Faults       \* readings miss parts, saves fail, the process and the file break

ASSUME LevelsAssumption ==
    /\ Levels \subseteq Nat \ {0} /\ Volatile \subseteq Nat /\ Nominal \in Nat \ {0}
    /\ "day" \in Periods /\ Periods \subseteq {"day", "week", "month"}
    /\ MaxDate \in Nat /\ Faults \in BOOLEAN

VARIABLES
    equity,      \* what the account is worth without volatile Earn
    date,        \* the UTC day, week and month
    file,        \* crypto_dd_state.json
    killed,      \* the crypto switch is on, in its file
    cycle        \* the crypto cycle at work and its manager

vars == <<equity, date, file, killed, cycle>>

NoDate == -1

\* DAILY_, WEEKLY_, MONTHLY_MAX_LOSS_PCT.
LimitOf == [p \in {"day", "week", "month"} |->
                CASE p = "day" -> 5 [] p = "week" -> 10 [] p = "month" -> 15]

\* a is more than pct per cent under b.
Under(a, b, pct) == 100 * (b - a) > pct * b

\* More than three times the other, either way.
Mismatch(a, b) == a > 3 * b \/ b > 3 * a

\* Less than 2% away from b.
Close(a, b) == 100 * (a - b) < 2 * b /\ 100 * (b - a) < 2 * b

Greater(a, b) == IF a > b THEN a ELSE b

Baselines == [peak : Nat, start : [Periods -> Nat],
              anchor : [Periods -> {NoDate} \cup 0..MaxDate], total : Nat]

Files == [kept : {"nothing", "baselines", "garbage"}, base : Baselines, fresh : BOOLEAN]

\* DDBaselines().
Empty == [peak |-> 0, start |-> [p \in Periods |-> 0],
          anchor |-> [p \in Periods |-> NoDate], total |-> 0]

Verdicts == {"none", "skipped", "synced", "mismatch", "warmup", "kill", "limits", "passed"}

Cycles == [pc : {"rest", "read", "transfer", "check", "record", "trade"},
           boot : {"first", "restored", "stale"}, base : Baselines,
           dd : Nat, total : Nat, verdict : Verdicts]

AtRest == [pc |-> "rest", boot |-> "first", base |-> Empty,
           dd |-> 0, total |-> 0, verdict |-> "none"]

TypeOK ==
    /\ equity \in Levels
    /\ date \in [Periods -> 0..MaxDate]
    /\ file \in Files
    /\ killed \in BOOLEAN
    /\ cycle \in Cycles

Init ==
    /\ equity \in Levels
    /\ date = [p \in Periods |-> 0]
    /\ file = [kept |-> "nothing", base |-> Empty, fresh |-> FALSE]
    /\ killed = FALSE
    /\ cycle = AtRest

At(pc) == cycle.pc = pc

MovesTo(pc, boot, base, verdict) ==
    cycle' = [pc |-> pc, boot |-> boot, base |-> base,
              dd |-> cycle.dd, total |-> cycle.total, verdict |-> verdict]

-----------------------------------------------------------------------------
(* load_baselines, save_baselines, init_baselines_from_equity.             *)

BootState ==
    IF file.kept # "baselines" THEN "first" ELSE IF file.fresh THEN "restored" ELSE "stale"

\* Nothing could be loaded: the nominal capital, not synced.
Seeded ==
    [peak |-> Nominal, start |-> [p \in Periods |-> Nominal],
     anchor |-> [p \in Periods |-> NoDate], total |-> 0]

\* Mutant of LoadBaselines: a gap resets the peak to the start of the day.
LoadForgetsPeak ==
    IF BootState = "first" THEN Seeded
    ELSE IF BootState = "stale" THEN [file.base EXCEPT !.peak = file.base.start["day"]]
    ELSE file.base

LoadBaselines == IF BootState = "first" THEN Seeded ELSE file.base

\* Atomic, and an OSError is only logged.
Saves(b) ==
    \/ file' = [kept |-> "baselines", base |-> b, fresh |-> TRUE]
    \/ Faults /\ UNCHANGED file

\* Mutant of InitFromEquity: the anchors of the next periods.
InitFromTomorrow(e) ==
    [peak |-> e, start |-> [p \in Periods |-> e],
     anchor |-> [p \in Periods |-> date[p] + 1], total |-> 0]

\* Mutant of InitFromEquity: the peak stays what it was.
InitKeepsPeak(e) ==
    [peak |-> cycle.base.peak, start |-> [p \in Periods |-> e], anchor |-> date, total |-> 0]

InitFromEquity(e) ==
    [peak |-> e, start |-> [p \in Periods |-> e], anchor |-> date, total |-> 0]

-----------------------------------------------------------------------------
(* run_crypto_cycle.                                                       *)

\* A new manager.  Under a switch that is on the cycle goes on only when it lifts
\* it: 24 hours after it was armed, or with the live switch it derives from.
Start ==
    /\ At("rest")
    /\ \/ killed' = FALSE
       \/ Faults /\ UNCHANGED killed
    /\ MovesTo("read", BootState, LoadBaselines, "none")
    /\ UNCHANGED <<equity, date, file>>

\* The account.  Earn and margin collateral that cannot be read count as nothing.
Read(e, v) ==
    /\ At("read")
    /\ cycle' = [pc |-> "transfer", boot |-> cycle.boot, base |-> cycle.base,
                 dd |-> IF e > 0 THEN e ELSE v, total |-> e + v, verdict |-> "none"]
    /\ UNCHANGED <<equity, date, file, killed>>

ReadAll == \E v \in Volatile : Read(equity, v)

ReadPart ==
    /\ Faults
    /\ \E e \in {0} \cup {l \in Levels : l < equity}, v \in Volatile \cup {0} : Read(e, v)

\* get_account_info() raises: dd_equity is unbound, the cycle ends.
ReadFails ==
    /\ At("read")
    /\ cycle' = AtRest
    /\ UNCHANGED <<equity, date, file, killed>>

\* The total in the file is the total of the last cycle that was recorded; the
\* start of the day is the one loaded, of whatever day it is.
LooksLikeTransfer ==
    LET prev == cycle.base.total  start == cycle.base.start["day"] IN
    /\ cycle.boot # "first" /\ prev > 0 /\ start > 0 /\ cycle.dd > 0
    /\ Under(cycle.dd, start, 3)
    /\ Close(cycle.total, prev)

\* rebaseline(): everything, the peak too, and saved at once.
Transfer ==
    /\ At("transfer")
    /\ \/ /\ LooksLikeTransfer
          /\ MovesTo("check", "restored", InitFromEquity(cycle.dd), "none")
          /\ Saves(InitFromEquity(cycle.dd))
       \/ /\ ~LooksLikeTransfer
          /\ cycle' = [cycle EXCEPT !.pc = "check"]
          /\ UNCHANGED file
    /\ UNCHANGED <<equity, date, killed>>

-----------------------------------------------------------------------------
(* check_drawdown(), by what it finds.                                     *)

\* roll_period_anchors().
Rolled ==
    [peak |-> cycle.base.peak,
     start |-> [p \in Periods |-> IF cycle.base.anchor[p] # date[p]
                                  THEN cycle.dd ELSE cycle.base.start[p]],
     anchor |-> date,
     total |-> cycle.base.total]

Checked(verdict, b) ==
    /\ MovesTo("record", cycle.boot, b, verdict)
    /\ UNCHANGED <<equity, date>>

\* _baselines_synced of a manager that checks once: something could be loaded.
Synced == cycle.boot # "first"

\* No equity, no check: nothing is saved here.
CheckSkips ==
    /\ At("check") /\ cycle.dd = 0
    /\ Checked("skipped", cycle.base)
    /\ UNCHANGED <<file, killed>>

CheckSyncs ==
    /\ At("check") /\ cycle.dd > 0 /\ ~Synced
    /\ Checked("synced", InitFromEquity(cycle.dd))
    /\ Saves(InitFromEquity(cycle.dd))
    /\ UNCHANGED killed

\* The peak is given up too.
CheckMismatch ==
    LET b == [InitFromEquity(cycle.dd) EXCEPT !.total = cycle.base.total] IN
    /\ At("check") /\ cycle.dd > 0 /\ Synced
    /\ Mismatch(cycle.dd, cycle.base.peak)
    /\ Checked("mismatch", b)
    /\ Saves(b)
    /\ UNCHANGED killed

Comparable ==
    /\ At("check") /\ cycle.dd > 0 /\ Synced
    /\ ~Mismatch(cycle.dd, cycle.base.peak)

WithPeak == [Rolled EXCEPT !.peak = Greater(cycle.base.peak, cycle.dd)]

\* The one check of a manager whose file is older than six hours.
CheckWarmsUp ==
    LET b == [WithPeak EXCEPT !.start["day"] = cycle.dd] IN
    /\ Comparable /\ cycle.boot = "stale"
    /\ Checked("warmup", b)
    /\ Saves(b)
    /\ UNCHANGED killed

\* Mutant of Trips: an hourly baseline that starts with the process.
TripsSinceBoot ==
    \/ Under(cycle.dd, Rolled.start["day"], 5)
    \/ Under(cycle.dd, WithPeak.peak, 20)

\* The three triggers of CryptoKillSwitch.check() that look at the equity.  The
\* hourly one compares with the peak as it was loaded.
Trips ==
    \/ Under(cycle.dd, Rolled.start["day"], 5)
    \/ Under(cycle.dd, cycle.base.peak, 3)
    \/ Under(cycle.dd, WithPeak.peak, 20)

OverLimit ==
    \/ \E p \in Periods : Under(cycle.dd, Rolled.start[p], LimitOf[p])
    \/ Under(cycle.dd, WithPeak.peak, 20)

\* The arming is saved, or the save fails and is swallowed.
CheckJudges ==
    /\ Comparable /\ cycle.boot = "restored"
    /\ Checked(IF Trips THEN "kill" ELSE IF OverLimit THEN "limits" ELSE "passed", WithPeak)
    /\ \/ killed' = (killed \/ Trips)
       \/ Faults /\ UNCHANGED killed
    /\ Saves(WithPeak)

\* The cycle adds the total and saves again, whatever the check did.
Record ==
    LET b == [cycle.base EXCEPT !.total = cycle.total] IN
    /\ At("record")
    /\ MovesTo("trade", cycle.boot, b, cycle.verdict)
    /\ Saves(b)
    /\ UNCHANGED <<equity, date, killed>>

\* The strategies: BUY and SELL are refused after "kill" and "limits".
Trade ==
    /\ At("trade")
    /\ cycle' = AtRest
    /\ UNCHANGED <<equity, date, file, killed>>

-----------------------------------------------------------------------------
(* The environment.                                                        *)

Crash ==
    /\ Faults /\ ~At("rest")
    /\ cycle' = AtRest
    /\ UNCHANGED <<equity, date, file, killed>>

\* Six hours without a save.
Gap ==
    /\ At("rest") /\ file.fresh
    /\ file' = [file EXCEPT !.fresh = FALSE]
    /\ UNCHANGED <<equity, date, killed, cycle>>

Midnight ==
    /\ \E ends \in SUBSET {p \in Periods : date[p] < MaxDate} :
          /\ "day" \in ends
          /\ date' = [p \in Periods |-> IF p \in ends THEN date[p] + 1 ELSE date[p]]
    /\ UNCHANGED <<equity, file, killed, cycle>>

\* A cycle reads the account once: later moves are the next cycle's.
Market ==
    /\ cycle.pc \in {"rest", "read"}
    /\ equity' \in Levels \ {equity}
    /\ UNCHANGED <<date, file, killed, cycle>>

Damage ==
    /\ Faults /\ file.kept = "baselines"
    /\ file' = [kept |-> "garbage", base |-> Empty, fresh |-> FALSE]
    /\ UNCHANGED <<equity, date, killed, cycle>>

CycleStep ==
    \/ Start \/ ReadAll \/ ReadPart \/ ReadFails \/ Transfer
    \/ CheckSkips \/ CheckSyncs \/ CheckMismatch \/ CheckWarmsUp \/ CheckJudges
    \/ Record \/ Trade

Next == CycleStep \/ Crash \/ Gap \/ Midnight \/ Market \/ Damage

Spec == Init /\ [][Next]_vars

-----------------------------------------------------------------------------
(* Properties.                                                             *)

\* The equity read is more than three times off the recorded peak, or looks as if
\* money had moved to volatile Earn.
Evidence ==
    \/ Mismatch(cycle.dd, file.base.peak)
    \/ Under(cycle.dd, file.base.start["day"], 3) /\ Close(cycle.total, file.base.total)

\* dd_baseline_state.py, "reboot in DD must NOT reset peak": whatever crashes, gaps,
\* new days and failed saves come in between, the recorded peak falls only for an
\* equity that was taken for a transfer or for a mistake of more than three times.
PeakSurvives ==
    [][file.kept = "baselines" /\ file'.kept = "baselines"
            /\ file'.base.peak < file.base.peak
       => Evidence]_vars

\* An order is admitted only at an equity within 3% of the peak, or after a check
\* that had nothing to compare with: the hourly trigger, whose baseline is the peak
\* because the manager is new in each cycle, sees losses of any age.
TradesNearPeak ==
    At("trade") /\ cycle.verdict \in {"passed", "synced", "mismatch"}
        => ~Under(cycle.dd, cycle.base.peak, 3)

\* The same trigger comes before every other: the limits of the day, the week, the
\* month and the drawdown never refuse what the switch has let through.
LimitsNeverDecide == cycle.verdict # "limits"

-----------------------------------------------------------------------------
(* What makes them hold.                                                   *)

\* No period starts above the peak, on disk or in the manager.
StartsUnderPeak ==
    /\ \A p \in Periods : file.base.start[p] <= file.base.peak
    /\ \A p \in Periods : cycle.base.start[p] <= cycle.base.peak

\* Nobody else writes the file: the manager knows it, or has a reason to differ.
ManagerKnowsFile ==
    file.kept = "baselines" =>
        /\ cycle.pc \in {"read", "transfer"} => cycle.base = file.base /\ cycle.boot # "first"
        /\ cycle.pc = "check" =>
              /\ cycle.boot # "first"
              /\ \/ cycle.base.peak = file.base.peak
                 \/ cycle.base.peak = cycle.dd /\ Evidence
        /\ cycle.pc = "record" => cycle.base.peak >= file.base.peak \/ Evidence
=============================================================================
