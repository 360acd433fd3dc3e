------------------------- MODULE CryptoDrawdownProofs -------------------------
(***************************************************************************)
(* The baselines of the crypto book: types, what an admitted order means,  *)
(* and when the recorded peak may fall -- for all equities, dates, faults. *)
(***************************************************************************)
EXTENDS CryptoDrawdown, TLAPS

DdInv ==
    /\ TypeOK
    /\ StartsUnderPeak
    /\ ManagerKnowsFile
    /\ LimitsNeverDecide
    /\ TradesNearPeak
    /\ At("record") /\ cycle.verdict \in {"passed", "synced", "mismatch"}
          => ~Under(cycle.dd, cycle.base.peak, 3)

-----------------------------------------------------------------------------
(* The baselines that are built.                                           *)

LEMMA EmptyBaselines == Empty \in Baselines
  BY LevelsAssumption DEF Empty, Baselines

LEMMA LoadedBaselines ==
    ASSUME TypeOK, StartsUnderPeak
    PROVE  /\ LoadBaselines \in Baselines
           /\ \A p \in Periods : LoadBaselines.start[p] <= LoadBaselines.peak
  BY LevelsAssumption
  DEF LoadBaselines, Seeded, BootState, Empty, Baselines, TypeOK, Files, StartsUnderPeak

LEMMA FromEquity ==
    ASSUME TypeOK, NEW e \in Nat
    PROVE  /\ InitFromEquity(e) \in Baselines
           /\ InitFromEquity(e).peak = e
           /\ \A p \in Periods : InitFromEquity(e).start[p] = e
  BY DEF InitFromEquity, Baselines, TypeOK

LEMMA RolledBaselines ==
    ASSUME TypeOK
    PROVE  /\ Rolled \in Baselines /\ Rolled.peak = cycle.base.peak
           /\ \A p \in Periods : Rolled.start[p] \in {cycle.dd, cycle.base.start[p]}
  BY DEF Rolled, Baselines, TypeOK, Cycles

LEMMA PeakBaselines ==
    ASSUME TypeOK, StartsUnderPeak
    PROVE  /\ WithPeak \in Baselines
           /\ WithPeak.peak >= cycle.base.peak /\ WithPeak.peak >= cycle.dd
           /\ WithPeak.peak \in {cycle.base.peak, cycle.dd}
           /\ \A p \in Periods : WithPeak.start[p] <= WithPeak.peak
  <1>1. Rolled \in Baselines /\ cycle.dd \in Nat /\ cycle.base.peak \in Nat
    BY RolledBaselines DEF TypeOK, Cycles, Baselines
  <1>2. /\ WithPeak \in Baselines /\ WithPeak.start = Rolled.start
        /\ WithPeak.peak = Greater(cycle.base.peak, cycle.dd)
    BY <1>1 DEF WithPeak, Greater, Baselines
  <1> QED
    BY <1>1, <1>2, RolledBaselines DEF Greater, StartsUnderPeak, Baselines

-----------------------------------------------------------------------------
(* The steps.                                                              *)

LEMMA Fields ==
    ASSUME TypeOK
    PROVE  /\ cycle.base \in Baselines /\ cycle.dd \in Nat /\ cycle.total \in Nat
           /\ cycle.boot \in {"first", "restored", "stale"} /\ cycle.verdict \in Verdicts
           /\ file.base \in Baselines /\ file.base.peak \in Nat /\ cycle.base.peak \in Nat
           /\ "day" \in Periods /\ file.base.start["day"] \in Nat /\ file.base.total \in Nat
  BY LevelsAssumption DEF TypeOK, Cycles, Files, Baselines

LEMMA Moves ==
    ASSUME TypeOK, NEW pc \in {"rest", "read", "transfer", "check", "record", "trade"},
           NEW boot \in {"first", "restored", "stale"}, NEW b \in Baselines,
           NEW verdict \in Verdicts, MovesTo(pc, boot, b, verdict)
    PROVE  /\ cycle' \in Cycles /\ cycle'.pc = pc /\ cycle'.boot = boot
           /\ cycle'.base = b /\ cycle'.verdict = verdict
           /\ cycle'.dd = cycle.dd /\ cycle'.total = cycle.total
  BY Fields DEF MovesTo, Cycles

\* What a save leaves behind.
LEMMA Saved ==
    ASSUME TypeOK, NEW b \in Baselines, \A p \in Periods : b.start[p] <= b.peak,
           StartsUnderPeak, Saves(b)
    PROVE  /\ file' \in Files
           /\ \A p \in Periods : file'.base.start[p] <= file'.base.peak
           /\ \/ file'.kept = "baselines" /\ file'.base = b
              \/ UNCHANGED file
  <1>1. CASE file' = [kept |-> "baselines", base |-> b, fresh |-> TRUE]
    BY <1>1 DEF Files
  <1>2. CASE UNCHANGED file
    BY <1>2 DEF TypeOK, StartsUnderPeak
  <1> QED
    BY <1>1, <1>2 DEF Saves

LEMMA StartStep ==
    ASSUME DdInv, Start
    PROVE  DdInv'
  <1>1. /\ TypeOK /\ StartsUnderPeak /\ UNCHANGED <<equity, date, file>>
        /\ killed' \in BOOLEAN
        /\ MovesTo("read", BootState, LoadBaselines, "none")
    BY DEF DdInv, Start, TypeOK
  <1>2. BootState \in {"first", "restored", "stale"} /\ "none" \in Verdicts
    BY DEF BootState, Verdicts
  <1>3. /\ LoadBaselines \in Baselines
        /\ \A p \in Periods : LoadBaselines.start[p] <= LoadBaselines.peak
    BY <1>1, LoadedBaselines
  <1>4. /\ cycle' \in Cycles /\ cycle'.pc = "read" /\ cycle'.boot = BootState
        /\ cycle'.base = LoadBaselines /\ cycle'.verdict = "none"
    BY <1>1, <1>2, <1>3, Moves
  <1>5. file.kept = "baselines" => LoadBaselines = file.base /\ BootState # "first"
    BY DEF LoadBaselines, BootState
  <1>6. TypeOK' /\ StartsUnderPeak'
    BY <1>1, <1>3, <1>4 DEF TypeOK, StartsUnderPeak
  <1>7. ManagerKnowsFile'
    BY <1>1, <1>4, <1>5 DEF ManagerKnowsFile
  <1> QED
    BY <1>4, <1>6, <1>7 DEF DdInv, LimitsNeverDecide, TradesNearPeak, At

LEMMA ReadStep ==
    ASSUME DdInv, NEW e \in Nat, NEW v \in Nat, Read(e, v)
    PROVE  DdInv'
  <1>1. /\ cycle' \in Cycles /\ cycle'.pc = "transfer" /\ cycle'.base = cycle.base
        /\ cycle'.boot = cycle.boot /\ cycle'.verdict = "none"
        /\ cycle.pc = "read" /\ UNCHANGED <<equity, date, file, killed>>
    BY DEF Read, At, DdInv, TypeOK, Cycles, Verdicts
  <1> QED
    BY <1>1 DEF DdInv, TypeOK, StartsUnderPeak, ManagerKnowsFile, LimitsNeverDecide,
                TradesNearPeak, At

LEMMA TransferStep ==
    ASSUME DdInv, Transfer
    PROVE  DdInv'
  <1>1. /\ TypeOK /\ StartsUnderPeak /\ UNCHANGED <<equity, date, killed>>
        /\ cycle.pc = "transfer"
    BY DEF DdInv, Transfer, At
  <1>2. CASE LooksLikeTransfer
    <2> DEFINE b == InitFromEquity(cycle.dd)
    <2>1. /\ b \in Baselines /\ b.peak = cycle.dd
          /\ \A p \in Periods : b.start[p] = cycle.dd
      BY <1>1, Fields, FromEquity
    <2>2. MovesTo("check", "restored", b, "none") /\ Saves(b)
      BY <1>2 DEF Transfer
    <2> HIDE DEF b
    <2>3. /\ cycle' \in Cycles /\ cycle'.pc = "check" /\ cycle'.boot = "restored"
          /\ cycle'.base = b /\ cycle'.verdict = "none"
          /\ cycle'.dd = cycle.dd /\ cycle'.total = cycle.total
      BY <1>1, <2>1, <2>2, Moves DEF Verdicts
    <2>4. \A p \in Periods : b.start[p] <= b.peak
      BY <1>1, <2>1, Fields
    <2>5. /\ file' \in Files
          /\ \A p \in Periods : file'.base.start[p] <= file'.base.peak
          /\ \/ file'.kept = "baselines" /\ file'.base = b
             \/ UNCHANGED file
      BY <1>1, <2>1, <2>2, <2>4, Saved
    <2>6. TypeOK' /\ StartsUnderPeak'
      BY <1>1, <2>3, <2>4, <2>5 DEF TypeOK, StartsUnderPeak
    <2>7. ManagerKnowsFile'
      <3>1. SUFFICES ASSUME UNCHANGED file, file.kept = "baselines"
                     PROVE  Evidence'
        BY <2>1, <2>3, <2>5 DEF ManagerKnowsFile
      <3>2. cycle.base = file.base
        BY <1>1, <3>1 DEF DdInv, ManagerKnowsFile
      <3> QED
        BY <1>2, <2>3, <3>1, <3>2 DEF Evidence, LooksLikeTransfer
    <2> QED
      BY <2>3, <2>6, <2>7 DEF DdInv, LimitsNeverDecide, TradesNearPeak, At
  <1>3. CASE ~LooksLikeTransfer
    <2>1. /\ cycle' \in Cycles /\ cycle'.pc = "check" /\ cycle'.boot = cycle.boot
          /\ cycle'.base = cycle.base /\ cycle'.verdict = cycle.verdict
          /\ UNCHANGED file
      BY <1>1, <1>3 DEF Transfer, TypeOK, Cycles
    <2> QED
      BY <1>1, <2>1 DEF DdInv, TypeOK, StartsUnderPeak, ManagerKnowsFile,
                        LimitsNeverDecide, TradesNearPeak, At
  <1> QED
    BY <1>2, <1>3

\* A check that ends with the baselines b, saved or not.
LEMMA CheckedStep ==
    ASSUME DdInv, NEW b \in Baselines, NEW verdict \in Verdicts \ {"limits"},
           \A p \in Periods : b.start[p] <= b.peak,
           At("check"), Checked(verdict, b), Saves(b) \/ UNCHANGED file, killed' \in BOOLEAN,
           file.kept = "baselines" => b.peak >= file.base.peak \/ Evidence,
           verdict \in {"passed", "synced", "mismatch"} => ~Under(cycle.dd, b.peak, 3)
    PROVE  DdInv'
  <1>1. TypeOK /\ StartsUnderPeak /\ UNCHANGED <<equity, date>>
    BY DEF DdInv, Checked
  <1>2. /\ cycle' \in Cycles /\ cycle'.pc = "record" /\ cycle'.base = b
        /\ cycle'.verdict = verdict /\ cycle'.dd = cycle.dd /\ cycle'.total = cycle.total
    BY <1>1, Fields, Moves DEF Checked
  <1>3. /\ file' \in Files
        /\ \A p \in Periods : file'.base.start[p] <= file'.base.peak
        /\ \/ file'.kept = "baselines" /\ file'.base = b
           \/ UNCHANGED file
    BY <1>1, Saved DEF TypeOK, StartsUnderPeak
  <1>4. TypeOK' /\ StartsUnderPeak'
    BY <1>1, <1>2, <1>3 DEF TypeOK, StartsUnderPeak
  <1>5. ManagerKnowsFile'
    BY <1>2, <1>3 DEF ManagerKnowsFile, Evidence, Baselines
  <1> QED
    BY <1>2, <1>4, <1>5 DEF DdInv, LimitsNeverDecide, TradesNearPeak, At

LEMMA CheckStep ==
    ASSUME DdInv, CheckSkips \/ CheckSyncs \/ CheckMismatch \/ CheckWarmsUp \/ CheckJudges
    PROVE  DdInv'
  <1>1. /\ TypeOK /\ StartsUnderPeak /\ At("check") /\ cycle.dd \in Nat
        /\ cycle.base \in Baselines /\ file.base.peak \in Nat /\ killed \in BOOLEAN
    BY Fields DEF DdInv, TypeOK, CheckSkips, CheckSyncs, CheckMismatch, CheckWarmsUp,
                  CheckJudges, Comparable
  <1>2. file.kept = "baselines" =>
            /\ cycle.boot # "first"
            /\ \/ cycle.base.peak = file.base.peak
               \/ cycle.base.peak = cycle.dd /\ Evidence
    BY <1>1 DEF DdInv, ManagerKnowsFile, At
  <1>3. \A v \in {"skipped", "synced", "mismatch", "warmup", "kill", "passed"} :
            v \in Verdicts \ {"limits"}
    BY DEF Verdicts
  <1>4. ~Under(cycle.dd, cycle.dd, 3)
    BY <1>1 DEF Under
  <1>5. CASE CheckSkips
    <2>1. Checked("skipped", cycle.base) /\ UNCHANGED <<file, killed>>
      BY <1>5 DEF CheckSkips
    <2>2. \A p \in Periods : cycle.base.start[p] <= cycle.base.peak
      BY <1>1 DEF StartsUnderPeak
    <2>3. file.kept = "baselines" => cycle.base.peak >= file.base.peak \/ Evidence
      BY <1>1, <1>2
    <2> QED
      BY <1>1, <1>3, <2>1, <2>2, <2>3, CheckedStep
  <1>6. CASE CheckSyncs
    <2> DEFINE b == InitFromEquity(cycle.dd)
    <2>1. b \in Baselines /\ b.peak = cycle.dd /\ \A p \in Periods : b.start[p] = cycle.dd
      BY <1>1, FromEquity
    <2>2. Checked("synced", b) /\ Saves(b) /\ UNCHANGED killed /\ file.kept # "baselines"
      BY <1>2, <1>6 DEF CheckSyncs, Synced
    <2> HIDE DEF b
    <2>3. \A p \in Periods : b.start[p] <= b.peak
      BY <1>1, <2>1
    <2> QED
      BY <1>1, <1>3, <1>4, <2>1, <2>2, <2>3, CheckedStep
  <1>7. CASE CheckMismatch
    <2> DEFINE b == [InitFromEquity(cycle.dd) EXCEPT !.total = cycle.base.total]
    <2>1. b \in Baselines /\ b.peak = cycle.dd /\ \A p \in Periods : b.start[p] = cycle.dd
      BY <1>1, FromEquity DEF Baselines
    <2>2. /\ Checked("mismatch", b) /\ Saves(b) /\ UNCHANGED killed
          /\ Mismatch(cycle.dd, cycle.base.peak)
      BY <1>7 DEF CheckMismatch
    <2> HIDE DEF b
    <2>3. \A p \in Periods : b.start[p] <= b.peak
      BY <1>1, <2>1
    <2>4. file.kept = "baselines" => Evidence
      BY <1>2, <2>2 DEF Evidence
    <2> QED
      BY <1>1, <1>3, <1>4, <2>1, <2>2, <2>3, <2>4, CheckedStep
  <1>8. /\ WithPeak \in Baselines /\ WithPeak.peak \in Nat
        /\ WithPeak.peak >= cycle.base.peak /\ WithPeak.peak >= cycle.dd
        /\ WithPeak.peak \in {cycle.base.peak, cycle.dd}
        /\ \A p \in Periods : WithPeak.start[p] <= WithPeak.peak
    BY <1>1, PeakBaselines DEF Baselines
  <1>9. file.kept = "baselines" => WithPeak.peak >= file.base.peak \/ Evidence
    BY <1>1, <1>2, <1>8
  <1>10. CASE CheckWarmsUp
    <2> DEFINE b == [WithPeak EXCEPT !.start["day"] = cycle.dd]
    <2> HIDE DEF WithPeak
    <2>1. /\ b \in Baselines /\ b.peak = WithPeak.peak
          /\ \A p \in Periods : b.start[p] <= b.peak
      BY <1>1, <1>8 DEF Baselines
    <2>2. Checked("warmup", b) /\ Saves(b) /\ UNCHANGED killed
      BY <1>10 DEF CheckWarmsUp
    <2> HIDE DEF b
    <2> QED
      BY <1>1, <1>3, <1>9, <2>1, <2>2, CheckedStep
  <1>11. CASE CheckJudges
    <2>1. Saves(WithPeak) /\ killed' \in BOOLEAN
      BY <1>1, <1>11 DEF CheckJudges, Trips, Under
    <2>2. CASE Trips
      <3>1. Checked("kill", WithPeak)
        BY <1>11, <2>2 DEF CheckJudges
      <3> QED
        BY <1>1, <1>3, <1>8, <1>9, <2>1, <3>1, CheckedStep
    <2>3. CASE ~Trips
      <3>1. ~Under(cycle.dd, cycle.base.peak, 3) /\ ~Under(cycle.dd, WithPeak.peak, 20)
        BY <2>3 DEF Trips
      <3>2. ~Under(cycle.dd, WithPeak.peak, 3)
        BY <1>4, <1>8, <3>1
      <3>3. \A p \in Periods : ~Under(cycle.dd, Rolled.start[p], LimitOf[p])
        <4> SUFFICES ASSUME NEW p \in Periods PROVE ~Under(cycle.dd, Rolled.start[p], LimitOf[p])
          OBVIOUS
        <4>1. Rolled.start[p] \in {cycle.dd, cycle.base.start[p]}
          BY <1>1, RolledBaselines
        <4>2. LimitOf[p] \in {5, 10, 15}
          BY LevelsAssumption DEF LimitOf
        <4>3. /\ cycle.base.start[p] \in Nat /\ cycle.base.peak \in Nat
              /\ cycle.base.start[p] <= cycle.base.peak
          BY <1>1 DEF Baselines, StartsUnderPeak
        <4> QED
          BY <1>1, <3>1, <4>1, <4>2, <4>3 DEF Under
      <3>4. Checked("passed", WithPeak)
        BY <1>11, <2>3, <3>1, <3>3 DEF CheckJudges, OverLimit
      <3> QED
        BY <1>1, <1>3, <1>8, <1>9, <2>1, <3>2, <3>4, CheckedStep
    <2> QED
      BY <2>2, <2>3
  <1> QED
    BY <1>5, <1>6, <1>7, <1>10, <1>11

LEMMA RecordStep ==
    ASSUME DdInv, Record
    PROVE  DdInv'
  <1> DEFINE b == [cycle.base EXCEPT !.total = cycle.total]
  <1>1. TypeOK /\ StartsUnderPeak /\ UNCHANGED <<equity, date, killed>> /\ cycle.pc = "record"
    BY DEF DdInv, Record, At
  <1>2. b \in Baselines /\ b.peak = cycle.base.peak /\ b.start = cycle.base.start
    BY <1>1, Fields DEF Baselines
  <1>3. MovesTo("trade", cycle.boot, b, cycle.verdict) /\ Saves(b)
    BY DEF Record
  <1> HIDE DEF b
  <1>4. \A p \in Periods : b.start[p] <= b.peak
    BY <1>1, <1>2 DEF StartsUnderPeak
  <1>5. /\ cycle' \in Cycles /\ cycle'.pc = "trade" /\ cycle'.base = b
        /\ cycle'.verdict = cycle.verdict /\ cycle'.dd = cycle.dd
    BY <1>1, <1>2, <1>3, Fields, Moves
  <1>6. /\ file' \in Files
        /\ \A p \in Periods : file'.base.start[p] <= file'.base.peak
    BY <1>1, <1>2, <1>3, <1>4, Saved
  <1>7. TypeOK' /\ StartsUnderPeak'
    BY <1>1, <1>4, <1>5, <1>6 DEF TypeOK, StartsUnderPeak
  <1>8. TradesNearPeak'
    BY <1>1, <1>2, <1>5 DEF DdInv, TradesNearPeak, At
  <1> QED
    BY <1>5, <1>7, <1>8 DEF DdInv, LimitsNeverDecide, ManagerKnowsFile, At

\* The cycle ends: an unreadable account, the strategies done, a crash.
LEMMA RestStep ==
    ASSUME DdInv, ReadFails \/ Trade \/ Crash
    PROVE  DdInv'
  <1>1. cycle' = AtRest /\ UNCHANGED <<equity, date, file, killed>>
    BY DEF ReadFails, Trade, Crash
  <1>2. /\ cycle' \in Cycles /\ cycle'.pc = "rest" /\ cycle'.base = Empty
        /\ cycle'.verdict = "none"
    BY <1>1, EmptyBaselines DEF AtRest, Cycles, Verdicts
  <1>3. \A p \in Periods : Empty.start[p] <= Empty.peak
    BY DEF Empty
  <1>4. TypeOK' /\ StartsUnderPeak'
    BY <1>1, <1>2, <1>3 DEF DdInv, TypeOK, StartsUnderPeak
  <1> QED
    BY <1>2, <1>4 DEF DdInv, LimitsNeverDecide, ManagerKnowsFile, TradesNearPeak, At

LEMMA WorldStep ==
    ASSUME DdInv, Gap \/ Midnight \/ Market \/ Damage
    PROVE  DdInv'
  <1>1. TypeOK /\ UNCHANGED cycle
    BY DEF DdInv, Gap, Midnight, Market, Damage
  <1>2. equity' \in Levels /\ killed' \in BOOLEAN
    BY <1>1 DEF Gap, Midnight, Market, Damage, TypeOK
  <1>3. date' \in [Periods -> 0..MaxDate]
    <2>1. CASE Midnight
      <3>1. PICK ends \in SUBSET {p \in Periods : date[p] < MaxDate} :
                date' = [p \in Periods |-> IF p \in ends THEN date[p] + 1 ELSE date[p]]
        BY <2>1 DEF Midnight
      <3> QED
        BY <1>1, <3>1, LevelsAssumption DEF TypeOK
    <2> QED
      BY <1>1, <2>1 DEF Gap, Market, Damage, TypeOK
  <1>4. /\ file' \in Files
        /\ file'.kept = "baselines" => file.kept = "baselines" /\ file'.base = file.base
        /\ \A p \in Periods : file'.base.start[p] <= file'.base.peak
    <2>1. CASE Gap
      BY <1>1, <2>1 DEF Gap, DdInv, StartsUnderPeak, TypeOK, Files
    <2>2. CASE Damage
      <3>1. \A p \in Periods : Empty.start[p] <= Empty.peak
        BY DEF Empty
      <3>2. /\ file' = [kept |-> "garbage", base |-> Empty, fresh |-> FALSE]
            /\ file'.base = Empty /\ file'.kept = "garbage"
        BY <2>2 DEF Damage
      <3> QED
        BY <3>1, <3>2, EmptyBaselines DEF Files
    <2> QED
      BY <1>1, <2>1, <2>2 DEF Midnight, Market, DdInv, StartsUnderPeak, TypeOK
  <1>5. TypeOK' /\ StartsUnderPeak'
    BY <1>1, <1>2, <1>3, <1>4 DEF DdInv, TypeOK, StartsUnderPeak
  <1>6. ManagerKnowsFile'
    BY <1>1, <1>4 DEF DdInv, ManagerKnowsFile, Evidence
  <1> QED
    BY <1>1, <1>5, <1>6 DEF DdInv, LimitsNeverDecide, TradesNearPeak, At

-----------------------------------------------------------------------------
(* The theorems.                                                           *)

LEMMA DdInductive == Spec => []DdInv
  <1>1. Init => DdInv
    <2>1. SUFFICES ASSUME Init PROVE DdInv
      OBVIOUS
    <2>2. \A p \in Periods : Empty.start[p] <= Empty.peak
      BY DEF Empty
    <2>3. /\ cycle \in Cycles /\ cycle.pc = "rest" /\ cycle.base = Empty
          /\ cycle.verdict = "none"
      BY <2>1, EmptyBaselines DEF Init, AtRest, Cycles, Verdicts
    <2>4. file \in Files /\ file.base = Empty /\ file.kept = "nothing"
      BY <2>1, EmptyBaselines DEF Init, Files
    <2>5. TypeOK
      <3>1. date \in [Periods -> 0..MaxDate]
        BY <2>1, LevelsAssumption DEF Init
      <3>2. equity \in Levels /\ killed \in BOOLEAN
        BY <2>1 DEF Init
      <3> QED
        BY <2>3, <2>4, <3>1, <3>2 DEF TypeOK
    <2>6. StartsUnderPeak
      BY <2>2, <2>3, <2>4 DEF StartsUnderPeak
    <2> QED
      BY <2>3, <2>4, <2>5, <2>6 DEF DdInv, ManagerKnowsFile, LimitsNeverDecide, TradesNearPeak, At
  <1>2. DdInv /\ [Next]_vars => DdInv'
    <2>1. SUFFICES ASSUME DdInv, [Next]_vars PROVE DdInv'
      OBVIOUS
    <2>2. CASE ReadAll
      <3>1. PICK v \in Volatile : Read(equity, v)
        BY <2>2 DEF ReadAll
      <3>2. equity \in Nat /\ v \in Nat
        BY <2>1, LevelsAssumption DEF DdInv, TypeOK
      <3> QED
        BY <2>1, <3>1, <3>2, ReadStep
    <2>3. CASE ReadPart
      <3>1. PICK e \in {0} \cup {l \in Levels : l < equity}, v \in Volatile \cup {0} :
                Read(e, v)
        BY <2>3 DEF ReadPart
      <3>2. e \in Nat /\ v \in Nat
        BY LevelsAssumption
      <3> QED
        BY <2>1, <3>1, <3>2, ReadStep
    <2>4. CASE UNCHANGED vars
      BY <2>1, <2>4 DEF vars, DdInv, TypeOK, StartsUnderPeak, ManagerKnowsFile, Evidence,
                        LimitsNeverDecide, TradesNearPeak, At
    <2> QED
      BY <2>1, <2>2, <2>3, <2>4, StartStep, TransferStep, CheckStep, RecordStep, RestStep,
         WorldStep DEF Next, CycleStep
  <1> QED
    BY <1>1, <1>2, PTL DEF Spec

\* The baselines, their file and the cycle keep their types.
THEOREM DdTyped == Spec => []TypeOK
  <1>1. DdInv => TypeOK
    BY DEF DdInv
  <1> QED
    BY <1>1, DdInductive, PTL

\* An order is admitted only within 3% of the peak or after a new baseline.
THEOREM DdTradesNearPeak == Spec => []TradesNearPeak
  <1>1. DdInv => TradesNearPeak
    BY DEF DdInv
  <1> QED
    BY <1>1, DdInductive, PTL

\* The limits of the periods never refuse what the switch has let through.
THEOREM DdLimitsNeverDecide == Spec => []LimitsNeverDecide
  <1>1. DdInv => LimitsNeverDecide
    BY DEF DdInv
  <1> QED
    BY <1>1, DdInductive, PTL

\* A save of b instead of the recorded baselines lowers the peak only with evidence.
LEMMA SaveKeepsPeak ==
    ASSUME TypeOK, NEW b, b.peak \in Nat, Saves(b),
           file.kept = "baselines" => b.peak >= file.base.peak \/ Evidence,
           file.kept = "baselines", file'.base.peak < file.base.peak
    PROVE  Evidence
  <1>1. CASE file' = [kept |-> "baselines", base |-> b, fresh |-> TRUE]
    BY <1>1, Fields
  <1>2. CASE UNCHANGED file
    BY <1>2, Fields
  <1> QED
    BY <1>1, <1>2 DEF Saves

\* Crashes, gaps, new days, damage and failed saves never lower the recorded peak: only
\* an equity that looked like a transfer or a mistake does.
THEOREM DdPeakSurvives == Spec => PeakSurvives
  <1> DEFINE Keeps == /\ file.kept = "baselines" /\ file'.kept = "baselines"
                      /\ file'.base.peak < file.base.peak
                      => Evidence
  <1>1. DdInv /\ [Next]_vars => [Keeps]_vars
    <2>1. SUFFICES ASSUME DdInv, Next, file.kept = "baselines", file'.kept = "baselines",
                          file'.base.peak < file.base.peak
                   PROVE  Evidence
      OBVIOUS
    <2>2. /\ TypeOK /\ StartsUnderPeak /\ ManagerKnowsFile
          /\ cycle.base.peak \in Nat /\ file.base.peak \in Nat /\ cycle.dd \in Nat
      BY <2>1, Fields DEF DdInv
    <2>3. ~UNCHANGED file
      BY <2>1, <2>2
    <2>4. CASE Transfer
      <3>1. LooksLikeTransfer /\ cycle.base = file.base
        BY <2>1, <2>2, <2>3, <2>4 DEF Transfer, ManagerKnowsFile, At
      <3> QED
        BY <3>1 DEF LooksLikeTransfer, Evidence
    <2>5. At("check") => /\ cycle.boot # "first"
                         /\ \/ cycle.base.peak = file.base.peak
                            \/ cycle.base.peak = cycle.dd /\ Evidence
      BY <2>1, <2>2 DEF ManagerKnowsFile, At
    <2>6. CASE CheckSyncs
      BY <2>5, <2>6 DEF CheckSyncs, Synced
    <2>7. CASE CheckMismatch
      BY <2>5, <2>7 DEF CheckMismatch, Evidence
    <2>8. /\ WithPeak.peak >= cycle.base.peak /\ WithPeak.peak \in Nat
          /\ WithPeak \in Baselines
      BY <2>2, PeakBaselines DEF Baselines
    <2>9. CASE CheckWarmsUp
      <3> DEFINE b == [WithPeak EXCEPT !.start["day"] = cycle.dd]
      <3> HIDE DEF WithPeak
      <3>1. b.peak = WithPeak.peak
        BY <2>8 DEF Baselines
      <3>2. Saves(b) /\ At("check")
        BY <2>9 DEF CheckWarmsUp, Comparable
      <3> HIDE DEF b
      <3>3. b.peak >= file.base.peak \/ Evidence
        BY <2>2, <2>5, <2>8, <3>1, <3>2
      <3> QED
        BY <2>1, <2>2, <2>8, <3>1, <3>2, <3>3, SaveKeepsPeak
    <2>10. CASE CheckJudges
      <3>1. Saves(WithPeak) /\ At("check")
        BY <2>10 DEF CheckJudges, Comparable
      <3>2. WithPeak.peak >= file.base.peak \/ Evidence
        BY <2>2, <2>5, <2>8, <3>1
      <3> QED
        BY <2>1, <2>2, <2>8, <3>1, <3>2, SaveKeepsPeak
    <2>11. CASE Record
      <3> DEFINE b == [cycle.base EXCEPT !.total = cycle.total]
      <3>1. b.peak = cycle.base.peak
        BY <2>2, Fields DEF Baselines
      <3>2. Saves(b) /\ At("record")
        BY <2>11 DEF Record
      <3> HIDE DEF b
      <3>3. b.peak >= file.base.peak \/ Evidence
        BY <2>1, <2>2, <3>1, <3>2 DEF ManagerKnowsFile, At
      <3> QED
        BY <2>1, <2>2, <3>1, <3>2, <3>3, SaveKeepsPeak
    <2>12. CASE Gap
      <3>1. file'.base.peak = file.base.peak
        BY <2>2, <2>12 DEF Gap, TypeOK, Files
      <3> QED
        BY <2>1, <2>2, <3>1
    <2>13. CASE Damage
      <3>1. file'.kept = "garbage"
        BY <2>13 DEF Damage
      <3> QED
        BY <2>1, <3>1
    <2> QED
      BY <2>1, <2>3, <2>4, <2>6, <2>7, <2>9, <2>10, <2>11, <2>12, <2>13
      DEF Next, CycleStep, Start, ReadAll, ReadPart, Read, ReadFails, CheckSkips, Trade,
          Crash, Midnight, Market
  <1> QED
    BY <1>1, DdInductive, PTL DEF Spec, PeakSurvives

=============================================================================
