----------------------- MODULE FuturesProtectionProofs -----------------------
(***************************************************************************)
(* Proofs about FuturesProtection: its types, what alone can double the    *)
(* position, and what alone can turn it.                                   *)
(***************************************************************************)
EXTENDS FuturesProtection, FiniteSetTheorems, TLAPS

-----------------------------------------------------------------------------
(* The orders at the broker.                                               *)

\* The orders are of the declared type, and there are finitely many of them.
LegsInv == legs \subseteq Leg /\ IsFiniteSet(legs)

\* Among one number more than there are orders, one is free.
LEMMA NewTwinTyped ==
    ASSUME NEW alike, IsFiniteSet(alike)
    PROVE  NewTwin(alike) \in Nat \ {0}
  <1> DEFINE k == Cardinality(alike)
             Free(n) == \A l \in alike : l.twin # n
  <1>1. k \in Nat
    BY FS_CardinalityType
  <1>2. \E n \in 1 .. k + 1 : Free(n)
    <2> SUFFICES ASSUME \A n \in 1 .. k + 1 : ~Free(n) PROVE FALSE
      OBVIOUS
    <2> DEFINE f == [n \in 1 .. k + 1 |-> CHOOSE l \in alike : l.twin = n]
    <2>1. \A n \in 1 .. k + 1 : f[n] \in alike /\ f[n].twin = n
      OBVIOUS
    <2>2. f \in [1 .. k + 1 -> alike]
      BY <2>1
    <2>3. IsFiniteSet(1 .. k + 1) /\ Cardinality(1 .. k + 1) = k + 1
      BY <1>1, FS_Interval
    <2>4. \E x, y \in 1 .. k + 1 : x # y /\ f[x] = f[y]
      <3> HIDE DEF f
      <3> QED
        BY <1>1, <2>2, <2>3, FS_PigeonHole
    <2> QED
      BY <2>1, <2>4
  <1>3. NewTwin(alike) \in 1 .. k + 1
    BY <1>2 DEF NewTwin
  <1> QED
    BY <1>1, <1>3

\* One more order keeps them so.
LEMMA WithLegTyped ==
    ASSUME LegsInv, NEW kind \in {"STP", "LMT"}, NEW price \in Prices,
           NEW oca \in Groups
    PROVE  WithLeg(kind, price, oca) \subseteq Leg
           /\ IsFiniteSet(WithLeg(kind, price, oca))
  <1> DEFINE alike == Alike(kind, price, oca)
             leg == [kind |-> kind, price |-> price, oca |-> oca,
                     twin |-> NewTwin(alike)]
  <1>1. alike \in SUBSET legs
    BY DEF Alike
  <1>2. IsFiniteSet(alike)
    BY <1>1, FS_Subset DEF LegsInv
  <1>3. NewTwin(alike) \in Nat \ {0}
    BY <1>2, NewTwinTyped
  <1>4. leg \in Leg
    BY <1>3 DEF Leg
  <1>5. IsFiniteSet(legs \cup {leg})
    BY FS_AddElement DEF LegsInv
  <1> QED
    BY <1>4, <1>5 DEF WithLeg, LegsInv

LEMMA FewerLegsTyped ==
    ASSUME LegsInv, legs' \in SUBSET legs
    PROVE  LegsInv'
  BY FS_Subset DEF LegsInv

\* A group is free when no order works, or while not all of them are taken.
LEMMA NewGroupTyped ==
    ASSUME LegsInv, legs = {} \/ LiveGroups # Groups
    PROVE  NewGroup \in Groups
  <1>1. LiveGroups \subseteq Groups
    BY DEF LegsInv, LiveGroups, Leg
  <1>2. CASE legs = {}
    <2>1. 1 \in Groups /\ 1 \notin LiveGroups
      BY <1>2, BoundsAssumption DEF Groups, LiveGroups
    <2> QED
      BY <2>1 DEF NewGroup
  <1>3. CASE LiveGroups # Groups
    BY <1>1, <1>3 DEF NewGroup
  <1> QED
    BY <1>2, <1>3

-----------------------------------------------------------------------------
(* Types.                                                                  *)

TypeInv == TypeOK /\ IsFiniteSet(legs)

LEMMA EmptyTyped == Empty \in Content /\ Missing \in Content
  BY BoundsAssumption DEF Empty, Missing, Content, Prices

LEMMA RecordTyped ==
    ASSUME NEW sl \in Prices, NEW tp \in Prices
    PROVE  Record(sl, tp) \in Content
  BY DEF Record, Content

LEMMA RestTyped == JobRest \in JobRecord /\ RiskRest \in RiskRecord
  BY EmptyTyped, BoundsAssumption
  DEF JobRest, JobRecord, JobPcs, RiskRest, RiskRecord, Prices

\* Moving on changes the step alone.
LEMMA GotoTyped ==
    ASSUME job \in JobRecord, NEW pc \in JobPcs, Goto(pc)
    PROVE  job' \in JobRecord
  BY DEF Goto, JobRecord

LEMMA GotoMoves ==
    ASSUME job \in JobRecord, NEW pc, Goto(pc) \/ CloseAndDrop(pc)
    PROVE  job'.pc = pc /\ job'.n = job.n
  <1>1. CASE Goto(pc)
    BY <1>1 DEF Goto, JobRecord
  <1>2. CASE job' = [job EXCEPT !.pc = pc, !.rec = Empty]
    BY <1>2 DEF JobRecord
  <1> QED
    BY <1>1, <1>2 DEF CloseAndDrop

LEMMA InitTyped == Init => TypeInv
  <1> SUFFICES ASSUME Init PROVE TypeInv
    OBVIOUS
  <1>1. IsFiniteSet(legs)
    BY FS_EmptySet DEF Init
  <1>2. up \in BOOLEAN /\ crossed \in BOOLEAN
    BY DEF Init
  <1> QED
    BY <1>1, <1>2, RestTyped, EmptyTyped, BoundsAssumption
    DEF Init, TypeInv, TypeOK, Prices

LEMMA CrossesTyped ==
    ASSUME Crosses
    PROVE  crossed' \in BOOLEAN
  BY DEF Crosses

\* A market order leaves the position, and the orders given up, within their bounds.
LEMMA MarketTyped ==
    ASSUME TypeInv, Goes
    PROVE  /\ MarketClose /\ UNCHANGED buys
                  => /\ held' \in -1 .. 2
                     /\ buys' \in Nat /\ sells' \in Nat /\ buys' + sells' <= MaxAdrift
           /\ Bought => held' \in -1 .. 2 /\ trade' \in Prices
  <1>0. buys \in Nat /\ sells \in Nat /\ MaxAdrift \in Nat /\ buys + sells <= MaxAdrift
    BY BoundsAssumption DEF TypeInv, TypeOK
  <1>1. MarketClose /\ UNCHANGED buys
           => /\ held' \in -1 .. 2
              /\ buys' \in Nat /\ sells' \in Nat /\ buys' + sells' <= MaxAdrift
    BY <1>0 DEF MarketClose, MayDrift, Goes
  <1>2. ASSUME Bought PROVE held' \in -1 .. 2 /\ trade' \in Prices
    <2>1. trade \in Nat /\ Numbers \in Nat /\ Numbers > 0
      BY BoundsAssumption DEF TypeInv, TypeOK, Prices
    <2>2. trade % Numbers \in 0 .. Numbers - 1
      BY <2>1
    <2>3. trade' = (trade % Numbers) + 1 /\ held' = held + 1
      BY <1>2 DEF Bought
    <2> QED
      BY <2>1, <2>2, <2>3 DEF Goes, Prices
  <1> QED
    BY <1>1, <1>2

LEMMA BrokerTyped ==
    ASSUME TypeInv, LegFills \/ LegVanishes
    PROVE  TypeInv'
  <1>1. legs' \in SUBSET legs
    BY DEF LegFills, LegVanishes
  <1>2. LegsInv'
    BY <1>1, FewerLegsTyped DEF TypeInv, TypeOK, LegsInv
  <1>3. held' \in -1 .. 2
    BY DEF LegFills, LegVanishes, Goes, TypeInv, TypeOK
  <1>4. crossed' \in BOOLEAN
    BY CrossesTyped DEF LegFills, LegVanishes, TypeInv, TypeOK
  <1> QED
    BY <1>2, <1>3, <1>4 DEF LegFills, LegVanishes, TypeInv, TypeOK, LegsInv, files, adrift

LEMMA NextSignalTyped ==
    ASSUME job \in JobRecord, job.n > 0
    PROVE  /\ NextSignal \in JobRecord /\ NextSignal.pc = "entry" /\ NextSignal.n = job.n - 1
           /\ NextSignal.untold = job.untold /\ NextSignal.rec = job.rec
           /\ Untold \in JobRecord /\ Untold.pc = "entry" /\ Untold.n = job.n - 1
           /\ Untold.untold = TRUE
  <1>1. job.n \in Nat
    BY DEF JobRecord
  <1>2. job.n - 1 \in Nat
    BY <1>1
  <1>3. /\ NextSignal \in JobRecord /\ NextSignal.pc = "entry" /\ NextSignal.n = job.n - 1
        /\ NextSignal.untold = job.untold /\ NextSignal.rec = job.rec
    BY <1>2 DEF NextSignal, JobRecord, JobPcs
  <1> QED
    BY <1>3 DEF Untold, JobRecord

\* A signal or an attempt is under way only while one is left.
Counted ==
    /\ job.pc \in {"entrySl", "entryTp", "watchSl", "watchTp"} => job.n > 0
    /\ job.pc \in {"entrySl", "entryTp", "watchSl", "watchTp",
                   "rebracketSl", "rebracketTp"} => job.oca \in Groups

FutInv == TypeInv /\ Counted

\* An order that was given up comes to its end.
LEMMA LateTyped ==
    ASSUME FutInv, LateEntry \/ LateClose
    PROVE  FutInv'
  <1> USE DEF FutInv, TypeInv, TypeOK, files, Goes
  <1>0. MaxAdrift \in Nat
    BY BoundsAssumption
  <1>1. CASE LateEntry
    <2>1. held' \in -1 .. 2 /\ trade' \in Prices
      BY <1>1, MarketTyped DEF LateEntry
    <2>2. buys' \in Nat /\ buys' + sells' <= MaxAdrift
      BY <1>0, <1>1 DEF LateEntry
    <2>3. /\ job' \in JobRecord
          /\ job'.pc = job.pc /\ job'.n = job.n /\ job'.oca = job.oca
      BY <1>1 DEF LateEntry, JobRecord
    <2> QED
      BY <1>1, <2>1, <2>2, <2>3 DEF LateEntry, Counted
  <1>2. CASE LateClose
    <2>1. sells' \in Nat /\ buys + sells' <= MaxAdrift
      BY <1>0, <1>2 DEF LateClose
    <2>2. held' \in -1 .. 2 /\ crossed' \in BOOLEAN
      BY <1>2, CrossesTyped DEF LateClose
    <2> QED
      BY <1>2, <2>1, <2>2 DEF LateClose, Counted
  <1> QED
    BY <1>1, <1>2

\* The steps of the futures cycle that place no order.
LEMMA FutReadsTyped ==
    ASSUME FutInv,
           FutStart \/ FutBrackets \/ FutRefresh \/ FutEntriesDone
    PROVE  FutInv'
  <1> USE DEF FutInv, TypeInv, TypeOK, broker, adrift, files, At, Goes
  <1>1. CASE FutStart
    <2>1. PICK f \in ReadLegacy(risk.pc = "save") :
            job' = [JobRest EXCEPT !.pc = "orders", !.pos = held,
                        !.rec = IF Recorded(f) /\ held = 1 THEN f ELSE Empty]
      BY <1>1 DEF FutStart
    <2>2. f \in Content
      BY EmptyTyped DEF ReadLegacy
    <2>3. job' \in JobRecord /\ job'.pc = "orders"
      BY <1>1, <2>1, <2>2, EmptyTyped, RestTyped DEF FutStart, JobRecord, JobPcs
    <2> QED
      BY <1>1, <2>3 DEF FutStart, Counted
  <1>2. CASE FutBrackets
    <2>1. CASE Goto("exit") \/ Goto("failsafe")
      <3>1. job' \in JobRecord
        BY <2>1, GotoTyped DEF JobPcs
      <3>2. job'.pc \in {"exit", "failsafe"}
        BY <2>1 DEF Goto, JobRecord
      <3> QED
        BY <1>2, <3>1, <3>2 DEF FutBrackets, Counted
    <2>2. CASE Bare /\ job' = [job EXCEPT !.pc = "rebracketSl", !.oca = NewGroup]
      <3>1. NewGroup \in Groups
        BY <2>2, NewGroupTyped DEF Bare, LegsInv
      <3>2. job' \in JobRecord /\ job'.pc = "rebracketSl" /\ job'.oca \in Groups
        BY <2>2, <3>1 DEF JobRecord, JobPcs
      <3> QED
        BY <1>2, <3>2 DEF FutBrackets, Counted
    <2> QED
      BY <1>2, <2>1, <2>2 DEF FutBrackets
  <1>4. CASE FutRefresh
    <2>1. job' \in JobRecord /\ job'.pc = "entry"
      BY <1>4, BoundsAssumption DEF FutRefresh, JobRecord, JobPcs
    <2> QED
      BY <1>4, <2>1 DEF FutRefresh, Counted
  <1>5. CASE FutEntriesDone
    <2>1. job' \in JobRecord /\ job'.pc = "save"
      BY <1>5, RestTyped DEF FutEntriesDone, JobRecord, JobPcs
    <2> QED
      BY <1>5, <2>1 DEF FutEntriesDone, Counted
  <1> QED
    BY <1>1, <1>2, <1>4, <1>5

\* The steps of the futures cycle that close the position or cancel its legs.
LEMMA FutExitsTyped ==
    ASSUME FutInv, FutFailsafe \/ FutTimeExit \/ FutTimeExitClose \/ FutSave
    PROVE  FutInv'
  <1> USE DEF FutInv, TypeInv, TypeOK, broker, adrift, files, At, Goes
  <1>1. CASE FutFailsafe \/ FutTimeExitClose
    <2>1. PICK pc \in {"exit", "refresh"} : CloseAndDrop(pc)
      BY <1>1 DEF FutFailsafe, FutTimeExitClose
    <2>2. /\ held' \in -1 .. 2
          /\ buys' \in Nat /\ sells' \in Nat /\ buys' + sells' <= MaxAdrift
      BY <1>1, <2>1, MarketTyped DEF CloseAndDrop, FutFailsafe, FutTimeExitClose
    <2>3. job' \in JobRecord /\ job'.pc = pc
      BY <2>1, EmptyTyped DEF CloseAndDrop, Goto, JobRecord, JobPcs
    <2>4. crossed' \in BOOLEAN
      BY <1>1, CrossesTyped DEF FutFailsafe, FutTimeExitClose
    <2> QED
      BY <1>1, <2>2, <2>3, <2>4 DEF FutFailsafe, FutTimeExitClose, Counted
  <1>2. CASE FutTimeExit
    <2>1. LegsInv'
      BY <1>2, FewerLegsTyped DEF FutTimeExit, LegsInv
    <2>2. job' \in JobRecord /\ job'.pc = "exitClose"
      BY <1>2 DEF FutTimeExit, Goto, JobRecord, JobPcs
    <2> QED
      BY <1>2, <2>1, <2>2 DEF FutTimeExit, Counted, LegsInv
  <1>3. CASE FutSave
    <2>1. legacy' \in Content
      BY <1>3, EmptyTyped DEF FutSave, AfterWrite, JobRecord
    <2>2. job' \in JobRecord /\ job'.pc = "rest"
      BY <1>3, RestTyped DEF FutSave, JobRest
    <2> QED
      BY <1>3, <2>1, <2>2 DEF FutSave, Counted
  <1> QED
    BY <1>1, <1>2, <1>3

\* The steps of the futures cycle that place orders.
LEMMA FutOrdersTyped ==
    ASSUME FutInv,
           \/ FutRebracketSl \/ FutRebracketTp
           \/ FutEntry \/ FutEntryFails \/ FutEntrySl \/ FutEntryTp
    PROVE  FutInv'
  <1> USE DEF FutInv, TypeInv, TypeOK, broker, adrift, files, At, Goes, LegsInv
  <1>0. job \in JobRecord /\ job.rec.sl \in Prices /\ job.rec.tp \in Prices
    BY DEF JobRecord, Content
  <1>1. CASE FutRebracketSl \/ FutRebracketTp
    <2>1. job.oca \in Groups
      BY <1>1 DEF FutRebracketSl, FutRebracketTp, Counted
    <2>2. LegsInv'
      BY <1>0, <1>1, <2>1, WithLegTyped DEF FutRebracketSl, FutRebracketTp
    <2>3. PICK pc \in {"rebracketTp", "failsafe", "exit"} : Goto(pc)
      BY <1>1 DEF FutRebracketSl, FutRebracketTp
    <2>4. job' \in JobRecord /\ job'.pc = pc /\ job'.oca \in Groups
      BY <1>0, <2>1, <2>3 DEF Goto, JobRecord, JobPcs
    <2> QED
      BY <1>1, <2>2, <2>4 DEF FutRebracketSl, FutRebracketTp, Counted
  <1>2. CASE FutEntry
    <2>1. NewGroup \in Groups
      BY <1>2, NewGroupTyped DEF FutEntry
    <2>2. job' \in JobRecord /\ job'.pc = "entrySl" /\ job'.oca \in Groups
      BY <1>0, <1>2, <2>1 DEF FutEntry, JobRecord, JobPcs
    <2>3. job'.n > 0
      BY <1>0, <1>2 DEF FutEntry, MayEnter, JobRecord
    <2>4. held' \in -1 .. 2 /\ trade' \in Prices
      BY <1>2, MarketTyped DEF FutEntry
    <2> QED
      BY <1>2, <2>2, <2>3, <2>4 DEF FutEntry, Counted
  <1>3. CASE FutEntryFails
    <2>1. job' \in JobRecord /\ job'.pc = "entry"
      BY <1>0, <1>3, NextSignalTyped DEF FutEntryFails, MayEnter
    <2>2. held' \in -1 .. 2 /\ trade' \in Prices
      BY <1>3, MarketTyped DEF FutEntryFails
    <2>3. buys' \in Nat /\ buys' + sells <= MaxAdrift
      BY <1>3, BoundsAssumption DEF FutEntryFails, MayDrift
    <2> QED
      BY <1>3, <2>1, <2>2, <2>3 DEF FutEntryFails, Counted
  <1>4. CASE FutEntrySl
    <2>1. job.oca \in Groups /\ job.n > 0
      BY <1>4 DEF FutEntrySl, Counted
    <2>2. LegsInv'
      BY <1>4, <2>1, WithLegTyped DEF FutEntrySl
    <2>3. /\ job' \in JobRecord
          /\ \/ job'.pc = "entry"
             \/ job'.pc = "entryTp" /\ job'.n > 0 /\ job'.oca \in Groups
      BY <1>0, <1>4, <2>1, NextSignalTyped DEF FutEntrySl, Goto, JobRecord, JobPcs
    <2> QED
      BY <1>4, <2>2, <2>3 DEF FutEntrySl, Counted
  <1>5. CASE FutEntryTp
    <2>1. job.oca \in Groups /\ job.n > 0
      BY <1>5 DEF FutEntryTp, Counted
    <2>2. LegsInv'
      BY <1>5, <2>1, WithLegTyped DEF FutEntryTp
    <2>3. Record(trade, trade) \in Content
      BY RecordTyped
    <2>4. /\ NextSignal \in JobRecord /\ NextSignal.pc = "entry"
          /\ Untold \in JobRecord /\ Untold.pc = "entry"
      BY <1>0, <2>1, NextSignalTyped
    <2>5. job' \in JobRecord /\ job'.pc = "entry"
      BY <1>5, <2>3, <2>4 DEF FutEntryTp, JobRecord
    <2> QED
      BY <1>5, <2>2, <2>5 DEF FutEntryTp, Counted
  <1> QED
    BY <1>1, <1>2, <1>3, <1>4, <1>5

\* The watchdog.
LEMMA WatchdogTyped ==
    ASSUME FutInv, WdStart \/ WdStep
    PROVE  FutInv'
  <1> USE DEF FutInv, TypeInv, TypeOK, broker, adrift, files, At, Goes, LegsInv
  <1>0. job \in JobRecord /\ job.rec.sl \in Prices /\ job.rec.tp \in Prices
    BY DEF JobRecord, Content
  <1>1. CASE WdStart
    <2>1. job' \in JobRecord /\ job'.pc = "watchOrders"
      BY <1>0, <1>1 DEF WdStart, Goto, JobRecord, JobPcs
    <2> QED
      BY <1>1, <2>1 DEF WdStart, Counted
  <1>2. CASE WdOrders
    <2>1. LegsInv'
      BY <1>2, FewerLegsTyped DEF WdOrders, CancelDuplicates
    <2>2. PICK f \in ReadLegacy(risk.pc = "save") :
            \E price \in WdPrices(WdRecord(f)), group \in WdGroups' :
              Place(f, IF NeedsStop THEN price.sl ELSE 0,
                    IF Targets = {} THEN price.tp ELSE 0, group)
      BY <1>2 DEF WdOrders
    <2>3. PICK price \in WdPrices(WdRecord(f)), group \in WdGroups' :
            Place(f, IF NeedsStop THEN price.sl ELSE 0,
                  IF Targets = {} THEN price.tp ELSE 0, group)
      BY <2>2
    <2> DEFINE sl == IF NeedsStop THEN price.sl ELSE 0
               tp == IF Targets = {} THEN price.tp ELSE 0
    <2>4. Place(f, sl, tp, group)
      BY <2>3
    <2>5. WdRecord(f) \in Content
      BY EmptyTyped DEF ReadLegacy, WdRecord
    <2>6. 0 \in Prices
      BY BoundsAssumption DEF Prices
    <2>7. sl \in Prices /\ tp \in Prices
      BY <2>5, <2>6 DEF WdPrices, Content
    <2>8. group \in Groups
      <3>1. legs' = {} => NewGroup' \in Groups
        <4>1. ASSUME legs' = {} PROVE LiveGroups' = {}
          BY <4>1 DEF LiveGroups
        <4>2. 1 \in Groups
          BY BoundsAssumption DEF Groups
        <4> QED
          BY <4>1, <4>2 DEF NewGroup
      <3>2. Stops' = {} /\ Targets' = {} => legs' = {}
        BY <2>1 DEF Stops, Targets, Leg
      <3>3. \A l \in legs' : l.oca \in Groups
        BY <2>1 DEF Leg
      <3> QED
        BY <3>1, <3>2, <3>3 DEF WdGroups, Stops, Targets
    <2>9. WdTarget(f) \in {"canonical", "legacy"}
      BY DEF WdTarget
    <2> HIDE DEF sl, tp
    <2>10. /\ job' \in JobRecord
          /\ \/ job'.pc = "rest"
             \/ job'.pc = "watchSl" /\ job'.n > 0 /\ job'.oca \in Groups
      <3>1. CASE sl = 0 /\ tp = 0
        BY <2>4, <3>1, RestTyped DEF Place, JobRest
      <3>2. CASE ~(sl = 0 /\ tp = 0)
        <4>1. job' = [pc |-> "watchSl", pos |-> 0, rec |-> WdRecord(f),
                      sl |-> sl, tp |-> tp, oca |-> group, n |-> Tries,
                      target |-> WdTarget(f), untold |-> FALSE]
          BY <2>4, <3>2 DEF Place, JobRest
        <4>2. Tries \in Nat /\ Tries > 0 /\ "watchSl" \in JobPcs
          BY BoundsAssumption DEF JobPcs
        <4> QED
          BY <2>5, <2>7, <2>8, <2>9, <4>1, <4>2 DEF JobRecord
      <3> QED
        BY <3>1, <3>2
    <2> QED
      BY <1>2, <2>1, <2>10 DEF WdOrders, Counted
  <1>3. CASE WdSl \/ WdTp
    <2>1. job.oca \in Groups /\ job.n > 0 /\ job.n \in Nat
      BY <1>0, <1>3 DEF WdSl, WdTp, Counted, JobRecord
    <2>2. job.sl \in Prices /\ job.tp \in Prices
      BY <1>0 DEF JobRecord
    <2>3. LegsInv'
      BY <1>3, <2>1, <2>2, WithLegTyped DEF WdSl, WdTp, Placed
    <2>4. job.n > 1 => job.n - 1 \in Nat /\ job.n - 1 > 0
      BY <2>1
    <2>5. /\ job' \in JobRecord
          /\ \/ job'.pc \in {"rest", "watchSave"}
             \/ job'.pc \in {"watchSl", "watchTp"} /\ job'.n > 0 /\ job'.oca \in Groups
      <3>1. CASE WdRetry
        <4>1. CASE job.n > 1
          <5>1. job' = [job EXCEPT !.pc = "watchSl", !.n = job.n - 1]
            BY <3>1, <4>1 DEF WdRetry
          <5> QED
            BY <1>0, <2>1, <2>4, <4>1, <5>1 DEF JobRecord, JobPcs
        <4>2. CASE ~(job.n > 1)
          BY <3>1, <4>2, RestTyped DEF WdRetry, JobRest
        <4> QED
          BY <4>1, <4>2
      <3>2. CASE Goto("watchTp") \/ Goto("watchSave")
        BY <1>0, <2>1, <3>2 DEF Goto, JobRecord, JobPcs
      <3> QED
        BY <1>3, <3>1, <3>2 DEF WdSl, WdTp
    <2> QED
      BY <1>3, <2>3, <2>5 DEF WdSl, WdTp, Counted
  <1>4. CASE WdSave
    <2>1. PICK sl \in Prices, tp \in Prices :
            IF job.target = "canonical"
            THEN /\ canonical' \in AfterWrite(canonical, Record(sl, tp), Missing)
                 /\ UNCHANGED legacy
            ELSE /\ legacy' \in AfterWrite(legacy, Record(sl, tp), Empty)
                 /\ UNCHANGED canonical
      BY <1>0, <1>4 DEF WdSave, JobRecord
    <2>2. legacy' \in Content /\ canonical' \in Content
      BY <2>1, EmptyTyped, RecordTyped DEF AfterWrite
    <2>3. job' \in JobRecord /\ job'.pc = "rest"
      BY <1>4, RestTyped DEF WdSave, JobRest
    <2> QED
      BY <1>4, <2>2, <2>3 DEF WdSave, Counted
  <1> QED
    BY <1>1, <1>2, <1>3, <1>4 DEF WdStep

\* The software stop.
LEMMA RiskTyped ==
    ASSUME FutInv, RiskStep
    PROVE  FutInv'
  <1> USE DEF FutInv, TypeInv, TypeOK, broker, adrift, files, RiskAt, Goes
  <1>0. risk \in RiskRecord /\ risk.rec \in Content
    BY DEF RiskRecord
  <1>1. CASE RiskRead
    <2>1. PICK f \in ReadLegacy(LegacyBeingWritten) :
            risk' = [pc |-> "check", rec |-> f]
      BY <1>1 DEF RiskRead
    <2>2. f \in Content
      BY EmptyTyped DEF ReadLegacy
    <2>3. risk' \in RiskRecord
      BY <2>1, <2>2 DEF RiskRecord
    <2> QED
      BY <1>1, <2>3 DEF RiskRead, Counted
  <1>2. CASE RiskCheck
    <2>1. risk' \in RiskRecord
      BY <1>0, <1>2, EmptyTyped DEF RiskCheck, RiskRecord
    <2> QED
      BY <1>2, <2>1 DEF RiskCheck, Counted
  <1>3. CASE RiskClose
    <2>1. risk' \in RiskRecord
      BY <1>3, EmptyTyped, RestTyped DEF RiskClose, RiskRecord
    <2>2. /\ held' \in -1 .. 2
          /\ buys' \in Nat /\ sells' \in Nat /\ buys' + sells' <= MaxAdrift
      BY <1>3, MarketTyped DEF RiskClose
    <2>3. crossed' \in BOOLEAN
      BY <1>3, CrossesTyped DEF RiskClose
    <2> QED
      BY <1>3, <2>1, <2>2, <2>3 DEF RiskClose, Counted
  <1>4. CASE RiskFails
    BY <1>4, RestTyped DEF RiskFails, Counted
  <1>5. CASE RiskSave
    <2>1. legacy' \in Content
      BY <1>0, <1>5, EmptyTyped DEF RiskSave, AfterWrite
    <2> QED
      BY <1>5, <2>1, RestTyped DEF RiskSave, Counted
  <1> QED
    BY <1>1, <1>2, <1>3, <1>4, <1>5 DEF RiskStep

\* The end of the process and its start.
LEMMA RestartTyped ==
    ASSUME FutInv, Crash \/ Boot
    PROVE  FutInv'
  <1> USE DEF FutInv, TypeInv, TypeOK, broker, adrift, files, Goes
  <1>1. CASE Crash
    <2>1. legacy' \in Content /\ canonical' \in Content
      BY <1>1, EmptyTyped DEF Crash, ReadLegacy
    <2>2. job' \in JobRecord /\ job'.pc = "rest" /\ risk' \in RiskRecord
      BY <1>1, RestTyped DEF Crash, JobRest
    <2> QED
      BY <1>1, <2>1, <2>2 DEF Crash, Counted
  <1>2. CASE Boot
    <2>1. \A rec \in BootRecords : rec \in Content
      <3>1. BootExisting \in Content
        BY DEF BootExisting
      <3>2. PriceOf(Stops) \subseteq Prices /\ PriceOf(Targets) \subseteq Prices
        BY BoundsAssumption DEF PriceOf, Stops, Targets, Leg, Prices
      <3>3. 0 \in Prices
        BY BoundsAssumption DEF Prices
      <3> QED
        BY <3>1, <3>2, <3>3, RecordTyped DEF BootRecords
    <2>2. legacy' \in Content /\ canonical' \in Content
      BY <1>2, <2>1, EmptyTyped DEF Boot, AfterWrite
    <2> QED
      BY <1>2, <2>2 DEF Boot, Counted
  <1> QED
    BY <1>1, <1>2

LEMMA StepTyped == FutInv /\ [Next]_vars => FutInv'
  <1> SUFFICES ASSUME FutInv, [Next]_vars PROVE FutInv'
    OBVIOUS
  <1>1. CASE LegFills \/ LegVanishes
    BY <1>1, BrokerTyped DEF FutInv, LegFills, LegVanishes, files, adrift, Counted
  <1>2. CASE UNCHANGED vars
    BY <1>2 DEF vars, FutInv, TypeInv, TypeOK, Counted
  <1> QED
    BY <1>1, <1>2, LateTyped, FutReadsTyped, FutExitsTyped, FutOrdersTyped,
       WatchdogTyped, RiskTyped, RestartTyped
    DEF Next, FutStep

LEMMA InitCounted == Init => FutInv
  BY InitTyped DEF Init, FutInv, Counted, JobRest

\* Every reachable state is of the declared types, for any number of signals,
\* attempts, numbers and groups, whatever fails.
THEOREM FuturesTyped == Spec => []TypeOK
  <1>1. FutInv => TypeOK
    BY DEF FutInv, TypeInv
  <1> QED
    BY <1>1, InitCounted, StepTyped, PTL DEF Spec

-----------------------------------------------------------------------------
(* The cap of one contract.                                                *)

\* A cycle that has not given an entry up still knows of what it bought, and what the
\* refresh read as flat stays flat until then, unless an entry given up earlier is
\* executed in between.
CapInv ==
    /\ held > 1 => job.untold = TRUE
    /\ job.pc = "entry" /\ MayEnter => held <= 0 \/ job.untold = TRUE

Entering == {"entry", "entrySl", "entryTp"}

\* What the main loop does outside the entries, and everybody else, sells only.
SellsOnly == held' \in {held, held - 1}

\* The steps that leave the entries alone, and nothing is done once the position has
\* doubled.
LEMMA OutsideEntries ==
    ASSUME TypeOK,
           \/ FutStart \/ FutBrackets \/ FutRebracketSl \/ FutRebracketTp \/ FutFailsafe
           \/ FutTimeExit \/ FutTimeExitClose \/ FutEntriesDone \/ FutSave
           \/ WdStart \/ WdStep \/ Crash
    PROVE  SellsOnly /\ Goes /\ job'.pc \notin Entering
  <1> USE DEF Entering
  <1>0. job \in JobRecord
    BY DEF TypeOK
  <1>1. CASE FutStart \/ FutBrackets \/ FutRebracketSl \/ FutRebracketTp
             \/ FutFailsafe \/ FutTimeExit \/ FutTimeExitClose
             \/ FutEntriesDone \/ FutSave
    <2>1. SellsOnly
      BY <1>1 DEF SellsOnly, broker, CloseAndDrop, MarketClose, FutStart,
         FutBrackets, FutRebracketSl, FutRebracketTp, FutFailsafe, FutTimeExit,
         FutTimeExitClose, FutEntriesDone, FutSave
    <2>2. job'.pc \notin Entering
      <3> DEFINE pcs == {"rebracketTp", "failsafe", "exit", "exitClose"}
      <3>1. CASE \E pc \in pcs : Goto(pc)
        BY <1>0, <3>1, GotoMoves
      <3>2. CASE FutBrackets
        BY <1>0, <3>1, <3>2 DEF FutBrackets, JobRecord
      <3>3. CASE \E pc \in {"exit", "refresh"} : CloseAndDrop(pc)
        BY <1>0, <3>3, GotoMoves
      <3>4. CASE FutStart
        <4>1. \A rec, pos : [JobRest EXCEPT !.pc = "orders", !.pos = pos,
                                          !.rec = rec].pc = "orders"
          BY DEF JobRest
        <4> QED
          BY <3>4, <4>1 DEF FutStart
      <3>5. CASE FutEntriesDone
        BY <3>5 DEF FutEntriesDone, JobRest
      <3>6. CASE FutSave
        BY <3>6 DEF FutSave, JobRest
      <3> QED
        BY <1>1, <3>1, <3>2, <3>3, <3>4, <3>5, <3>6 DEF FutRebracketSl, FutRebracketTp,
           FutFailsafe, FutTimeExit, FutTimeExitClose
    <2>3. Goes
      BY <1>1 DEF At, FutStart, FutBrackets, FutRebracketSl, FutRebracketTp,
         FutFailsafe, FutTimeExit, FutTimeExitClose, FutEntriesDone, FutSave
    <2> QED
      BY <2>1, <2>2, <2>3
  <1>2. CASE WdStart \/ WdStep
    <2>1. SellsOnly
      BY <1>2 DEF SellsOnly, broker, WdStart, WdStep, WdOrders, WdSl, WdTp, WdSave
    <2>2. job'.pc \notin Entering
      <3>1. CASE \E pc \in {"watchOrders", "watchTp", "watchSave"} : Goto(pc)
        BY <1>0, <3>1, GotoMoves
      <3>2. CASE WdRetry
        BY <1>0, <3>2 DEF WdRetry, JobRest, JobRecord
      <3>3. CASE WdOrders
        BY <3>3 DEF WdOrders, Place, JobRest
      <3>4. CASE WdSave
        BY <3>4 DEF WdSave, JobRest
      <3> QED
        BY <1>2, <3>1, <3>2, <3>3, <3>4 DEF WdStart, WdStep, WdSl, WdTp
    <2>3. Goes
      BY <1>2 DEF At, WdStart, WdStep, WdOrders, WdSl, WdTp, WdSave
    <2> QED
      BY <2>1, <2>2, <2>3
  <1>3. CASE Crash
    BY <1>3 DEF SellsOnly, broker, Crash, JobRest
  <1> QED
    BY <1>1, <1>2, <1>3

\* The steps that leave the main loop alone.
LEMMA BesideEntries ==
    ASSUME RiskStep \/ LegFills \/ LegVanishes \/ LateClose \/ Boot \/ UNCHANGED vars
    PROVE  SellsOnly /\ UNCHANGED job
  BY DEF SellsOnly, broker, MarketClose, RiskStep, RiskRead, RiskCheck, RiskClose,
     RiskFails, RiskSave, LegFills, LegVanishes, LateClose, Boot, vars

LEMMA EntriesKeepCap ==
    ASSUME FutInv, CapInv,
           FutRefresh \/ FutEntry \/ FutEntryFails \/ FutEntrySl \/ FutEntryTp \/ LateEntry
    PROVE  CapInv'
  <1> USE DEF FutInv, TypeInv, TypeOK, CapInv, broker, At, Goes
  <1>0. job \in JobRecord /\ job.n \in Nat
    BY DEF JobRecord
  <1>1. CASE FutRefresh
    <2>1. job'.pc = "entry" /\ job'.pos = held /\ held' = held /\ held <= 1
      BY <1>0, <1>1 DEF FutRefresh, JobRecord
    <2> QED
      BY <1>0, <2>1 DEF MayEnter
  <1>2. CASE FutEntry
    <2>1. held <= 0 \/ job.untold = TRUE
      BY <1>0, <1>2 DEF FutEntry
    <2>2. held' = held + 1
      BY <1>2 DEF FutEntry, Bought
    <2>3. job'.pc = "entrySl" /\ job'.untold = job.untold
      BY <1>0, <1>2 DEF FutEntry, JobRecord
    <2> QED
      BY <2>1, <2>2, <2>3
  <1>3. CASE FutEntryFails
    <2>1. job.n > 0 /\ held <= 1 /\ (held <= 0 \/ job.untold = TRUE)
      BY <1>0, <1>3 DEF FutEntryFails, MayEnter
    <2>2. CASE Bought /\ job' = Untold
      BY <1>0, <2>1, <2>2, NextSignalTyped
    <2>3. CASE UNCHANGED <<held, trade>> /\ job' = NextSignal
      BY <1>0, <2>1, <2>3, NextSignalTyped
    <2> QED
      BY <1>3, <2>2, <2>3 DEF FutEntryFails
  <1>4. CASE FutEntrySl \/ FutEntryTp
    <2>1. job.n > 0 /\ UNCHANGED held
      BY <1>4 DEF FutEntrySl, FutEntryTp, Counted
    <2>2. CASE Goto("entryTp")
      <3>1. job'.pc = "entryTp" /\ job'.untold = job.untold
        BY <1>0, <2>2 DEF Goto, JobRecord
      <3> QED
        BY <2>1, <3>1
    <2>3. CASE job' = Untold
      BY <1>0, <2>1, <2>3, NextSignalTyped
    <2>4. CASE job' = [NextSignal EXCEPT !.rec = Record(trade, trade)]
      <3>1. job'.untold = job.untold /\ job'.rec = Record(trade, trade)
        BY <1>0, <2>1, <2>4, NextSignalTyped DEF JobRecord
      <3>2. ~MayEnter'
        BY <3>1 DEF MayEnter, Recorded, Record
      <3> QED
        BY <2>1, <3>1, <3>2
    <2> QED
      BY <1>4, <2>2, <2>3, <2>4 DEF FutEntrySl, FutEntryTp
  <1>5. CASE LateEntry
    <2>1. CASE job' = [job EXCEPT !.untold = TRUE]
      <3>1. job'.untold = TRUE
        BY <1>0, <2>1 DEF JobRecord
      <3> QED
        BY <3>1
    <2>2. CASE UNCHANGED <<held, trade, job>>
      BY <2>2 DEF MayEnter
    <2> QED
      BY <1>5, <2>1, <2>2 DEF LateEntry
  <1> QED
    BY <1>1, <1>2, <1>3, <1>4, <1>5

LEMMA StepKeepsCap == FutInv /\ CapInv /\ [Next]_vars => CapInv'
  <1> SUFFICES ASSUME FutInv, CapInv, [Next]_vars PROVE CapInv'
    OBVIOUS
  <1>0. TypeOK
    BY DEF FutInv, TypeInv
  <1>1. CASE SellsOnly /\ Goes /\ job'.pc \notin Entering
    BY <1>0, <1>1 DEF TypeOK, CapInv, Goes, SellsOnly, Entering
  <1>2. CASE SellsOnly /\ UNCHANGED job
    BY <1>0, <1>2 DEF TypeOK, CapInv, MayEnter, SellsOnly
  <1> QED
    BY <1>0, <1>1, <1>2, OutsideEntries, BesideEntries, EntriesKeepCap
    DEF Next, FutStep

LEMMA CapAlways == Spec => []CapInv
  <1>1. Init => CapInv
    BY DEF Init, CapInv, JobRest
  <1> QED
    BY <1>1, InitCounted, StepTyped, StepKeepsCap, PTL DEF Spec

\* For any number of signals, attempts, trades, groups and orders given up: the position
\* doubles only by an entry that was given up and executed all the same since the position
\* was last read, be it at once or, its cancellation having failed, in a later cycle (the
\* guards of run_futures_cycle, and futures_runner.py:1480-1496).
THEOREM FuturesDoubleUntold == Spec => []CapUnlessUntold
  <1>1. CapInv => CapUnlessUntold
    BY DEF CapInv, CapUnlessUntold
  <1> QED
    BY <1>1, CapAlways, PTL

\* With one signal and no order given up that stays live, what a cycle has given up it has
\* no signal left to repeat.
OneInv ==
    /\ held <= 1
    /\ job.pc \in Entering => job.n <= 1 /\ (job.untold = TRUE => job.n = 0)

LEMMA StepKeepsOne ==
    ASSUME Signals = 1, MaxAdrift = 0
    PROVE  FutInv /\ CapInv /\ OneInv /\ [Next]_vars => OneInv'
  <1> SUFFICES ASSUME FutInv, CapInv, OneInv, [Next]_vars PROVE OneInv'
    OBVIOUS
  <1> USE DEF FutInv, TypeInv, TypeOK, OneInv, broker, At, Entering
  <1>0. TypeOK /\ job \in JobRecord /\ job.n \in Nat
    BY DEF JobRecord
  <1>1. CASE SellsOnly /\ (job'.pc \notin Entering \/ UNCHANGED job)
    BY <1>1 DEF SellsOnly
  <1>2. CASE FutRefresh
    <2>1. job'.n = 1 /\ job'.untold = FALSE /\ held' = held
      BY <1>0, <1>2 DEF FutRefresh, JobRecord
    <2> QED
      BY <2>1
  <1>3. CASE FutEntry \/ FutEntryFails
    <2>1. job.pc = "entry" /\ MayEnter
      BY <1>3 DEF FutEntry, FutEntryFails
    <2>2. job.n = 1
      BY <1>0, <2>1 DEF MayEnter
    <2>3. held <= 0
      BY <2>1, <2>2 DEF CapInv
    <2>4. held' <= 1
      BY <1>3, <2>3 DEF FutEntry, FutEntryFails, Bought
    <2>5. CASE job' = [job EXCEPT !.pc = "entrySl", !.oca = NewGroup]
      <3>1. job'.n = job.n /\ job'.untold = job.untold
        BY <1>0, <2>5 DEF JobRecord
      <3> QED
        BY <2>1, <2>2, <2>4, <3>1
    <2>6. CASE job' = Untold \/ job' = NextSignal
      <3>1. job'.n = 0
        BY <1>0, <2>2, <2>6, NextSignalTyped
      <3> QED
        BY <2>4, <3>1
    <2> QED
      BY <1>3, <2>5, <2>6 DEF FutEntry, FutEntryFails
  <1>4. CASE FutEntrySl \/ FutEntryTp
    <2>0. job.n > 0 /\ job.pc \in Entering /\ held' = held
      BY <1>4 DEF FutEntrySl, FutEntryTp, Counted
    <2>1. job.n = 1 /\ ~(job.untold = TRUE) /\ held' <= 1
      BY <1>0, <2>0
    <2>2. CASE Goto("entryTp")
      <3>1. job'.n = job.n /\ job'.untold = job.untold
        BY <1>0, <2>2 DEF Goto, JobRecord
      <3> QED
        BY <2>1, <3>1
    <2>3. CASE job' = Untold \/ job' = [NextSignal EXCEPT !.rec = Record(trade, trade)]
      <3>1. NextSignal \in JobRecord /\ NextSignal.n = 0 /\ Untold.n = 0
        BY <1>0, <2>1, NextSignalTyped
      <3>2. job'.n = 0
        BY <2>3, <3>1 DEF JobRecord
      <3> QED
        BY <2>1, <3>2
    <2> QED
      BY <1>4, <2>2, <2>3 DEF FutEntrySl, FutEntryTp
  <1>5. ~LateEntry
    BY DEF LateEntry
  <1> QED
    BY <1>0, <1>1, <1>2, <1>3, <1>4, <1>5, OutsideEntries, BesideEntries
    DEF Next, FutStep

\* Where nothing given up stays live, because every cancellation works, and a cycle has
\* one signal for the symbol, the position never exceeds one contract, whatever else
\* fails and however many attempts, trades and groups there are.
THEOREM OneSignalOneContract ==
    ASSUME Signals = 1, MaxAdrift = 0
    PROVE  Spec => []PerSymbolCap
  <1>1. Init => OneInv
    BY DEF Init, OneInv, JobRest, Entering
  <1>2. OneInv => PerSymbolCap
    BY DEF OneInv, PerSymbolCap
  <1>3. Spec => []FutInv
    BY InitCounted, StepTyped, PTL DEF Spec
  <1> QED
    BY <1>1, <1>2, <1>3, CapAlways, StepKeepsOne, PTL DEF Spec

-----------------------------------------------------------------------------
(* When the position turns.                                                *)

\* Until a sale has crossed something, whatever counts on a contract is right.
CountsRight ==
    \/ crossed = TRUE
    \/ held >= 0 /\ (Counting => held >= 1)

\* What sells nothing keeps it so, if what counts afterwards has counted before, or has a
\* position.
LEMMA NothingSold ==
    ASSUME CountsRight, UNCHANGED <<held, crossed>>,
           Counting' => Counting \/ held >= 1
    PROVE  CountsRight'
  BY DEF CountsRight

\* A sale by what is right: if it crosses nothing, nothing is left that counts on it.
LEMMA OneSold ==
    ASSUME TypeOK, CountsRight, Counting, Crosses, held' \in {held, held - 1}
    PROVE  CountsRight'
  <1> SUFFICES ASSUME crossed' # TRUE
               PROVE  held' >= 0 /\ (Counting' => held' >= 1)
    BY DEF CountsRight
  <1>1. crossed # TRUE /\ ~(held' < held /\ Counting')
    BY DEF Crosses, TypeOK
  <1>2. held \in Int /\ held >= 1
    <2>1. held >= 0 /\ (Counting => held >= 1)
      BY <1>1 DEF CountsRight
    <2> QED
      BY <2>1 DEF TypeOK
  <1> QED
    BY <1>1, <1>2

\* All the sales.
LEMMA SalesRight ==
    ASSUME FutInv, CountsRight,
           LegFills \/ LateClose \/ FutFailsafe \/ FutTimeExitClose \/ RiskClose
    PROVE  CountsRight'
  <1>1. TypeOK /\ Crosses
    BY DEF FutInv, TypeInv, LegFills, LateClose, FutFailsafe, FutTimeExitClose, RiskClose
  <1>2. held' \in {held, held - 1}
    BY DEF LegFills, LateClose, FutFailsafe, FutTimeExitClose, RiskClose, CloseAndDrop,
       MarketClose
  <1>3. Counting
    BY DEF LegFills, LateClose, FutFailsafe, FutTimeExitClose, RiskClose, At, RiskAt,
       JobCounts, RiskCounts, Counting
  <1> QED
    BY <1>1, <1>2, <1>3, OneSold

\* An entry: either it has bought, or nobody counts on more than before.
LEMMA BuysRight ==
    ASSUME FutInv, CountsRight, FutEntry \/ FutEntryFails \/ LateEntry
    PROVE  CountsRight'
  <1> USE DEF FutInv, TypeInv, TypeOK
  <1>1. CASE Bought
    <2>1. held' = held + 1 /\ UNCHANGED crossed
      BY <1>1 DEF Bought, FutEntry, FutEntryFails, LateEntry
    <2> QED
      BY <2>1 DEF CountsRight
  <1>2. CASE FutEntryFails /\ UNCHANGED <<held, trade>>
    <2>1. job \in JobRecord /\ job.n > 0
      BY <1>2 DEF FutEntryFails, MayEnter
    <2>2. job'.pc = "entry" \/ job' = Untold
      BY <1>2, <2>1, NextSignalTyped DEF FutEntryFails
    <2>3. job'.pc = "entry"
      BY <2>1, <2>2, NextSignalTyped
    <2> QED
      BY <1>2, <2>3, NothingSold DEF FutEntryFails, JobCounts, RiskCounts, Counting
  <1>3. CASE LateEntry /\ UNCHANGED <<held, trade, job>>
    BY <1>3, NothingSold DEF LateEntry, JobCounts, RiskCounts, Counting
  <1> QED
    BY <1>1, <1>2, <1>3 DEF FutEntry, FutEntryFails, LateEntry

\* The main loop where it neither buys nor sells.
LEMMA ReadsRight ==
    ASSUME FutInv, CountsRight,
           \/ FutStart \/ FutBrackets \/ FutRebracketSl \/ FutRebracketTp \/ FutTimeExit
           \/ FutRefresh \/ FutEntrySl \/ FutEntryTp \/ FutEntriesDone
           \/ FutSave \/ WdStart \/ WdStep
    PROVE  CountsRight'
  <1> USE DEF FutInv, TypeInv, TypeOK, broker, adrift, At, Counting
  <1>1. job \in JobRecord
    OBVIOUS
  <1>2. UNCHANGED <<held, sells, crossed, risk>>
    BY DEF FutStart, FutBrackets, FutRebracketSl, FutRebracketTp, FutTimeExit,
       FutRefresh, FutEntrySl, FutEntryTp, FutEntriesDone, FutSave, WdStart,
       WdStep, WdOrders, WdSl, WdTp, WdSave
  <1>3. CASE FutRebracketSl \/ FutRebracketTp \/ FutTimeExit \/ FutEntrySl \/ FutEntryTp
             \/ WdOrders \/ WdSl \/ WdTp
    <2>1. JobCounts
      BY <1>3 DEF FutRebracketSl, FutRebracketTp, FutTimeExit, FutEntrySl, FutEntryTp,
         WdOrders, WdSl, WdTp, JobCounts
    <2> QED
      BY <1>2, <2>1, NothingSold
  <1>4. CASE FutStart
    <2>1. PICK f : job' = [JobRest EXCEPT !.pc = "orders", !.pos = held,
                              !.rec = IF Recorded(f) /\ held = 1 THEN f ELSE Empty]
      BY <1>4 DEF FutStart
    <2>2. Recorded(job'.rec) => held = 1
      BY <2>1 DEF JobRest, Recorded, Empty
    <2>3. job'.pc = "orders" /\ UNCHANGED legs
      BY <1>4, <2>1 DEF FutStart, JobRest
    <2> QED
      BY <1>2, <2>2, <2>3, NothingSold DEF JobCounts, RiskCounts
  <1>5. CASE FutBrackets
    <2>1. CASE Bare
      BY <1>2, <1>5, <2>1, NothingSold DEF FutBrackets, Bare, JobCounts
    <2>2. CASE ~Bare
      <3>1. job' = [job EXCEPT !.pc = "exit"] /\ UNCHANGED legs
        BY <1>5, <2>2 DEF FutBrackets, Goto
      <3>2. job'.pc = "exit" /\ job'.pos = job.pos /\ job'.rec = job.rec
        BY <1>1, <3>1 DEF JobRecord
      <3>3. JobCounts' => JobCounts
        BY <1>5, <3>2 DEF FutBrackets, JobCounts
      <3> QED
        BY <1>2, <3>1, <3>3, NothingSold DEF RiskCounts
    <2> QED
      BY <2>1, <2>2
  <1>6. CASE WdStart
    BY <1>2, <1>6, NothingSold DEF WdStart
  <1>7. CASE FutRefresh \/ FutEntriesDone \/ FutSave \/ WdSave
    <2>1. UNCHANGED legs
      BY <1>7 DEF FutRefresh, FutEntriesDone, FutSave, WdSave
    <2>2. FutRefresh => ~JobCounts'
      BY <1>1 DEF FutRefresh, JobRecord, JobCounts
    <2>3. FutEntriesDone \/ FutSave \/ WdSave => ~JobCounts'
      <3>1. FutEntriesDone => job'.pc = "save"
        BY DEF FutEntriesDone, JobRest
      <3>2. FutSave \/ WdSave => job'.pc = "rest"
        BY DEF FutSave, WdSave, JobRest
      <3> QED
        BY <3>1, <3>2 DEF JobCounts
    <2> QED
      BY <1>2, <1>7, <2>1, <2>2, <2>3, NothingSold DEF RiskCounts
  <1> QED
    BY <1>3, <1>4, <1>5, <1>6, <1>7 DEF WdStep

\* The software stop before its sale, the broker, the end of the process and its start.
LEMMA OthersRight ==
    ASSUME FutInv, CountsRight,
           \/ RiskRead \/ RiskCheck \/ RiskFails \/ RiskSave \/ LegVanishes
           \/ Crash \/ Boot \/ UNCHANGED vars
    PROVE  CountsRight'
  <1> USE DEF FutInv, TypeInv, TypeOK, broker, adrift, vars, Counting
  <1>1. UNCHANGED <<held, sells, crossed>> /\ legs' \in SUBSET legs
    BY DEF RiskRead, RiskCheck, RiskFails, RiskSave, LegVanishes, Crash, Boot
  <1>2. JobCounts' => JobCounts
    <2>1. UNCHANGED job \/ job' = JobRest
      BY DEF RiskRead, RiskCheck, RiskFails, RiskSave, LegVanishes, Crash, Boot
    <2> QED
      BY <2>1 DEF JobCounts, JobRest
  <1>3. RiskCounts' => RiskCounts \/ held >= 1
    <2>1. CASE RiskCheck
      BY <2>1 DEF RiskCheck, RiskCounts, RiskRecord
    <2>2. CASE ~RiskCheck
      BY <2>2 DEF RiskRead, RiskFails, RiskSave, LegVanishes, Crash, Boot, RiskCounts,
         RiskRest
    <2> QED
      BY <2>1, <2>2
  <1> QED
    BY <1>1, <1>2, <1>3, NothingSold

LEMMA StepKeepsRight == FutInv /\ CountsRight /\ [Next]_vars => CountsRight'
  BY SalesRight, BuysRight, ReadsRight, OthersRight
  DEF Next, FutStep, RiskStep

\* The position turns short only after a sale beside which something still counted on the
\* contract: legs, a closing order still live, the other thread (worker.py:2599 beside the
\* cycles under _ibkr_lock), or the closer after an exception. For any number of signals,
\* attempts, groups and orders given up.
THEOREM FuturesTurnCrossed == Spec => []TurnsOnlyCrossed
  <1>1. Init => CountsRight
    BY DEF Init, CountsRight, Counting, JobCounts, RiskCounts, JobRest, RiskRest
  <1>2. FutInv /\ CountsRight => TurnsOnlyCrossed
    BY DEF FutInv, TypeInv, TypeOK, CountsRight, TurnsOnlyCrossed
  <1> QED
    BY <1>1, <1>2, InitCounted, StepTyped, StepKeepsRight, PTL DEF Spec

=============================================================================
