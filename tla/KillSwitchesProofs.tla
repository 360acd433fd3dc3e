-------------------------- MODULE KillSwitchesProofs --------------------------
(***************************************************************************)
(* Proofs about KillSwitches: its types, and that a worker which runs one  *)
(* cycle at a time opens no crypto position while the crypto switch is on  *)
(* or cannot be read, and lifts no arming without its cause, except in a   *)
(* cycle beside which the bot has armed.                                   *)
(***************************************************************************)
EXTENDS KillSwitches, TLAPS

-----------------------------------------------------------------------------
(* Types.                                                                  *)

\* Moving one armer to another step keeps the records of all of them typed.
LEMMA GoTyped ==
    ASSUME arm \in [Armers -> ArmRecord], NEW a \in Armers,
           NEW pc \in {"rest", "load", "live", "liveWrite", "crypto",
                       "cryptoWrite", "close"},
           Go(a, pc) \/ arm' = [arm EXCEPT ![a] = AtRest]
    PROVE  arm' \in [Armers -> ArmRecord]
  <1>1. arm[a] \in ArmRecord
    OBVIOUS
  <1>2. [arm[a] EXCEPT !.pc = pc] \in ArmRecord
    BY <1>1 DEF ArmRecord
  <1>3. AtRest \in ArmRecord
    BY DEF AtRest, ArmRecord
  <1>4. CASE Go(a, pc)
    <2>1. arm' = [arm EXCEPT ![a] = [arm[a] EXCEPT !.pc = pc]]
      BY <1>4 DEF Go
    <2> QED
      BY <2>1, <1>2
  <1>5. CASE arm' = [arm EXCEPT ![a] = AtRest]
    BY <1>5, <1>3
  <1> QED
    BY <1>4, <1>5

LEMMA ArmedTyped ==
    ASSUME arm \in [Armers -> ArmRecord], NEW a \in Armers, Armed(a)
    PROVE  arm' \in [Armers -> ArmRecord]
  <1>1. Go(a, "close") \/ arm' = [arm EXCEPT ![a] = AtRest]
    BY DEF Armed
  <1> QED
    BY <1>1, GoTyped

LEMMA InitTyped == Init => StateTyped
  <1> SUFFICES ASSUME Init PROVE StateTyped
    OBVIOUS
  <1>1. AtRest \in ArmRecord
    BY DEF AtRest, ArmRecord
  <1>2. arm \in [Armers -> ArmRecord]
    BY <1>1 DEF Init
  <1>3. wired \in SUBSET Books
    BY DEF Init, Wirings, Books
  <1> QED
    BY <1>2, <1>3 DEF Init, StateTyped

LEMMA ArmStepTyped ==
    ASSUME StateTyped, NEW a \in Armers, ArmStep(a)
    PROVE  StateTyped'
  <1>1. CASE Load(a)
    BY <1>1, GoTyped DEF Load, StateTyped
  <1>2. CASE OpenLive(a)
    BY <1>2, GoTyped DEF OpenLive, StateTyped
  <1>3. CASE WriteLive(a)
    BY <1>3, GoTyped DEF WriteLive, StateTyped
  <1>4. CASE OpenCrypto(a)
    <2>1. arm' \in [Armers -> ArmRecord]
      BY <1>4, GoTyped, ArmedTyped DEF OpenCrypto, StateTyped
    <2> QED
      BY <1>4, <2>1 DEF OpenCrypto, StateTyped
  <1>5. CASE WriteCrypto(a)
    <2>1. arm' \in [Armers -> ArmRecord]
      BY <1>5, ArmedTyped DEF WriteCrypto, StateTyped
    <2>2. arm[a].tag \in {"own", "derived"}
      BY DEF StateTyped, ArmRecord
    <2> QED
      BY <1>5, <2>1, <2>2 DEF WriteCrypto, StateTyped
  <1> QED
    BY <1>1, <1>2, <1>3, <1>4, <1>5 DEF ArmStep

LEMMA TradeStepTyped ==
    ASSUME StateTyped, TradeStep
    PROVE  StateTyped'
  BY DEF TradeStep, TradeStart, TradeReset, TradeResetWrite, TradeCheck, TradeTrip,
         TradeTripWrite, TradeOrder, TradeEnd, BookHealth, CryptoHealth, StateTyped, Books

LEMMA StepTyped == StateTyped /\ [Next]_vars => StateTyped'
  <1> SUFFICES ASSUME StateTyped, [Next]_vars PROVE StateTyped'
    OBVIOUS
  <1>1. CASE RiskStart
    BY <1>1, GoTyped DEF RiskStart, StateTyped
  <1>2. CASE RiskClose
    <2> DEFINE again == [[arm["risk"] EXCEPT !.pc = "load"] EXCEPT !.last = TRUE]
    <2>1. "risk" \in Armers /\ arm["risk"] \in ArmRecord
      BY <1>2 DEF RiskClose, StateTyped
    <2>2. again \in ArmRecord /\ AtRest \in ArmRecord
      BY <2>1 DEF ArmRecord, AtRest
    <2>3. \/ arm' = [arm EXCEPT !["risk"] = again]
          \/ arm' = [arm EXCEPT !["risk"] = AtRest]
      BY <1>2 DEF RiskClose, StateTyped
    <2>4. arm' \in [Armers -> ArmRecord]
      BY <2>2, <2>3 DEF StateTyped
    <2> QED
      BY <1>2, <2>4 DEF RiskClose, StateTyped
  <1>3. CASE BotStart
    BY <1>3 DEF BotStart, StateTyped, ArmRecord
  <1>4. CASE \E a \in Armers : ArmStep(a)
    BY <1>4, ArmStepTyped
  <1>5. CASE Deactivate \/ OpenOff \/ WriteOff
    BY <1>5 DEF Deactivate, OpenOff, WriteOff, StateTyped
  <1>6. CASE TradeStep
    BY <1>6, TradeStepTyped
  <1>7. CASE FuturesOrder \/ Market
    BY <1>7 DEF FuturesOrder, Market, StateTyped, Books
  <1>8. CASE Passes
    BY <1>8 DEF Passes, StateTyped
  <1>9. CASE Crash
    BY <1>9 DEF Crash, StateTyped, ArmRecord, AtRest
  <1>10. CASE Boot
    BY <1>10 DEF Boot, StateTyped, Wirings, Books
  <1>11. CASE UNCHANGED vars
    BY <1>11 DEF vars, switches, StateTyped
  <1> QED
    BY <1>1, <1>2, <1>3, <1>4, <1>5, <1>6, <1>7, <1>8, <1>9, <1>10, <1>11
    DEF Next, OtherStep

\* The history variable is one of the two truth values.
LEMMA BesideTyped ==
    ASSUME beside \in BOOLEAN, [Next]_vars
    PROVE  beside' \in BOOLEAN
  <1>1. CASE \E a \in Armers :
               ArmStep(a) /\ beside' = (beside \/ (a = "bot" /\ trade # "rest"))
    <2>1. PICK a \in Armers : beside' = (beside \/ (a = "bot" /\ trade # "rest"))
      BY <1>1
    <2> QED
      BY <2>1
  <1>2. CASE beside' = (beside /\ trade' # "rest")
    BY <1>2
  <1>3. CASE UNCHANGED vars
    BY <1>3 DEF vars
  <1> QED
    BY <1>1, <1>2, <1>3 DEF Next

\* Every reachable state is typed, whoever arms and whatever fails.
THEOREM SwitchesTyped == Spec => []TypeOK
  <1>1. Init => TypeOK
    BY InitTyped DEF Init, TypeOK
  <1>2. TypeOK /\ [Next]_vars => TypeOK'
    BY StepTyped, BesideTyped DEF TypeOK
  <1> QED
    BY <1>1, <1>2, PTL DEF Spec

-----------------------------------------------------------------------------
(* One cycle at a time.                                                    *)

LEMMA InitSerial == Init => SerialInv
  BY DEF Init, SerialInv, RiskIsIdle, AtRest

\* An armer at work beside the crypto cycle is the bot: the risk cycle is not at work then.
LEMMA ArmStepSerial ==
    ASSUME StateTyped, SerialInv, NEW a \in Armers, ArmStep(a),
           beside' = (beside \/ (a = "bot" /\ trade # "rest"))
    PROVE  SerialInv'
  <1>1. /\ UNCHANGED <<trade, health, up>>
        /\ \A b \in Armers : b # a => arm'[b] = arm[b]
    <2>1. UNCHANGED <<trade, health, up>>
      BY DEF ArmStep, Load, OpenLive, WriteLive, OpenCrypto, WriteCrypto
    <2>2. \/ \E pc : Go(a, pc)
          \/ Armed(a)
      BY DEF ArmStep, Load, OpenLive, WriteLive, OpenCrypto, WriteCrypto
    <2>3. \E r : arm' = [arm EXCEPT ![a] = r]
      BY <2>2 DEF Go, Armed
    <2>4. \A b \in Armers : b # a => arm'[b] = arm[b]
      BY <2>3 DEF StateTyped
    <2> QED
      BY <2>1, <2>4
  <1>2. CASE trade = "rest"
    BY <1>1, <1>2 DEF SerialInv
  <1>3. CASE trade # "rest"
    <2>1. a # "risk"
      BY <1>3 DEF SerialInv, RiskIsIdle, ArmStep, Load, OpenLive, WriteLive, OpenCrypto,
         WriteCrypto
    <2>2. a = "bot"
      BY <2>1, ArmersAssumption
    <2>3. RiskIsIdle'
      BY <1>1, <1>3, <2>1 DEF SerialInv, RiskIsIdle
    <2>4. beside'
      BY <1>3, <2>2
    <2> QED
      BY <1>1, <1>3, <2>2, <2>3, <2>4 DEF SerialInv
  <1> QED
    BY <1>2, <1>3

\* A crypto cycle starts with an empty cache while its worker is not arming, and what it
\* caches afterwards it computes from a file that only it and the bot write.
LEMMA TradeStepSerial ==
    ASSUME SerialInv, ~Overlap, TradeStep, beside' = (beside /\ trade' # "rest")
    PROVE  SerialInv'
  <1>1. arm' = arm /\ up' = up
    BY DEF TradeStep, TradeStart, TradeReset, TradeResetWrite, TradeCheck,
           TradeTrip, TradeTripWrite, TradeOrder, TradeEnd
  <1>2. trade = "rest" => RiskIsIdle
    BY DEF TradeStep, TradeStart, TradeReset, TradeResetWrite, TradeCheck,
           TradeTrip, TradeTripWrite, TradeOrder, TradeEnd, TurnOfTrade
  <1>3. RiskIsIdle'
    BY <1>1, <1>2 DEF SerialInv, RiskIsIdle
  <1>4. up'
    BY <1>1 DEF TradeStep, TradeStart, TradeReset, TradeResetWrite, TradeCheck,
                TradeTrip, TradeTripWrite, TradeOrder, TradeEnd
  <1>5. trade' # "rest" /\ health' = "green" /\ ~beside'
           => trade' = "entry" /\ crypto' = "off"
    <2>1. CASE TradeStart
      BY <2>1 DEF TradeStart
    <2>2. CASE TradeOrder
      BY <2>2 DEF TradeOrder, BookHealth, CryptoHealth, SerialInv
    <2>3. CASE TradeReset \/ TradeResetWrite \/ TradeCheck \/ TradeTrip
                \/ TradeTripWrite \/ TradeEnd
      BY <2>3 DEF TradeReset, TradeResetWrite, TradeCheck, TradeTrip,
                  TradeTripWrite, TradeEnd, SerialInv
    <2> QED
      BY <2>1, <2>2, <2>3 DEF TradeStep
  <1>6. beside' => trade' # "rest" /\ "bot" \in Armers
    BY DEF SerialInv
  <1> QED
    BY <1>3, <1>4, <1>5, <1>6 DEF SerialInv

LEMMA StepSerial ==
    ASSUME ~Overlap, StateTyped, SerialInv, [Next]_vars
    PROVE  SerialInv'
  <1>1. CASE \E a \in Armers :
                ArmStep(a) /\ beside' = (beside \/ (a = "bot" /\ trade # "rest"))
    BY <1>1, ArmStepSerial
  <1>2. CASE UNCHANGED vars
    BY <1>2 DEF vars, switches, SerialInv, RiskIsIdle
  <1>3. CASE OtherStep /\ beside' = (beside /\ trade' # "rest")
    <2>1. CASE RiskStart \/ RiskClose
      <3>1. trade = "rest" /\ trade' = "rest"
        BY <2>1 DEF RiskStart, RiskClose, TurnOfRisk, SerialInv, RiskIsIdle
      <3> QED
        BY <1>3, <3>1 DEF SerialInv
    <2>2. CASE BotStart
      <3>1. UNCHANGED <<trade, health, crypto, up>> /\ (RiskIsIdle => RiskIsIdle')
        BY <2>2 DEF BotStart, RiskIsIdle
      <3> QED
        BY <1>3, <3>1 DEF SerialInv
    <2>3. CASE Deactivate \/ OpenOff \/ WriteOff \/ FuturesOrder \/ Market \/ Passes \/ Boot
      <3>1. UNCHANGED <<trade, crypto, arm>> /\ (up => up')
            /\ (health' = health \/ health' = "none")
        BY <2>3 DEF Deactivate, OpenOff, WriteOff, FuturesOrder, Market, Passes, Boot
      <3> QED
        BY <1>3, <3>1 DEF SerialInv, RiskIsIdle
    <2>4. CASE TradeStep
      BY <1>3, <2>4, TradeStepSerial
    <2>5. CASE Crash
      BY <1>3, <2>5 DEF Crash, SerialInv
    <2> QED
      BY <1>3, <2>1, <2>2, <2>3, <2>4, <2>5 DEF OtherStep
  <1> QED
    BY <1>1, <1>2, <1>3 DEF Next

\* Only the order of a crypto cycle opens a crypto position, and the guard lets
\* it through on an answer that is true of the file.
LEMMA EntryIsGuarded ==
    ASSUME SerialInv, [Next]_vars, CryptoEntry
    PROVE  crypto = "off" \/ beside
  <1>1. CASE TradeOrder
    BY <1>1 DEF TradeOrder, BookHealth, CryptoHealth, CryptoEntry, SerialInv
  <1>2. ASSUME ~TradeOrder PROVE open' \subseteq open \cup {"futures"}
    <2>1. CASE RiskStart \/ RiskClose \/ BotStart
      BY <2>1 DEF RiskStart, RiskClose, BotStart
    <2>2. CASE \E a \in Armers : ArmStep(a)
      BY <2>2 DEF ArmStep, Load, OpenLive, WriteLive, OpenCrypto, WriteCrypto
    <2>3. CASE Deactivate \/ OpenOff \/ WriteOff
      BY <2>3 DEF Deactivate, OpenOff, WriteOff
    <2>4. CASE TradeStep
      BY <1>2, <2>4 DEF TradeStep, TradeStart, TradeReset, TradeResetWrite,
         TradeCheck, TradeTrip, TradeTripWrite, TradeEnd
    <2>5. CASE FuturesOrder \/ Passes \/ Market \/ Crash \/ Boot
      BY <2>5 DEF FuturesOrder, Passes, Market, Crash, Boot
    <2>6. CASE UNCHANGED vars
      BY <2>6 DEF vars, switches
    <2> QED
      BY <2>1, <2>2, <2>3, <2>4, <2>5, <2>6 DEF Next, OtherStep
  <1> QED
    BY <1>1, <1>2 DEF CryptoEntry

\* In a worker that runs one cycle at a time (main loop of worker.py) its own arming is never
\* under way while the crypto cycle is, and what the guard finds in its cache still
\* describes the file of the crypto switch, unless the bot has armed beside the cycle.
THEOREM SerialHolds ==
    ASSUME ~Overlap
    PROVE  Spec => []SerialInv
  <1>1. Init => SerialInv
    BY InitSerial
  <1>2. TypeOK /\ SerialInv /\ [Next]_vars => SerialInv'
    BY StepSerial DEF TypeOK
  <1> QED
    BY <1>1, <1>2, SwitchesTyped, PTL DEF Spec

\* Such a worker opens a crypto position (pre_order_guard) only while the crypto switch can
\* be read and is off, or in a cycle beside which the bot has armed -- through crashes,
\* torn files, failing saves and the cache of the guard.
THEOREM SerialEntryNeedsOffOrBot ==
    ASSUME ~Overlap
    PROVE  Spec => EntryNeedsOffOrBot
  <1>1. SerialInv /\ [Next]_vars => [CryptoEntry => crypto = "off" \/ beside]_vars
    BY EntryIsGuarded
  <1> QED
    BY <1>1, SerialHolds, PTL DEF Spec, EntryNeedsOffOrBot

\* Without a bot that arms, it opens one only while the switch can be read and is off.
THEOREM SerialEntryNeedsOff ==
    ASSUME ~Overlap, "bot" \notin Armers
    PROVE  Spec => CryptoEntryNeedsOff
  <1>1. SerialInv /\ [Next]_vars => [CryptoEntry => crypto = "off"]_vars
    BY EntryIsGuarded DEF SerialInv
  <1> QED
    BY <1>1, SerialHolds, PTL DEF Spec, CryptoEntryNeedsOff

-----------------------------------------------------------------------------
(* The lifting of an arming.                                               *)

\* From the test to the reset the switch stays armed, and for a cause.
CauseStands ==
    trade = "reset" /\ ~beside => crypto \in {"own", "derived"} /\ Liftable

LiftInv == SerialInv /\ CauseStands

\* Beside the crypto cycle only the bot arms, which the history records.
LEMMA ArmingKeepsCause ==
    ASSUME SerialInv, CauseStands, NEW a \in Armers, ArmStep(a),
           beside' = (beside \/ (a = "bot" /\ trade # "rest"))
    PROVE  CauseStands'
  <1>1. trade' = trade
    BY DEF ArmStep, Load, OpenLive, WriteLive, OpenCrypto, WriteCrypto
  <1>2. CASE trade = "rest"
    BY <1>1, <1>2 DEF CauseStands
  <1>3. CASE trade # "rest"
    <2>1. a # "risk"
      BY <1>3 DEF SerialInv, RiskIsIdle, ArmStep, Load, OpenLive, WriteLive, OpenCrypto,
         WriteCrypto
    <2>2. beside'
      BY <1>3, <2>1, ArmersAssumption
    <2> QED
      BY <2>2 DEF CauseStands
  <1> QED
    BY <1>2, <1>3

LEMMA StepKeepsCause ==
    ASSUME LiftInv, [Next]_vars
    PROVE  CauseStands'
  <1> USE DEF LiftInv, Liftable
  <1>1. CASE \E a \in Armers :
                ArmStep(a) /\ beside' = (beside \/ (a = "bot" /\ trade # "rest"))
    BY <1>1, ArmingKeepsCause
  <1>2. CASE UNCHANGED vars
    BY <1>2 DEF vars, switches, CauseStands
  <1>3. CASE OtherStep /\ beside' = (beside /\ trade' # "rest")
    <2>1. CASE Deactivate \/ OpenOff \/ WriteOff
      <3>1. UNCHANGED <<trade, crypto, aged>> /\ (live # "on" => live' # "on")
        BY <2>1 DEF Deactivate, OpenOff, WriteOff
      <3> QED
        BY <1>3, <3>1 DEF CauseStands
    <2>2. CASE TradeStart
      BY <1>3, <2>2 DEF TradeStart, CauseStands
    <2>3. CASE TradeStep /\ ~TradeStart
      <3>1. trade' # "reset"
        BY <2>3 DEF TradeStep, TradeReset, TradeResetWrite, TradeCheck, TradeTrip,
           TradeTripWrite, TradeOrder, TradeEnd
      <3> QED
        BY <3>1 DEF CauseStands
    <2>4. CASE Passes
      <3>1. UNCHANGED <<trade, crypto, live>> /\ (aged' = aged \/ aged' = TRUE)
        BY <2>4 DEF Passes
      <3> QED
        BY <1>3, <3>1 DEF CauseStands
    <2>5. CASE RiskStart \/ RiskClose \/ BotStart \/ FuturesOrder \/ Market \/ Boot
      <3>1. UNCHANGED <<trade, crypto, live, aged>>
        BY <2>5 DEF RiskStart, RiskClose, BotStart, FuturesOrder, Market, Boot
      <3> QED
        BY <1>3, <3>1 DEF CauseStands
    <2>6. CASE Crash
      BY <2>6 DEF Crash, CauseStands
    <2> QED
      BY <1>3, <2>1, <2>2, <2>3, <2>4, <2>5, <2>6 DEF OtherStep
  <1> QED
    BY <1>1, <1>2, <1>3 DEF Next

\* In such a worker the crypto cycle lifts an arming only while the cause stands for which
\* it decided to (the live switch is off, or the arming more than a day old), or the bot
\* has armed beside this very cycle.
THEOREM SerialLiftedForCause ==
    ASSUME ~Overlap
    PROVE  Spec => LiftedForCause
  <1>1. Init => CauseStands
    BY DEF Init, CauseStands
  <1>2. LiftInv /\ [Next]_vars => CauseStands'
    BY StepKeepsCause
  <1>3. LiftInv /\ [Next]_vars
           => [trade = "reset" /\ trade' = "resetWrite" => Liftable \/ beside]_vars
    BY DEF LiftInv, CauseStands
  <1> QED
    BY <1>1, <1>2, <1>3, SerialHolds, PTL DEF Spec, LiftInv, LiftedForCause

=============================================================================
