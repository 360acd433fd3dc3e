-------------------------- MODULE LiveMicroProofs --------------------------
(***************************************************************************)
(* Proofs about the live micro sleeve, for any number of coins and either  *)
(* answer of the broker.                                                   *)
(***************************************************************************)
EXTENDS LiveMicro, TLAPS

\* A sale is under way only with its record still in the file, and is known to be made
\* only until the file is written.
SalesRecorded ==
    /\ cycle.pc \in {"sells", "flags"} => book.kept = "one"
    /\ cycle.sold = TRUE => cycle.pc \in {"flags", "saves"}
    /\ cycle.pc = "flags" => cycle.sold = TRUE
    /\ cycle.pc = "buys" => book.kept # "one"

\* The flag is there, or about to be, and no entry that has looked at it goes on.
KilledIsFlagged ==
    \/ slipped = TRUE
    \/ /\ killed = TRUE => flag = TRUE \/ cycle.pc = "flags"
       /\ cycle.pc = "buys" => killed = FALSE

\* OneAndRecorded, case by case.
HeldAsRecorded ==
    \/ slipped = TRUE
    \/ /\ cycle.pc = "records" => held = 1
       /\ cycle.pc # "records" /\ book.kept = "one" /\ cycle.sold = FALSE => held = 1
       /\ cycle.pc # "records" /\ (book.kept # "one" \/ cycle.sold = TRUE) => held = 0

MicroInv == TypeOK /\ SalesRecorded /\ HeldAsRecorded /\ KilledIsFlagged

\* The call of a signal has its line in the journal, and a purchase is its last step but
\* the record.
DayInv ==
    /\ cycle.pc = "rest" => cycle.signal # "BUY"
    /\ cycle.pc = "buys" => cycle.signal = "BUY"
    /\ glued = FALSE /\ cycle.signal = "BUY" => journal = "written"
    /\ glued = FALSE /\ bought = TRUE =>
          journal = "written" /\ (cycle.signal = "BUY" => cycle.pc = "records")

LEMMA SameRecorded ==
    ASSUME TypeOK, HeldAsRecorded
    PROVE  OneAndRecorded
<1>1. CASE slipped BY <1>1 DEF OneAndRecorded
<1>2. CASE ~slipped
      <2>1. cycle.sold \in BOOLEAN BY DEF TypeOK, Cycles
      <2>2. CASE cycle.pc = "records" BY <1>2, <2>2 DEF HeldAsRecorded, OneAndRecorded, At
      <2>3. CASE cycle.pc # "records" /\ book.kept = "one" /\ cycle.sold = FALSE
            BY <1>2, <2>3 DEF HeldAsRecorded, OneAndRecorded, At
      <2>4. CASE cycle.pc # "records" /\ (book.kept # "one" \/ cycle.sold = TRUE)
            BY <1>2, <2>4 DEF HeldAsRecorded, OneAndRecorded, At
      <2> QED BY <2>1, <2>2, <2>3, <2>4
<1> QED BY <1>1, <1>2

-----------------------------------------------------------------------------
LEMMA MicroInit == Init => MicroInv
<1> SUFFICES ASSUME Init PROVE MicroInv OBVIOUS
<1> USE MicroAssumption DEF Init, AtRest, NoBook, At
<1>1. TypeOK
      <2>1. held \in 0..MaxCoins OBVIOUS
      <2>2. book \in Books BY DEF Books
      <2>3. cycle \in Cycles BY DEF Cycles
      <2>4. /\ fee \in BOOLEAN /\ others \in BOOLEAN /\ flag \in BOOLEAN
            /\ journal \in {"blank", "cut", "written"}
            /\ killed \in BOOLEAN /\ slipped \in BOOLEAN
            /\ bought \in BOOLEAN /\ glued \in BOOLEAN
            OBVIOUS
      <2> QED BY <2>1, <2>2, <2>3, <2>4 DEF TypeOK
<1>2. SalesRecorded BY DEF SalesRecorded
<1>3. HeldAsRecorded BY DEF HeldAsRecorded
<1>4. KilledIsFlagged BY DEF KilledIsFlagged
<1> QED BY <1>1, <1>2, <1>3, <1>4 DEF MicroInv

\* The calls of the cycle, and what happens before the first order.
LEMMA CallsStep ==
    ASSUME MicroInv,
           \/ \E signal \in {"BUY", "NONE"} : PassWithSignal(signal)
           \/ JournalFails \/ PassWithoutDay \/ NoBroker \/ NothingToExit
           \/ \E loss, due \in BOOLEAN : Exits(loss, due)
    PROVE  MicroInv'
<1> USE MicroAssumption
        DEF MicroInv, TypeOK, SalesRecorded, HeldAsRecorded, KilledIsFlagged, AtRest,
            Called, Books, Cycles, At, Go, account, today
<1>1. ASSUME NEW signal \in {"BUY", "NONE"}, PassWithSignal(signal) PROVE MicroInv'
      <2>1. journal' \in {"blank", "cut", "written"} /\ glued' \in BOOLEAN
            BY <1>1 DEF PassWithSignal, Appended
      <2>2. /\ UNCHANGED <<held, fee, others, book, flag, killed, slipped, bought>>
            /\ cycle.pc = "rest"
            BY <1>1 DEF PassWithSignal
      <2>3. CASE UNCHANGED cycle BY <2>1, <2>2, <2>3
      <2>4. CASE cycle' = Called(signal) BY <2>1, <2>2, <2>4
      <2> QED BY <1>1, <2>3, <2>4 DEF PassWithSignal
<1>2. CASE JournalFails BY <1>2 DEF JournalFails
<1>3. CASE PassWithoutDay BY <1>3 DEF PassWithoutDay
<1>4. CASE NoBroker BY <1>4 DEF NoBroker
<1>5. CASE NothingToExit BY <1>5 DEF NothingToExit
<1>6. ASSUME NEW loss \in BOOLEAN, NEW due \in BOOLEAN, Exits(loss, due) PROVE MicroInv'
      BY <1>6 DEF Exits
<1> QED BY <1>1, <1>2, <1>3, <1>4, <1>5, <1>6

\* A sale takes the sleeve's own coin while there is one.
LEMMA CoinStep ==
    ASSUME TypeOK, TakesCoin
    PROVE  /\ held' \in 0..MaxCoins /\ fee' \in BOOLEAN /\ others' \in BOOLEAN
           /\ held = 1 => held' = 0 /\ UNCHANGED others
<1>1. CASE held # 0
      <2>1. held' = held - 1 /\ fee' \in BOOLEAN /\ UNCHANGED others
            BY <1>1 DEF TakesCoin
      <2>2. held \in 1..MaxCoins BY <1>1, MicroAssumption DEF TypeOK
      <2>3. held' \in 0..MaxCoins BY <2>1, <2>2, MicroAssumption
      <2> QED BY <2>1, <2>3 DEF TypeOK
<1>2. CASE held = 0
      <2>1. others' = FALSE /\ held' = held /\ fee' = fee BY <1>2 DEF TakesCoin
      <2>2. held' \in 0..MaxCoins BY <2>1 DEF TypeOK
      <2>3. fee' \in BOOLEAN BY <2>1 DEF TypeOK
      <2>4. others' \in BOOLEAN BY <2>1
      <2> QED BY <1>2, <2>2, <2>3, <2>4
<1> QED BY <1>1, <1>2

\* After an error of the sale the cycle goes on to the file, or is over.
LEMMA ErrsEnd ==
    ASSUME TypeOK, Errs
    PROVE  /\ cycle' \in Cycles
           /\ \/ cycle' = AtRest
              \/ /\ cycle'.pc = "saves" /\ cycle'.signal = cycle.signal
                 /\ cycle'.loss = cycle.loss /\ cycle'.sold = cycle.sold
<1>1. CASE Go("saves") BY <1>1 DEF TypeOK, Cycles, Go
<1>2. CASE cycle' = AtRest BY <1>2 DEF AtRest, Cycles
<1> QED BY <1>1, <1>2 DEF Errs

\* The sale.
LEMMA SaleKeepsInv ==
    ASSUME MicroInv, Sells \/ SellRaises
    PROVE  MicroInv'
<1> USE MicroAssumption
        DEF MicroInv, TypeOK, SalesRecorded, HeldAsRecorded, KilledIsFlagged, AtRest,
            Books, Cycles, At, Go, NoBook, account, today
<1>1. CASE Sells
      <2>1. /\ killed' \in BOOLEAN
            /\ killed' = TRUE => killed = TRUE \/ cycle.loss = TRUE
            /\ cycle.pc = "sells" /\ UNCHANGED <<book, flag, journal, bought, glued>>
            BY <1>1 DEF Sells
      <2> DEFINE sold == [pc |-> IF cycle.loss THEN "flags" ELSE "saves",
                          signal |-> cycle.signal, loss |-> cycle.loss, sold |-> TRUE]
      <2>2. CASE cycle' = sold /\ TakesCoin /\ UNCHANGED slipped
            <3>1. /\ held' \in 0..MaxCoins /\ fee' \in BOOLEAN /\ others' \in BOOLEAN
                  /\ held = 1 => held' = 0
                  BY <2>2, CoinStep
            <3> QED BY <2>1, <2>2, <3>1
      <2>3. CASE cycle' = sold /\ UNCHANGED account /\ slipped' = TRUE
            BY <2>1, <2>3
      <2>4. CASE TakesCoin /\ Errs /\ slipped' = TRUE
            <3>1. held' \in 0..MaxCoins /\ fee' \in BOOLEAN /\ others' \in BOOLEAN
                  BY <2>4, CoinStep
            <3> QED BY <2>1, <2>4, <3>1, ErrsEnd
      <2> QED BY <1>1, <2>2, <2>3, <2>4 DEF Sells
<1>2. CASE SellRaises
      <2>1. cycle.pc = "sells" /\ Errs /\ UNCHANGED <<book, flag, killed, journal, bought, glued>>
            BY <1>2 DEF SellRaises
      <2>2. CASE UNCHANGED <<account, slipped>> BY <2>1, <2>2, ErrsEnd
      <2>3. CASE slipped' = TRUE /\ (TakesCoin \/ UNCHANGED account)
            <3>1. held' \in 0..MaxCoins /\ fee' \in BOOLEAN /\ others' \in BOOLEAN
                  BY <2>3, CoinStep
            <3> QED BY <2>1, <2>3, <3>1, ErrsEnd
      <2> QED BY <1>2, <2>2, <2>3 DEF SellRaises
<1> QED BY <1>1, <1>2

\* The flag and the file.
LEMMA ExitsStep ==
    ASSUME MicroInv, Flags \/ Saves \/ SaveRaises
    PROVE  MicroInv'
<1> USE MicroAssumption
        DEF MicroInv, TypeOK, SalesRecorded, HeldAsRecorded, KilledIsFlagged, AtRest,
            Books, Cycles, At, Go, NoBook, account, today
<1>1. CASE Flags
      <2>1. cycle.pc = "flags" /\ UNCHANGED <<account, book, killed, today>> BY <1>1 DEF Flags
      <2>2. CASE flag' = TRUE /\ Go("saves") /\ UNCHANGED slipped BY <2>1, <2>2
      <2>3. CASE /\ flag' \in {flag, TRUE} /\ Errs
                 /\ slipped' = (slipped \/ ~flag' \/ cycle' = AtRest)
            <3>1. flag' \in BOOLEAN /\ slipped' \in BOOLEAN BY <2>3
            <3>2. CASE slipped' = TRUE BY <2>1, <2>3, <3>1, <3>2, ErrsEnd
            <3>3. CASE slipped' = FALSE
                  <4>1. flag' = TRUE /\ slipped = FALSE /\ Go("saves")
                        BY <2>3, <3>1, <3>3 DEF Errs
                  <4> QED BY <2>1, <3>1, <4>1
            <3> QED BY <3>1, <3>2, <3>3
      <2> QED BY <1>1, <2>2, <2>3 DEF Flags
<1>2. CASE Saves
      <2>1. CASE cycle.sold = TRUE BY <1>2, <2>1 DEF Saves, Remaining
      <2>2. CASE cycle.sold = FALSE BY <1>2, <2>2 DEF Saves, Remaining
      <2> QED BY <2>1, <2>2
<1>3. CASE SaveRaises BY <1>3 DEF SaveRaises, Spoils
<1> QED BY <1>1, <1>2, <1>3

\* The entry.
LEMMA EntryStep ==
    ASSUME MicroInv,
           \/ Entry \/ NoEntry \/ (\E answer \in Answers : Buys(answer)) \/ BuyRaises
           \/ Records
    PROVE  MicroInv'
<1> USE MicroAssumption
        DEF MicroInv, TypeOK, SalesRecorded, HeldAsRecorded, KilledIsFlagged, AtRest,
            Books, Cycles, At, Go, account, today
<1>1. CASE Entry BY <1>1 DEF Entry, MayBuy
<1>2. CASE NoEntry BY <1>2 DEF NoEntry
<1>3. ASSUME NEW answer \in Answers, Buys(answer) PROVE MicroInv'
      <2>1. /\ held' = held + 1 /\ held' \in 0..MaxCoins
            /\ fee' \in BOOLEAN /\ bought' \in BOOLEAN /\ UNCHANGED others
            /\ cycle.pc = "buys" /\ UNCHANGED <<book, flag, killed, journal, glued>>
            BY <1>3 DEF Buys, TakesOne
      <2>2. CASE Go("records") /\ UNCHANGED slipped BY <2>1, <2>2
      <2>3. CASE cycle' = AtRest /\ slipped' = TRUE BY <2>1, <2>3
      <2> QED BY <1>3, <2>2, <2>3 DEF Buys
<1>4. CASE BuyRaises
      <2>1. CASE UNCHANGED <<account, slipped, bought>> BY <1>4, <2>1 DEF BuyRaises
      <2>2. CASE TakesOne /\ slipped' = TRUE BY <1>4, <2>2 DEF BuyRaises, TakesOne
      <2> QED BY <1>4, <2>1, <2>2 DEF BuyRaises
<1>5. CASE Records
      <2>1. CASE book' = NewBook /\ UNCHANGED slipped
            BY <1>5, <2>1 DEF Records, NewBook
      <2>2. CASE Spoils /\ slipped' = TRUE BY <1>5, <2>2 DEF Records, Spoils
      <2> QED BY <1>5, <2>1, <2>2 DEF Records
<1> QED BY <1>1, <1>2, <1>3, <1>4, <1>5

\* The clock, the operator, the others, and the end of the process.
LEMMA OthersStep ==
    ASSUME MicroInv,
           NextDay \/ OperatorClears \/ OthersBuy \/ OthersClose \/ Crash \/ UNCHANGED vars
    PROVE  MicroInv'
<1> USE MicroAssumption
        DEF MicroInv, TypeOK, SalesRecorded, HeldAsRecorded, KilledIsFlagged, AtRest,
            Books, Cycles, At, account, today
<1>1. CASE NextDay
      <2>1. book' \in Books /\ book'.kept = book.kept BY <1>1 DEF NextDay, Older
      <2>2. /\ journal' \in {"blank", "cut", "written"}
            /\ bought' \in BOOLEAN /\ glued' \in BOOLEAN
            BY <1>1 DEF NextDay
      <2>3. UNCHANGED <<account, flag, cycle, killed, slipped>> BY <1>1 DEF NextDay
      <2> QED BY <2>1, <2>2, <2>3
<1>2. CASE OperatorClears
      <2>1. flag' \in BOOLEAN /\ killed' \in BOOLEAN /\ killed' = FALSE
            BY <1>2 DEF OperatorClears
      <2>2. UNCHANGED <<account, book, cycle, slipped, today>>
            BY <1>2 DEF OperatorClears
      <2> QED BY <2>1, <2>2
<1>3. CASE OthersBuy BY <1>3 DEF OthersBuy
<1>4. CASE OthersClose
      <2>1. held' \in 0..MaxCoins BY <1>4 DEF OthersClose
      <2>2. fee' \in BOOLEAN /\ others' \in BOOLEAN /\ slipped' \in BOOLEAN
            BY <1>4 DEF OthersClose
      <2>3. UNCHANGED <<book, flag, cycle, killed, today>> BY <1>4 DEF OthersClose
      <2>4. CASE held > 0
            <3>1. slipped' = TRUE BY <1>4, <2>4 DEF OthersClose
            <3> QED BY <2>1, <2>2, <2>3, <3>1
      <2>5. CASE held = 0
            <3>1. held' = held /\ slipped' = slipped BY <1>4, <2>5 DEF OthersClose
            <3> QED BY <2>1, <2>2, <2>3, <3>1
      <2>6. held > 0 \/ held = 0 OBVIOUS
      <2> HIDE DEF MicroInv
      <2> QED BY <2>4, <2>5, <2>6
<1>5. CASE Crash
      <2>1. /\ slipped' \in BOOLEAN /\ (slipped = TRUE => slipped' = TRUE)
            /\ (cycle.sold = TRUE => slipped' = TRUE)
            /\ (cycle.pc = "records" => slipped' = TRUE)
            /\ (book' # book => slipped' = TRUE)
            BY <1>5 DEF Crash
      <2>2. /\ flag' \in BOOLEAN /\ (flag = TRUE => flag' = TRUE)
            /\ book' \in Books /\ cycle' = AtRest
            /\ UNCHANGED <<held, fee, others, killed, journal, bought, glued>>
            BY <1>5 DEF Crash
      <2>3. CASE slipped' = TRUE BY <2>1, <2>2, <2>3
      <2>4. CASE slipped' = FALSE
            <3>1. cycle.sold = FALSE /\ cycle.pc # "records" /\ book' = book /\ slipped = FALSE
                  BY <2>1, <2>4
            <3> QED BY <2>1, <2>2, <2>4, <3>1
      <2> QED BY <2>1, <2>3, <2>4
<1>6. CASE UNCHANGED vars BY <1>6 DEF vars
<1> QED BY <1>1, <1>2, <1>3, <1>4, <1>5, <1>6

LEMMA MicroStep == ASSUME MicroInv, [Next]_vars PROVE MicroInv'
BY CallsStep, SaleKeepsInv, ExitsStep, EntryStep, OthersStep DEF Next, Step

\* Every reachable state of the sleeve, its files and its cycle is typed.
THEOREM MicroTyped == Spec => []TypeOK
<1>1. Init => MicroInv BY MicroInit
<1>2. MicroInv /\ [Next]_vars => MicroInv' BY MicroStep
<1>3. MicroInv => TypeOK BY DEF MicroInv
<1> QED BY <1>1, <1>2, <1>3, PTL DEF Spec

\* For any number of coins and whichever answers, the sleeve holds what positions.json
\* says, and at most one coin, until a purchase whose fill is not found, a sale that fills
\* nothing or a part, or an answer, a write, the process or a coin that is lost
\* (run_exit_if_needed, run_entry_if_needed).
THEOREM MicroOneAndRecorded == Spec => []OneAndRecorded
<1>1. Init => MicroInv BY MicroInit
<1>2. MicroInv /\ [Next]_vars => MicroInv' BY MicroStep
<1>3. MicroInv => OneAndRecorded BY SameRecorded DEF MicroInv
<1> QED BY <1>1, <1>2, <1>3, PTL DEF Spec

LEMMA SaleStep ==
    ASSUME MicroInv, [Next]_vars, others' # others, cycle' # cycle
    PROVE  slipped'
<1> USE MicroAssumption DEF MicroInv, TypeOK, SalesRecorded, HeldAsRecorded, At, account
<1>1. Sells \/ SellRaises
      BY DEF Next, Step, vars, PassWithSignal, JournalFails, PassWithoutDay, NoBroker,
             NothingToExit, Exits, Flags, Saves, SaveRaises, Entry, NoEntry, Buys, BuyRaises,
             TakesOne, Records, NextDay, OperatorClears, OthersBuy, OthersClose, Crash
<1>2. CASE Sells
      <2>1. cycle.pc = "sells" BY <1>2 DEF Sells
      <2>2. slipped = TRUE \/ held = 1
            <3>1. cycle.sold \in BOOLEAN BY DEF Cycles
            <3> QED BY <2>1, <3>1
      <2>3. CASE TakesCoin /\ UNCHANGED slipped BY <2>2, <2>3, CoinStep
      <2>4. CASE slipped' = TRUE BY <2>4
      <2> QED BY <1>2, <2>3, <2>4 DEF Sells
<1>3. CASE SellRaises BY <1>3 DEF SellRaises
<1> QED BY <1>1, <1>2, <1>3

\* No sale of the sleeve takes a coin of another strategy before anything has slipped,
\* although it sells what the purchase executed before its fee.
THEOREM MicroSellsItsOwn == Spec => SellsItsOwn
<1>1. Init => MicroInv BY MicroInit
<1>2. MicroInv /\ [Next]_vars => MicroInv' BY MicroStep
<1>3. MicroInv /\ [Next]_vars => [others' # others /\ cycle' # cycle => slipped']_vars
      BY SaleStep
<1> QED BY <1>1, <1>2, <1>3, PTL DEF Spec, SellsItsOwn

LEMMA OnlyBuysBuy ==
    ASSUME TypeOK, [Next]_vars, held' > held
    PROVE  cycle.pc = "buys"
<1> USE MicroAssumption DEF TypeOK, At, account
<1>1. CASE Sells \/ SellRaises
      <2>1. TakesCoin \/ UNCHANGED account BY <1>1 DEF Sells, SellRaises
      <2>2. CASE TakesCoin /\ held = 0 BY <2>2 DEF TakesCoin
      <2>3. CASE TakesCoin /\ held # 0 BY <2>3 DEF TakesCoin
      <2>4. CASE UNCHANGED account BY <2>4
      <2> QED BY <2>1, <2>2, <2>3, <2>4
<1>2. CASE OthersClose BY <1>2 DEF OthersClose
<1>3. CASE (\E answer \in Answers : Buys(answer)) \/ BuyRaises
      BY <1>3 DEF Buys, BuyRaises
<1>4. CASE ~(Sells \/ SellRaises \/ OthersClose \/ (\E answer \in Answers : Buys(answer))
              \/ BuyRaises)
      <2>1. held' = held
            BY <1>4 DEF Next, Step, vars, PassWithSignal, JournalFails, PassWithoutDay,
               NoBroker, NothingToExit, Exits, Flags, Saves, SaveRaises, Entry, NoEntry,
               Records, NextDay, OperatorClears, OthersBuy, Crash
      <2> QED BY <2>1
<1> QED BY <1>1, <1>2, <1>3, <1>4

LEMMA BuyStep ==
    ASSUME MicroInv, [Next]_vars, held' > held
    PROVE  ~killed \/ slipped
<1>1. cycle.pc = "buys" BY OnlyBuysBuy DEF MicroInv
<1> USE DEF MicroInv, TypeOK, KilledIsFlagged
<1> QED BY <1>1

\* After a sale at the loss limit the sleeve buys no more until the operator clears it.
THEOREM MicroKillEndsSleeve == Spec => KillEndsSleeve
<1>1. Init => MicroInv BY MicroInit
<1>2. MicroInv /\ [Next]_vars => MicroInv' BY MicroStep
<1>3. MicroInv /\ [Next]_vars => [held' > held => ~killed \/ slipped]_vars
      BY BuyStep
<1> QED BY <1>1, <1>2, <1>3, PTL DEF Spec, KillEndsSleeve

-----------------------------------------------------------------------------
(* The day.                                                                *)

LEMMA DayStep == ASSUME TypeOK, DayInv, [Next]_vars PROVE DayInv'
<1> USE DEF TypeOK, DayInv, AtRest, Called, At, Go, account, today
<1>1. ASSUME NEW signal \in {"BUY", "NONE"}, PassWithSignal(signal) PROVE DayInv'
      <2>1. /\ journal # "written" /\ cycle.pc = "rest" /\ bought' = bought
            /\ glued' = FALSE => glued = FALSE /\ journal' = "written"
            BY <1>1 DEF PassWithSignal, Appended
      <2>2. glued' \in BOOLEAN BY <1>1 DEF PassWithSignal
      <2>3. CASE UNCHANGED cycle BY <2>1, <2>2, <2>3
      <2>4. CASE cycle' = Called(signal) BY <2>1, <2>2, <2>4
      <2> QED BY <1>1, <2>3, <2>4 DEF PassWithSignal
<1>2. CASE JournalFails BY <1>2 DEF JournalFails
<1>3. CASE PassWithoutDay BY <1>3 DEF PassWithoutDay
<1>4. CASE NoBroker \/ NothingToExit BY <1>4 DEF NoBroker, NothingToExit, Cycles
<1>5. ASSUME NEW loss \in BOOLEAN, NEW due \in BOOLEAN, Exits(loss, due) PROVE DayInv'
      BY <1>5 DEF Exits
<1>6. CASE Sells \/ SellRaises \/ Flags
      <2>1. /\ cycle.pc \in {"sells", "flags"} /\ UNCHANGED today
            /\ \/ cycle' = AtRest
               \/ cycle'.signal = cycle.signal /\ cycle'.pc \in {"flags", "saves"}
            <3>1. cycle.pc \in {"sells", "flags"} /\ UNCHANGED today
                  BY <1>6 DEF Sells, SellRaises, Flags
            <3>2. \/ Errs \/ Go("saves")
                  \/ cycle' = [pc |-> IF cycle.loss THEN "flags" ELSE "saves",
                               signal |-> cycle.signal, loss |-> cycle.loss, sold |-> TRUE]
                  BY <1>6 DEF Sells, SellRaises, Flags
            <3>3. CASE Errs \/ Go("saves") BY <3>1, <3>3, ErrsEnd DEF Errs
            <3>4. CASE cycle' = [pc |-> IF cycle.loss THEN "flags" ELSE "saves",
                                 signal |-> cycle.signal, loss |-> cycle.loss, sold |-> TRUE]
                  BY <3>1, <3>4
            <3> QED BY <3>2, <3>3, <3>4
      <2> QED BY <2>1
<1>7. CASE Saves \/ SaveRaises BY <1>7 DEF Saves, SaveRaises
<1>8. CASE Entry \/ NoEntry BY <1>8 DEF Entry, NoEntry, MayBuy, Cycles
<1>9. ASSUME NEW answer \in Answers, Buys(answer) PROVE DayInv'
      <2>1. /\ cycle.pc = "buys" /\ UNCHANGED <<journal, glued>>
            /\ cycle' = AtRest \/ (cycle'.pc = "records" /\ cycle'.signal = cycle.signal)
            BY <1>9 DEF Buys, Cycles
      <2> QED BY <2>1
<1>10. CASE BuyRaises BY <1>10 DEF BuyRaises
<1>11. CASE Records BY <1>11 DEF Records
<1>12. CASE NextDay BY <1>12 DEF NextDay
<1>13. CASE OperatorClears \/ OthersBuy \/ OthersClose
       BY <1>13 DEF OperatorClears, OthersBuy, OthersClose
<1>14. CASE Crash BY <1>14 DEF Crash
<1>15. CASE UNCHANGED vars BY <1>15 DEF vars
<1> QED BY <1>1, <1>2, <1>3, <1>4, <1>5, <1>6, <1>7, <1>8, <1>9, <1>10, <1>11, <1>12, <1>13,
           <1>14, <1>15 DEF Next, Step

\* Whatever is lost, slipped or not recorded, the sleeve buys at most once a day, but on
\* a day whose journal line was glued to one cut off (run_btc_asia_mes_leadlag_paper_cycle).
THEOREM MicroOneBuyADay == Spec => OneBuyADay
<1>1. Init => MicroInv /\ DayInv BY MicroInit DEF Init, AtRest, DayInv
<1>2. MicroInv /\ DayInv /\ [Next]_vars => (MicroInv /\ DayInv)'
      BY MicroStep, DayStep DEF MicroInv
<1>3. MicroInv /\ DayInv /\ [Next]_vars => [held' > held => ~bought \/ glued]_vars
      <2> SUFFICES ASSUME MicroInv, DayInv, [Next]_vars, held' > held, bought = TRUE
                   PROVE  glued
          BY DEF MicroInv, TypeOK
      <2>1. cycle.pc = "buys" BY OnlyBuysBuy DEF MicroInv
      <2> QED BY <2>1 DEF DayInv, MicroInv, TypeOK
<1> QED BY <1>1, <1>2, <1>3, PTL DEF Spec, OneBuyADay

-----------------------------------------------------------------------------
(* The promise of the sleeve, step by step.                                *)

\* Whatever slips ends the promise.
LEMMA SlipStrays ==
    ASSUME MicroInv', slipped' = TRUE
    PROVE  Sleeve!Next
<1>1. killed' \in BOOLEAN BY DEF MicroInv, TypeOK
<1> QED BY <1>1 DEF Sleeve!Next, Sleeve!Stray

\* What has slipped stays so.
LEMMA SlippedStays ==
    ASSUME MicroInv, [Next]_vars, slipped = TRUE
    PROVE  slipped' = TRUE
<1>1. slipped' = slipped \/ slipped' = TRUE
      \/ slipped' = (slipped \/ held > 0)
      \/ slipped' = (slipped \/ ~flag' \/ cycle' = AtRest)
      \/ slipped' = (slipped \/ cycle.sold \/ At("records") \/ book' # book)
      BY DEF Next, Step, vars, PassWithSignal, JournalFails, PassWithoutDay, NoBroker,
             NothingToExit, Exits, Sells, SellRaises, Flags, Saves, SaveRaises, Entry, NoEntry,
             Buys, BuyRaises, Records, NextDay, OperatorClears, OthersBuy, OthersClose, Crash
<1> QED BY <1>1

\* Nothing that the promise speaks of.
LEMMA SleeveStays ==
    ASSUME UNCHANGED <<held, killed, slipped>>, book'.kept = book.kept
    PROVE  UNCHANGED Sleeve!sleeveVars
BY DEF Sleeve!sleeveVars

\* The sale, and the record that is dropped after it.
LEMMA ExitKeepsPromise ==
    ASSUME MicroInv, slipped = FALSE, slipped' = FALSE,
           Sells \/ SellRaises \/ Flags \/ Saves \/ SaveRaises
    PROVE  [Sleeve!Next]_(Sleeve!sleeveVars)
<1> USE DEF MicroInv, TypeOK, SalesRecorded, HeldAsRecorded, At, account
<1>1. CASE Sells
      <2>1. book.kept = "one" /\ held = 1 /\ UNCHANGED book
            <3>1. cycle.pc = "sells" /\ UNCHANGED book BY <1>1 DEF Sells
            <3>2. cycle.sold \in BOOLEAN BY DEF Cycles
            <3>3. cycle.sold = FALSE BY <3>1, <3>2
            <3> QED BY <3>1, <3>3
      <2>2. TakesCoin BY <1>1 DEF Sells
      <2>3. held' = 0 BY <2>1, <2>2, CoinStep
      <2>4. cycle.loss \in BOOLEAN /\ killed' = (killed \/ cycle.loss)
            BY <1>1 DEF Sells, Cycles
      <2>5. Sleeve!Sell(cycle.loss) BY <2>1, <2>3, <2>4 DEF Sleeve!Sell
      <2> QED BY <2>4, <2>5 DEF Sleeve!Next
<1>2. CASE SellRaises
      BY <1>2, SleeveStays DEF SellRaises
<1>3. CASE Flags
      BY <1>3, SleeveStays DEF Flags
<1>4. CASE Saves
      <2>1. UNCHANGED <<held, killed, slipped>> /\ book' = Remaining
            BY <1>4 DEF Saves
      <2>2. CASE cycle.sold = TRUE
            <3>1. book'.kept = "none" BY <2>1, <2>2 DEF Remaining, NoBook
            <3>2. held = 0 BY <1>4, <2>2 DEF Saves
            <3>3. CASE book.kept = "one"
                  BY <2>1, <3>1, <3>2, <3>3 DEF Sleeve!Next, Sleeve!StrikeOff
            <3>4. CASE book.kept # "one"
                  BY <2>1, <3>1, <3>4 DEF Sleeve!sleeveVars
            <3> QED BY <3>3, <3>4
      <2>3. CASE cycle.sold = FALSE
            BY <2>1, <2>3, SleeveStays DEF Remaining
      <2> QED BY <2>2, <2>3 DEF Cycles
<1>5. CASE SaveRaises BY <1>5 DEF SaveRaises
<1> QED BY <1>1, <1>2, <1>3, <1>4, <1>5

\* The purchase, and the record that is written after it.
LEMMA EntryKeepsPromise ==
    ASSUME MicroInv, slipped = FALSE, slipped' = FALSE,
           \/ Entry \/ NoEntry \/ (\E answer \in Answers : Buys(answer)) \/ BuyRaises
           \/ Records
    PROVE  [Sleeve!Next]_(Sleeve!sleeveVars)
<1> USE DEF MicroInv, TypeOK, SalesRecorded, HeldAsRecorded, KilledIsFlagged, At,
         account
<1>1. CASE Entry \/ NoEntry
      BY <1>1, SleeveStays DEF Entry, NoEntry
<1>2. ASSUME NEW answer \in Answers, Buys(answer)
      PROVE  [Sleeve!Next]_(Sleeve!sleeveVars)
      <2>1. book.kept # "one" /\ held = 0 /\ killed = FALSE
            BY <1>2 DEF Buys
      <2>2. held' = 1 /\ UNCHANGED <<book, killed>>
            BY <1>2, <2>1 DEF Buys, TakesOne
      <2>3. Sleeve!Buy BY <2>1, <2>2 DEF Sleeve!Buy
      <2> QED BY <2>3 DEF Sleeve!Next
<1>3. CASE BuyRaises
      BY <1>3, SleeveStays DEF BuyRaises
<1>4. CASE Records
      <2>1. UNCHANGED <<held, killed>> /\ held = 1 /\ book'.kept = "one"
            BY <1>4 DEF Records, NewBook
      <2>2. CASE book.kept = "one" BY <2>1, <2>2, SleeveStays
      <2>3. CASE book.kept # "one"
            BY <2>1, <2>3 DEF Sleeve!Next, Sleeve!Note
      <2> QED BY <2>2, <2>3
<1> QED BY <1>1, <1>2, <1>3, <1>4

\* The calls, the clock, the operator, the others, and the end of the process.
LEMMA RestKeepsPromise ==
    ASSUME MicroInv, slipped = FALSE, slipped' = FALSE,
           \/ \E signal \in {"BUY", "NONE"} : PassWithSignal(signal)
           \/ JournalFails \/ PassWithoutDay \/ NoBroker \/ NothingToExit
           \/ \E loss, due \in BOOLEAN : Exits(loss, due)
           \/ NextDay \/ OperatorClears \/ OthersBuy \/ OthersClose \/ Crash
           \/ UNCHANGED vars
    PROVE  [Sleeve!Next]_(Sleeve!sleeveVars)
<1> USE DEF MicroInv, TypeOK, account
<1>1. CASE OperatorClears
      <2>1. UNCHANGED <<held, slipped, book>> /\ killed' = FALSE /\ killed \in BOOLEAN
            BY <1>1 DEF OperatorClears
      <2>2. CASE killed = TRUE
            BY <2>1, <2>2 DEF Sleeve!Next, Sleeve!Readmit
      <2>3. CASE killed = FALSE
            BY <2>1, <2>3, SleeveStays
      <2> QED BY <2>1, <2>2, <2>3
<1>2. CASE NextDay
      <2>1. book'.kept = book.kept BY <1>2 DEF NextDay, Older, Books
      <2> QED BY <1>2, <2>1, SleeveStays DEF NextDay
<1>3. CASE OthersClose
      <2>1. ~(held > 0) BY <1>3 DEF OthersClose
      <2>2. held' = held BY <1>3, <2>1, MicroAssumption DEF OthersClose
      <2> QED BY <1>3, <2>2, SleeveStays DEF OthersClose
<1>4. CASE Crash
      <2>1. book' = book BY <1>4 DEF Crash
      <2> QED BY <1>4, <2>1, SleeveStays DEF Crash
<1>5. CASE ~(OperatorClears \/ NextDay \/ OthersClose \/ Crash)
      <2>1. UNCHANGED <<held, killed, slipped, book>>
            BY <1>5 DEF vars, PassWithSignal, JournalFails, PassWithoutDay, NoBroker, NothingToExit, Exits,
               OthersBuy
      <2> QED BY <2>1, SleeveStays
<1> QED BY <1>1, <1>2, <1>3, <1>4, <1>5

LEMMA PromiseStep == MicroInv /\ [Next]_vars => [Sleeve!Next]_(Sleeve!sleeveVars)
<1> SUFFICES ASSUME MicroInv, [Next]_vars PROVE [Sleeve!Next]_(Sleeve!sleeveVars)
    OBVIOUS
<1>1. MicroInv' BY MicroStep
<1>2. slipped \in BOOLEAN /\ slipped' \in BOOLEAN BY <1>1 DEF MicroInv, TypeOK
<1>3. CASE slipped' = TRUE BY <1>1, <1>3, SlipStrays
<1>4. CASE slipped' = FALSE
      <2>1. slipped = FALSE BY <1>2, <1>4, SlippedStays
      <2> QED BY <1>4, <2>1, ExitKeepsPromise, EntryKeepsPromise, RestKeepsPromise
              DEF Next, Step
<1> QED BY <1>2, <1>3, <1>4

\* The sleeve implements its promise, for any number of coins, whichever answers and with
\* whatever faults: each step buys, records, sells or strikes off in that order, leaves all
\* of it alone, or is one that sets slipped (run_exit_if_needed, run_entry_if_needed).
THEOREM MicroKeepsPromise == Spec => SleeveSpec
<1>1. Init => MicroInv BY MicroInit
<1>2. MicroInv /\ [Next]_vars => MicroInv' BY MicroStep
<1>3. Init => Sleeve!Init BY DEF Init, NoBook, Sleeve!Init
<1>4. MicroInv /\ [Next]_vars => [Sleeve!Next]_(Sleeve!sleeveVars) BY PromiseStep
<1>5. Spec => Sleeve!Spec BY <1>1, <1>2, <1>3, <1>4, PTL DEF Spec, Sleeve!Spec
<1> QED BY <1>5 DEF SleeveSpec

=============================================================================
