------------------------ MODULE CryptoPositionsProofs ------------------------
(***************************************************************************)
(* The coins of one pair and their stops: types, what a closing that       *)
(* reports no error has sold, and what uncovers a position: an entry left  *)
(* without its stop, coins passed over or sold in part by a CLOSE, or a    *)
(* closer beside the cycle -- for all bounds, closers and faults.          *)
(***************************************************************************)
EXTENDS CryptoPositions, TLAPS

\* A closer is at work only once left is set.
LeftWhenClosing == \A t \in Closers : pc[t] # "rest" => left

\* What a closing thread knows of the coins as long as no call raises, they are seen and
\* sold whole, and the cycle buys none: no more than it has read, and none once it has
\* gone through the spot account.
SpotKnown(t) ==
    ~closing[t].excused =>
        /\ pc[t] = "sell" => spot <= closing[t].qty
        /\ pc[t] \in {"buy", "repay", "cancel"} => spot = 0
        /\ t \in Closers /\ pc[t] \in {"cancelLast", "done"} => spot = 0

PosInv ==
    /\ StateTyped
    /\ LeftWhenClosing
    /\ closing["cycle"].excused => left
    /\ \A t \in Threads : SpotKnown(t)
    /\ CoveredUntilLeft

-----------------------------------------------------------------------------
(* The account.                                                            *)

AccountTypes ==
    /\ spot \in 0..MaxCoins /\ coins \in 0..MaxCoins /\ owed \in 0..MaxCoins
    /\ stops \in [Accounts -> 0..MaxCoins]

LEMMA InitPosInv == Init => PosInv
  <1> SUFFICES ASSUME Init PROVE PosInv
    OBVIOUS
  <1>1. Fresh \in Closing /\ Fresh.excused = FALSE /\ "cycle" \in Threads
    BY PositionsAssumption DEF Fresh, Closing, Threads
  <1>2. StateTyped
    <2>1. 0 \in 0..MaxCoins /\ "rest" \in Steps
      BY PositionsAssumption DEF Steps
    <2> QED
      BY <1>1, <2>1 DEF Init, StateTyped
  <1>3. \A t \in Threads : pc[t] = "rest" /\ closing[t] = Fresh
    BY DEF Init
  <1>4. LeftWhenClosing /\ \A t \in Threads : SpotKnown(t)
    BY <1>3 DEF LeftWhenClosing, SpotKnown, Threads
  <1>5. CoveredUntilLeft
    BY <1>1, <1>3 DEF Init, CoveredUntilLeft, Entering, Accounts
  <1> QED
    BY <1>1, <1>2, <1>3, <1>4, <1>5 DEF PosInv

LEMMA Known ==
    ASSUME StateTyped
    PROVE  /\ AccountTypes
           /\ spot \in Int /\ coins \in Int /\ owed \in Int /\ MaxCoins \in Nat
           /\ stops["spot"] \in Int /\ stops["margin"] \in Int
           /\ "cycle" \in Threads /\ "cycle" \notin Closers
           /\ Closers \subseteq Threads
           /\ \A t \in Threads : closing[t] \in Closing /\ closing[t].qty \in 0..MaxCoins
  BY PositionsAssumption DEF StateTyped, AccountTypes, Threads, Closing, Accounts

LEMMA BuysSpotTypes ==
    ASSUME StateTyped, BuysSpot
    PROVE  AccountTypes' /\ spot' = spot + 1 /\ UNCHANGED <<coins, owed, stops>>
  BY Known DEF BuysSpot, AccountTypes

LEMMA SellsSpotTypes ==
    ASSUME StateTyped, NEW qty \in 0..MaxCoins, SellsSpot(qty)
    PROVE  AccountTypes' /\ spot' = spot - qty /\ UNCHANGED <<coins, owed, stops>>
  BY Known DEF SellsSpot, AccountTypes

LEMMA SellsPartTypes ==
    ASSUME StateTyped, NEW qty \in 0..MaxCoins, SellsPart(qty)
    PROVE  AccountTypes' /\ spot' <= spot /\ UNCHANGED <<coins, owed, stops>>
  BY Known DEF SellsPart, AccountTypes

LEMMA StopsTypes ==
    ASSUME StateTyped, NEW a \in Accounts, Stops(a)
    PROVE  /\ AccountTypes' /\ UNCHANGED <<spot, coins, owed>>
           /\ stops'[a] = stops[a] + 1
           /\ \A b \in Accounts : b # a => stops'[b] = stops[b]
  <1>1. stops[a] \in 0..MaxCoins /\ stops["spot"] \in 0..MaxCoins
        /\ stops["margin"] \in 0..MaxCoins
    BY Known DEF StateTyped, Accounts
  <1>2. stops[a] + 1 \in 0..MaxCoins
    BY <1>1, Known DEF Stops, Accounts
  <1> QED
    BY <1>1, <1>2, Known DEF Stops, AccountTypes, StateTyped

LEMMA BorrowsTypes ==
    ASSUME StateTyped, Borrows
    PROVE  /\ AccountTypes' /\ UNCHANGED <<spot, stops>>
           /\ owed' - coins' = owed - coins
  BY Known DEF Borrows, AccountTypes

LEMMA SellsMarginTypes ==
    ASSUME StateTyped, SellsMargin
    PROVE  AccountTypes' /\ UNCHANGED <<spot, owed, stops>> /\ coins' = coins - 1
  BY Known DEF SellsMargin, AccountTypes

LEMMA BuysMarginTypes ==
    ASSUME StateTyped, NEW qty \in 0..MaxCoins, BuysMargin(qty)
    PROVE  /\ AccountTypes' /\ UNCHANGED <<spot, stops>>
           /\ owed' - coins' <= owed - coins
  BY Known DEF BuysMargin, AccountTypes

LEMMA BuysPartTypes ==
    ASSUME StateTyped, NEW qty \in 0..MaxCoins, BuysPart(qty)
    PROVE  /\ AccountTypes' /\ UNCHANGED <<spot, stops>>
           /\ owed' - coins' <= owed - coins
  BY Known DEF BuysPart, AccountTypes

LEMMA RepaysTypes ==
    ASSUME StateTyped, NEW qty \in 0..MaxCoins, Repays(qty)
    PROVE  /\ AccountTypes' /\ UNCHANGED <<spot, stops>>
           /\ owed' - coins' = owed - coins
  BY Known DEF Repays, AccountTypes

LEMMA BuysBackTypes ==
    ASSUME StateTyped, BuysBack
    PROVE  /\ AccountTypes' /\ UNCHANGED <<spot, stops>>
           /\ owed' - coins' = owed - coins - 1
  BY Known DEF BuysBack, AccountTypes

LEMMA CancelsTypes ==
    ASSUME StateTyped, CancelsSpotStops
    PROVE  /\ AccountTypes' /\ UNCHANGED <<spot, coins, owed>>
           /\ stops'["margin"] = stops["margin"]
  <1>1. PICK n \in 0..stops["spot"] : stops' = [stops EXCEPT !["spot"] = n]
    BY DEF CancelsSpotStops
  <1>2. n \in 0..MaxCoins
    BY Known DEF StateTyped, Accounts
  <1> QED
    BY <1>1, <1>2, Known DEF CancelsSpotStops, AccountTypes, Accounts

LEMMA Entered ==
    /\ Entering("spot") = IF pc["cycle"] \in {"protectSpot", "panicSpot"} THEN 1 ELSE 0
    /\ Entering("margin") =
          IF pc["cycle"] \in {"protectMargin", "panicMargin"} THEN 1 ELSE 0
    /\ Entering("spot")' = IF pc'["cycle"] \in {"protectSpot", "panicSpot"} THEN 1 ELSE 0
    /\ Entering("margin")' =
          IF pc'["cycle"] \in {"protectMargin", "panicMargin"} THEN 1 ELSE 0
  BY DEF Entering

-----------------------------------------------------------------------------
(* What a step owes, by what it leaves alone.                              *)

LEMMA KnownKept ==
    ASSUME StateTyped, NEW t \in Threads, SpotKnown(t), spot' \in Int, spot' <= spot,
           spot' >= 0, pc'[t] = pc[t], closing'[t] = closing[t]
    PROVE  SpotKnown(t)'
  BY Known DEF SpotKnown

\* A step of the entries of the cycle that does not buy coins on spot.
LEMMA EntryStep ==
    ASSUME PosInv, AccountTypes', spot' <= spot,
           NEW step \in Steps, Go("cycle", step),
           step \in {"rest", "signals", "protectSpot", "panicSpot", "short",
                     "protectMargin", "panicMargin", "pick"},
           UNCHANGED <<closing, watch>>, left' \in BOOLEAN, left => left',
           CoveredUntilLeft'
    PROVE  PosInv'
  <1>1. StateTyped /\ "cycle" \in Threads /\ "cycle" \notin Closers
    BY Known DEF PosInv
  <1>2. /\ pc' \in [Threads -> Steps] /\ pc'["cycle"] = step
        /\ \A t \in Threads : t # "cycle" => pc'[t] = pc[t]
    BY <1>1 DEF Go, StateTyped
  <1>3. StateTyped'
    BY <1>1, <1>2 DEF StateTyped, AccountTypes
  <1>4. LeftWhenClosing'
    BY <1>1, <1>2, Known DEF PosInv, LeftWhenClosing
  <1>5. ASSUME NEW t \in Threads PROVE SpotKnown(t)'
    <2>1. CASE t = "cycle"
      BY <1>2, <2>1 DEF SpotKnown
    <2>2. CASE t # "cycle"
      BY <1>1, <1>2, <1>3, <2>2, KnownKept, Known DEF PosInv, StateTyped
    <2> QED
      BY <2>1, <2>2
  <1> QED
    BY <1>3, <1>4, <1>5 DEF PosInv

\* A step of a thread that closes.
LEMMA CloserStep ==
    ASSUME PosInv, AccountTypes', spot' <= spot,
           NEW t \in Threads, NEW step \in Steps, NEW c \in Closing,
           pc' = [pc EXCEPT ![t] = step], closing' = [closing EXCEPT ![t] = c],
           UNCHANGED watch,
           left' \in BOOLEAN, left => left', t \in Closers => left',
           t = "cycle" /\ c.excused => left',
           SpotKnown(t)', CoveredUntilLeft'
    PROVE  PosInv'
  <1>1. StateTyped /\ "cycle" \in Threads /\ "cycle" \notin Closers
    BY Known DEF PosInv
  <1>2. /\ pc' \in [Threads -> Steps] /\ closing' \in [Threads -> Closing]
        /\ pc'[t] = step /\ closing'[t] = c
        /\ \A u \in Threads : u # t => pc'[u] = pc[u] /\ closing'[u] = closing[u]
    BY <1>1 DEF StateTyped
  <1>3. StateTyped'
    BY <1>1, <1>2 DEF StateTyped, AccountTypes
  <1>4. LeftWhenClosing'
    BY <1>1, <1>2, Known DEF PosInv, LeftWhenClosing
  <1>5. ASSUME NEW u \in Threads PROVE SpotKnown(u)'
    BY <1>1, <1>2, <1>3, KnownKept, Known DEF PosInv, StateTyped
  <1>6. closing'["cycle"].excused => left'
    BY <1>1, <1>2 DEF PosInv
  <1> QED
    BY <1>3, <1>4, <1>5, <1>6 DEF PosInv

\* A step uncovers nothing that only lowers what needs a stop.
LEMMA CoverKept ==
    ASSUME PosInv, AccountTypes', left => left',
           spot' <= spot, owed' - coins' <= owed - coins,
           stops'["margin"] = stops["margin"],
           stops'["spot"] = stops["spot"] \/ spot' = 0 \/ left,
           pc'["cycle"] = pc["cycle"] \/ (Entering("spot") = 0 /\ Entering("margin") = 0)
    PROVE  CoveredUntilLeft'
  <1>1. /\ Entering("spot")' \in {0, 1} /\ Entering("margin")' \in {0, 1}
        /\ Entering("spot") <= Entering("spot")'
        /\ Entering("margin") <= Entering("margin")'
    BY DEF Entering
  <1>2. stops'["spot"] \in 0..MaxCoins /\ stops'["margin"] \in 0..MaxCoins
        /\ spot' \in Int /\ owed' \in Int /\ coins' \in Int
        /\ Entering("spot") \in {0, 1} /\ Entering("margin") \in {0, 1}
    BY Known DEF AccountTypes, Accounts, PosInv, Entering
  <1> QED
    BY <1>1, <1>2, Known DEF PosInv, CoveredUntilLeft

-----------------------------------------------------------------------------
(* The cycle.                                                              *)

LEMMA CycleIdleStep ==
    ASSUME PosInv, CycleStart \/ CycleEnd \/ CloseSignal
    PROVE  PosInv'
  <1>1. StateTyped /\ AccountTypes' /\ UNCHANGED account
    BY Known DEF PosInv, CycleStart, CycleEnd, CloseSignal, account, AccountTypes
  <1>2. PICK step \in {"signals", "rest", "pick"} :
            /\ Go("cycle", step) /\ pc["cycle"] \in {"rest", "signals"}
            /\ UNCHANGED <<closing, watch, left>>
    BY DEF CycleStart, CycleEnd, CloseSignal, At
  <1>3. Entering("spot") = 0 /\ Entering("margin") = 0
    BY <1>2 DEF Entering
  <1>4. CoveredUntilLeft'
    BY <1>1, <1>2, <1>3, CoverKept, Known DEF account
  <1> QED
    BY <1>1, <1>2, <1>4, EntryStep, Known DEF account, Steps, StateTyped

LEMMA EnterSpotStep ==
    ASSUME PosInv, EnterSpot
    PROVE  PosInv'
  <1>1. StateTyped /\ "cycle" \in Threads /\ "cycle" \notin Closers
    BY Known DEF PosInv
  <1>2. PICK step \in {"protectSpot", "signals"} :
            /\ Go("cycle", step) /\ pc["cycle"] = "signals"
            /\ BuysSpot \/ UNCHANGED account
            /\ BuysSpot \/ step = "signals"
    BY DEF EnterSpot, Calls, Raises, At
  <1>3. /\ AccountTypes' /\ UNCHANGED <<coins, owed, stops>>
        /\ spot' = spot + 1 \/ (spot' = spot /\ step = "signals")
    BY <1>1, <1>2, BuysSpotTypes, Known DEF account, AccountTypes
  <1>4. /\ pc' \in [Threads -> Steps] /\ pc'["cycle"] = step
        /\ \A t \in Threads : t # "cycle" => pc'[t] = pc[t]
    BY <1>1, <1>2 DEF Go, StateTyped, Steps
  <1>5. /\ closing' \in [Threads -> Closing]
        /\ closing'["cycle"] = closing["cycle"]
        /\ \A t \in Threads : t # "cycle" /\ pc[t] # "rest" => closing'[t].excused = TRUE
    <2>1. ASSUME NEW t \in Threads
          PROVE  /\ [closing[t] EXCEPT !.excused = TRUE] \in Closing
                 /\ [closing[t] EXCEPT !.excused = TRUE].excused = TRUE
      BY <1>1, Known DEF Closing
    <2> QED
      BY <1>1, <2>1, Known DEF EnterSpot, CycleBought
  <1>6. /\ UNCHANGED watch /\ left' \in BOOLEAN /\ (left => left')
        /\ ~left' => ~left /\ (spot' = spot \/ step # "signals")
    BY <1>1, <1>4 DEF EnterSpot, Calls, StateTyped
  <1>7. StateTyped'
    BY <1>1, <1>3, <1>4, <1>5, <1>6 DEF StateTyped, AccountTypes
  <1>8. LeftWhenClosing'
    BY <1>1, <1>4, <1>6, Known DEF PosInv, LeftWhenClosing
  <1>9. ASSUME NEW t \in Threads PROVE SpotKnown(t)'
    <2>1. CASE t = "cycle" \/ pc[t] = "rest"
      BY <1>2, <1>4, <2>1 DEF SpotKnown
    <2>2. CASE ~(t = "cycle" \/ pc[t] = "rest")
      BY <1>5, <2>2 DEF SpotKnown
    <2> QED
      BY <2>1, <2>2
  <1>10. CoveredUntilLeft'
    BY <1>1, <1>2, <1>3, <1>4, <1>6, Known, Entered DEF PosInv, CoveredUntilLeft
  <1> QED
    BY <1>5, <1>6, <1>7, <1>8, <1>9, <1>10 DEF PosInv

LEMMA ProtectSpotStep ==
    ASSUME PosInv, ProtectSpot
    PROVE  PosInv'
  <1>1. StateTyped /\ "cycle" \in Threads /\ "spot" \in Accounts /\ "margin" \in Accounts
    BY Known DEF PosInv, Accounts
  <1>2. PICK step \in {"signals", "panicSpot"} :
            /\ Go("cycle", step) /\ pc["cycle"] = "protectSpot"
            /\ Stops("spot") \/ UNCHANGED account
            /\ UNCHANGED <<closing, watch>>
    BY DEF ProtectSpot, Calls, Escapes, Raises, At
  <1>3. /\ AccountTypes' /\ UNCHANGED <<spot, coins, owed>>
        /\ stops'["margin"] = stops["margin"]
        /\ \/ stops'["spot"] = stops["spot"] + 1
           \/ stops' = stops
    BY <1>1, <1>2, StopsTypes, Known DEF account, AccountTypes
  <1>4. pc'["cycle"] = step
    BY <1>1, <1>2 DEF Go, StateTyped
  <1>5. /\ left' \in BOOLEAN /\ (left => left')
        /\ ~left' => ~left /\ (stops' # stops \/ step # "signals")
    BY <1>1, <1>4 DEF ProtectSpot, StateTyped
  <1>6. CoveredUntilLeft'
    BY <1>1, <1>2, <1>3, <1>4, <1>5, Known, Entered DEF PosInv, CoveredUntilLeft
  <1> QED
    BY <1>1, <1>2, <1>3, <1>5, <1>6, EntryStep, Known DEF Steps, StateTyped

LEMMA PanicSpotStep ==
    ASSUME PosInv, PanicSpot
    PROVE  PosInv'
  <1>1. StateTyped /\ "cycle" \in Threads /\ 1 \in 0..MaxCoins
    BY Known, PositionsAssumption DEF PosInv
  <1>2. /\ Go("cycle", "signals") /\ pc["cycle"] = "panicSpot"
        /\ SellsSpot(1) \/ UNCHANGED account
        /\ UNCHANGED <<closing, watch>> /\ left' \in BOOLEAN /\ (left => left')
        /\ ~left' => ~left /\ spot' # spot
    BY <1>1 DEF PanicSpot, Calls, Raises, At, StateTyped
  <1>3. /\ AccountTypes' /\ UNCHANGED <<coins, owed, stops>>
        /\ spot' = spot - 1 \/ spot' = spot
    BY <1>1, <1>2, SellsSpotTypes, Known DEF account, AccountTypes
  <1>4. pc'["cycle"] = "signals"
    BY <1>1, <1>2 DEF Go, StateTyped
  <1>5. CoveredUntilLeft'
    BY <1>1, <1>2, <1>3, <1>4, Known, Entered DEF PosInv, CoveredUntilLeft
  <1> QED
    BY <1>1, <1>2, <1>3, <1>5, EntryStep, Known DEF Steps, StateTyped

LEMMA EnterMarginStep ==
    ASSUME PosInv, EnterMargin
    PROVE  PosInv'
  <1>1. StateTyped /\ "cycle" \in Threads
    BY Known DEF PosInv
  <1>2. PICK step \in {"signals", "short"} :
            /\ Go("cycle", step) /\ pc["cycle"] = "signals"
            /\ Borrows \/ UNCHANGED account
            /\ UNCHANGED <<closing, watch, left>>
    BY DEF EnterMargin, Calls, Raises, At
  <1>3. /\ AccountTypes' /\ UNCHANGED <<spot, stops>>
        /\ owed' - coins' = owed - coins
    BY <1>1, <1>2, BorrowsTypes, Known DEF account, AccountTypes
  <1>4. Entering("spot") = 0 /\ Entering("margin") = 0
    BY <1>2 DEF Entering
  <1>5. CoveredUntilLeft'
    BY <1>1, <1>2, <1>3, <1>4, CoverKept, Known DEF AccountTypes
  <1> QED
    BY <1>1, <1>2, <1>3, <1>5, EntryStep, Known DEF Steps, StateTyped

LEMMA SellShortStep ==
    ASSUME PosInv, SellShort
    PROVE  PosInv'
  <1>1. StateTyped /\ "cycle" \in Threads
    BY Known DEF PosInv
  <1>2. PICK step \in {"signals", "protectMargin"} :
            /\ Go("cycle", step) /\ pc["cycle"] = "short"
            /\ SellsMargin \/ (UNCHANGED account /\ step = "signals")
            /\ UNCHANGED <<closing, watch>>
    BY DEF SellShort, Calls, Raises, At
  <1>3. /\ AccountTypes' /\ UNCHANGED <<spot, owed, stops>>
        /\ coins' = coins - 1 \/ (coins' = coins /\ step = "signals")
    BY <1>1, <1>2, SellsMarginTypes, Known DEF account, AccountTypes
  <1>4. pc'["cycle"] = step
    BY <1>1, <1>2 DEF Go, StateTyped, Steps
  <1>5. /\ left' \in BOOLEAN /\ (left => left')
        /\ ~left' => ~left /\ (coins' = coins \/ step # "signals")
    BY <1>1, <1>4 DEF SellShort, StateTyped
  <1>6. CoveredUntilLeft'
    BY <1>1, <1>2, <1>3, <1>4, <1>5, Known, Entered DEF PosInv, CoveredUntilLeft
  <1> QED
    BY <1>1, <1>2, <1>3, <1>5, <1>6, EntryStep, Known DEF Steps, StateTyped

LEMMA ProtectMarginStep ==
    ASSUME PosInv, ProtectMargin
    PROVE  PosInv'
  <1>1. StateTyped /\ "cycle" \in Threads /\ "spot" \in Accounts /\ "margin" \in Accounts
    BY Known DEF PosInv, Accounts
  <1>2. PICK step \in {"signals", "panicMargin"} :
            /\ Go("cycle", step) /\ pc["cycle"] = "protectMargin"
            /\ Stops("margin") \/ UNCHANGED account
            /\ UNCHANGED <<closing, watch>>
    BY DEF ProtectMargin, Calls, Escapes, Raises, At
  <1>3. /\ AccountTypes' /\ UNCHANGED <<spot, coins, owed>>
        /\ stops'["spot"] = stops["spot"]
        /\ \/ stops'["margin"] = stops["margin"] + 1
           \/ stops' = stops
    BY <1>1, <1>2, StopsTypes, Known DEF account, AccountTypes
  <1>4. pc'["cycle"] = step
    BY <1>1, <1>2 DEF Go, StateTyped
  <1>5. /\ left' \in BOOLEAN /\ (left => left')
        /\ ~left' => ~left /\ (stops' # stops \/ step # "signals")
    BY <1>1, <1>4 DEF ProtectMargin, StateTyped
  <1>6. CoveredUntilLeft'
    BY <1>1, <1>2, <1>3, <1>4, <1>5, Known, Entered DEF PosInv, CoveredUntilLeft
  <1> QED
    BY <1>1, <1>2, <1>3, <1>5, <1>6, EntryStep, Known DEF Steps, StateTyped

LEMMA PanicMarginStep ==
    ASSUME PosInv, PanicMargin
    PROVE  PosInv'
  <1>1. StateTyped /\ "cycle" \in Threads
    BY Known DEF PosInv
  <1>2. /\ Go("cycle", "signals") /\ pc["cycle"] = "panicMargin"
        /\ BuysBack \/ UNCHANGED account
        /\ UNCHANGED <<closing, watch>> /\ left' \in BOOLEAN /\ (left => left')
        /\ ~left' => ~left /\ ~UNCHANGED <<coins, owed>>
    BY <1>1 DEF PanicMargin, Calls, Raises, At, StateTyped
  <1>3. /\ AccountTypes' /\ UNCHANGED <<spot, stops>>
        /\ owed' - coins' = owed - coins - 1 \/ UNCHANGED <<coins, owed>>
    BY <1>1, <1>2, BuysBackTypes, Known DEF account, AccountTypes
  <1>4. pc'["cycle"] = "signals"
    BY <1>1, <1>2 DEF Go, StateTyped
  <1>5. CoveredUntilLeft'
    BY <1>1, <1>2, <1>3, <1>4, Known, Entered DEF PosInv, CoveredUntilLeft
  <1> QED
    BY <1>1, <1>2, <1>3, <1>5, EntryStep, Known DEF Steps, StateTyped

-----------------------------------------------------------------------------
(* Whoever closes.                                                         *)

ClosingSteps == {"cancelFirst", "list", "pick", "sell", "buy", "repay", "cancel",
                 "cancelLast", "done"}

LEMMA ClosingStep ==
    ASSUME PosInv, NEW t \in Threads, pc[t] \in ClosingSteps,
           AccountTypes', spot' <= spot, owed' - coins' <= owed - coins,
           stops'["margin"] = stops["margin"],
           stops'["spot"] = stops["spot"] \/ spot' = 0 \/ left,
           NEW step \in Steps, NEW c \in Closing,
           pc' = [pc EXCEPT ![t] = step], closing' = [closing EXCEPT ![t] = c],
           UNCHANGED watch, left' \in BOOLEAN, left => left',
           t = "cycle" /\ c.excused => left',
           SpotKnown(t)'
    PROVE  PosInv'
  <1>1. StateTyped /\ "cycle" \in Threads
    BY Known DEF PosInv
  <1>2. t \in Closers => left'
    BY DEF PosInv, LeftWhenClosing, ClosingSteps
  <1>3. pc'["cycle"] = pc["cycle"] \/ (Entering("spot") = 0 /\ Entering("margin") = 0)
    BY <1>1, Entered DEF ClosingSteps, StateTyped
  <1>4. CoveredUntilLeft'
    BY <1>3, CoverKept
  <1> QED
    BY <1>1, <1>2, <1>4, CloserStep

\* Back from one position, with what the closing has met.
LEMMA ClosedThread ==
    ASSUME PosInv, NEW t \in Threads, NEW outcome \in {"closed", "excused"},
           \/ Closed(t, outcome)
           \/ Fails(t) /\ outcome = "excused"
    PROVE  \E step \in Steps, c \in Closing :
               /\ pc' = [pc EXCEPT ![t] = step] /\ closing' = [closing EXCEPT ![t] = c]
               /\ t = "cycle" => c.excused = FALSE
               /\ t # "cycle" /\ closing[t].excused => c.excused = TRUE
               /\ step \notin {"sell", "buy", "repay", "cancel"}
               /\ t # "cycle" /\ outcome = "excused" => c.excused = TRUE
  <1>1. StateTyped /\ closing[t] \in Closing /\ Left(t) \in 0..2
    BY Known DEF PosInv, Left, Closing
  <1>2. CASE Closed(t, outcome) /\ t = "cycle"
    <2>1. Fresh \in Closing /\ Fresh.excused = FALSE
      BY PositionsAssumption DEF Fresh, Closing
    <2>2. pc' = [pc EXCEPT ![t] = "signals"] /\ closing' = [closing EXCEPT ![t] = Fresh]
      BY <1>2 DEF Closed, Go
    <2> QED
      BY <1>2, <2>1, <2>2 DEF Steps
  <1>3. CASE Closed(t, outcome) /\ t # "cycle"
    <2> DEFINE c == [todo |-> Left(t), qty |-> 0,
                     excused |-> closing[t].excused \/ outcome = "excused"]
    <2>1. c \in Closing /\ (closing[t].excused => c.excused = TRUE)
      BY <1>1, PositionsAssumption DEF Closing
    <2>3. outcome = "excused" => c.excused = TRUE
      OBVIOUS
    <2>2. PICK step \in {"pick", "cancelLast", "done"} :
              pc' = [pc EXCEPT ![t] = step] /\ closing' = [closing EXCEPT ![t] = c]
      BY <1>1, <1>3 DEF Closed, Go
    <2> HIDE DEF c
    <2> QED
      BY <1>3, <2>1, <2>2, <2>3 DEF Steps
  <1>4. CASE /\ t = "sigterm" /\ Go(t, "done")
             /\ closing' = [closing EXCEPT ![t] = [todo |-> 0, qty |-> 0, excused |-> TRUE]]
    <2> DEFINE c == [todo |-> 0, qty |-> 0, excused |-> TRUE]
    <2>1. c \in Closing /\ c.excused = TRUE
      BY PositionsAssumption DEF Closing
    <2>2. pc' = [pc EXCEPT ![t] = "done"] /\ closing' = [closing EXCEPT ![t] = c]
      BY <1>4 DEF Go
    <2> HIDE DEF c
    <2> QED
      BY <1>4, <2>1, <2>2 DEF Steps
  <1> QED
    BY <1>2, <1>3, <1>4 DEF Fails

\* A step that leaves the loop of close_position.
LEMMA ClosedStep ==
    ASSUME PosInv, NEW t \in Threads, pc[t] \in ClosingSteps,
           NEW outcome \in {"closed", "excused"},
           \/ Closed(t, outcome)
           \/ Fails(t) /\ outcome = "excused",
           AccountTypes', spot' <= spot, owed' - coins' <= owed - coins,
           stops'["margin"] = stops["margin"],
           stops'["spot"] = stops["spot"] \/ spot' = 0 \/ left,
           UNCHANGED <<watch, left>>,
           outcome = "closed" /\ ~closing[t].excused => spot' = 0
    PROVE  PosInv'
  <1>1. StateTyped /\ "cycle" \notin Closers /\ left' \in BOOLEAN
    BY Known DEF PosInv, StateTyped
  <1>2. PICK step \in Steps, c \in Closing :
               /\ pc' = [pc EXCEPT ![t] = step] /\ closing' = [closing EXCEPT ![t] = c]
               /\ t = "cycle" => c.excused = FALSE
               /\ t # "cycle" /\ closing[t].excused => c.excused = TRUE
               /\ step \notin {"sell", "buy", "repay", "cancel"}
               /\ t # "cycle" /\ outcome = "excused" => c.excused = TRUE
    BY ClosedThread
  <1>3. pc'[t] = step /\ closing'[t] = c
    BY <1>1, <1>2 DEF StateTyped
  <1>4. SpotKnown(t)'
    BY <1>1, <1>2, <1>3 DEF SpotKnown
  <1> QED
    BY <1>1, <1>2, <1>4, ClosingStep

\* A step on to another call of the same closing.
LEMMA ProceedsStep ==
    ASSUME PosInv, NEW t \in Threads, pc[t] \in ClosingSteps,
           NEW step \in Steps, Proceeds(t, step),
           AccountTypes', spot' <= spot, owed' - coins' <= owed - coins,
           stops'["margin"] = stops["margin"],
           stops'["spot"] = stops["spot"] \/ spot' = 0 \/ left,
           UNCHANGED <<watch, left>>,
           step # "sell",
           \/ step = "list" \/ spot' = 0
           \/ closing[t].excused = TRUE
    PROVE  PosInv'
  <1>1. StateTyped /\ closing[t] \in Closing /\ left' \in BOOLEAN
    BY Known DEF PosInv, StateTyped
  <1>2. pc' = [pc EXCEPT ![t] = step] /\ closing' = [closing EXCEPT ![t] = closing[t]]
    BY <1>1 DEF Proceeds, Go, StateTyped
  <1>3. pc'[t] = step /\ closing'[t] = closing[t]
    BY <1>1, <1>2 DEF StateTyped
  <1>4. SpotKnown(t)'
    BY <1>3 DEF SpotKnown
  <1>5. t = "cycle" /\ closing[t].excused => left'
    BY DEF PosInv
  <1> QED
    BY <1>1, <1>2, <1>4, <1>5, ClosingStep

\* A closing on which a step has something to excuse, and that goes on.
LEMMA ExcusedStep ==
    ASSUME PosInv, NEW t \in Threads, pc[t] \in ClosingSteps,
           NEW step \in Steps, Go(t, step), Excuses(t),
           AccountTypes', spot' <= spot, UNCHANGED <<coins, owed, stops, watch>>,
           left' \in BOOLEAN, left => left', t = "cycle" => left'
    PROVE  PosInv'
  <1> DEFINE c == [closing[t] EXCEPT !.excused = TRUE]
  <1>1. StateTyped /\ c \in Closing /\ c.excused = TRUE /\ coins \in Int /\ owed \in Int
    BY Known DEF PosInv, Closing
  <1>2. pc' = [pc EXCEPT ![t] = step] /\ closing' = [closing EXCEPT ![t] = c]
    BY DEF Go, Excuses
  <1> HIDE DEF c
  <1>3. closing'[t] = c
    BY <1>1, <1>2 DEF StateTyped
  <1>4. SpotKnown(t)'
    BY <1>1, <1>3 DEF SpotKnown
  <1>5. owed' - coins' <= owed - coins
    BY <1>1
  <1> QED
    BY <1>1, <1>2, <1>4, <1>5, ClosingStep

LEMMA PickStep ==
    ASSUME PosInv, NEW t \in Threads, Pick(t)
    PROVE  PosInv'
  <1>1. /\ StateTyped /\ closing[t] \in Closing /\ left \in BOOLEAN
        /\ UNCHANGED <<spot, coins, owed, stops, watch>>
        /\ AccountTypes' /\ spot \in Int /\ spot >= 0
        /\ pc[t] = "pick" /\ pc[t] \in ClosingSteps
    <2>1. At(t, "pick") /\ UNCHANGED <<account, watch>>
      BY DEF Pick
    <2> QED
      BY <2>1, Known DEF PosInv, At, ClosingSteps, account, AccountTypes, StateTyped
  <1>2. ASSUME NEW coin \in BOOLEAN, NEW margin \in BOOLEAN, Seen(coin, margin),
               NEW step \in {"sell", "buy"}, NEW qty \in 1..MaxCoins,
               Picked(coin, margin, step, qty),
               closing' = [closing EXCEPT ![t] =
                   [todo |-> closing[t].todo, qty |-> qty,
                    excused |-> closing[t].excused \/ (spot > 0 /\ ~coin)]],
               left' = (left \/ (spot > 0 /\ ~coin)),
               Go(t, step)
        PROVE  PosInv'
    <2> DEFINE e == closing[t].excused \/ (spot > 0 /\ ~coin)
               c == [todo |-> closing[t].todo, qty |-> qty, excused |-> e]
    <2>1. e \in BOOLEAN
      OBVIOUS
    <2>9. /\ closing[t].excused => e
          /\ e = FALSE => ~(spot > 0 /\ ~coin)
          /\ left' = (left \/ (spot > 0 /\ ~coin))
          /\ closing' = [closing EXCEPT ![t] = c]
      BY <1>2
    <2> HIDE DEF e
    <2>2. /\ c \in Closing /\ c.qty = qty /\ c.excused = e
      BY <1>1, <2>1 DEF Closing
    <2>3. /\ pc' = [pc EXCEPT ![t] = step] /\ closing' = [closing EXCEPT ![t] = c]
          /\ step \in Steps
      BY <1>2, <2>9 DEF Go, Steps
    <2> HIDE DEF c
    <2>4. pc'[t] = step /\ closing'[t] = c
      BY <1>1, <2>3 DEF StateTyped
    <2>5. SpotKnown(t)'
      <3>1. ~c.excused => ~(spot > 0 /\ ~coin)
        BY <2>1, <2>2, <2>9
      <3>2. /\ step = "sell" /\ ~c.excused => spot <= qty
            /\ step = "buy" /\ ~c.excused => spot = 0
        BY <1>1, <1>2, <3>1 DEF Picked
      <3> QED
        BY <1>1, <2>2, <2>4, <3>1, <3>2 DEF SpotKnown
    <2>6. left' \in BOOLEAN /\ (left => left') /\ (t = "cycle" /\ c.excused => left')
      <3>1. left' \in BOOLEAN /\ (left => left')
        BY <1>1, <2>9
      <3>2. t = "cycle" /\ c.excused => left'
        <4>1. e => closing[t].excused \/ (spot > 0 /\ ~coin)
          BY DEF e
        <4> QED
          BY <1>1, <2>2, <2>9, <4>1 DEF PosInv
      <3> QED
        BY <3>1, <3>2
    <2>7. /\ spot' <= spot /\ owed' - coins' <= owed - coins
          /\ stops'["margin"] = stops["margin"] /\ stops'["spot"] = stops["spot"]
      BY <1>1, Known
    <2> QED
      BY <1>1, <2>2, <2>3, <2>5, <2>6, <2>7, ClosingStep
  <1>3. ASSUME NEW coin \in BOOLEAN, ~coin,
               Closed(t, IF spot > 0 /\ ~coin THEN "excused" ELSE "closed"), UNCHANGED left
        PROVE  PosInv'
    <2>1. CASE spot > 0
      <3>1. Closed(t, "excused")
        BY <1>3, <2>1
      <3> QED
        BY <1>1, <1>3, <3>1, ClosedStep, Known
    <2>2. CASE ~(spot > 0)
      <3>1. Closed(t, "closed") /\ spot = 0
        BY <1>1, <1>3, <2>2
      <3> QED
        BY <1>1, <1>3, <3>1, ClosedStep, Known
    <2> QED
      BY <2>1, <2>2
  <1>4. CASE Fails(t) /\ UNCHANGED left
    BY <1>1, <1>4, ClosedStep, Known
  <1> QED
    BY <1>2, <1>3, <1>4 DEF Pick

LEMMA SellStep ==
    ASSUME PosInv, NEW t \in Threads, Sell(t)
    PROVE  PosInv'
  <1>1. /\ StateTyped /\ closing[t] \in Closing /\ UNCHANGED watch
        /\ closing[t].qty \in 0..MaxCoins
        /\ spot \in Int /\ pc[t] = "sell" /\ pc[t] \in ClosingSteps /\ "cancel" \in Steps
    BY Known DEF PosInv, Sell, At, ClosingSteps, Steps
  <1>2. closing[t].excused = TRUE \/ spot <= closing[t].qty
    BY <1>1 DEF PosInv, SpotKnown, Closing
  <1>3. ASSUME SellsSpot(closing[t].qty)
        PROVE  /\ AccountTypes' /\ spot' <= spot /\ UNCHANGED <<coins, owed, stops>>
               /\ closing[t].excused = TRUE \/ spot' = 0
    BY <1>1, <1>2, <1>3, SellsSpotTypes, Known DEF SellsSpot
  <1>4. ASSUME SellsPart(closing[t].qty)
        PROVE  AccountTypes' /\ spot' <= spot /\ UNCHANGED <<coins, owed, stops>>
    BY <1>1, <1>4, SellsPartTypes
  <1>5. CASE SellsSpot(closing[t].qty) /\ Proceeds(t, "cancel") /\ UNCHANGED left
    <2>1. AccountTypes' /\ spot' <= spot /\ (closing[t].excused = TRUE \/ spot' = 0)
      BY <1>3, <1>5
    <2>2. /\ owed' - coins' <= owed - coins /\ stops'["margin"] = stops["margin"]
          /\ stops'["spot"] = stops["spot"]
      BY <1>1, <1>3, <1>5, Known
    <2> QED
      BY <1>1, <1>5, <2>1, <2>2, ProceedsStep
  <1>6. CASE SellsPart(closing[t].qty) /\ Excuses(t) /\ Go(t, "cancel") /\ left' = TRUE
    BY <1>1, <1>4, <1>6, ExcusedStep
  <1>7. CASE /\ Raises(SellsSpot(closing[t].qty) \/ SellsPart(closing[t].qty))
             /\ Fails(t) /\ UNCHANGED left
    <2>1. /\ AccountTypes' /\ spot' <= spot
          /\ owed' - coins' <= owed - coins /\ UNCHANGED stops
      <3>1. CASE SellsSpot(closing[t].qty)
        BY <1>1, <1>3, <3>1, Known
      <3>2. CASE SellsPart(closing[t].qty)
        BY <1>1, <1>4, <3>2, Known
      <3>3. CASE UNCHANGED account
        BY <1>1, <3>3, Known DEF account, AccountTypes
      <3> QED
        BY <1>7, <3>1, <3>2, <3>3 DEF Raises
    <2> QED
      BY <1>1, <1>7, <2>1, ClosedStep, Known
  <1> QED
    BY <1>5, <1>6, <1>7 DEF Sell

LEMMA BuyStep ==
    ASSUME PosInv, NEW t \in Threads, Buy(t)
    PROVE  PosInv'
  <1> DEFINE bought == BuysMargin(closing[t].qty) \/ BuysPart(closing[t].qty)
  <1>1. /\ StateTyped /\ closing[t] \in Closing /\ UNCHANGED <<watch, left>>
        /\ closing[t].qty \in 0..MaxCoins
        /\ spot \in Int /\ pc[t] = "buy" /\ pc[t] \in ClosingSteps
    BY Known DEF PosInv, Buy, At, ClosingSteps
  <1>2. closing[t].excused = TRUE \/ spot = 0
    BY <1>1 DEF PosInv, SpotKnown, Closing
  <1>3. ASSUME bought \/ UNCHANGED account
        PROVE  /\ AccountTypes' /\ UNCHANGED <<spot, stops>>
               /\ owed' - coins' <= owed - coins
    BY <1>1, <1>3, BuysMarginTypes, BuysPartTypes, Known DEF account, AccountTypes
  <1>4. CASE bought /\ Proceeds(t, "repay")
    <2>1. /\ AccountTypes' /\ spot' <= spot /\ stops'["margin"] = stops["margin"]
          /\ stops'["spot"] = stops["spot"] /\ owed' - coins' <= owed - coins
          /\ closing[t].excused = TRUE \/ spot' = 0
          /\ "repay" \in Steps
      BY <1>1, <1>2, <1>3, <1>4 DEF Steps
    <2> QED
      BY <1>1, <1>4, <2>1, ProceedsStep
  <1>5. CASE Raises(bought) /\ Fails(t)
    <2>1. bought \/ UNCHANGED account
      BY <1>5 DEF Raises
    <2> QED
      BY <1>1, <1>2, <1>3, <1>5, <2>1, ClosedStep, Known
  <1> QED
    BY <1>4, <1>5 DEF Buy

LEMMA RepayStep ==
    ASSUME PosInv, NEW t \in Threads, Repay(t)
    PROVE  PosInv'
  <1>1. /\ StateTyped /\ closing[t] \in Closing /\ UNCHANGED <<watch, left>>
        /\ closing[t].qty \in 0..MaxCoins
        /\ Proceeds(t, "cancel") \/ Fails(t)
        /\ spot \in Int /\ pc[t] = "repay" /\ pc[t] \in ClosingSteps
    BY Known DEF PosInv, Repay, At, ClosingSteps
  <1>2. closing[t].excused = TRUE \/ spot = 0
    BY <1>1 DEF PosInv, SpotKnown, Closing
  <1>3. /\ AccountTypes' /\ UNCHANGED <<spot, stops>>
        /\ owed' - coins' = owed - coins
    BY <1>1, RepaysTypes, Known DEF Repay, account, AccountTypes
  <1>4. /\ spot' <= spot /\ owed' - coins' <= owed - coins /\ stops'["margin"] = stops["margin"]
        /\ stops'["spot"] = stops["spot"] /\ "cancel" \in Steps
    BY <1>1, <1>3, Known DEF Steps
  <1>5. CASE Proceeds(t, "cancel")
    BY <1>1, <1>2, <1>3, <1>4, <1>5, ProceedsStep
  <1>6. CASE Fails(t)
    BY <1>1, <1>3, <1>4, <1>6, ClosedStep
  <1> QED
    BY <1>1, <1>5, <1>6

LEMMA CancelStep ==
    ASSUME PosInv, NEW t \in Threads, Cancel(t)
    PROVE  PosInv'
  <1>1. /\ StateTyped /\ closing[t] \in Closing /\ UNCHANGED <<watch, left>>
        /\ spot \in Int /\ pc[t] = "cancel" /\ pc[t] \in ClosingSteps
        /\ CancelsSpotStops /\ (Closed(t, "closed") \/ Fails(t))
    BY Known DEF PosInv, Cancel, At, ClosingSteps
  <1>2. closing[t].excused = TRUE \/ spot = 0
    BY <1>1 DEF PosInv, SpotKnown, Closing
  <1>3. /\ AccountTypes' /\ UNCHANGED <<spot, coins, owed>>
        /\ stops'["margin"] = stops["margin"]
    BY <1>1, CancelsTypes
  <1>4. spot = 0 \/ left
    BY <1>2 DEF PosInv, LeftWhenClosing, ClosingSteps, Threads, Cancel, At
  <1>5. CASE Closed(t, "closed")
    BY <1>1, <1>2, <1>3, <1>4, <1>5, ClosedStep, Known
  <1>6. CASE Fails(t)
    BY <1>1, <1>2, <1>3, <1>4, <1>6, ClosedStep, Known
  <1> QED
    BY <1>1, <1>5, <1>6

\* A closer that starts sets left.
LEMMA CloserStartStep ==
    ASSUME PosInv, NEW t \in Closers, CloserStart(t)
    PROVE  PosInv'
  <1>1. /\ StateTyped /\ AccountTypes' /\ UNCHANGED <<spot, coins, owed, stops, watch, closing>>
        /\ t \in Threads /\ closing[t] \in Closing /\ t # "cycle"
        /\ left' = TRUE /\ spot \in Int
    BY Known DEF PosInv, CloserStart, account, AccountTypes
  <1>2. PICK step \in {"cancelFirst", "list"} : Go(t, step)
    BY DEF CloserStart
  <1>3. /\ pc' = [pc EXCEPT ![t] = step] /\ closing' = [closing EXCEPT ![t] = closing[t]]
        /\ step \in Steps /\ spot' <= spot
    BY <1>1, <1>2 DEF Go, StateTyped, Steps
  <1>4. pc'[t] = step
    BY <1>1, <1>3 DEF StateTyped
  <1>5. SpotKnown(t)' /\ CoveredUntilLeft'
    BY <1>1, <1>4 DEF SpotKnown, CoveredUntilLeft
  <1> QED
    BY <1>1, <1>3, <1>5, CloserStep

LEMMA CancelAllStep ==
    ASSUME PosInv, NEW t \in Closers, CancelAll(t)
    PROVE  PosInv'
  <1>1. /\ StateTyped /\ t \in Threads /\ closing[t] \in Closing /\ spot \in Int
        /\ CancelsSpotStops /\ UNCHANGED <<watch, left>>
    BY Known DEF PosInv, CancelAll
  <1>2. PICK step \in {"list", "done"} :
            /\ Proceeds(t, step) /\ pc[t] \in ClosingSteps /\ pc[t] # "rest"
            /\ step = "list" \/ pc[t] = "cancelLast"
    BY DEF CancelAll, At, ClosingSteps
  <1>3. left = TRUE
    BY <1>1, <1>2 DEF PosInv, LeftWhenClosing, StateTyped
  <1>4. /\ AccountTypes' /\ UNCHANGED <<spot, coins, owed>>
        /\ stops'["margin"] = stops["margin"]
    BY <1>1, CancelsTypes
  <1>5. \/ step = "list" \/ spot' = 0
        \/ closing[t].excused = TRUE
    <2>1. CASE step = "done" /\ closing[t].excused = FALSE
      BY <1>1, <1>2, <1>4, <2>1 DEF PosInv, SpotKnown
    <2> QED
      BY <1>1, <1>2, <2>1 DEF Closing
  <1>6. /\ spot' <= spot /\ owed' - coins' <= owed - coins /\ step \in Steps
        /\ stops'["spot"] = stops["spot"] \/ spot' = 0 \/ left
    BY <1>1, <1>3, <1>4, Known DEF Steps
  <1> QED
    BY <1>1, <1>2, <1>4, <1>5, <1>6, ProceedsStep

LEMMA ListStep ==
    ASSUME PosInv, NEW t \in Closers, List(t)
    PROVE  PosInv'
  <1>1. /\ StateTyped /\ t \in Threads /\ closing[t] \in Closing /\ t # "cycle"
        /\ UNCHANGED <<spot, coins, owed, stops, watch, left>> /\ left' \in BOOLEAN
        /\ AccountTypes' /\ spot \in Int /\ pc[t] \in ClosingSteps
        /\ spot \in 0..MaxCoins
    BY Known DEF PosInv, List, At, ClosingSteps, account, AccountTypes, StateTyped
  <1>2. /\ spot' <= spot /\ owed' - coins' <= owed - coins
        /\ stops'["margin"] = stops["margin"] /\ stops'["spot"] = stops["spot"]
    BY <1>1, Known
  <1>3. ASSUME NEW coin \in BOOLEAN, NEW margin \in BOOLEAN, NEW found,
               found = Positions(coin, margin),
               closing' = [closing EXCEPT ![t] =
                   [todo |-> found, qty |-> 0,
                    excused |-> closing[t].excused \/ (spot > 0 /\ ~coin)]],
               Go(t, CASE found > 0 -> "pick"
                       [] found = 0 /\ t = "sigterm" -> "cancelLast"
                       [] OTHER -> "done")
        PROVE  PosInv'
    <2> DEFINE e == closing[t].excused \/ (spot > 0 /\ ~coin)
               c == [todo |-> found, qty |-> 0, excused |-> e]
    <2>1. found \in 0..2 /\ (found = 0 => ~coin)
      BY <1>3 DEF Positions
    <2>3. /\ e \in BOOLEAN /\ (e = FALSE => ~(spot > 0 /\ ~coin))
          /\ closing' = [closing EXCEPT ![t] = c]
      BY <1>3
    <2> HIDE DEF e
    <2>2. c \in Closing /\ c.excused = e
      BY <1>1, <2>1, <2>3, PositionsAssumption DEF Closing
    <2> HIDE DEF c
    <2>4. PICK step \in {"pick", "cancelLast", "done"} :
              pc' = [pc EXCEPT ![t] = step] /\ (step = "pick" \/ found = 0)
      <3>1. CASE found > 0
        <4>1. found # 0
          BY <2>1, <3>1
        <4>2. pc' = [pc EXCEPT ![t] = "pick"]
          BY <1>3, <3>1, <4>1 DEF Go
        <4> QED
          BY <4>2
      <3>2. CASE found = 0 /\ t = "sigterm"
        BY <1>3, <3>2 DEF Go
      <3>3. CASE found = 0 /\ t # "sigterm"
        BY <1>3, <3>3 DEF Go
      <3> QED
        BY <2>1, <3>1, <3>2, <3>3
    <2>5. pc'[t] = step /\ closing'[t] = c /\ step \in Steps
      BY <1>1, <2>2, <2>3, <2>4 DEF StateTyped, Steps
    <2>6. SpotKnown(t)'
      BY <1>1, <2>1, <2>2, <2>3, <2>4, <2>5 DEF SpotKnown
    <2> QED
      BY <1>1, <1>2, <2>2, <2>3, <2>4, <2>5, <2>6, ClosingStep
  <1>4. CASE Excuses(t) /\ Go(t, "done")
    BY <1>1, <1>2, <1>4, ExcusedStep DEF Steps
  <1> QED
    BY <1>3, <1>4 DEF List

LEMMA ReportStep ==
    ASSUME PosInv, Report
    PROVE  PosInv'
  <1>1. /\ StateTyped /\ "telegram" \in Threads /\ "telegram" # "cycle"
        /\ UNCHANGED <<spot, coins, owed, stops, watch, left>> /\ left' \in BOOLEAN
        /\ AccountTypes' /\ pc["telegram"] \in ClosingSteps
        /\ Fresh \in Closing /\ "rest" \in Steps
    BY Known, PositionsAssumption
    DEF PosInv, Report, At, ClosingSteps, account, AccountTypes, Fresh, Closing, Steps,
        StateTyped
  <1>2. /\ spot' <= spot /\ owed' - coins' <= owed - coins
        /\ stops'["margin"] = stops["margin"] /\ stops'["spot"] = stops["spot"]
    BY <1>1, Known
  <1>3. /\ pc' = [pc EXCEPT !["telegram"] = "rest"]
        /\ closing' = [closing EXCEPT !["telegram"] = Fresh]
    BY DEF Report, Go
  <1>4. pc'["telegram"] = "rest"
    BY <1>1, <1>3 DEF StateTyped
  <1>5. SpotKnown("telegram")'
    BY <1>4 DEF SpotKnown
  <1> QED
    BY <1>1, <1>2, <1>3, <1>5, ClosingStep

-----------------------------------------------------------------------------
(* The process, the watchdog and the exchange.                             *)

LEMMA EndsStep ==
    ASSUME PosInv, Ends
    PROVE  PosInv'
  <1>1. /\ StateTyped /\ UNCHANGED <<spot, coins, owed, stops>>
        /\ Fresh \in Closing /\ Fresh.excused = FALSE /\ "cycle" \in Threads
        /\ "rest" \in Steps
    BY Known, PositionsAssumption DEF PosInv, Ends, account, Fresh, Closing, Steps
  <1>2. \A t \in Threads : pc'[t] = "rest" /\ closing'[t] = Fresh
    BY DEF Ends
  <1>3. /\ left' \in BOOLEAN
        /\ ~left' => ~left /\ pc["cycle"] \notin {"protectSpot", "panicSpot",
                                                  "protectMargin", "panicMargin"}
    BY <1>1 DEF Ends, StateTyped
  <1>4. StateTyped'
    BY <1>1, <1>3 DEF Ends, StateTyped
  <1>5. LeftWhenClosing' /\ \A t \in Threads : SpotKnown(t)'
    BY <1>2, Known DEF LeftWhenClosing, SpotKnown, PosInv
  <1>6. CoveredUntilLeft'
    BY <1>1, <1>2, <1>3, Known, Entered DEF PosInv, CoveredUntilLeft
  <1> QED
    BY <1>1, <1>2, <1>4, <1>5, <1>6 DEF PosInv

\* What leaves the threads and history alone, and adds no coin on spot.
LEMMA OutsideStep ==
    ASSUME PosInv, UNCHANGED <<pc, closing, left>>, AccountTypes', spot' <= spot,
           watch' \in {"rest", "looks", "protected"}, CoveredUntilLeft'
    PROVE  PosInv'
  <1>1. StateTyped /\ StateTyped'
    BY DEF PosInv, StateTyped, AccountTypes
  <1>2. LeftWhenClosing'
    BY DEF PosInv, LeftWhenClosing
  <1>3. spot' \in Int /\ spot' >= 0
    BY <1>1, Known DEF AccountTypes
  <1>4. \A t \in Threads : SpotKnown(t)'
    BY <1>1, <1>3, KnownKept DEF PosInv
  <1> QED
    BY <1>1, <1>2, <1>4 DEF PosInv

LEMMA WatchStep ==
    ASSUME PosInv, WatchStart \/ WatchLook \/ WatchEnd
    PROVE  PosInv'
  <1>1. /\ StateTyped /\ AccountTypes' /\ UNCHANGED <<spot, coins, owed, stops, pc, closing, left>>
        /\ watch' \in {"rest", "looks", "protected"} /\ spot \in Int
    BY Known DEF PosInv, WatchStart, WatchLook, WatchEnd, account, AccountTypes
  <1>2. CoveredUntilLeft'
    BY <1>1, Entered DEF PosInv, CoveredUntilLeft
  <1> QED
    BY <1>1, <1>2, OutsideStep

LEMMA StopFillsStep ==
    ASSUME PosInv, StopFills
    PROVE  PosInv'
  <1>1. /\ StateTyped /\ UNCHANGED <<pc, closing, watch, left>>
        /\ "spot" \in Accounts /\ "margin" \in Accounts
        /\ watch' \in {"rest", "looks", "protected"}
    BY DEF PosInv, StopFills, Accounts, StateTyped
  <1>2. CASE /\ stops["spot"] > 0
             /\ stops' = [stops EXCEPT !["spot"] = @ - 1]
             /\ spot' = IF spot > 0 THEN spot - 1 ELSE 0
             /\ UNCHANGED <<coins, owed>>
    <2>1. /\ AccountTypes' /\ spot' <= spot
          /\ stops'["spot"] = stops["spot"] - 1 /\ stops'["margin"] = stops["margin"]
          /\ spot' = spot - 1 \/ spot' = 0
      <3>1. stops["spot"] - 1 \in 0..MaxCoins
        BY <1>1, <1>2, Known DEF StateTyped
      <3> QED
        BY <1>1, <1>2, <3>1, Known DEF AccountTypes
    <2>2. CoveredUntilLeft'
      BY <1>1, <1>2, <2>1, Known, Entered DEF PosInv, CoveredUntilLeft
    <2> QED
      BY <1>1, <2>1, <2>2, OutsideStep
  <1>3. CASE /\ stops["margin"] > 0 /\ coins < MaxCoins
             /\ stops' = [stops EXCEPT !["margin"] = @ - 1]
             /\ coins' = coins + 1
             /\ UNCHANGED <<spot, owed>>
    <2>1. /\ AccountTypes' /\ spot' <= spot
          /\ stops'["margin"] = stops["margin"] - 1 /\ stops'["spot"] = stops["spot"]
      <3>1. stops["margin"] - 1 \in 0..MaxCoins
        BY <1>1, <1>3, Known DEF StateTyped
      <3> QED
        BY <1>1, <1>3, <3>1, Known DEF AccountTypes
    <2>2. CoveredUntilLeft'
      BY <1>1, <1>3, <2>1, Known, Entered DEF PosInv, CoveredUntilLeft
    <2> QED
      BY <1>1, <2>1, <2>2, OutsideStep
  <1> QED
    BY <1>2, <1>3 DEF StopFills

-----------------------------------------------------------------------------

LEMMA PosInductive == PosInv /\ [Next]_vars => PosInv'
  <1> SUFFICES ASSUME PosInv, [Next]_vars PROVE PosInv'
    OBVIOUS
  <1>1. CASE CycleStep
    BY <1>1, CycleIdleStep, EnterSpotStep, ProtectSpotStep, PanicSpotStep, EnterMarginStep,
       SellShortStep, ProtectMarginStep, PanicMarginStep DEF CycleStep
  <1>2. CASE \E t \in Threads : CloseStep(t)
    BY <1>2, PickStep, SellStep, BuyStep, RepayStep, CancelStep DEF CloseStep
  <1>3. CASE \E t \in Closers : CloserStart(t) \/ CancelAll(t) \/ List(t)
    BY <1>3, CloserStartStep, CancelAllStep, ListStep
  <1>4. CASE Report \/ Ends \/ WatchStart \/ WatchLook \/ WatchEnd \/ StopFills
    BY <1>4, ReportStep, EndsStep, WatchStep, StopFillsStep
  <1>5. CASE UNCHANGED vars
    <2>1. /\ AccountTypes' /\ UNCHANGED <<spot, coins, owed, stops, pc, closing, watch, left>>
          /\ spot \in Int /\ StateTyped
      BY <1>5, Known DEF vars, account, PosInv, AccountTypes
    <2>2. CoveredUntilLeft'
      BY <2>1, Entered DEF PosInv, CoveredUntilLeft
    <2> QED
      BY <2>1, <2>2, OutsideStep DEF StateTyped
  <1> QED
    BY <1>1, <1>2, <1>3, <1>4, <1>5 DEF Next

LEMMA PosAlways == Spec => []PosInv
  <1>1. Init => PosInv
    BY InitPosInv
  <1>2. PosInv /\ [Next]_vars => PosInv'
    BY PosInductive
  <1> QED
    BY <1>1, <1>2, PTL DEF Spec

-----------------------------------------------------------------------------
(* The margin account.                                                     *)

\* Until something strays nobody but the cycle acts on it, and each step of a short
\* finds the debt of the step before.
MarginKnown ==
    strayed = FALSE =>
        /\ \A t \in Closers : pc[t] = "rest"
        /\ pc["cycle"] = "short" => coins = 1
        /\ pc["cycle"] = "repay" => coins = closing["cycle"].qty
        /\ pc["cycle"] \notin {"short", "repay"} => coins = 0
        /\ pc["cycle"] \in {"short", "protectMargin", "panicMargin"} => owed > 0
        /\ pc["cycle"] \in {"buy", "repay"} => closing["cycle"].qty = owed

\* What has strayed stays so.
LEMMA StrayedStays ==
    ASSUME PosInv, strayed \in BOOLEAN, [Next]_vars
    PROVE  strayed' \in BOOLEAN /\ (strayed' = FALSE => strayed = FALSE)
  <1> DEFINE Stays == strayed' \in BOOLEAN /\ (strayed' = FALSE => strayed = FALSE)
  <1>1. ASSUME NEW here, Strays(here) PROVE Stays
    <2>1. strayed' = (strayed \/ here)
      BY <1>1 DEF Strays
    <2> QED
      BY <2>1, Zenon
  <1>2. CASE CycleStep
    <2>1. Stays \/ EnterMargin \/ SellShort
      BY <1>2 DEF CycleStep, CycleStart, CycleEnd, EnterSpot, ProtectSpot, PanicSpot,
         ProtectMargin, PanicMargin, CloseSignal
    <2> QED
      BY <1>1, <2>1 DEF EnterMargin, SellShort
  <1>3. ASSUME NEW t \in Threads, CloseStep(t) PROVE Stays
    <2>1. Stays \/ Buy(t) \/ Repay(t)
      BY <1>3 DEF CloseStep, Pick, Sell, Cancel
    <2> QED
      BY <1>1, <2>1 DEF Buy, Repay
  <1>4. ASSUME NEW t \in Closers, CloserStart(t) \/ CancelAll(t) \/ List(t) PROVE Stays
    BY <1>4 DEF CloserStart, CancelAll, List
  <1>5. CASE Ends
    BY <1>1, <1>5 DEF Ends
  <1>6. CASE Report \/ WatchStart \/ WatchLook \/ WatchEnd \/ StopFills \/ UNCHANGED vars
    BY <1>6 DEF Report, WatchStart, WatchLook, WatchEnd, StopFills, vars
  <1> QED
    BY <1>2, <1>3, <1>4, <1>5, <1>6 DEF Next

LEMMA CycleGoes ==
    ASSUME StateTyped, NEW step, Go("cycle", step)
    PROVE  pc'["cycle"] = step /\ \A t \in Closers : pc'[t] = pc[t]
  BY Known DEF Go, StateTyped

\* A step that does not touch the account, nor enter or leave a short or a closing of one.
LEMMA MarginStays ==
    ASSUME MarginKnown, strayed = FALSE, UNCHANGED <<coins, owed>>,
           \A t \in Closers : pc'[t] = pc[t],
           pc["cycle"] \notin {"short", "repay"},
           pc'["cycle"] \notin {"short", "protectMargin", "panicMargin", "buy", "repay"}
    PROVE  MarginKnown'
  BY DEF MarginKnown

LEMMA MarginSame ==
    ASSUME MarginKnown, strayed' = FALSE => strayed = FALSE,
           UNCHANGED <<coins, owed, pc>>, closing'["cycle"] = closing["cycle"]
    PROVE  MarginKnown'
  BY DEF MarginKnown

LEMMA SpotKeepsMargin ==
    ASSUME PosInv, MarginKnown, strayed = FALSE,
           CycleStart \/ CycleEnd \/ EnterSpot \/ ProtectSpot \/ PanicSpot \/ CloseSignal
    PROVE  MarginKnown'
  <1>1. UNCHANGED <<coins, owed>>
    BY DEF CycleStart, CycleEnd, EnterSpot, ProtectSpot, PanicSpot, CloseSignal, Calls,
       Escapes, Raises, BuysSpot, SellsSpot, Stops, account
  <1>2. PICK step \in {"rest", "signals", "protectSpot", "panicSpot", "pick"} :
            Go("cycle", step)
    BY DEF CycleStart, CycleEnd, EnterSpot, ProtectSpot, PanicSpot, CloseSignal, Calls,
       Escapes
  <1>3. pc["cycle"] \in {"rest", "signals", "protectSpot", "panicSpot"}
    BY DEF CycleStart, CycleEnd, EnterSpot, ProtectSpot, PanicSpot, CloseSignal, Calls,
       Escapes, At
  <1> QED
    BY <1>1, <1>2, <1>3, CycleGoes, MarginStays DEF PosInv

\* The entry of a short: borrowed, sold, protected or bought back.
LEMMA ShortKeepsMargin ==
    ASSUME PosInv, MarginKnown, strayed = FALSE, strayed' = FALSE,
           EnterMargin \/ SellShort \/ ProtectMargin \/ PanicMargin
    PROVE  MarginKnown'
  <1>1. /\ StateTyped /\ coins \in Int /\ owed \in Int /\ owed >= 0
        /\ \A t \in Closers : pc[t] = "rest"
    BY Known DEF PosInv, MarginKnown, StateTyped
  <1>2. CASE EnterMargin
    <2>1. pc["cycle"] = "signals" /\ coins = 0
      BY <1>2 DEF EnterMargin, Calls, At, MarginKnown
    <2>2. CASE Borrows /\ Go("cycle", "short")
      BY <1>1, <2>1, <2>2, CycleGoes DEF Borrows, MarginKnown
    <2>3. CASE Go("cycle", "signals")
      <3>1. ~(coins' # coins /\ pc'["cycle"] = "signals")
        BY <1>2 DEF EnterMargin, Strays
      <3>2. coins' = coins
        BY <1>1, <2>3, <3>1, CycleGoes
      <3> QED
        BY <1>1, <2>1, <2>3, <3>2, CycleGoes DEF MarginKnown
    <2> QED
      BY <1>2, <2>2, <2>3 DEF EnterMargin, Calls
  <1>3. CASE SellShort
    <2>1. pc["cycle"] = "short" /\ coins = 1 /\ owed > 0
      BY <1>3 DEF SellShort, Calls, At, MarginKnown
    <2>2. coins' # coins
      BY <1>3 DEF SellShort, Strays
    <2>3. SellsMargin
      BY <1>3, <2>2 DEF SellShort, Calls, Raises, account
    <2>4. coins' = 0 /\ owed' = owed
      BY <2>1, <2>3 DEF SellsMargin
    <2>5. Go("cycle", "protectMargin") \/ Go("cycle", "signals")
      BY <1>3 DEF SellShort, Calls
    <2> QED
      BY <1>1, <2>1, <2>4, <2>5, CycleGoes DEF MarginKnown
  <1>4. CASE ProtectMargin
    <2>1. pc["cycle"] = "protectMargin" /\ UNCHANGED <<coins, owed>>
      BY <1>4 DEF ProtectMargin, Calls, Escapes, Raises, At, Stops, account
    <2>2. Go("cycle", "signals") \/ Go("cycle", "panicMargin")
      BY <1>4 DEF ProtectMargin, Calls, Escapes
    <2> QED
      BY <1>1, <2>1, <2>2, CycleGoes DEF MarginKnown
  <1>5. CASE PanicMargin
    <2>1. pc["cycle"] = "panicMargin" /\ coins = 0 /\ owed > 0
      BY <1>5 DEF PanicMargin, Calls, At, MarginKnown
    <2>2. Go("cycle", "signals") /\ (BuysBack \/ UNCHANGED account)
      BY <1>5 DEF PanicMargin, Calls, Raises
    <2>3. coins' = 0
      BY <2>1, <2>2 DEF BuysBack, account
    <2> QED
      BY <1>1, <2>2, <2>3, CycleGoes DEF MarginKnown
  <1> QED
    BY <1>2, <1>3, <1>4, <1>5

\* A CLOSE of the cycle: what it reads it buys, and what it buys it repays.
LEMMA CloseKeepsMargin ==
    ASSUME PosInv, MarginKnown, strayed = FALSE, strayed' = FALSE, CloseStep("cycle")
    PROVE  MarginKnown'
  <1>1. /\ StateTyped /\ coins \in Int /\ owed \in Int /\ "cycle" \in Threads
        /\ closing["cycle"] \in Closing /\ closing["cycle"].qty \in Int
        /\ \A t \in Closers : pc[t] = "rest"
    BY Known DEF PosInv, MarginKnown
  <1>2. \A outcome : Closed("cycle", outcome) =>
            Go("cycle", "signals") /\ closing'["cycle"] = Fresh
    BY <1>1 DEF Closed, StateTyped
  <1>3. Fails("cycle") => Go("cycle", "signals") /\ closing'["cycle"] = Fresh
    BY <1>2 DEF Fails
  <1>4. CASE Pick("cycle")
    <2>1. pc["cycle"] = "pick" /\ coins = 0 /\ UNCHANGED <<coins, owed>>
      BY <1>4 DEF Pick, At, MarginKnown, account
    <2>2. CASE Go("cycle", "signals")
      BY <1>1, <2>1, <2>2, CycleGoes DEF MarginKnown
    <2>3. ASSUME NEW coin, NEW margin, NEW step \in {"sell", "buy"}, NEW qty \in 1..MaxCoins,
                 NEW c, Picked(coin, margin, step, qty), c.qty = qty,
                 closing' = [closing EXCEPT !["cycle"] = c],
                 Go("cycle", step)
          PROVE  MarginKnown'
      <3>1. closing'["cycle"].qty = qty
        BY <1>1, <2>3 DEF StateTyped
      <3>2. step = "buy" => qty = owed
        BY <2>3 DEF Picked
      <3> QED
        BY <1>1, <2>1, <2>3, <3>1, <3>2, CycleGoes DEF MarginKnown
    <2>5. ASSUME NEW coin \in BOOLEAN, NEW margin \in BOOLEAN, NEW e,
                 NEW step \in {"sell", "buy"}, NEW qty \in 1..MaxCoins,
                 Picked(coin, margin, step, qty), Go("cycle", step),
                 closing' = [closing EXCEPT !["cycle"] =
                     [todo |-> closing["cycle"].todo, qty |-> qty, excused |-> e]]
          PROVE  MarginKnown'
      <3> DEFINE c == [todo |-> closing["cycle"].todo, qty |-> qty, excused |-> e]
      <3>1. c.qty = qty /\ closing' = [closing EXCEPT !["cycle"] = c]
        BY <2>5
      <3> HIDE DEF c
      <3> QED
        BY <2>3, <2>5, <3>1
    <2>6. ASSUME NEW outcome, Closed("cycle", outcome) PROVE MarginKnown'
      BY <1>2, <2>2, <2>6
    <2> QED
      BY <1>3, <1>4, <2>2, <2>5, <2>6 DEF Pick
  <1>5. CASE Sell("cycle") \/ Cancel("cycle")
    <2>1. pc["cycle"] \in {"sell", "cancel"} /\ UNCHANGED <<coins, owed>>
      BY <1>5 DEF Sell, Cancel, At, Raises, SellsSpot, SellsPart, CancelsSpotStops, account
    <2>2. Go("cycle", "cancel") \/ Go("cycle", "signals")
      BY <1>2, <1>3, <1>5 DEF Sell, Cancel, Proceeds
    <2>3. pc'["cycle"] \in {"cancel", "signals"} /\ \A t \in Closers : pc'[t] = pc[t]
      BY <1>1, <2>2, CycleGoes
    <2> QED
      BY <2>1, <2>3, MarginStays
  <1>6. CASE Buy("cycle")
    <2> DEFINE bought == BuysMargin(closing["cycle"].qty) \/ BuysPart(closing["cycle"].qty)
    <2>1. pc["cycle"] = "buy" /\ coins = 0 /\ closing["cycle"].qty = owed
      BY <1>6 DEF Buy, At, MarginKnown
    <2>2. CASE bought /\ Proceeds("cycle", "repay")
      <3>1. pc'["cycle"] = "repay" /\ owed' = owed /\ closing' = closing
        BY <1>1, <2>2, CycleGoes DEF Proceeds, BuysMargin, BuysPart
      <3>2. coins' = coins + closing["cycle"].qty
        BY <1>6, <3>1 DEF Buy, Strays
      <3> QED
        BY <1>1, <2>1, <2>2, <3>1, <3>2, CycleGoes DEF MarginKnown, Proceeds
    <2>3. CASE Raises(bought) /\ Fails("cycle")
      <3>1. Go("cycle", "signals") /\ pc'["cycle"] = "signals"
        BY <1>1, <1>3, <2>3, CycleGoes
      <3>2. coins' = coins
        BY <1>6, <3>1 DEF Buy, Strays
      <3> QED
        BY <1>1, <2>1, <3>1, <3>2, CycleGoes DEF MarginKnown
    <2> QED
      BY <1>6, <2>2, <2>3 DEF Buy
  <1>7. CASE Repay("cycle")
    <2>1. /\ pc["cycle"] = "repay" /\ coins = closing["cycle"].qty
          /\ Go("cycle", "cancel") \/ Go("cycle", "signals")
          /\ owed' # owed
      BY <1>3, <1>7 DEF Repay, At, MarginKnown, Proceeds, Strays
    <2>2. Repays(closing["cycle"].qty)
      BY <1>7, <2>1 DEF Repay, account
    <2>3. coins' = 0
      BY <1>1, <2>1, <2>2 DEF Repays
    <2> QED
      BY <1>1, <2>1, <2>3, CycleGoes DEF MarginKnown
  <1> QED
    BY <1>4, <1>5, <1>6, <1>7 DEF CloseStep

LEMMA StepKeepsMargin ==
    ASSUME PosInv, MarginKnown, strayed \in BOOLEAN, [Next]_vars
    PROVE  MarginKnown'
  <1> SUFFICES ASSUME strayed' = FALSE PROVE MarginKnown'
    BY DEF MarginKnown
  <1>1. strayed = FALSE
    BY StrayedStays
  <1>2. \A t \in Closers : pc[t] = "rest"
    BY <1>1 DEF MarginKnown
  <1>3. CASE CycleStep
    BY <1>1, <1>3, SpotKeepsMargin, ShortKeepsMargin DEF CycleStep
  <1>4. ASSUME NEW t \in Threads, CloseStep(t) PROVE MarginKnown'
    <2>1. pc[t] # "rest"
      BY <1>4 DEF CloseStep, Pick, Sell, Buy, Repay, Cancel, At
    <2>2. t = "cycle"
      BY <1>2, <2>1 DEF Threads
    <2> QED
      BY <1>1, <1>4, <2>2, CloseKeepsMargin
  <1>5. CASE \E t \in Closers : CloserStart(t) \/ CancelAll(t) \/ List(t)
    BY <1>2, <1>5 DEF CloserStart, CancelAll, List, At
  <1>6. CASE Report
    BY <1>2, <1>6 DEF Report, At
  <1>7. CASE Ends
    <2>1. \A t \in Threads : pc'[t] = "rest"
      BY <1>7 DEF Ends
    <2>2. pc["cycle"] \notin {"short", "repay"}
      BY <1>7 DEF Ends, Strays
    <2>3. UNCHANGED <<coins, owed>>
      BY <1>7 DEF Ends, account
    <2> QED
      BY <1>1, <1>2, <2>1, <2>2, <2>3, Known DEF MarginKnown, PosInv
  <1>8. CASE WatchStart \/ WatchLook \/ WatchEnd \/ StopFills \/ UNCHANGED vars
    <2>1. UNCHANGED <<coins, owed, pc, closing>>
      BY <1>8 DEF WatchStart, WatchLook, WatchEnd, StopFills, vars, account
    <2> QED
      BY <1>1, <2>1, MarginSame
  <1> QED
    BY <1>3, <1>4, <1>5, <1>6, <1>7, <1>8 DEF Next

LEMMA StrayAlways == Spec => [](strayed \in BOOLEAN /\ MarginKnown)
  <1>1. Init => strayed \in BOOLEAN /\ MarginKnown
    BY Known DEF Init, MarginKnown, Threads
  <1>2. PosInv /\ (strayed \in BOOLEAN /\ MarginKnown) /\ [Next]_vars
           => (strayed \in BOOLEAN /\ MarginKnown)'
    BY StrayedStays, StepKeepsMargin
  <1> QED
    BY <1>1, <1>2, PosAlways, PTL DEF Spec

\* Whatever fails, gets lost or dies, the account and the threads stay what they are
\* declared to be: no sale, repayment or cancellation makes a quantity negative.
THEOREM PosTyped == Spec => []TypeOK
  <1>1. PosInv /\ strayed \in BOOLEAN => TypeOK
    BY DEF PosInv, TypeOK
  <1> QED
    BY <1>1, PosAlways, StrayAlways, PTL

\* What uncovers a position of create_position and close_position: an entry left without
\* its stop, a CLOSE that cancels the stops of coins get_positions has passed over or of
\* which it sold a part, or a closer beside the cycle; nothing else does.
THEOREM PosCovered == Spec => []CoveredUntilLeft
  <1>1. PosInv => CoveredUntilLeft
    BY DEF PosInv
  <1> QED
    BY <1>1, PosAlways, PTL

\* A closing of close_all_positions or of the emergency close that no call broke leaves no
\* coin on spot, unless get_positions passed the coins over, the sale was filled in part,
\* or the cycle bought meanwhile.
THEOREM PosCloseFlattens == Spec => []CloseFlattens
  <1>1. PosInv => CloseFlattens
    BY Known DEF PosInv, CloseFlattens, SpotKnown, At
  <1> QED
    BY <1>1, PosAlways, PTL

\* Until a short is left half done, its stop fills or a closer comes, coins on margin
\* are those of the call under way, and a CLOSE buys back exactly what is owed
\* (create_position, close_position), for any number of coins and whatever fails on spot.
THEOREM PosMarginIsShort == Spec => []MarginIsShort
  <1>1. PosInv /\ strayed \in BOOLEAN /\ MarginKnown => MarginIsShort
    <2> SUFFICES ASSUME PosInv, MarginKnown, strayed = FALSE PROVE MarginIsShort
      BY DEF MarginIsShort
    <2>1. CASE pc["cycle"] = "short"
      BY <2>1 DEF MarginIsShort, MarginKnown, At
    <2>2. CASE pc["cycle"] = "repay"
      BY <2>2 DEF MarginIsShort, MarginKnown, At
    <2>3. CASE pc["cycle"] \notin {"short", "repay"}
      BY <2>3 DEF MarginIsShort, MarginKnown, At
    <2> QED
      BY <2>1, <2>2, <2>3
  <1> QED
    BY <1>1, PosAlways, StrayAlways, PTL

=============================================================================
