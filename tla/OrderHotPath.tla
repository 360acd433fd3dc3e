----------------------------- MODULE OrderHotPath -----------------------------
(***************************************************************************)
(* The two callers of the OrderTracker: the crypto cycle of worker.py and  *)
(* the IBKR futures cycle of core/worker/cycles/futures_runner.py, each on *)
(* a thread of its own (a crypto cycle that outlives its CycleRunner       *)
(* timeout goes on beside the main loop that runs the futures cycle; the   *)
(* cycle locks keep a second cycle of the same kind out).  Each drives one *)
(* fresh order at a time through the tracker, around the broker calls.     *)
(*                                                                         *)
(* The brokers are external: a call succeeds, fails before doing anything, *)
(* or fails after the exchange has executed it.  exposure[o] says what the *)
(* entry of order o has left at the broker.  Sizing, signals, take-profit  *)
(* prices, risk checks and journals are left out.                          *)
(***************************************************************************)
EXTENDS OrderTracker

CONSTANTS
    Crypto,      \* the thread of the crypto cycle
    Futures      \* the thread of the futures cycle

ASSUME CyclesAssumption == Crypto # Futures /\ Threads = {Crypto, Futures}

VARIABLES
    cycle,       \* where each cycle stands, its order, and the broker's answer
    exposure     \* what each order has left at the broker

hotVars == <<vars, cycle, exposure>>

\* Nothing held, a position without a stop-loss, a position whose stop-loss
\* order the broker has taken.
Exposures == {"flat", "naked", "protected"}

\* tracked: the cycle has an OSM order; filled: the broker's filled_qty > 0.
AtRest == [pc |-> "rest", o |-> NoOrder, tracked |-> FALSE, filled |-> FALSE]

CycleRecord ==
    [pc : {"rest", "create", "validate", "entry", "protect", "target",
           "report", "submit", "fill", "failed", "error"},
     o : Orders \cup {NoOrder}, tracked : BOOLEAN, filled : BOOLEAN]

HotTypeOK ==
    /\ TypeOK
    /\ cycle \in [Threads -> CycleRecord]
    /\ exposure \in [Orders -> Exposures]

HotInit ==
    /\ Init
    /\ cycle = [t \in Threads |-> AtRest]
    /\ exposure = [o \in Orders |-> "flat"]

\* The keys of the dict BinanceBroker.create_position() returns.
BinanceResultKeys ==
    {"orderId", "symbol", "side", "status", "qty", "filled_qty", "filled_price",
     "stop_loss", "sl_order_id", "paper", "authorized_by", "market_type"}

\* run_crypto_cycle() reads the broker id with result.get("order_id", "").
CryptoBrokerId == "order_id" \in BinanceResultKeys

\* A thread is between two calls of the tracker.
Back(t) == up /\ call[t].pc = "idle"

Move(t, pc) == cycle' = [cycle EXCEPT ![t].pc = pc]

Rest(t) == cycle' = [cycle EXCEPT ![t] = AtRest]

Expose(t, e) == exposure' = [exposure EXCEPT ![cycle[t].o] = e]

\* The market order may be executed without the cycle seeing it: after the call
\* raised, or after its status was read and the order cancelled.
MaybeExecuted(t) ==
    exposure' \in {exposure, [exposure EXCEPT ![cycle[t].o] = "naked"]}

-----------------------------------------------------------------------------
(* Both cycles: create_order() and validate() before the broker is called. *)

StartOrder(t) ==
    \E o \in Orders :
        /\ cycle[t].pc = "rest"
        /\ Create(t, o)
        /\ cycle' = [cycle EXCEPT ![t] = [AtRest EXCEPT !.pc = "create", !.o = o]]
        /\ UNCHANGED exposure

\* An exception of create_order() makes the cycle go on without the tracker.
AfterCreate(t) ==
    /\ cycle[t].pc = "create" /\ Back(t)
    /\ \/ /\ call[t].raised
          /\ Move(t, "entry")
          /\ UNCHANGED vars
       \/ /\ ~call[t].raised
          /\ Validate(t, cycle[t].o, TRUE)
          /\ Move(t, "validate")
    /\ UNCHANGED exposure

AfterValidate(t) ==
    /\ cycle[t].pc = "validate" /\ Back(t)
    /\ cycle' = [cycle EXCEPT ![t].pc = "entry", ![t].tracked = ~call[t].raised]
    /\ UNCHANGED <<vars, exposure>>

-----------------------------------------------------------------------------
(* BinanceBroker.create_position() and the crypto cycle around it.         *)

\* The market order: not filled, filled, or an exception -- raised before the
\* exchange did anything, or after it executed the order.
CryptoEntry ==
    /\ cycle[Crypto].pc = "entry" /\ Back(Crypto)
    /\ \/ Move(Crypto, "report") /\ UNCHANGED exposure
       \/ Move(Crypto, "protect") /\ Expose(Crypto, "naked")
       \/ Move(Crypto, "failed") /\ MaybeExecuted(Crypto)
    /\ UNCHANGED vars

\* The stop-loss order and, when it fails, the emergency close: each may fail
\* after the exchange has executed it.  When both fail the spot path reports a
\* fill and the margin path none.  An exception of the stop-loss order that is
\* not a BrokerError leaves before the emergency close.
CryptoProtect ==
    /\ cycle[Crypto].pc = "protect" /\ up
    /\ \E e \in Exposures :
          /\ Expose(Crypto, e)
          /\ \/ \E filled \in BOOLEAN :
                   cycle' = [cycle EXCEPT ![Crypto].pc = "report",
                                          ![Crypto].filled = filled]
             \/ e # "flat" /\ Move(Crypto, "failed")
    /\ UNCHANGED vars

CryptoReport ==
    /\ cycle[Crypto].pc = "report" /\ Back(Crypto)
    /\ \/ /\ cycle[Crypto].tracked
          /\ Submit(Crypto, cycle[Crypto].o, CryptoBrokerId)
          /\ Move(Crypto, "submit")
       \/ /\ ~cycle[Crypto].tracked
          /\ Rest(Crypto)
          /\ UNCHANGED vars
    /\ UNCHANGED exposure

\* fill() only when filled_qty > 0, skipped when submit() raised.  has_sl is
\* TRUE whether or not the broker took the stop: the cycle gives every order a
\* stop_loss, and "stop_loss is not None" is enough for it.
CryptoAfterSubmit ==
    LET c == cycle[Crypto] IN
    /\ c.pc = "submit" /\ Back(Crypto)
    /\ \/ /\ c.filled /\ ~call[Crypto].raised
          /\ Fill(Crypto, c.o, TRUE)
       \/ /\ ~c.filled \/ call[Crypto].raised
          /\ UNCHANGED vars
    /\ Move(Crypto, "fill")
    /\ UNCHANGED exposure

\* The checks and hooks after the fill are in the same try: they may raise.
CryptoHooksRaise ==
    /\ cycle[Crypto].pc = "fill" /\ Back(Crypto)
    /\ Move(Crypto, "failed")
    /\ UNCHANGED <<vars, exposure>>

\* except Exception: the order is marked ERROR.
CryptoFailed ==
    /\ cycle[Crypto].pc = "failed" /\ Back(Crypto)
    /\ \/ /\ cycle[Crypto].tracked
          /\ MarkError(Crypto, cycle[Crypto].o)
          /\ Move(Crypto, "error")
       \/ /\ ~cycle[Crypto].tracked
          /\ Rest(Crypto)
          /\ UNCHANGED vars
    /\ UNCHANGED exposure

-----------------------------------------------------------------------------
(* The futures cycle: market entry, stop-loss, take-profit, then the       *)
(* tracker.  An exception of placeOrder is only logged.                    *)

\* Filled; not filled when its status is read, hence cancelled; or placeOrder
\* raises, which the cycle only logs.
FuturesEntry ==
    /\ cycle[Futures].pc = "entry" /\ Back(Futures)
    /\ \/ Move(Futures, "protect") /\ Expose(Futures, "naked")
       \/ (Move(Futures, "failed") \/ Rest(Futures)) /\ MaybeExecuted(Futures)
    /\ UNCHANGED vars

\* Mutant of FuturesProtect: a failed stop-loss order does not stop the cycle.
FuturesProtectSwallowed ==
    /\ cycle[Futures].pc = "protect" /\ up
    /\ Move(Futures, "target")
    /\ Expose(Futures, "protected") \/ UNCHANGED exposure
    /\ UNCHANGED vars

FuturesProtect ==
    /\ cycle[Futures].pc = "protect" /\ up
    /\ \/ Move(Futures, "target") /\ Expose(Futures, "protected")
       \/ Rest(Futures) /\ (UNCHANGED exposure \/ Expose(Futures, "protected"))
    /\ UNCHANGED vars

FuturesTarget ==
    /\ cycle[Futures].pc = "target" /\ up
    /\ Move(Futures, "report") \/ Rest(Futures)
    /\ UNCHANGED <<vars, exposure>>

FuturesReport ==
    /\ cycle[Futures].pc = "report" /\ Back(Futures)
    /\ \/ /\ cycle[Futures].tracked
          /\ Submit(Futures, cycle[Futures].o, TRUE)
          /\ Move(Futures, "submit")
       \/ /\ ~cycle[Futures].tracked
          /\ Rest(Futures)
          /\ UNCHANGED vars
    /\ UNCHANGED exposure

FuturesAfterSubmit ==
    /\ cycle[Futures].pc = "submit" /\ Back(Futures)
    /\ \/ /\ ~call[Futures].raised
          /\ Fill(Futures, cycle[Futures].o, TRUE)
          /\ Move(Futures, "fill")
       \/ /\ call[Futures].raised
          /\ Rest(Futures)
          /\ UNCHANGED vars
    /\ UNCHANGED exposure

FuturesFailed ==
    /\ cycle[Futures].pc = "failed" /\ Back(Futures)
    /\ \/ /\ cycle[Futures].tracked
          /\ MarkError(Futures, cycle[Futures].o)
          /\ Move(Futures, "error")
       \/ /\ ~cycle[Futures].tracked
          /\ Rest(Futures)
          /\ UNCHANGED vars
    /\ UNCHANGED exposure

-----------------------------------------------------------------------------
\* The last call of the tracker for this order has returned or raised.
Done(t) ==
    /\ cycle[t].pc \in {"fill", "error"} /\ Back(t)
    /\ Rest(t)
    /\ UNCHANGED <<vars, exposure>>

TrackerStep(t) == Internal(t) /\ UNCHANGED <<cycle, exposure>>

\* The cycles die with the process; the positions stay at the broker.
HotCrash ==
    /\ Crash
    /\ cycle' = [t \in Threads |-> AtRest]
    /\ UNCHANGED exposure

HotBoot == Boot /\ UNCHANGED <<cycle, exposure>>

HotDamage == Damage /\ UNCHANGED <<cycle, exposure>>

CycleStep ==
    \/ \E t \in Threads : \/ StartOrder(t) \/ AfterCreate(t) \/ AfterValidate(t)
                          \/ Done(t) \/ TrackerStep(t)
    \/ CryptoEntry \/ CryptoProtect \/ CryptoReport \/ CryptoAfterSubmit
    \/ CryptoHooksRaise \/ CryptoFailed
    \/ FuturesEntry \/ FuturesProtect \/ FuturesTarget \/ FuturesReport
    \/ FuturesAfterSubmit \/ FuturesFailed

HotNext == CycleStep \/ HotCrash \/ HotBoot \/ HotDamage

HotSpec == HotInit /\ [][HotNext]_hotVars

-----------------------------------------------------------------------------
(* Properties.                                                             *)

\* Docstring invariant 1 against the broker: an order recorded as FILLED, in
\* memory or in the file, is one whose stop-loss the broker holds.
FilledIsProtected ==
    \A o \in Orders : "FILLED" \in {order[o].state, file[o].state}
                         => exposure[o] = "protected"

\* The way the cycles use the tracker -- an order of its own for each thread --
\* makes its unlocked transitions safe: every move of an order in memory is one
\* the table allows.
MovesAreLegal ==
    [][up /\ up' => \A o \in Orders :
         \/ ~Exists(order[o]) \/ order'[o].state = order[o].state
         \/ <<order[o].state, order'[o].state>> \in LegalTransitions]_hotVars

\* save_state() follows every transition and never precedes it: the file, and
\* any payload on its way to it, shows an order where it is or at an earlier place
\* of its life, never ahead and never in another terminal state.
FileNotAhead ==
    \A o \in registry :
        /\ Precedes(file[o].state, order[o].state)
        /\ \A t \in Threads : Precedes(call[t].snap[o].state, order[o].state)

(* The ledger that threads, payloads and the file's fields implement: an   *)
(* unreadable file keeps nothing.                                          *)
Ledger == INSTANCE OrderLedger WITH
    status <- [o \in Orders |-> order[o].state],
    kept <- [o \in Orders |-> IF readable THEN file[o].state ELSE NoState],
    drawn <- used,
    running <- up

\* The hot path implements the ledger: with two cycles whose saves may land in
\* reverse order, broker calls that fail half-way, crashes and a damaged file, an
\* order moves along the table only and a restart brings it back where it was or
\* at an earlier place, never one it had not reached.
LedgerSpec == Ledger!Spec

-----------------------------------------------------------------------------
(* What makes them hold.                                                   *)

Moving == {"check", "guard", "commit"}

\* Where a cycle is not waiting for the tracker.
Quiet == {"rest", "entry", "protect", "target", "report", "failed"}

\* Each cycle has an order of its own, nobody else moves it, and so what a
\* transition has found in it is still so when the state is assigned.
CyclesApart ==
    /\ \A o \in Orders : Exists(order[o]) => o \in used
    /\ \A t \in Threads :
        /\ cycle[t].pc # "rest" => up /\ cycle[t].o \in used
        /\ cycle[t].pc \in Quiet => call[t].pc = "idle"
        /\ call[t].pc \in Moving => call[t].o = cycle[t].o
        /\ call[t].pc = "guard" => call[t].from = order[call[t].o].state
        /\ call[t].pc = "commit" =>
              <<order[call[t].o].state, call[t].to>> \in LegalTransitions
    /\ \A t, u \in Threads :
        t # u /\ "rest" \notin {cycle[t].pc, cycle[u].pc} => cycle[t].o # cycle[u].o

\* Somewhere, in memory, in the file or on its way to it, o is FILLED.
ShownFilled(o) ==
    \/ order[o].state = "FILLED" \/ file[o].state = "FILLED"
    \/ \E t \in Threads : call[t].snap[o].state = "FILLED"

\* An order is not FILLED before its cycle has a stop for it, and no crypto
\* order ever gets as far as SUBMITTED.
FillsProtected ==
    /\ \A o \in Orders : ShownFilled(o) => exposure[o] = "protected"
    /\ \A t \in Threads :
        /\ cycle[t].pc \in {"create", "validate", "entry", "protect"}
              => ~ShownFilled(cycle[t].o)
        /\ call[t].pc \in Moving /\ call[t].to = "FILLED" => cycle[t].pc = "fill"
    /\ cycle[Futures].pc \in {"target", "report", "submit", "fill"}
          => exposure[cycle[Futures].o] = "protected"
    /\ cycle[Crypto].pc # "rest" => order[cycle[Crypto].o].state \notin ActiveStates
    /\ call[Crypto].pc \in Moving =>
          /\ call[Crypto].to # "PARTIAL"
          /\ call[Crypto].to = "SUBMITTED" =>
                ~call[Crypto].ctx.bid /\ call[Crypto].pc # "commit"

=============================================================================
