--------------------------- MODULE OrderHotPathProofs ---------------------------
(***************************************************************************)
(* OrderHotPath implements OrderTracker; its orders move along the table   *)
(* only, what is recorded as FILLED has its stop at the broker, and the    *)
(* file is never ahead of the orders.                                      *)
(*                                                                         *)
(* A step of a cycle is seen through its kind -- it starts an order, calls *)
(* the tracker, moves on quietly, or lets the tracker work -- and each     *)
(* invariant is shown for the kinds, not for the twenty actions.           *)
(***************************************************************************)
EXTENDS OrderHotPath, OrderTrackerProofs

-----------------------------------------------------------------------------
(* Every step of the cycles is a step of the tracker, or none.             *)

\* A call of the tracker's interface with some target state is one of its steps.
LEMMA CallsAreRequests ==
    ASSUME NEW t \in Threads, NEW o \in Orders, NEW b \in BOOLEAN,
           \/ Create(t, o) \/ Validate(t, o, b) \/ Submit(t, o, b)
           \/ Fill(t, o, b) \/ MarkError(t, o)
    PROVE  Next
  BY DEF Next, Request

LEMMA OrderIsOne ==
    ASSUME NEW t \in Threads, NEW o, NEW to, NEW ctx, TypeOK, Call(t, o, to, ctx)
    PROVE  o \in Orders
  BY DEF Call, TypeOK

LEMMA IdIsBoolean == CryptoBrokerId \in BOOLEAN
  BY DEF CryptoBrokerId

LEMMA HotStepIsStep ==
    ASSUME TypeOK, [HotNext]_hotVars
    PROVE  [Next]_vars
  <1> USE CyclesAssumption
  <1>1. ASSUME NEW t \in Threads,
               \/ StartOrder(t) \/ AfterCreate(t) \/ AfterValidate(t)
               \/ Done(t) \/ TrackerStep(t)
        PROVE  [Next]_vars
    <2>1. CASE StartOrder(t)
      BY <2>1, CallsAreRequests DEF StartOrder
    <2>2. CASE AfterCreate(t)
      BY <2>2, CallsAreRequests, OrderIsOne DEF AfterCreate, Validate
    <2>3. CASE AfterValidate(t) \/ Done(t)
      BY <2>3 DEF AfterValidate, Done
    <2>4. CASE TrackerStep(t)
      BY <2>4 DEF TrackerStep, Next
    <2> QED
      BY <1>1, <2>1, <2>2, <2>3, <2>4
  <1>2. CASE CryptoEntry \/ CryptoProtect \/ CryptoHooksRaise
    BY <1>2 DEF CryptoEntry, CryptoProtect, CryptoHooksRaise
  <1>3. CASE CryptoReport
    BY <1>3, IdIsBoolean, CallsAreRequests, OrderIsOne DEF CryptoReport, Submit
  <1>4. CASE CryptoAfterSubmit
    BY <1>4, CallsAreRequests, OrderIsOne DEF CryptoAfterSubmit, Fill
  <1>5. CASE CryptoFailed
    BY <1>5, CallsAreRequests, OrderIsOne DEF CryptoFailed, MarkError
  <1>6. CASE FuturesEntry \/ FuturesProtect \/ FuturesTarget
    BY <1>6 DEF FuturesEntry, FuturesProtect, FuturesTarget
  <1>7. CASE FuturesReport
    BY <1>7, CallsAreRequests, OrderIsOne DEF FuturesReport, Submit
  <1>8. CASE FuturesAfterSubmit
    BY <1>8, CallsAreRequests, OrderIsOne DEF FuturesAfterSubmit, Fill
  <1>9. CASE FuturesFailed
    BY <1>9, CallsAreRequests, OrderIsOne DEF FuturesFailed, MarkError
  <1>10. CASE HotCrash \/ HotBoot \/ HotDamage
    BY <1>10 DEF HotCrash, HotBoot, HotDamage, Next
  <1>11. CASE UNCHANGED hotVars
    BY <1>11 DEF hotVars
  <1> QED
    BY <1>1, <1>2, <1>3, <1>4, <1>5, <1>6, <1>7, <1>8, <1>9, <1>10, <1>11
    DEF HotNext, CycleStep

\* The cycles use the tracker as its specification allows (create_order before
\* everything else, one call at a time for each thread), and so everything that
\* is proved of the tracker holds on the hot path.
THEOREM HotImplementsTracker == HotSpec => Spec
  <1>1. HotInit => Init
    BY DEF HotInit
  <1>2. TypeOK /\ [HotNext]_hotVars => [Next]_vars
    BY HotStepIsStep
  <1>3. TypeOK /\ [Next]_vars => TypeOK'
    BY TypeStep
  <1> QED
    BY <1>1, <1>2, <1>3, TypeInit, PTL DEF HotSpec, Spec

\* On the hot path, what is filled has its stop recorded and what the broker was
\* handed has its id, in memory and in what is written.
THEOREM HotOrdersCovered == HotSpec => [](OrdersCovered /\ FileCovered)
  BY HotImplementsTracker, TrackerCorrect, PTL

-----------------------------------------------------------------------------
(* Types.                                                                  *)

HotTyped == cycle \in [Threads -> CycleRecord] /\ exposure \in [Orders -> Exposures]

Pcs == {"rest", "create", "validate", "entry", "protect", "target", "report",
        "submit", "fill", "failed", "error"}

\* Moving one cycle, or sending it to rest, moves no other.
LEMMA MoveTyped ==
    ASSUME HotTyped, NEW t \in Threads, NEW pc \in Pcs, Move(t, pc)
    PROVE  /\ cycle' \in [Threads -> CycleRecord]
           /\ cycle'[t].pc = pc /\ cycle'[t].o = cycle[t].o
           /\ \A u \in Threads \ {t} : cycle'[u] = cycle[u]
  BY DEF HotTyped, CycleRecord, Pcs, Move

LEMMA RestTyped ==
    ASSUME HotTyped, NEW t \in Threads, Rest(t)
    PROVE  /\ cycle' \in [Threads -> CycleRecord]
           /\ cycle'[t].pc = "rest"
           /\ \A u \in Threads \ {t} : cycle'[u] = cycle[u]
  BY DEF HotTyped, CycleRecord, AtRest, Rest

\* A cycle at work has an order.
BusyHasOrder == \A t \in Threads : cycle[t].pc # "rest" => cycle[t].o \in Orders

LEMMA ExposeTyped ==
    ASSUME HotTyped, BusyHasOrder, NEW t \in Threads, cycle[t].pc # "rest",
           NEW e \in Exposures
    PROVE  [exposure EXCEPT ![cycle[t].o] = e] \in [Orders -> Exposures]
  BY DEF HotTyped, BusyHasOrder

\* What a cycle's step is, apart from what it asks of the tracker: it starts an
\* order, moves on, or comes to rest.
CycleMoves(t) ==
    \/ \E o \in Orders : /\ Create(t, o)
                          /\ cycle' = [cycle EXCEPT ![t] =
                                [AtRest EXCEPT !.pc = "create", !.o = o]]
    \/ cycle[t].pc # "rest" /\ \E pc \in Pcs \ {"rest"} : Move(t, pc)
    \/ cycle[t].pc # "rest" /\ Rest(t)
    \/ cycle[t].pc = "validate" /\ \E b \in BOOLEAN :
           cycle' = [cycle EXCEPT ![t].pc = "entry", ![t].tracked = b]
    \/ cycle[t].pc = "protect" /\ \E b \in BOOLEAN :
           cycle' = [cycle EXCEPT ![t].pc = "report", ![t].filled = b]

LEMMA CycleMovesTyped ==
    ASSUME HotTyped, BusyHasOrder, NEW t \in Threads, CycleMoves(t)
    PROVE  /\ cycle' \in [Threads -> CycleRecord]
           /\ BusyHasOrder'
           /\ \A u \in Threads \ {t} : cycle'[u] = cycle[u]
           /\ \/ cycle'[t].pc = "rest"
              \/ cycle[t].pc # "rest" /\ cycle'[t].o = cycle[t].o
              \/ cycle'[t].pc = "create" /\ Create(t, cycle'[t].o) /\ cycle'[t].o \in Orders
  <1>1. ASSUME NEW o \in Orders, Create(t, o),
               cycle' = [cycle EXCEPT ![t] = [AtRest EXCEPT !.pc = "create", !.o = o]]
        PROVE  /\ cycle' \in [Threads -> CycleRecord]
               /\ cycle'[t].pc = "create" /\ cycle'[t].o = o
               /\ \A u \in Threads \ {t} : cycle'[u] = cycle[u]
    BY <1>1 DEF HotTyped, CycleRecord, AtRest
  <1>2. ASSUME cycle[t].pc # "rest", NEW pc \in Pcs, Move(t, pc)
        PROVE  /\ cycle' \in [Threads -> CycleRecord]
               /\ cycle'[t].o = cycle[t].o
               /\ \A u \in Threads \ {t} : cycle'[u] = cycle[u]
    BY <1>2, MoveTyped
  <1>3. ASSUME NEW b \in BOOLEAN,
               \/ cycle' = [cycle EXCEPT ![t].pc = "entry", ![t].tracked = b]
               \/ cycle' = [cycle EXCEPT ![t].pc = "report", ![t].filled = b]
        PROVE  /\ cycle' \in [Threads -> CycleRecord]
               /\ cycle'[t].o = cycle[t].o
               /\ \A u \in Threads \ {t} : cycle'[u] = cycle[u]
    BY <1>3 DEF HotTyped, CycleRecord
  <1> QED
    BY <1>1, <1>2, <1>3, RestTyped DEF CycleMoves, BusyHasOrder

-----------------------------------------------------------------------------
(* The four kinds of steps.                                                *)

Early == {"create", "validate", "entry", "protect"}
Late == {"target", "report", "submit", "fill"}

\* A step beside the tracker: only around the entry does it change what the
\* broker has, and the futures cycle comes to its end with a stop only.
Quietly(t) ==
    /\ CycleMoves(t) /\ cycle[t].pc # "rest" /\ call[t].pc = "idle"
    /\ UNCHANGED vars
    /\ cycle'[t].pc \in Early => cycle[t].pc \in Early
    /\ exposure' \in [Orders -> Exposures]
    /\ \A o \in Orders \ {cycle[t].o} : exposure'[o] = exposure[o]
    /\ UNCHANGED exposure \/ cycle[t].pc \in {"entry", "protect"}
    /\ t = Futures /\ cycle'[t].pc \in Late =>
          \/ exposure'[cycle'[t].o] = "protected"
          \/ cycle[t].pc \in Late /\ UNCHANGED exposure

\* A call of the tracker for the order the cycle has.
Calls(t) ==
    /\ CycleMoves(t) /\ cycle[t].pc # "rest" /\ UNCHANGED exposure
    /\ cycle'[t].pc \in {"validate", "submit", "fill", "error"}
    /\ cycle'[t].pc \in Early => cycle[t].pc \in Early
    /\ t = Futures /\ cycle'[t].pc \in Late => cycle[t].pc \in Late
    /\ \E to \in OrderStates, ctx \in Context :
        /\ Call(t, cycle[t].o, to, ctx)
        /\ to = "FILLED" => cycle'[t].pc = "fill"
        /\ to # "PARTIAL"
        /\ t = Crypto /\ to = "SUBMITTED" => ~ctx.bid

Starts(t) == StartOrder(t) /\ CycleMoves(t)

\* The key the crypto cycle looks for is not among those of the answer.
LEMMA NoCryptoId == CryptoBrokerId = FALSE
  BY DEF CryptoBrokerId, BinanceResultKeys

LEMMA NoContextTyped == NoContext \in Context
  BY DEF NoContext, Context

LEMMA ContextsTyped ==
    /\ \A b \in BOOLEAN : /\ [NoContext EXCEPT !.bid = b] \in Context
                          /\ [NoContext EXCEPT !.bid = b].bid = b
                          /\ [NoContext EXCEPT !.sl = b] \in Context
  BY DEF NoContext, Context

\* What each call hands to transition().
LEMMA CallsOf ==
    ASSUME NEW t \in Threads, NEW o, NEW b \in BOOLEAN
    PROVE  /\ Validate(t, o, TRUE) => Call(t, o, "VALIDATED", NoContext)
           /\ Submit(t, o, b) => \E ctx \in Context :
                 ctx.bid = b /\ Call(t, o, "SUBMITTED", ctx)
           /\ Fill(t, o, TRUE) => \E ctx \in Context : Call(t, o, "FILLED", ctx)
           /\ MarkError(t, o) => Call(t, o, "ERROR", NoContext)
  BY ContextsTyped DEF Validate, Submit, Fill, MarkError

LEMMA ApartFacts ==
    ASSUME HotTypeOK, CyclesApart
    PROVE  /\ HotTyped /\ BusyHasOrder /\ TypeOK
           /\ \A t \in Threads : /\ cycle[t].pc \in Quiet => call[t].pc = "idle"
                                 /\ call[t].raised \in BOOLEAN
           /\ {Crypto, Futures} \subseteq Threads /\ Crypto # Futures
           /\ \A o \in Orders : exposure[o] \in Exposures
  <1>1. /\ {Crypto, Futures} \subseteq Threads /\ Crypto # Futures
        /\ \A o \in Orders : exposure[o] \in Exposures
    BY CyclesAssumption DEF HotTypeOK
  <1>2. HotTyped /\ TypeOK
    BY DEF HotTypeOK, HotTyped
  <1>3. BusyHasOrder
    BY DEF BusyHasOrder, CyclesApart, HotTypeOK, TypeOK
  <1>4. \A t \in Threads : call[t] \in CallRecord
    BY DEF HotTypeOK, TypeOK
  <1>5. \A c \in CallRecord : c.raised \in BOOLEAN
    BY DEF CallRecord
  <1> QED
    BY <1>1, <1>2, <1>3, <1>4, <1>5 DEF CyclesApart

\* A cycle that moves without the tracker and without the broker.
LEMMA MovesQuietly ==
    ASSUME HotTypeOK, CyclesApart, NEW t \in Threads, call[t].pc = "idle",
           cycle[t].pc # "rest", UNCHANGED <<vars, exposure>>,
           \/ Rest(t)
           \/ \E pc \in Pcs \ {"rest"} :
                 /\ Move(t, pc)
                 /\ pc \in Early => cycle[t].pc \in Early
                 /\ t = Futures /\ pc \in Late => cycle[t].pc \in Late
    PROVE  Quietly(t)
  <1> USE ApartFacts
  <1>1. CycleMoves(t)
    <2>1. \/ Rest(t)
          \/ \E pc \in Pcs \ {"rest"} : Move(t, pc)
      OBVIOUS
    <2> QED
      BY ONLY <2>1, cycle[t].pc # "rest" DEF CycleMoves
  <1>2. CASE Rest(t)
    <2>1. cycle'[t].pc = "rest"
      BY <1>2, RestTyped
    <2> QED
      BY <1>1, <2>1 DEF Quietly, Early, Late, HotTyped
  <1>3. ASSUME NEW pc \in Pcs \ {"rest"}, Move(t, pc),
               pc \in Early => cycle[t].pc \in Early,
               t = Futures /\ pc \in Late => cycle[t].pc \in Late
        PROVE  Quietly(t)
    <2>1. cycle'[t].pc = pc
      BY <1>3, MoveTyped
    <2> QED
      BY <1>1, <1>3, <2>1 DEF Quietly, HotTyped
  <1> QED
    BY <1>2, <1>3

\* A cycle that calls the tracker for its order.
LEMMA MovesCalling ==
    ASSUME HotTypeOK, CyclesApart, NEW t \in Threads, cycle[t].pc # "rest",
           UNCHANGED exposure, NEW pc \in {"validate", "submit", "fill", "error"},
           Move(t, pc), pc \in Early => cycle[t].pc \in Early,
           t = Futures /\ pc \in Late => cycle[t].pc \in Late,
           NEW to \in OrderStates \ {"PARTIAL"}, NEW ctx \in Context,
           Call(t, cycle[t].o, to, ctx),
           to = "FILLED" => pc = "fill",
           t = Crypto /\ to = "SUBMITTED" => ~ctx.bid
    PROVE  Calls(t)
  <1>1. cycle'[t].pc = pc
    BY MoveTyped, ApartFacts DEF Pcs
  <1>2. CycleMoves(t)
    BY DEF CycleMoves, Pcs
  <1> QED
    BY <1>1, <1>2 DEF Calls

LEMMA BothKinds ==
    ASSUME HotTypeOK, CyclesApart, NEW t \in Threads,
           \/ StartOrder(t) \/ AfterCreate(t) \/ AfterValidate(t) \/ Done(t)
    PROVE  Starts(t) \/ Quietly(t) \/ Calls(t)
  <1> USE ApartFacts
  <1>1. CASE StartOrder(t)
    BY <1>1 DEF StartOrder, Starts, CycleMoves
  <1>2. CASE AfterCreate(t)
    <2>1. CASE UNCHANGED vars /\ Move(t, "entry")
      BY <1>2, <2>1, MovesQuietly DEF AfterCreate, Back, Pcs, Early, Late
    <2>2. CASE Validate(t, cycle[t].o, TRUE) /\ Move(t, "validate")
      <3>1. Call(t, cycle[t].o, "VALIDATED", NoContext)
        BY <2>2, CallsOf
      <3> QED
        BY <1>2, <2>2, <3>1, NoContextTyped, MovesCalling
        DEF AfterCreate, Early, Late, OrderStates
    <2> QED
      BY <1>2, <2>1, <2>2 DEF AfterCreate
  <1>3. CASE AfterValidate(t)
    <2>1. CycleMoves(t)
      BY <1>3 DEF AfterValidate, CycleMoves
    <2>2. cycle'[t].pc = "entry"
      BY <1>3 DEF AfterValidate, HotTyped, CycleRecord
    <2> QED
      BY <1>3, <2>1, <2>2 DEF AfterValidate, Quietly, Back, Early, Late, HotTyped
  <1>4. CASE Done(t)
    BY <1>4, MovesQuietly DEF Done, Back
  <1> QED
    BY <1>1, <1>2, <1>3, <1>4

LEMMA CryptoKinds ==
    ASSUME HotTypeOK, CyclesApart,
           \/ CryptoEntry \/ CryptoProtect \/ CryptoReport \/ CryptoAfterSubmit
           \/ CryptoHooksRaise \/ CryptoFailed
    PROVE  Quietly(Crypto) \/ Calls(Crypto)
  <1> USE ApartFacts
  <1> DEFINE c == cycle[Crypto]
  <1>1. CASE CryptoEntry
    <2>1. \E pc \in Pcs \ {"rest"} : Move(Crypto, pc) /\ (pc \in Early => pc = "protect")
      BY <1>1 DEF CryptoEntry, Pcs, Early
    <2>2. CycleMoves(Crypto)
      BY <1>1, <2>1 DEF CryptoEntry, CycleMoves
    <2>3. /\ exposure' \in [Orders -> Exposures]
          /\ \A o \in Orders \ {c.o} : exposure'[o] = exposure[o]
      BY <1>1, ExposeTyped DEF CryptoEntry, Expose, MaybeExecuted, HotTyped, Exposures
    <2> QED
      BY <1>1, <2>2, <2>3 DEF CryptoEntry, Quietly, Early, Back
  <1>2. CASE CryptoProtect
    <2>1. CycleMoves(Crypto)
      BY <1>2 DEF CryptoProtect, CycleMoves, Pcs
    <2>2. /\ exposure' \in [Orders -> Exposures]
          /\ \A o \in Orders \ {c.o} : exposure'[o] = exposure[o]
      BY <1>2, ExposeTyped DEF CryptoProtect, Expose, HotTyped
    <2> QED
      BY <1>2, <2>1, <2>2 DEF CryptoProtect, Quietly, Early, Quiet
  <1>3. CASE CryptoReport
    <2>1. CASE Submit(Crypto, c.o, CryptoBrokerId) /\ Move(Crypto, "submit")
      <3>1. PICK ctx \in Context : ctx.bid = FALSE /\ Call(Crypto, c.o, "SUBMITTED", ctx)
        BY <2>1, CallsOf, NoCryptoId
      <3> QED
        BY <1>3, <2>1, <3>1, MovesCalling DEF CryptoReport, Early, OrderStates
    <2>2. CASE Rest(Crypto) /\ UNCHANGED vars
      BY <1>3, <2>2, MovesQuietly DEF CryptoReport, Back
    <2> QED
      BY <1>3, <2>1, <2>2 DEF CryptoReport
  <1>4. CASE CryptoAfterSubmit
    <2>1. CASE Fill(Crypto, c.o, TRUE)
      BY <1>4, <2>1, CallsOf, MovesCalling DEF CryptoAfterSubmit, Early, OrderStates
    <2>2. CASE UNCHANGED vars
      BY <1>4, <2>2, MovesQuietly DEF CryptoAfterSubmit, Back, Early, Pcs
    <2> QED
      BY <1>4, <2>1, <2>2 DEF CryptoAfterSubmit
  <1>5. CASE CryptoHooksRaise
    BY <1>5, MovesQuietly DEF CryptoHooksRaise, Back, Pcs, Early
  <1>6. CASE CryptoFailed
    <2>1. CASE MarkError(Crypto, c.o) /\ Move(Crypto, "error")
      <3>1. Call(Crypto, c.o, "ERROR", NoContext)
        BY <2>1, CallsOf
      <3> QED
        BY <1>6, <2>1, <3>1, NoContextTyped, MovesCalling
        DEF CryptoFailed, Early, OrderStates
    <2>2. CASE Rest(Crypto) /\ UNCHANGED vars
      BY <1>6, <2>2, MovesQuietly DEF CryptoFailed, Back
    <2> QED
      BY <1>6, <2>1, <2>2 DEF CryptoFailed
  <1> QED
    BY <1>1, <1>2, <1>3, <1>4, <1>5, <1>6
LEMMA FuturesKinds ==
    ASSUME HotTypeOK, CyclesApart,
           \/ FuturesEntry \/ FuturesProtect \/ FuturesTarget \/ FuturesReport
           \/ FuturesAfterSubmit \/ FuturesFailed
    PROVE  Quietly(Futures) \/ Calls(Futures)
  <1> USE ApartFacts
  <1> DEFINE c == cycle[Futures]
  <1>1. CASE FuturesEntry
    <2>1. \/ \E pc \in {"protect", "failed"} : Move(Futures, pc)
          \/ Rest(Futures)
      BY <1>1 DEF FuturesEntry
    <2>2. CycleMoves(Futures)
      BY <1>1, <2>1 DEF FuturesEntry, CycleMoves, Pcs
    <2>3. /\ exposure' \in [Orders -> Exposures]
          /\ \A o \in Orders \ {c.o} : exposure'[o] = exposure[o]
      BY <1>1, ExposeTyped DEF FuturesEntry, Expose, MaybeExecuted, HotTyped, Exposures
    <2>4. cycle'[Futures].pc \in {"protect", "failed", "rest"}
      BY <2>1, MoveTyped, RestTyped DEF Pcs
    <2> QED
      BY <1>1, <2>2, <2>3, <2>4 DEF FuturesEntry, Quietly, Early, Late, Back
  <1>2. CASE FuturesProtect
    <2>1. CycleMoves(Futures)
      BY <1>2 DEF FuturesProtect, CycleMoves, Pcs
    <2>2. /\ exposure' \in [Orders -> Exposures]
          /\ \A o \in Orders \ {c.o} : exposure'[o] = exposure[o]
      BY <1>2, ExposeTyped DEF FuturesProtect, Expose, HotTyped, Exposures
    <2>3. CASE Move(Futures, "target") /\ Expose(Futures, "protected")
      <3>1. cycle'[Futures].o = c.o /\ cycle'[Futures].pc = "target"
        BY <2>3, MoveTyped DEF Pcs
      <3>2. exposure'[c.o] = "protected"
        BY <1>2, <2>3 DEF FuturesProtect, Expose, HotTyped, BusyHasOrder
      <3> QED
        BY <1>2, <2>1, <2>2, <3>1, <3>2 DEF FuturesProtect, Quietly, Early, Quiet
    <2>4. CASE Rest(Futures)
      <3>1. cycle'[Futures].pc = "rest"
        BY <2>4, RestTyped
      <3> QED
        BY <1>2, <2>1, <2>2, <3>1 DEF FuturesProtect, Quietly, Early, Late, Quiet
    <2> QED
      BY <1>2, <2>3, <2>4 DEF FuturesProtect
  <1>3. CASE FuturesTarget
    BY <1>3, MovesQuietly DEF FuturesTarget, Pcs, Early, Late, Quiet
  <1>4. CASE FuturesReport
    <2>1. CASE Submit(Futures, c.o, TRUE) /\ Move(Futures, "submit")
      <3>1. PICK ctx \in Context : Call(Futures, c.o, "SUBMITTED", ctx)
        BY <2>1, CallsOf
      <3> QED
        BY <1>4, <2>1, <3>1, MovesCalling DEF FuturesReport, Early, Late, OrderStates
    <2>2. CASE Rest(Futures) /\ UNCHANGED vars
      BY <1>4, <2>2, MovesQuietly DEF FuturesReport, Back
    <2> QED
      BY <1>4, <2>1, <2>2 DEF FuturesReport
  <1>5. CASE FuturesAfterSubmit
    <2>1. CASE Fill(Futures, c.o, TRUE) /\ Move(Futures, "fill")
      <3>1. PICK ctx \in Context : Call(Futures, c.o, "FILLED", ctx)
        BY <2>1, CallsOf
      <3> QED
        BY <1>5, <2>1, <3>1, MovesCalling
        DEF FuturesAfterSubmit, Early, Late, OrderStates
    <2>2. CASE Rest(Futures) /\ UNCHANGED vars
      BY <1>5, <2>2, MovesQuietly DEF FuturesAfterSubmit, Back
    <2> QED
      BY <1>5, <2>1, <2>2 DEF FuturesAfterSubmit
  <1>6. CASE FuturesFailed
    <2>1. CASE MarkError(Futures, c.o) /\ Move(Futures, "error")
      <3>1. Call(Futures, c.o, "ERROR", NoContext)
        BY <2>1, CallsOf
      <3> QED
        BY <1>6, <2>1, <3>1, NoContextTyped, MovesCalling
        DEF FuturesFailed, Early, Late, OrderStates
    <2>2. CASE Rest(Futures) /\ UNCHANGED vars
      BY <1>6, <2>2, MovesQuietly DEF FuturesFailed, Back
    <2> QED
      BY <1>6, <2>1, <2>2 DEF FuturesFailed
  <1> QED
    BY <1>1, <1>2, <1>3, <1>4, <1>5, <1>6

\* Every step of the hot path is of one of these kinds.
HotKinds ==
    \/ \E t \in Threads : Starts(t) \/ Quietly(t) \/ Calls(t) \/ TrackerStep(t)
    \/ HotCrash \/ HotBoot \/ HotDamage \/ UNCHANGED hotVars

LEMMA KindsOfSteps ==
    ASSUME HotTypeOK, CyclesApart, [HotNext]_hotVars
    PROVE  HotKinds
  BY BothKinds, CryptoKinds, FuturesKinds, CyclesAssumption
  DEF HotNext, CycleStep, HotKinds

-----------------------------------------------------------------------------
(* What one step inside the tracker does.                                  *)

\* Only the last of the three steps changes a state, to the one asked for.
StatesMove(t) ==
    \A o \in Orders :
        \/ order'[o].state = order[o].state
        \/ call[t].pc = "commit" /\ o = call[t].o /\ order'[o].state = call[t].to

\* The three steps of a transition come in their order and are about one order.
CallMoves(t) ==
    /\ call[t].pc # "idle"
    /\ \A u \in Threads \ {t} : call'[u] = call[u]
    /\ call'[t].pc \in Moving =>
          /\ call'[t].o = call[t].o /\ call'[t].to = call[t].to
          /\ \/ /\ call[t].pc = "check" /\ call'[t].pc = "guard"
                /\ call'[t].ctx = call[t].ctx
                /\ call'[t].from = order[call[t].o].state
             \/ /\ call[t].pc = "guard" /\ call'[t].pc = "commit"
                /\ ~GuardRefuses(call[t].to, call[t].ctx)

\* The states written come from the payload, and those of the payload from memory.
FilesMove(t) ==
    \A o \in Orders :
        /\ file'[o].state \in {file[o].state, call[t].snap[o].state}
        /\ \/ call'[t].snap[o].state \in {NoState, call[t].snap[o].state}
           \/ o \in registry /\ call'[t].snap[o].state = order[o].state
        /\ call'[t].pc = "idle" => call'[t].snap[o].state = NoState

TrackerMoves(t) ==
    /\ up /\ up' /\ UNCHANGED <<registry, used>>
    /\ StatesMove(t) /\ CallMoves(t) /\ FilesMove(t)

LEMMA IdleFields ==
    /\ Idle.pc = "idle" /\ Idle.snap = [o \in Orders |-> Blank]
    /\ Blank.state = NoState
    /\ LET saving == [Idle EXCEPT !.pc = "save"]
           raised == [Idle EXCEPT !.raised = TRUE] IN
       /\ saving.pc = "save" /\ saving.snap = [o \in Orders |-> Blank]
       /\ raised.pc = "idle" /\ raised.snap = [o \in Orders |-> Blank]
  BY DEF Idle, Blank

\* A step that leaves the tracker or goes on to save_state().
LEMMA LeavingMoves ==
    ASSUME TypeOK, NEW t \in Threads, Return(t) \/ Raise(t) \/ Save(t)
    PROVE  /\ \A u \in Threads \ {t} : call'[u] = call[u]
           /\ call'[t].pc \notin Moving
           /\ \A o \in Orders : call'[t].snap[o].state = NoState
  BY IdleFields DEF TypeOK, Return, Raise, Save, Moving

LEMMA InternalMoves ==
    ASSUME TrackerInv, NEW t \in Threads, Internal(t)
    PROVE  TrackerMoves(t)
  <1> DEFINE c == call[t]
  <1>0. /\ TypeOK /\ c \in CallRecord /\ c.snap \in [Orders -> OrderRecord]
        /\ c.pc \in Moving => c.o \in Orders
    BY CallFieldsTyped DEF TrackerInv, TypeOK, IdsAreUsed, Moving
  <1>1. CASE CheckLegal(t)
    <2> DEFINE rec == [c EXCEPT !.pc = "guard", !.from = order[c.o].state]
    <2>1. /\ up /\ c.pc = "check"
          /\ UNCHANGED <<order, registry, used, file, up>>
      BY <1>1 DEF CheckLegal
    <2>2. CASE call' = [call EXCEPT ![t] = rec]
      <3>1. /\ rec.pc = "guard" /\ rec.o = c.o /\ rec.to = c.to
            /\ rec.ctx = c.ctx /\ rec.from = order[c.o].state /\ rec.snap = c.snap
        BY <1>0 DEF CallRecord
      <3>2. call'[t] = rec /\ \A u \in Threads \ {t} : call'[u] = call[u]
        BY <1>0, <2>2 DEF TypeOK
      <3> QED
        BY <2>1, <3>1, <3>2 DEF TrackerMoves, StatesMove, CallMoves, FilesMove
    <2>3. CASE Return(t) \/ Raise(t)
      BY <1>0, <2>1, <2>3, LeavingMoves
      DEF TrackerMoves, StatesMove, CallMoves, FilesMove
    <2> QED
      BY <1>1, <2>2, <2>3 DEF CheckLegal
  <1>2. CASE RunGuard(t)
    <2> DEFINE rec == [Idle EXCEPT !.pc = "commit", !.o = c.o, !.to = c.to]
               q == AfterGuard(order[c.o], c.to, c.ctx)
    <2>1. /\ up /\ c.pc = "guard" /\ UNCHANGED <<registry, used, file, up>>
          /\ order' = [order EXCEPT ![c.o] = q]
      BY <1>2 DEF RunGuard
    <2>2. q.state = order[c.o].state
      BY <1>0, <2>1, GuardMonotone, CallFieldsTyped DEF TypeOK, Moving
    <2>3. StatesMove(t)
      BY <1>0, <2>1, <2>2 DEF StatesMove, TypeOK
    <2>4. CASE Return(t) \/ Raise(t) \/ Save(t)
      BY <1>0, <2>1, <2>3, <2>4, LeavingMoves DEF TrackerMoves, CallMoves, FilesMove
    <2>5. CASE /\ call' = [call EXCEPT ![t] = rec]
               /\ ~GuardRefuses(c.to, c.ctx)
      <3>1. /\ rec.pc = "commit" /\ rec.o = c.o /\ rec.to = c.to
            /\ rec.snap = [o \in Orders |-> Blank]
        BY DEF Idle
      <3>2. call'[t] = rec /\ \A u \in Threads \ {t} : call'[u] = call[u]
        BY <1>0, <2>5 DEF TypeOK
      <3> HIDE DEF rec, q
      <3>3. CallMoves(t)
        BY <2>1, <2>5, <3>1, <3>2 DEF CallMoves
      <3>4. FilesMove(t)
        BY <2>1, <3>1, <3>2, IdleFields DEF FilesMove
      <3> QED
        BY <2>1, <2>3, <3>3, <3>4 DEF TrackerMoves
    <2> QED
      BY <1>2, <2>4, <2>5 DEF RunGuard
  <1>3. CASE Commit(t)
    <2>1. /\ up /\ c.pc = "commit" /\ UNCHANGED <<registry, used, file, up>>
          /\ order' = [order EXCEPT ![c.o].state = c.to] /\ Save(t)
      BY <1>3 DEF Commit
    <2>2. StatesMove(t)
      BY <1>0, <2>1 DEF StatesMove, TypeOK, OrderRecord
    <2> QED
      BY <1>0, <2>1, <2>2, LeavingMoves DEF TrackerMoves, CallMoves, FilesMove
  <1>4. CASE SnapshotStates(t)
    <2> DEFINE f == [o \in Orders |->
                 IF o \in registry THEN [Blank EXCEPT !.state = order[o].state]
                                   ELSE Blank]
               rec == [Idle EXCEPT !.pc = "fields", !.snap = f]
    <2>1. /\ up /\ c.pc = "save" /\ UNCHANGED <<order, registry, used, file, up>>
          /\ call' = [call EXCEPT ![t] = rec]
      BY <1>4 DEF SnapshotStates
    <2>2. rec.pc = "fields" /\ rec.snap = f
      BY DEF Idle
    <2>3. \A o \in Orders : \/ o \in registry /\ f[o].state = order[o].state
                            \/ f[o].state = NoState
      BY DEF Blank
    <2>4. call'[t] = rec /\ \A u \in Threads \ {t} : call'[u] = call[u]
      BY <1>0, <2>1 DEF TypeOK
    <2> HIDE DEF f, rec
    <2> QED
      BY <2>1, <2>2, <2>3, <2>4
      DEF TrackerMoves, StatesMove, CallMoves, FilesMove, Moving
  <1>5. CASE SnapshotFields(t)
    <2> DEFINE f == [o \in Orders |->
                 IF Exists(c.snap[o]) THEN [order[o] EXCEPT !.state = c.snap[o].state]
                                      ELSE Blank]
               rec == [Idle EXCEPT !.pc = "replace", !.snap = f]
    <2>1. /\ up /\ c.pc = "fields" /\ UNCHANGED <<order, registry, used, file, up>>
          /\ call' = [call EXCEPT ![t] = rec]
      BY <1>5 DEF SnapshotFields
    <2>2. rec.pc = "replace" /\ rec.snap = f
      BY DEF Idle
    <2>3. \A o \in Orders : f[o].state \in {NoState, c.snap[o].state}
      BY <1>0 DEF Blank, TypeOK, OrderRecord
    <2>4. call'[t] = rec /\ \A u \in Threads \ {t} : call'[u] = call[u]
      BY <1>0, <2>1 DEF TypeOK
    <2> HIDE DEF f, rec
    <2> QED
      BY <2>1, <2>2, <2>3, <2>4
      DEF TrackerMoves, StatesMove, CallMoves, FilesMove, Moving
  <1>6. CASE ReplaceFile(t) \/ SaveFails(t)
    <2>1. /\ up /\ c.pc = "replace" /\ UNCHANGED <<order, registry, used, up>>
          /\ file' = file \/ file' = c.snap
          /\ Return(t) \/ Raise(t)
      BY <1>6 DEF ReplaceFile, SaveFails
    <2> QED
      BY <1>0, <2>1, LeavingMoves
      DEF TrackerMoves, StatesMove, CallMoves, FilesMove
  <1> QED
    BY <1>1, <1>2, <1>3, <1>4, <1>5, <1>6 DEF Internal

-----------------------------------------------------------------------------
(* Each cycle keeps to an order of its own.                                *)

LEMMA StartsFacts ==
    ASSUME HotTypeOK, CyclesApart, NEW t \in Threads, Starts(t)
    PROVE  \E o \in Orders \ used :
             /\ cycle' \in [Threads -> CycleRecord]
             /\ cycle'[t].pc = "create" /\ cycle'[t].o = o
             /\ \A u \in Threads \ {t} : cycle'[u] = cycle[u] /\ call'[u] = call[u]
             /\ call'[t].pc = "save" /\ call'[t].snap = [p \in Orders |-> Blank]
             /\ order'[o].state = "DRAFT"
             /\ \A p \in Orders \ {o} : order'[p] = order[p]
             /\ used' = used \cup {o} /\ registry' = registry \cup {o}
             /\ up /\ up' /\ UNCHANGED <<file, exposure>>
  <1>1. PICK o \in Orders :
          /\ Create(t, o) /\ UNCHANGED exposure
          /\ cycle' = [cycle EXCEPT ![t] = [AtRest EXCEPT !.pc = "create", !.o = o]]
    BY DEF Starts, StartOrder
  <1>2. /\ cycle' \in [Threads -> CycleRecord]
        /\ cycle'[t].pc = "create" /\ cycle'[t].o = o
        /\ \A u \in Threads \ {t} : cycle'[u] = cycle[u]
    BY <1>1 DEF HotTypeOK, CycleRecord, AtRest
  <1>3. NewOrder.state = "DRAFT"
    BY DEF NewOrder, Blank
  <1>4. /\ order'[o] = NewOrder /\ \A p \in Orders \ {o} : order'[p] = order[p]
        /\ call' = [call EXCEPT ![t] = [Idle EXCEPT !.pc = "save"]]
    BY <1>1 DEF Create, Save, HotTypeOK, TypeOK
  <1>5. /\ call'[t].pc = "save" /\ call'[t].snap = [p \in Orders |-> Blank]
        /\ \A u \in Threads \ {t} : call'[u] = call[u]
    BY <1>4, IdleFields DEF HotTypeOK, TypeOK
  <1>6. /\ o \notin used /\ used' = used \cup {o} /\ registry' = registry \cup {o}
        /\ up /\ up' /\ UNCHANGED file
    BY <1>1 DEF Create, Free
  <1> QED
    BY <1>1, <1>2, <1>3, <1>4, <1>5, <1>6

LEMMA CallsFacts ==
    ASSUME HotTypeOK, CyclesApart, NEW t \in Threads, Calls(t)
    PROVE  /\ cycle' \in [Threads -> CycleRecord]
           /\ cycle'[t].o = cycle[t].o /\ cycle[t].pc # "rest"
           /\ cycle'[t].pc \in {"validate", "submit", "fill", "error"}
           /\ \A u \in Threads \ {t} : cycle'[u] = cycle[u] /\ call'[u] = call[u]
           /\ call'[t].pc = "check" /\ call'[t].o = cycle[t].o
           /\ call'[t].snap = [p \in Orders |-> Blank]
           /\ call'[t].to = "FILLED" => cycle'[t].pc = "fill"
           /\ call'[t].to # "PARTIAL"
           /\ t = Crypto /\ call'[t].to = "SUBMITTED" => ~call'[t].ctx.bid
           /\ up /\ up' /\ UNCHANGED <<order, registry, used, file, exposure>>
  <1>1. /\ cycle' \in [Threads -> CycleRecord]
        /\ cycle'[t].o = cycle[t].o /\ cycle[t].pc # "rest"
        /\ cycle'[t].pc \in {"validate", "submit", "fill", "error"}
        /\ \A u \in Threads \ {t} : cycle'[u] = cycle[u]
        /\ UNCHANGED exposure
    BY CycleMovesTyped, ApartFacts DEF Calls
  <1>2. PICK to \in OrderStates, ctx \in Context :
          /\ Call(t, cycle[t].o, to, ctx)
          /\ to = "FILLED" => cycle'[t].pc = "fill"
          /\ to # "PARTIAL"
          /\ t = Crypto /\ to = "SUBMITTED" => ~ctx.bid
    BY DEF Calls
  <1> DEFINE rec == [Idle EXCEPT !.pc = "check", !.o = cycle[t].o,
                                 !.to = to, !.ctx = ctx]
  <1>3. /\ rec.pc = "check" /\ rec.o = cycle[t].o /\ rec.to = to /\ rec.ctx = ctx
        /\ rec.snap = [p \in Orders |-> Blank]
    BY DEF Idle
  <1>4. call' = [call EXCEPT ![t] = rec]
    BY <1>2 DEF Call
  <1>5. call'[t] = rec /\ \A u \in Threads \ {t} : call'[u] = call[u]
    BY <1>4 DEF HotTypeOK, TypeOK
  <1>6. up /\ up' /\ UNCHANGED <<order, registry, used, file>>
    BY <1>2 DEF Call, Free
  <1> HIDE DEF rec
  <1> QED
    BY <1>1, <1>2, <1>3, <1>5, <1>6

LEMMA QuietlyFacts ==
    ASSUME HotTypeOK, CyclesApart, NEW t \in Threads, Quietly(t)
    PROVE  /\ cycle' \in [Threads -> CycleRecord]
           /\ cycle[t].pc # "rest" /\ call[t].pc = "idle"
           /\ cycle'[t].pc # "rest" => cycle'[t].o = cycle[t].o
           /\ \A u \in Threads \ {t} : cycle'[u] = cycle[u]
           /\ UNCHANGED <<order, registry, used, file, call, up>>
  <1>1. \A o : ~Create(t, o)
    BY DEF Create, Quietly, vars
  <1> QED
    BY <1>1, CycleMovesTyped, ApartFacts DEF Quietly, vars

\* The process starts again with nothing running.
LEMMA ProcessFacts ==
    ASSUME HotTypeOK, TrackerInv, CyclesApart, HotCrash \/ HotBoot
    PROVE  /\ \A t \in Threads : /\ cycle'[t].pc = "rest"
                                 /\ call'[t].pc = "idle"
           /\ cycle' \in [Threads -> CycleRecord]
           /\ UNCHANGED <<file, used, exposure>>
           /\ \A o \in Orders : order'[o].state \in {NoState, file[o].state}
           /\ ~up \/ ~up'
  <1>1. CASE HotCrash
    <2>1. cycle' \in [Threads -> CycleRecord] /\ \A t \in Threads : cycle'[t].pc = "rest"
      BY <1>1 DEF HotCrash, AtRest, CycleRecord
    <2> QED
      BY <1>1, <2>1, IdleFields DEF HotCrash, Crash
  <1>2. CASE HotBoot
    <2>1. ~up /\ UNCHANGED <<cycle, call, file, used, exposure>>
      BY <1>2 DEF HotBoot, Boot
    <2>2. \A o \in Orders : order'[o].state \in {NoState, file[o].state}
      BY <1>2, IdleFields DEF HotBoot, Boot
    <2> QED
      BY <2>1, <2>2 DEF HotTypeOK, TrackerInv, ThreadsCovered, CyclesApart
  <1> QED
    BY <1>1, <1>2

LEMMA HotTypeStep ==
    ASSUME HotTypeOK, TrackerInv, CyclesApart, HotKinds, TypeOK'
    PROVE  HotTypeOK'
  <1>1. ASSUME NEW t \in Threads, Starts(t) \/ Calls(t)
        PROVE  HotTypeOK'
    BY <1>1, StartsFacts, CallsFacts DEF HotTypeOK
  <1>2. ASSUME NEW t \in Threads, Quietly(t)
        PROVE  HotTypeOK'
    BY <1>2, QuietlyFacts DEF HotTypeOK, Quietly
  <1>3. ASSUME NEW t \in Threads, TrackerStep(t)
        PROVE  HotTypeOK'
    BY <1>3 DEF HotTypeOK, TrackerStep
  <1>4. CASE HotCrash \/ HotBoot
    BY <1>4, ProcessFacts DEF HotTypeOK
  <1>5. CASE HotDamage \/ UNCHANGED hotVars
    BY <1>5 DEF HotTypeOK, HotDamage, hotVars
  <1> QED
    BY <1>1, <1>2, <1>3, <1>4, <1>5 DEF HotKinds

LEMMA ApartStarts ==
    ASSUME HotTypeOK, TrackerInv, CyclesApart, NEW t \in Threads, Starts(t)
    PROVE  CyclesApart'
  <1>1. PICK o \in Orders \ used :
             /\ cycle'[t].pc = "create" /\ cycle'[t].o = o
             /\ \A u \in Threads \ {t} : cycle'[u] = cycle[u] /\ call'[u] = call[u]
             /\ call'[t].pc = "save"
             /\ order'[o].state = "DRAFT"
             /\ \A p \in Orders \ {o} : order'[p] = order[p]
             /\ used' = used \cup {o}
             /\ up /\ up' /\ UNCHANGED <<file, exposure>>
    BY StartsFacts
  <1>2. ASSUME NEW u \in Threads, call[u].pc \in Moving
        PROVE  /\ call[u].o \in Orders \ {o}
               /\ order'[call[u].o] = order[call[u].o]
    BY <1>1, <1>2 DEF TrackerInv, IdsAreUsed, TypeOK, Moving
  <1>3. \A p \in Orders : Exists(order[p])' => p \in used'
    BY <1>1 DEF CyclesApart, Exists
  <1>4. ASSUME NEW u \in Threads
        PROVE  /\ cycle'[u].pc # "rest" => up' /\ cycle'[u].o \in used'
               /\ cycle'[u].pc \in Quiet => call'[u].pc = "idle"
               /\ call'[u].pc \in Moving => call'[u].o = cycle'[u].o
               /\ call'[u].pc = "guard" => call'[u].from = order'[call'[u].o].state
               /\ call'[u].pc = "commit" =>
                    <<order'[call'[u].o].state, call'[u].to>> \in LegalTransitions
    <2>1. CASE u = t
      BY <1>1, <2>1 DEF Quiet, Moving
    <2>2. CASE u # t
      <3>1. cycle'[u] = cycle[u] /\ call'[u] = call[u] /\ used \subseteq used' /\ up'
        BY <1>1, <2>2
      <3>2. /\ cycle[u].pc # "rest" => cycle[u].o \in used
            /\ cycle[u].pc \in Quiet => call[u].pc = "idle"
            /\ call[u].pc \in Moving => call[u].o = cycle[u].o
            /\ call[u].pc = "guard" => call[u].from = order[call[u].o].state
            /\ call[u].pc = "commit" =>
                 <<order[call[u].o].state, call[u].to>> \in LegalTransitions
        BY DEF CyclesApart
      <3> QED
        BY <1>2, <3>1, <3>2 DEF Moving
    <2> QED
      BY <2>1, <2>2
  <1>5. \A u, v \in Threads : u # v /\ "rest" \notin {cycle'[u].pc, cycle'[v].pc}
                                => cycle'[u].o # cycle'[v].o
    <2>1. \A u \in Threads : cycle'[u].pc # "rest" =>
            \/ u = t /\ cycle'[u].o \notin used
            \/ u # t /\ cycle'[u] = cycle[u] /\ cycle[u].o \in used
      BY <1>1 DEF CyclesApart
    <2> QED
      BY <2>1 DEF CyclesApart
  <1> QED
    BY <1>3, <1>4, <1>5 DEF CyclesApart

LEMMA ApartCalls ==
    ASSUME HotTypeOK, TrackerInv, CyclesApart, NEW t \in Threads, Calls(t)
    PROVE  CyclesApart'
  <1>1. /\ cycle'[t].o = cycle[t].o /\ cycle[t].pc # "rest"
        /\ cycle'[t].pc \in {"validate", "submit", "fill", "error"}
        /\ \A u \in Threads \ {t} : cycle'[u] = cycle[u] /\ call'[u] = call[u]
        /\ call'[t].pc = "check" /\ call'[t].o = cycle[t].o
        /\ up /\ up' /\ UNCHANGED <<order, used>>
    BY CallsFacts
  <1>2. \A p \in Orders : Exists(order[p])' => p \in used'
    BY <1>1 DEF CyclesApart, Exists
  <1>3. ASSUME NEW u \in Threads
        PROVE  /\ cycle'[u].pc # "rest" => up' /\ cycle'[u].o \in used'
               /\ cycle'[u].pc \in Quiet => call'[u].pc = "idle"
               /\ call'[u].pc \in Moving => call'[u].o = cycle'[u].o
               /\ call'[u].pc = "guard" => call'[u].from = order'[call'[u].o].state
               /\ call'[u].pc = "commit" =>
                    <<order'[call'[u].o].state, call'[u].to>> \in LegalTransitions
    <2>1. CASE u = t
      BY <1>1, <2>1 DEF CyclesApart, Quiet
    <2>2. CASE u # t
      BY <1>1, <2>2 DEF CyclesApart
    <2> QED
      BY <2>1, <2>2
  <1>4. \A u, v \in Threads : u # v /\ "rest" \notin {cycle'[u].pc, cycle'[v].pc}
                                => cycle'[u].o # cycle'[v].o
    BY <1>1 DEF CyclesApart
  <1> QED
    BY <1>2, <1>3, <1>4 DEF CyclesApart

LEMMA ApartQuietly ==
    ASSUME HotTypeOK, TrackerInv, CyclesApart, NEW t \in Threads, Quietly(t)
    PROVE  CyclesApart'
  <1>1. /\ cycle[t].pc # "rest" /\ call[t].pc = "idle"
        /\ cycle'[t].pc # "rest" => cycle'[t].o = cycle[t].o
        /\ \A u \in Threads \ {t} : cycle'[u] = cycle[u]
        /\ UNCHANGED <<order, used, call, up>>
    BY QuietlyFacts
  <1>2. \A p \in Orders : Exists(order[p])' => p \in used'
    BY <1>1 DEF CyclesApart, Exists
  <1>3. ASSUME NEW u \in Threads
        PROVE  /\ cycle'[u].pc # "rest" => up' /\ cycle'[u].o \in used'
               /\ cycle'[u].pc \in Quiet => call'[u].pc = "idle"
               /\ call'[u].pc \in Moving => call'[u].o = cycle'[u].o
    <2>1. CASE u = t
      BY <1>1, <2>1 DEF CyclesApart, Moving
    <2>2. CASE u # t
      BY <1>1, <2>2 DEF CyclesApart
    <2> QED
      BY <2>1, <2>2
  <1>4. \A u, v \in Threads : u # v /\ "rest" \notin {cycle'[u].pc, cycle'[v].pc}
                                => cycle'[u].o # cycle'[v].o
    BY <1>1 DEF CyclesApart
  <1> QED
    BY <1>1, <1>2, <1>3, <1>4 DEF CyclesApart

LEMMA ApartTracker ==
    ASSUME HotTypeOK, TrackerInv, CyclesApart, NEW t \in Threads, TrackerStep(t)
    PROVE  CyclesApart'
  <1>1. TrackerMoves(t) /\ UNCHANGED <<cycle, exposure>>
    BY InternalMoves DEF TrackerStep
  <1>2. /\ \A u \in Threads : call[u].pc \in Moving =>
              /\ call[u].o \in Orders /\ call[u].o = cycle[u].o
              /\ cycle[u].pc # "rest"
    BY DEF CyclesApart, TrackerInv, IdsAreUsed, TypeOK, Moving, Quiet
  <1>3. \A p \in Orders : Exists(order[p])' => p \in used'
    BY <1>1, <1>2 DEF CyclesApart, Exists, TrackerMoves, StatesMove, Moving
  <1>4. ASSUME NEW u \in Threads \ {t}, call[u].pc \in Moving
        PROVE  order'[call[u].o].state = order[call[u].o].state
    BY <1>1, <1>2, <1>4 DEF CyclesApart, TrackerMoves, StatesMove, Moving
  <1>5. ASSUME call'[t].pc \in Moving
        PROVE  /\ call'[t].o = cycle'[t].o
               /\ order'[call[t].o].state = order[call[t].o].state
               /\ call'[t].pc = "guard" => call'[t].from = order'[call'[t].o].state
               /\ call'[t].pc = "commit" =>
                    <<order'[call'[t].o].state, call'[t].to>> \in LegalTransitions
    <2>1. /\ call'[t].o = call[t].o /\ call'[t].to = call[t].to
          /\ \/ /\ call[t].pc = "check" /\ call'[t].pc = "guard"
                /\ call'[t].from = order[call[t].o].state
             \/ call[t].pc = "guard" /\ call'[t].pc = "commit"
      BY <1>1, <1>5 DEF TrackerMoves, CallMoves
    <2>2. call[t].o \in Orders /\ call[t].o = cycle[t].o
      BY <1>2, <2>1 DEF Moving
    <2>3. order'[call[t].o].state = order[call[t].o].state
      BY <1>1, <2>1, <2>2 DEF TrackerMoves, StatesMove
    <2>4. call[t].pc = "guard" =>
            <<order[call[t].o].state, call[t].to>> \in LegalTransitions
      BY DEF CyclesApart, TrackerInv, ThreadsCovered
    <2> QED
      BY <1>1, <2>1, <2>2, <2>3, <2>4
  <1>6. \A u \in Threads : cycle'[u].pc \in Quiet => call'[u].pc = "idle"
    BY <1>1 DEF CyclesApart, TrackerMoves, CallMoves
  <1>7. \A u \in Threads \ {t} : call'[u] = call[u]
    BY <1>1 DEF TrackerMoves, CallMoves
  <1>8. ASSUME NEW u \in Threads
        PROVE  /\ call'[u].pc \in Moving => call'[u].o = cycle'[u].o
               /\ call'[u].pc = "guard" => call'[u].from = order'[call'[u].o].state
               /\ call'[u].pc = "commit" =>
                    <<order'[call'[u].o].state, call'[u].to>> \in LegalTransitions
    BY <1>1, <1>4, <1>5, <1>7 DEF CyclesApart, Moving
  <1> QED
    BY <1>1, <1>3, <1>6, <1>8 DEF CyclesApart, TrackerMoves

LEMMA ApartProcess ==
    ASSUME HotTypeOK, TrackerInv, CyclesApart, HotCrash \/ HotBoot
    PROVE  CyclesApart'
  BY ProcessFacts DEF CyclesApart, Moving, Exists, TrackerInv, IdsAreUsed

\* The three invariants together are inductive.
HotInv == HotTypeOK /\ TrackerInv /\ CyclesApart

LEMMA HotInvInit == HotInit => HotInv
  <1> SUFFICES ASSUME HotInit PROVE HotInv
    OBVIOUS
  <1>1. TrackerInv /\ TypeOK
    BY InvInit DEF HotInit, TrackerInv
  <1>2. HotTypeOK
    BY <1>1 DEF HotInit, HotTypeOK, AtRest, CycleRecord, Exposures
  <1>3. CyclesApart
    BY IdleFields DEF HotInit, Init, CyclesApart, AtRest, Exists, Moving
  <1> QED
    BY <1>1, <1>2, <1>3 DEF HotInv

LEMMA HotInvStep == HotInv /\ [HotNext]_hotVars => HotInv'
  <1> SUFFICES ASSUME HotInv, [HotNext]_hotVars PROVE HotInv'
    OBVIOUS
  <1> USE DEF HotInv
  <1>1. TrackerInv' /\ TypeOK'
    BY HotStepIsStep, InvStep DEF TrackerInv
  <1>2. HotKinds
    BY KindsOfSteps
  <1>3. HotTypeOK'
    BY <1>1, <1>2, HotTypeStep
  <1>4. CASE HotDamage \/ UNCHANGED hotVars
    <2>1. UNCHANGED <<order, used, call, up, cycle>>
      BY <1>4 DEF HotDamage, Damage, hotVars, vars
    <2>2. CyclesApart'
      BY <2>1 DEF CyclesApart, Exists
    <2> QED
      BY <1>1, <1>3, <2>2
  <1>5. CASE ~(HotDamage \/ UNCHANGED hotVars)
    <2>1. CyclesApart'
      BY <1>2, <1>5, ApartStarts, ApartCalls, ApartQuietly, ApartTracker, ApartProcess
      DEF HotKinds
    <2> QED
      BY <1>1, <1>3, <2>1
  <1> QED
    BY <1>4, <1>5

THEOREM HotInvariant == HotSpec => []HotInv
  BY HotInvInit, HotInvStep, PTL DEF HotSpec

\* Every reachable state of the tracker under the two cycles, of the cycles and of what
\* the broker holds is typed, for any set of orders.
THEOREM HotTyping == HotSpec => []HotTypeOK
  <1>1. HotInv => HotTypeOK
    BY DEF HotInv
  <1> QED
    BY HotInvariant, <1>1, PTL

-----------------------------------------------------------------------------
(* The moves of an order.                                                  *)

\* A transition that is about to assign a state assigns a legal one, to the order
\* its cycle has, and it is the only step that changes a state.
LEMMA CommitIsLegal ==
    ASSUME HotInv, NEW t \in Threads, TrackerStep(t), NEW o \in Orders,
           order'[o].state # order[o].state
    PROVE  /\ call[t].pc = "commit" /\ o = call[t].o /\ o = cycle[t].o
           /\ cycle[t].pc # "rest" /\ order'[o].state = call[t].to
           /\ <<order[o].state, order'[o].state>> \in LegalTransitions
  <1>1. TrackerMoves(t)
    BY InternalMoves DEF TrackerStep, HotInv
  <1>2. /\ call[t].pc = "commit" /\ o = call[t].o /\ order'[o].state = call[t].to
    BY <1>1 DEF TrackerMoves, StatesMove
  <1> QED
    BY <1>2 DEF HotInv, CyclesApart, Moving, Quiet

\* The way the cycles use the tracker makes its unlocked transitions safe: with
\* any number of orders, an order in memory only moves along LEGAL_TRANSITIONS.
THEOREM HotMovesAreLegal == HotSpec => MovesAreLegal
  <1>1. ASSUME HotInv, [HotNext]_hotVars, up, up', NEW o \in Orders
        PROVE  \/ ~Exists(order[o]) \/ order'[o].state = order[o].state
               \/ <<order[o].state, order'[o].state>> \in LegalTransitions
    <2>1. HotKinds
      BY <1>1, KindsOfSteps DEF HotInv
    <2>2. ASSUME NEW t \in Threads, Starts(t)
          PROVE  ~Exists(order[o]) \/ order'[o] = order[o]
      BY <1>1, <2>2, StartsFacts DEF HotInv, CyclesApart
    <2>3. ASSUME NEW t \in Threads, Quietly(t) \/ Calls(t)
          PROVE  order' = order
      BY <1>1, <2>3, QuietlyFacts, CallsFacts DEF HotInv
    <2>4. ASSUME NEW t \in Threads, TrackerStep(t), order'[o].state # order[o].state
          PROVE  <<order[o].state, order'[o].state>> \in LegalTransitions
      BY <1>1, <2>4, CommitIsLegal
    <2>5. ~HotCrash /\ ~HotBoot
      BY <1>1, ProcessFacts DEF HotInv
    <2>6. HotDamage \/ UNCHANGED hotVars => order' = order
      BY DEF HotDamage, Damage, hotVars, vars
    <2> QED
      BY <2>1, <2>2, <2>3, <2>4, <2>5, <2>6 DEF HotKinds
  <1>2. HotInv /\ [HotNext]_hotVars =>
          [up /\ up' => \A o \in Orders :
             \/ ~Exists(order[o]) \/ order'[o].state = order[o].state
             \/ <<order[o].state, order'[o].state>> \in LegalTransitions]_hotVars
    BY <1>1
  <1> QED
    BY <1>2, HotInvariant, PTL DEF HotSpec, MovesAreLegal

-----------------------------------------------------------------------------
(* What is FILLED is protected.                                            *)

\* FILLED is first shown by the assignment of a transition to FILLED.
LEMMA FilledStep ==
    ASSUME HotInv, HotKinds, NEW o \in Orders, ShownFilled(o)', ~ShownFilled(o)
    PROVE  \E t \in Threads : /\ TrackerStep(t) /\ call[t].pc = "commit"
                              /\ call[t].to = "FILLED" /\ o = cycle[t].o
                              /\ order[o].state \in ActiveStates
  <1> USE DEF HotInv
  <1>0. NoState # "FILLED" /\ NoState # "DRAFT" /\ Blank.state = NoState
    BY DEF NoState, Blank
  <1>1. ASSUME NEW t \in Threads, Starts(t) PROVE FALSE
    BY <1>0, <1>1, StartsFacts DEF ShownFilled
  <1>2. ASSUME NEW t \in Threads, Calls(t) PROVE FALSE
    BY <1>0, <1>2, CallsFacts DEF ShownFilled
  <1>3. ASSUME NEW t \in Threads, Quietly(t) PROVE FALSE
    BY <1>3, QuietlyFacts DEF ShownFilled
  <1>4. ASSUME NEW t \in Threads, TrackerStep(t)
        PROVE  /\ call[t].pc = "commit"
               /\ call[t].to = "FILLED" /\ o = cycle[t].o
               /\ order[o].state \in ActiveStates
    <2>1. TrackerMoves(t)
      BY <1>4, InternalMoves DEF TrackerStep
    <2>2. order'[o].state = "FILLED" /\ order[o].state # "FILLED"
      BY <1>0, <2>1 DEF ShownFilled, TrackerMoves, FilesMove, CallMoves
    <2>3. <<order[o].state, "FILLED">> \in LegalTransitions
      BY <1>4, <2>2, CommitIsLegal
    <2> QED
      BY <1>4, <2>2, <2>3, CommitIsLegal DEF LegalTransitions, ActiveStates
  <1>5. CASE HotCrash \/ HotBoot
    <2>1. \A t \in Threads :
            call'[t].snap[o].state \in {NoState, call[t].snap[o].state}
      BY <1>5, IdleFields DEF HotCrash, Crash, HotBoot, Boot
    <2> QED
      BY <1>0, <1>5, <2>1, ProcessFacts DEF ShownFilled
  <1>6. CASE HotDamage \/ UNCHANGED hotVars
    BY <1>6 DEF ShownFilled, HotDamage, Damage, hotVars, vars
  <1> QED
    BY <1>1, <1>2, <1>3, <1>4, <1>5, <1>6 DEF HotKinds

\* The parts of FillsProtected, each kept by every step.
LEMMA FilledKept ==
    ASSUME HotInv, HotInv', FillsProtected, HotKinds
    PROVE  \A o \in Orders : ShownFilled(o)' => exposure'[o] = "protected"
  <1> USE DEF HotInv
  <1> SUFFICES ASSUME NEW o \in Orders, ShownFilled(o)'
               PROVE  exposure'[o] = "protected"
    OBVIOUS
  <1>1. CASE ~ShownFilled(o)
    <2>1. PICK t \in Threads : /\ TrackerStep(t) /\ call[t].pc = "commit"
                               /\ call[t].to = "FILLED" /\ o = cycle[t].o
                               /\ order[o].state \in ActiveStates
      BY <1>1, FilledStep
    <2>2. cycle[t].pc = "fill" /\ exposure' = exposure
      BY <2>1 DEF FillsProtected, TrackerStep, Moving
    <2>3. t = Futures
      BY <2>1, <2>2, CyclesAssumption DEF FillsProtected
    <2> QED
      BY <2>1, <2>2, <2>3 DEF FillsProtected
  <1>2. CASE ShownFilled(o)
    <2>1. exposure[o] = "protected"
      BY <1>2 DEF FillsProtected
    <2>2. ASSUME NEW t \in Threads, Quietly(t)
          PROVE  exposure'[o] = exposure[o]
      <3>1. CASE cycle[t].pc \in {"entry", "protect"}
        BY <1>2, <2>2, <3>1 DEF FillsProtected, Quietly
      <3>2. CASE UNCHANGED exposure
        BY <3>2
      <3> QED
        BY <2>2, <3>1, <3>2 DEF Quietly
    <2>3. ASSUME NEW t \in Threads, Starts(t) \/ Calls(t) \/ TrackerStep(t)
          PROVE  exposure' = exposure
      BY <2>3, StartsFacts DEF Calls, TrackerStep
    <2>4. HotCrash \/ HotBoot \/ HotDamage \/ UNCHANGED hotVars
            => exposure' = exposure
      BY DEF HotCrash, HotBoot, HotDamage, hotVars
    <2> QED
      BY <2>1, <2>2, <2>3, <2>4 DEF HotKinds
  <1> QED
    BY <1>1, <1>2

\* What the order of a cycle that has one at work is after a step.
LEMMA SameOrder ==
    ASSUME HotInv, HotKinds, NEW t \in Threads, cycle'[t].pc # "rest"
    PROVE  \/ Starts(t)
           \/ cycle[t].pc # "rest" /\ cycle'[t].o = cycle[t].o
  <1> USE DEF HotInv
  <1>1. ASSUME NEW u \in Threads \ {t}, Starts(u) \/ Quietly(u) \/ Calls(u)
        PROVE  cycle'[t] = cycle[t]
    BY <1>1, StartsFacts, QuietlyFacts, CallsFacts
  <1>2. CASE Quietly(t) \/ Calls(t)
    BY <1>2, QuietlyFacts, CallsFacts
  <1>3. ASSUME NEW u \in Threads, TrackerStep(u)
        PROVE  cycle'[t] = cycle[t]
    BY <1>3 DEF TrackerStep
  <1>4. ~HotCrash /\ ~HotBoot
    BY ProcessFacts
  <1>5. HotDamage \/ UNCHANGED hotVars => cycle' = cycle
    BY DEF HotDamage, hotVars
  <1> QED
    BY <1>1, <1>2, <1>3, <1>4, <1>5 DEF HotKinds

LEMMA EarlyKept ==
    ASSUME HotInv, HotInv', FillsProtected, HotKinds, NEW t \in Threads,
           cycle'[t].pc \in Early, NEW p \in Orders, p = cycle'[t].o
    PROVE  ~ShownFilled(p)'
  <1> USE DEF HotInv
  <1>0. cycle'[t].pc # "rest"
    BY DEF Early
  <1> SUFFICES ASSUME ShownFilled(p)' PROVE FALSE
    OBVIOUS
  <1>1. CASE Starts(t)
    <2>1. p \notin used /\ order'[p].state = "DRAFT"
      BY <1>1, StartsFacts
    <2>2. ~ShownFilled(p)
      BY <1>0, <2>1
      DEF ShownFilled, TrackerInv, IdsAreUsed, CyclesApart, Exists, NoState
    <2>3. PICK u \in Threads : TrackerStep(u) /\ p = cycle[u].o /\ call[u].pc = "commit"
      BY <1>0, <2>2, FilledStep
    <2> QED
      BY <2>1, <2>3 DEF CyclesApart, Quiet
  <1>2. CASE cycle[t].pc # "rest" /\ p = cycle[t].o
    <2>1. cycle[t].pc \in Early
      <3>1. ASSUME NEW u \in Threads \ {t}, Starts(u) \/ Quietly(u) \/ Calls(u)
            PROVE  cycle'[t] = cycle[t]
        BY <3>1, StartsFacts, QuietlyFacts, CallsFacts
      <3>2. Quietly(t) \/ Calls(t) => cycle[t].pc \in Early
        BY DEF Quietly, Calls
      <3>3. Starts(t) => cycle[t].pc = "rest"
        BY DEF Starts, StartOrder
      <3>4. ASSUME NEW u \in Threads, TrackerStep(u)
            PROVE  cycle' = cycle
        BY <3>4 DEF TrackerStep
      <3>5. ~HotCrash /\ ~HotBoot
        BY <1>0, ProcessFacts
      <3>6. HotDamage \/ UNCHANGED hotVars => cycle' = cycle
        BY DEF HotDamage, hotVars
      <3> QED
        BY <1>2, <3>1, <3>2, <3>3, <3>4, <3>5, <3>6 DEF HotKinds
    <2>2. ~ShownFilled(p)
      BY <1>2, <2>1 DEF FillsProtected, Early, ShownFilled
    <2>3. PICK u \in Threads : /\ TrackerStep(u) /\ p = cycle[u].o
                               /\ call[u].pc = "commit" /\ call[u].to = "FILLED"
      BY <1>0, <2>2, FilledStep
    <2>4. cycle[u].pc = "fill"
      BY <2>3 DEF FillsProtected, Moving
    <2>5. t # u /\ cycle[t].pc # "rest" /\ cycle[u].pc # "rest"
      BY <1>2, <2>1, <2>4 DEF Early
    <2>6. cycle[t].o # cycle[u].o
      BY <2>5 DEF CyclesApart
    <2> QED
      BY <1>2, <2>3, <2>6
  <1> QED
    BY <1>0, <1>1, <1>2, SameOrder

\* A transition to FILLED is one the cycle asked for last; the crypto cycle never
\* asks for PARTIAL, and what it asks for without a broker id is not committed.
LEMMA AskedKept ==
    ASSUME HotInv, HotInv', FillsProtected, HotKinds, NEW t \in Threads,
           call'[t].pc \in Moving
    PROVE  /\ call'[t].to = "FILLED" => cycle'[t].pc = "fill"
           /\ t = Crypto =>
                /\ call'[t].to # "PARTIAL"
                /\ call'[t].to = "SUBMITTED" =>
                      ~call'[t].ctx.bid /\ call'[t].pc # "commit"
  <1> USE DEF HotInv
  <1>0. call[t].pc \in Moving =>
          /\ call[t].to = "FILLED" => cycle[t].pc = "fill"
          /\ t = Crypto =>
                /\ call[t].to # "PARTIAL"
                /\ call[t].to = "SUBMITTED" =>
                      ~call[t].ctx.bid /\ call[t].pc # "commit"
    BY DEF FillsProtected
  <1>1. ASSUME NEW u \in Threads \ {t}, Starts(u) \/ Quietly(u) \/ Calls(u)
        PROVE  cycle'[t] = cycle[t] /\ call'[t] = call[t]
    BY <1>1, StartsFacts, QuietlyFacts, CallsFacts
  <1>2. ~Starts(t) /\ ~Quietly(t)
    BY StartsFacts, QuietlyFacts DEF Moving
  <1>3. CASE Calls(t)
    BY <1>3, CallsFacts
  <1>4. ASSUME NEW u \in Threads \ {t}, TrackerStep(u)
        PROVE  cycle' = cycle /\ call'[t] = call[t]
    BY <1>4, InternalMoves DEF TrackerStep, TrackerMoves, CallMoves
  <1>5. CASE TrackerStep(t)
    <2>1. /\ cycle' = cycle /\ call'[t].to = call[t].to
          /\ \/ /\ call[t].pc = "check" /\ call'[t].pc = "guard"
                /\ call'[t].ctx = call[t].ctx
             \/ /\ call[t].pc = "guard" /\ call'[t].pc = "commit"
                /\ ~GuardRefuses(call[t].to, call[t].ctx)
      BY <1>5, InternalMoves DEF TrackerStep, TrackerMoves, CallMoves
    <2> QED
      BY <1>0, <2>1 DEF GuardRefuses, Moving
  <1>6. ~HotCrash /\ ~HotBoot
    BY ProcessFacts DEF Moving
  <1>7. HotDamage \/ UNCHANGED hotVars => cycle' = cycle /\ call' = call
    BY DEF HotDamage, Damage, hotVars, vars
  <1> QED
    BY <1>0, <1>1, <1>2, <1>3, <1>4, <1>5, <1>6, <1>7 DEF HotKinds

LEMMA LateKept ==
    ASSUME HotInv, HotInv', FillsProtected, HotKinds, cycle'[Futures].pc \in Late
    PROVE  exposure'[cycle'[Futures].o] = "protected"
  <1> USE CyclesAssumption DEF HotInv
  <1> DEFINE c == cycle[Futures]
  <1>0. c.pc \in Late => exposure[c.o] = "protected"
    BY DEF FillsProtected, Late
  <1>1. CASE Starts(Futures)
    BY <1>1, StartsFacts DEF Late
  <1>2. CASE Quietly(Futures)
    BY <1>0, <1>2, QuietlyFacts DEF Quietly, Late
  <1>3. CASE Calls(Futures)
    BY <1>0, <1>3, CallsFacts DEF Calls
  <1>4. CASE Starts(Crypto) \/ Calls(Crypto)
    <2>1. cycle'[Futures] = c /\ exposure' = exposure
      BY <1>4, StartsFacts, CallsFacts
    <2> QED
      BY <1>0, <2>1
  <1>5. CASE Quietly(Crypto)
    <2>1. cycle'[Futures] = c /\ cycle[Crypto].pc # "rest"
      BY <1>5, QuietlyFacts
    <2>2. c.pc # "rest" /\ c.o \in Orders
      BY <2>1 DEF Late, CyclesApart, TrackerInv, TypeOK
    <2>3. c.o # cycle[Crypto].o
      BY <2>1, <2>2 DEF CyclesApart
    <2> QED
      BY <1>0, <1>5, <2>1, <2>2, <2>3 DEF Quietly
  <1>6. ASSUME NEW u \in Threads, TrackerStep(u)
        PROVE  cycle' = cycle /\ exposure' = exposure
    BY <1>6 DEF TrackerStep
  <1>7. ~HotCrash /\ ~HotBoot
    BY ProcessFacts DEF Late
  <1>8. HotDamage \/ UNCHANGED hotVars => cycle' = cycle /\ exposure' = exposure
    BY DEF HotDamage, hotVars
  <1> QED
    BY <1>0, <1>1, <1>2, <1>3, <1>4, <1>5, <1>6, <1>7, <1>8 DEF HotKinds

LEMMA CryptoInactive ==
    ASSUME HotInv, HotInv', FillsProtected, HotKinds, cycle'[Crypto].pc # "rest",
           NEW o \in Orders, o = cycle'[Crypto].o
    PROVE  order'[o].state \notin ActiveStates
  <1> USE CyclesAssumption DEF HotInv
  <1>1. CASE Starts(Crypto)
    BY <1>1, StartsFacts DEF ActiveStates
  <1>2. CASE cycle[Crypto].pc # "rest" /\ o = cycle[Crypto].o
    <2>1. order[o].state \notin ActiveStates /\ o \in used
      BY <1>2 DEF FillsProtected, CyclesApart
    <2>2. ASSUME NEW u \in Threads, Starts(u) PROVE order'[o] = order[o]
      BY <2>1, <2>2, StartsFacts
    <2>3. ASSUME NEW u \in Threads, Quietly(u) \/ Calls(u) PROVE order' = order
      BY <2>3, QuietlyFacts, CallsFacts
    <2>4. ASSUME NEW u \in Threads, TrackerStep(u), order'[o].state # order[o].state
          PROVE  order'[o].state \notin ActiveStates
      <3>1. /\ call[u].pc = "commit" /\ o = cycle[u].o /\ cycle[u].pc # "rest"
            /\ order'[o].state = call[u].to
        BY <2>4, CommitIsLegal
      <3>2. u = Crypto
        BY <1>2, <3>1 DEF CyclesApart
      <3> QED
        BY <3>1, <3>2 DEF FillsProtected, Moving, ActiveStates
    <2>5. ~HotCrash /\ ~HotBoot
      BY ProcessFacts
    <2>6. HotDamage \/ UNCHANGED hotVars => order' = order
      BY DEF HotDamage, Damage, hotVars, vars
    <2> QED
      BY <2>1, <2>2, <2>3, <2>4, <2>5, <2>6 DEF HotKinds
  <1> QED
    BY <1>1, <1>2, SameOrder

LEMMA FillsStep ==
    ASSUME HotInv, FillsProtected, [HotNext]_hotVars
    PROVE  FillsProtected'
  <1>1. HotInv' /\ HotKinds
    BY HotInvStep, KindsOfSteps DEF HotInv
  <1>2. \A t \in Threads : cycle'[t].pc # "rest" => cycle'[t].o \in Orders
    BY <1>1 DEF HotInv, CyclesApart, TrackerInv, TypeOK
  <1>3. (\A o \in Orders : ShownFilled(o) => exposure[o] = "protected")'
    BY <1>1, FilledKept
  <1>4. ASSUME NEW t \in Threads,
               cycle'[t].pc \in {"create", "validate", "entry", "protect"}
        PROVE  ~ShownFilled(cycle[t].o)'
    BY <1>1, <1>2, <1>4, EarlyKept DEF Early, ShownFilled
  <1>5. ASSUME NEW t \in Threads, call'[t].pc \in Moving, call'[t].to = "FILLED"
        PROVE  cycle'[t].pc = "fill"
    BY <1>1, <1>5, AskedKept
  <1>6. cycle'[Futures].pc \in {"target", "report", "submit", "fill"}
          => exposure'[cycle'[Futures].o] = "protected"
    BY <1>1, LateKept DEF Late
  <1>7. cycle'[Crypto].pc # "rest" => order'[cycle'[Crypto].o].state \notin ActiveStates
    BY <1>1, <1>2, CryptoInactive, CyclesAssumption
  <1>8. call'[Crypto].pc \in Moving =>
          /\ call'[Crypto].to # "PARTIAL"
          /\ call'[Crypto].to = "SUBMITTED" =>
                ~call'[Crypto].ctx.bid /\ call'[Crypto].pc # "commit"
    BY <1>1, AskedKept, CyclesAssumption
  <1> QED
    BY <1>3, <1>4, <1>5, <1>6, <1>7, <1>8 DEF FillsProtected

LEMMA FillsInit == HotInit => FillsProtected
  <1> SUFFICES ASSUME HotInit PROVE FillsProtected
    OBVIOUS
  <1>1. /\ \A t \in Threads : cycle[t].pc = "rest" /\ call[t] = Idle
        /\ \A o \in Orders : order[o] = Blank /\ file[o] = Blank
    BY DEF HotInit, Init, AtRest
  <1>2. \A o \in Orders : ~ShownFilled(o)
    BY <1>1, IdleFields DEF ShownFilled, NoState
  <1> QED
    BY <1>1, <1>2, IdleFields, CyclesAssumption DEF FillsProtected, Moving

\* Docstring invariant 1 of the state machine against the broker: an order that
\* is recorded as FILLED, in memory or in the file, through crashes and damaged
\* files, is one whose stop-loss the broker holds.
THEOREM HotFilledIsProtected == HotSpec => []FilledIsProtected
  <1>1. FillsProtected => FilledIsProtected
    BY DEF FillsProtected, ShownFilled, FilledIsProtected
  <1> QED
    BY <1>1, FillsInit, FillsStep, HotInvariant, PTL DEF HotSpec

-----------------------------------------------------------------------------
(* The file is behind.                                                     *)

LEMMA RanksBounded ==
    /\ \A s : Rank(s) \in 0..4
    /\ Rank(NoState) = 0
  BY DEF Rank, NoState, TerminalStates

LEMMA PrecedesFacts ==
    /\ \A s : Precedes(NoState, s) /\ Precedes(s, s)
    /\ \A r, s : <<r, s>> \in LegalTransitions => Precedes(r, s)
  <1>1. \A r, s : <<r, s>> \in LegalTransitions => Rank(r) < Rank(s)
    BY DEF LegalTransitions, Rank, TerminalStates
  <1> QED
    BY <1>1 DEF Precedes

LEMMA PrecedesTransitive ==
    ASSUME NEW r, NEW s, NEW q, Precedes(r, s), Precedes(s, q)
    PROVE  Precedes(r, q)
  <1>1. \A i, j, k \in 0..4 : (i < j /\ j < k => i < k) /\ ~(i < 0)
    OBVIOUS
  <1> QED
    BY <1>1, RanksBounded DEF Precedes

\* An idle thread holds no payload: the process starts again without any.
IdleHoldsNothing ==
    \A t \in Threads : call[t].pc = "idle" =>
        \A o \in Orders : call[t].snap[o].state = NoState

Behind == FileNotAhead /\ IdleHoldsNothing

LEMMA BehindTracker ==
    ASSUME HotInv, Behind, NEW t \in Threads, TrackerStep(t)
    PROVE  Behind'
  <1> USE DEF HotInv
  <1>1. TrackerMoves(t)
    BY InternalMoves DEF TrackerStep
  <1>2. \A u \in Threads \ {t} : call'[u] = call[u]
    BY <1>1 DEF TrackerMoves, CallMoves
  <1>3. ASSUME NEW o \in registry'
        PROVE  /\ Precedes(file'[o].state, order'[o].state)
               /\ \A u \in Threads :
                     Precedes(call'[u].snap[o].state, order'[o].state)
    <2>1. o \in registry /\ o \in Orders
      BY <1>1 DEF TrackerMoves, TrackerInv, TypeOK
    <2>2. /\ Precedes(file[o].state, order[o].state)
          /\ \A u \in Threads : Precedes(call[u].snap[o].state, order[o].state)
      BY <2>1 DEF Behind, FileNotAhead
    <2>3. Precedes(order[o].state, order'[o].state)
      <3>1. CASE order'[o].state = order[o].state
        BY <3>1, PrecedesFacts
      <3>2. CASE order'[o].state # order[o].state
        BY <2>1, <3>2, CommitIsLegal, PrecedesFacts
      <3> QED
        BY <3>1, <3>2
    <2>4. /\ file'[o].state \in {file[o].state, call[t].snap[o].state}
          /\ call'[t].snap[o].state \in
                {NoState, call[t].snap[o].state, order[o].state}
      BY <1>1, <2>1 DEF TrackerMoves, FilesMove
    <2>5. Precedes(file'[o].state, order[o].state)
      BY <2>2, <2>4
    <2>6. Precedes(call'[t].snap[o].state, order[o].state)
      BY <2>2, <2>4, PrecedesFacts
    <2>7. \A u \in Threads : Precedes(call'[u].snap[o].state, order[o].state)
      BY <1>2, <2>2, <2>6
    <2> QED
      BY <2>3, <2>5, <2>7, PrecedesTransitive
  <1>4. IdleHoldsNothing'
    BY <1>1, <1>2 DEF Behind, IdleHoldsNothing, TrackerMoves, FilesMove
  <1> QED
    BY <1>3, <1>4 DEF Behind, FileNotAhead

LEMMA BehindStep ==
    ASSUME HotInv, Behind, [HotNext]_hotVars
    PROVE  Behind'
  <1> USE DEF HotInv
  <1>1. HotKinds
    BY KindsOfSteps
  <1>2. ASSUME NEW t \in Threads, Starts(t) PROVE Behind'
    <2>1. PICK o \in Orders \ used :
             /\ \A u \in Threads \ {t} : call'[u] = call[u]
             /\ call'[t].pc = "save" /\ call'[t].snap = [p \in Orders |-> Blank]
             /\ \A p \in Orders \ {o} : order'[p] = order[p]
             /\ registry' = registry \cup {o} /\ file' = file
      BY <1>2, StartsFacts
    <2>2. \A u \in Threads, p \in Orders :
             call'[u].snap[p].state \in {NoState, call[u].snap[p].state}
      BY <2>1, IdleFields
    <2>3. /\ file[o].state = NoState
          /\ \A u \in Threads : call[u].snap[o].state = NoState
      BY DEF TrackerInv, IdsAreUsed, Exists
    <2>4. ASSUME NEW p \in registry'
          PROVE  /\ Precedes(file'[p].state, order'[p].state)
                 /\ \A u \in Threads :
                       Precedes(call'[u].snap[p].state, order'[p].state)
      <3>1. p \in Orders
        BY <2>1, <2>4 DEF TrackerInv, TypeOK
      <3>2. CASE p = o
        BY <2>1, <2>2, <2>3, <3>2, PrecedesFacts
      <3>3. CASE p # o
        <4>1. p \in registry /\ order'[p] = order[p]
          BY <2>1, <2>4, <3>1, <3>3
        <4>2. /\ Precedes(file[p].state, order[p].state)
              /\ \A u \in Threads : Precedes(call[u].snap[p].state, order[p].state)
          BY <4>1 DEF Behind, FileNotAhead
        <4> QED
          BY <2>1, <2>2, <3>1, <4>1, <4>2, PrecedesFacts
      <3> QED
        BY <3>2, <3>3
    <2> QED
      BY <2>1, <2>4 DEF Behind, FileNotAhead, IdleHoldsNothing
  <1>3. ASSUME NEW t \in Threads, Calls(t) PROVE Behind'
    <2>1. /\ call'[t].pc = "check" /\ UNCHANGED <<order, registry, file>>
          /\ \A u \in Threads \ {t} : call'[u] = call[u]
          /\ \A p \in Orders : call'[t].snap[p].state = NoState
      BY <1>3, CallsFacts, IdleFields
    <2>2. \A u \in Threads, p \in Orders :
             call'[u].snap[p].state \in {NoState, call[u].snap[p].state}
      BY <2>1
    <2> QED
      BY <2>1, <2>2, PrecedesFacts
      DEF Behind, FileNotAhead, IdleHoldsNothing, TrackerInv, TypeOK
  <1>4. ASSUME NEW t \in Threads, Quietly(t) PROVE Behind'
    BY <1>4, QuietlyFacts DEF Behind, FileNotAhead, IdleHoldsNothing
  <1>5. CASE HotCrash
    BY <1>5, IdleFields
    DEF HotCrash, Crash, Behind, FileNotAhead, IdleHoldsNothing
  <1>6. CASE HotBoot
    <2>1. \A t \in Threads : call[t].pc = "idle"
      BY <1>6 DEF HotBoot, Boot, TrackerInv, ThreadsCovered
    <2>2. /\ UNCHANGED <<call, file>>
          /\ \A o \in registry' : o \in Orders /\ order'[o] = file[o]
      BY <1>6 DEF HotBoot, Boot
    <2>3. \A t \in Threads, o \in Orders : call[t].snap[o].state = NoState
      BY <2>1, PrecedesFacts DEF Behind, IdleHoldsNothing
    <2> QED
      BY <2>2, <2>3, PrecedesFacts DEF Behind, FileNotAhead, IdleHoldsNothing
  <1>7. CASE HotDamage \/ UNCHANGED hotVars
    BY <1>7 DEF HotDamage, Damage, hotVars, vars, Behind, FileNotAhead, IdleHoldsNothing
  <1> QED
    BY <1>1, <1>2, <1>3, <1>4, <1>5, <1>6, <1>7, BehindTracker DEF HotKinds

\* save_state() follows every transition and another thread may write an older
\* payload over a newer one, but no payload and no file is ever ahead of the
\* order it describes: a crash never brings an order back in a later state than
\* the one it had reached.
THEOREM HotFileNotAhead == HotSpec => []FileNotAhead
  <1>1. HotInit => Behind
    BY IdleFields, PrecedesFacts
    DEF HotInit, Init, Behind, FileNotAhead, IdleHoldsNothing
  <1>2. Behind => FileNotAhead
    BY DEF Behind
  <1> QED
    BY <1>1, <1>2, BehindStep, HotInvariant, PTL DEF HotSpec

-----------------------------------------------------------------------------
(* The hot path implements the ledger.                                     *)

\* What has no entry in the registry is nowhere in memory: the cycles never
\* clean up.
Unregistered ==
    \A o \in Orders \ registry :
        /\ order[o].state = NoState
        /\ \A t \in Threads : call[t].snap[o].state = NoState

LEMMA UnregisteredStep ==
    ASSUME HotInv, Behind, Unregistered, [HotNext]_hotVars
    PROVE  Unregistered'
  <1> USE DEF HotInv
  <1>1. HotKinds
    BY KindsOfSteps
  <1>2. ASSUME NEW t \in Threads, Starts(t) PROVE Unregistered'
    <2>1. PICK o \in Orders \ used :
             /\ \A u \in Threads \ {t} : call'[u] = call[u]
             /\ call'[t].snap = [p \in Orders |-> Blank]
             /\ \A p \in Orders \ {o} : order'[p] = order[p]
             /\ registry' = registry \cup {o}
      BY <1>2, StartsFacts
    <2> QED
      BY <2>1, IdleFields DEF Unregistered
  <1>3. ASSUME NEW t \in Threads, Calls(t) PROVE Unregistered'
    BY <1>3, CallsFacts, IdleFields DEF Unregistered
  <1>4. ASSUME NEW t \in Threads, Quietly(t) PROVE Unregistered'
    BY <1>4, QuietlyFacts DEF Unregistered
  <1>5. ASSUME NEW t \in Threads, TrackerStep(t) PROVE Unregistered'
    <2>1. TrackerMoves(t)
      BY <1>5, InternalMoves DEF TrackerStep
    <2>2. ASSUME NEW o \in Orders, order'[o].state # order[o].state
          PROVE  order[o].state # NoState
      BY <1>5, <2>2, CommitIsLegal DEF LegalTransitions, NoState
    <2> QED
      BY <2>1, <2>2 DEF Unregistered, TrackerMoves, CallMoves, FilesMove
  <1>6. CASE HotCrash
    BY <1>6, IdleFields DEF HotCrash, Crash, Unregistered
  <1>7. CASE HotBoot
    <2>1. UNCHANGED call /\ \A o \in Orders \ registry' : order'[o] = Blank
      BY <1>7 DEF HotBoot, Boot
    <2>2. \A t \in Threads : call[t].pc = "idle"
      BY <1>7 DEF HotBoot, Boot, TrackerInv, ThreadsCovered
    <2> QED
      BY <2>1, <2>2, IdleFields DEF Behind, IdleHoldsNothing, Unregistered
  <1>8. CASE HotDamage \/ UNCHANGED hotVars
    BY <1>8 DEF HotDamage, Damage, hotVars, vars, Unregistered
  <1> QED
    BY <1>1, <1>2, <1>3, <1>4, <1>5, <1>6, <1>7, <1>8 DEF HotKinds

LEMMA OneChanged ==
    ASSUME NEW f, NEW g, NEW d \in Orders, NEW v,
           f = [o \in Orders |-> f[o]], g = [o \in Orders |-> g[o]],
           g[d] = v, \A o \in Orders \ {d} : g[o] = f[o]
    PROVE  g = [f EXCEPT ![d] = v]
  OBVIOUS

\* The ledger's variables, as the hot path shows them.
Memory == [o \in Orders |-> order[o].state]
Disk == [o \in Orders |-> IF readable THEN file[o].state ELSE NoState]

\* The ledger's actions, on those.
LedgerAdvance(o, s) ==
    /\ up /\ <<Memory[o], s>> \in LegalTransitions
    /\ Memory' = [Memory EXCEPT ![o] = s]
    /\ UNCHANGED <<Disk, used, up>>

LedgerDraw(o) ==
    /\ up /\ o \notin used /\ used' = used \cup {o}
    /\ Memory' = [Memory EXCEPT ![o] = "DRAFT"]
    /\ UNCHANGED <<Disk, up>>

LedgerKeep ==
    /\ up /\ Disk' \in [Orders -> OrderStates \cup {NoState}]
    /\ \A o \in Orders : Precedes(Disk'[o], Memory[o])
    /\ UNCHANGED <<Memory, used, up>>

LedgerRestart ==
    /\ ~up /\ up' = TRUE /\ Memory' = Disk /\ UNCHANGED <<Disk, used>>

LEMMA SameTables ==
    /\ Ledger!OrderStates = OrderStates /\ Ledger!NoState = NoState
    /\ Ledger!LegalTransitions = LegalTransitions
    /\ \A r, s : Ledger!Precedes(r, s) <=> Precedes(r, s)
  <1>1. /\ Ledger!OrderStates = OrderStates /\ Ledger!NoState = NoState
        /\ Ledger!LegalTransitions = LegalTransitions
        /\ Ledger!TerminalStates = TerminalStates
    BY DEF Ledger!OrderStates, OrderStates, Ledger!NoState, NoState,
         Ledger!LegalTransitions, LegalTransitions, Ledger!TerminalStates,
         TerminalStates
  <1>2. \A r : Ledger!Rank(r) = Rank(r)
    BY <1>1 DEF Ledger!Rank, Rank
  <1> QED
    BY <1>1, <1>2 DEF Ledger!Precedes, Precedes

LEMMA LedgerActions ==
    /\ \A o \in Orders, s \in OrderStates :
          LedgerAdvance(o, s) => Ledger!Next
    /\ \A o \in Orders : LedgerDraw(o) => Ledger!Next
    /\ LedgerKeep => Ledger!Next
    /\ LedgerRestart => Ledger!Next
    /\ UNCHANGED <<Memory, Disk, used, up>> => UNCHANGED Ledger!ledgerVars
  <1>1. ASSUME NEW o \in Orders, NEW s \in OrderStates, LedgerAdvance(o, s)
        PROVE  Ledger!Next
    <2>1. Ledger!Advance(o, s)
      BY <1>1, SameTables DEF LedgerAdvance, Ledger!Advance, Memory, Disk
    <2>2. s \in Ledger!OrderStates
      BY SameTables
    <2> QED
      BY <2>1, <2>2 DEF Ledger!Next
  <1>2. ASSUME NEW o \in Orders, LedgerDraw(o) PROVE Ledger!Next
    <2>1. Ledger!Draw(o)
      BY <1>2 DEF LedgerDraw, Ledger!Draw, Memory, Disk
    <2> QED
      BY <2>1 DEF Ledger!Next
  <1>3. LedgerKeep => Ledger!Next
    <2>1. LedgerKeep => Ledger!Keep
      BY SameTables DEF LedgerKeep, Ledger!Keep, Memory, Disk
    <2> QED
      BY <2>1 DEF Ledger!Next
  <1>4. LedgerRestart => Ledger!Next
    <2>1. LedgerRestart => Ledger!Restart
      BY DEF LedgerRestart, Ledger!Restart, Memory, Disk
    <2> QED
      BY <2>1 DEF Ledger!Next
  <1>5. UNCHANGED <<Memory, Disk, used, up>> => UNCHANGED Ledger!ledgerVars
    BY DEF Ledger!ledgerVars, Memory, Disk
  <1> QED
    BY <1>1, <1>2, <1>3, <1>4, <1>5

\* What a step of the tracker is to the ledger: the assignment of a state
\* advances an order, the replacement of the file keeps a payload, everything
\* else changes nothing it can see.
LEMMA LedgerTracker ==
    ASSUME HotInv, Behind, Unregistered, NEW t \in Threads, TrackerStep(t)
    PROVE  [Ledger!Next]_(Ledger!ledgerVars)
  <1> USE DEF HotInv
  <1>1. Internal(t) /\ TypeOK
    BY DEF TrackerStep, TrackerInv
  <1>2. CASE Commit(t)
    <2>1. /\ up /\ call[t].o \in Orders /\ call[t].to \in OrderStates
          /\ <<order[call[t].o].state, call[t].to>> \in LegalTransitions
      BY <1>2, CallFieldsTyped DEF Commit, TrackerInv, IdsAreUsed, TypeOK,
           CyclesApart, LegalTransitions, OrderStates
    <2>2. /\ order'[call[t].o].state = call[t].to
          /\ \A o \in Orders \ {call[t].o} : order'[o].state = order[o].state
      BY <1>1, <1>2, <2>1 DEF Commit, TypeOK, OrderRecord
    <2>3. /\ Memory'[call[t].o] = call[t].to
          /\ \A o \in Orders \ {call[t].o} : Memory'[o] = Memory[o]
          /\ Memory = [o \in Orders |-> Memory[o]]
          /\ Memory' = [o \in Orders |-> Memory'[o]]
      BY <2>1, <2>2 DEF Memory
    <2>4. Memory' = [Memory EXCEPT ![call[t].o] = call[t].to]
      BY <2>1, <2>3, OneChanged
    <2>5. UNCHANGED <<Disk, used, up>>
      BY <1>2 DEF Commit, Disk
    <2>6. <<Memory[call[t].o], call[t].to>> \in LegalTransitions
      BY <2>1 DEF Memory
    <2>7. LedgerAdvance(call[t].o, call[t].to)
      BY <2>1, <2>4, <2>5, <2>6 DEF LedgerAdvance
    <2> QED
      BY <2>1, <2>7, LedgerActions
  <1>3. CASE ReplaceFile(t)
    <2>1. /\ up /\ UNCHANGED <<Memory, used, up>>
          /\ Disk' = [o \in Orders |-> call[t].snap[o].state]
      BY <1>3 DEF ReplaceFile, Memory, Disk
    <2>2. Disk' \in [Orders -> OrderStates \cup {NoState}]
      BY <1>1, <2>1 DEF TypeOK, CallRecord, OrderRecord
    <2>3. \A o \in Orders : Precedes(call[t].snap[o].state, order[o].state)
      BY PrecedesFacts DEF Behind, FileNotAhead, Unregistered
    <2>4. LedgerKeep
      BY <2>1, <2>2, <2>3 DEF LedgerKeep, Memory
    <2> QED
      BY <2>4, LedgerActions
  <1>4. CASE CheckLegal(t) \/ SnapshotStates(t) \/ SnapshotFields(t) \/ SaveFails(t)
    <2>1. UNCHANGED <<Memory, Disk, used, up>>
      BY <1>4 DEF CheckLegal, SnapshotStates, SnapshotFields, SaveFails, Memory, Disk
    <2> QED
      BY <2>1, LedgerActions
  <1>5. CASE RunGuard(t)
    <2>1. \A o \in Orders : order'[o].state = order[o].state
      BY <1>5, CommitIsLegal DEF RunGuard
    <2>2. UNCHANGED <<Memory, Disk, used, up>>
      BY <1>5, <2>1 DEF RunGuard, Memory, Disk
    <2> QED
      BY <2>2, LedgerActions
  <1> QED
    BY <1>1, <1>2, <1>3, <1>4, <1>5 DEF Internal

LEMMA LedgerStep ==
    ASSUME HotInv, Behind, Unregistered, [HotNext]_hotVars
    PROVE  [Ledger!Next]_(Ledger!ledgerVars)
  <1> USE DEF HotInv
  <1>1. HotKinds /\ TypeOK
    BY KindsOfSteps DEF TrackerInv
  <1>2. ASSUME NEW t \in Threads, Starts(t)
        PROVE  [Ledger!Next]_(Ledger!ledgerVars)
    <2>1. PICK o \in Orders : Create(t, o)
      BY <1>2 DEF Starts, StartOrder
    <2>2. /\ order'[o].state = "DRAFT"
          /\ \A p \in Orders \ {o} : order'[p].state = order[p].state
      BY <1>1, <2>1 DEF Create, TypeOK, NewOrder, Blank
    <2>3. /\ Memory'[o] = "DRAFT"
          /\ \A p \in Orders \ {o} : Memory'[p] = Memory[p]
          /\ Memory = [p \in Orders |-> Memory[p]]
          /\ Memory' = [p \in Orders |-> Memory'[p]]
      BY <2>2 DEF Memory
    <2>4. Memory' = [Memory EXCEPT ![o] = "DRAFT"]
      BY <2>3, OneChanged
    <2>5. /\ up /\ o \notin used /\ used' = used \cup {o}
          /\ UNCHANGED <<Disk, up>>
      BY <2>1 DEF Create, Free, Disk
    <2>6. LedgerDraw(o)
      BY <2>4, <2>5 DEF LedgerDraw
    <2> QED
      BY <2>6, LedgerActions
  <1>3. ASSUME NEW t \in Threads, Calls(t) \/ Quietly(t)
        PROVE  [Ledger!Next]_(Ledger!ledgerVars)
    <2>1. Calls(t) => UNCHANGED <<order, file, readable, used, up>>
      <3>1. ASSUME NEW to \in OrderStates, NEW ctx \in Context,
                   Call(t, cycle[t].o, to, ctx)
            PROVE  UNCHANGED <<order, file, readable, used, up>>
        BY <3>1 DEF Call
      <3> QED
        BY <3>1 DEF Calls
    <2>3. Quietly(t) => UNCHANGED <<order, file, readable, used, up>>
      BY DEF Quietly, vars
    <2>2. UNCHANGED <<Memory, Disk, used, up>>
      BY <1>3, <2>1, <2>3 DEF Memory, Disk
    <2> QED
      BY <2>2, LedgerActions
  <1>4. CASE HotCrash
    <2>1. /\ up /\ up' = FALSE /\ UNCHANGED <<Disk, used>>
          /\ Memory' = [o \in Orders |-> NoState]
      BY <1>4, IdleFields DEF HotCrash, Crash, Memory, Disk
    <2>2. Ledger!Stop
      BY <2>1, SameTables DEF Ledger!Stop, Ledger!Nothing, Memory, Disk
    <2> QED
      BY <2>2 DEF Ledger!Next
  <1>5. CASE HotBoot
    <2>1. /\ ~up /\ up' = TRUE /\ UNCHANGED <<Disk, used>>
      BY <1>5 DEF HotBoot, Boot, Disk
    <2>2. ASSUME NEW o \in Orders
          PROVE  order'[o].state = IF readable THEN file[o].state ELSE NoState
      <3>1. order'[o] = IF readable /\ file[o].state # NoState
                           THEN file[o] ELSE Blank
        BY <1>5 DEF HotBoot, Boot, Exists
      <3> QED
        BY <3>1, IdleFields
    <2>3. Memory' = Disk
      BY <2>2 DEF Memory, Disk
    <2>4. LedgerRestart
      BY <2>1, <2>3 DEF LedgerRestart
    <2> QED
      BY <2>4, LedgerActions
  <1>6. CASE HotDamage
    <2>1. Ledger!Lose
      BY <1>6, SameTables DEF HotDamage, Damage, Ledger!Lose, Ledger!Nothing
    <2> QED
      BY <2>1 DEF Ledger!Next
  <1>7. CASE UNCHANGED hotVars
    <2>1. UNCHANGED <<Memory, Disk, used, up>>
      BY <1>7 DEF hotVars, vars, Memory, Disk
    <2> QED
      BY <2>1, LedgerActions
  <1> QED
    BY <1>1, <1>2, <1>3, <1>4, <1>5, <1>6, <1>7, LedgerTracker DEF HotKinds

\* With any number of orders, the two cycles around the shared tracker, its saves
\* in any order, crashes and a damaged file implement the ledger: an order is drawn
\* once and moves along the table only, and a restart brings it back where it was
\* or at an earlier place of its life.
THEOREM HotImplementsLedger == HotSpec => LedgerSpec
  <1>1. HotInit => Behind /\ Unregistered
    BY IdleFields, PrecedesFacts
    DEF HotInit, Init, Behind, FileNotAhead, IdleHoldsNothing, Unregistered
  <1>2. HotInit => Ledger!Init
    BY IdleFields, SameTables DEF HotInit, Init, Ledger!Init, Ledger!Nothing
  <1>3. HotInv /\ Behind /\ Unregistered /\ [HotNext]_hotVars
           => [Ledger!Next]_(Ledger!ledgerVars)
    BY LedgerStep
  <1>4. HotInv /\ Behind /\ Unregistered /\ [HotNext]_hotVars
           => Behind' /\ Unregistered'
    BY BehindStep, UnregisteredStep
  <1>5. HotSpec => []HotInv
    BY HotInvariant
  <1>6. HotSpec => Ledger!Spec
    BY <1>1, <1>2, <1>3, <1>4, <1>5, PTL DEF HotSpec, Ledger!Spec
  <1> QED
    BY <1>6 DEF LedgerSpec

=============================================================================
