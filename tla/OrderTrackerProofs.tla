-------------------------- MODULE OrderTrackerProofs --------------------------
(***************************************************************************)
(* OrderTracker, for any set of orders and threads: type correctness, and  *)
(* the stop-loss and broker-id invariants of orders and of the file.       *)
(***************************************************************************)
EXTENDS OrderTracker, TLAPS

-----------------------------------------------------------------------------
(* The guards.                                                             *)

\* A guard's assignments keep the state and never take away a stop-loss or a
\* broker id (guard_submission, guard_partial_fill, guard_full_fill).
LEMMA GuardMonotone ==
    ASSUME NEW r \in OrderRecord, NEW to, NEW c \in Context
    PROVE  /\ AfterGuard(r, to, c) \in OrderRecord
           /\ AfterGuard(r, to, c).state = r.state
           /\ r.hasSl => AfterGuard(r, to, c).hasSl
           /\ r.brokerId => AfterGuard(r, to, c).brokerId
<1>1. CASE to = "SUBMITTED"
  BY <1>1, TotalQtyAssumption DEF AfterGuard, OrderRecord, Context
<1>2. CASE to = "PARTIAL"
  <2>. DEFINE q == AfterGuard(r, to, c)
  <2>1. q = [r EXCEPT !.filled = @ + c.qty, !.hasSl = @ \/ (c.qty > 0 /\ c.sl)]
    BY <1>2 DEF AfterGuard
  <2>2. r.filled + c.qty \in Nat BY DEF OrderRecord, Context
  <2>3. (r.hasSl \/ (c.qty > 0 /\ c.sl)) \in BOOLEAN OBVIOUS
  <2>4. q = [state |-> r.state, filled |-> r.filled + c.qty,
             hasSl |-> (r.hasSl \/ (c.qty > 0 /\ c.sl)), brokerId |-> r.brokerId]
    BY <2>1, Zenon DEF OrderRecord
  <2>. QED BY <2>4, <2>2, <2>3 DEF OrderRecord
<1>3. CASE to = "FILLED"
  BY <1>3, TotalQtyAssumption DEF AfterGuard, OrderRecord, Context
<1>4. CASE to \notin {"SUBMITTED", "PARTIAL", "FILLED"}
  BY <1>4 DEF AfterGuard, OrderRecord, Context
<1>. QED BY <1>1, <1>2, <1>3, <1>4

\* A guard that neither refuses nor raises leaves the order with everything the
\* new state demands, if the old state's broker id was there.
LEMMA GuardEstablishes ==
    ASSUME NEW r \in OrderRecord, NEW from, NEW to, NEW c \in Context,
           <<from, to>> \in LegalTransitions,
           from \in ActiveStates => r.brokerId,
           ~GuardRefuses(to, c), ~GuardRaises(r, from, to, c)
    PROVE  Covers(AfterGuard(r, to, c), to)
<1>1. CASE to = "SUBMITTED"
  BY <1>1 DEF AfterGuard, OrderRecord, Context, GuardRefuses, Covers,
              BrokerStates, ActiveStates
<1>2. CASE to = "PARTIAL"
  <2>1. from = "SUBMITTED" BY <1>2 DEF LegalTransitions
  <2>2. c.qty > 0 /\ c.sl
    BY <1>2 DEF GuardRefuses, GuardRaises, Context
  <2>. QED BY <1>2, <2>1, <2>2
           DEF AfterGuard, OrderRecord, Context, Covers, ActiveStates
<1>3. CASE to = "FILLED"
  <2>1. from \in ActiveStates BY <1>3 DEF LegalTransitions, ActiveStates
  <2>. QED BY <1>3, <2>1
           DEF AfterGuard, OrderRecord, Context, Covers, GuardRaises
<1>4. CASE to \in {"CANCELLED", "EXPIRED"}
  <2>1. from \in ActiveStates BY <1>4 DEF LegalTransitions, ActiveStates
  <2>. QED BY <1>4, <2>1 DEF AfterGuard, Covers
<1>5. CASE to \notin {"SUBMITTED", "PARTIAL", "FILLED", "CANCELLED", "EXPIRED"}
  BY <1>5 DEF Covers, BrokerStates, ActiveStates
<1>. QED BY <1>1, <1>2, <1>3, <1>4, <1>5

\* Covers only looks at two flags: it survives whatever sets them.
LEMMA CoversMonotone ==
    ASSUME NEW r, NEW q, NEW s, Covers(r, s),
           r.hasSl => q.hasSl, r.brokerId => q.brokerId
    PROVE  Covers(q, s)
BY DEF Covers
-----------------------------------------------------------------------------
(* Type correctness.                                                       *)

LEMMA IdleTyped == Idle \in CallRecord /\ Blank \in OrderRecord
                   /\ NewOrder \in OrderRecord
BY DEF Idle, CallRecord, Blank, NewOrder, OrderRecord, NoState, Context,
       NoContext, OrderStates

\* The records the threads' steps build are call records.
LEMMA CallsTyped ==
    /\ [Idle EXCEPT !.pc = "save"] \in CallRecord
    /\ [Idle EXCEPT !.raised = TRUE] \in CallRecord
    /\ \A o \in Orders \cup {NoOrder}, to \in OrderStates \cup {NoState} :
          [Idle EXCEPT !.pc = "commit", !.o = o, !.to = to] \in CallRecord
    /\ \A f \in [Orders -> OrderRecord] :
          /\ [Idle EXCEPT !.pc = "fields", !.snap = f] \in CallRecord
          /\ [Idle EXCEPT !.pc = "replace", !.snap = f] \in CallRecord
    /\ \A c \in CallRecord, s \in OrderStates :
          [c EXCEPT !.pc = "guard", !.from = s] \in CallRecord
BY IdleTyped DEF Idle, CallRecord

LEMMA CallFieldsTyped ==
    ASSUME NEW c \in CallRecord
    PROVE  /\ c.o \in Orders \cup {NoOrder}
           /\ c.to \in OrderStates \cup {NoState}
           /\ c.ctx \in Context
           /\ c.snap \in [Orders -> OrderRecord]
BY DEF CallRecord

LEMMA TypeInit == Init => TypeOK
BY IdleTyped DEF Init, TypeOK

\* Every step keeps the variables in their types.
LEMMA TypeStep == TypeOK /\ [Next]_vars => TypeOK'
<1>. SUFFICES ASSUME TypeOK, [Next]_vars PROVE TypeOK'
  OBVIOUS
<1>. USE IdleTyped
<1>1. ASSUME NEW t \in Threads, NEW o \in Orders, Create(t, o) PROVE TypeOK'
  BY <1>1 DEF Create, Free, Save, TypeOK, Idle, CallRecord
<1>2. ASSUME NEW t \in Threads, NEW o \in Orders, NEW to \in OrderStates,
             NEW c \in Context, Call(t, o, to, c)
      PROVE TypeOK'
  BY <1>2 DEF Call, Free, TypeOK, Idle, CallRecord
<1>3. ASSUME NEW t \in Threads, Request(t) PROVE TypeOK'
  <2>1. ASSUME NEW old \in SUBSET Orders, Cleanup(t, old) PROVE TypeOK'
    BY <2>1 DEF Cleanup, TypeOK
  <2>2. ASSUME NEW o \in Orders, NEW b \in BOOLEAN, Validate(t, o, b)
        PROVE TypeOK'
    BY <2>2, <1>2 DEF Validate, OrderStates, NoContext, Context
  <2>3. ASSUME NEW o \in Orders, NEW b \in BOOLEAN, Submit(t, o, b)
        PROVE TypeOK'
    BY <2>3, <1>2 DEF Submit, OrderStates, NoContext, Context
  <2>4. ASSUME NEW o \in Orders, NEW b \in BOOLEAN, Fill(t, o, b)
        PROVE TypeOK'
    BY <2>4, <1>2 DEF Fill, OrderStates, NoContext, Context
  <2>5. ASSUME NEW o \in Orders, NEW b \in BOOLEAN, PartialFill(t, o, 1, b)
        PROVE TypeOK'
    BY <2>5, <1>2 DEF PartialFill, OrderStates, NoContext, Context
  <2>6. ASSUME NEW o \in Orders, Cancel(t, o) \/ Reject(t, o) \/ MarkError(t, o)
        PROVE TypeOK'
    BY <2>6, <1>2 DEF Cancel, Reject, MarkError, OrderStates, NoContext, Context
  <2>. QED BY <1>1, <1>3, <2>1, <2>2, <2>3, <2>4, <2>5, <2>6 DEF Request
<1>4. ASSUME NEW t \in Threads, CheckLegal(t) PROVE TypeOK'
  <2>. DEFINE s == order[call[t].o].state
  <2>0. call[t] \in CallRecord BY DEF TypeOK
  <2>1. CASE <<s, call[t].to>> \in LegalTransitions
    <3>1. s \in OrderStates BY <2>1 DEF LegalTransitions, OrderStates
    <3>2. call' = [call EXCEPT ![t] = [call[t] EXCEPT !.pc = "guard", !.from = s]]
      BY <1>4, <2>1 DEF CheckLegal
    <3>3. [call[t] EXCEPT !.pc = "guard", !.from = s] \in CallRecord
      BY <2>0, <3>1, CallsTyped
    <3>. QED BY <1>4, <3>2, <3>3 DEF CheckLegal, TypeOK
  <2>2. CASE <<s, call[t].to>> \notin LegalTransitions
    BY <1>4, <2>2, CallsTyped DEF CheckLegal, TypeOK, Raise, Return
  <2>. QED BY <2>1, <2>2
<1>5. ASSUME NEW t \in Threads, RunGuard(t) PROVE TypeOK'
  <2>. DEFINE c == call[t]
  <2>1. c \in CallRecord /\ c.ctx \in Context BY CallFieldsTyped DEF TypeOK
  <2>2. order' \in [Orders -> OrderRecord]
    BY <1>5, <2>1, GuardMonotone DEF RunGuard, TypeOK
  <2>3. call' \in [Threads -> CallRecord]
    <3>1. [Idle EXCEPT !.pc = "commit", !.o = c.o, !.to = c.to] \in CallRecord
      BY <2>1, CallsTyped, CallFieldsTyped
    <3>. QED BY <1>5, <3>1, CallsTyped DEF RunGuard, TypeOK, Raise, Return, Save
  <2>. QED BY <1>5, <2>2, <2>3 DEF RunGuard, TypeOK
<1>6. ASSUME NEW t \in Threads, Commit(t) PROVE TypeOK'
  <2>. DEFINE c == call[t]
  <2>1. c.to \in OrderStates \cup {NoState} BY CallFieldsTyped DEF TypeOK
  <2>2. order' \in [Orders -> OrderRecord]
    <3>1. ASSUME NEW r \in OrderRecord PROVE [r EXCEPT !.state = c.to] \in OrderRecord
      BY <2>1 DEF OrderRecord
    <3>2. order' = [order EXCEPT ![c.o] = [order[c.o] EXCEPT !.state = c.to]]
      BY <1>6 DEF Commit
    <3>. QED BY <3>1, <3>2 DEF TypeOK
  <2>. QED BY <1>6, <2>2, CallsTyped DEF Commit, TypeOK, Save
<1>7. ASSUME NEW t \in Threads, SnapshotStates(t) PROVE TypeOK'
  <2>1. ASSUME NEW o \in Orders
        PROVE [Blank EXCEPT !.state = order[o].state] \in OrderRecord
    BY DEF TypeOK, OrderRecord, Blank
  <2>. QED BY <1>7, <2>1, CallsTyped DEF SnapshotStates, TypeOK
<1>8. ASSUME NEW t \in Threads, SnapshotFields(t) PROVE TypeOK'
  <2>1. call[t].snap \in [Orders -> OrderRecord] BY CallFieldsTyped DEF TypeOK
  <2>2. ASSUME NEW o \in Orders
        PROVE [order[o] EXCEPT !.state = call[t].snap[o].state] \in OrderRecord
    <3>1. call[t].snap[o] \in OrderRecord /\ order[o] \in OrderRecord
      BY <2>1 DEF TypeOK
    <3>. QED BY <3>1 DEF OrderRecord
  <2>. QED BY <1>8, <2>2, CallsTyped DEF SnapshotFields, TypeOK
<1>9. ASSUME NEW t \in Threads, ReplaceFile(t) \/ SaveFails(t) PROVE TypeOK'
  <2>1. call[t].snap \in [Orders -> OrderRecord] BY CallFieldsTyped DEF TypeOK
  <2>. QED BY <1>9, <2>1, CallsTyped DEF ReplaceFile, SaveFails, Return, Raise, TypeOK
<1>10. ASSUME Crash \/ Boot \/ Damage PROVE TypeOK'
  BY <1>10 DEF Crash, Boot, Damage, TypeOK
<1>11. CASE UNCHANGED vars
  BY <1>11 DEF vars, TypeOK
<1>. QED BY <1>3, <1>4, <1>5, <1>6, <1>7, <1>8, <1>9, <1>10, <1>11
         DEF Next, Internal

\* The tracker's variables keep their types whatever the threads do.
THEOREM TypeCorrect == Spec => []TypeOK
BY TypeInit, TypeStep, PTL DEF Spec
-----------------------------------------------------------------------------
(* The stop-loss and the broker id.                                        *)

LEMMA NothingDemanded ==
    /\ \A r : Covers(r, NoState) /\ Covers(r, "DRAFT")
    /\ Idle.pc = "idle" /\ Idle.snap = [o \in Orders |-> Blank]
    /\ Blank.state = NoState /\ NewOrder.state = "DRAFT"
BY DEF Covers, NoState, BrokerStates, ActiveStates, Idle, Blank, NewOrder

LEMMA InvInit == Init => TrackerInv
BY TypeInit, NothingDemanded
   DEF Init, TrackerInv, IdsAreUsed, ThreadsCovered, OrdersCovered, FileCovered,
       Exists

\* create_order(): the id was never used, so no thread and no payload knows it.
LEMMA InvCreate ==
    ASSUME TrackerInv, TypeOK', NEW t \in Threads, NEW o \in Orders, Create(t, o)
    PROVE  TrackerInv'
<1>. USE NothingDemanded DEF TrackerInv
<1>1. /\ call' = [call EXCEPT ![t] = [Idle EXCEPT !.pc = "save"]]
      /\ order' = [order EXCEPT ![o] = NewOrder]
      /\ o \notin used /\ used' = used \cup {o}
      /\ registry' = registry \cup {o} /\ file' = file /\ up /\ up' = up
  BY DEF Create, Save, Free
<1>2. /\ call'[t].pc = "save"
      /\ \A p \in Orders : call'[t].snap[p] = Blank
      /\ \A u \in Threads \ {t} : call'[u] = call[u]
      /\ order'[o] = NewOrder
      /\ \A p \in Orders \ {o} : order'[p] = order[p]
  BY <1>1 DEF TypeOK, Idle
<1>3. IdsAreUsed'
  BY <1>1, <1>2 DEF IdsAreUsed, Exists
<1>4. ThreadsCovered'
  <2>1. ASSUME NEW u \in Threads \ {t}, NEW p \in Orders, ~Exists(call[u].snap[p])
        PROVE  Covers(order'[p], call[u].snap[p].state)
    BY <2>1 DEF Exists
  <2>. QED BY <1>1, <1>2, <2>1 DEF ThreadsCovered, IdsAreUsed, TypeOK, CallRecord
<1>5. OrdersCovered'
  BY <1>1, <1>2 DEF OrdersCovered
<1>6. FileCovered'
  BY <1>1, <1>2 DEF FileCovered
<1>. QED BY <1>3, <1>4, <1>5, <1>6

\* A step of thread t that leaves the orders alone and ends in a call record
\* with nothing to establish keeps the invariant.
LEMMA InvQuietStep ==
    ASSUME TrackerInv, TypeOK', NEW t \in Threads,
           NEW rec, call' = [call EXCEPT ![t] = rec],
           rec.pc \in {"idle", "save", "check"},
           rec.pc = "check" => rec.o \in used,
           rec.snap = [o \in Orders |-> Blank],
           up, UNCHANGED <<order, registry, used, file, up>>
    PROVE  TrackerInv'
<1>. USE NothingDemanded DEF TrackerInv
<1>1. /\ call'[t] = rec
      /\ \A u \in Threads \ {t} : call'[u] = call[u]
  BY DEF TypeOK
<1>2. IdsAreUsed' BY <1>1 DEF IdsAreUsed, Exists
<1>3. ThreadsCovered' BY <1>1 DEF ThreadsCovered
<1>4. OrdersCovered' BY DEF OrdersCovered
<1>5. FileCovered' BY <1>1 DEF FileCovered
<1>. QED BY <1>2, <1>3, <1>4, <1>5

LEMMA InvCall ==
    ASSUME TrackerInv, TypeOK', NEW t \in Threads, NEW o \in Orders, NEW to,
           NEW c, Call(t, o, to, c)
    PROVE  TrackerInv'
<1>. DEFINE rec == [Idle EXCEPT !.pc = "check", !.o = o, !.to = to, !.ctx = c]
<1>1. rec.pc = "check" /\ rec.o = o /\ rec.snap = [p \in Orders |-> Blank]
  BY DEF Idle
<1>2. o \in used
  BY DEF Call, TrackerInv, IdsAreUsed
<1>3. call' = [call EXCEPT ![t] = rec] /\ up /\ UNCHANGED <<order, registry, used, file, up>>
  BY DEF Call, Free
<1>. HIDE DEF rec
<1>. QED BY <1>1, <1>2, <1>3, InvQuietStep

LEMMA InvReturn ==
    ASSUME TrackerInv, TypeOK', NEW t \in Threads, Return(t) \/ Raise(t) \/ Save(t),
           up, UNCHANGED <<order, registry, used, file, up>>
    PROVE  TrackerInv'
<1>. DEFINE raised == [Idle EXCEPT !.raised = TRUE]
            saving == [Idle EXCEPT !.pc = "save"]
<1>1. /\ raised.pc = "idle" /\ raised.snap = [p \in Orders |-> Blank]
      /\ saving.pc = "save" /\ saving.snap = [p \in Orders |-> Blank]
      /\ Idle.pc = "idle" /\ Idle.snap = [p \in Orders |-> Blank]
  BY DEF Idle
<1>2. \/ call' = [call EXCEPT ![t] = raised]
      \/ call' = [call EXCEPT ![t] = saving]
      \/ call' = [call EXCEPT ![t] = Idle]
  BY DEF Return, Raise, Save
<1>. HIDE DEF raised, saving
<1>. QED BY <1>1, <1>2, InvQuietStep

LEMMA InvCleanup ==
    ASSUME TrackerInv, TypeOK', NEW t \in Threads, NEW old, Cleanup(t, old)
    PROVE  TrackerInv'
BY DEF Cleanup, Free, TrackerInv, IdsAreUsed, ThreadsCovered, OrdersCovered,
       FileCovered, Exists

LEMMA InvCheckLegal ==
    ASSUME TrackerInv, TypeOK', NEW t \in Threads, CheckLegal(t)
    PROVE  TrackerInv'
<1>. USE DEF TrackerInv
<1>. DEFINE c == call[t]
            s == order[c.o].state
            rec == [c EXCEPT !.pc = "guard", !.from = s]
<1>0. c \in CallRecord /\ c.pc = "check" /\ c.o \in used
  BY DEF CheckLegal, TypeOK, IdsAreUsed
<1>1. CASE <<s, c.to>> \notin LegalTransitions
  BY <1>1, InvReturn DEF CheckLegal
<1>2. CASE <<s, c.to>> \in LegalTransitions
  <2>1. /\ rec.pc = "guard" /\ rec.from = s /\ rec.to = c.to /\ rec.o = c.o
        /\ rec.snap = c.snap
    BY <1>0 DEF CallRecord
  <2>2. /\ call' = [call EXCEPT ![t] = rec]
        /\ up /\ UNCHANGED <<order, registry, used, file, up>>
    BY <1>2 DEF CheckLegal
  <2>. HIDE DEF rec
  <2>3. /\ call'[t] = rec
        /\ \A u \in Threads \ {t} : call'[u] = call[u]
    BY <2>2 DEF TypeOK
  <2>4. s \in ActiveStates => order[c.o].brokerId
    BY <1>0 DEF OrdersCovered, Covers, BrokerStates, TypeOK, IdsAreUsed
  <2>5. IdsAreUsed'
    BY <1>0, <2>1, <2>2, <2>3 DEF IdsAreUsed, Exists
  <2>6. ThreadsCovered'
    BY <1>2, <2>1, <2>2, <2>3, <2>4 DEF ThreadsCovered
  <2>7. OrdersCovered' BY <2>2 DEF OrdersCovered
  <2>8. FileCovered' BY <2>1, <2>2, <2>3 DEF FileCovered
  <2>. QED BY <2>5, <2>6, <2>7, <2>8
<1>. QED BY <1>1, <1>2

\* A step that only sets flags of one order, then moves thread t to a record
\* that has what its pc asks for.
LEMMA InvOrderStep ==
    ASSUME TrackerInv, TypeOK', NEW t \in Threads, NEW o \in Orders, o \in used,
           NEW q \in OrderRecord, NEW rec,
           order' = [order EXCEPT ![o] = q],
           order[o].hasSl => q.hasSl, order[o].brokerId => q.brokerId,
           Covers(q, q.state),
           call' = [call EXCEPT ![t] = rec],
           rec.pc \in {"idle", "save", "commit"},
           rec.pc = "commit" => rec.o = o /\ Covers(q, rec.to),
           rec.snap = [p \in Orders |-> Blank],
           up, UNCHANGED <<registry, used, file, up>>
    PROVE  TrackerInv'
<1>. USE NothingDemanded DEF TrackerInv
<1>1. /\ call'[t] = rec
      /\ \A u \in Threads \ {t} : call'[u] = call[u]
      /\ order'[o] = q
      /\ \A p \in Orders \ {o} : order'[p] = order[p]
  BY DEF TypeOK
<1>2. \A p \in Orders : \A s : Covers(order[p], s) => Covers(order'[p], s)
  BY <1>1 DEF Covers
<1>3. IdsAreUsed'
  BY <1>1 DEF IdsAreUsed, Exists
<1>4. ThreadsCovered'
  <2>1. ASSUME NEW u \in Threads \ {t}, call[u].pc = "guard",
               call[u].from \in ActiveStates
        PROVE  order'[call[u].o].brokerId
    <3>1. call[u].o \in Orders BY <2>1 DEF IdsAreUsed, TypeOK
    <3>. QED BY <2>1, <3>1, <1>1 DEF ThreadsCovered
  <2>2. ASSUME NEW u \in Threads \ {t}, call[u].pc = "commit"
        PROVE  Covers(order'[call[u].o], call[u].to)
    <3>1. call[u].o \in Orders BY <2>2 DEF IdsAreUsed, TypeOK
    <3>. QED BY <2>2, <3>1, <1>2 DEF ThreadsCovered
  <2>3. ASSUME NEW u \in Threads \ {t}, call[u].pc = "fields", NEW p \in Orders
        PROVE  Covers(order'[p], call[u].snap[p].state)
    BY <2>3, <1>2 DEF ThreadsCovered
  <2>. QED BY <1>1, <2>1, <2>2, <2>3 DEF ThreadsCovered
<1>5. OrdersCovered'
  BY <1>1 DEF OrdersCovered
<1>6. FileCovered'
  BY <1>1 DEF FileCovered
<1>. QED BY <1>3, <1>4, <1>5, <1>6

LEMMA InvRunGuard ==
    ASSUME TrackerInv, TypeOK', NEW t \in Threads, RunGuard(t)
    PROVE  TrackerInv'
<1>. USE DEF TrackerInv
<1>. DEFINE c == call[t]
            r == order[c.o]
            q == AfterGuard(r, c.to, c.ctx)
            rec == [Idle EXCEPT !.pc = "commit", !.o = c.o, !.to = c.to]
            saving == [Idle EXCEPT !.pc = "save"]
            raised == [Idle EXCEPT !.raised = TRUE]
<1>1. /\ c \in CallRecord /\ c.ctx \in Context /\ c.pc = "guard"
      /\ c.o \in used /\ c.o \in Orders /\ r \in OrderRecord
  BY CallFieldsTyped DEF RunGuard, TypeOK, IdsAreUsed
<1>2. /\ q \in OrderRecord /\ q.state = r.state
      /\ r.hasSl => q.hasSl
      /\ r.brokerId => q.brokerId
  BY <1>1, GuardMonotone
<1>3. Covers(q, q.state)
  BY <1>1, <1>2 DEF OrdersCovered, Covers
<1>4. /\ order' = [order EXCEPT ![c.o] = q]
      /\ up /\ UNCHANGED <<registry, used, file, up>>
  BY DEF RunGuard
<1>5. /\ rec.pc = "commit" /\ rec.o = c.o /\ rec.to = c.to
      /\ rec.snap = [p \in Orders |-> Blank]
      /\ saving.pc = "save" /\ saving.snap = [p \in Orders |-> Blank]
      /\ raised.pc = "idle" /\ raised.snap = [p \in Orders |-> Blank]
      /\ Idle.pc = "idle" /\ Idle.snap = [p \in Orders |-> Blank]
  BY DEF Idle
<1>6. \/ call' = [call EXCEPT ![t] = raised]
      \/ call' = [call EXCEPT ![t] = saving]
      \/ call' = [call EXCEPT ![t] = Idle]
      \/ /\ call' = [call EXCEPT ![t] = rec]
         /\ ~GuardRefuses(c.to, c.ctx) /\ ~GuardRaises(r, c.from, c.to, c.ctx)
  BY DEF RunGuard, Raise, Return, Save
<1>7. ASSUME ~GuardRefuses(c.to, c.ctx), ~GuardRaises(r, c.from, c.to, c.ctx)
      PROVE  Covers(q, c.to)
  BY <1>1, <1>7, GuardEstablishes DEF ThreadsCovered
<1>. HIDE DEF rec, q, saving, raised
<1>8. CASE call' = [call EXCEPT ![t] = rec]
           /\ ~GuardRefuses(c.to, c.ctx) /\ ~GuardRaises(r, c.from, c.to, c.ctx)
  BY <1>1, <1>2, <1>3, <1>4, <1>5, <1>7, <1>8, InvOrderStep
<1>9. CASE \/ call' = [call EXCEPT ![t] = raised]
           \/ call' = [call EXCEPT ![t] = saving]
           \/ call' = [call EXCEPT ![t] = Idle]
  BY <1>1, <1>2, <1>3, <1>4, <1>5, <1>9, InvOrderStep
<1>. QED BY <1>6, <1>8, <1>9

LEMMA InvCommit ==
    ASSUME TrackerInv, TypeOK', NEW t \in Threads, Commit(t)
    PROVE  TrackerInv'
<1>. USE DEF TrackerInv
<1>. DEFINE c == call[t]
            q == [order[c.o] EXCEPT !.state = c.to]
            saving == [Idle EXCEPT !.pc = "save"]
<1>1. /\ c.pc = "commit" /\ c.o \in used /\ c.o \in Orders
      /\ order[c.o] \in OrderRecord /\ c.to \in OrderStates \cup {NoState}
  BY CallFieldsTyped DEF Commit, TypeOK, IdsAreUsed
<1>2. /\ q \in OrderRecord /\ q.state = c.to
      /\ q.hasSl = order[c.o].hasSl /\ q.brokerId = order[c.o].brokerId
  BY <1>1 DEF OrderRecord
<1>3. Covers(q, q.state)
  BY <1>1, <1>2 DEF ThreadsCovered, Covers
<1>4. /\ order' = [order EXCEPT ![c.o] = q]
      /\ call' = [call EXCEPT ![t] = saving]
      /\ up /\ UNCHANGED <<registry, used, file, up>>
  BY DEF Commit, Save
<1>5. saving.pc = "save" /\ saving.snap = [p \in Orders |-> Blank]
  BY DEF Idle
<1>. HIDE DEF q, saving
<1>. QED BY <1>1, <1>2, <1>3, <1>4, <1>5, InvOrderStep

\* Reading the states under the lock: what each state demands is there already.
LEMMA InvSnapshotStates ==
    ASSUME TrackerInv, TypeOK', NEW t \in Threads, SnapshotStates(t)
    PROVE  TrackerInv'
<1>. USE NothingDemanded DEF TrackerInv
<1>. DEFINE f == [o \in Orders |->
                    IF o \in registry THEN [Blank EXCEPT !.state = order[o].state]
                                      ELSE Blank]
            rec == [Idle EXCEPT !.pc = "fields", !.snap = f]
<1>1. rec.pc = "fields" /\ rec.snap = f
  BY DEF Idle
<1>2. /\ call' = [call EXCEPT ![t] = rec]
      /\ up /\ UNCHANGED <<order, registry, used, file, up>>
  BY DEF SnapshotStates
<1>3. \A o \in Orders : f[o].state \in {NoState, order[o].state}
                        /\ (o \notin registry => f[o].state = NoState)
  BY DEF Blank
<1>. HIDE DEF f, rec
<1>4. /\ call'[t] = rec
      /\ \A u \in Threads \ {t} : call'[u] = call[u]
  BY <1>2 DEF TypeOK
<1>5. IdsAreUsed' BY <1>1, <1>2, <1>3, <1>4 DEF IdsAreUsed, Exists
<1>6. ThreadsCovered'
  BY <1>1, <1>2, <1>3, <1>4 DEF ThreadsCovered, OrdersCovered
<1>7. OrdersCovered' BY <1>2 DEF OrdersCovered
<1>8. FileCovered' BY <1>1, <1>2, <1>4 DEF FileCovered
<1>. QED BY <1>5, <1>6, <1>7, <1>8

\* Reading the other fields afterwards: the payload is covered.
LEMMA InvSnapshotFields ==
    ASSUME TrackerInv, TypeOK', NEW t \in Threads, SnapshotFields(t)
    PROVE  TrackerInv'
<1>. USE NothingDemanded DEF TrackerInv
<1>. DEFINE old == call[t].snap
            f == [o \in Orders |->
                    IF Exists(old[o]) THEN [order[o] EXCEPT !.state = old[o].state]
                                      ELSE Blank]
            rec == [Idle EXCEPT !.pc = "replace", !.snap = f]
<1>1. rec.pc = "replace" /\ rec.snap = f
  BY DEF Idle
<1>2. /\ call' = [call EXCEPT ![t] = rec]
      /\ up /\ UNCHANGED <<order, registry, used, file, up>>
      /\ call[t].pc = "fields"
  BY DEF SnapshotFields
<1>3. ASSUME NEW o \in Orders
      PROVE  /\ Covers(f[o], f[o].state)
             /\ Exists(f[o]) => o \in used
  <2>1. CASE Exists(old[o])
    <3>1. order[o] \in OrderRecord BY DEF TypeOK
    <3>2. /\ f[o] = [order[o] EXCEPT !.state = old[o].state]
          /\ f[o].state = old[o].state
          /\ f[o].hasSl = order[o].hasSl /\ f[o].brokerId = order[o].brokerId
      BY <2>1, <3>1 DEF OrderRecord
    <3>3. Covers(order[o], old[o].state) BY <1>2 DEF ThreadsCovered
    <3>. QED BY <2>1, <3>2, <3>3 DEF Covers, IdsAreUsed
  <2>2. CASE ~Exists(old[o])
    BY <2>2 DEF Exists
  <2>. QED BY <2>1, <2>2
<1>. HIDE DEF f, rec, old
<1>4. /\ call'[t] = rec
      /\ \A u \in Threads \ {t} : call'[u] = call[u]
  BY <1>2 DEF TypeOK
<1>5. IdsAreUsed' BY <1>1, <1>2, <1>3, <1>4 DEF IdsAreUsed, Exists
<1>6. ThreadsCovered' BY <1>1, <1>2, <1>4 DEF ThreadsCovered
<1>7. OrdersCovered' BY <1>2 DEF OrdersCovered
<1>8. FileCovered' BY <1>1, <1>2, <1>3, <1>4 DEF FileCovered
<1>. QED BY <1>5, <1>6, <1>7, <1>8

LEMMA InvReplaceFile ==
    ASSUME TrackerInv, TypeOK', NEW t \in Threads, ReplaceFile(t)
    PROVE  TrackerInv'
<1>. USE NothingDemanded DEF TrackerInv
<1>1. /\ call' = [call EXCEPT ![t] = Idle] /\ file' = call[t].snap
      /\ up /\ UNCHANGED <<order, registry, used, up>> /\ call[t].pc = "replace"
  BY DEF ReplaceFile, Return
<1>2. /\ call'[t] = Idle
      /\ \A u \in Threads \ {t} : call'[u] = call[u]
  BY <1>1 DEF TypeOK
<1>3. IdsAreUsed' BY <1>1, <1>2 DEF IdsAreUsed, Exists
<1>4. ThreadsCovered' BY <1>1, <1>2 DEF ThreadsCovered
<1>5. OrdersCovered' BY <1>1 DEF OrdersCovered
<1>6. FileCovered' BY <1>1, <1>2 DEF FileCovered
<1>. QED BY <1>3, <1>4, <1>5, <1>6

LEMMA InvProcess ==
    ASSUME TrackerInv, TypeOK', Crash \/ Boot \/ Damage
    PROVE  TrackerInv'
<1>. USE NothingDemanded DEF TrackerInv
<1>1. CASE Crash
  BY <1>1 DEF Crash, IdsAreUsed, ThreadsCovered, OrdersCovered, FileCovered, Exists
<1>2. CASE Damage
  BY <1>2 DEF Damage, IdsAreUsed, ThreadsCovered, OrdersCovered, FileCovered
<1>3. CASE Boot
  <2>. DEFINE loaded == {o \in Orders : readable /\ Exists(file[o])}
  <2>1. /\ registry' = loaded /\ UNCHANGED <<used, call, file>> /\ ~up
        /\ \A o \in Orders : order'[o] = IF o \in loaded THEN file[o] ELSE Blank
    BY <1>3 DEF Boot
  <2>2. \A t \in Threads : call'[t].pc = "idle"
    BY <2>1 DEF ThreadsCovered
  <2>3. IdsAreUsed' BY <2>1, <2>2 DEF IdsAreUsed
  <2>4. ThreadsCovered' BY <2>2 DEF ThreadsCovered
  <2>5. OrdersCovered' BY <2>1 DEF OrdersCovered, FileCovered
  <2>6. FileCovered' BY <2>1, <2>2 DEF FileCovered
  <2>. QED BY <2>3, <2>4, <2>5, <2>6
<1>. QED BY <1>1, <1>2, <1>3

LEMMA InvRequest ==
    ASSUME TrackerInv, TypeOK', NEW t \in Threads, Request(t)
    PROVE  TrackerInv'
<1>1. ASSUME NEW o \in Orders,
             Create(t, o) \/ Cancel(t, o) \/ Reject(t, o) \/ MarkError(t, o)
      PROVE  TrackerInv'
  BY <1>1, InvCreate, InvCall DEF Cancel, Reject, MarkError
<1>2. ASSUME NEW o \in Orders, NEW b \in BOOLEAN,
             \/ Validate(t, o, b) \/ Submit(t, o, b)
             \/ Fill(t, o, b) \/ PartialFill(t, o, 1, b)
      PROVE  TrackerInv'
  BY <1>2, InvCall DEF Validate, Submit, Fill, PartialFill
<1>3. ASSUME NEW old \in SUBSET Orders, Cleanup(t, old)
      PROVE  TrackerInv'
  BY <1>3, InvCleanup
<1>. QED BY <1>1, <1>2, <1>3 DEF Request

LEMMA InvInternal ==
    ASSUME TrackerInv, TypeOK', NEW t \in Threads, Internal(t)
    PROVE  TrackerInv'
<1>1. CASE SaveFails(t)
  BY <1>1, InvReturn DEF SaveFails
<1>. QED BY <1>1, InvCheckLegal, InvRunGuard, InvCommit, InvSnapshotStates,
            InvSnapshotFields, InvReplaceFile DEF Internal

LEMMA InvStep == TrackerInv /\ [Next]_vars => TrackerInv'
<1>. SUFFICES ASSUME TrackerInv, [Next]_vars PROVE TrackerInv'
  OBVIOUS
<1>1. TypeOK' BY TypeStep DEF TrackerInv
<1>2. CASE UNCHANGED vars
  BY <1>2 DEF vars, TrackerInv, TypeOK, IdsAreUsed, ThreadsCovered,
              OrdersCovered, FileCovered, Exists
<1>3. CASE Next
  BY <1>1, <1>3, InvRequest, InvInternal, InvProcess DEF Next
<1>. QED BY <1>2, <1>3

\* Docstring invariants 1, 2 and 5, for any number of threads on any number of
\* orders: what an order's state demands is recorded, in memory and in the file.
THEOREM TrackerCorrect == Spec => [](TypeOK /\ OrdersCovered /\ FileCovered)
<1>1. TrackerInv => TypeOK /\ OrdersCovered /\ FileCovered
  BY DEF TrackerInv
<1>. QED BY <1>1, InvInit, InvStep, PTL DEF Spec
=============================================================================
