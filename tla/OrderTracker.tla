----------------------------- MODULE OrderTracker -----------------------------
(***************************************************************************)
(* core/execution/order_tracker.py: the registry of orders that the threads*)
(* of the worker share, and its JSON file.                                 *)
(*                                                                         *)
(* Only the lookup in the registry and the building of the payload hold    *)
(* _lock.  A transition runs outside it, in three steps another thread can *)
(* fall between: the legality test, the guard, the assignment of the new   *)
(* state.  save_state() then builds the payload under _lock (each order's  *)
(* state is read before its other fields) and replaces the file after      *)
(* releasing it.  A crash loses the memory and keeps the file.             *)
(*                                                                         *)
(* Left out: alerts, logging, the queries, and the return values, which no *)
(* caller reads.  A lookup of an id that is not registered changes nothing.*)
(***************************************************************************)
EXTENDS OrderStateMachine, FiniteSets

CONSTANTS
    Orders,      \* the order ids that can be drawn (uuid4: never drawn twice)
    Threads,     \* the threads that call the tracker
    NoOrder,     \* a call that concerns no order
    NoThread,    \* nobody holds the lock
    MaxFilled    \* bound: no partial fill is reported past this quantity

ASSUME NoOrderAssumption == NoOrder \notin Orders

ASSUME NoThreadAssumption == NoThread \notin Threads

ASSUME MaxFilledAssumption == MaxFilled \in Nat

VARIABLES
    order,       \* the order objects, by id
    registry,    \* ids the tracker knows (OrderTracker._orders)
    used,        \* ids drawn so far
    lock,        \* holder of OrderTracker._lock
    call,        \* what each thread is doing inside the tracker
    file,        \* the orders of data/state/order_tracker.json
    readable,    \* the file can be parsed
    up,          \* the worker process runs
    recovered    \* _recovered_active of the running process

vars == <<order, registry, used, lock, call, file, readable, up, recovered>>

Idle == [pc |-> "idle", o |-> NoOrder, from |-> NoState, to |-> NoState,
         ctx |-> NoContext, snap |-> [o \in Orders |-> Blank], raised |-> FALSE]

CallRecord ==
    [pc : {"idle", "check", "guard", "commit", "save", "fields", "replace"},
     o : Orders \cup {NoOrder}, from : OrderStates \cup {NoState},
     to : OrderStates \cup {NoState}, ctx : Context,
     snap : [Orders -> OrderRecord], raised : BOOLEAN]

TypeOK ==
    /\ order \in [Orders -> OrderRecord]
    /\ registry \subseteq Orders
    /\ used \subseteq Orders
    /\ lock \in Threads \cup {NoThread}
    /\ call \in [Threads -> CallRecord]
    /\ file \in [Orders -> OrderRecord]
    /\ readable \in BOOLEAN
    /\ up \in BOOLEAN
    /\ recovered \subseteq Orders

Init ==
    /\ order = [o \in Orders |-> Blank]
    /\ registry = {}
    /\ used = {}
    /\ lock = NoThread
    /\ call = [t \in Threads |-> Idle]
    /\ file = [o \in Orders |-> Blank]
    /\ readable = TRUE
    /\ up = TRUE
    /\ recovered = {}

-----------------------------------------------------------------------------
(* Entering the tracker.                                                   *)

Free(t) == up /\ call[t].pc = "idle"

\* Thread t goes on to save_state().
Save(t) == call' = [call EXCEPT ![t] = [Idle EXCEPT !.pc = "save"]]

\* Mutant of Create: an id that no order of the registry has, whoever had it before.
CreateAgain(t, o) ==
    /\ Free(t) /\ lock = NoThread
    /\ o \notin registry
    /\ used' = used \cup {o}
    /\ registry' = registry \cup {o}
    /\ order' = [order EXCEPT ![o] = NewOrder]
    /\ Save(t)
    /\ UNCHANGED <<lock, file, readable, up, recovered>>

Create(t, o) ==
    /\ Free(t) /\ lock = NoThread
    /\ o \notin used
    /\ used' = used \cup {o}
    /\ registry' = registry \cup {o}
    /\ order' = [order EXCEPT ![o] = NewOrder]
    /\ Save(t)
    /\ UNCHANGED <<lock, file, readable, up, recovered>>

\* _get() finds the order; the transition to `to` starts.
Call(t, o, to, ctx) ==
    /\ Free(t) /\ lock = NoThread
    /\ o \in registry
    /\ call' = [call EXCEPT ![t] = [Idle EXCEPT !.pc = "check", !.o = o,
                                                !.to = to, !.ctx = ctx]]
    /\ UNCHANGED <<order, registry, used, lock, file, readable, up, recovered>>

Validate(t, o, approved) ==
    Call(t, o, IF approved THEN "VALIDATED" ELSE "REJECTED", NoContext)

Submit(t, o, bid) == Call(t, o, "SUBMITTED", [NoContext EXCEPT !.bid = bid])

Fill(t, o, sl) == Call(t, o, "FILLED", [NoContext EXCEPT !.sl = sl])

PartialFill(t, o, qty, adjusted) ==
    /\ order[o].filled + qty <= MaxFilled
    /\ Call(t, o, "PARTIAL", [NoContext EXCEPT !.qty = qty, !.sl = adjusted])

Cancel(t, o) == Call(t, o, "CANCELLED", NoContext)

Reject(t, o) == Call(t, o, "REJECTED", NoContext)

MarkError(t, o) == Call(t, o, "ERROR", NoContext)

\* cleanup_terminal(): the old terminal orders leave the registry; no save.
Cleanup(t, old) ==
    /\ Free(t) /\ lock = NoThread
    /\ registry' = registry \ {o \in old : order[o].state \in TerminalStates}
    /\ UNCHANGED <<order, used, lock, call, file, readable, up, recovered>>

-----------------------------------------------------------------------------
(* OrderStateMachine.transition(), run by thread t outside the lock.       *)

Return(t) == call' = [call EXCEPT ![t] = Idle]

\* The caller sees an exception the tracker let through.
Raise(t) == call' = [call EXCEPT ![t] = [Idle EXCEPT !.raised = TRUE]]

\* Mutant of CheckLegal: no legality test.
CheckNothing(t) ==
    LET c == call[t] IN
    /\ up /\ c.pc = "check"
    /\ call' = [call EXCEPT ![t] = [c EXCEPT !.pc = "guard",
                                            !.from = order[c.o].state]]
    /\ UNCHANGED <<order, registry, used, lock, file, readable, up, recovered>>

CheckLegal(t) ==
    LET c == call[t]
        from == order[c.o].state IN
    /\ up /\ c.pc = "check"
    /\ \/ /\ <<from, c.to>> \in LegalTransitions
          /\ call' = [call EXCEPT ![t] = [c EXCEPT !.pc = "guard", !.from = from]]
       \/ /\ <<from, c.to>> \notin LegalTransitions
          /\ IF c.to = "PARTIAL" THEN Raise(t) ELSE Return(t)
    /\ UNCHANGED <<order, registry, used, lock, file, readable, up, recovered>>

RunGuard(t) ==
    LET c == call[t]
        r == order[c.o] IN
    /\ up /\ c.pc = "guard"
    /\ order' = [order EXCEPT ![c.o] = AfterGuard(r, c.to, c.ctx)]
    /\ CASE GuardRaises(r, c.from, c.to, c.ctx) ->
              IF c.to = "CANCELLED" THEN Raise(t) ELSE Return(t)
         [] GuardRefuses(c.to, c.ctx) -> Save(t)
         [] OTHER -> call' = [call EXCEPT ![t] =
                       [Idle EXCEPT !.pc = "commit", !.o = c.o, !.to = c.to]]
    /\ UNCHANGED <<registry, used, lock, file, readable, up, recovered>>

Commit(t) ==
    /\ up /\ call[t].pc = "commit"
    /\ order' = [order EXCEPT ![call[t].o].state = call[t].to]
    /\ Save(t)
    /\ UNCHANGED <<registry, used, lock, file, readable, up, recovered>>

-----------------------------------------------------------------------------
(* save_state().                                                           *)

SnapshotStates(t) ==
    /\ up /\ call[t].pc = "save" /\ lock = NoThread
    /\ lock' = t
    /\ call' = [call EXCEPT ![t] = [Idle EXCEPT !.pc = "fields",
          !.snap = [o \in Orders |->
             IF o \in registry THEN [Blank EXCEPT !.state = order[o].state]
                               ELSE Blank]]]
    /\ UNCHANGED <<order, registry, used, file, readable, up, recovered>>

\* Mutant of SnapshotFields: to_dict() leaves has_sl out.
SnapshotFieldsNoSl(t) ==
    /\ up /\ call[t].pc = "fields"
    /\ lock' = NoThread
    /\ call' = [call EXCEPT ![t] = [Idle EXCEPT !.pc = "replace",
          !.snap = [o \in Orders |->
             IF Exists(call[t].snap[o])
             THEN [order[o] EXCEPT !.state = call[t].snap[o].state, !.hasSl = FALSE]
             ELSE Blank]]]
    /\ UNCHANGED <<order, registry, used, file, readable, up, recovered>>

SnapshotFields(t) ==
    /\ up /\ call[t].pc = "fields"
    /\ lock' = NoThread
    /\ call' = [call EXCEPT ![t] = [Idle EXCEPT !.pc = "replace",
          !.snap = [o \in Orders |->
             IF Exists(call[t].snap[o])
             THEN [order[o] EXCEPT !.state = call[t].snap[o].state]
             ELSE Blank]]]
    /\ UNCHANGED <<order, registry, used, file, readable, up, recovered>>

\* os.replace(): the whole payload becomes the file, in one step.
ReplaceFile(t) ==
    /\ up /\ call[t].pc = "replace"
    /\ file' = call[t].snap
    /\ readable' = TRUE
    /\ Return(t)
    /\ UNCHANGED <<order, registry, used, lock, up, recovered>>

\* mkdir or mkstemp fail: the exception leaves save_state; a failure of the
\* write itself is only logged.
SaveFails(t) ==
    /\ up /\ call[t].pc = "replace"
    /\ Return(t) \/ Raise(t)
    /\ UNCHANGED <<order, registry, used, lock, file, readable, up, recovered>>

-----------------------------------------------------------------------------
(* The process and the file.                                               *)

Crash ==
    /\ up
    /\ up' = FALSE
    /\ order' = [o \in Orders |-> Blank]
    /\ registry' = {}
    /\ lock' = NoThread
    /\ call' = [t \in Threads |-> Idle]
    /\ recovered' = {}
    /\ UNCHANGED <<used, file, readable>>

\* Mutant of Boot: from_dict() leaves the state at its default, DRAFT.
BootForgetsState ==
    LET loaded == {o \in Orders : readable /\ Exists(file[o])} IN
    /\ ~up
    /\ up' = TRUE
    /\ registry' = loaded
    /\ order' = [o \in Orders |-> IF o \in loaded
                   THEN [file[o] EXCEPT !.state = "DRAFT"] ELSE Blank]
    /\ recovered' = {}
    /\ UNCHANGED <<used, lock, call, file, readable>>

\* __init__ and _load_state(): an unreadable file starts the tracker empty.
Boot ==
    LET loaded == {o \in Orders : readable /\ Exists(file[o])} IN
    /\ ~up
    /\ up' = TRUE
    /\ registry' = loaded
    /\ order' = [o \in Orders |-> IF o \in loaded THEN file[o] ELSE Blank]
    /\ recovered' = {o \in loaded : file[o].state \in ActiveStates}
    /\ UNCHANGED <<used, lock, call, file, readable>>

\* From outside the program: the file is damaged.
Damage ==
    /\ readable
    /\ readable' = FALSE
    /\ UNCHANGED <<order, registry, used, lock, call, file, up, recovered>>

Internal(t) ==
    \/ CheckLegal(t) \/ RunGuard(t) \/ Commit(t)
    \/ SnapshotStates(t) \/ SnapshotFields(t) \/ ReplaceFile(t) \/ SaveFails(t)

Request(t) ==
    \/ \E o \in Orders :
          \/ Create(t, o)
          \/ \E b \in BOOLEAN : \/ Validate(t, o, b) \/ Submit(t, o, b)
                                \/ Fill(t, o, b) \/ PartialFill(t, o, 1, b)
          \/ Cancel(t, o) \/ Reject(t, o) \/ MarkError(t, o)
    \/ \E old \in SUBSET Orders : Cleanup(t, old)

Next ==
    \/ \E t \in Threads : Internal(t) \/ Request(t)
    \/ Crash \/ Boot \/ Damage

Spec == Init /\ [][Next]_vars

-----------------------------------------------------------------------------
(* Properties.                                                             *)

\* Docstring invariants 1, 2 and 5 of the state machine, with any number of
\* threads on the same order: an order in memory that is partially or fully
\* filled has its stop-loss recorded, and one the broker was handed has its
\* broker id -- whatever another thread did between the legality test, the
\* guard and the assignment.
OrdersCovered == \A o \in Orders : Covers(order[o], order[o].state)

\* The same of the file and of every payload on its way to it, although the
\* payload is read field by field while other threads move the orders: a crash
\* never brings back a filled order whose stop-loss the file does not record.
FileCovered ==
    /\ \A o \in Orders : Covers(file[o], file[o].state)
    /\ \A t \in Threads : call[t].pc = "replace" =>
          \A o \in Orders : Covers(call[t].snap[o], call[t].snap[o].state)

-----------------------------------------------------------------------------
(* What makes them inductive.                                              *)

\* Whatever exists anywhere has drawn its id, so that create_order() starts
\* from an order nobody is working on.
IdsAreUsed ==
    /\ registry \subseteq used
    /\ \A o \in Orders : Exists(file[o]) => o \in used
    /\ \A t \in Threads :
          /\ call[t].pc \in {"check", "guard", "commit"} => call[t].o \in used
          /\ \A o \in Orders : Exists(call[t].snap[o]) => o \in used

\* Only a running process has threads at work, and what a thread has already
\* established when it is about to run a guard, to assign a state, and to read
\* the fields of the states it has read.
ThreadsCovered ==
    \A t \in Threads :
        LET c == call[t] IN
        /\ c.pc # "idle" => up
        /\ c.pc = "guard" =>
              /\ <<c.from, c.to>> \in LegalTransitions
              /\ c.from \in ActiveStates => order[c.o].brokerId
        /\ c.pc = "commit" => Covers(order[c.o], c.to)
        /\ c.pc = "fields" => \A o \in Orders : Covers(order[o], c.snap[o].state)

TrackerInv ==
    TypeOK /\ IdsAreUsed /\ ThreadsCovered /\ OrdersCovered /\ FileCovered
=============================================================================
