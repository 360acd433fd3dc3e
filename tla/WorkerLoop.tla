------------------------------ MODULE WorkerLoop ------------------------------
(***************************************************************************)
(* The main loop of worker.py, the CycleRunner and the locks of the cycles.*)
(*                                                                         *)
(* The loop visits its cycles one after the other.  A cycle goes through a *)
(* CycleRunner, on a thread of its own that the runner waits for until a   *)
(* timeout and then abandons; or, when it needs the event loop of IBKR, it *)
(* runs on the main thread.  Each cycle tries the lock of its broker and   *)
(* returns at once when it is taken: by an abandoned thread, since the     *)
(* loop itself starts one cycle at a time.  SIGTERM interrupts the main    *)
(* thread alone.                                                           *)
(*                                                                         *)
(* Left out: what a cycle does (the other modules), the counters, health   *)
(* levels, alerts and metrics of the runner, which decide nothing, and the *)
(* cycles without a lock, none of which has live positions.                *)
(***************************************************************************)
EXTENDS FiniteSets

CONSTANTS
    Cycles,      \* the cycles that take a lock
    Threaded,    \* those of them that go through a CycleRunner
    Trading,     \* the one that opens positions at Binance
    Locks,
    LockOf,      \* the lock of each cycle
    Threads,     \* bound: threads alive at once
    Main, Nobody, NoCycle

ASSUME CyclesAssumption ==
    /\ Threaded \subseteq Cycles /\ Trading \in Threaded /\ NoCycle \notin Cycles
    /\ LockOf \in [Cycles -> Locks]

ASSUME ActorsAssumption == Main \notin Threads /\ Nobody \notin Threads \cup {Main}

VARIABLES
    todo,        \* the cycles this pass of the loop has still to visit
    main,        \* what the main thread is doing
    threads,     \* the threads the runners have started
    holder,      \* who holds each lock
    open,        \* a position is open at Binance
    up           \* the worker process runs

vars == <<todo, main, threads, holder, open, up>>

AtLoop == [pc |-> "loop", cycle |-> NoCycle, thread |-> Nobody]
Free == [pc |-> "free", cycle |-> NoCycle]

MainPcs == {"loop", "join", "direct", "sigterm", "closed", "notClosed"}

TypeOK ==
    /\ todo \subseteq Cycles
    /\ main \in [pc : MainPcs, cycle : Cycles \cup {NoCycle},
                 thread : Threads \cup {Nobody}]
    /\ threads \in [Threads -> [pc : {"free", "start", "work", "ended"},
                                cycle : Cycles \cup {NoCycle}]]
    /\ holder \in [Locks -> Threads \cup {Main, Nobody}]
    /\ open \in BOOLEAN /\ up \in BOOLEAN

\* A process starts like this; the broker keeps the positions.
NoThreads == [t \in Threads |-> Free]
NoHolders == [l \in Locks |-> Nobody]

Init ==
    /\ todo = {} /\ main = AtLoop /\ threads = NoThreads /\ holder = NoHolders
    /\ open = FALSE /\ up = TRUE

-----------------------------------------------------------------------------
(* The main thread.                                                        *)

At(pc) == up /\ main.pc = pc

NewPass ==
    /\ At("loop") /\ todo = {}
    /\ todo' = Cycles
    /\ UNCHANGED <<main, threads, holder, open, up>>

\* The timer of the cycle has not run down.
NotDue(c) ==
    /\ At("loop") /\ c \in todo
    /\ todo' = todo \ {c}
    /\ UNCHANGED <<main, threads, holder, open, up>>

\* CycleRunner.run() starts a thread and joins it.
RunThreaded(c) ==
    /\ At("loop") /\ c \in todo \cap Threaded
    /\ todo' = todo \ {c}
    /\ \E t \in Threads :
        /\ threads[t].pc = "free"
        /\ threads' = [threads EXCEPT ![t] = [pc |-> "start", cycle |-> c]]
        /\ main' = [pc |-> "join", cycle |-> c, thread |-> t]
    /\ UNCHANGED <<holder, open, up>>

RunDirect(c) ==
    /\ At("loop") /\ c \in todo \ Threaded
    /\ todo' = todo \ {c}
    /\ IF holder[LockOf[c]] = Nobody
       THEN /\ holder' = [holder EXCEPT ![LockOf[c]] = Main]
            /\ main' = [AtLoop EXCEPT !.pc = "direct", !.cycle = c]
       ELSE UNCHANGED <<main, holder>>
    /\ UNCHANGED <<threads, open, up>>

DirectEnds ==
    /\ At("direct")
    /\ holder' = [holder EXCEPT ![LockOf[main.cycle]] = Nobody]
    /\ main' = AtLoop
    /\ UNCHANGED <<todo, threads, open, up>>

\* The thread is over: its result, or its exception, is counted.
JoinReturns ==
    /\ At("join") /\ threads[main.thread].pc = "ended"
    /\ main' = AtLoop
    /\ threads' = [threads EXCEPT ![main.thread] = Free]
    /\ UNCHANGED <<todo, holder, open, up>>

\* Mutant of JoinTimesOut: the timeout is stored and never applied.
JoinNeverTimesOut ==
    /\ At("join") /\ threads[main.thread].pc = "ended"
    /\ main' = AtLoop
    /\ UNCHANGED <<todo, threads, holder, open, up>>

\* The thread goes on in the background, with its lock.
JoinTimesOut ==
    /\ At("join") /\ threads[main.thread].pc \in {"start", "work"}
    /\ main' = AtLoop
    /\ UNCHANGED <<todo, threads, holder, open, up>>

-----------------------------------------------------------------------------
(* The threads of the runners.                                             *)

\* Mutant of After: an abandoned thread stays where it is.
AfterKept(t) ==
    IF main.pc = "join" /\ main.thread = t
    THEN [threads[t] EXCEPT !.pc = "ended"] ELSE [threads[t] EXCEPT !.pc = "abandoned"]

\* Over: the runner that waits for it finds it so, an abandoned one is gone.
After(t) ==
    IF main.pc = "join" /\ main.thread = t
    THEN [threads[t] EXCEPT !.pc = "ended"] ELSE Free

\* Mutant of TryLock: the cycle goes on although it did not get the lock.
TryLockIgnored(t) ==
    /\ up /\ threads[t].pc = "start"
    /\ threads' = [threads EXCEPT ![t].pc = "work"]
    /\ holder' = [holder EXCEPT ![LockOf[threads[t].cycle]] = t]
    /\ UNCHANGED <<todo, main, open, up>>

TryLock(t) ==
    LET l == LockOf[threads[t].cycle] IN
    /\ up /\ threads[t].pc = "start"
    /\ IF holder[l] = Nobody
       THEN /\ holder' = [holder EXCEPT ![l] = t]
            /\ threads' = [threads EXCEPT ![t].pc = "work"]
       ELSE /\ threads' = [threads EXCEPT ![t] = After(t)]
            /\ UNCHANGED holder
    /\ UNCHANGED <<todo, main, open, up>>

Trade(t) ==
    /\ up /\ threads[t] = [pc |-> "work", cycle |-> Trading]
    /\ open' = TRUE
    /\ UNCHANGED <<todo, main, threads, holder, up>>

\* Mutant of ThreadEnds: only the runner that waits for the thread makes it give its
\* lock back.
ThreadEndsLocked(t) ==
    /\ up /\ threads[t].pc = "work"
    /\ holder' = IF main.pc = "join" /\ main.thread = t
                 THEN [holder EXCEPT ![LockOf[threads[t].cycle]] = Nobody] ELSE holder
    /\ threads' = [threads EXCEPT ![t] = After(t)]
    /\ UNCHANGED <<todo, main, open, up>>

ThreadEnds(t) ==
    /\ up /\ threads[t].pc = "work"
    /\ holder' = [holder EXCEPT ![LockOf[threads[t].cycle]] = Nobody]
    /\ threads' = [threads EXCEPT ![t] = After(t)]
    /\ UNCHANGED <<todo, main, open, up>>

-----------------------------------------------------------------------------
(* SIGTERM, the end of the process, and a new one.                         *)

\* The handler runs on the main thread, wherever that is, and never returns.
Sigterm ==
    /\ up /\ main.pc \in {"loop", "join", "direct"}
    /\ main' = [AtLoop EXCEPT !.pc = "sigterm"]
    /\ UNCHANGED <<todo, threads, holder, open, up>>

CloseAll ==
    /\ At("sigterm")
    /\ \/ open' = FALSE /\ main' = [AtLoop EXCEPT !.pc = "closed"]
       \/ UNCHANGED open /\ main' = [AtLoop EXCEPT !.pc = "notClosed"]
    /\ UNCHANGED <<todo, threads, holder, up>>

\* SystemExit at the end of the handler, or a kill at any time.
Exit ==
    /\ up
    /\ up' = FALSE
    /\ todo' = {} /\ main' = AtLoop /\ threads' = NoThreads /\ holder' = NoHolders
    /\ UNCHANGED open

Boot == ~up /\ up' = TRUE /\ UNCHANGED <<todo, main, threads, holder, open>>

\* A stop-loss or a target closes the position.
PositionEnds ==
    /\ open' = FALSE
    /\ UNCHANGED <<todo, main, threads, holder, up>>

-----------------------------------------------------------------------------
MainStep ==
    \/ NewPass \/ \E c \in Cycles : NotDue(c) \/ RunThreaded(c) \/ RunDirect(c)
    \/ DirectEnds \/ JoinReturns \/ JoinTimesOut \/ CloseAll

Next ==
    \/ MainStep \/ \E t \in Threads : TryLock(t) \/ Trade(t) \/ ThreadEnds(t)
    \/ Sigterm \/ Exit \/ Boot \/ PositionEnds

Spec == Init /\ [][Next]_vars

\* The main thread runs, and a cycle on it comes to its end.  Nothing is asked
\* of the threads: any of them may hang for ever, with its lock.
FairSpec == Spec /\ WF_vars(MainStep)

-----------------------------------------------------------------------------
(* Properties.                                                             *)

Works(a, l) ==
    \/ a \in Threads /\ threads[a].pc = "work" /\ LockOf[threads[a].cycle] = l
    \/ a = Main /\ main.pc = "direct" /\ LockOf[main.cycle] = l

\* Two cycles of one broker are never at work together, whichever of them the
\* runner has abandoned: a later run of either finds the lock taken.
OneWorkerPerLock ==
    \A l \in Locks, a, b \in Threads \cup {Main} : Works(a, l) /\ Works(b, l) => a = b

ShuttingDown == main.pc \in {"sigterm", "closed", "notClosed"}

\* A lock is taken only while its holder is at work under it, or when SIGTERM has
\* interrupted the cycle of the main thread: a run that was abandoned gives its lock
\* back when it ends, whenever that is, and one that found the lock taken leaves it.
LocksComeBack ==
    \A l \in Locks : holder[l] # Nobody =>
        Works(holder[l], l) \/ (holder[l] = Main /\ ShuttingDown)

\* What makes the first hold: who is at work holds the lock of its cycle.
LoopInv ==
    /\ TypeOK
    /\ main.pc = "join" => main.thread \in Threads
    /\ main.pc = "direct" =>
          main.cycle \in Cycles /\ holder[LockOf[main.cycle]] = Main
    /\ \A t \in Threads :
          /\ threads[t].pc # "free" => threads[t].cycle \in Cycles
          /\ threads[t].pc = "work" => holder[LockOf[threads[t].cycle]] = t

\* cycle_runner.py, "scheduler debloque": every pass of the loop comes to its
\* end, so that all the cycles get their turn again, although any number of the
\* threads hang.
PassEnds == (up /\ ~ShuttingDown) ~> (todo = {} \/ ShuttingDown \/ ~up)

-----------------------------------------------------------------------------
(* What the documents say and the code does not do.                        *)

\* tests/test_cro_reserves.py, "SIGTERM handler closes positions before exit":
\* when everything has been closed, nothing is open at the end of the process.
ShutdownLeavesNothing == [][main.pc = "closed" /\ up /\ ~up' => ~open]_vars

=============================================================================
