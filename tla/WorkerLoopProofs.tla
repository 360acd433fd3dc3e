---------------------------- MODULE WorkerLoopProofs ----------------------------
(***************************************************************************)
(* Two cycles of one broker are never at work together, for any cycles,    *)
(* locks and threads.                                                      *)
(***************************************************************************)
EXTENDS WorkerLoop, TLAPS

LEMMA LoopStarts == Init => LoopInv
  <1> SUFFICES ASSUME Init PROVE LoopInv
    OBVIOUS
  <1>1. threads = NoThreads /\ \A t \in Threads : threads[t] = Free
    BY DEF Init, NoThreads
  <1>2. TypeOK
    BY DEF Init, TypeOK, AtLoop, NoThreads, NoHolders, Free, MainPcs
  <1> QED
    BY <1>1, <1>2 DEF Init, LoopInv, AtLoop, Free

\* What is left of a thread that is over.
LEMMA AfterTyped ==
    ASSUME LoopInv, NEW t \in Threads, threads[t].pc # "free"
    PROVE  /\ After(t) \in [pc : {"free", "ended"}, cycle : Cycles \cup {NoCycle}]
           /\ After(t).pc = "ended" => After(t).cycle \in Cycles
  <1>1. /\ threads[t] \in [pc : {"free", "start", "work", "ended"},
                           cycle : Cycles \cup {NoCycle}]
        /\ threads[t].cycle \in Cycles
    BY DEF LoopInv, TypeOK
  <1> QED
    BY <1>1 DEF After, Free

LEMMA MainKeeps ==
    ASSUME LoopInv, MainStep
    PROVE  LoopInv'
  <1> USE CyclesAssumption, ActorsAssumption DEF AtLoop, MainPcs, At
  <1>1. CASE NewPass
    BY <1>1 DEF NewPass, LoopInv, TypeOK
  <1>2. ASSUME NEW c \in Cycles, NotDue(c) PROVE LoopInv'
    BY <1>2 DEF NotDue, LoopInv, TypeOK
  <1>3. ASSUME NEW c \in Cycles, RunThreaded(c) PROVE LoopInv'
    <2>1. PICK t \in Threads :
            /\ threads[t].pc = "free"
            /\ threads' = [threads EXCEPT ![t] = [pc |-> "start", cycle |-> c]]
            /\ main' = [pc |-> "join", cycle |-> c, thread |-> t]
      BY <1>3 DEF RunThreaded
    <2>2. c \in Cycles /\ todo' \in SUBSET Cycles
      BY <1>3 DEF RunThreaded, LoopInv, TypeOK
    <2>3. TypeOK'
      BY <1>3, <2>1, <2>2 DEF RunThreaded, LoopInv, TypeOK
    <2>4. \A u \in Threads : threads'[u] = IF u = t THEN [pc |-> "start", cycle |-> c]
                                                  ELSE threads[u]
      BY <2>1 DEF LoopInv, TypeOK
    <2> QED
      BY <1>3, <2>1, <2>2, <2>3, <2>4 DEF RunThreaded, LoopInv
  <1>4. ASSUME NEW c \in Cycles, RunDirect(c) PROVE LoopInv'
    <2>1. CASE holder[LockOf[c]] = Nobody
      <3>1. /\ holder' = [holder EXCEPT ![LockOf[c]] = Main]
            /\ main' = [pc |-> "direct", cycle |-> c, thread |-> Nobody]
            /\ todo' = todo \ {c} /\ UNCHANGED <<threads, open, up>>
        BY <1>4, <2>1 DEF RunDirect
      <3>2. TypeOK' /\ holder'[LockOf[c]] = Main
        BY <3>1 DEF LoopInv, TypeOK
      <3>3. ASSUME NEW t \in Threads, threads[t].pc = "work"
            PROVE  holder'[LockOf[threads[t].cycle]] = t
        <4>1. threads[t].cycle \in Cycles /\ holder[LockOf[threads[t].cycle]] = t
          BY <3>3 DEF LoopInv
        <4> QED
          BY <3>1, <4>1, <2>1 DEF LoopInv, TypeOK
      <3> QED
        BY <3>1, <3>2, <3>3 DEF LoopInv
    <2>2. CASE holder[LockOf[c]] # Nobody
      BY <1>4, <2>2 DEF RunDirect, LoopInv, TypeOK
    <2> QED
      BY <2>1, <2>2
  <1>5. CASE DirectEnds
    BY <1>5 DEF DirectEnds, LoopInv, TypeOK
  <1>6. CASE JoinReturns
    BY <1>6 DEF JoinReturns, LoopInv, TypeOK, Free
  <1>7. CASE JoinTimesOut
    BY <1>7 DEF JoinTimesOut, LoopInv, TypeOK
  <1>8. CASE CloseAll
    BY <1>8 DEF CloseAll, LoopInv, TypeOK
  <1> QED
    BY <1>1, <1>2, <1>3, <1>4, <1>5, <1>6, <1>7, <1>8 DEF MainStep

LEMMA ThreadKeeps ==
    ASSUME LoopInv, NEW t \in Threads, TryLock(t) \/ Trade(t) \/ ThreadEnds(t)
    PROVE  LoopInv'
  <1> USE CyclesAssumption, ActorsAssumption
  <1>1. CASE TryLock(t) /\ holder[LockOf[threads[t].cycle]] = Nobody
    BY <1>1 DEF TryLock, LoopInv, TypeOK
  <1>2. CASE TryLock(t) /\ holder[LockOf[threads[t].cycle]] # Nobody
    BY <1>2, AfterTyped DEF TryLock, LoopInv, TypeOK
  <1>3. CASE Trade(t)
    BY <1>3 DEF Trade, LoopInv, TypeOK
  <1>4. CASE ThreadEnds(t)
    BY <1>4, AfterTyped DEF ThreadEnds, LoopInv, TypeOK
  <1> QED
    BY <1>1, <1>2, <1>3, <1>4

LEMMA LoopKeeps == LoopInv /\ [Next]_vars => LoopInv'
  <1> SUFFICES ASSUME LoopInv, [Next]_vars PROVE LoopInv'
    OBVIOUS
  <1> USE ActorsAssumption DEF LoopInv, TypeOK, AtLoop, MainPcs
  <1>1. CASE Sigterm
    BY <1>1 DEF Sigterm
  <1>2. CASE Exit
    BY <1>2 DEF Exit, NoThreads, NoHolders, Free
  <1>3. CASE Boot \/ PositionEnds
    BY <1>3 DEF Boot, PositionEnds
  <1>4. CASE UNCHANGED vars
    BY <1>4 DEF vars
  <1> QED
    BY <1>1, <1>2, <1>3, <1>4, MainKeeps, ThreadKeeps DEF Next

\* Who is at work under a lock is its holder.
LEMMA HolderAlone == LoopInv => OneWorkerPerLock
  BY DEF LoopInv, OneWorkerPerLock, Works

\* Every reachable state of the loop, its threads and its locks is typed.
THEOREM LoopTyped == Spec => []TypeOK
  <1>1. LoopInv => TypeOK
    BY DEF LoopInv
  <1> QED
    BY LoopStarts, LoopKeeps, <1>1, PTL DEF Spec

\* Two cycles of one broker are never at work together, whichever of them a
\* runner has abandoned (CycleRunner.run, worker.py, the locks of config.py).
THEOREM LocksExclude == Spec => []OneWorkerPerLock
  BY LoopStarts, LoopKeeps, HolderAlone, PTL DEF Spec

-----------------------------------------------------------------------------
(* The locks come back.                                                    *)

\* Its holder, if it has one, is at work under it: what each step must keep.
LocksBack == LoopInv /\ LocksComeBack

\* The same of one lock.
GivenBack(l) ==
    holder[l] # Nobody => Works(holder[l], l) \/ (holder[l] = Main /\ ShuttingDown)

\* A thread takes the lock of its cycle and goes to work in one step, and gives it
\* back in the step in which it ends.
LEMMA ThreadGivesBack ==
    ASSUME LocksBack, NEW t \in Threads, TryLock(t) \/ Trade(t) \/ ThreadEnds(t)
    PROVE  LocksComeBack'
  <1> USE CyclesAssumption, ActorsAssumption DEF LocksBack
  <1> DEFINE l == LockOf[threads[t].cycle]
  <1>1. threads \in [Threads -> [pc : {"free", "start", "work", "ended"},
                                 cycle : Cycles \cup {NoCycle}]]
        /\ holder \in [Locks -> Threads \cup {Main, Nobody}]
    BY DEF LoopInv, TypeOK
  <1>2. UNCHANGED main
    BY DEF TryLock, Trade, ThreadEnds
  <1>3. SUFFICES ASSUME NEW m \in Locks
                 PROVE  GivenBack(m)'
    BY DEF LocksComeBack, GivenBack
  <1>4. GivenBack(m)
    BY DEF LocksComeBack, GivenBack
  <1>5. CASE TryLock(t) /\ holder[l] = Nobody
    <2>1. holder' = [holder EXCEPT ![l] = t] /\ threads' = [threads EXCEPT ![t].pc = "work"]
      BY <1>5 DEF TryLock
    <2>2. threads[t].pc = "start" /\ threads[t].cycle \in Cycles
      BY <1>5 DEF TryLock, LoopInv
    <2>3. threads'[t].pc = "work" /\ threads'[t].cycle = threads[t].cycle
          /\ \A u \in Threads \ {t} : threads'[u] = threads[u]
      BY <1>1, <2>1
    <2>4. CASE m = l
      BY <1>1, <2>1, <2>2, <2>3, <2>4 DEF GivenBack, Works
    <2>5. CASE m # l
      <3>1. holder'[m] = holder[m]
        BY <1>1, <2>1, <2>5
      <3> QED
        BY <1>2, <1>4, <2>2, <2>3, <3>1 DEF GivenBack, Works, ShuttingDown
    <2> QED
      BY <2>4, <2>5
  <1>6. CASE TryLock(t) /\ holder[l] # Nobody
    <2>1. UNCHANGED holder /\ threads' = [threads EXCEPT ![t] = After(t)]
          /\ threads[t].pc = "start"
      BY <1>6 DEF TryLock
    <2>2. \A u \in Threads \ {t} : threads'[u] = threads[u]
      BY <1>1, <2>1
    <2> QED
      BY <1>2, <1>4, <2>1, <2>2 DEF GivenBack, Works, ShuttingDown
  <1>7. CASE Trade(t)
    BY <1>4, <1>7 DEF Trade, GivenBack, Works, ShuttingDown
  <1>8. CASE ThreadEnds(t)
    <2>1. holder' = [holder EXCEPT ![l] = Nobody] /\ threads' = [threads EXCEPT ![t] = After(t)]
          /\ threads[t].pc = "work" /\ threads[t].cycle \in Cycles
      BY <1>8 DEF ThreadEnds, LoopInv
    <2>2. \A u \in Threads \ {t} : threads'[u] = threads[u]
      BY <1>1, <2>1
    <2>3. CASE m = l
      BY <1>1, <2>1, <2>3 DEF GivenBack
    <2>4. CASE m # l
      <3>1. holder'[m] = holder[m]
        BY <1>1, <2>1, <2>4
      <3> QED
        BY <1>2, <1>4, <2>1, <2>2, <2>4, <3>1 DEF GivenBack, Works, ShuttingDown
    <2> QED
      BY <2>3, <2>4
  <1> QED
    BY <1>5, <1>6, <1>7, <1>8

\* The main thread, which holds a lock only in a cycle of its own.
LEMMA MainGivesBack ==
    ASSUME LocksBack, MainStep
    PROVE  LocksComeBack'
  <1> USE CyclesAssumption, ActorsAssumption DEF LocksBack, At, AtLoop
  <1>1. threads \in [Threads -> [pc : {"free", "start", "work", "ended"},
                                 cycle : Cycles \cup {NoCycle}]]
        /\ holder \in [Locks -> Threads \cup {Main, Nobody}]
    BY DEF LoopInv, TypeOK
  <1>2. CASE NewPass \/ (\E c \in Cycles : NotDue(c))
    BY <1>2 DEF NewPass, NotDue, LocksComeBack, Works, ShuttingDown
  <1>3. ASSUME NEW c \in Cycles, RunThreaded(c) PROVE LocksComeBack'
    <2>1. PICK t \in Threads :
            /\ threads[t].pc = "free"
            /\ threads' = [threads EXCEPT ![t] = [pc |-> "start", cycle |-> c]]
      BY <1>3 DEF RunThreaded
    <2>2. UNCHANGED holder /\ main.pc = "loop"
      BY <1>3 DEF RunThreaded
    <2> QED
      BY <1>1, <2>1, <2>2 DEF LocksComeBack, Works, ShuttingDown
  <1>4. ASSUME NEW c \in Cycles, RunDirect(c) PROVE LocksComeBack'
    <2>1. UNCHANGED threads /\ main.pc = "loop" /\ LockOf[c] \in Locks
      BY <1>4 DEF RunDirect
    <2>2. CASE holder[LockOf[c]] = Nobody
      <3>1. holder' = [holder EXCEPT ![LockOf[c]] = Main]
            /\ main' = [pc |-> "direct", cycle |-> c, thread |-> Nobody]
        BY <1>4, <2>2 DEF RunDirect
      <3> QED
        BY <1>1, <2>1, <3>1 DEF LocksComeBack, Works, ShuttingDown
    <2>3. CASE holder[LockOf[c]] # Nobody
      BY <1>4, <2>1, <2>3 DEF RunDirect, LocksComeBack, Works, ShuttingDown
    <2> QED
      BY <2>2, <2>3
  <1>5. CASE DirectEnds
    <2>1. holder' = [holder EXCEPT ![LockOf[main.cycle]] = Nobody] /\ UNCHANGED threads
          /\ main.pc = "direct"
      BY <1>5 DEF DirectEnds
    <2> QED
      BY <1>1, <2>1 DEF LocksComeBack, Works, ShuttingDown
  <1>6. CASE JoinReturns
    <2>1. UNCHANGED holder /\ main.pc = "join" /\ threads[main.thread].pc = "ended"
          /\ threads' = [threads EXCEPT ![main.thread] = Free]
      BY <1>6 DEF JoinReturns
    <2> QED
      BY <1>1, <2>1 DEF LocksComeBack, Works, ShuttingDown
  <1>7. CASE JoinTimesOut
    BY <1>7 DEF JoinTimesOut, LocksComeBack, Works, ShuttingDown
  <1>8. CASE CloseAll
    BY <1>8 DEF CloseAll, LocksComeBack, Works, ShuttingDown
  <1> QED
    BY <1>2, <1>3, <1>4, <1>5, <1>6, <1>7, <1>8 DEF MainStep

LEMMA StepGivesBack == LocksBack /\ [Next]_vars => LocksBack'
  <1> SUFFICES ASSUME LocksBack, [Next]_vars PROVE LocksComeBack'
    BY LoopKeeps DEF LocksBack
  <1> USE ActorsAssumption DEF LocksBack, LocksComeBack, Works, ShuttingDown, AtLoop
  <1>1. CASE Sigterm
    BY <1>1 DEF Sigterm
  <1>2. CASE Exit
    BY <1>2 DEF Exit, NoHolders
  <1>3. CASE Boot \/ PositionEnds
    BY <1>3 DEF Boot, PositionEnds
  <1>4. CASE UNCHANGED vars
    BY <1>4 DEF vars
  <1> QED
    BY <1>1, <1>2, <1>3, <1>4, MainGivesBack, ThreadGivesBack DEF Next

\* A lock is taken only while its holder is at work under it, whichever runs have been
\* abandoned and however late they end (CycleRunner.run, the finally of each cycle),
\* unless SIGTERM has interrupted the cycle of the main thread.
THEOREM AbandonedGiveBack == Spec => []LocksComeBack
  <1>1. Init => LocksBack
    BY LoopStarts DEF Init, LocksBack, LocksComeBack, NoHolders
  <1>2. LocksBack => LocksComeBack
    BY DEF LocksBack
  <1> QED
    BY <1>1, <1>2, StepGivesBack, PTL DEF Spec

=============================================================================
