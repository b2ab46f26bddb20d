------------------------ MODULE ServerLifecycleProofs ------------------------
(***************************************************************************)
(* Theorems about ServerLifecycle, for any set of calling threads           *)
(* and whatever they and the message handler call.                          *)
(***************************************************************************)
EXTENDS ServerLifecycle, TLAPS

\* What a call has reached under mutex_.
Locked ==
  \A t \in Threads :
    /\ pc[t] \in {"spawn", "joinIo", "joinEmit"} => mutex = t
    /\ pc[t] = "spawn" => ioThread
    /\ pc[t] \in {"joinIo", "joinEmit"} => ~running
    /\ pc[t] = "joinEmit" => ~ioThread

\* Without a call in progress a running server has both threads.
UnlockedWhole == mutex = NoThread /\ running => ioThread /\ emitThread

\* The I/O thread runs on when running_ is false only while stop() waits for it.
EndsByItself ==
  ~running /\ (mutex = NoThread \/ \E t \in Threads : pc[t] = "spawn") => ~IoAlive

IInv == /\ TypeOK /\ EveryThreadJoinable /\ RunningMeansAlive
        /\ Locked /\ UnlockedWhole /\ EndsByItself

-----------------------------------------------------------------------------
\* The invariant holds of a server that was constructed.
LEMMA InitIInv == Init => IInv
<1> SUFFICES ASSUME Init PROVE IInv
  OBVIOUS
<1>1. TypeOK
  <2>1. "Idle" \in Places
    BY DEF Places
  <2>2. pc \in [Threads -> Places]
    BY <2>1 DEF Init
  <2>3. queue \in 0..MaxQueue
    BY LifecycleAssumption DEF Init
  <2>4. running \in BOOLEAN /\ ioThread \in BOOLEAN /\ emitThread \in BOOLEAN
    BY DEF Init
  <2> QED
    BY <2>2, <2>3, <2>4 DEF Init, TypeOK
<1>2. EveryThreadJoinable /\ RunningMeansAlive /\ UnlockedWhole /\ EndsByItself
  BY DEF Init, EveryThreadJoinable, RunningMeansAlive, UnlockedWhole, EndsByItself, IoAlive, EmitAlive
<1>3. Locked
  BY DEF Init, Locked
<1> QED
  BY <1>1, <1>2, <1>3 DEF IInv

\* Every step keeps the types: the call's place and the threads' places stay
\* within the tables of ServerLifecycle, and nothing is taken from an empty queue.
LEMMA TypeStep == TypeOK /\ [Next]_vars => TypeOK'
<1> SUFFICES ASSUME TypeOK, [Next]_vars PROVE TypeOK'
  OBVIOUS
<1> USE LifecycleAssumption DEF TypeOK, Places, AllCalls
<1>1. ASSUME NEW t \in Threads, Call(t) PROVE TypeOK'
  BY <1>1 DEF Call, Goes
<1>2. ASSUME NEW t \in Threads, StartEnter(t) PROVE TypeOK'
  BY <1>2 DEF StartEnter, Goes
<1>3. ASSUME NEW t \in Threads, StopEnter(t) PROVE TypeOK'
  BY <1>3 DEF StopEnter, Goes, Notified
<1>4. ASSUME NEW t \in Threads, WaitTest(t) PROVE TypeOK'
  BY <1>4 DEF WaitTest, Goes
<1>5. ASSUME NEW t \in Threads, StartSpawn(t) PROVE TypeOK'
  BY <1>5 DEF StartSpawn, Goes
<1>6. ASSUME NEW t \in Threads, StartTerminates(t) PROVE TypeOK'
  BY <1>6 DEF StartTerminates
<1>7. ASSUME NEW t \in Threads, StopJoinIo(t) PROVE TypeOK'
  BY <1>7 DEF StopJoinIo, Goes
<1>8. ASSUME NEW t \in Threads, StopJoinEmit(t) PROVE TypeOK'
  BY <1>8 DEF StopJoinEmit, Goes
<1>9. ASSUME NEW t \in Threads, StopNotify(t) PROVE TypeOK'
  BY <1>9 DEF StopNotify
<1>10. ASSUME NEW t \in Threads, WaitSpuriousWake(t) PROVE TypeOK'
  BY <1>10 DEF WaitSpuriousWake, Goes
<1>11. CASE IoTop \/ IoFails \/ IoWaits \/ IoEvent \/ IoEventDone
  BY <1>11 DEF IoTop, IoFails, IoWaits, IoEvent, IoEventDone, IoEnds, calls
<1>12. CASE IoDistribute
  BY <1>12 DEF IoDistribute, Notified, calls
<1>13. CASE EmitTop \/ EmitSleep \/ EmitSpuriousWake \/ EmitHandled
  BY <1>13 DEF EmitTop, EmitSleep, EmitSpuriousWake, EmitHandled, calls
<1>14. CASE EmitTest
  BY <1>14 DEF EmitTest, calls
<1>15. CASE UNCHANGED vars
  BY <1>15 DEF vars
<1> QED
  BY <1>1, <1>2, <1>3, <1>4, <1>5, <1>6, <1>7, <1>8, <1>9, <1>10, <1>11, <1>12,
     <1>13, <1>14, <1>15 DEF Next, TakesMutex, Proceeds

-----------------------------------------------------------------------------
\* The parts of IInv that relate the calls to the threads of the server.
Threaded == /\ EveryThreadJoinable /\ RunningMeansAlive
            /\ Locked /\ UnlockedWhole /\ EndsByItself

\* Every step keeps them.  start() may assume that nobody is within a call;
\* stop() drops a thread only when it has ended; and the threads themselves
\* end only when running_ is false.
LEMMA ThreadedStep == IInv /\ [Next]_vars => Threaded'
<1> SUFFICES ASSUME IInv, [Next]_vars PROVE Threaded'
  OBVIOUS
<1> USE LifecycleAssumption DEF IInv, TypeOK, Threaded, EveryThreadJoinable,
        RunningMeansAlive, Locked, UnlockedWhole, EndsByItself, IoAlive, EmitAlive
<1>1. ASSUME NEW t \in Threads, Call(t) PROVE Threaded'
  BY <1>1 DEF Call, Goes, AllCalls
<1>2. ASSUME NEW t \in Threads, StartEnter(t) PROVE Threaded'
  BY <1>2 DEF StartEnter, Goes
<1>3. ASSUME NEW t \in Threads, StopEnter(t) PROVE Threaded'
  BY <1>3 DEF StopEnter, Goes, Notified
<1>4. ASSUME NEW t \in Threads, WaitTest(t) PROVE Threaded'
  BY <1>4 DEF WaitTest, Goes
<1>5. ASSUME NEW t \in Threads, StartSpawn(t) PROVE Threaded'
  BY <1>5 DEF StartSpawn, Goes
<1>6. ASSUME NEW t \in Threads, StartTerminates(t) PROVE Threaded'
  BY <1>6 DEF StartTerminates
<1>7. ASSUME NEW t \in Threads, StopJoinIo(t) PROVE Threaded'
  BY <1>7 DEF StopJoinIo, Goes
<1>8. ASSUME NEW t \in Threads, StopJoinEmit(t) PROVE Threaded'
  BY <1>8 DEF StopJoinEmit, Goes
<1>9. ASSUME NEW t \in Threads, StopNotify(t) PROVE Threaded'
  BY <1>9 DEF StopNotify
<1>10. ASSUME NEW t \in Threads, WaitSpuriousWake(t) PROVE Threaded'
  BY <1>10 DEF WaitSpuriousWake, Goes
<1>11. CASE IoTop \/ IoFails \/ IoWaits \/ IoEvent \/ IoEventDone
  BY <1>11 DEF IoTop, IoFails, IoWaits, IoEvent, IoEventDone, IoEnds, calls
<1>12. CASE IoDistribute
  BY <1>12 DEF IoDistribute, Notified, calls
<1>13. CASE EmitTop \/ EmitSleep \/ EmitSpuriousWake \/ EmitHandled
  BY <1>13 DEF EmitTop, EmitSleep, EmitSpuriousWake, EmitHandled, calls
<1>14. CASE EmitTest
  BY <1>14 DEF EmitTest, calls
<1>15. CASE UNCHANGED vars
  BY <1>15 DEF vars
<1> QED
  BY <1>1, <1>2, <1>3, <1>4, <1>5, <1>6, <1>7, <1>8, <1>9, <1>10, <1>11, <1>12,
     <1>13, <1>14, <1>15 DEF Next, TakesMutex, Proceeds

\* The invariant is inductive ...
LEMMA NextIInv == IInv /\ [Next]_vars => IInv'
BY TypeStep, ThreadedStep DEF IInv, Threaded

\* ... and so holds throughout.
LEMMA IInvHolds == Spec => []IInv
BY InitIInv, NextIInv, PTL DEF Spec

\* Every variable keeps its type, for any number of calling threads.
THEOREM LifecycleTypeCorrect == Spec => []TypeOK
<1>1. IInv => TypeOK
  BY DEF IInv
<1> QED
  BY <1>1, IInvHolds, PTL

\* A running thread of the server can still be joined, even when the handler
\* stops the server from within it.
THEOREM EveryThreadJoinableHolds == Spec => []EveryThreadJoinable
<1>1. IInv => EveryThreadJoinable
  BY DEF IInv
<1> QED
  BY <1>1, IInvHolds, PTL

\* isRunning() does not report a server whose threads have ended.
THEOREM RunningMeansAliveHolds == Spec => []RunningMeansAlive
<1>1. IInv => RunningMeansAlive
  BY DEF IInv
<1> QED
  BY <1>1, IInvHolds, PTL

-----------------------------------------------------------------------------
\* A stop() that gives mutex_ back to its caller has ended both threads.  The
\* I/O thread was joined under the same lock, so nobody has started it again.
THEOREM StopEndsThreadsHolds == Spec => StopEndsThreads
<1> DEFINE Ends == \A t \in Callers : pc[t] # "notify" /\ pc'[t] = "notify"
                                        => ~IoAlive' /\ ~EmitAlive'
<1>1. IInv /\ [Next]_vars => [Ends]_vars
  <2> SUFFICES ASSUME IInv, Next, NEW t \in Callers,
                      pc[t] # "notify", pc'[t] = "notify"
               PROVE ~IoAlive' /\ ~EmitAlive'
    OBVIOUS
  <2> t \in Threads /\ t # Emitter
    BY LifecycleAssumption DEF Threads
  <2>1. StopJoinEmit(t)
    <3>1. ASSUME NEW u \in Threads, StopJoinEmit(u) PROVE u = t
      BY <3>1 DEF StopJoinEmit, Goes, IInv, TypeOK
    <3>2. ASSUME NEW u \in Threads,
                 \/ Call(u) \/ TakesMutex(u) \/ WaitSpuriousWake(u)
                 \/ StartSpawn(u) \/ StartTerminates(u) \/ StopJoinIo(u)
                 \/ StopNotify(u)
          PROVE FALSE
      BY <3>2, LifecycleAssumption DEF Call, TakesMutex, StartEnter, StopEnter, WaitTest,
         WaitSpuriousWake, StartSpawn, StartTerminates, StopJoinIo, StopNotify,
         Goes, IInv, TypeOK, AllCalls
    <3>3. UNCHANGED pc => FALSE
      OBVIOUS
    <3> QED
      BY <3>1, <3>2, <3>3 DEF Next, Proceeds, calls, IoTop, IoFails, IoWaits, IoEvent,
         IoEventDone, IoDistribute, EmitTop, EmitTest, EmitSleep, EmitSpuriousWake,
         EmitHandled
  <2> QED
    BY <2>1 DEF StopJoinEmit, IInv, Locked, EveryThreadJoinable, IoAlive, EmitAlive
<1> QED
  BY <1>1, IInvHolds, PTL DEF Spec, StopEndsThreads, Ends

-----------------------------------------------------------------------------
\* start() loses a std::thread only to a server that the handler itself has
\* stopped: another thread's stop() resets both pointers before it gives mutex_
\* back, and an I/O thread that ended by itself keeps start() away.
THEOREM HandlerStrandsHolds == Spec => HandlerStrands
<1> DEFINE Strands ==
      /\ Stranded' => Stranded \/ (pc[Emitter] = "joinEmit" /\ pc'[Emitter] = "notify")
      /\ Terminates' => Terminates \/ Stranded
<1>1. IInv /\ [Next]_vars => [Strands]_vars
  <2> SUFFICES ASSUME IInv, Next PROVE Strands
    OBVIOUS
  <2> Emitter \in Threads /\ NoThread \notin Threads
    BY LifecycleAssumption DEF Threads
  <2> USE DEF IInv, TypeOK, Locked, Stranded, Terminates
  <2>1. ASSUME NEW t \in Threads, Call(t) PROVE Strands
    BY <2>1, LifecycleAssumption DEF Call, Goes, AllCalls
  <2>2. ASSUME NEW t \in Threads, StartEnter(t) PROVE Strands
    BY <2>2 DEF StartEnter, Goes
  <2>3. ASSUME NEW t \in Threads, StopEnter(t) PROVE Strands
    BY <2>3 DEF StopEnter, Goes
  <2>4. ASSUME NEW t \in Threads, WaitTest(t) PROVE Strands
    BY <2>4 DEF WaitTest, Goes
  <2>5. ASSUME NEW t \in Threads, StartSpawn(t) PROVE Strands
    BY <2>5 DEF StartSpawn, Goes
  <2>6. ASSUME NEW t \in Threads, StartTerminates(t) PROVE Strands
    BY <2>6 DEF StartTerminates
  <2>7. ASSUME NEW t \in Threads, StopJoinIo(t) PROVE Strands
    BY <2>7 DEF StopJoinIo, Goes
  <2>8. ASSUME NEW t \in Threads, StopJoinEmit(t) PROVE Strands
    BY <2>8 DEF StopJoinEmit, Goes
  <2>9. ASSUME NEW t \in Threads, StopNotify(t) PROVE Strands
    BY <2>9 DEF StopNotify
  <2>10. ASSUME NEW t \in Threads, WaitSpuriousWake(t) PROVE Strands
    BY <2>10 DEF WaitSpuriousWake, Goes
  <2>11. CASE UNCHANGED calls
    BY <2>11 DEF calls
  <2> QED
    BY <2>1, <2>2, <2>3, <2>4, <2>5, <2>6, <2>7, <2>8, <2>9, <2>10, <2>11
       DEF Next, TakesMutex, Proceeds, calls, IoTop, IoFails, IoWaits, IoEvent,
           IoEventDone, IoDistribute, EmitTop, EmitTest, EmitSleep, EmitSpuriousWake,
           EmitHandled
<1> QED
  BY <1>1, IInvHolds, PTL DEF Spec, HandlerStrands, Strands

-----------------------------------------------------------------------------
\* waitUntilStopped returns only when the I/O thread has ended.  It returns with
\* mutex_ in hand and running_ false or a pointer null, which a running server
\* never has then.
THEOREM WaitEndsIoHolds == Spec => WaitEndsIo
<1> DEFINE Waits == \A t \in Threads : pc[t] \in {"wait", "relock"} /\ pc'[t] = "Idle"
                                         => ~IoAlive'
<1>1. IInv /\ [Next]_vars => [Waits]_vars
  <2> SUFFICES ASSUME IInv, Next, NEW t \in Threads,
                      pc[t] \in {"wait", "relock"}, pc'[t] = "Idle"
               PROVE ~IoAlive'
    OBVIOUS
  <2>1. WaitTest(t)
    <3>1. ASSUME NEW u \in Threads, WaitTest(u) PROVE u = t
      BY <3>1 DEF WaitTest, Goes, IInv, TypeOK
    <3>2. ASSUME NEW u \in Threads,
                 \/ Call(u) \/ StartEnter(u) \/ StopEnter(u) \/ WaitSpuriousWake(u)
                 \/ Proceeds(u)
          PROVE FALSE
      BY <3>2, LifecycleAssumption DEF Call, Proceeds, StartEnter, StopEnter,
         WaitSpuriousWake, StartSpawn, StartTerminates, StopJoinIo, StopJoinEmit,
         StopNotify, Goes, IInv, TypeOK, AllCalls
    <3>3. UNCHANGED pc => FALSE
      OBVIOUS
    <3> QED
      BY <3>1, <3>2, <3>3 DEF Next, TakesMutex, calls, IoTop, IoFails, IoWaits, IoEvent,
         IoEventDone, IoDistribute, EmitTop, EmitTest, EmitSleep, EmitSpuriousWake,
         EmitHandled
  <2>2. ~running
    BY <2>1 DEF WaitTest, Goes, IInv, TypeOK, UnlockedWhole
  <2>3. ~IoAlive
    BY <2>1, <2>2 DEF WaitTest, IInv, EndsByItself
  <2> QED
    BY <2>1, <2>3 DEF WaitTest, IoAlive
<1> QED
  BY <1>1, IInvHolds, PTL DEF Spec, WaitEndsIo, Waits

=============================================================================
