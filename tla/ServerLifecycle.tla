--------------------------- MODULE ServerLifecycle ---------------------------
(***************************************************************************)
(* start, stop and waitUntilStopped of NamedPipeServer                      *)
(* (src/src/async/NamedPipeServer.cpp), called by any thread of the program *)
(* and by the message handler, which runs in the emit thread.  What the two *)
(* threads of the server do is cut down to what these calls depend on:      *)
(* running_, the queue's length and the places where a thread sleeps.       *)
(*                                                                          *)
(* A definition named Wrong..., Deaf... or Early... is the one after it with *)
(* a mistake in it; it is part of no specification.                         *)
(***************************************************************************)
EXTENDS Integers, FiniteSets

CONSTANTS
  Callers,       \* threads of the program
  Emitter,       \* the emit thread
  NoThread,      \* nobody holds mutex_
  CallerCalls,   \* what the callers call: "start", "stop", "wait"
  HandlerCalls,  \* what the message handler calls
  MayFail,       \* whether the I/O thread can meet an error
  MaxQueue       \* bound: messages in emitMessageQueue_

Threads == Callers \cup {Emitter}
AllCalls == {"start", "stop", "wait"}

ASSUME LifecycleAssumption ==
  /\ Emitter \notin Callers
  /\ NoThread \notin Threads
  /\ CallerCalls \subseteq AllCalls
  /\ HandlerCalls \subseteq AllCalls
  /\ MayFail \in BOOLEAN
  /\ MaxQueue \in Nat

VARIABLES
  mutex,         \* who holds mutex_
  running,       \* running_
  ioThread,      \* ioThread_ is not null
  emitThread,    \* emitThread_ is not null
  ioPc, emitPc,  \* where the threads of the server are
  queue,         \* length of emitMessageQueue_
  pc             \* where a thread is in start, stop or waitUntilStopped

vars == <<mutex, running, ioThread, emitThread, ioPc, emitPc, queue, pc>>

IoAlive == ioPc \in {"Top", "Scan", "Waiting", "Event"}
EmitAlive == emitPc \in {"Top", "Test", "Block", "Asleep", "Handle"}

Init ==
  /\ mutex = NoThread
  /\ running = FALSE
  /\ ioThread = FALSE /\ emitThread = FALSE
  /\ ioPc = "None" /\ emitPc = "None"
  /\ queue = 0
  /\ pc = [t \in Threads |-> "Idle"]

Goes(t, place) == pc' = [pc EXCEPT ![t] = place]

-----------------------------------------------------------------------------
\* Calls.  The handler calls while the emit thread is in it.

Call(t) ==
  /\ pc[t] = "Idle"
  /\ t = Emitter => emitPc = "Handle"
  /\ \E c \in (IF t = Emitter THEN HandlerCalls ELSE CallerCalls) : Goes(t, c)
  /\ UNCHANGED <<mutex, running, ioThread, emitThread, ioPc, emitPc, queue>>

\* start() does not look at ioThread_.
WrongStartEnter(t) ==
  /\ pc[t] = "start" /\ mutex = NoThread
  /\ IF running
     THEN Goes(t, "Idle") /\ UNCHANGED <<mutex, running, ioThread, ioPc>>
     ELSE /\ mutex' = t /\ running' = TRUE
          /\ ioThread' = TRUE /\ ioPc' = "Top"
          /\ IF ioThread THEN pc' = [u \in Threads |-> "Crashed"]
                         ELSE Goes(t, "spawn")
  /\ UNCHANGED <<emitThread, emitPc, queue>>

\* start(), up to the I/O thread.
StartEnter(t) ==
  /\ pc[t] = "start" /\ mutex = NoThread
  /\ IF ioThread \/ running
     THEN Goes(t, "Idle") /\ UNCHANGED <<mutex, running, ioThread, ioPc>>
     ELSE /\ mutex' = t /\ running' = TRUE
          /\ ioThread' = TRUE /\ ioPc' = "Top"
          /\ Goes(t, "spawn")
  /\ UNCHANGED <<emitThread, emitPc, queue>>

\* The emit thread; then start returns, or goes on with waitUntilStopped.
StartSpawn(t) ==
  /\ pc[t] = "spawn" /\ ~emitThread
  /\ emitThread' = TRUE /\ emitPc' = "Top"
  /\ mutex' = NoThread
  /\ \E place \in {"Idle", "wait"} : Goes(t, place)
  /\ UNCHANGED <<running, ioThread, ioPc, queue>>

\* emitThread_ still owns a thread that was not joined: its destructor calls
\* std::terminate.
StartTerminates(t) ==
  /\ pc[t] = "spawn" /\ emitThread
  /\ ioPc' = "Crashed" /\ emitPc' = "Crashed"
  /\ pc' = [u \in Threads |-> "Crashed"]
  /\ UNCHANGED <<mutex, running, ioThread, emitThread, queue>>

\* notify on emitCondition_: only a thread that sleeps there hears it.
Notified == IF emitPc = "Asleep" THEN "Test" ELSE emitPc

\* stop() gives up when the server is not running.
WrongStopEnter(t) ==
  /\ pc[t] = "stop" /\ mutex = NoThread
  /\ IF running THEN mutex' = t /\ Goes(t, "joinIo") /\ emitPc' = Notified
                ELSE mutex' = mutex /\ Goes(t, "notify") /\ emitPc' = emitPc
  /\ running' = FALSE
  /\ UNCHANGED <<ioThread, emitThread, ioPc, queue>>

\* stop() gives mutex_ back before it joins.
EarlyStopEnter(t) ==
  /\ pc[t] = "stop" /\ mutex = NoThread
  /\ mutex' = NoThread
  /\ running' = FALSE
  /\ emitPc' = Notified
  /\ Goes(t, "joinIo")
  /\ UNCHANGED <<ioThread, emitThread, ioPc, queue>>

\* stop(), which goes on when the server was not running.
StopEnter(t) ==
  /\ pc[t] = "stop" /\ mutex = NoThread
  /\ mutex' = t
  /\ running' = FALSE
  /\ emitPc' = Notified
  /\ Goes(t, "joinIo")
  /\ UNCHANGED <<ioThread, emitThread, ioPc, queue>>

StopJoinIo(t) ==
  /\ pc[t] = "joinIo"
  /\ ioThread => ioPc = "Exited"
  /\ ioThread' = FALSE
  /\ Goes(t, "joinEmit")
  /\ UNCHANGED <<mutex, running, emitThread, ioPc, emitPc, queue>>

\* The handler resets emitThread_ without having joined it.
WrongStopJoinEmit(t) ==
  /\ pc[t] = "joinEmit"
  /\ t # Emitter /\ emitThread => emitPc = "Exited"
  /\ emitThread' = FALSE
  /\ mutex' = NoThread
  /\ Goes(t, "notify")
  /\ UNCHANGED <<running, ioThread, ioPc, emitPc, queue>>

\* The emit thread does not join itself.
StopJoinEmit(t) ==
  /\ pc[t] = "joinEmit"
  /\ t # Emitter /\ emitThread => emitPc = "Exited"
  /\ emitThread' = IF t = Emitter THEN emitThread ELSE FALSE
  /\ mutex' = NoThread
  /\ Goes(t, "notify")
  /\ UNCHANGED <<running, ioThread, ioPc, emitPc, queue>>

\* Nobody is woken.
WrongStopNotify(t) ==
  /\ pc[t] = "notify"
  /\ Goes(t, "Idle")
  /\ UNCHANGED <<mutex, running, ioThread, emitThread, ioPc, emitPc, queue>>

\* stoppedCondition_.notify_all, without mutex_.
StopNotify(t) ==
  /\ pc[t] = "notify"
  /\ pc' = [u \in Threads |-> IF u = t THEN "Idle"
                              ELSE IF pc[u] = "asleep" THEN "relock" ELSE pc[u]]
  /\ UNCHANGED <<mutex, running, ioThread, emitThread, ioPc, emitPc, queue>>

\* waitUntilStopped: the first test and the predicate of the wait, when the
\* thread has mutex_ for the first time or again.
WaitTest(t) ==
  /\ pc[t] \in {"wait", "relock"} /\ mutex = NoThread
  /\ Goes(t, IF running /\ ioThread /\ emitThread THEN "asleep" ELSE "Idle")
  /\ UNCHANGED <<mutex, running, ioThread, emitThread, ioPc, emitPc, queue>>

WaitSpuriousWake(t) ==
  /\ pc[t] = "asleep"
  /\ Goes(t, "relock")
  /\ UNCHANGED <<mutex, running, ioThread, emitThread, ioPc, emitPc, queue>>

TakesMutex(t) == StartEnter(t) \/ StopEnter(t) \/ WaitTest(t)

Proceeds(t) == \/ StartSpawn(t) \/ StartTerminates(t)
               \/ StopJoinIo(t) \/ StopJoinEmit(t) \/ StopNotify(t)

-----------------------------------------------------------------------------
\* The I/O thread.

calls == <<mutex, ioThread, emitThread, pc>>

\* An error leaves running_ as it is.
WrongIoEnds == ioPc' = "Exited" /\ UNCHANGED running

\* The last thing ioRunnable does.
IoEnds == ioPc' = "Exited" /\ running' = FALSE

\* The loop does not look at running_.
WrongIoTop ==
  /\ ioPc = "Top"
  /\ ioPc' = "Scan"
  /\ UNCHANGED <<calls, running, emitPc, queue>>

IoTop ==
  /\ ioPc = "Top"
  /\ IF running THEN ioPc' = "Scan" /\ UNCHANGED running ELSE IoEnds
  /\ UNCHANGED <<calls, emitPc, queue>>

\* createNewConnection, startRead, the wait or the overlapped result fails.
IoFails ==
  /\ MayFail
  /\ ioPc \in {"Scan", "Waiting"}
  /\ IoEnds
  /\ UNCHANGED <<calls, emitPc, queue>>

\* WaitForMultipleObjects, without a time limit.
IoWaits ==
  /\ ioPc = "Scan"
  /\ ioPc' = "Waiting"
  /\ UNCHANGED <<calls, running, emitPc, queue>>

IoEvent ==
  /\ ioPc = "Waiting"
  /\ ioPc' = "Event"
  /\ UNCHANGED <<calls, running, emitPc, queue>>

\* The event was handled without completing a message.
IoEventDone ==
  /\ ioPc = "Event"
  /\ ioPc' = "Top"
  /\ UNCHANGED <<calls, running, emitPc, queue>>

\* emitMessage, from startRead or after an event; it needs emitMutex_.
IoDistribute ==
  /\ ioPc \in {"Scan", "Event"}
  /\ emitPc # "Block"
  /\ queue < MaxQueue
  /\ queue' = queue + 1
  /\ emitPc' = Notified
  /\ ioPc' = IF ioPc = "Event" THEN "Top" ELSE "Scan"
  /\ UNCHANGED <<calls, running>>

-----------------------------------------------------------------------------
\* The emit thread.

EmitTop ==
  /\ emitPc = "Top"
  /\ emitPc' = IF running THEN "Test" ELSE "Exited"
  /\ UNCHANGED <<calls, running, ioPc, queue>>

\* The predicate of the wait does not look at running_.
DeafEmitTest ==
  /\ emitPc = "Test"
  /\ emitPc' = IF queue = 0 THEN "Block" ELSE IF running THEN "Handle" ELSE "Top"
  /\ queue' = IF running /\ queue > 0 THEN queue - 1 ELSE queue
  /\ UNCHANGED <<calls, running, ioPc>>

\* nextEmitMessage: the predicate of the wait and what follows it.
EmitTest ==
  /\ emitPc = "Test"
  /\ emitPc' = IF ~running THEN "Top" ELSE IF queue = 0 THEN "Block" ELSE "Handle"
  /\ queue' = IF running /\ queue > 0 THEN queue - 1 ELSE queue
  /\ UNCHANGED <<calls, running, ioPc>>

\* The wait gives emitMutex_ up and sleeps.
EmitSleep ==
  /\ emitPc = "Block"
  /\ emitPc' = "Asleep"
  /\ UNCHANGED <<calls, running, ioPc, queue>>

EmitSpuriousWake ==
  /\ emitPc = "Asleep"
  /\ emitPc' = "Test"
  /\ UNCHANGED <<calls, running, ioPc, queue>>

\* The handler returns.
EmitHandled ==
  /\ emitPc = "Handle"
  /\ pc[Emitter] = "Idle"
  /\ emitPc' = "Top"
  /\ UNCHANGED <<calls, running, ioPc, queue>>

-----------------------------------------------------------------------------
Next ==
  \/ \E t \in Threads : \/ Call(t) \/ TakesMutex(t) \/ Proceeds(t)
                        \/ WaitSpuriousWake(t)
  \/ IoTop \/ IoFails \/ IoWaits \/ IoEvent \/ IoEventDone \/ IoDistribute
  \/ EmitTop \/ EmitTest \/ EmitSleep \/ EmitSpuriousWake \/ EmitHandled

Spec == Init /\ [][Next]_vars

\* Every thread runs, and gets a mutex that is free again and again.  Nothing
\* makes a client act: IoEvent and IoFails are not fair.
Fairness ==
  /\ \A t \in Threads : WF_vars(Proceeds(t)) /\ SF_vars(TakesMutex(t))
  /\ WF_vars(IoTop \/ IoWaits \/ IoEventDone)
  /\ WF_vars(EmitTop \/ EmitTest \/ EmitSleep \/ EmitHandled)

FairSpec == Spec /\ Fairness

-----------------------------------------------------------------------------
\* Properties.

Places == AllCalls \cup {"Idle", "spawn", "joinIo", "joinEmit", "notify",
                         "asleep", "relock", "Crashed"}

\* Every variable has its type; the queue never shrinks below nothing.
TypeOK ==
  /\ mutex \in Threads \cup {NoThread}
  /\ running \in BOOLEAN /\ ioThread \in BOOLEAN /\ emitThread \in BOOLEAN
  /\ ioPc \in {"None", "Top", "Scan", "Waiting", "Event", "Exited", "Crashed"}
  /\ emitPc \in {"None", "Top", "Test", "Block", "Asleep", "Handle", "Exited",
                 "Crashed"}
  /\ queue \in 0..MaxQueue
  /\ pc \in [Threads -> Places]

\* A thread of the server that runs can still be joined: whoever stops or
\* restarts the server, its std::thread is kept until it has ended.
EveryThreadJoinable == (IoAlive => ioThread) /\ (EmitAlive => emitThread)

\* isRunning() is true only while both threads run, or start() is just about
\* to start the second one.
RunningMeansAlive ==
  running => /\ ioPc \notin {"None", "Exited"}
             /\ \/ emitPc \notin {"None", "Exited"}
                \/ \E t \in Threads : pc[t] = "spawn"

\* When stop() gives mutex_ back to a thread of the program, both threads of
\* the server have ended, whatever other calls were made before.
StopEndsThreads ==
  [][\A t \in Callers : pc[t] # "notify" /\ pc'[t] = "notify"
       => ~IoAlive' /\ ~EmitAlive']_vars

\* A server that start() would start although emitThread_ owns a thread.
Stranded == emitThread /\ ~ioThread /\ mutex = NoThread

\* start() is about to replace a std::thread that was not joined, or has: the
\* process ends.
Terminates ==
  \E t \in Threads : pc[t] = "Crashed" \/ (pc[t] = "spawn" /\ emitThread)

\* start() replaces a std::thread that was not joined only when stop() in the
\* message handler, which cannot join its own thread, left it behind; no other
\* order of calls and no error of the I/O thread ends the process.
HandlerStrands ==
  [][/\ Stranded' => Stranded \/ (pc[Emitter] = "joinEmit" /\ pc'[Emitter] = "notify")
     /\ Terminates' => Terminates \/ Stranded]_vars

Stopped == ~running /\ ~ioThread /\ ~emitThread

\* A thread does not sleep on in waitUntilStopped while the server stays
\* stopped, although stop() notifies it without holding mutex_.
WaitersReturn ==
  \A t \in Callers : (pc[t] = "asleep" /\ Stopped)
                       ~> (pc[t] \notin {"asleep", "relock"} \/ ~Stopped)

\* When waitUntilStopped returns, the I/O thread has ended, whoever stopped the
\* server and also when the I/O thread ended by itself: no message is read any more.
WaitEndsIo ==
  [][\A t \in Threads : pc[t] \in {"wait", "relock"} /\ pc'[t] = "Idle"
       => ~IoAlive']_vars

\* waitUntilStopped "Blocks the calling thread until the server is completely
\* stopped" (NamedPipeServer.cpp:530): when it returns, both threads have ended.
WaitReturnsStopped ==
  [][\A t \in Threads : pc[t] \in {"wait", "relock"} /\ pc'[t] = "Idle"
       => ~IoAlive' /\ ~EmitAlive']_vars

\* A stop() that waits for the I/O thread gets past it with the next event.
EventFreesStop ==
  \A t \in Threads : (pc[t] = "joinIo" /\ ioPc = "Event") ~> pc[t] = "joinEmit"

\* A stop() past the I/O thread returns too, if the emit thread was not about
\* to sleep when it was notified and the handler does not call the server: such
\* a call needs mutex_, which stop() holds.
StopEndsEmit ==
  \A t \in Threads : (pc[t] = "joinEmit" /\ emitPc \notin {"Block", "Asleep"})
                       ~> (pc[t] # "joinEmit" \/ pc[Emitter] # "Idle")

\* A stop() whose I/O thread has ended goes on to return: the server's threads
\* are stopped.
StopReturns == \A t \in Threads : pc[t] = "joinEmit" ~> pc[t] # "joinEmit"

=============================================================================
