-------------------------- MODULE MultithreadServer --------------------------
(***************************************************************************)
(* src/src/multithread/multithreaded-pipe-server.cpp: the main thread makes *)
(* one pipe instance after the other and starts an InstanceThread for each  *)
(* client, which writes the numbers 1, 2, 3, ... to it.                      *)
(* A definition named Wrong... is the one after it with a mistake; it is     *)
(* used by no other definition.                                              *)
(***************************************************************************)
EXTENDS Integers, Sequences

CONSTANTS
  MaxClients,   \* bound: instances that are ever created
  MaxCount,     \* bound: numbers a thread writes
  PipeSize      \* numbers that fit into a pipe

ASSUME MultithreadAssumption ==
  MaxClients \in Nat /\ MaxCount \in Nat /\ PipeSize \in Nat \ {0}

Instance == 1..MaxClients

VARIABLES
  running,      \* running, which SIGINT clears
  mainPc,       \* where the main thread is
  created,      \* instances created so far; the last one is hPipe
  instance,     \* the server's end of an instance
  client,       \* the client's end
  pipe,         \* numbers written and not read yet
  received,     \* numbers the client has read
  thread,       \* where the InstanceThread of an instance is
  counter       \* its local counter

vars == <<running, mainPc, created, instance, client, pipe, received, thread, counter>>

clientSide == <<client, pipe, received>>

Init ==
  /\ running = TRUE
  /\ mainPc = "Create"
  /\ created = 0
  /\ instance = [i \in Instance |-> "none"]
  /\ client = [i \in Instance |-> "none"]
  /\ pipe = [i \in Instance |-> << >>]
  /\ received = [i \in Instance |-> << >>]
  /\ thread = [i \in Instance |-> "none"]
  /\ counter = [i \in Instance |-> 0]

-----------------------------------------------------------------------------
\* Clients.

Connect(i) ==
  /\ instance[i] = "open" /\ client[i] = "none"
  /\ client' = [client EXCEPT ![i] = "open"]
  /\ UNCHANGED <<running, mainPc, created, instance, pipe, received, thread, counter>>

Read(i) ==
  /\ client[i] = "open" /\ pipe[i] # << >>
  /\ received' = [received EXCEPT ![i] = Append(@, Head(pipe[i]))]
  /\ pipe' = [pipe EXCEPT ![i] = Tail(@)]
  /\ UNCHANGED <<running, mainPc, created, instance, client, thread, counter>>

Leave(i) ==
  /\ client[i] = "open"
  /\ client' = [client EXCEPT ![i] = "gone"]
  /\ pipe' = [pipe EXCEPT ![i] = << >>]
  /\ UNCHANGED <<running, mainPc, created, instance, received, thread, counter>>

-----------------------------------------------------------------------------
\* The main thread.

\* The process ends, with its threads and its handles.
Exits ==
  /\ mainPc' = "Exited"
  /\ instance' = [i \in Instance |-> IF instance[i] = "open" THEN "closed"
                                                             ELSE instance[i]]
  /\ client' = [i \in Instance |-> IF client[i] = "open" THEN "dropped" ELSE client[i]]
  /\ thread' = [i \in Instance |-> IF thread[i] = "none" THEN "none" ELSE "Ended"]
  /\ UNCHANGED <<running, created, pipe, received, counter>>

\* CreateNamedPipe
MainCreate ==
  /\ mainPc = "Create" /\ created < MaxClients
  /\ created' = created + 1
  /\ instance' = [instance EXCEPT ![created + 1] = "open"]
  /\ mainPc' = "Connect"
  /\ UNCHANGED <<running, clientSide, thread, counter>>

MainCreateFails == mainPc = "Create" /\ Exits

\* ConnectNamedPipe is called: nobody is there yet, so it blocks.
MainBlocks ==
  /\ mainPc = "Connect" /\ client[created] = "none"
  /\ mainPc' = "Blocked"
  /\ UNCHANGED <<running, created, instance, clientSide, thread, counter>>

\* It returned TRUE, or FALSE with ERROR_PIPE_CONNECTED.
Connected == \/ mainPc = "Blocked" /\ client[created] # "none"
             \/ mainPc = "Connect" /\ client[created] = "open"

\* The handle of the pipe is closed instead of that of the thread.
WrongMainSpawns ==
  /\ Connected
  /\ thread' = [thread EXCEPT ![created] = "Start"]
  /\ instance' = [instance EXCEPT ![created] = "closed"]
  /\ mainPc' = "Create"
  /\ UNCHANGED <<running, created, clientSide, counter>>

\* CreateThread for the connected client.
MainSpawns ==
  /\ Connected
  /\ thread' = [thread EXCEPT ![created] = "Start"]
  /\ mainPc' = "Create"
  /\ UNCHANGED <<running, created, instance, clientSide, counter>>

MainSpawnFails == Connected /\ Exits

\* ERROR_PIPE_CONNECTED is taken for an error as well.
WrongGone == client[created] # "none"

\* ERROR_NO_DATA: the client came and went before ConnectNamedPipe was called.
Gone == client[created] = "gone"

\* The client could not connect: the pipe is closed.
MainCloses ==
  /\ mainPc = "Connect" /\ Gone
  /\ instance' = [instance EXCEPT ![created] = "closed"]
  /\ client' = [client EXCEPT ![created] = IF @ = "open" THEN "dropped" ELSE @]
  /\ mainPc' = "Create"
  /\ UNCHANGED <<running, created, pipe, received, thread, counter>>

-----------------------------------------------------------------------------
\* InstanceThread.

\* Without memory the thread ends at once, and leaves the pipe open.
ThreadStart(i) ==
  /\ thread[i] = "Start"
  /\ \E place \in {"Check", "Ended"} : thread' = [thread EXCEPT ![i] = place]
  /\ UNCHANGED <<running, mainPc, created, instance, clientSide, counter>>

\* One counter for all threads.
WrongThreadCheck(i) ==
  /\ thread[i] = "Check" /\ running
  /\ counter[i] < MaxCount
  /\ counter' = [j \in Instance |-> counter[i] + 1]
  /\ thread' = [thread EXCEPT ![i] = "Write"]
  /\ UNCHANGED <<running, mainPc, created, instance, clientSide>>

\* while (running) and ++counter.  Without running the outer loop, while (1),
\* comes back here for ever.
ThreadCheck(i) ==
  /\ thread[i] = "Check" /\ running
  /\ counter[i] < MaxCount
  /\ counter' = [counter EXCEPT ![i] = @ + 1]
  /\ thread' = [thread EXCEPT ![i] = "Write"]
  /\ UNCHANGED <<running, mainPc, created, instance, clientSide>>

\* WriteFile blocks while the pipe is full.
ThreadWrite(i) ==
  /\ thread[i] = "Write" /\ client[i] = "open"
  /\ Len(pipe[i]) < PipeSize
  /\ pipe' = [pipe EXCEPT ![i] = Append(@, counter[i])]
  /\ thread' = [thread EXCEPT ![i] = "Check"]
  /\ UNCHANGED <<running, mainPc, created, instance, client, received, counter>>

\* WriteFile fails because the client has left: return 1.
ThreadWriteFails(i) ==
  /\ thread[i] = "Write" /\ client[i] = "gone"
  /\ thread' = [thread EXCEPT ![i] = "Ended"]
  /\ UNCHANGED <<running, mainPc, created, instance, clientSide, counter>>

\* handleSignal
Sigint ==
  /\ running /\ mainPc # "Exited"
  /\ running' = FALSE
  /\ UNCHANGED <<mainPc, created, instance, clientSide, thread, counter>>

-----------------------------------------------------------------------------
MainNext == \/ MainCreate \/ MainCreateFails \/ MainBlocks
            \/ MainSpawns \/ MainSpawnFails \/ MainCloses

ThreadNext(i) == \/ ThreadStart(i) \/ ThreadCheck(i) \/ ThreadWrite(i)
                 \/ ThreadWriteFails(i)

Next ==
  \/ \E i \in Instance : Connect(i) \/ Read(i) \/ Leave(i) \/ ThreadNext(i)
  \/ MainNext
  \/ Sigint

Spec == Init /\ [][Next]_vars

\* Threads run, and a client that stays reads what it is sent.
FairSpec ==
  /\ Spec
  /\ WF_vars(MainNext)
  /\ \A i \in Instance : WF_vars(ThreadNext(i)) /\ WF_vars(Read(i))

-----------------------------------------------------------------------------
\* Properties.

\* Every variable has its type.
TypeOK ==
  /\ running \in BOOLEAN
  /\ mainPc \in {"Create", "Connect", "Blocked", "Exited"}
  /\ created \in 0..MaxClients
  /\ mainPc \in {"Connect", "Blocked"} => created > 0
  /\ instance \in [Instance -> {"none", "open", "closed"}]
  /\ client \in [Instance -> {"none", "open", "gone", "dropped"}]
  /\ thread \in [Instance -> {"none", "Start", "Check", "Write", "Ended"}]
  /\ counter \in [Instance -> 0..MaxCount]
  /\ pipe \in [Instance -> Seq(1..MaxCount)]
  /\ received \in [Instance -> Seq(1..MaxCount)]

Written(i) == IF thread[i] = "Write" THEN counter[i] - 1 ELSE counter[i]

\* What a client has read, and what waits for it, are the numbers from 1 on:
\* none is lost, repeated or meant for another client.
CountsInOrder ==
  \A i \in Instance :
    client[i] = "open" => received[i] \o pipe[i] = [k \in 1..Written(i) |-> k]

\* A thread works only on a pipe the server has not closed, and there is one
\* instance at most that no thread was started for.
ThreadsHavePipes ==
  \A i \in Instance :
    /\ thread[i] \in {"Start", "Check", "Write"} => instance[i] = "open"
    /\ instance[i] = "open" /\ thread[i] = "none" =>
         i = created /\ mainPc \in {"Connect", "Blocked"}

\* A client that connects and stays is sent something, unless the server is
\* told to stop, ends, or has no memory for it.
ClientsServed ==
  \A i \in Instance :
    client[i] = "open" ~> \/ received[i] # << >> \/ client[i] = "gone"
                          \/ ~running \/ mainPc = "Exited" \/ thread[i] = "Ended"

=============================================================================
