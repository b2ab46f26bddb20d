# Verification of the named pipe servers

TLA+ modules, TLC configurations and TLAPS proofs for this repository: C++
servers that talk to Node clients over Windows named pipes. The core is the
asynchronous server under `src/src/async`; the other programs are smaller
variants of the same idea.

Paths below are written as in the repository with `src/` in front of them, so
`src/src/async/NamedPipeServer.cpp` is `src/async/NamedPipeServer.cpp` there.
`cpp:N` stands for line N of that file and `h:N` for line N of
`NamedPipeServer.h`.

## 1. Inventory

### Asynchronous server (`src/src/async`)

| part | state | operations |
|---|---|---|
| `Buffer`, `DynamicBuffer` (`Buffer.h`) | storage, read and write position | `resize`, `reset`, `availableToRead/Write`, `setRead/WritePosition`, `read`, `write` |
| `Message` (cpp:20-156) | header, `headerProcessed_`, `allDataRead_`, `allDataWritten_`, buffer | `processHeader`, `onRead`, `onWrite`, `reset`, `getNextReadPacket` |
| `ObjectPool` (`ObjectPool.h`) | stack of free objects, a mutex | `acquire`, the `Deleter` of every pointer it gave out |
| `NamedPipeConnection` (cpp:168-428) | pipe handle, `connected_`, three overlapped operations with `hasPendingIO`, `readMessage_`, `messagePool_` | `connect`, `startRead`, `onRead`, `setConnected`, `pendingEvents`, `destroy` |
| `NamedPipeServer` (cpp:447-805) | `running_`, `connections_`, `emitMessageQueue_`, two threads, three mutexes, two condition variables | `start`, `stop`, `waitUntilStopped`, destructor, `ioRunnable`, `emitRunnable`, `emitMessage`, `nextEmitMessage`, `getConnection`, `createNewConnection` |
| `main_async.cpp` | a flag that SIGINT clears and nobody reads | `start(true)` |

The I/O thread creates pipe instances, starts reads, waits for events and turns
bytes into messages. It passes a complete message to the emit thread through
`emitMessageQueue_` (under `emitMutex_`) and takes a fresh one from the
connection's pool. The emit thread looks the connection up and calls the message
handler. The last thread to drop its pointer gives the object back to the pool.
Any thread may call `start`, `stop` and `waitUntilStopped`, the handler
included, for it is given the server.

What is hard: a `Message` is shared by the kernel (which writes into it), the
I/O thread, the queue, the handler and the pool, and only the order of the
steps keeps them apart; operations complete at once, later, partly
(`ERROR_MORE_DATA`) or not at all; `connections_` is read without its mutex;
stopping has to end two threads that sleep on different things; errors end the
server or are ignored depending on who meets them; nothing is reset when an
object is reused.

What makes it correct: one owner per message object; no read into an object
that somebody else holds; nothing handed over before it is complete; what is
handed over is what was sent, once and in order; every complete message is
handed over in the end; the number of instances stays within `maxConnections`;
the I/O thread sleeps only when there is nothing to do; stopping ends both
threads; nothing is destroyed that is still needed.

### The other programs

| part | state and operations | hard | correct when |
|---|---|---|---|
| basic server (`basic/main.cpp`) | one blocking instance; connect, write until an error, disconnect; SIGINT flag | the flag is read only between blocking calls; a client that connects early; a failed write ends the program | what a client reads is 1, 2, 3, ...; the instance listens again after an early client; SIGINT ends a program that is not blocked |
| multithreaded server (`multithread/multithreaded-pipe-server.cpp`) | one thread per client; SIGINT flag | after SIGINT the threads spin in their outer loop and never flush or close | every instance is served by one thread and closed in the end |
| gRPC listener and endpoint (`grpc/named_pipe_transport`, `GrpcNamedPipeServer` of `grpc/grpc_server.cpp`) | listener handle, endpoint handles, `running_` | `Accept` gives its handle away and does not look at the new one; the destructor joins a thread that blocks in `ConnectNamedPipe` | each handle has one owner and is closed once; shutdown ends the loop |
| `NamedPipeServer` of `grpc/grpc_server.cpp` | `pipe_handle_`, `running_`, `message_counter_`, a buffer | overlapped calls on a stream of bytes that knows no requests; `Shutdown` closes the handle that `Run` waits on | no more requests are counted than were sent; a client that asks one by one is answered; the next client is served; `Shutdown` ends `Run` |
| gRPC stream (`RunServer` and the service of `grpc_server.cpp`, `grpc_client.cpp`, `client-grpc.js`) | bidirectional stream, counters, flags | reader and writer end at different times; each direction may be full; the call may break | the n-th response answers the n-th request; both sides end |
| Node clients (`client.js`, `client-new.ts`) | a socket and a counter | the header `client.js` writes is not the server's | the server can read what is written |
| helpers, credentials, build files | none that changes | | |

## 2. Modules

| module | what it is |
|---|---|
| `PipeBuffer` | position arithmetic of `DynamicBuffer` with unsigned wrap-around |
| `Message` | the reading side of `Message`, with the bytes below the write position |
| `MessageDelivery` | abstract: clients send, the handler gets the same messages, once, in order |
| `NamedPipeServer` | the asynchronous server: clients and pipes, I/O thread, emit thread, pools, an owner that stops and destroys it |
| `ServerLifecycle` | `start`, `stop` and `waitUntilStopped` of that server, called by several threads and by the message handler |
| `MultithreadServer` | the multithreaded server: the main loop, one `InstanceThread` per client, SIGINT |
| `BasicServer` | the basic server: its main loop, clients, SIGINT |
| `GrpcListener` | `GrpcNamedPipeServer` with `WinNamedPipeListener` and the life of its endpoints |
| `GrpcPipeServer` | the class `NamedPipeServer` of `grpc_server.cpp` with its clients and an owner that calls `Shutdown` |
| `RequestResponse` | abstract: requests are numbered, answer n is to request n and is read n-th |
| `GrpcStream` | `RunServer`, the service and one client, the C++ or the Node program, over a gRPC call |
| `MCNamedPipeServer`, `MCServerLifecycle` | constants for TLC |
| `NamedPipeServerProofs`, `ServerLifecycleProofs`, `BasicServerProofs`, `MultithreadServerProofs`, `GrpcListenerProofs`, `GrpcPipeServerProofs`, `GrpcStreamProofs` | theorems about these modules |
| `DeliveryProofs` | extends `NamedPipeServerProofs`: what the handler gets is what the clients sent |

`NamedPipeServer` extends `Message`, which extends `PipeBuffer`; it instantiates
`MessageDelivery` under the mapping that keeps `sent` and `delivered`.
`ServerLifecycle` stands alone: it has the same two threads as `NamedPipeServer`,
reduced to where they sleep and end, and all the callers that `NamedPipeServer`
reduces to one owner. The two are not composed, because what they share is only
`running_`, the sleeping places and the exits. `BasicServer`, `MultithreadServer`, `GrpcListener` and
`GrpcPipeServer` model programs, or classes, of their own. `GrpcStream` composes the server program with
either client and instantiates `RequestResponse`: what was asked is what the service has read or will
find in the stream, what was answered is what the client has read or will.

### How `NamedPipeServer` corresponds to the code

*Bytes.* A byte is the triple `<<c, w, k>>`, byte `k` of message `w` of client
`c`. So a buffer knows where its bytes come from, and a header that is read from
the wrong bytes is noticed: `HeaderIn` gives the header a client wrote only for
the bytes of that header, and any of `GarbageHeaders` for others.

*Pipes.* A message-mode pipe keeps the boundaries of writes; `ReadFile` takes at
most one of them and leaves the remainder (`Transfer`, `Remainder`). Each
operation of a connection is `"Idle"`, `"Pending"`, `"Done"` (its event is set)
or, for a read whose client has gone, `"Broken"`. `hasPendingIO` is
"not Idle". The system completes a pending operation in the client's own step.

*I/O thread.* `ioPc` follows `ioRunnable`. `"Top"` is the head of the loop;
`"Push"` lies between `connect()` and `push_back`, a step of its own because
`getConnection` may run in the middle of it; `"Scan"` is the loop over
`connections_` at index `cur`; `"Wait"` is `WaitForMultipleObjects`; and
`"Distribute"`, `"Swap"`, `"Release"` are the end of `onRead`: queue the message,
replace `readMessage_`, drop the local pointer. `startRead` calls itself after a
read that completed at once; that is the `"Scan"` step taken again with the
same `cur`. A connection is numbered from 1 where the code counts from 0.

*Emit thread.* `emitPc` follows `emitRunnable` and `nextEmitMessage`: `"Test"`
evaluates the predicate, `"Block"` holds `emitMutex_` between the predicate and
the sleep, `"Asleep"` sleeps. The push and the `notify_one` of `emitMessage` are
one step: the emit thread can only test or sleep after the push has released
`emitMutex_`, so a notification between its test and its sleep is impossible
either way. `stop()` does not take `emitMutex_`, and its notification may well
fall there.

*Owner.* `stop()` up to its joins, the joins, then the members in reverse order of
declaration: `connections_` (h:298) before `emitMessageQueue_` (h:292), whose messages the `Deleter` writes into pools that
are gone; that goes unnoticed (`DestroyQueue`) or ends the process (`DestroyQueueCrashes`).

*Undefined behaviour.* A lookup during `push_back` may find the connection, miss it
or crash the process; all three are modelled (`EmitLookup...`).

*Left out* of it: log output, wording of errors, `sourceId` and `clientId`, the write path
(`startWrite`, `onWrite`, `writeMessage` are TODOs in the code), the handle
`stopEventHandle_` (nothing waits for it).

### How `ServerLifecycle` corresponds to the code

`pc[t]` is the place of thread `t` in a call: `"start"`, `"stop"` and `"wait"` before it
has `mutex_`, `"spawn"` between the creation of the two threads, `"joinIo"` and `"joinEmit"`
at the joins, `"notify"` after `mutex_` is released, `"asleep"` and `"relock"` in the wait
on `stoppedCondition_`. The emit thread is a caller too (`Emitter`), while it is in
the handler. `start(true)` is a start that goes on with `"wait"`; `main_async.cpp` is a
caller that does only that. `ioThread` and `emitThread` say whether the pointers are set;
assigning over a thread that was not joined is `std::terminate`, which puts every
thread at `"Crashed"`. `ioPc` keeps `"Exited"` after the join, so that a second start can
be told from the first. The steps within a locked region that only the holder of
`mutex_` can see are merged; `running_`, which both threads change without it, is
changed in the step that ends the thread. Clearing `running_` and notifying
`emitCondition_` are one step of `stop()`: an emit thread that tests in between finds
`running_` false, so nothing is lost by it.

### How `MultithreadServer` corresponds to the code

`mainPc` follows `_tmain` (`src/src/multithread/multithreaded-pipe-server.cpp`): `"Create"` before
`CreateNamedPipe`, `"Connect"` before `ConnectNamedPipe`, `"Blocked"` in it. Instances are
numbered in the order of their creation, so `created` is `hPipe`. A client may connect as soon as
the instance exists and leave at any time; the three answers of `ConnectNamedPipe` are TRUE,
`ERROR_PIPE_CONNECTED` and `ERROR_NO_DATA`. `thread[i]` follows `InstanceThread`: `"Start"` up to the
allocations, `"Check"` at `while (running)`, `"Write"` at `WriteFile`, which waits while the pipe has
no room (`PipeSize` numbers) and fails once the client has left. Left out: the sleep, the contents of
the reply besides the number, the heap blocks.

### How `GrpcListener` corresponds to the code

`instance[h]` is what the system knows behind handle value `h`; a closed value may be given out
again. `pipe` and `endpoint` are the two members `pipe_`. `serverPc` follows `RunServer` and
`Accept`: `"Top"` at the loop's test, `"Connect"` and `"Blocked"` at `ConnectNamedPipe`, `"Create"` between
the construction of the endpoint and the new instance, `"Sleep"` until the end of the body, where the
endpoint is destroyed. The owner is whoever constructs, shuts down and destroys the server; `main` of
`grpc_server.cpp` has that code commented out. Left out: the gRPC server, which never sees the pipe, but for
its being there at all when `server->Shutdown()` is called after the loop (`ServerCrashes`).

### How `BasicServer` corresponds to the code

`pc` follows `main` (`src/src/basic/main.cpp`): `"Top"` and `"Check"` at the two `while (running)`, `"Connect"`
before and `"Blocked"` in `ConnectNamedPipe`, `"Write"` at `WriteFile`, `"Disconnect"` before `DisconnectNamedPipe`.
`listening` says whether a client can open the instance: from `CreateNamedPipe` on, and after a
disconnect only when `ConnectNamedPipe` is called again. A client that was early makes `ConnectNamedPipe`
return FALSE, and the code does not ask why. `Drops` is what `DisconnectNamedPipe`, `CloseHandle` and the
end of the process do to a client and to what it has not read. `"Failed"` is `return 1`, `"Returned"` is `return 0`.
The handler of SIGINT only clears `running`; the C library of Windows resets the handler, so that a
second SIGINT kills the process: that is not modelled, here or in the other programs.

### How `GrpcStream` corresponds to the code

`kind` chooses the client. For the C++ client `writer` is the main thread (`"Start"` in the constructor, `"Check"` at
`while (running)`, `"Write"` in `Write`, `"Join"` at `reader.join()`) and `reader` the thread that reads. For the Node client
`writer` is the timer of `sendNextMessage` (`"Timer"` while one is set, `"Idle"` after the last) and `reader` its event
handlers, which do not interrupt each other; `NodeExits` is `process.exit` a second after SIGINT.
`server` follows `RunServer`: `"Create"`, `"Connect"` before and `"Blocked"` in `ConnectNamedPipe`, `"Serving"` in `Wait`, or
`"Crashed"` when there is no server to call `Wait` of.
A client that opened the pipe before `ConnectNamedPipe` leaves it at `"Connect"` for ever, where the loop only
prints. `handler` follows the service's `StreamData`. `main` of the server does not install `handleSignal`, so
`running` of the server is TRUE and left out.

gRPC is external. A direction of the call holds `Capacity` messages; `Write` waits for room in C++, and the
Node client's `write` does not wait. `Read` of the service is false when the client has half-closed and nothing is left,
or when the call is over; the client's reads end after the last response when the service has returned, or at
once when the call broke. `Breaks` may end a call at any time, and `NoService` must end one that no
service takes. As built, the server listens at `local:0` and not at the pipe, so the programs do not
meet: in the model that is a call that breaks. Left out: the sleeps, the texts.

### How `GrpcPipeServer` corresponds to the code

`runner` follows `Run`, `HandleClientConnection` and `ProcessData`: `"Connect"` and `"Connecting"` before `ConnectNamedPipe` and at
the wait for its event, `"Read"` and `"Reading"` likewise for `ReadFile`, `"Write"` for `WriteFile` and its wait, `"Check"` at the
inner `while (running_)`. `instance` is what the system knows behind `pipe_handle_`; a handle that is closed and not
yet set to INVALID fails in the same calls as INVALID, so that both are `"none"` (that another object is given the same
value in between is left out). Closing the handle completes what waits for it. The pipe is in byte
mode: `requests` is a sequence of pieces, each a whole request, the first part of one or the rest, and `ReadFile`
takes all there are, while one that was waiting is given the piece that is written first (`RunReadCompletes`). `Parses` is protobuf's reading of such a chunk: several requests are merged into
one, of which the last is seen, a truncated one is refused, and the rest of one may or may not look like a message.
Nobody in the repository writes these bytes; the clients are external, and half of them wait for each
answer. `main` has the use of the class commented out, so that the owner is whoever constructs the server, runs it, calls
`Shutdown` from another thread any number of times and lets it go out of scope.

## 3. What TLC checks

Constants keep the order of the real sizes, header 16 < smallest storage 1024
< packet 8192, as 2 < 3 < 4. `Sizes = {1, 5}` gives a message of one packet in
the smallest storage, and one whose storage grows and that needs two packets.
`SizeModulus = 16` is above every sum that occurs, as 2^64 is.

| run | instance | shows |
|---|---|---|
| `delivery` | 2 clients of which the one instance serves 1, 2 messages of either size, each in one write or in two; a client may connect early; fair | `DeliveryRefined`, `DeliveryFair`: the server implements `MessageDelivery`. `AcceptsWithinLimit`, with `maxConnections` 1 |
| `faults` | 1 client, 3 messages, all events | `TypeOK`, `NoReadIntoShared`, `DistributedStable`, `HandedOverWhole`, `ReadFitsBuffer`, `NoDeafWait` |
| `clients` | 2 clients, unlimited connections, wait set of 2, 2 messages each, clients may connect early; fair | `Ownership`, `DeliveredIntact`, `CreatesWithEvent` |
| `ids` | 1 client, 3 messages | violated: `IdsAreUnique` |
| `lifecycle` | 2 callers, every call, also from the handler; errors; fair | `EveryThreadJoinable`, `RunningMeansAlive`, `StopEndsThreads`, `StopEndsEmit`, `HandlerStrands`, `WaitersReturn`, `WaitEndsIo`, `EventFreesStop` |
| `wait_returns` | 1 caller that starts and waits, silent handler; errors; fair | violated: `WaitReturnsStopped` |
| `lost_wakeup` | 1 caller that starts and stops; fair | violated: `StopReturns` |
| `multithread` | 2 clients, 3 numbers, room for 2; SIGINT, failing calls; fair | `CountsInOrder`, `ThreadsHavePipes`, `ClientsServed` |
| `listener` | 3 handle values, failing calls, shutdown; fair | `HandlesOwned`, `ClientsAccepted`, `DestructorReturns` |
| `basic` | 3 clients, 3 numbers, room for 2; SIGINT; fair | `CountsInOrder`, `SigintEnds`, `ListensAgain`, `ClientsServed` |
| `stream` | either client, 4 requests, one message per direction; SIGINT, a call that breaks; fair | `StreamRefined`, `StreamFair`: the stream implements `RequestResponse`. `SigintEnds`, `BreakEndsClient`, `ServiceEnds` |
| `grpc_server` | 4 requests of one or two pieces, room for 2 pieces and 2 answers; `Shutdown`; fair | `CountsRequests`, `NothingLeft`, `ShutdownEndsRun`, `ServesTheNext`, `PoliteAnswered` |

The types of `NamedPipeServer` are checked by TLC as well (`faults`); those of the other modules, and `NothingLeft` of
`GrpcListener`, are proved (section 4) and no run repeats them.

Bounds, and why they are enough. `MaxSends = 3` with a pool that is reused: the
first message leaves through the swap, the second comes from the pool or is new,
the third meets an object that was used before. `MaxObjects = 4` (3 in `delivery`, 6 for the
two connections of `clients`) exceeds the
number of objects that can be out at once in these runs (queue, handler, `onRead`
and connection), `MaxDeliveries` lets a message be handed over once too often.
Two clients are the least that make one connection grow the vector while the
other one's message is looked up; `MaximumWaitObjects = 2` lets the wait set
reach its limit. A run in which clients may stop sending comes to rest, so
deadlock is not checked: a server that waits for its clients is not stuck, and
where it must not rest is what the liveness properties say.

In `ServerLifecycle` only the queue is bounded, by `MaxQueue`: what matters is whether it
is empty. Calls are not counted, so threads start, stop and wait for ever; two callers
besides the handler give every pair of concurrent calls, a stop and a wait among them.

In `MultithreadServer` two clients are enough for threads that run side by side with the main
thread in every place; three numbers with room for two let a thread block, and write after it was
blocked. In `GrpcListener` at most two handles are open at once, so that three values let every closed
value come back early or late; nothing is counted.

In `BasicServer` the second client is the one that comes after a client that was too early, the third one that comes
after both. In `GrpcStream` a
direction that holds one message is full as soon as anything is in it, and four requests fill both directions, the
service's hand and the writer's; the Node client's queue is bounded by `MaxRequests` alone. In
`GrpcPipeServer` two pieces give every chunk that matters (whole, first, rest and each pair), and four requests are enough for two
clients that leave something behind. Where the bound `MaxCount`, `MaxRequests` or `MaxSent` is reached the model stops, which
the program does not; the properties that speak of an end are stated so that they hold there too.

`delivery` is limited to two messages because the third breaks the promise: see
`ids`. With two messages per client no object is reused for a header.

Fairness (`FairSpec`). Weak fairness of the I/O thread, of the emit thread and of
the owner's steps: the scheduler runs every thread. Strong fairness of
`IoDistribute`: the emit thread takes `emitMutex_` again and again while it
tests and sleeps, so `emitMessage` finds the mutex free infinitely often but not
continuously; a mutex that is free infinitely often is acquired in the end.
Weak fairness of `ClientSendRest`: a client that wrote a header writes its
payload. Nothing makes a client connect, send or close, and spurious wake-ups
are allowed but never required. `ServerLifecycle` makes the same assumptions: every
thread proceeds (weak fairness), a thread that asks for `mutex_` gets it if it is free
again and again (strong fairness), no client acts (`IoEvent` is not fair), no error has to
happen, nobody has to call. In `MultithreadServer` each thread runs and a client that stays reads; in
`GrpcListener` the server's thread runs and the destructor's join returns when that thread has
ended. In `BasicServer` the program runs; in `GrpcPipeServer` `Run` runs, a `Shutdown` that was begun is ended and the server is
destroyed when `Run` has returned; in `GrpcStream` the threads, the timer, the events and the service run, and gRPC gives up a call that
no service takes (`NoService`). No client has to connect, to read, to write or to leave, and SIGINT, shutdown and a break
never have to come.

### Findings

1. `ids`: `acquire` hands out used messages without `reset()` and `allDataRead_`
   is never cleared by `onRead` (cpp:69-73), so a reused object is "complete" after
   any bytes, and the bytes of a header are taken for payload. h:44 promises unique ids.
2. `lost_wakeup`: the notification of `stop()` (cpp:512) falls between the emit thread's
   test and its sleep; `stop()` never returns although the I/O thread has ended.
3. `wait_returns`: `waitUntilStopped` goes by `running_` (cpp:543), which the I/O thread clears when it
   ends with an error; it returns while the emit thread is still in its loop and neither thread was
   joined. cpp:530 says that it blocks until the server is completely stopped. What does hold is
   `WaitEndsIo`: the I/O thread at least has ended.

The models have more behaviour that a reader may not expect and that no run is devoted
to. After `ERROR_PIPE_CONNECTED` (cpp:193) the event that the code sets belongs to no handle the server waits for, so
the I/O thread sleeps without a listening instance, and nobody can connect until another event comes, though cpp:597 says that
connections are created when requested. `CreatesWithEvent` is what remains: with the next event of any client
the instance is created. `stop()` from the handler leaves `emitThread_`
set, which the next `start()` assigns over (cpp:486), `std::terminate`; `HandlerStrands` says that this is the only way to it.
`Accept` (`listener.hpp:40`) keeps an instance whose client came and went before
`ConnectNamedPipe` and fails on it for ever, though `listener.hpp:47` means to serve future clients. With `maxConnections` 0 (h:272: unlimited) the wait set outgrows the 64 handles of
`WaitForMultipleObjects`. `stop()` makes a second `start()` possible, against the log line
cpp:480. After an error a thread that already sleeps in `waitUntilStopped` is not woken; the emit thread, if it sleeps
then, never ends, against cpp:614. The destructor joins an I/O thread that sleeps without a time limit,
so it returns only after a client has acted, against h:327. `emitMessageQueue_` (h:292) outlives
`connections_` (h:298), so a message that is still queued at the end is released to a pool that is
gone. An `InstanceThread` whose client leaves returns without closing its pipe: the cleanup at
`multithreaded-pipe-server.cpp:213-215` is behind an endless loop. A `CreateNamedPipe` that fails once
in `Accept` makes the gRPC listener deaf as well, and `~GrpcNamedPipeServer` waits for a client while
the thread is in `ConnectNamedPipe`. `stop()` of the
program and `stop()` of the handler wait for each other (cpp:520); `StopEndsEmit` excludes a handler that calls.
`SigintEnds` of `GrpcStream` excludes a deadlock: with both directions full, SIGINT ends the C++ client's reader,
its `Write` waits for the service and the service for the reader (`grpc_client.cpp:59` and `:70`). `RunServer` never serves
a client that opens the pipe before `ConnectNamedPipe` (`grpc_server.cpp:308`). `Run` of `NamedPipeServer` throws when its first client
has left before `ConnectNamedPipe` (`grpc_server.cpp:187`), or when `Shutdown` closes the handle just before, so that a server that
is shut down may end by an exception; and requests that arrive together get one answer. SIGINT does not
wake the basic server from `ConnectNamedPipe`, nor from a `WriteFile` whose client does not read.

## 4. What TLAPS proves

`NamedPipeServerProofs` proves, for every value of the constants that satisfies
`SizeAssumption`, `HeaderAssumption` and `ServerAssumption`:

| theorem | statement |
|---|---|
| `TypeCorrect` | `Spec => []TypeOK` |
| `OwnershipHolds` | `Spec => []Ownership` |
| `NoReadIntoSharedHolds` | `Spec => []NoReadIntoShared` |
| `HandedOverWholeHolds` | `Spec => []HandedOverWhole` |
| `DistributedStableHolds` | `Spec => DistributedStable` |
| `AcceptsWithinLimitHolds` | `Spec => []AcceptsWithinLimit` |
| `ReadFitsBufferHolds` | `Spec => []ReadFitsBuffer` |
| `NoDeafWaitHolds` | `Spec => []NoDeafWait` |

The inductive invariant is `IInv == TypeOK /\ Ownership /\ Whole`. None of the three
is inductive by itself. Types need ownership: a completed read changes the
message of a connection only if that connection has one (`ReadHasMessage`).
Types need `Whole`: the record given to the handler is cut out of `data` at the
size the header claims, which is a sequence of bytes only if that many were
read. `Whole` needs ownership: `onRead` changes a message that is not yet
distributed. Ownership says who holds which object: pools are disjoint and hold
nothing that is referred to (`PoolsApart`, `PooledUnused`), objects are used only
after they are allocated (`UsedAllocated`), the queue holds an object once
(`QueueApart`), connections read into objects of their own that are not
distributed except between `emitMessage` and the swap (`ReadApart`), and the local
pointers of the two threads refer to what the program counters say (`IoMsgHeld`,
`EmitMsgHeld`). `LastIdle` bounds `connections_` and `OwnerAlone` says that
the threads have ended when the owner takes the server apart.

The proof has one lemma per part of `IInv` with one step per action. Two lemmas
carry it: `HeldAcquire` (an object from the pool, or a new one, is referred to by
nobody) and `HeldReturn` (the last reference to an object is dropped).

Three more invariants, inductive next to `IInv`, carry the other properties:

- `Instances`: the instances that were created are `1..k` (`InstancesCounted`: while the server lives, `k` is `Made`,
  that is `nconn`, or one more during `IoPush`); an instance listens exactly while its `ConnectNamedPipe` is pending and is
  the last one, and one that has had a client is `connected_` or has a completed `connectIO_` (`InstanceStates`);
  an instance is created only when all others are connected (`CreatesLast`). `CreateFresh` is the step that
  counts: the next instance is one nobody has touched. `AcceptsWithinLimit` follows; it uses the cardinality of an interval.
- `ReadInRoom`: a completed read holds no more than the room that was offered for it, because nothing changes the
  message while the kernel owns it (`RoomStep`). `ReadFitsBuffer` follows from it.
- `PendingEmpty` and `Started`: a pending read has found an empty pipe of an open client, and the connections a scan has passed
  (all of `connections_` when it waits) have a read outstanding if they have a client. With `Instances` this is `NoDeafWait`.

`DeliveryProofs` proves, under the same assumptions, for clients that send at most two messages each (`MaxSends <= 2`), none of them an empty
pipe message (`"empty" \notin Events`):

| theorem | statement |
|---|---|
| `DeliveredIntactHolds` | `Spec => []DeliveredIntact` |
| `DeliveryRefinedHolds` | `Spec => DeliveryRefined`, provided that `0 \notin Sizes` and `MaxConnections = 1` |

With a third message, or an empty one, the code does not do it: that is the finding `ids` seen from the other side. The third message of a
client may be read into an object of the first, whose `allDataRead_` is still set, which makes a message of its header bytes; an
empty write to such an object completes it again, and the handler gets the first message a second time. With at most two messages
nothing is read into such an object (lemma `FewFresh`): an object comes back to the pool after the first, and is read into after the
second at the earliest. Everything else is arbitrary: the number of clients, sizes, messages that are cut into
header and payload by the client and into packets by the reads, clients that connect early, leave or are never read,
failing calls, lookups that miss or crash, and `stop()`.

The argument follows the bytes. The bytes `k + 1` to `l` of message `w` are an interval, and what a client writes, a read
takes or a read leaves is one (`Piece`). For each client there is a position `<<w, l>>`, behind `l` bytes of its message
`w`, that cuts what it writes in two (`Flows`): what comes before was distributed (`Passed`) or is in the message
being read (`Receiving`: its header and the payload so far, `Partial`); what follows is the completed read, then the pipe message after pipe
message, then what the client has still to write, each continuing where the one before ended (`Streaming`, `Chain`). A write adds a piece at the end
(`WriteFlows`), a read cuts the first piece in two (`TakePiece`), `onRead` moves the position (`OnReadResult`). That needs `ReadInRoom` and `PendingEmpty`
from above, `Homes` (an object returns to the pool of the connection it was made for), `Sending` (a client numbers its messages) and
`GivenIntact` (what was distributed is a whole message of its client). The order is four conditions (`Ordered`): in the queue, between
the emit thread and the queue, behind all of them the message that `onRead` has just completed, and before all of them
what the handler was given. `Homes`, `Sending`, `GivenIntact`, `Ordered` and `Flowing` are inductive only together with
`IInv` and `Instances` (`Settled`): the pool returns objects for whose client a message was already distributed, the order
between `onRead` and the queue comes from the position.

`DeliveryRefined` says more than `DeliveredIntact`: the handler gets the *next* message of a client, none is left out. Two
things lose one, and each is a condition above. A lookup that meets `push_back` may miss the connection, and the message is
dropped (`EmitLookupMisses`, cpp:736); a server of one connection never takes that step, as no
message object exists before its only instance is pushed (`Unread`, `NoRace`). And `processHeader` takes a size of 0 for an
invalid header (cpp:85), so a message without payload never reaches the handler. `DeliveryRefinedHolds` has just the conditions of the
run `delivery`; the number of clients, sizes, packets, objects, failures and stops are arbitrary.

The refinement mapping keeps `sent` and `delivered`, so `ClientSend` must be `Send` (`SendRefines`), `EmitHandle` must be `Deliver`
(`HandleRefines`), and every other action leaves both alone. For `EmitHandle` the invariant `Promised` adds three parts to
`Orderly` and `DeliveredIntact`: `Prefix` (what was handed over is the beginning of what was sent), `Gapless` (every message
before the position of its client was handed over, waits in the queue or with the emit thread, or is about to be distributed)
and `EmitStates` (the emit thread has a message only while it looks up or handles). With `Ordered` they leave one choice for
the message the emit thread has: all earlier ones are accounted for, none of them can wait behind it, so all were handed over
(`HandlesNext`). `GaplessStep` needs to know that the position of a client moves to the next message only when `onRead`
distributes this one; so the lemmas on the bytes conclude `FlowsOn`, which says how the position moves, not just that there is one.

`ServerLifecycleProofs` proves, for any set of callers and every value of the other
constants that satisfies `LifecycleAssumption`:

| theorem | statement |
|---|---|
| `LifecycleTypeCorrect` | `Spec => []TypeOK` |
| `EveryThreadJoinableHolds` | `Spec => []EveryThreadJoinable` |
| `RunningMeansAliveHolds` | `Spec => []RunningMeansAlive` |
| `StopEndsThreadsHolds` | `Spec => StopEndsThreads` |
| `HandlerStrandsHolds` | `Spec => HandlerStrands` |
| `WaitEndsIoHolds` | `Spec => WaitEndsIo` |

Its inductive invariant adds `Locked` (a call at `"spawn"`, `"joinIo"` or `"joinEmit"` holds
`mutex_`, and what it has already done to `running_` and `ioThread_` lasts),
`UnlockedWhole` (without a call in progress a running server has both threads) and
`EndsByItself` (the I/O thread outlives `running_` only during a `stop()`): each of
the properties alone is broken by a second call that meets the first one half done.
All six hold for any calls of the callers and of the handler. `HandlerStrands` looks at single steps: a `stop()` from outside resets
both pointers while it holds `mutex_`, one from the handler only `ioThread_`, and `start()` asks for `ioThread_` alone.

`GrpcListenerProofs`, for any set of handle values (`ListenerAssumption`: `NoHandle` is none):

| theorem | statement |
|---|---|
| `ListenerTypeCorrect` | `Spec => []TypeOK` |
| `HandlesOwnedHolds` | `Spec => []HandlesOwned` |
| `NothingLeftHolds` | `Spec => []NothingLeft` |

`HandlesOwned` needs `EndpointLives` (when listener and endpoint hold the same handle, and that no
endpoint is left when the loop goes round) and `OwnerKnows` (no handle before the constructor
and after the destructor). `CreatePipeOwned` and `ClosedOwned` say what opening and closing do to the
set of open handles, also when a value comes back.

`MultithreadServerProofs` proves, for any number of clients, of numbers and any room in the pipes
(`MultithreadAssumption`):

| theorem | statement |
|---|---|
| `MultithreadTypeCorrect` | `Spec => []TypeOK` |
| `CountsInOrderHolds` | `Spec => []CountsInOrder` |
| `ThreadsHavePipesHolds` | `Spec => []ThreadsHavePipes` |

`CountsInOrder` needs `Unstarted` (before its thread runs nothing was written, and a thread at `WriteFile` has
counted at least once), `ThreadsHavePipes` needs `LastInstance` (the instance the main thread works on
is the last one, open and without a thread). `ReadKeepsOrder`, `WriteAtEnd` and `CountUp`
are the facts about sequences.

`BasicServerProofs`, for any number of clients, of numbers and any room in the pipe (`BasicAssumption`):

| theorem | statement |
|---|---|
| `BasicTypeCorrect` | `Spec => []TypeOK` |
| `BasicCountsInOrder` | `Spec => []CountsInOrder` |

The invariant adds `Fresh` (until a client was written to, the counter is 0 and the pipe is empty) and `OnePeer` (an open
client is the one the instance belongs to). Together they say why the count of one process never reaches
a second client: whatever drops a client that was served also ends the process or the loop.

`GrpcStreamProofs`, for any `Capacity` and any number of requests (`StreamAssumption`):

| theorem | statement |
|---|---|
| `StreamTypeCorrect` | `Spec => []TypeOK` |
| `StreamRefinedHolds` | `Spec => StreamRefined`, that is `Spec => Stream!Spec` |

The invariant has three parts besides the types. `Placed` ties the client's place to its call, `Numbered` says that the
requests on their way are those after the last one that was taken and that the client has counted them, `Answered` that
the answers made are 1, 2, 3, ... and that the one the service is about to write is the next. A lemma (`StepKinds`) sorts the 25 actions into five:
nothing moves, a request is sent, one is taken, an answer is written, one is read. `StreamStep` maps each of the five to
a step of `RequestResponse` or to a stutter.

`GrpcPipeServerProofs`, for any `Capacity` and `MaxSent` (`PipeServerAssumption`):

| theorem | statement |
|---|---|
| `PipeServerTypeCorrect` | `Spec => []TypeOK` |
| `CountsRequestsHolds` | `Spec => []CountsRequests` |
| `NothingLeftHolds` | `Spec => []NothingLeft` |

`CountsRequests` needs `Counted`: the requests that were counted, the chunk in the buffer, the pieces in the pipe that end
a request (`Ended`, a cardinality) and a request of which only the first part is written are all different ones, and a chunk that
ends in a first part counts for nothing. `EndedAppend` and `EndedTail` say what writing and reading a piece do to `Ended`.

Only model-checked: the liveness properties of all servers (`DeliveryFair` and `StreamFair` included). Every invariant, action
property and refinement of the passing runs is a theorem, under the conditions its table names.
Liveness under fairness and ENABLED are out of the prover's reach.

## 5. Not modelled, and the plan

Not modelled:

- The writing side of the asynchronous server. `startWrite`, `onWrite` and `writeMessage` of the connection are TODOs;
  `Message::onWrite`, `getNextWritePacket` and `Buffer::read`, `write` and `setReadPosition` have no caller, so there is no use of them to
  model. Read closely they would not work: `write` passes the missing bytes to `resize` (`Buffer.h:133`), which takes the new size;
  `setReadPosition` cuts the new position to what is left to read (`Buffer.h:108`), so a message written in two packets is
  never complete.
- `Read` and `Write` of `WinNamedPipeEndpoint`, and the credentials: nobody calls them.
- Error texts, path names, event creation and concepts (`Win32Helpers`, `NamedPipeHelpers`, `Traits.h`), the build files.
- gRPC, protobuf and Windows themselves, beyond what the calls above need of them. `BuildAndStart` may return no
  server; whether it does is decided in the model where the pointer is used (`ServerCrashes`, `RunCrashes`, `RunServer`), which ends the process.
- `client.js` writes a header that is not the server's; `NamedPipeServer` has its bytes as `GarbageHeaders`.

Done: `PipeBuffer`, `Message`, `NamedPipeServer` with `MessageDelivery`; `ServerLifecycle`; `BasicServer`, `MultithreadServer`;
`GrpcListener`, `GrpcPipeServer`, `GrpcStream` with `RequestResponse`; their runs and the theorems above.
