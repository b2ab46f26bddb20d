--------------------------- MODULE NamedPipeServer --------------------------
(***************************************************************************)
(* The asynchronous named pipe server (src/src/async/NamedPipeServer.cpp): *)
(* the I/O thread that accepts clients and reads their messages, the emit  *)
(* thread that hands complete messages to the message handler, the pool of *)
(* Message objects of each connection, the owner that destroys the server, *)
(* and the named pipes of the operating system between the clients and the *)
(* server.                                                                 *)
(*                                                                         *)
(* Connection c is the c-th pipe instance the server creates.  At most one *)
(* instance listens at a time, so it serves the c-th client that connects. *)
(* Everything one thread does between two accesses to state it shares with *)
(* another thread is one action.                                           *)
(*                                                                         *)
(* A definition named Wrong... is the definition after it with a mistake   *)
(* in it; it is part of no specification and serves to see which property  *)
(* notices the mistake.                                                    *)
(***************************************************************************)
EXTENDS Message, FiniteSets, Functions

CONSTANTS
  MaxConnections,     \* NamedPipeServerOptions::maxConnections, 0 = unlimited
  MaximumWaitObjects, \* MAXIMUM_WAIT_OBJECTS of WaitForMultipleObjects (64)
  PacketSize,         \* NamedPipeServerOptions::packetSize
  Sizes,              \* payload sizes the clients send
  GarbageHeaders,     \* what bytes that are no header may look like
  Events,             \* what may happen besides clients that send
  MaxClients,         \* bound: clients that ever connect
  MaxSends,           \* bound: messages a client sends
  MaxObjects,         \* bound: Message objects ever allocated
  MaxDeliveries       \* bound: messages of a client given to the handler

AllEvents == {"early", "fail", "empty", "close", "stop"}

ASSUME ServerAssumption ==
  /\ MaxConnections \in Nat
  /\ MaximumWaitObjects \in Nat \ {0}
  /\ PacketSize \in Nat /\ PacketSize >= MessageHeaderSize
  /\ Sizes \subseteq SizeType
  /\ GarbageHeaders \subseteq Headers
  /\ Events \subseteq AllEvents
  /\ MaxClients \in Nat
  /\ MaxSends \in Nat
  /\ MaxObjects \in Nat
  /\ MaxDeliveries \in Nat

\* The server creates at most one instance more than clients connect.
Conn == 1..(MaxClients + 1)
Obj == 1..MaxObjects
Null == 0                         \* a null MessagePtr

VARIABLES
  \* clients and named pipes (the operating system)
  client,           \* the instance as its client sees it
  sent,             \* the messages each client sent
  unwritten,        \* payload of the last of them its client must still write
  pipe,             \* pipe messages written and not read yet
  \* the server's connections_
  nconn,            \* connections_ holds the instances 1..nconn
  connected,        \* connected_
  connectIO,        \* connectIO_: no operation, one pending, one completed
  readIO,           \* readIO_, likewise
  transferred,      \* bytes the completed read put into the message
  readMessage,      \* readMessage_
  messagePool,      \* messagePool_.availableObjects_, the top first
  message,          \* the Message objects
  allocated,        \* how many of them were ever allocated
  \* the I/O thread
  ioPc, cur, ioMsg, \* where it is, the connection it serves, msg of onRead
  ioFrom,           \* who called onRead: startRead ("Scan") or the loop ("Top")
  \* the emit thread
  emitMessageQueue, emitPc, emitMsg,
  \* the server
  running,          \* running_
  ownerPc,          \* how far its owner is with destroying it
  delivered         \* what the message handler was given so far

clientVars == <<client, sent, unwritten>>
connVars == <<nconn, connected, connectIO>>
readVars == <<readIO, transferred>>
poolVars == <<readMessage, messagePool, allocated>>
ioVars == <<ioPc, cur, ioMsg, ioFrom>>
emitVars == <<emitPc, emitMsg, delivered>>

vars == <<client, sent, unwritten, pipe, nconn, connected, connectIO, readIO,
          transferred, readMessage, messagePool, message, allocated,
          ioPc, cur, ioMsg, ioFrom, emitMessageQueue, emitPc, emitMsg,
          running, ownerPc, delivered>>

-----------------------------------------------------------------------------
\* What a client sends, and what the server finds in the bytes.

Header(c, w) == [k \in 1..MessageHeaderSize |-> <<c, w, k>>]
Payload(c, w, size) == [k \in 1..size |-> <<c, w, MessageHeaderSize + k>>]

\* The header fields in MessageHeaderSize bytes of a pipe message of c.
HeaderIn(c, bytes) ==
  LET Written == {w \in 1..Len(sent[c]) : bytes = Header(c, w)}
  IN IF Written = {} THEN GarbageHeaders
     ELSE {[id |-> sent[c][w].id, size |-> Len(sent[c][w].data)] : w \in Written}

\* The packet is not cut to the room that is left.
WrongReadSize(m) == IF IsHeaderProcessed(m) THEN PacketSize ELSE MessageHeaderSize

\* Room the server offers with the next ReadFile of message m.
ReadSize(m) == IF IsHeaderProcessed(m)
               THEN Lesser(AvailableToWrite(m.buffer), PacketSize)
               ELSE MessageHeaderSize

\* ReadFile in message mode takes bytes of one pipe message only.
Transfer(frame, n) == SubSeq(frame, 1, Lesser(Len(frame), n))
Remainder(frame, n) == SubSeq(frame, Lesser(Len(frame), n) + 1, Len(frame))

-----------------------------------------------------------------------------
\* The server's own predicates.

\* hasAvailableConnection
HasAvailableConnection == \E c \in 1..nconn : ~connected[c]

\* One connection too many.
WrongShouldCreateConnection ==
  ~HasAvailableConnection /\ (MaxConnections = 0 \/ nconn <= MaxConnections)

\* shouldCreateConnection
ShouldCreateConnection ==
  ~HasAvailableConnection /\ (MaxConnections = 0 \/ nconn < MaxConnections)

ConnectPending == {c \in 1..nconn : connectIO[c] # "Idle"}
ReadPending == {c \in 1..nconn : readIO[c] # "Idle"}

\* The number of handles the I/O thread waits for.
PendingEvents == Cardinality(ConnectPending) + Cardinality(ReadPending)

Signaled(c) == connectIO[c] = "Done" \/ readIO[c] \in {"Done", "Broken"}

\* WaitForMultipleObjects returns the signalled handle of lowest index.  A
\* connection never has both its operations outstanding.
Chosen(c) == c \in 1..nconn /\ Signaled(c) /\ \A d \in 1..(c - 1) : ~Signaled(d)

Queued == Range(emitMessageQueue)

\* The pool gets the pointer after it was moved from.
WrongReturnToPool(o) ==
  messagePool' = [messagePool EXCEPT ![message[o].connectionId] = <<Null>> \o @]

\* The last shared_ptr to object o is gone: Deleter returns it to the pool of
\* the connection that made it.
ReturnToPool(o) ==
  messagePool' = [messagePool EXCEPT ![message[o].connectionId] = <<o>> \o @]

\* The object stays in the pool.
WrongAcquire(c) ==
  \/ /\ messagePool[c] # << >>
     /\ readMessage' = [readMessage EXCEPT ![c] = Head(messagePool[c])]
     /\ UNCHANGED <<messagePool, message, allocated>>
  \/ /\ messagePool[c] = << >>
     /\ allocated < MaxObjects
     /\ allocated' = allocated + 1
     /\ message' = [message EXCEPT ![allocated + 1] = NewMessage(c)]
     /\ readMessage' = [readMessage EXCEPT ![c] = allocated + 1]
     /\ UNCHANGED messagePool

\* readMessage_ = messagePool_.acquire() for connection c.
Acquire(c) ==
  \/ /\ messagePool[c] # << >>
     /\ readMessage' = [readMessage EXCEPT ![c] = Head(messagePool[c])]
     /\ messagePool' = [messagePool EXCEPT ![c] = Tail(@)]
     /\ UNCHANGED <<message, allocated>>
  \/ /\ messagePool[c] = << >>
     /\ allocated < MaxObjects
     /\ allocated' = allocated + 1
     /\ message' = [message EXCEPT ![allocated + 1] = NewMessage(c)]
     /\ readMessage' = [readMessage EXCEPT ![c] = allocated + 1]
     /\ UNCHANGED messagePool

-----------------------------------------------------------------------------
\* start() has just started both threads.
Init ==
  /\ client = [c \in Conn |-> "none"]
  /\ sent = [c \in Conn |-> << >>]
  /\ unwritten = [c \in Conn |-> << >>]
  /\ pipe = [c \in Conn |-> << >>]
  /\ nconn = 0
  /\ connected = [c \in Conn |-> FALSE]
  /\ connectIO = [c \in Conn |-> "Idle"]
  /\ readIO = [c \in Conn |-> "Idle"]
  /\ transferred = [c \in Conn |-> << >>]
  /\ readMessage = [c \in Conn |-> Null]
  /\ messagePool = [c \in Conn |-> << >>]
  /\ message = [o \in Obj |-> NewMessage(0)]
  /\ allocated = 0
  /\ ioPc = "Top" /\ cur = 0 /\ ioMsg = Null /\ ioFrom = "Top"
  /\ emitMessageQueue = << >>
  /\ emitPc = "Top" /\ emitMsg = Null
  /\ running = TRUE
  /\ ownerPc = "Using"
  /\ delivered = [c \in Conn |-> << >>]

-----------------------------------------------------------------------------
\* Clients.  The operating system completes a pending operation at once.

\* A client connects to the listening instance; the others are busy.
ClientConnect(c) ==
  /\ c <= MaxClients
  /\ client[c] = "listening"
  /\ client' = [client EXCEPT ![c] = "open"]
  /\ connectIO' = [connectIO EXCEPT ![c] = "Done"]
  /\ UNCHANGED <<sent, unwritten, pipe, nconn, connected, readVars, poolVars,
                 message, ioVars, emitMessageQueue, emitVars, running, ownerPc>>

\* A write to the pipe: the pending ReadFile takes what it has room for.
Write(c, bytes) ==
  LET n == ReadSize(message[readMessage[c]])
      rest == Remainder(bytes, n)
  IN IF readIO[c] = "Pending"
     THEN /\ readIO' = [readIO EXCEPT ![c] = "Done"]
          /\ transferred' = [transferred EXCEPT ![c] = Transfer(bytes, n)]
          /\ pipe' = [pipe EXCEPT ![c] = IF rest = << >> THEN << >>
                                                         ELSE <<rest>>]
     ELSE /\ pipe' = [pipe EXCEPT ![c] = Append(@, bytes)]
          /\ UNCHANGED readVars

\* A client sends a message: in one write (client-new.ts), or its header first.
ClientSend(c, size) ==
  LET w == Len(sent[c]) + 1
      payload == Payload(c, w, size)
  IN /\ client[c] = "open"
     /\ unwritten[c] = << >>
     /\ w <= MaxSends
     /\ sent' = [sent EXCEPT ![c] = Append(@, [id |-> w, data |-> payload])]
     /\ \/ Write(c, Header(c, w) \o payload) /\ UNCHANGED unwritten
        \/ Write(c, Header(c, w)) /\ unwritten' = [unwritten EXCEPT ![c] = payload]
     /\ UNCHANGED <<client, connVars, poolVars, message, ioVars,
                    emitMessageQueue, emitVars, running, ownerPc>>

ClientSendRest(c) ==
  /\ client[c] = "open"
  /\ unwritten[c] # << >>
  /\ Write(c, unwritten[c])
  /\ unwritten' = [unwritten EXCEPT ![c] = << >>]
  /\ UNCHANGED <<client, sent, connVars, poolVars, message, ioVars,
                 emitMessageQueue, emitVars, running, ownerPc>>

\* A write of no bytes is a pipe message too.
ClientSendNothing(c) ==
  /\ "empty" \in Events
  /\ client[c] = "open"
  /\ pipe[c] = << >>            \* bound: one unread write of no bytes
  /\ Write(c, << >>)
  /\ UNCHANGED <<clientVars, connVars, poolVars, message, ioVars,
                 emitMessageQueue, emitVars, running, ownerPc>>

\* What the client wrote stays readable; a pending read fails.
ClientClose(c) ==
  /\ "close" \in Events
  /\ client[c] = "open"
  /\ client' = [client EXCEPT ![c] = "closed"]
  /\ unwritten' = [unwritten EXCEPT ![c] = << >>]
  /\ readIO' = [readIO EXCEPT ![c] = IF @ = "Pending" THEN "Broken" ELSE @]
  /\ UNCHANGED <<sent, pipe, transferred, connVars, poolVars, message, ioVars,
                 emitMessageQueue, emitVars, running, ownerPc>>

-----------------------------------------------------------------------------
\* The I/O thread, ioRunnable.

\* The thread leaves its loop.  Nobody is notified.
IoExits == running' = FALSE /\ ioPc' = "Exited"

IoStopped ==
  /\ ioPc = "Top" /\ ~running
  /\ IoExits
  /\ UNCHANGED <<clientVars, pipe, connVars, readVars, poolVars, message, cur,
                 ioMsg, ioFrom, emitMessageQueue, emitVars, ownerPc>>

\* createNewConnection up to the push_back.  A client can connect between
\* CreateNamedPipe and ConnectNamedPipe; connect() then only sets connected_.
IoCreate ==
  LET c == nconn + 1 IN
  /\ ioPc = "Top" /\ running
  /\ ShouldCreateConnection
  /\ \/ /\ client' = [client EXCEPT ![c] = "listening"]
        /\ connectIO' = [connectIO EXCEPT ![c] = "Pending"]
        /\ ioPc' = "Push"
        /\ UNCHANGED <<connected, running>>
     \/ /\ "early" \in Events /\ c <= MaxClients
        /\ client' = [client EXCEPT ![c] = "open"]
        /\ connected' = [connected EXCEPT ![c] = TRUE]
        /\ ioPc' = "Push"
        /\ UNCHANGED <<connectIO, running>>
     \/ /\ "fail" \in Events
        /\ IoExits
        /\ UNCHANGED <<client, connectIO, connected>>
  /\ UNCHANGED <<sent, unwritten, pipe, nconn, readVars, poolVars, message,
                 cur, ioMsg, ioFrom, emitMessageQueue, emitVars, ownerPc>>

\* connections_.push_back(connection), and on to the first connection.
IoPush ==
  /\ ioPc = "Push"
  /\ nconn' = nconn + 1
  /\ ioPc' = "Scan" /\ cur' = 1
  /\ UNCHANGED <<clientVars, pipe, connected, connectIO, readVars, poolVars,
                 message, ioMsg, ioFrom, emitMessageQueue, emitVars, running,
                 ownerPc>>

IoNoCreate ==
  /\ ioPc = "Top" /\ running
  /\ ~ShouldCreateConnection
  /\ ioPc' = "Scan" /\ cur' = 1
  /\ UNCHANGED <<clientVars, pipe, connVars, readVars, poolVars, message, ioMsg,
                 ioFrom, emitMessageQueue, emitVars, running, ownerPc>>

\* startRead has nothing to do: not connected, or a read is outstanding.
IoSkip ==
  /\ ioPc = "Scan" /\ cur <= nconn
  /\ ~connected[cur] \/ readIO[cur] # "Idle"
  /\ cur' = cur + 1
  /\ UNCHANGED <<clientVars, pipe, connVars, readVars, poolVars, message, ioPc,
                 ioMsg, ioFrom, emitMessageQueue, emitVars, running, ownerPc>>

StartsRead == /\ ioPc = "Scan" /\ cur <= nconn
              /\ connected[cur] /\ readIO[cur] = "Idle"

\* startRead takes the first message of a connection.
IoAcquire ==
  /\ StartsRead
  /\ readMessage[cur] = Null
  /\ Acquire(cur)
  /\ UNCHANGED <<clientVars, pipe, connVars, readVars, ioVars, emitMessageQueue,
                 emitVars, running, ownerPc>>

\* onRead reports an error: startRead passes it on and ends the server, the
\* loop ignores it.
Reject(from) == IF from = "Scan" THEN IoExits
                                 ELSE ioPc' = "Top" /\ UNCHANGED running

Accept(from) == ioPc' = from /\ UNCHANGED running

\* NamedPipeConnection::onRead for the bytes that were read into message o of
\* connection c, up to the call of emitMessage.
OnRead(c, o, bytes, from) ==
  LET m == message[o]
      full == AcceptBytes(m, bytes)
  IN \/ \* part of a header, or more than the storage takes
        /\ IF IsHeaderProcessed(m) THEN ~FitsInBuffer(m, Len(bytes))
                                   ELSE Len(bytes) # MessageHeaderSize
        /\ Reject(from)
        /\ UNCHANGED <<message, ioMsg, ioFrom>>
     \/ \* a header, valid or not
        /\ ~IsHeaderProcessed(m)
        /\ Len(bytes) = MessageHeaderSize
        /\ \E h \in HeaderIn(c, bytes) :
             /\ message' = [message EXCEPT ![o] = ProcessHeader(m, h)]
             /\ IF ValidHeader(h) THEN Accept(from) ELSE Reject(from)
        /\ UNCHANGED <<ioMsg, ioFrom>>
     \/ \* a packet, the last one or not
        /\ IsHeaderProcessed(m)
        /\ FitsInBuffer(m, Len(bytes))
        /\ message' = [message EXCEPT ![o] = full]
        /\ IF full.allDataRead
           THEN ioPc' = "Distribute" /\ ioMsg' = o /\ ioFrom' = from
           ELSE ioPc' = from /\ UNCHANGED <<ioMsg, ioFrom>>
        /\ UNCHANGED running

\* startRead's ReadFile.
IoStartRead ==
  LET o == readMessage[cur]
      n == ReadSize(message[o])
      frame == Head(pipe[cur])
  IN /\ StartsRead
     /\ o # Null
     /\ \/ \* nothing to read yet: ERROR_IO_PENDING
           /\ pipe[cur] = << >> /\ client[cur] # "closed"
           /\ readIO' = [readIO EXCEPT ![cur] = "Pending"]
           /\ cur' = cur + 1
           /\ UNCHANGED <<pipe, transferred, message, ioPc, ioMsg, ioFrom, running>>
        \/ \* the client is gone, or it wrote no bytes: the server ends
           /\ IF pipe[cur] = << >> THEN client[cur] = "closed" /\ UNCHANGED pipe
              ELSE frame = << >> /\ pipe' = [pipe EXCEPT ![cur] = Tail(@)]
           /\ IoExits
           /\ UNCHANGED <<readVars, message, cur, ioMsg, ioFrom>>
        \/ \* the pipe message is longer: ERROR_MORE_DATA, the event is set
           /\ pipe[cur] # << >> /\ Len(frame) > n
           /\ pipe' = [pipe EXCEPT ![cur] = <<Remainder(frame, n)>> \o Tail(@)]
           /\ readIO' = [readIO EXCEPT ![cur] = "Done"]
           /\ transferred' = [transferred EXCEPT ![cur] = Transfer(frame, n)]
           /\ cur' = cur + 1
           /\ UNCHANGED <<message, ioPc, ioMsg, ioFrom, running>>
        \/ \* the rest of a pipe message at once: onRead, then startRead again
           /\ pipe[cur] # << >> /\ frame # << >> /\ Len(frame) <= n
           /\ pipe' = [pipe EXCEPT ![cur] = Tail(@)]
           /\ OnRead(cur, o, frame, "Scan")
           /\ UNCHANGED <<readVars, cur>>
     /\ UNCHANGED <<clientVars, connVars, poolVars, emitMessageQueue, emitVars,
                    ownerPc>>

\* push_front for push_back.
WrongEnqueue(o) == emitMessageQueue' = <<o>> \o emitMessageQueue

\* emitMessageQueue_.push_back
Enqueue(o) == emitMessageQueue' = Append(emitMessageQueue, o)

\* emitMessage, which needs emitMutex_.  Only a thread that sleeps on
\* emitCondition_ hears the notify_one.
IoDistribute ==
  /\ ioPc = "Distribute"
  /\ emitPc # "Block"
  /\ Enqueue(ioMsg)
  /\ emitPc' = IF emitPc = "Asleep" THEN "Test" ELSE emitPc
  /\ ioPc' = "Swap"
  /\ UNCHANGED <<clientVars, pipe, connVars, readVars, poolVars, message, cur,
                 ioMsg, ioFrom, emitMsg, delivered, running, ownerPc>>

\* onRead goes on with the message it has distributed.
WrongIoSwap ==
  /\ ioPc = "Swap"
  /\ ioPc' = "Release"
  /\ UNCHANGED <<clientVars, pipe, connVars, readVars, poolVars, message, cur,
                 ioMsg, ioFrom, emitMessageQueue, emitVars, running, ownerPc>>

\* onRead replaces readMessage_; its local msg still holds the old one.
IoSwap ==
  /\ ioPc = "Swap"
  /\ Acquire(cur)
  /\ ioPc' = "Release"
  /\ UNCHANGED <<clientVars, pipe, connVars, readVars, cur, ioMsg, ioFrom,
                 emitMessageQueue, emitVars, running, ownerPc>>

\* onRead returns and drops msg.
IoRelease ==
  /\ ioPc = "Release"
  /\ IF ioMsg \in Queued \/ ioMsg = emitMsg THEN UNCHANGED messagePool
                                            ELSE ReturnToPool(ioMsg)
  /\ ioMsg' = Null
  /\ ioPc' = ioFrom
  /\ UNCHANGED <<clientVars, pipe, connVars, readVars, readMessage, allocated,
                 message, cur, ioFrom, emitMessageQueue, emitVars, running,
                 ownerPc>>

\* The last connection is left out.
WrongIoScanned ==
  /\ ioPc = "Scan" /\ cur >= nconn
  /\ ioPc' = "Wait"
  /\ UNCHANGED <<clientVars, pipe, connVars, readVars, poolVars, message, cur,
                 ioMsg, ioFrom, emitMessageQueue, emitVars, running, ownerPc>>

\* All connections are served: on to WaitForMultipleObjects.
IoScanned ==
  /\ ioPc = "Scan" /\ cur > nconn
  /\ ioPc' = "Wait"
  /\ UNCHANGED <<clientVars, pipe, connVars, readVars, poolVars, message, cur,
                 ioMsg, ioFrom, emitMessageQueue, emitVars, running, ownerPc>>

CanWait == PendingEvents \in 1..MaximumWaitObjects

\* WAIT_FAILED: no handle to wait for, or too many of them.
IoWaitFails ==
  /\ ioPc = "Wait" /\ ~CanWait
  /\ IoExits
  /\ UNCHANGED <<clientVars, pipe, connVars, readVars, poolVars, message, cur,
                 ioMsg, ioFrom, emitMessageQueue, emitVars, ownerPc>>

\* The loop goes on behind the creation of the next instance.
WrongIoConnectEvent(c) ==
  /\ ioPc = "Wait" /\ CanWait /\ Chosen(c)
  /\ connectIO[c] = "Done"
  /\ connectIO' = [connectIO EXCEPT ![c] = "Idle"]
  /\ connected' = [connected EXCEPT ![c] = TRUE]
  /\ ioPc' = "Scan" /\ cur' = 1
  /\ UNCHANGED <<clientVars, pipe, nconn, readVars, poolVars, message,
                 ioMsg, ioFrom, emitMessageQueue, emitVars, running, ownerPc>>

\* Role::Connect
IoConnectEvent(c) ==
  /\ ioPc = "Wait" /\ CanWait /\ Chosen(c)
  /\ connectIO[c] = "Done"
  /\ connectIO' = [connectIO EXCEPT ![c] = "Idle"]
  /\ connected' = [connected EXCEPT ![c] = TRUE]
  /\ ioPc' = "Top"
  /\ UNCHANGED <<clientVars, pipe, nconn, readVars, poolVars, message, cur,
                 ioMsg, ioFrom, emitMessageQueue, emitVars, running, ownerPc>>

\* Role::Read
IoReadEvent(c) ==
  /\ ioPc = "Wait" /\ CanWait /\ Chosen(c)
  /\ readIO[c] = "Done"
  /\ readIO' = [readIO EXCEPT ![c] = "Idle"]
  /\ cur' = c
  /\ OnRead(c, readMessage[c], transferred[c], "Top")
  /\ UNCHANGED <<clientVars, pipe, connVars, transferred, poolVars,
                 emitMessageQueue, emitVars, ownerPc>>

\* GetOverlappedResult reports ERROR_BROKEN_PIPE: the server ends.
IoBrokenEvent(c) ==
  /\ ioPc = "Wait" /\ CanWait /\ Chosen(c)
  /\ readIO[c] = "Broken"
  /\ IoExits
  /\ UNCHANGED <<clientVars, pipe, connVars, readVars, poolVars, message, cur,
                 ioMsg, ioFrom, emitMessageQueue, emitVars, ownerPc>>

IoNext ==
  \/ IoStopped \/ IoCreate \/ IoPush \/ IoNoCreate
  \/ IoSkip \/ IoAcquire \/ IoStartRead
  \/ IoDistribute \/ IoSwap \/ IoRelease
  \/ IoScanned \/ IoWaitFails
  \/ \E c \in Conn : IoConnectEvent(c) \/ IoReadEvent(c) \/ IoBrokenEvent(c)

-----------------------------------------------------------------------------
\* The emit thread, emitRunnable.

\* Every instance is gone, with what was in its pipe.
ClosePipes ==
  /\ client' = [c \in Conn |-> IF client[c] = "none" THEN "none" ELSE "closed"]
  /\ unwritten' = [c \in Conn |-> << >>]
  /\ pipe' = [c \in Conn |-> << >>]
  /\ connectIO' = [c \in Conn |-> "Idle"]
  /\ readIO' = [c \in Conn |-> "Idle"]
  /\ transferred' = [c \in Conn |-> << >>]

ioOwned == <<clientVars, pipe, connVars, readVars, message, ioVars>>

EmitTop ==
  /\ emitPc = "Top"
  /\ IF running THEN emitPc' = "Test" /\ UNCHANGED running
                ELSE emitPc' = "Exited" /\ running' = FALSE
  /\ UNCHANGED <<ioOwned, poolVars, emitMessageQueue, emitMsg, delivered, ownerPc>>

\* nextEmitMessage: the predicate of the wait, and what follows it.
EmitTest ==
  /\ emitPc = "Test"
  /\ \/ /\ ~running
        /\ emitPc' = "Top"
        /\ UNCHANGED <<emitMessageQueue, emitMsg>>
     \/ /\ running /\ emitMessageQueue = << >>
        /\ emitPc' = "Block"
        /\ UNCHANGED <<emitMessageQueue, emitMsg>>
     \/ /\ running /\ emitMessageQueue # << >>
        /\ emitMsg' = Head(emitMessageQueue)
        /\ emitMessageQueue' = Tail(emitMessageQueue)
        /\ emitPc' = "Lookup"
  /\ UNCHANGED <<ioOwned, poolVars, running, delivered, ownerPc>>

\* The wait gives emitMutex_ up and sleeps.
EmitSleep ==
  /\ emitPc = "Block"
  /\ emitPc' = "Asleep"
  /\ UNCHANGED <<ioOwned, poolVars, emitMessageQueue, emitMsg, running,
                 delivered, ownerPc>>

EmitSpuriousWake ==
  /\ emitPc = "Asleep"
  /\ emitPc' = "Test"
  /\ UNCHANGED <<ioOwned, poolVars, emitMessageQueue, emitMsg, running,
                 delivered, ownerPc>>

\* The emit thread gives the object back although onRead still refers to it.
WrongEmitRelease == ReturnToPool(emitMsg) /\ emitMsg' = Null

\* msg goes out of scope at the end of the loop's body.
EmitRelease ==
  /\ IF ioMsg = emitMsg THEN UNCHANGED messagePool ELSE ReturnToPool(emitMsg)
  /\ emitMsg' = Null

\* getConnection reads connections_ without a lock.  It finds the connection,
\* unless the I/O thread is in push_back: then the outcome is undefined.
EmitLookup ==
  /\ emitPc = "Lookup"
  /\ emitPc' = "Handle"
  /\ UNCHANGED <<ioOwned, poolVars, emitMessageQueue, emitMsg, running,
                 delivered, ownerPc>>

LookupRaces == emitPc = "Lookup" /\ ioPc = "Push"

\* It misses the connection, and the message is dropped.
EmitLookupMisses ==
  /\ LookupRaces
  /\ EmitRelease
  /\ emitPc' = "Top"
  /\ UNCHANGED <<ioOwned, readMessage, allocated, emitMessageQueue, running,
                 delivered, ownerPc>>

\* The process crashes; the operating system closes its pipes.
EmitLookupCrashes ==
  /\ LookupRaces
  /\ emitPc' = "Crashed" /\ ioPc' = "Crashed" /\ ownerPc' = "Crashed"
  /\ ClosePipes
  /\ UNCHANGED <<sent, nconn, connected, poolVars, message, cur, ioMsg, ioFrom,
                 emitMessageQueue, emitMsg, running, delivered>>

\* The message handler.
EmitHandle ==
  LET m == message[emitMsg] IN
  /\ emitPc = "Handle"
  /\ Len(delivered[m.connectionId]) < MaxDeliveries
  /\ delivered' = [delivered EXCEPT ![m.connectionId] = Append(@, HandedOver(m))]
  /\ EmitRelease
  /\ emitPc' = "Top"
  /\ UNCHANGED <<ioOwned, readMessage, allocated, emitMessageQueue, running,
                 ownerPc>>

EmitNext == \/ EmitTop \/ EmitTest \/ EmitSleep \/ EmitHandle
            \/ EmitLookup \/ EmitLookupMisses \/ EmitLookupCrashes

-----------------------------------------------------------------------------
\* The owner destroys the server.

\* stop() up to the joins.  notify_all does not take emitMutex_.
OwnerStop ==
  /\ "stop" \in Events
  /\ ownerPc = "Using"
  /\ running' = FALSE
  /\ emitPc' = IF emitPc = "Asleep" THEN "Test" ELSE emitPc
  /\ ownerPc' = "Joining"
  /\ UNCHANGED <<ioOwned, poolVars, emitMessageQueue, emitMsg, delivered>>

OwnerJoin ==
  /\ ownerPc = "Joining"
  /\ ioPc = "Exited" /\ emitPc = "Exited"
  /\ ownerPc' = "Joined"
  /\ UNCHANGED <<ioOwned, poolVars, emitMessageQueue, emitVars, running>>

\* The members are destroyed from the last to the first: connections_, with
\* their pipes, their messages and their pools, ...
DestroyConnections ==
  /\ ownerPc = "Joined"
  /\ ownerPc' = "Unpooled"
  /\ ClosePipes
  /\ nconn' = 0
  /\ readMessage' = [c \in Conn |-> Null]
  /\ messagePool' = [c \in Conn |-> << >>]
  /\ UNCHANGED <<sent, connected, message, allocated, ioVars, emitMessageQueue,
                 emitVars, running>>

\* ... and emitMessageQueue_ after them.  The Deleter of each message in it
\* puts it into the pool of its connection, which is gone: it may get away
\* with the memory it writes to ...
DestroyQueue ==
  /\ ownerPc = "Unpooled"
  /\ ownerPc' = "Destroyed"
  /\ emitMessageQueue' = << >>
  /\ UNCHANGED <<ioOwned, poolVars, emitVars, running>>

\* ... or not.
DestroyQueueCrashes ==
  /\ ownerPc = "Unpooled"
  /\ emitMessageQueue # << >>
  /\ ownerPc' = "Crashed" /\ ioPc' = "Crashed" /\ emitPc' = "Crashed"
  /\ UNCHANGED <<clientVars, pipe, connVars, readVars, poolVars, message, cur,
                 ioMsg, ioFrom, emitMessageQueue, emitMsg, delivered, running>>

OwnerDestroys == OwnerJoin \/ DestroyConnections \/ DestroyQueue
                 \/ DestroyQueueCrashes

ClientNext ==
  \E c \in Conn : \/ ClientConnect(c) \/ ClientSendRest(c)
                  \/ ClientSendNothing(c) \/ ClientClose(c)
                  \/ \E size \in Sizes : ClientSend(c, size)

-----------------------------------------------------------------------------
Next == \/ ClientNext \/ IoNext \/ EmitNext \/ EmitSpuriousWake
        \/ OwnerStop \/ OwnerDestroys

Spec == Init /\ [][Next]_vars

\* The scheduler runs every thread, a thread that asks for emitMutex_ again
\* and again while it is free gets it, and a client finishes a message it began.
Fairness == /\ WF_vars(IoNext) /\ SF_vars(IoDistribute)
            /\ WF_vars(EmitNext)
            /\ WF_vars(OwnerDestroys)
            /\ \A c \in Conn : WF_vars(ClientSendRest(c))

FairSpec == Spec /\ Fairness

-----------------------------------------------------------------------------
\* The messages the clients send.
SentMessages == {m \in [id : Nat, data : Seq(Byte)] : Len(m.data) \in Sizes}

ClientTypes ==
  /\ client \in [Conn -> {"none", "listening", "open", "closed"}]
  /\ sent \in [Conn -> Seq(SentMessages)]
  /\ unwritten \in [Conn -> Seq(Byte)]

PipeTypes == pipe \in [Conn -> Seq(Seq(Byte))]

ConnTypes ==
  /\ nconn \in 0..(MaxClients + 1)
  /\ connected \in [Conn -> BOOLEAN]
  /\ connectIO \in [Conn -> {"Idle", "Pending", "Done"}]

ReadTypes ==
  /\ readIO \in [Conn -> {"Idle", "Pending", "Done", "Broken"}]
  /\ transferred \in [Conn -> Seq(Byte)]

PoolTypes ==
  /\ readMessage \in [Conn -> Obj \cup {Null}]
  /\ messagePool \in [Conn -> Seq(Obj)]
  /\ allocated \in 0..MaxObjects

StoreTypes == message \in [Obj -> Messages]

IoTypes ==
  /\ ioPc \in {"Top", "Push", "Scan", "Distribute", "Swap", "Release",
               "Wait", "Exited", "Crashed"}
  /\ cur \in 0..(MaxClients + 2)
  /\ ioMsg \in Obj \cup {Null}
  /\ ioFrom \in {"Scan", "Top"}

QueueTypes == emitMessageQueue \in Seq(Obj)

EmitTypes ==
  /\ emitPc \in {"Top", "Test", "Block", "Asleep", "Lookup", "Handle",
                 "Exited", "Crashed"}
  /\ emitMsg \in Obj \cup {Null}
  /\ delivered \in [Conn -> Seq([id : Nat, data : Seq(Byte)])]

ServerTypes ==
  /\ running \in BOOLEAN
  /\ ownerPc \in {"Using", "Joining", "Joined", "Unpooled", "Destroyed",
                  "Crashed"}

TypeOK == /\ ClientTypes /\ PipeTypes /\ ConnTypes /\ ReadTypes /\ PoolTypes
          /\ StoreTypes /\ IoTypes /\ QueueTypes /\ EmitTypes /\ ServerTypes

-----------------------------------------------------------------------------
\* Who holds the Message objects.

Pooled(c) == Range(messagePool[c])

\* An object that the kernel may write to, or has written to, for a ReadFile
\* that is outstanding on connection c.
KernelOwns(c) == readIO[c] \in {"Pending", "Done"}

\* Between emitMessage and the end of onRead.
Distributing == ioPc \in {"Distribute", "Swap", "Release"}

PoolsApart ==
  \A c \in Conn : /\ IsInjective(messagePool[c])
                  /\ \A d \in Conn : \A o \in Pooled(c) \cap Pooled(d) : c = d

\* Nobody refers to an object in a pool, and no object is used before it is
\* allocated.
PooledUnused ==
  \A c \in Conn : \A o \in Pooled(c) :
    /\ o <= allocated
    /\ o \notin Queued /\ o # emitMsg /\ o # ioMsg
    /\ \A d \in Conn : readMessage[d] # o

UsedAllocated ==
  /\ emitMsg <= allocated /\ \A o \in Queued : o <= allocated
  /\ \A c \in Conn : readMessage[c] <= allocated

\* A message is distributed once.
QueueApart == IsInjective(emitMessageQueue) /\ emitMsg \notin Queued

\* The connections read into messages of their own, which are not distributed
\* except while onRead is about to replace one.
ReadApart ==
  \A c \in Conn : LET o == readMessage[c] IN o # Null =>
    /\ \A d \in Conn : readMessage[d] = o => d = c
    /\ o \in Queued \/ o = emitMsg => ioPc = "Swap" /\ c = cur

\* What onRead's msg refers to.
IoMsgHeld ==
  /\ ioMsg # Null <=> Distributing
  /\ Distributing => cur \in Conn /\ readIO[cur] = "Idle"
  /\ ioPc \in {"Distribute", "Swap"} => readMessage[cur] = ioMsg
  /\ ioPc = "Release" => ioMsg <= allocated /\ \A c \in Conn : readMessage[c] # ioMsg

EmitMsgHeld == emitPc \in {"Lookup", "Handle"} => emitMsg # Null

ReadHasMessage == \A c \in Conn : KernelOwns(c) => readMessage[c] # Null

\* The last instance has no client, so there is never another one after it.
LastIdle ==
  /\ \A c \in Conn : connected[c] \/ connectIO[c] = "Done" => c <= MaxClients
  /\ ioPc = "Push" => nconn <= MaxClients
  /\ ioPc = "Scan" => cur >= 1

OwnerAlone ==
  ownerPc \in {"Joined", "Unpooled", "Destroyed"} =>
    ioPc = "Exited" /\ emitPc = "Exited"

\* At any time each Message object has one owner, the pool, the queue, the
\* handler or a connection, although its shared_ptr has up to three copies.
Ownership ==
  /\ PoolsApart /\ PooledUnused /\ UsedAllocated /\ QueueApart /\ ReadApart
  /\ IoMsgHeld /\ EmitMsgHeld /\ ReadHasMessage /\ LastIdle /\ OwnerAlone

\* What is known of a Message: data is what is below the write position, and
\* allDataRead says that the whole payload was read.
Sound(m) ==
  /\ m.buffer.read = 0
  /\ m.buffer.write = Len(m.data) /\ m.buffer.write <= m.buffer.size
  /\ m.headerProcessed => ValidHeader(m.header)
  /\ m.allDataRead => m.headerProcessed /\ m.header.size <= Len(m.data)

Given(o) == o \in Queued \/ o = emitMsg \/ o = ioMsg

\* Only messages that are read completely leave their connection.
Whole == \A o \in Obj : /\ Sound(message[o])
                        /\ Given(o) => message[o].allDataRead

\* The handler is given no more bytes than were read for the message, although
\* its size is what the client's header claims.
HandedOverWhole ==
  \A o \in Obj : o \in Queued \/ o = emitMsg =>
    message[o].header.size <= Len(message[o].data)

\* While a read of a connection is outstanding the kernel writes into its
\* readMessage_: no pool, no queue, no handler and no other connection holds
\* that object (startRead and onRead give it away only between two reads).
NoReadIntoShared ==
  \A c \in Conn : KernelOwns(c) =>
    LET o == readMessage[c] IN
    /\ o # Null
    /\ o # emitMsg /\ o \notin Queued
    /\ \A d \in Conn : o \notin Pooled(d) /\ (readMessage[d] = o => d = c)

\* A message that waits for the handler, or that the handler works on, is not
\* changed by the I/O thread meanwhile, although onRead still refers to it
\* after emitMessage.
DistributedStable ==
  [][\A o \in Obj : /\ o \in Queued \/ o = emitMsg
                    /\ o \in Queued' \/ o = emitMsg'
                    => message'[o] = message[o]]_vars

\* A payload read never brings more than the storage of the message has room
\* for, so Message::onRead's size check never fails.
ReadFitsBuffer ==
  \A c \in Conn : readIO[c] = "Done" =>
    LET m == message[readMessage[c]] IN
    IsHeaderProcessed(m) => Len(transferred[c]) <= AvailableToWrite(m.buffer)

\* The I/O thread never falls asleep on something it has to do: whatever a
\* client has done to a connection of the wait set has signalled its handle.
NoDeafWait ==
  ioPc = "Wait" =>
    \A c \in 1..nconn : pipe[c] # << >> \/ client[c] = "closed" => Signaled(c)

\* The instances that wait for a client: at most one, and together with the
\* served ones no more than maxConnections.
AcceptsWithinLimit ==
  LET Created == {c \in Conn : client[c] # "none"} IN
  /\ Cardinality({c \in Conn : client[c] = "listening"}) <= 1
  /\ MaxConnections # 0 => Cardinality(Created) <= MaxConnections

\* What the handler got of a client is what that client sent, nothing twice
\* and in the order it was sent, even if a lookup went wrong.
DeliveredIntact ==
  \A c \in Conn : \A i \in 1..Len(delivered[c]) :
    /\ delivered[c][i] \in Range(sent[c])
    /\ \A j \in 1..(i - 1) : delivered[c][j].id < delivered[c][i].id

\* MessageHeader::id is unique: the handler is not given an id of one client
\* twice while that client sends each id once.
IdsAreUnique ==
  \A c \in Conn : \A i, j \in 1..Len(delivered[c]) :
    i # j => delivered[c][i].id # delivered[c][j].id

\* Every instance has a client, and maxConnections allows another one.
AllTaken(k) ==
  /\ nconn = k /\ \A c \in 1..k : client[c] \in {"open", "closed"}
  /\ MaxConnections = 0 \/ k < MaxConnections

\* The server "Creates new connections when requested" (NamedPipeServer.cpp:597):
\* when every instance has a client, the next event of any of them makes it
\* create another one, although a client that connects early causes no event of
\* its own and the server goes to sleep without an instance to connect to.
CreatesWithEvent ==
  \A k \in Conn :
    (ioPc = "Wait" /\ AllTaken(k) /\ \E c \in 1..nconn : Signaled(c))
      ~> (nconn > k \/ ioPc \in {"Exited", "Crashed"})

-----------------------------------------------------------------------------
\* The server delivers messages as MessageDelivery promises.
MessagesOf(c) ==
  {[id |-> w, data |-> Payload(c, w, n)] : w \in 1..MaxSends, n \in Sizes}

Delivery == INSTANCE MessageDelivery WITH
              Client <- Conn,
              Content <- MessagesOf

DeliveryRefined == Delivery!Spec

DeliveryFair == Delivery!Fairness

=============================================================================
