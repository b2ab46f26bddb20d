------------------------------ MODULE GrpcStream ------------------------------
(***************************************************************************)
(* The bidirectional stream StreamData: the service and RunServer of         *)
(* src/src/grpc/grpc_server.cpp with one client, which is either             *)
(* src/src/grpc/grpc_client.cpp (a thread that writes and one that reads) or *)
(* src/client-grpc.js (events).  gRPC is external: a queue in each direction *)
(* that holds Capacity messages, a half-close, a final status, a call that   *)
(* may break at any time.  A message is its number.                          *)
(* A definition named Wrong... is the one after it with a mistake; it is     *)
(* used by no other definition.                                              *)
(***************************************************************************)
EXTENDS Integers, Sequences

CONSTANTS
  Capacity,      \* messages a direction of the stream holds
  MaxRequests    \* bound: requests a client makes

ASSUME StreamAssumption == Capacity \in Nat \ {0} /\ MaxRequests \in Nat

VARIABLES
  kind,          \* which client it is: "cpp" or "node"
  running,       \* running of the client
  writer,        \* where the client's main thread, or its timer, is
  reader,        \* where its reader thread, or its data event, is
  asked,         \* its counter
  got,           \* responses it has read
  halfClosed,    \* WritesDone, or end()
  signalled,     \* client-grpc.js: the timer of process.exit is set
  server,        \* where RunServer is
  opened,        \* a client has opened the pipe of RunServer
  handler,       \* where the service's StreamData is
  answered,      \* its counter
  answer,        \* its response
  call,          \* the call as gRPC knows it
  status,        \* what the service returned
  requests, responses     \* on their way

clientVars == <<kind, running, writer, reader, asked, got, halfClosed, signalled>>
serverVars == <<server, opened, handler, answered, answer, status>>
streamVars == <<call, requests, responses>>
vars == <<clientVars, serverVars, streamVars>>

NoAnswer == [counter |-> 0, message |-> 0]

Init ==
  /\ kind \in {"cpp", "node"}
  /\ running = TRUE /\ halfClosed = FALSE /\ signalled = FALSE
  /\ writer = "Start" /\ reader = "none"
  /\ asked = 0 /\ got = << >>
  /\ server = "Create" /\ opened = FALSE
  /\ handler = "none" /\ answered = 0 /\ answer = NoAnswer
  /\ call = "none" /\ status = "none"
  /\ requests = << >> /\ responses = << >>

-----------------------------------------------------------------------------
\* RunServer: the gRPC server is built when a client has opened the pipe.  If
\* BuildAndStart gives none, server->Wait() ends the process; else Wait never
\* returns.  A client that was there before ConnectNamedPipe makes it fail again
\* and again, which changes nothing.

RunServer ==
  /\ \/ server = "Create" /\ server' \in {"Connect", "Failed"}
     \/ server = "Connect" /\ ~opened /\ server' = "Blocked"
     \/ server = "Blocked" /\ opened /\ server' \in {"Serving", "Crashed"}
  /\ UNCHANGED <<clientVars, opened, handler, answered, answer, status, streamVars>>

Listening == server \in {"Connect", "Blocked"} /\ ~opened

\* The service's StreamData.

InService == UNCHANGED <<clientVars, server, opened, call>>

HandlerStarts ==
  /\ handler = "none" /\ server = "Serving" /\ call = "open"
  /\ handler' = "Read"
  /\ UNCHANGED <<answered, answer, status, requests, responses>> /\ InService

\* The counter is taken before it is incremented.
WrongHandlerReads ==
  /\ handler = "Read" /\ call = "open" /\ requests # << >>
  /\ requests' = Tail(requests)
  /\ answered' = answered + 1
  /\ answer' = [counter |-> answered, message |-> Head(requests)]
  /\ handler' = "Write"
  /\ UNCHANGED <<status, responses>> /\ InService

\* Read, and the response to it.
HandlerReads ==
  /\ handler = "Read" /\ call = "open" /\ requests # << >>
  /\ requests' = Tail(requests)
  /\ answered' = answered + 1
  /\ answer' = [counter |-> answered + 1, message |-> Head(requests)]
  /\ handler' = "Write"
  /\ UNCHANGED <<status, responses>> /\ InService

Returns(s) ==
  /\ handler' = "Returned" /\ status' = s
  /\ UNCHANGED <<answered, answer, requests, responses>> /\ InService

\* Read is false after the last request, or when the call is no more.  Nothing
\* clears running in the server: main does not install handleSignal.
HandlerReadFails ==
  /\ handler = "Read"
  /\ call # "open" \/ (requests = << >> /\ halfClosed)
  /\ Returns("ok")

\* The service answers one request and returns.
WrongHandlerWrites ==
  /\ handler = "Write" /\ call = "open" /\ Len(responses) < Capacity
  /\ responses' = Append(responses, answer)
  /\ handler' = "Returned" /\ status' = "ok"
  /\ UNCHANGED <<answered, answer, requests>> /\ InService

\* Write waits while the client's side is full.
HandlerWrites ==
  /\ handler = "Write" /\ call = "open" /\ Len(responses) < Capacity
  /\ responses' = Append(responses, answer)
  /\ handler' = "Read"
  /\ UNCHANGED <<answered, answer, status, requests>> /\ InService

HandlerWriteFails == handler = "Write" /\ call # "open" /\ Returns("error")

ServiceNext == \/ HandlerStarts \/ HandlerReads \/ HandlerReadFails
               \/ HandlerWrites \/ HandlerWriteFails

-----------------------------------------------------------------------------
\* The call.

\* Nothing more can be written, or will be read.
Finished == call # "open" \/ status # "none"
AllRead == call = "broken" \/ (responses = << >> /\ status # "none")

Breaks == /\ ~Finished /\ call' = "broken"
          /\ UNCHANGED <<clientVars, serverVars, requests, responses>>

\* gRPC gives up a call that no server takes.
NoService == handler = "none" /\ Breaks

-----------------------------------------------------------------------------
\* grpc_client.cpp.

InCpp == kind = "cpp" /\ UNCHANGED <<kind, signalled, server, handler, answered, answer, status>>
InWriter == InCpp /\ UNCHANGED <<running, reader, got, opened, responses>>
InReader == InCpp /\ UNCHANGED <<running, writer, asked, halfClosed, opened, call, requests>>

\* The constructor opens the pipe, StreamData starts the call and its reader.
CppConnects ==
  /\ writer = "Start" /\ Listening
  /\ opened' = TRUE /\ call' = "open"
  /\ writer' = "Check" /\ reader' = "Check"
  /\ UNCHANGED <<running, asked, got, halfClosed, requests, responses>> /\ InCpp

\* There is no pipe: the constructor throws, main returns 1.
CppThrows ==
  /\ writer = "Start" /\ ~Listening
  /\ writer' = "Done"
  /\ UNCHANGED <<asked, halfClosed, call, requests>> /\ InWriter

\* The server is not told that no more requests come.
WrongWritesDone == writer' = "Join" /\ halfClosed' = FALSE

WritesDone == writer' = "Join" /\ halfClosed' = TRUE

\* while (running) and ++counter.
WriterCheck ==
  /\ writer = "Check"
  /\ IF running
     THEN /\ asked < MaxRequests \/ Finished
          /\ asked' = asked + 1 /\ writer' = "Write" /\ UNCHANGED halfClosed
     ELSE WritesDone /\ UNCHANGED asked
  /\ UNCHANGED <<call, requests>> /\ InWriter

\* Write waits while the server's side is full.
WriterWrites ==
  /\ writer = "Write" /\ call = "open" /\ Len(requests) < Capacity
  /\ requests' = Append(requests, asked)
  /\ writer' = "Check"
  /\ UNCHANGED <<asked, halfClosed, call>> /\ InWriter

\* The same request is tried again.
WrongWriterFails ==
  /\ writer = "Write" /\ Finished
  /\ UNCHANGED <<writer, halfClosed, asked, call, requests>> /\ InWriter

\* Write returns false: break.
WriterFails ==
  /\ writer = "Write" /\ Finished
  /\ WritesDone
  /\ UNCHANGED <<asked, call, requests>> /\ InWriter

\* The reader's while (running && Read).
ReaderCheck ==
  /\ reader = "Check"
  /\ reader' = IF running THEN "Read" ELSE "Ended"
  /\ UNCHANGED <<got, responses>> /\ InReader

Receives == /\ reader = "Read" /\ responses # << >>
            /\ got' = Append(got, Head(responses))
            /\ responses' = Tail(responses)

ReaderReads == Receives /\ reader' = "Check" /\ InReader

ReaderFails ==
  /\ reader = "Read" /\ AllRead
  /\ reader' = "Ended"
  /\ UNCHANGED <<got, responses>> /\ InReader

\* The context outlives the call, which is not cancelled.
WrongCppReturns ==
  /\ writer = "Join" /\ reader = "Ended"
  /\ writer' = "Done"
  /\ UNCHANGED <<asked, halfClosed, call, requests>> /\ InWriter

\* The reader is joined; the ClientContext is destroyed, which cancels a call
\* that has not ended.
CppReturns ==
  /\ writer = "Join" /\ reader = "Ended"
  /\ writer' = "Done"
  /\ call' = IF Finished THEN call ELSE "cancelled"
  /\ UNCHANGED <<asked, halfClosed, requests>> /\ InWriter

\* handleSignal
CppSigint ==
  /\ kind = "cpp" /\ running /\ writer # "Done"
  /\ running' = FALSE
  /\ UNCHANGED <<kind, writer, reader, asked, got, halfClosed, signalled, serverVars,
                 streamVars>>

CppNext == \/ CppConnects \/ CppThrows \/ CppReturns
           \/ WriterCheck \/ WriterWrites \/ WriterFails

CppReader == ReaderCheck \/ ReaderReads \/ ReaderFails

-----------------------------------------------------------------------------
\* client-grpc.js: its handlers do not interrupt each other.

InNode == kind = "node" /\ UNCHANGED <<kind, server, handler, answered, answer, status>>
InTimer == InNode /\ UNCHANGED <<running, got, halfClosed, signalled, opened, responses>>
InEvent == InNode /\ UNCHANGED <<writer, asked, opened, call, requests>>

NodeStarts ==
  /\ writer = "Start"
  /\ call' = "open"
  /\ writer' = "Timer" /\ reader' = "Read"
  /\ UNCHANGED <<asked, requests>> /\ InTimer

\* Its channel opens the pipe.
NodeChannelOpens ==
  /\ kind = "node" /\ call = "open" /\ Listening
  /\ opened' = TRUE
  /\ UNCHANGED <<clientVars, server, handler, answered, answer, status, streamVars>>

\* sendNextMessage: write does not wait, and does not reach a call that is over.
NodeSends ==
  /\ writer = "Timer" /\ running
  /\ asked < MaxRequests
  /\ asked' = asked + 1
  /\ requests' = IF call = "open" THEN Append(requests, asked + 1) ELSE requests
  /\ UNCHANGED <<writer, reader, call>> /\ InTimer

\* if (!this.running) return: no further timer.
NodeStops ==
  /\ writer = "Timer" /\ ~running
  /\ writer' = "Idle"
  /\ UNCHANGED <<reader, asked, call, requests>> /\ InTimer

NodeData ==
  Receives /\ UNCHANGED <<reader, running, halfClosed, signalled>> /\ InEvent

\* The events end and error.
NodeEnd ==
  /\ reader = "Read" /\ AllRead
  /\ reader' = "Ended" /\ running' = FALSE
  /\ UNCHANGED <<got, halfClosed, signalled, responses>> /\ InEvent

\* SIGINT: stop(), and a timer that ends the process.
NodeSigint ==
  /\ writer \in {"Timer", "Idle"} /\ ~signalled
  /\ signalled' = TRUE
  /\ running' = FALSE /\ halfClosed' = TRUE
  /\ UNCHANGED <<reader, got, responses>> /\ InEvent

NodeExits ==
  /\ signalled /\ writer # "Done"
  /\ writer' = "Done" /\ reader' = "Ended"
  /\ call' = IF Finished THEN call ELSE "broken"
  /\ UNCHANGED <<asked, requests>> /\ InTimer

NodeNext == NodeStarts \/ NodeChannelOpens \/ NodeSends \/ NodeStops \/ NodeExits

NodeReader == NodeData \/ NodeEnd

-----------------------------------------------------------------------------
Next == \/ RunServer \/ ServiceNext \/ Breaks
        \/ CppNext \/ CppReader \/ CppSigint
        \/ NodeNext \/ NodeReader \/ NodeSigint

Spec == Init /\ [][Next]_vars

\* Every thread, timer and event gets its turn, and gRPC does not keep a call
\* that no server takes.  Calls need not break and no signal has to come.
FairSpec ==
  /\ Spec
  /\ WF_vars(RunServer) /\ WF_vars(ServiceNext) /\ WF_vars(NoService)
  /\ WF_vars(CppNext) /\ WF_vars(CppReader)
  /\ WF_vars(NodeNext) /\ WF_vars(NodeReader)

-----------------------------------------------------------------------------
\* Properties.

Places == {"Start", "Check", "Write", "Join", "Timer", "Idle", "Done"}
Answers == [counter : 1..(MaxRequests + 1), message : 1..(MaxRequests + 1)]

\* Every variable has its type, and the service answers what was asked.
TypeOK ==
  /\ kind \in {"cpp", "node"}
  /\ running \in BOOLEAN /\ halfClosed \in BOOLEAN /\ signalled \in BOOLEAN
  /\ writer \in Places
  /\ reader \in {"none", "Check", "Read", "Ended"}
  /\ asked \in 0..(MaxRequests + 1)
  /\ got \in Seq(Answers)
  /\ server \in {"Create", "Connect", "Blocked", "Serving", "Failed", "Crashed"}
  /\ opened \in BOOLEAN
  /\ handler \in {"none", "Read", "Write", "Returned"}
  /\ answered \in 0..asked
  /\ answer \in Answers \cup {NoAnswer}
  /\ call \in {"none", "open", "broken", "cancelled"}
  /\ status \in {"none", "ok", "error"}
  /\ requests \in Seq(1..(MaxRequests + 1))
  /\ responses \in Seq(Answers)

\* The stream is a RequestResponse: what was asked is what the service has
\* taken or will find, what it answered is what the client has read or will.
Stream == INSTANCE RequestResponse WITH
            asked <- answered + Len(requests),
            answers <- got \o responses,
            got <- Len(got),
            open <- call = "open" /\ running

\* Answers come in order, one to each request, with its number and message,
\* whatever breaks or ends in between.
StreamRefined == Stream!Spec

\* While neither end gives up, every request is answered and every answer read,
\* though each direction may be full.
StreamFair == Stream!FairSpec

Full(s) == Len(s) = Capacity

\* SIGINT ends the client, unless its Write waits for a service that waits for
\* the reader, which SIGINT has ended.
SigintEnds ==
  (~running /\ kind = "cpp" /\ ~(writer = "Write" /\ Full(requests) /\ Full(responses)))
    ~> writer = "Done"

\* A call that broke ends the client's loops.
BreakEndsClient == call = "broken" ~> writer \in {"Done", "Idle"}

\* The service does not go on for a client that has ended.
ServiceEnds == (writer = "Done" /\ handler # "none") ~> handler = "Returned"

=============================================================================
