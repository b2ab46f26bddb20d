--------------------------- MODULE GrpcStreamProofs ---------------------------
(***************************************************************************)
(* The stream of the gRPC programs implements RequestResponse, for any       *)
(* capacity of its directions and any number of requests.                    *)
(***************************************************************************)
EXTENDS GrpcStream, TLAPS

\* Both clients stay in their places, and a call that is over for the client
\* while it is open was half-closed.
Placed ==
  /\ kind = "cpp" => writer \notin {"Timer", "Idle"}
  /\ kind = "node" => writer \notin {"Check", "Write", "Join"}
  /\ writer = "Start" => call = "none"
  /\ call = "none" => /\ writer \in {"Start", "Done"} /\ handler = "none"
                      /\ asked = 0 /\ requests = << >>
  /\ handler = "none" => answered = 0 /\ status = "none"
  /\ call = "open" /\ status # "none" => halfClosed
  /\ kind = "cpp" /\ halfClosed => writer \in {"Join", "Done"}

\* The requests on their way are those after the last one that was taken, and
\* the client has counted them.
Numbered ==
  /\ \A k \in 1..Len(requests) : requests[k] = answered + k
  /\ answered + Len(requests) <= asked
  /\ call = "open" /\ writer = "Write" =>
       asked = answered + Len(requests) + 1 /\ asked <= MaxRequests
  /\ call = "open" /\ writer \in {"Check", "Timer"} => asked = answered + Len(requests)
  /\ writer \in {"Check", "Timer"} => asked <= MaxRequests

\* The answers made so far, and the one the service is about to write.
Made == got \o responses

Answered ==
  /\ \A k \in 1..Len(Made) : Made[k] = Stream!AnswerTo(k)
  /\ Len(Made) <= answered
  /\ handler = "Write" => /\ answered = Len(Made) + 1
                          /\ answer = Stream!AnswerTo(answered)
  /\ handler \in {"none", "Read"} => answered = Len(Made)

IInv == TypeOK /\ Placed /\ Numbered /\ Answered

-----------------------------------------------------------------------------
\* Reading moves an element from the pipe to what was read.
LEMMA ReadKeepsOrder ==
  ASSUME NEW S, NEW r \in Seq(S), NEW p \in Seq(S), p # << >>
  PROVE  /\ Append(r, Head(p)) \o Tail(p) = r \o p
         /\ Append(r, Head(p)) \in Seq(S) /\ Tail(p) \in Seq(S)
  OBVIOUS

\* Writing puts the element behind all others.
LEMMA WriteAtEnd ==
  ASSUME NEW S, NEW r \in Seq(S), NEW p \in Seq(S), NEW x \in S
  PROVE  r \o Append(p, x) = Append(r \o p, x) /\ Append(p, x) \in Seq(S)
  OBVIOUS

-----------------------------------------------------------------------------
\* The initial states satisfy the invariant.
LEMMA InitIInv == Init => IInv
  <1> SUFFICES ASSUME Init PROVE IInv
    OBVIOUS
  <1> USE StreamAssumption
  <1>1. TypeOK
    <2>1. /\ requests \in Seq(1..(MaxRequests + 1))
          /\ got \in Seq(Answers) /\ responses \in Seq(Answers)
      BY DEF Init
    <2>2. running \in BOOLEAN /\ halfClosed \in BOOLEAN /\ signalled \in BOOLEAN /\ opened \in BOOLEAN
      BY DEF Init
    <2>3. answered \in 0..asked /\ asked \in 0..(MaxRequests + 1)
      BY DEF Init
    <2> QED BY <2>1, <2>2, <2>3 DEF Init, TypeOK, Places
  <1>2. Placed /\ Numbered
    BY DEF Init, Placed, Numbered
  <1>3. Made = << >>
    BY DEF Init, Made
  <1>4. Answered
    BY <1>3 DEF Init, Answered
  <1> QED BY <1>1, <1>2, <1>4 DEF IInv

\* The numbers of requests and answers.
Number == 1..(MaxRequests + 1)

\* A request is sent, with the number after all requests before it.
Sends ==
  /\ call = "open"
  /\ requests' = Append(requests, answered + Len(requests) + 1)
  /\ answered + Len(requests) + 1 \in Number
  /\ asked' = answered + Len(requests) + 1
  /\ writer' # "Write"
  /\ UNCHANGED <<call, running, got, responses, handler, answered, answer>>

\* An answer is read.
Gets == Receives /\ UNCHANGED <<asked, writer, call, running, requests, handler, answered, answer>>

\* No message moves.
Quiet ==
  /\ UNCHANGED <<got, responses, requests, answered, answer>>
  /\ \/ handler' = handler
     \/ handler = "none" /\ handler' = "Read"
     \/ handler' = "Returned"

\* A step moves one message, or none.
LEMMA StepKinds == IInv /\ Next => Quiet \/ Sends \/ Gets \/ HandlerReads \/ HandlerWrites
  <1> SUFFICES ASSUME IInv, Next PROVE Quiet \/ Sends \/ Gets \/ HandlerReads \/ HandlerWrites
    OBVIOUS
  <1> USE StreamAssumption DEF clientVars, serverVars, streamVars
  <1>1. CASE RunServer
    BY <1>1 DEF RunServer, Quiet, Gets
  <1>2. CASE Breaks
    BY <1>2 DEF Breaks, Finished, Quiet, Gets
  <1>3. CASE CppSigint
    BY <1>3 DEF CppSigint, Quiet, Gets
  <1>4. CASE NodeSigint
    BY <1>4 DEF NodeSigint, InEvent, InNode, Quiet, Gets
  <1>5. CASE HandlerStarts
    BY <1>5 DEF HandlerStarts, InService, Quiet, Gets
  <1>6. CASE HandlerReads
    BY <1>6
  <1>7. CASE HandlerReadFails
    BY <1>7 DEF HandlerReadFails, InService, Returns, Quiet, Gets
  <1>8. CASE HandlerWrites
    BY <1>8
  <1>9. CASE HandlerWriteFails
    BY <1>9 DEF HandlerWriteFails, InService, Returns, Quiet, Gets
  <1>10. CASE CppConnects
    BY <1>10 DEF CppConnects, InCpp, Quiet, Gets
  <1>11. CASE CppThrows
    BY <1>11 DEF CppThrows, InWriter, InCpp, Quiet, Gets
  <1>12. CASE CppReturns
    BY <1>12 DEF CppReturns, InWriter, InCpp, Finished, Quiet, Gets
  <1>13. CASE WriterCheck
    BY <1>13 DEF WriterCheck, InWriter, InCpp, WritesDone, Finished, Quiet, Gets
  <1>14. CASE WriterWrites
    <2>1. asked = answered + Len(requests) + 1 /\ asked \in Number
      BY <1>14 DEF WriterWrites, IInv, Numbered, TypeOK, Number
    <2> QED BY <1>14, <2>1 DEF WriterWrites, InWriter, InCpp, Sends
  <1>15. CASE WriterFails
    BY <1>15 DEF WriterFails, InWriter, InCpp, WritesDone, Finished, Quiet, Gets
  <1>16. CASE ReaderCheck
    BY <1>16 DEF ReaderCheck, InReader, InCpp, Quiet, Gets
  <1>17. CASE ReaderReads
    BY <1>17 DEF ReaderReads, InReader, InCpp, Receives, Quiet, Gets
  <1>18. CASE ReaderFails
    BY <1>18 DEF ReaderFails, InReader, InCpp, Quiet, Gets
  <1>19. CASE NodeStarts
    BY <1>19 DEF NodeStarts, InTimer, InNode, Quiet, Gets
  <1>20. CASE NodeChannelOpens
    BY <1>20 DEF NodeChannelOpens, Quiet, Gets
  <1>21. CASE NodeSends
    <2>1. CASE call = "open"
      <3>1. asked = answered + Len(requests) /\ asked + 1 \in Number
        BY <1>21, <2>1 DEF NodeSends, IInv, Numbered, TypeOK, Number
      <3> QED BY <1>21, <2>1, <3>1 DEF NodeSends, InTimer, InNode, Sends
    <2>2. CASE call # "open"
      BY <1>21, <2>2 DEF NodeSends, InTimer, InNode, Quiet
    <2> QED BY <2>1, <2>2
  <1>22. CASE NodeStops
    BY <1>22 DEF NodeStops, InTimer, InNode, Quiet, Gets
  <1>23. CASE NodeExits
    BY <1>23 DEF NodeExits, InTimer, InNode, Finished, Quiet, Gets
  <1>24. CASE NodeData
    BY <1>24 DEF NodeData, InEvent, InNode, Receives, Quiet, Gets
  <1>25. CASE NodeEnd
    BY <1>25 DEF NodeEnd, InEvent, InNode, Quiet, Gets
  <1> QED
    BY <1>1, <1>2, <1>3, <1>4, <1>5, <1>6, <1>7, <1>8, <1>9, <1>10, <1>11, <1>12, <1>13,
       <1>14, <1>15, <1>16, <1>17, <1>18, <1>19, <1>20, <1>21, <1>22, <1>23, <1>24,
       <1>25
    DEF Next, ServiceNext, CppNext, CppReader, NodeNext, NodeReader

\* Each step keeps the types.
LEMMA TypeStep == IInv /\ Next => TypeOK'
  <1> SUFFICES ASSUME IInv, Next PROVE TypeOK'
    OBVIOUS
  <1> USE StreamAssumption DEF clientVars, serverVars, streamVars, Listening, Places
  <1>1. CASE RunServer
    BY <1>1 DEF RunServer, IInv, TypeOK
  <1>2. CASE Breaks
    BY <1>2 DEF Breaks, Finished, IInv, TypeOK
  <1>3. CASE CppSigint
    <2>1. running' \in BOOLEAN
      BY <1>3 DEF CppSigint
    <2> QED BY <1>3, <2>1 DEF CppSigint, IInv, TypeOK
  <1>4. CASE NodeSigint
    <2>1. running' \in BOOLEAN /\ signalled' \in BOOLEAN /\ halfClosed' \in BOOLEAN
      BY <1>4 DEF NodeSigint
    <2> QED BY <1>4, <2>1 DEF NodeSigint, InEvent, InNode, IInv, TypeOK
  <1>5. CASE HandlerStarts
    BY <1>5 DEF HandlerStarts, InService, IInv, TypeOK
  <1>6. CASE HandlerReads
    <2>1. requests \in Seq(Number) /\ requests # << >>
      BY <1>6 DEF HandlerReads, IInv, TypeOK, Number
    <2>2. Head(requests) \in Number /\ Tail(requests) \in Seq(Number) /\ Len(requests) > 0
      BY <2>1
    <2>3. answered + 1 \in 0..asked /\ answered + 1 \in Number
      BY <2>2 DEF IInv, Numbered, TypeOK, Number
    <2>4. answer' \in Answers
      BY <1>6, <2>2, <2>3 DEF HandlerReads, Answers, Number
    <2> QED BY <1>6, <2>2, <2>3, <2>4 DEF HandlerReads, InService, IInv, TypeOK, Number
  <1>7. CASE HandlerReadFails
    BY <1>7 DEF HandlerReadFails, InService, Returns, IInv, TypeOK
  <1>8. CASE HandlerWrites
    <2>1. answer \in Answers
      BY <1>8 DEF HandlerWrites, IInv, Answered, Stream!AnswerTo, TypeOK, Answers
    <2>2. Append(responses, answer) \in Seq(Answers)
      BY <2>1 DEF IInv, TypeOK
    <2> QED BY <1>8, <2>2 DEF HandlerWrites, InService, IInv, TypeOK
  <1>9. CASE HandlerWriteFails
    BY <1>9 DEF HandlerWriteFails, InService, Returns, IInv, TypeOK
  <1>10. CASE CppConnects
    BY <1>10 DEF CppConnects, InCpp, IInv, TypeOK
  <1>11. CASE CppThrows
    BY <1>11 DEF CppThrows, InWriter, InCpp, IInv, TypeOK
  <1>12. CASE CppReturns
    BY <1>12 DEF CppReturns, InWriter, InCpp, Finished, IInv, TypeOK
  <1>13. CASE WriterCheck
    <2>1. CASE running
      <3>1. asked' \in 0..(MaxRequests + 1) /\ answered \in 0..asked'
        BY <1>13, <2>1 DEF WriterCheck, IInv, Numbered, TypeOK
      <3> QED BY <1>13, <2>1, <3>1 DEF WriterCheck, InWriter, InCpp, IInv, TypeOK
    <2>2. CASE ~running
      <3>1. halfClosed' \in BOOLEAN
        BY <1>13, <2>2 DEF WriterCheck, WritesDone
      <3> QED BY <1>13, <2>2, <3>1 DEF WriterCheck, WritesDone, InWriter, InCpp, IInv, TypeOK
    <2> QED BY <2>1, <2>2
  <1>14. CASE WriterWrites
    <2>1. asked \in Number
      BY <1>14 DEF WriterWrites, IInv, Numbered, TypeOK, Number
    <2>2. Append(requests, asked) \in Seq(Number)
      BY <2>1 DEF IInv, TypeOK, Number
    <2> QED BY <1>14, <2>2 DEF WriterWrites, InWriter, InCpp, IInv, TypeOK, Number
  <1>15. CASE WriterFails
    BY <1>15 DEF WriterFails, InWriter, InCpp, WritesDone, Finished, IInv, TypeOK
  <1>16. CASE ReaderCheck
    BY <1>16 DEF ReaderCheck, InReader, InCpp, IInv, TypeOK
  <1>17. CASE ReaderReads
    <2>1. /\ Head(responses) \in Answers /\ Tail(responses) \in Seq(Answers)
          /\ Append(got, Head(responses)) \in Seq(Answers)
      BY <1>17 DEF ReaderReads, Receives, IInv, TypeOK
    <2> QED BY <1>17, <2>1 DEF ReaderReads, InReader, InCpp, Receives, IInv, TypeOK
  <1>18. CASE ReaderFails
    BY <1>18 DEF ReaderFails, InReader, InCpp, IInv, TypeOK
  <1>19. CASE NodeStarts
    BY <1>19 DEF NodeStarts, InTimer, InNode, IInv, TypeOK
  <1>20. CASE NodeChannelOpens
    BY <1>20 DEF NodeChannelOpens, IInv, TypeOK
  <1>21. CASE NodeSends
    <2>1. asked + 1 \in Number /\ answered \in 0..(asked + 1)
      BY <1>21 DEF NodeSends, IInv, TypeOK, Number
    <2>2. Append(requests, asked + 1) \in Seq(Number)
      BY <2>1 DEF IInv, TypeOK, Number
    <2>3. requests' \in Seq(Number)
      BY <1>21, <2>2 DEF NodeSends, IInv, TypeOK, Number
    <2>4. asked' \in 0..(MaxRequests + 1) /\ answered \in 0..asked'
      BY <1>21, <2>1 DEF NodeSends, Number
    <2> QED BY <1>21, <2>3, <2>4 DEF NodeSends, InTimer, InNode, IInv, TypeOK, Number
  <1>22. CASE NodeStops
    BY <1>22 DEF NodeStops, InTimer, InNode, IInv, TypeOK
  <1>23. CASE NodeExits
    BY <1>23 DEF NodeExits, InTimer, InNode, Finished, IInv, TypeOK
  <1>24. CASE NodeData
    <2>1. /\ Head(responses) \in Answers /\ Tail(responses) \in Seq(Answers)
          /\ Append(got, Head(responses)) \in Seq(Answers)
      BY <1>24 DEF NodeData, Receives, IInv, TypeOK
    <2> QED BY <1>24, <2>1 DEF NodeData, InEvent, InNode, Receives, IInv, TypeOK
  <1>25. CASE NodeEnd
    <2>1. running' \in BOOLEAN
      BY <1>25 DEF NodeEnd
    <2> QED BY <1>25, <2>1 DEF NodeEnd, InEvent, InNode, IInv, TypeOK
  <1> QED
    BY <1>1, <1>2, <1>3, <1>4, <1>5, <1>6, <1>7, <1>8, <1>9, <1>10, <1>11, <1>12, <1>13,
       <1>14, <1>15, <1>16, <1>17, <1>18, <1>19, <1>20, <1>21, <1>22, <1>23, <1>24,
       <1>25
    DEF Next, ServiceNext, CppNext, CppReader, NodeNext, NodeReader

\* Each step leaves the client and its call in a place.
LEMMA PlacedStep == IInv /\ Next => Placed'
  <1> SUFFICES ASSUME IInv, Next PROVE Placed'
    OBVIOUS
  <1> USE StreamAssumption DEF clientVars, serverVars, streamVars
  <1>1. CASE RunServer
    BY <1>1 DEF RunServer, IInv, TypeOK, Placed
  <1>2. CASE Breaks
    BY <1>2 DEF Breaks, Finished, IInv, TypeOK, Placed
  <1>3. CASE CppSigint
    BY <1>3 DEF CppSigint, IInv, TypeOK, Placed
  <1>4. CASE NodeSigint
    BY <1>4 DEF NodeSigint, InEvent, InNode, IInv, TypeOK, Placed
  <1>5. CASE HandlerStarts
    BY <1>5 DEF HandlerStarts, InService, IInv, TypeOK, Placed
  <1>6. CASE HandlerReads
    BY <1>6 DEF HandlerReads, InService, IInv, TypeOK, Placed
  <1>7. CASE HandlerReadFails
    BY <1>7 DEF HandlerReadFails, InService, Returns, IInv, TypeOK, Placed
  <1>8. CASE HandlerWrites
    BY <1>8 DEF HandlerWrites, InService, IInv, TypeOK, Placed
  <1>9. CASE HandlerWriteFails
    BY <1>9 DEF HandlerWriteFails, InService, Returns, IInv, TypeOK, Placed
  <1>10. CASE CppConnects
    BY <1>10 DEF CppConnects, InCpp, IInv, TypeOK, Placed
  <1>11. CASE CppThrows
    BY <1>11 DEF CppThrows, InWriter, InCpp, IInv, TypeOK, Placed
  <1>12. CASE CppReturns
    BY <1>12 DEF CppReturns, InWriter, InCpp, Finished, IInv, TypeOK, Placed
  <1>13. CASE WriterCheck
    BY <1>13 DEF WriterCheck, InWriter, InCpp, WritesDone, Finished, IInv, TypeOK,
                 Placed
  <1>14. CASE WriterWrites
    BY <1>14 DEF WriterWrites, InWriter, InCpp, IInv, TypeOK, Placed
  <1>15. CASE WriterFails
    BY <1>15 DEF WriterFails, InWriter, InCpp, WritesDone, Finished, IInv, TypeOK,
                 Placed
  <1>16. CASE ReaderCheck
    BY <1>16 DEF ReaderCheck, InReader, InCpp, IInv, TypeOK, Placed
  <1>17. CASE ReaderReads
    BY <1>17 DEF ReaderReads, InReader, InCpp, Receives, IInv, TypeOK, Placed
  <1>18. CASE ReaderFails
    BY <1>18 DEF ReaderFails, InReader, InCpp, IInv, TypeOK, Placed
  <1>19. CASE NodeStarts
    BY <1>19 DEF NodeStarts, InTimer, InNode, IInv, TypeOK, Placed
  <1>20. CASE NodeChannelOpens
    BY <1>20 DEF NodeChannelOpens, IInv, TypeOK, Placed
  <1>21. CASE NodeSends
    BY <1>21 DEF NodeSends, InTimer, InNode, IInv, TypeOK, Placed
  <1>22. CASE NodeStops
    BY <1>22 DEF NodeStops, InTimer, InNode, IInv, TypeOK, Placed
  <1>23. CASE NodeExits
    BY <1>23 DEF NodeExits, InTimer, InNode, Finished, IInv, TypeOK, Placed
  <1>24. CASE NodeData
    BY <1>24 DEF NodeData, InEvent, InNode, Receives, IInv, TypeOK, Placed
  <1>25. CASE NodeEnd
    BY <1>25 DEF NodeEnd, InEvent, InNode, IInv, TypeOK, Placed
  <1> QED
    BY <1>1, <1>2, <1>3, <1>4, <1>5, <1>6, <1>7, <1>8, <1>9, <1>10, <1>11, <1>12, <1>13,
       <1>14, <1>15, <1>16, <1>17, <1>18, <1>19, <1>20, <1>21, <1>22, <1>23, <1>24,
       <1>25
    DEF Next, ServiceNext, CppNext, CppReader, NodeNext, NodeReader

\* Sending keeps the numbers in order.
LEMMA SendNumbers ==
  ASSUME IInv, Sends
  PROVE  /\ Len(requests') = Len(requests) + 1
         /\ \A k \in 1..Len(requests') : requests'[k] = answered + k
  <1> DEFINE n == answered + Len(requests) + 1
             t == Append(requests, n)
  <1>1. /\ Len(requests) \in Nat /\ Len(t) = Len(requests) + 1
        /\ t[Len(requests) + 1] = n
        /\ \A k \in 1..Len(requests) : t[k] = requests[k]
    BY DEF IInv, TypeOK
  <1>2. answered \in Nat /\ requests' = t
    BY DEF Sends, IInv, TypeOK
  <1> HIDE DEF t
  <1> QED BY <1>1, <1>2 DEF IInv, Numbered

\* Each step keeps the requests in order.
LEMMA NumberedStep == IInv /\ Next => Numbered'
  <1> SUFFICES ASSUME IInv, Next PROVE Numbered'
    OBVIOUS
  <1> USE StreamAssumption DEF clientVars, serverVars, streamVars
  <1>1. CASE RunServer
    BY <1>1 DEF RunServer, IInv, TypeOK, Numbered
  <1>2. CASE Breaks
    BY <1>2 DEF Breaks, Finished, IInv, TypeOK, Numbered
  <1>3. CASE CppSigint
    BY <1>3 DEF CppSigint, IInv, TypeOK, Numbered
  <1>4. CASE NodeSigint
    BY <1>4 DEF NodeSigint, InEvent, InNode, IInv, TypeOK, Numbered
  <1>5. CASE HandlerStarts
    BY <1>5 DEF HandlerStarts, InService, IInv, TypeOK, Numbered
  <1>6. CASE HandlerReads
    <2> DEFINE t == Tail(requests)
    <2>1. /\ Len(requests) \in Nat \ {0} /\ Len(t) = Len(requests) - 1
          /\ \A k \in 1..Len(t) : t[k] = requests[k + 1] /\ k + 1 \in 1..Len(requests)
      BY <1>6 DEF HandlerReads, IInv, TypeOK
    <2>2. answered \in Nat /\ answered' = answered + 1 /\ requests' = t
      BY <1>6 DEF HandlerReads, IInv, TypeOK
    <2> HIDE DEF t
    <2>3. \A k \in 1..Len(requests') : requests'[k] = answered' + k
      BY <2>1, <2>2 DEF IInv, Numbered
    <2>4. ASSUME NEW a \in Nat, NEW n \in Nat PROVE (a + 1) + (n - 1) = a + n
      OBVIOUS
    <2>5. Len(requests') = Len(requests) - 1 /\ answered' = answered + 1
      BY <2>1, <2>2
    <2>6. answered' + Len(requests') = answered + Len(requests)
      BY <2>1, <2>2, <2>4, <2>5, Zenon
    <2> QED BY <1>6, <2>3, <2>6 DEF HandlerReads, InService, IInv, Numbered
  <1>7. CASE HandlerReadFails
    BY <1>7 DEF HandlerReadFails, InService, Returns, IInv, TypeOK, Numbered
  <1>8. CASE HandlerWrites
    BY <1>8 DEF HandlerWrites, InService, IInv, TypeOK, Numbered
  <1>9. CASE HandlerWriteFails
    BY <1>9 DEF HandlerWriteFails, InService, Returns, IInv, TypeOK, Numbered
  <1>10. CASE CppConnects
    <2>1. asked = 0 /\ requests = << >> /\ answered = 0
      BY <1>10 DEF CppConnects, IInv, Placed
    <2> QED BY <1>10, <2>1 DEF CppConnects, InCpp, IInv, TypeOK, Numbered
  <1>11. CASE CppThrows
    BY <1>11 DEF CppThrows, InWriter, InCpp, IInv, TypeOK, Numbered
  <1>12. CASE CppReturns
    BY <1>12 DEF CppReturns, InWriter, InCpp, Finished, IInv, TypeOK, Numbered
  <1>13. CASE WriterCheck
    <2>1. CASE running
      <3>1. /\ asked' = asked + 1 /\ writer' = "Write"
            /\ asked < MaxRequests \/ call # "open"
        BY <1>13, <2>1 DEF WriterCheck, Finished, IInv, Placed, InWriter, InCpp
      <3> QED BY <1>13, <3>1 DEF WriterCheck, InWriter, InCpp, IInv, TypeOK, Numbered
    <2>2. CASE ~running
      BY <1>13, <2>2 DEF WriterCheck, WritesDone, InWriter, InCpp, IInv, TypeOK, Numbered
    <2> QED BY <2>1, <2>2
  <1>14. CASE WriterWrites
    <2>1. asked = answered + Len(requests) + 1 /\ asked \in Number /\ asked <= MaxRequests
      BY <1>14 DEF WriterWrites, IInv, Numbered, TypeOK, Number
    <2>2. Sends
      BY <1>14, <2>1 DEF WriterWrites, InWriter, InCpp, Sends
    <2>3. /\ Len(requests') = Len(requests) + 1 /\ Len(requests) \in Nat
          /\ \A k \in 1..Len(requests') : requests'[k] = answered + k
      BY <2>2, SendNumbers DEF IInv, TypeOK
    <2>4. /\ answered \in Nat /\ answered' = answered /\ asked' = asked /\ call' = call
          /\ writer' = "Check"
      BY <1>14, <2>2 DEF WriterWrites, Sends, InWriter, InCpp, IInv, TypeOK
    <2> QED BY <2>1, <2>3, <2>4 DEF Numbered
  <1>15. CASE WriterFails
    BY <1>15 DEF WriterFails, InWriter, InCpp, WritesDone, Finished, IInv, TypeOK,
                 Numbered
  <1>16. CASE ReaderCheck
    BY <1>16 DEF ReaderCheck, InReader, InCpp, IInv, TypeOK, Numbered
  <1>17. CASE ReaderReads
    BY <1>17 DEF ReaderReads, InReader, InCpp, Receives, IInv, TypeOK, Numbered
  <1>18. CASE ReaderFails
    BY <1>18 DEF ReaderFails, InReader, InCpp, IInv, TypeOK, Numbered
  <1>19. CASE NodeStarts
    <2>1. asked = 0 /\ requests = << >> /\ answered = 0
      BY <1>19 DEF NodeStarts, IInv, Placed
    <2> QED BY <1>19, <2>1 DEF NodeStarts, InTimer, InNode, IInv, TypeOK, Numbered
  <1>20. CASE NodeChannelOpens
    BY <1>20 DEF NodeChannelOpens, IInv, TypeOK, Numbered
  <1>21. CASE NodeSends
    <2>1. CASE call = "open"
      <3>1. asked = answered + Len(requests) /\ asked + 1 \in Number
        BY <1>21, <2>1 DEF NodeSends, IInv, Numbered, TypeOK, Number
      <3>2. Sends
        BY <1>21, <2>1, <3>1 DEF NodeSends, InTimer, InNode, Sends
      <3> QED BY <1>21, <2>1, <3>1, <3>2, SendNumbers DEF NodeSends, Sends, IInv, TypeOK, Numbered
    <2>2. CASE call # "open"
      BY <1>21, <2>2 DEF NodeSends, InTimer, InNode, IInv, TypeOK, Numbered
    <2> QED BY <2>1, <2>2
  <1>22. CASE NodeStops
    BY <1>22 DEF NodeStops, InTimer, InNode, IInv, TypeOK, Numbered
  <1>23. CASE NodeExits
    BY <1>23 DEF NodeExits, InTimer, InNode, Finished, IInv, TypeOK, Numbered
  <1>24. CASE NodeData
    BY <1>24 DEF NodeData, InEvent, InNode, Receives, IInv, TypeOK, Numbered
  <1>25. CASE NodeEnd
    BY <1>25 DEF NodeEnd, InEvent, InNode, IInv, TypeOK, Numbered
  <1> QED
    BY <1>1, <1>2, <1>3, <1>4, <1>5, <1>6, <1>7, <1>8, <1>9, <1>10, <1>11, <1>12, <1>13,
       <1>14, <1>15, <1>16, <1>17, <1>18, <1>19, <1>20, <1>21, <1>22, <1>23, <1>24,
       <1>25
    DEF Next, ServiceNext, CppNext, CppReader, NodeNext, NodeReader

\* Reading an answer does not change the answers made.
LEMMA GetKeepsMade ==
  ASSUME IInv, Gets
  PROVE  Made' = Made /\ Len(got') = Len(got) + 1 /\ Len(got) < Len(Made)
  <1>1. got \in Seq(Answers) /\ responses \in Seq(Answers) /\ responses # << >>
    BY DEF Gets, Receives, IInv, TypeOK
  <1>2. Append(got, Head(responses)) \o Tail(responses) = got \o responses
    BY <1>1, ReadKeepsOrder
  <1>3. Len(got \o responses) = Len(got) + Len(responses) /\ Len(responses) > 0
    BY <1>1
  <1>4. Len(Append(got, Head(responses))) = Len(got) + 1 /\ Len(got) \in Nat
    BY <1>1
  <1> QED BY <1>2, <1>3, <1>4 DEF Gets, Receives, Made

\* Writing an answer puts it behind the answers made.
LEMMA WriteMakes ==
  ASSUME IInv, HandlerWrites
  PROVE  /\ Made \in Seq(Answers) /\ answer \in Answers
         /\ Made' = Append(Made, answer)
         /\ answer = Stream!AnswerTo(Len(Made) + 1)
  <1>0. /\ answer = Stream!AnswerTo(answered) /\ answered = Len(Made) + 1
        /\ Len(Made) \in Nat /\ answered <= asked /\ asked \in 0..(MaxRequests + 1)
    BY DEF HandlerWrites, IInv, Answered, TypeOK, Made
  <1>1. answer \in Answers
    <2>1. answered \in 1..(MaxRequests + 1)
      BY <1>0, StreamAssumption
    <2> QED BY <1>0, <2>1 DEF Stream!AnswerTo, Answers
  <1>2. got \in Seq(Answers) /\ responses \in Seq(Answers)
    BY DEF IInv, TypeOK
  <1>3. got \o Append(responses, answer) = Append(got \o responses, answer)
    BY <1>1, <1>2, WriteAtEnd
  <1>4. got \o responses \in Seq(Answers)
    BY <1>2
  <1>5. answer = Stream!AnswerTo(Len(Made) + 1)
    BY DEF HandlerWrites, IInv, Answered
  <1> QED BY <1>1, <1>3, <1>4, <1>5 DEF HandlerWrites, InService, clientVars, Made

\* Each step keeps the answers in order.
LEMMA AnsweredStep == IInv /\ Next => Answered'
  <1> SUFFICES ASSUME IInv, Next PROVE Answered'
    OBVIOUS
  <1>1. CASE Quiet
    <2>1. Made' = Made
      BY <1>1 DEF Quiet, Made
    <2> QED BY <1>1, <2>1 DEF Quiet, IInv, Answered
  <1>2. CASE Sends
    <2>1. Made' = Made
      BY <1>2 DEF Sends, Made
    <2> QED BY <1>2, <2>1 DEF Sends, IInv, Answered
  <1>3. CASE Gets
    BY <1>3, GetKeepsMade DEF Gets, IInv, Answered
  <1>4. CASE HandlerReads
    <2>1. Made' = Made
      BY <1>4 DEF HandlerReads, InService, clientVars, Made
    <2>2. Len(requests) >= 1 /\ Head(requests) = answered + 1
      BY <1>4 DEF HandlerReads, IInv, Numbered, TypeOK
    <2>3. answer' = Stream!AnswerTo(answered + 1)
      BY <1>4, <2>2 DEF HandlerReads, Stream!AnswerTo
    <2>4. answered = Len(Made) /\ answered \in Nat
      BY <1>4 DEF HandlerReads, IInv, Answered, TypeOK
    <2> QED BY <1>4, <2>1, <2>3, <2>4 DEF HandlerReads, IInv, Answered
  <1>5. CASE HandlerWrites
    <2> DEFINE t == Append(Made, answer)
    <2>1. /\ Made \in Seq(Answers) /\ answer \in Answers /\ Made' = t
          /\ answer = Stream!AnswerTo(Len(Made) + 1)
      BY <1>5, WriteMakes
    <2> DEFINE m == Made
    <2> HIDE DEF m
    <2>2. m = Made
      BY DEF m
    <2>3. /\ Len(Append(m, answer)) = Len(m) + 1 /\ Len(m) \in Nat
          /\ Append(m, answer)[Len(m) + 1] = answer
          /\ \A k \in 1..Len(m) : Append(m, answer)[k] = m[k]
      BY <2>1, <2>2
    <2>4. /\ Len(t) = Len(m) + 1 /\ t[Len(m) + 1] = answer
          /\ \A k \in 1..Len(m) : t[k] = m[k]
      BY <2>2, <2>3
    <2>5. answered = Len(m) + 1 /\ \A k \in 1..Len(m) : m[k] = Stream!AnswerTo(k)
      BY <1>5, <2>2 DEF HandlerWrites, IInv, Answered
    <2> HIDE DEF t
    <2>6. \A k \in 1..Len(t) : t[k] = Stream!AnswerTo(k)
      BY <2>1, <2>2, <2>3, <2>4, <2>5
    <2> QED BY <1>5, <2>1, <2>3, <2>4, <2>5, <2>6 DEF HandlerWrites, Answered
  <1> QED BY <1>1, <1>2, <1>3, <1>4, <1>5, StepKinds

\* The invariant is inductive.
LEMMA NextIInv == IInv /\ [Next]_vars => IInv'
  <1> SUFFICES ASSUME IInv, [Next]_vars PROVE IInv'
    OBVIOUS
  <1>1. CASE Next
    BY <1>1, TypeStep, PlacedStep, NumberedStep, AnsweredStep DEF IInv
  <1>2. CASE UNCHANGED vars
    <2>1. TypeOK' /\ Placed' /\ Numbered'
      BY <1>2 DEF vars, clientVars, serverVars, streamVars, IInv, TypeOK, Placed, Numbered
    <2>2. Made' = Made
      BY <1>2 DEF vars, clientVars, streamVars, Made
    <2>3. Answered'
      BY <1>2, <2>2 DEF vars, serverVars, IInv, Answered
    <2> QED BY <2>1, <2>3 DEF IInv
  <1> QED BY <1>1, <1>2

\* The invariant holds throughout.
LEMMA IInvHolds == Spec => []IInv
  BY InitIInv, NextIInv, PTL DEF Spec

\* The variables of the stream keep their types, and the service never answers
\* more than was asked.
THEOREM StreamTypeCorrect == Spec => []TypeOK
  <1>1. IInv => TypeOK
    BY DEF IInv
  <1> QED BY <1>1, IInvHolds, PTL

-----------------------------------------------------------------------------
\* The first state is a first state of RequestResponse.
LEMMA StreamInit == Init => Stream!Init
  <1> SUFFICES ASSUME Init PROVE Stream!Init
    OBVIOUS
  <1>1. answered + Len(requests) = 0 /\ got \o responses = << >> /\ Len(got) = 0
    BY DEF Init
  <1>2. (call = "open" /\ running) \in BOOLEAN
    OBVIOUS
  <1> QED BY <1>1, <1>2 DEF Stream!Init

\* Every step is one of RequestResponse, or none.
LEMMA StreamStep == IInv /\ [Next]_vars => [Stream!Next]_(Stream!vars)
  <1> SUFFICES ASSUME IInv, [Next]_vars PROVE [Stream!Next]_(Stream!vars)
    OBVIOUS
  <1> DEFINE open == call = "open" /\ running
             sent == answered + Len(requests)
  <1>1. ASSUME sent' = sent, Made' = Made, Len(got') = Len(got)
        PROVE  [Stream!Next]_(Stream!vars)
    BY <1>1 DEF Stream!Next, Stream!Opens, Stream!Closes, Stream!vars, Made
  <1>2. CASE Quiet
    BY <1>1, <1>2 DEF Quiet, Made
  <1>3. CASE Sends
    <2>1. sent' = sent + 1 /\ open' = open
      BY <1>3, SendNumbers DEF Sends, IInv, TypeOK
    <2> QED BY <1>3, <2>1 DEF Sends, Stream!Next, Stream!Ask
  <1>4. CASE Gets
    <2>1. Made' = Made /\ Len(got') = Len(got) + 1 /\ Len(got) < Len(Made)
      BY <1>4, GetKeepsMade
    <2> QED BY <1>4, <2>1 DEF Gets, Made, Stream!Next, Stream!Get
  <1>5. CASE HandlerReads
    <2>1. Len(requests') = Len(requests) - 1 /\ Len(requests) \in Nat
      BY <1>5 DEF HandlerReads, IInv, TypeOK
    <2>2. sent' = sent
      BY <1>5, <2>1 DEF HandlerReads, IInv, TypeOK
    <2> QED BY <1>1, <1>5, <2>2 DEF HandlerReads, InService, clientVars, Made
  <1>6. CASE HandlerWrites
    <2>1. Made' = Append(Made, answer) /\ answer = Stream!AnswerTo(Len(Made) + 1)
      BY <1>6, WriteMakes
    <2>2. Len(Made) < answered + Len(requests)
      BY <1>6 DEF HandlerWrites, IInv, Answered, TypeOK
    <2> QED
      BY <1>6, <2>1, <2>2
      DEF HandlerWrites, InService, clientVars, Made, Stream!Next, Stream!Answer
  <1>7. CASE UNCHANGED vars
    BY <1>1, <1>7 DEF vars, clientVars, serverVars, streamVars, Made
  <1> QED BY <1>2, <1>3, <1>4, <1>5, <1>6, <1>7, StepKinds

\* The stream implements RequestResponse: answers come in order, one to each
\* request, with its number and its message.
THEOREM StreamRefinedHolds == Spec => StreamRefined
  BY IInvHolds, StreamInit, StreamStep, PTL DEF Spec, StreamRefined, Stream!Spec

=============================================================================
