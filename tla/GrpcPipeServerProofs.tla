------------------------- MODULE GrpcPipeServerProofs -------------------------
(***************************************************************************)
(* Theorems about GrpcPipeServer, for any capacity of the pipe and any       *)
(* number of requests.                                                       *)
(***************************************************************************)
EXTENDS GrpcPipeServer, FiniteSetTheorems, FunctionTheorems, TLAPS

\* A chunk that ProcessData may count: something that does not end in the middle
\* of a request.
Ends(chunk) == chunk # << >> /\ chunk[Len(chunk)] # "first"

One(condition) == IF condition THEN 1 ELSE 0

\* The pieces that end a request.
EndsIn(pieces) == {i \in 1..Len(pieces) : pieces[i] # "first"}

Ended(pieces) == Cardinality(EndsIn(pieces))

\* Requests that are counted, in the buffer, in the pipe, or half written, are
\* different ones.
Counted ==
  message_counter + One(runner = "Process" /\ Ends(received)) + Ended(requests)
    + One(client = "half") <= sent

\* Nothing happens to a server that was destroyed, or whose process ended.
Gone ==
  owner \in {"Destroyed", "Crashed"} =>
    instance = "none" /\ runner \in {"Returned", "Threw", "Crashed"}

IInv == TypeOK /\ Counted /\ Gone

-----------------------------------------------------------------------------
\* The sum has natural parts.
LEMMA OneType == \A b \in BOOLEAN : One(b) \in {0, 1}
  BY DEF One

\* The pieces that end a request are finitely many.
LEMMA EndedType ==
  ASSUME NEW s \in Seq(Piece)
  PROVE  Ended(s) \in Nat /\ IsFiniteSet(EndsIn(s))
  <1>1. IsFiniteSet(1..Len(s))
    BY FS_Interval
  <1>2. IsFiniteSet(EndsIn(s))
    BY <1>1, FS_Subset DEF EndsIn
  <1> QED BY <1>2, FS_CardinalityType DEF Ended

\* An empty pipe has none.
LEMMA EndedEmpty == Ended(<< >>) = 0
  <1>1. EndsIn(<< >>) = {}
    BY DEF EndsIn
  <1> QED BY <1>1, FS_EmptySet DEF Ended

\* A chunk that ends with a whole request has at least one.
LEMMA EndedEnds ==
  ASSUME NEW s \in Seq(Piece)
  PROVE  One(Ends(s)) <= Ended(s)
  <1>1. CASE Ends(s)
    <2>1. Len(s) \in EndsIn(s)
      BY <1>1 DEF Ends, EndsIn
    <2>2. Ended(s) # 0
      BY <2>1, EndedType, FS_EmptySet DEF Ended
    <2> QED BY <1>1, <2>2, EndedType DEF One
  <1>2. CASE ~Ends(s)
    BY <1>2, EndedType DEF One
  <1> QED BY <1>1, <1>2

\* A piece that is written comes last.
LEMMA EndedAppend ==
  ASSUME NEW s \in Seq(Piece), NEW piece \in Piece
  PROVE  Ended(Append(s, piece)) = Ended(s) + One(piece # "first")
  <1> DEFINE t == Append(s, piece)
             n == Len(s) + 1
  <1>1. /\ Len(t) = n /\ n \in Nat /\ t[n] = piece
        /\ \A i \in 1..Len(s) : t[i] = s[i]
    OBVIOUS
  <1>2. n \notin EndsIn(s)
    BY DEF EndsIn
  <1>3. CASE piece # "first"
    <2>1. EndsIn(t) = EndsIn(s) \union {n}
      BY <1>1, <1>3 DEF EndsIn
    <2>2. Cardinality(EndsIn(s) \union {n}) = Cardinality(EndsIn(s)) + 1
      BY <1>2, EndedType, FS_AddElement
    <2> QED BY <1>3, <2>1, <2>2 DEF Ended, One
  <1>4. CASE piece = "first"
    <2>1. EndsIn(t) = EndsIn(s)
      BY <1>1, <1>4 DEF EndsIn
    <2> QED BY <1>4, <2>1, EndedType DEF Ended, One
  <1> QED BY <1>3, <1>4

\* The first piece is read before the rest.
LEMMA EndedTail ==
  ASSUME NEW s \in Seq(Piece), s # << >>
  PROVE  Ended(s) = One(Head(s) # "first") + Ended(Tail(s))
  <1> DEFINE t == Tail(s)
             S == EndsIn(s) \ {1}
             f == [i \in EndsIn(t) |-> i + 1]
  <1>1. /\ t \in Seq(Piece) /\ Len(t) = Len(s) - 1 /\ Len(s) \in Nat \ {0}
        /\ \A i \in 1..Len(t) : t[i] = s[i + 1]
        /\ Head(s) = s[1]
    OBVIOUS
  <1>2. f \in [EndsIn(t) -> S]
    BY <1>1 DEF EndsIn
  <1>3. \A i, j \in EndsIn(t) : f[i] = f[j] => i = j
    BY <1>1 DEF EndsIn
  <1>4. \A k \in S : \E i \in EndsIn(t) : f[i] = k
    <2> SUFFICES ASSUME NEW k \in S PROVE \E i \in EndsIn(t) : f[i] = k
      OBVIOUS
    <2>1. k - 1 \in EndsIn(t)
      BY <1>1 DEF EndsIn
    <2>2. f[k - 1] = k
      BY <2>1 DEF EndsIn
    <2> QED BY <2>1, <2>2
  <1>5. ExistsBijection(EndsIn(t), S)
    <2> HIDE DEF f, S
    <2>1. f \in Bijection(EndsIn(t), S)
      BY <1>2, <1>3, <1>4 DEF Bijection, Injection, Surjection, IsInjective
    <2> QED BY <2>1 DEF ExistsBijection
  <1>6. IsFiniteSet(S) /\ Cardinality(S) = Ended(t)
    BY <1>1, <1>5, EndedType, FS_Bijection DEF Ended
  <1>7. Ended(t) \in Nat
    BY <1>1, EndedType
  <1>8. CASE Head(s) # "first"
    <2>1. EndsIn(s) = S \union {1} /\ 1 \notin S
      BY <1>1, <1>8 DEF EndsIn
    <2>2. Ended(s) = Ended(t) + 1
      <3> HIDE DEF S
      <3>1. Cardinality(S \union {1}) = Cardinality(S) + 1
        BY <1>6, <2>1, FS_AddElement
      <3> QED BY <1>6, <2>1, <3>1 DEF Ended
    <2>3. One(Head(s) # "first") = 1
      BY <1>8 DEF One
    <2> QED BY <1>7, <2>2, <2>3
  <1>9. CASE Head(s) = "first"
    <2>1. EndsIn(s) = S
      BY <1>1, <1>9 DEF EndsIn
    <2>2. Ended(s) = Ended(t)
      BY <1>6, <2>1 DEF Ended
    <2>3. One(Head(s) # "first") = 0
      BY <1>9 DEF One
    <2> QED BY <1>7, <2>2, <2>3
  <1> QED BY <1>8, <1>9

\* The invariant holds of a server that was constructed.
LEMMA InitIInv == Init => IInv
  <1> SUFFICES ASSUME Init PROVE IInv
    OBVIOUS
  <1> USE PipeServerAssumption
  <1>1. received \in Seq(Piece) /\ requests \in Seq(Piece) /\ Len(requests) = 0
    BY DEF Init
  <1>2. TypeOK
    BY <1>1 DEF Init, TypeOK
  <1>3. Ended(requests) = 0 /\ One(FALSE) = 0
    BY EndedEmpty DEF Init, One
  <1>4. Counted
    BY <1>3 DEF Init, Counted, One
  <1> QED BY <1>2, <1>4 DEF Init, IInv, Gone

\* Writing keeps the types and the count.
LEMMA WritesStep ==
  ASSUME IInv, ClientWrites
  PROVE  TypeOK' /\ Counted'
  <1> USE PipeServerAssumption DEF serverVars
  <1>1. PICK from \in {"any", "half", "polite"}, piece \in Piece,
             to \in {"any", "half", "waiting"} :
          /\ Writes(from, piece, to)
          /\ <<from, piece, to>> \in {<<"any", "whole", "any">>, <<"any", "first", "half">>,
                                     <<"half", "rest", "any">>, <<"polite", "whole", "waiting">>}
    BY DEF ClientWrites, Piece
  <1>2. /\ requests \in Seq(Piece) /\ requests' = Append(requests, piece)
        /\ Len(requests) < Capacity
    BY <1>1 DEF Writes, IInv, TypeOK
  <1>3. requests' \in Seq(Piece) /\ Len(requests') = Len(requests) + 1
    BY <1>2
  <1>4. TypeOK'
    <2>1. /\ Len(requests') <= Capacity /\ sent' \in 0..MaxSent
          /\ client' \in {"any", "half", "polite", "waiting"}
      BY <1>1, <1>2, <1>3 DEF Writes, IInv, TypeOK
    <2> QED BY <1>1, <1>3, <2>1 DEF Writes, IInv, TypeOK
  <1>5. Counted'
    <2>1. /\ message_counter' = message_counter /\ received' = received /\ runner' = runner
          /\ message_counter \in Nat /\ sent \in Nat
          /\ client = from /\ client' = to
          /\ sent' = IF piece = "rest" THEN sent ELSE sent + 1
      BY <1>1 DEF Writes, IInv, TypeOK
    <2>2. Ended(requests') = Ended(requests) + One(piece # "first") /\ Ended(requests) \in Nat
      BY <1>2, EndedAppend, EndedType
    <2>3. One(client' = "half") + One(piece # "first") + sent <= One(client = "half") + sent'
      BY <1>1, <2>1 DEF One
    <2> DEFINE p == One(runner = "Process" /\ Ends(received))
    <2>4. p \in {0, 1} /\ p' = p
      BY <2>1 DEF One, Ends
    <2>5. message_counter + p + Ended(requests) + One(client = "half") <= sent
      BY DEF IInv, Counted
    <2>6. One(client = "half") \in {0, 1} /\ One(client' = "half") \in {0, 1}
          /\ One(piece # "first") \in {0, 1} /\ sent' \in Nat
      BY <2>1 DEF One
    <2>7. message_counter' + p' + Ended(requests') + One(client' = "half") <= sent'
      <3> HIDE DEF p
      <3> QED BY <2>1, <2>2, <2>3, <2>4, <2>5, <2>6
    <2> QED BY <2>7 DEF Counted
  <1> QED BY <1>4, <1>5

\* A step that neither moves a piece nor reaches ProcessData keeps the count.
LEMMA CountKept ==
  ASSUME IInv, TypeOK',
         message_counter' = message_counter, received' = received,
         requests' = requests \/ requests' = << >>,
         runner' # "Process" \/ runner = "Process",
         client' = client \/ client' # "half",
         sent' = sent
  PROVE  Counted'
  <1>1. message_counter \in Nat /\ sent \in Nat /\ requests \in Seq(Piece)
    BY PipeServerAssumption DEF IInv, TypeOK
  <1>2. Ended(requests') \in Nat /\ Ended(requests) \in Nat
        /\ Ended(requests') <= Ended(requests)
    BY <1>1, EndedType, EndedEmpty
  <1>3. (runner' = "Process" /\ Ends(received')) => (runner = "Process" /\ Ends(received))
    OBVIOUS
  <1> HIDE DEF Ends
  <1> QED BY <1>1, <1>2, <1>3 DEF IInv, Counted, One

\* Only a chunk that does not end in the middle of a request parses.
LEMMA ParsesEnds ==
  ASSUME NEW chunk, TRUE \in Parses(chunk)
  PROVE  Ends(chunk)
  BY DEF Parses, Ends

\* Each step keeps the types and the count.
LEMMA CountedStep == IInv /\ Next => TypeOK' /\ Counted'
  <1> SUFFICES ASSUME IInv, Next PROVE TypeOK' /\ Counted'
    OBVIOUS
  <1> USE PipeServerAssumption DEF serverVars, clientVars, pipeVars
  <1>1. CASE ClientOpens
    <2>1. TypeOK'
      BY <1>1 DEF ClientOpens, IInv, TypeOK
    <2> QED BY <1>1, <2>1, CountKept DEF ClientOpens
  <1>2. CASE ClientLeaves
    <2>1. TypeOK'
      BY <1>2 DEF ClientLeaves, IInv, TypeOK
    <2> QED BY <1>2, <2>1, CountKept DEF ClientLeaves
  <1>3. CASE ClientWrites
    BY <1>3, WritesStep
  <1>4. CASE ClientReads
    <2>1. TypeOK'
      BY <1>4 DEF ClientReads, IInv, TypeOK
    <2> QED BY <1>4, <2>1, CountKept DEF ClientReads
  <1>5. CASE OwnerNext
    <2>1. TypeOK'
      <3>1. running' \in BOOLEAN
        BY <1>5 DEF OwnerNext, ShutdownStops, ShutdownCloses, Destructs, IInv, TypeOK
      <3>2. /\ requests' \in Seq(Piece) /\ Len(requests') <= Capacity /\ answers' \in 0..Capacity
            /\ instance' \in {"none", "listening", "connected", "left", "disconnected"}
        <4>1. Closes \/ UNCHANGED pipeVars
          BY <1>5 DEF OwnerNext, ShutdownStops, ShutdownCloses, Destructs
        <4>2. CASE Closes
          BY <4>2 DEF Closes
        <4>3. CASE UNCHANGED pipeVars
          BY <4>3 DEF IInv, TypeOK
        <4> QED BY <4>1, <4>2, <4>3
      <3> QED
        BY <1>5, <3>1, <3>2
        DEF OwnerNext, ShutdownStops, ShutdownCloses, Destructs, InOwner, IInv, TypeOK
    <2> QED
      BY <1>5, <2>1, CountKept
      DEF OwnerNext, ShutdownStops, ShutdownCloses, Destructs, Closes, InOwner
  <1>6. CASE RunCreates \/ RunConnects \/ RunWrites
    <2>1. TypeOK'
      BY <1>6 DEF RunCreates, RunConnects, RunWrites, Goes, InRun, IInv, TypeOK
    <2> QED BY <1>6, <2>1, CountKept DEF RunCreates, RunConnects, RunWrites, Goes, InRun
  <1>7. CASE \/ RunThrows \/ RunTop \/ RunReturns \/ RunChecks \/ RunConnected
             \/ RunReadWaits \/ RunReadFails \/ RunReadEnds \/ RunWriteFails
    <2>1. /\ runner' \in {"Threw", "Connect", "Read", "Returned", "Disconnect", "Check",
                         "Reading"}
          /\ UNCHANGED <<received, message_counter, pipeVars, running, owner, clientVars>>
      BY <1>7 DEF RunThrows, RunTop, RunReturns, RunChecks, RunConnected, RunReadWaits, RunReadFails, RunReadEnds,
         RunWriteFails, Goes, InRun
    <2>2. TypeOK'
      BY <2>1 DEF IInv, TypeOK
    <2> QED BY <2>1, <2>2, CountKept
  <1>8. CASE RunDisconnects
    <2>1. TypeOK'
      <3>1. requests' \in Seq(Piece) /\ Len(requests') <= Capacity /\ answers' \in 0..Capacity
        BY <1>8 DEF RunDisconnects
      <3> QED BY <1>8, <3>1 DEF RunDisconnects, InRun, IInv, TypeOK
    <2> QED BY <1>8, <2>1, CountKept DEF RunDisconnects, InRun
  <1>9. CASE RunReads
    <2>1. TypeOK'
      <3>1. requests' \in Seq(Piece) /\ Len(requests') <= Capacity /\ received' \in Seq(Piece)
        BY <1>9 DEF RunReads, IInv, TypeOK
      <3> QED BY <1>9, <3>1 DEF RunReads, InRun, IInv, TypeOK
    <2>2. /\ runner # "Process" /\ received' = requests /\ requests' = << >>
          /\ requests \in Seq(Piece) /\ message_counter \in Nat /\ sent \in Nat
      BY <1>9 DEF RunReads, IInv, TypeOK
    <2>3. /\ One(Ends(received')) <= Ended(requests) /\ One(Ends(received')) \in {0, 1}
          /\ Ended(requests) \in Nat /\ Ended(requests') = 0
      BY <2>2, EndedEnds, EndedType, EndedEmpty DEF One
    <2>4. Counted'
      BY <1>9, <2>2, <2>3 DEF RunReads, InRun, IInv, Counted, One
    <2> QED BY <2>1, <2>4
  <1>10. CASE RunProcesses
    <2>1. PICK ok \in Parses(received) :
            IF ok THEN message_counter' = message_counter + 1 /\ runner' = "Write"
                  ELSE UNCHANGED message_counter /\ runner' = "Check"
      BY <1>10 DEF RunProcesses
    <2>2. UNCHANGED <<received, pipeVars, running, owner, clientVars>> /\ runner = "Process"
      BY <1>10 DEF RunProcesses, InRun
    <2>3. ok \in BOOLEAN
      BY DEF Parses
    <2>4. message_counter \in Nat /\ sent \in Nat
      BY DEF IInv, TypeOK
    <2>5. TypeOK'
      BY <2>1, <2>2, <2>3, <2>4 DEF IInv, TypeOK
    <2>6. CASE ok
      <3>1. Ends(received)
        BY <2>3, <2>6, ParsesEnds
      <3> QED BY <2>1, <2>2, <2>4, <2>5, <2>6, <3>1 DEF IInv, Counted, One
    <2>7. CASE ~ok
      BY <2>1, <2>2, <2>5, <2>7, CountKept
    <2> QED BY <2>3, <2>6, <2>7
  <1>11. CASE RunReadCompletes
    <2>1. /\ requests \in Seq(Piece) /\ requests # << >> /\ Head(requests) \in Piece
          /\ requests' = Tail(requests) /\ received' = <<Head(requests)>>
          /\ message_counter \in Nat /\ sent \in Nat /\ runner = "Reading"
      BY <1>11 DEF RunReadCompletes, IInv, TypeOK
    <2>2. /\ requests' \in Seq(Piece) /\ received' \in Seq(Piece)
          /\ Len(requests') <= Capacity
      BY <2>1 DEF IInv, TypeOK
    <2>3. TypeOK'
      BY <1>11, <2>2 DEF RunReadCompletes, InRun, IInv, TypeOK
    <2>4. Ends(received') = (Head(requests) # "first")
      BY <2>1 DEF Ends
    <2>5. /\ Ended(requests) = One(Ends(received')) + Ended(requests')
          /\ Ended(requests') \in Nat /\ Ended(requests) \in Nat
      BY <2>1, <2>2, <2>4, EndedTail, EndedType
    <2>6. One(Ends(received')) \in {0, 1}
      BY DEF One
    <2>7. Counted'
      BY <1>11, <2>1, <2>5, <2>6 DEF RunReadCompletes, InRun, IInv, Counted, One
    <2> QED BY <2>3, <2>7
  <1>12. CASE RunCrashes
    <2>1. requests' \in Seq(Piece) /\ Len(requests') <= Capacity /\ answers' \in 0..Capacity
      BY <1>12 DEF RunCrashes, Closes
    <2>2. TypeOK'
      BY <1>12, <2>1 DEF RunCrashes, Closes, IInv, TypeOK
    <2> QED BY <1>12, <2>2, CountKept DEF RunCrashes, Closes
  <1> QED
    BY <1>1, <1>2, <1>3, <1>4, <1>5, <1>6, <1>7, <1>8, <1>9, <1>10, <1>11, <1>12
    DEF Next, ClientNext, RunNext

\* Nothing happens to the server after it was destroyed.
LEMMA GoneStep == IInv /\ Next => Gone'
  <1> SUFFICES ASSUME IInv, Next PROVE Gone'
    OBVIOUS
  <1> USE DEF IInv, Gone, serverVars, clientVars, pipeVars
  <1>1. CASE ClientNext
    BY <1>1 DEF ClientNext, ClientOpens, ClientLeaves, ClientWrites, Writes, ClientReads
  <1>2. CASE OwnerNext
    BY <1>2 DEF OwnerNext, ShutdownStops, ShutdownCloses, Destructs, Closes, InOwner
  <1>3. CASE RunNext
    <2>1. /\ runner \notin {"Returned", "Threw", "Crashed"}
          /\ owner' = owner \/ RunCrashes
      BY <1>3 DEF RunNext, RunCreates, RunThrows, RunTop, RunReturns, RunCrashes, RunChecks,
         RunConnects, RunConnected, RunReads, RunReadCompletes, RunReadWaits, RunReadFails, RunReadEnds, RunProcesses, RunWrites, RunWriteFails,
         RunDisconnects, Goes, InRun
    <2> QED BY <2>1 DEF RunCrashes, Closes
  <1> QED BY <1>1, <1>2, <1>3 DEF Next

\* The invariant is inductive.
LEMMA NextIInv == IInv /\ [Next]_vars => IInv'
  <1> SUFFICES ASSUME IInv, [Next]_vars PROVE IInv'
    OBVIOUS
  <1>1. CASE Next
    BY <1>1, CountedStep, GoneStep DEF IInv
  <1>2. CASE UNCHANGED vars
    BY <1>2 DEF vars, serverVars, clientVars, pipeVars, IInv, TypeOK, Counted, Gone, Ends
  <1> QED BY <1>1, <1>2

\* The invariant holds throughout.
LEMMA IInvHolds == Spec => []IInv
  BY InitIInv, NextIInv, PTL DEF Spec

\* The variables keep their types, and neither direction of the pipe overflows.
THEOREM PipeServerTypeCorrect == Spec => []TypeOK
  <1>1. IInv => TypeOK
    BY DEF IInv
  <1> QED BY <1>1, IInvHolds, PTL

\* ProcessData counts no more requests than were sent, however they are cut into
\* chunks and whenever Shutdown closes the handle.
THEOREM CountsRequestsHolds == Spec => []CountsRequests
  <1>1. IInv => CountsRequests
    <2> SUFFICES ASSUME IInv PROVE CountsRequests
      OBVIOUS
    <2>1. message_counter \in Nat /\ sent \in Nat /\ Ended(requests) \in Nat
      BY PipeServerAssumption, EndedType DEF IInv, TypeOK
    <2> QED BY <2>1 DEF IInv, Counted, One, CountsRequests
  <1> QED BY <1>1, IInvHolds, PTL

\* The destructor leaves no pipe instance behind.
THEOREM NothingLeftHolds == Spec => []NothingLeft
  <1>1. IInv => NothingLeft
    BY DEF IInv, Gone, NothingLeft
  <1> QED BY <1>1, IInvHolds, PTL

=============================================================================
