----------------------- MODULE MultithreadServerProofs -----------------------
(***************************************************************************)
(* What clients of the multithreaded server read, and on which pipes its     *)
(* threads work, for any number of clients and any size of the pipes.        *)
(***************************************************************************)
EXTENDS MultithreadServer, TLAPS

\* Before a thread writes, nothing was written and its counter is 0.
Unstarted ==
  \A i \in Instance :
    /\ client[i] = "none" =>
         thread[i] = "none" /\ received[i] = << >> /\ pipe[i] = << >>
    /\ thread[i] = "none" => counter[i] = 0
    /\ thread[i] = "Write" => counter[i] > 0

\* hPipe is open until a thread has it, and the instances after it are not made.
LastInstance ==
  /\ mainPc \in {"Connect", "Blocked"} =>
       instance[created] = "open" /\ thread[created] = "none"
  /\ \A i \in Instance : i > created => instance[i] = "none" /\ thread[i] = "none"

IInv == TypeOK /\ Unstarted /\ LastInstance /\ ThreadsHavePipes /\ CountsInOrder

-----------------------------------------------------------------------------
\* Reading moves a number from the pipe to what was read.
LEMMA ReadKeepsOrder ==
  ASSUME NEW S, NEW r \in Seq(S), NEW p \in Seq(S), p # << >>
  PROVE  /\ Append(r, Head(p)) \o Tail(p) = r \o p
         /\ Append(r, Head(p)) \in Seq(S) /\ Tail(p) \in Seq(S)
  OBVIOUS

\* Writing puts the number behind all others.
LEMMA WriteAtEnd ==
  ASSUME NEW S, NEW r \in Seq(S), NEW p \in Seq(S), NEW x \in S
  PROVE  r \o Append(p, x) = Append(r \o p, x) /\ Append(p, x) \in Seq(S)
  OBVIOUS

\* The numbers up to n with n + 1 behind them are those up to n + 1.
LEMMA CountUp ==
  ASSUME NEW n \in Nat, NEW m \in Nat, m = n + 1
  PROVE  Append([k \in 1..n |-> k], m) = [k \in 1..m |-> k]
  <1> DEFINE s == [k \in 1..n |-> k]
  <1>1. s \in Seq(Nat) /\ Len(s) = n
    OBVIOUS
  <1>2. Append(s, m) \in Seq(Nat) /\ Len(Append(s, m)) = m
    BY <1>1
  <1>3. \A k \in 1..m : Append(s, m)[k] = k
    BY <1>1
  <1> QED BY <1>2, <1>3

-----------------------------------------------------------------------------
\* The initial states satisfy the invariant.
LEMMA InitIInv == Init => IInv
  <1> SUFFICES ASSUME Init PROVE IInv
    OBVIOUS
  <1>1. TypeOK
    BY MultithreadAssumption DEF Init, TypeOK, Instance
  <1>2. \A i \in Instance : << >> \o << >> = [k \in 1..0 |-> k]
    OBVIOUS
  <1>3. CountsInOrder
    BY DEF Init, CountsInOrder
  <1> QED
    BY <1>1, <1>3 DEF Init, IInv, Unstarted, LastInstance, ThreadsHavePipes

\* Each step of a client keeps the invariant.
LEMMA ClientStep ==
  ASSUME IInv, NEW i \in Instance, Connect(i) \/ Read(i) \/ Leave(i)
  PROVE  IInv'
  <1>1. CASE Connect(i)
    <2>1. TypeOK'
      BY <1>1 DEF Connect, IInv, TypeOK
    <2>2. received[i] \o pipe[i] = [k \in 1..Written(i) |-> k]
      <3>1. Written(i) = 0 /\ received[i] = << >> /\ pipe[i] = << >>
        BY <1>1 DEF Connect, IInv, Unstarted, Written
      <3> QED BY <3>1
    <2>3. CountsInOrder'
      BY <1>1, <2>2 DEF Connect, IInv, TypeOK, CountsInOrder, Written
    <2> QED
      BY <1>1, <2>1, <2>3
      DEF Connect, IInv, TypeOK, Unstarted, LastInstance, ThreadsHavePipes
  <1>2. CASE Read(i)
    <2> DEFINE r == received[i]
               p == pipe[i]
    <2>1. r \in Seq(1..MaxCount) /\ p \in Seq(1..MaxCount) /\ p # << >>
      BY <1>2 DEF Read, IInv, TypeOK
    <2>2. /\ Append(r, Head(p)) \o Tail(p) = r \o p
          /\ Append(r, Head(p)) \in Seq(1..MaxCount) /\ Tail(p) \in Seq(1..MaxCount)
      BY <2>1, ReadKeepsOrder
    <2>3. /\ received' = [received EXCEPT ![i] = Append(r, Head(p))]
          /\ pipe' = [pipe EXCEPT ![i] = Tail(p)]
      BY <1>2 DEF Read
    <2> HIDE DEF r, p
    <2>4. TypeOK'
      <3>1. received' \in [Instance -> Seq(1..MaxCount)]
        BY <2>2, <2>3 DEF IInv, TypeOK
      <3>2. pipe' \in [Instance -> Seq(1..MaxCount)]
        BY <2>2, <2>3 DEF IInv, TypeOK
      <3> QED BY <1>2, <3>1, <3>2 DEF Read, IInv, TypeOK
    <2>5. \A j \in Instance : received'[j] \o pipe'[j] = received[j] \o pipe[j]
      BY <2>2, <2>3 DEF IInv, TypeOK, r, p
    <2>6. CountsInOrder'
      BY <1>2, <2>5 DEF Read, IInv, CountsInOrder, Written
    <2>7. Unstarted'
      BY <1>2, <2>3 DEF Read, IInv, TypeOK, Unstarted
    <2>8. LastInstance' /\ ThreadsHavePipes'
      BY <1>2 DEF Read, IInv, LastInstance, ThreadsHavePipes
    <2> QED BY <2>4, <2>6, <2>7, <2>8 DEF IInv
  <1>3. CASE Leave(i)
    <2>1. TypeOK'
      BY <1>3 DEF Leave, IInv, TypeOK
    <2>2. CountsInOrder'
      BY <1>3 DEF Leave, IInv, TypeOK, CountsInOrder, Written
    <2> QED
      BY <1>3, <2>1, <2>2
      DEF Leave, IInv, TypeOK, Unstarted, LastInstance, ThreadsHavePipes
  <1> QED BY <1>1, <1>2, <1>3

\* The end of the process keeps the invariant.
LEMMA ExitStep == IInv /\ Exits => IInv'
  <1> SUFFICES ASSUME IInv, Exits PROVE IInv'
    OBVIOUS
  <1>1. TypeOK'
    BY DEF Exits, IInv, TypeOK
  <1>2. CountsInOrder'
    BY DEF Exits, IInv, TypeOK, CountsInOrder, Written
  <1> QED
    BY <1>1, <1>2 DEF Exits, IInv, TypeOK, Unstarted, LastInstance, ThreadsHavePipes

\* Each step of the main thread keeps the invariant.
LEMMA MainStep == IInv /\ MainNext => IInv'
  <1> SUFFICES ASSUME IInv, MainNext PROVE IInv'
    OBVIOUS
  <1> USE MultithreadAssumption
  <1>1. CASE MainCreate
    <2>1. TypeOK'
      BY <1>1 DEF MainCreate, clientSide, IInv, TypeOK, Instance
    <2>2. CountsInOrder'
      BY <1>1 DEF MainCreate, clientSide, IInv, CountsInOrder, Written
    <2>3. LastInstance' /\ ThreadsHavePipes'
      BY <1>1 DEF MainCreate, clientSide, IInv, TypeOK, LastInstance,
                  ThreadsHavePipes, Instance
    <2> QED
      BY <1>1, <2>1, <2>2, <2>3 DEF MainCreate, clientSide, IInv, Unstarted
  <1>2. CASE MainBlocks
    BY <1>2 DEF MainBlocks, clientSide, IInv, TypeOK, Unstarted, LastInstance,
                ThreadsHavePipes, CountsInOrder, Written
  <1>3. CASE MainSpawns
    <2>1. created \in Instance /\ client[created] # "none"
      BY <1>3 DEF MainSpawns, Connected, IInv, TypeOK, Instance
    <2>2. TypeOK'
      BY <1>3 DEF MainSpawns, Connected, clientSide, IInv, TypeOK
    <2>3. CountsInOrder'
      BY <1>3 DEF MainSpawns, Connected, clientSide, IInv, TypeOK, LastInstance,
                  CountsInOrder, Written
    <2>4. Unstarted'
      BY <1>3, <2>1 DEF MainSpawns, Connected, clientSide, IInv, TypeOK, Unstarted
    <2>5. LastInstance' /\ ThreadsHavePipes'
      BY <1>3, <2>1 DEF MainSpawns, Connected, clientSide, IInv, TypeOK, Instance,
                        LastInstance, ThreadsHavePipes
    <2> QED BY <2>2, <2>3, <2>4, <2>5 DEF IInv
  <1>4. CASE MainCloses
    <2>1. TypeOK'
      BY <1>4 DEF MainCloses, Gone, IInv, TypeOK
    <2>2. CountsInOrder'
      BY <1>4 DEF MainCloses, Gone, IInv, TypeOK, CountsInOrder, Written
    <2>3. Unstarted'
      BY <1>4 DEF MainCloses, Gone, IInv, TypeOK, Unstarted
    <2>4. LastInstance' /\ ThreadsHavePipes'
      BY <1>4 DEF MainCloses, Gone, IInv, TypeOK, Instance, LastInstance, ThreadsHavePipes
    <2> QED BY <2>1, <2>2, <2>3, <2>4 DEF IInv
  <1> QED
    BY <1>1, <1>2, <1>3, <1>4, ExitStep DEF MainNext, MainCreateFails, MainSpawnFails

\* Each step of an InstanceThread keeps the invariant.
LEMMA ThreadStep ==
  ASSUME IInv, NEW i \in Instance, ThreadNext(i)
  PROVE  IInv'
  <1> USE MultithreadAssumption
  <1>1. CASE ThreadStart(i) \/ ThreadWriteFails(i)
    <2>1. thread[i] \in {"Start", "Write"} /\ (thread[i] = "Write" => client[i] = "gone")
      BY <1>1 DEF ThreadStart, ThreadWriteFails
    <2>2. PICK place \in {"Check", "Ended"} : thread' = [thread EXCEPT ![i] = place]
      BY <1>1 DEF ThreadStart, ThreadWriteFails
    <2>3. UNCHANGED <<running, mainPc, created, instance, client, pipe, received, counter>>
      BY <1>1 DEF ThreadStart, ThreadWriteFails, clientSide
    <2>4. TypeOK'
      BY <2>2, <2>3 DEF IInv, TypeOK
    <2>5. CountsInOrder'
      BY <2>1, <2>2, <2>3 DEF IInv, TypeOK, CountsInOrder, Written
    <2> QED
      BY <2>1, <2>2, <2>3, <2>4, <2>5
      DEF IInv, TypeOK, Unstarted, LastInstance, ThreadsHavePipes
  <1>2. CASE ThreadCheck(i)
    <2>1. TypeOK'
      BY <1>2 DEF ThreadCheck, clientSide, IInv, TypeOK
    <2>2. \A j \in Instance : Written(j)' = Written(j)
      <3> TAKE j \in Instance
      <3>1. counter[j] \in Nat
        BY DEF IInv, TypeOK
      <3>2. CASE j = i
        BY <1>2, <3>1, <3>2 DEF ThreadCheck, IInv, TypeOK, Written
      <3>3. CASE j # i
        BY <1>2, <3>3 DEF ThreadCheck, IInv, TypeOK, Written
      <3> QED BY <3>2, <3>3
    <2>3. CountsInOrder'
      BY <1>2, <2>2 DEF ThreadCheck, clientSide, IInv, CountsInOrder
    <2> QED
      BY <1>2, <2>1, <2>3
      DEF ThreadCheck, clientSide, IInv, TypeOK, Unstarted, LastInstance, ThreadsHavePipes
  <1>3. CASE ThreadWrite(i)
    <2> DEFINE r == received[i]
               p == pipe[i]
               n == counter[i] - 1
    <2>1. /\ r \in Seq(1..MaxCount) /\ p \in Seq(1..MaxCount)
          /\ counter[i] \in 1..MaxCount /\ n \in Nat /\ counter[i] = n + 1
      <3>1. r \in Seq(1..MaxCount) /\ p \in Seq(1..MaxCount)
        BY DEF IInv, TypeOK
      <3>2. counter[i] \in 0..MaxCount /\ counter[i] > 0
        BY <1>3 DEF ThreadWrite, IInv, TypeOK, Unstarted
      <3>3. counter[i] \in 1..MaxCount /\ n \in Nat /\ counter[i] = n + 1
        BY <3>2
      <3> QED BY <3>1, <3>3
    <2>2. r \o p = [k \in 1..n |-> k]
      BY <1>3 DEF ThreadWrite, IInv, CountsInOrder, Written
    <2>3. /\ pipe' = [pipe EXCEPT ![i] = Append(p, counter[i])]
          /\ thread' = [thread EXCEPT ![i] = "Check"]
      BY <1>3 DEF ThreadWrite
    <2> HIDE DEF r, p, n
    <2>4. /\ r \o Append(p, counter[i]) = Append(r \o p, counter[i])
          /\ Append(p, counter[i]) \in Seq(1..MaxCount)
      BY <2>1, WriteAtEnd
    <2>5. Append([k \in 1..n |-> k], counter[i]) = [k \in 1..counter[i] |-> k]
      BY <2>1, CountUp
    <2>6. r \o Append(p, counter[i]) = [k \in 1..counter[i] |-> k]
      BY <2>2, <2>4, <2>5
    <2>7. TypeOK'
      BY <1>3, <2>3, <2>4 DEF ThreadWrite, IInv, TypeOK
    <2>8. CountsInOrder'
      <3> SUFFICES ASSUME NEW j \in Instance, client'[j] = "open"
                   PROVE  received'[j] \o pipe'[j] = [k \in 1..Written(j)' |-> k]
        BY DEF CountsInOrder
      <3>1. CASE j = i
        <4>1. /\ received'[j] = r /\ pipe'[j] = Append(p, counter[i])
              /\ Written(j)' = counter[i]
          BY <1>3, <2>3, <3>1 DEF ThreadWrite, IInv, TypeOK, Written, r
        <4> QED BY <2>6, <4>1
      <3>2. CASE j # i
        <4>1. /\ received'[j] = received[j] /\ pipe'[j] = pipe[j]
              /\ client[j] = "open" /\ Written(j)' = Written(j)
          BY <1>3, <2>3, <3>2 DEF ThreadWrite, IInv, TypeOK, Written
        <4> QED BY <4>1 DEF IInv, CountsInOrder
      <3> QED BY <3>1, <3>2
    <2> QED
      BY <1>3, <2>3, <2>7, <2>8
      DEF ThreadWrite, IInv, TypeOK, Unstarted, LastInstance, ThreadsHavePipes
  <1> QED BY <1>1, <1>2, <1>3 DEF ThreadNext

\* The invariant is inductive.
LEMMA NextIInv == IInv /\ [Next]_vars => IInv'
  <1> SUFFICES ASSUME IInv, [Next]_vars PROVE IInv'
    OBVIOUS
  <1>1. CASE Sigint
    BY <1>1 DEF Sigint, clientSide, IInv, TypeOK, Unstarted, LastInstance,
                ThreadsHavePipes, CountsInOrder, Written
  <1>2. CASE UNCHANGED vars
    BY <1>2 DEF vars, IInv, TypeOK, Unstarted, LastInstance, ThreadsHavePipes,
                CountsInOrder, Written
  <1> QED BY <1>1, <1>2, ClientStep, MainStep, ThreadStep DEF Next

\* The invariant holds throughout.
LEMMA IInvHolds == Spec => []IInv
  BY InitIInv, NextIInv, PTL DEF Spec

\* The variables of the multithreaded server keep their types.
THEOREM MultithreadTypeCorrect == Spec => []TypeOK
  <1>1. IInv => TypeOK
    BY DEF IInv
  <1> QED BY <1>1, IInvHolds, PTL

\* Each client reads the numbers from 1 on, whatever the other threads write.
THEOREM CountsInOrderHolds == Spec => []CountsInOrder
  <1>1. IInv => CountsInOrder
    BY DEF IInv
  <1> QED BY <1>1, IInvHolds, PTL

\* A thread works on an open pipe, and only hPipe has no thread.
THEOREM ThreadsHavePipesHolds == Spec => []ThreadsHavePipes
  <1>1. IInv => ThreadsHavePipes
    BY DEF IInv
  <1> QED BY <1>1, IInvHolds, PTL

=============================================================================
