-------------------------- MODULE BasicServerProofs --------------------------
(***************************************************************************)
(* What clients of the basic server read, for any number of clients and any  *)
(* size of the pipe.                                                         *)
(***************************************************************************)
EXTENDS BasicServer, TLAPS

\* Until a client is served nothing was counted; what was not counted was not
\* written.
Fresh ==
  /\ pc \in {"Create", "Connect", "Blocked"} => counter = 0
  /\ pc \in {"Top", "Disconnect"} /\ running => counter = 0
  /\ pc = "Write" => counter > 0
  /\ counter = 0 => pipe = << >> /\ \A c \in Client : received[c] = << >>

\* The instance can be opened only before anybody was served, and the client
\* that holds its other end is peer.
OnePeer ==
  /\ listening => /\ pc \in {"Top", "Connect", "Blocked"}
                  /\ peer = NoClient /\ counter = 0
  /\ \A c \in Client : client[c] = "open" => c = peer
  /\ pc \in {"Create", "Returned", "Failed"} => peer = NoClient

IInv == TypeOK /\ Fresh /\ OnePeer /\ CountsInOrder

-----------------------------------------------------------------------------
\* Reading moves a number from the pipe to what was read.
LEMMA ReadKeepsOrder ==
  ASSUME NEW S, NEW r \in Seq(S), NEW p \in Seq(S), p # << >>
  PROVE  /\ Append(r, Head(p)) \o Tail(p) = r \o p
         /\ Append(r, Head(p)) \in Seq(S) /\ Tail(p) \in Seq(S)
  OBVIOUS

\* Writing puts the number behind all others.
LEMMA WriteAtEnd ==
  ASSUME NEW S, NEW r \in Seq(S), NEW p \in Seq(S), NEW x \in S
  PROVE  r \o Append(p, x) = Append(r \o p, x) /\ Append(p, x) \in Seq(S)
  OBVIOUS

\* The numbers up to n with n + 1 behind them are those up to n + 1.
LEMMA CountUp ==
  ASSUME NEW n \in Nat, NEW m \in Nat, m = n + 1
  PROVE  Append([k \in 1..n |-> k], m) = [k \in 1..m |-> k]
  <1> DEFINE s == [k \in 1..n |-> k]
  <1>1. s \in Seq(Nat) /\ Len(s) = n
    OBVIOUS
  <1>2. Append(s, m) \in Seq(Nat) /\ Len(Append(s, m)) = m
    BY <1>1
  <1>3. \A k \in 1..m : Append(s, m)[k] = k
    BY <1>1
  <1> QED BY <1>2, <1>3

\* What a reader has read, with the next element, begins as the whole sequence.
LEMMA ReadBegins ==
  ASSUME NEW S, NEW r \in Seq(S), NEW p \in Seq(S), p # << >>
  PROVE  /\ Append(r, Head(p)) \in Seq(S)
         /\ Len(Append(r, Head(p))) <= Len(r \o p)
         /\ \A k \in 1..Len(Append(r, Head(p))) : Append(r, Head(p))[k] = (r \o p)[k]
  <1> DEFINE s == Append(r, Head(p))
             t == r \o p
  <1>1. /\ Len(r) \in Nat /\ Len(p) \in Nat /\ Len(p) > 0
        /\ Head(p) \in S /\ Head(p) = p[1]
    OBVIOUS
  <1>2. s \in Seq(S) /\ Len(s) = Len(r) + 1 /\ s[Len(r) + 1] = Head(p)
    BY <1>1
  <1>3. \A k \in 1..Len(r) : s[k] = r[k]
    BY <1>1
  <1>4. Len(t) = Len(r) + Len(p)
    OBVIOUS
  <1>5. t[Len(r) + 1] = p[1] /\ \A k \in 1..Len(r) : t[k] = r[k]
    BY <1>1
  <1> HIDE DEF s, t
  <1>6. \A k \in 1..Len(s) : s[k] = t[k]
    BY <1>1, <1>2, <1>3, <1>5
  <1>7. Len(s) <= Len(t)
    BY <1>1, <1>2, <1>4
  <1> QED BY <1>2, <1>6, <1>7 DEF s, t

\* A sequence that holds k at each place k is the numbers up to its length.
LEMMA NumbersUpTo ==
  ASSUME NEW S, NEW s \in Seq(S), \A k \in 1..Len(s) : s[k] = k
  PROVE  s = [k \in 1..Len(s) |-> k]
  OBVIOUS

\* The numbers up to n: how many, and which.
LEMMA UpToNumbers ==
  ASSUME NEW n \in Nat, NEW t, t = [k \in 1..n |-> k]
  PROVE  Len(t) = n /\ \A k \in 1..n : t[k] = k
  OBVIOUS

\* What begins the numbers from 1 on is such numbers itself.
LEMMA CountBegins ==
  ASSUME NEW S, NEW s \in Seq(S), NEW n \in Nat, NEW t, Len(t) = n,
         \A k \in 1..n : t[k] = k,
         Len(s) <= Len(t), \A k \in 1..Len(s) : s[k] = t[k]
  PROVE  s = [k \in 1..Len(s) |-> k]
  <1>1. Len(s) \in Nat
    OBVIOUS
  <1>2. \A k \in 1..Len(s) : s[k] = k
    BY <1>1
  <1> QED BY <1>2, NumbersUpTo

-----------------------------------------------------------------------------
\* The initial states satisfy the invariant.
LEMMA InitIInv == Init => IInv
  <1> SUFFICES ASSUME Init PROVE IInv
    OBVIOUS
  <1> USE BasicAssumption
  <1>1. TypeOK /\ Fresh /\ OnePeer
    <2>1. TypeOK
      <3>1. << >> \in Seq(1..MaxCount)
        OBVIOUS
      <3>2. /\ client \in [Client -> {"none", "open", "gone", "dropped"}]
            /\ received \in [Client -> Seq(1..MaxCount)]
        BY <3>1 DEF Init
      <3>3. /\ running = TRUE /\ pc = "Create" /\ counter = 0 /\ listening = FALSE
            /\ peer = NoClient /\ pipe = << >>
        BY DEF Init
      <3>4. running \in BOOLEAN /\ listening \in BOOLEAN
        BY <3>3
      <3>5. peer \in Client \cup {NoClient}
        BY <3>3
      <3>6. counter \in 0..MaxCount
        BY <3>3
      <3>7. pipe \in Seq(1..MaxCount)
        BY <3>1, <3>3
      <3>8. /\ pc \in {"Create", "Top", "Connect", "Blocked", "Check", "Write", "Disconnect",
             "Returned", "Failed"}
            /\ pc \in {"Check", "Write"} => peer # NoClient
        BY <3>3
      <3> QED BY <3>2, <3>4, <3>5, <3>6, <3>7, <3>8 DEF TypeOK
    <2> QED BY <2>1 DEF Init, Fresh, OnePeer
  <1>2. << >> = UpTo(Len(<< >>))
    BY DEF UpTo
  <1>3. CountsInOrder
    BY <1>2 DEF Init, CountsInOrder
  <1> QED BY <1>1, <1>3 DEF IInv

\* Dropping the client keeps what the clients have read.
LEMMA DropsKeeps ==
  ASSUME IInv, Drops, NEW place \in {"Top", "Returned", "Failed"}, pc' = place,
         UNCHANGED <<running, counter>>, place = "Top" => running = FALSE \/ counter = 0
  PROVE  IInv'
  <1>1. TypeOK'
    <2>1. << >> \in Seq(1..MaxCount)
      OBVIOUS
    <2>2. client' \in [Client -> {"none", "open", "gone", "dropped"}]
      BY DEF Drops, IInv, TypeOK
    <2>3. peer' \in Client \cup {NoClient} /\ received' = received /\ listening' = FALSE
      BY DEF Drops
    <2> QED BY <2>1, <2>2, <2>3 DEF Drops, IInv, TypeOK
  <1>2. Fresh'
    BY DEF Drops, IInv, TypeOK, Fresh
  <1>3. OnePeer'
    BY DEF Drops, IInv, TypeOK, OnePeer
  <1>4. CountsInOrder'
    BY DEF Drops, IInv, TypeOK, CountsInOrder
  <1> QED BY <1>1, <1>2, <1>3, <1>4 DEF IInv

\* Each step of a client keeps the invariant.
LEMMA ClientStep ==
  ASSUME IInv, NEW c \in Client, Open(c) \/ Read(c) \/ Leave(c)
  PROVE  IInv'
  <1>1. CASE Open(c)
    <2>1. counter = 0 /\ pipe = << >> /\ received[c] = << >> /\ pc # "Write"
      BY <1>1 DEF Open, IInv, Fresh, OnePeer
    <2>2. << >> \o << >> = UpTo(0)
      BY DEF UpTo
    <2>3. TypeOK' /\ Fresh' /\ OnePeer'
      BY <1>1, <2>1, BasicAssumption DEF Open, IInv, TypeOK, Fresh, OnePeer
    <2>4. CountsInOrder'
      <3>1. \A d \in Client : client'[d] = "open" => d = c
        BY <1>1, BasicAssumption DEF Open, IInv, TypeOK, OnePeer
      <3> QED BY <1>1, <2>1, <2>2, <3>1 DEF Open, IInv, CountsInOrder, Written
    <2> QED BY <2>3, <2>4 DEF IInv
  <1>2. CASE Read(c)
    <2> DEFINE r == received[c]
               s == Append(r, Head(pipe))
               t == r \o pipe
    <2>1. r \in Seq(1..MaxCount) /\ pipe \in Seq(1..MaxCount) /\ pipe # << >>
      BY <1>2 DEF Read, IInv, TypeOK
    <2>2. s \o Tail(pipe) = t /\ s \in Seq(1..MaxCount) /\ Tail(pipe) \in Seq(1..MaxCount)
      BY <2>1, ReadKeepsOrder
    <2>3. Len(s) <= Len(t) /\ \A k \in 1..Len(s) : s[k] = t[k]
      BY <2>1, ReadBegins
    <2>4. t = UpTo(Written)
      BY <1>2 DEF Read, IInv, CountsInOrder
    <2>5. Written \in Nat
      BY DEF IInv, TypeOK, Fresh, Written
    <2>6. received' = [received EXCEPT ![c] = s] /\ pipe' = Tail(pipe)
      BY <1>2 DEF Read
    <2> HIDE DEF r, s, t
    <2>7. Len(t) = Written /\ \A k \in 1..Written : t[k] = k
      BY <2>4, <2>5, UpToNumbers DEF UpTo
    <2>8. s = UpTo(Len(s))
      BY <2>2, <2>3, <2>5, <2>7, CountBegins DEF UpTo
    <2>9. TypeOK'
      BY <1>2, <2>2, <2>6 DEF Read, IInv, TypeOK
    <2>10. counter # 0
      BY <1>2 DEF Read, IInv, Fresh
    <2>11. Fresh' /\ OnePeer'
      BY <1>2, <2>10 DEF Read, IInv, Fresh, OnePeer
    <2>12. CountsInOrder'
      <3>1. \A d \in Client : received'[d] = IF d = c THEN s ELSE received[d]
        BY <2>6 DEF IInv, TypeOK
      <3>2. \A d \in Client : client'[d] = "open" => d = c
        BY <1>2 DEF Read, IInv, OnePeer
      <3>3. Written' = Written
        BY <1>2 DEF Read, Written
      <3>4. received'[c] \o pipe' = UpTo(Written)
        BY <2>2, <2>4, <2>6, <3>1
      <3>5. \A d \in Client : received'[d] = UpTo(Len(received'[d]))
        BY <2>8, <3>1 DEF IInv, CountsInOrder
      <3> QED BY <3>2, <3>3, <3>4, <3>5 DEF CountsInOrder
    <2> QED BY <2>9, <2>11, <2>12 DEF IInv
  <1>3. CASE Leave(c)
    <2>1. TypeOK' /\ Fresh' /\ OnePeer'
      BY <1>3 DEF Leave, IInv, TypeOK, Fresh, OnePeer
    <2>2. \A d \in Client : client'[d] # "open"
      BY <1>3 DEF Leave, IInv, TypeOK, OnePeer
    <2>3. CountsInOrder'
      BY <1>3, <2>2 DEF Leave, IInv, CountsInOrder
    <2> QED BY <2>1, <2>3 DEF IInv
  <1> QED BY <1>1, <1>2, <1>3

\* Each step of the server keeps the invariant.
LEMMA ServerStep == IInv /\ ServerNext => IInv'
  <1> SUFFICES ASSUME IInv, ServerNext PROVE IInv'
    OBVIOUS
  <1> USE BasicAssumption
  <1>1. CASE Create \/ CreateFails \/ ConnectBlocks \/ ConnectReturns \/ ConnectFails
    <2> USE DEF Create, CreateFails, ConnectBlocks, ConnectReturns, ConnectFails, Goes,
                instance
    <2>1. TypeOK'
      BY <1>1 DEF IInv, TypeOK
    <2>2. Fresh'
      BY <1>1 DEF IInv, Fresh
    <2>3. OnePeer'
      BY <1>1 DEF IInv, Fresh, OnePeer
    <2>4. Written' = Written
      BY <1>1 DEF Written
    <2>5. CountsInOrder'
      BY <1>1, <2>4 DEF IInv, CountsInOrder
    <2> QED BY <2>1, <2>2, <2>3, <2>5 DEF IInv
  <1>2. CASE Top
    <2>1. CASE running
      BY <1>2, <2>1 DEF Top, Goes, instance, IInv, TypeOK, Fresh, OnePeer, CountsInOrder,
                        Written
    <2>2. CASE ~running
      BY <1>2, <2>2, DropsKeeps DEF Top, Goes
    <2> QED BY <2>1, <2>2
  <1>3. CASE Check
    <2>1. TypeOK' /\ Fresh' /\ OnePeer'
      BY <1>3 DEF Check, Goes, instance, IInv, TypeOK, Fresh, OnePeer
    <2>2. Written' = Written
      BY <1>3 DEF Check, Goes, IInv, TypeOK, Written
    <2>3. CountsInOrder'
      BY <1>3, <2>2 DEF Check, instance, IInv, CountsInOrder
    <2> QED BY <2>1, <2>3 DEF IInv
  <1>4. CASE Write
    <2> DEFINE n == counter - 1
               r == received[peer]
    <2>1. peer \in Client /\ r \in Seq(1..MaxCount) /\ pipe \in Seq(1..MaxCount)
      BY <1>4 DEF Write, IInv, TypeOK
    <2>2. counter \in 1..MaxCount /\ n \in Nat /\ counter = n + 1
      BY <1>4 DEF Write, IInv, TypeOK, Fresh
    <2>3. r \o pipe = UpTo(n)
      BY <1>4, <2>1 DEF Write, IInv, CountsInOrder, Written
    <2> HIDE DEF n, r
    <2>4. r \o Append(pipe, counter) = Append(r \o pipe, counter)
          /\ Append(pipe, counter) \in Seq(1..MaxCount)
      BY <2>1, <2>2, WriteAtEnd
    <2>5. Append(UpTo(n), counter) = UpTo(counter)
      BY <2>2, CountUp DEF UpTo
    <2>6. TypeOK' /\ Fresh' /\ OnePeer'
      BY <1>4, <2>2, <2>4 DEF Write, Goes, IInv, TypeOK, Fresh, OnePeer
    <2>7. CountsInOrder'
      <3>1. \A d \in Client : client'[d] = "open" => d = peer
        BY <1>4 DEF Write, IInv, OnePeer
      <3>2. Written' = counter /\ pipe' = Append(pipe, counter) /\ received' = received
        BY <1>4 DEF Write, Goes, Written
      <3>3. received'[peer] \o pipe' = UpTo(Written')
        BY <2>3, <2>4, <2>5, <3>2 DEF r
      <3> QED BY <3>1, <3>2, <3>3 DEF IInv, CountsInOrder
    <2> QED BY <2>6, <2>7 DEF IInv
  <1>5. CASE WriteFails
    BY <1>5, DropsKeeps DEF WriteFails, Goes
  <1>6. CASE Disconnect
    BY <1>6, DropsKeeps DEF Disconnect, Goes, IInv, Fresh, TypeOK
  <1> QED BY <1>1, <1>2, <1>3, <1>4, <1>5, <1>6 DEF ServerNext

\* The invariant is inductive.
LEMMA NextIInv == IInv /\ [Next]_vars => IInv'
  <1> SUFFICES ASSUME IInv, [Next]_vars PROVE IInv'
    OBVIOUS
  <1>1. CASE Sigint
    BY <1>1 DEF Sigint, instance, IInv, TypeOK, Fresh, OnePeer, CountsInOrder, Written
  <1>2. CASE UNCHANGED vars
    BY <1>2 DEF vars, IInv, TypeOK, Fresh, OnePeer, CountsInOrder, Written
  <1> QED BY <1>1, <1>2, ClientStep, ServerStep DEF Next

\* The invariant holds throughout.
LEMMA IInvHolds == Spec => []IInv
  BY InitIInv, NextIInv, PTL DEF Spec

\* The variables of the basic server keep their types, and it writes only to a
\* client that is there.
THEOREM BasicTypeCorrect == Spec => []TypeOK
  <1>1. IInv => TypeOK
    BY DEF IInv
  <1> QED BY <1>1, IInvHolds, PTL

\* Every client reads the numbers from 1 on, whoever came before it.
THEOREM BasicCountsInOrder == Spec => []CountsInOrder
  <1>1. IInv => CountsInOrder
    BY DEF IInv
  <1> QED BY <1>1, IInvHolds, PTL

=============================================================================
