--------------------------- MODULE DeliveryProofs ---------------------------
(***************************************************************************)
(* What the asynchronous server hands to the message handler is what the   *)
(* clients sent, in the order they sent it, as long as no client sends     *)
(* more than two messages: theorems about NamedPipeServer.                 *)
(*                                                                         *)
(* A position <<w, l>> in what a client writes stands behind l bytes of    *)
(* its message w.  Of each client there is one position p (Flows) such     *)
(* that the message being read has what comes before p, and the completed  *)
(* read, the pipe and the writes to come continue at p without a gap; what *)
(* was distributed comes before p.                                         *)
(*                                                                         *)
(* No message before p is missing either, unless a lookup misses (Gapless),*)
(* so the server implements MessageDelivery.                               *)
(***************************************************************************)
EXTENDS NamedPipeServerProofs

\* The bytes of a client's messages as pieces: intervals of one message.

\* Bytes k + 1 to l of the w-th message of client c.
Bytes(c, w, k, l) == [i \in 1..(l - k) |-> <<c, w, k + i>>]

\* They are a sequence of bytes, ...
LEMMA BytesType ==
  ASSUME NEW c, NEW w, NEW k, NEW l,
         c \in Nat, w \in Nat, k \in Nat, l \in Nat, k <= l
  PROVE  Bytes(c, w, k, l) \in Seq(Byte)
<1>1. l - k \in Nat /\ \A i \in 1..(l - k) : k + i \in Nat
  OBVIOUS
<1>2. Bytes(c, w, k, l) \in [1..(l - k) -> Byte]
  BY <1>1 DEF Bytes, Byte
<1>3. ASSUME NEW n \in Nat, NEW f \in [1..n -> Byte] PROVE f \in Seq(Byte)
  BY <1>3
<1> QED BY <1>1, <1>2, <1>3

\* ... l - k of them, ...
LEMMA BytesLength ==
  ASSUME NEW c, NEW w, NEW k, NEW l,
         c \in Nat, w \in Nat, k \in Nat, l \in Nat, k <= l
  PROVE  Len(Bytes(c, w, k, l)) = l - k
<1>1. l - k \in Nat
  OBVIOUS
<1>2. Bytes(c, w, k, l) \in Seq(Byte) /\ DOMAIN Bytes(c, w, k, l) = 1..(l - k)
  BY BytesType DEF Bytes
<1> HIDE DEF Bytes
<1>3. ASSUME NEW s \in Seq(Byte), NEW n \in Nat, DOMAIN s = 1..n PROVE Len(s) = n
  BY <1>3
<1> QED BY <1>1, <1>2, <1>3

\* ... numbered from k + 1.
LEMMA BytesAt ==
  ASSUME NEW c, NEW w, NEW k, NEW l, NEW i \in 1..(l - k)
  PROVE  Bytes(c, w, k, l)[i] = <<c, w, k + i>>
BY DEF Bytes

\* Two sequences of bytes are the same if they have the same bytes.
LEMMA SameSequence ==
  ASSUME NEW s \in Seq(Byte), NEW t \in Seq(Byte), Len(s) = Len(t),
         \A i \in 1..Len(s) : s[i] = t[i]
  PROVE  s = t
OBVIOUS

\* The rest of a sequence behind its first a elements.
LEMMA SequenceRest ==
  ASSUME NEW S, NEW q \in Seq(S), NEW a \in Nat, NEW z \in Nat, a <= z, z = Len(q)
  PROVE  /\ SubSeq(q, a + 1, z) \in Seq(S)
         /\ Len(SubSeq(q, a + 1, z)) = z - a
         /\ \A i \in 1..(z - a) : SubSeq(q, a + 1, z)[i] = q[a + i]
OBVIOUS

\* What a read takes of an interval, and what it leaves.
LEMMA BytesTaken ==
  ASSUME NEW c, NEW w, NEW k, NEW l, NEW n, NEW m,
         c \in Nat, w \in Nat, k \in Nat, l \in Nat, k <= l, n \in Nat, m \in Nat,
         m = Lesser(l, k + n)
  PROVE  Transfer(Bytes(c, w, k, l), n) = Bytes(c, w, k, m)
<1> DEFINE f == Bytes(c, w, k, l)
<1>1. k <= m /\ m <= l
  BY DEF Lesser
<1>2. f \in Seq(Byte)
  BY BytesType
<1>3. Len(f) = l - k
  BY BytesLength
<1>4. \A i \in 1..(l - k) : f[i] = <<c, w, k + i>>
  BY DEF Bytes
<1>5. Lesser(Len(f), n) = m - k
  BY <1>3 DEF Lesser
<1> HIDE DEF f
<1>6. /\ SubSeq(f, 1, m - k) \in Seq(Byte) /\ Len(SubSeq(f, 1, m - k)) = m - k
      /\ \A i \in 1..(m - k) : SubSeq(f, 1, m - k)[i] = f[i]
  BY <1>1, <1>2, <1>3
<1>7. \A i \in 1..(m - k) : f[i] = <<c, w, k + i>>
  BY <1>1, <1>4
<1>8. Bytes(c, w, k, m) \in Seq(Byte)
  BY <1>1, BytesType
<1>9. Len(Bytes(c, w, k, m)) = m - k
  BY <1>1, BytesLength
<1>10. \A i \in 1..(m - k) : Bytes(c, w, k, m)[i] = <<c, w, k + i>>
  BY DEF Bytes
<1>11. /\ Transfer(f, n) \in Seq(Byte) /\ Len(Transfer(f, n)) = m - k
       /\ \A i \in 1..(m - k) : Transfer(f, n)[i] = <<c, w, k + i>>
  BY <1>5, <1>6, <1>7 DEF Transfer
<1>12. Transfer(f, n) = Bytes(c, w, k, m)
  BY <1>8, <1>9, <1>10, <1>11, SameSequence
<1> QED BY <1>12 DEF f

\* What a read leaves of an interval is an interval, too.
LEMMA BytesLeft ==
  ASSUME NEW c, NEW w, NEW k, NEW l, NEW n, NEW m,
         c \in Nat, w \in Nat, k \in Nat, l \in Nat, k <= l, n \in Nat, m \in Nat,
         m = Lesser(l, k + n)
  PROVE  Remainder(Bytes(c, w, k, l), n) = Bytes(c, w, m, l)
<1> DEFINE f == Bytes(c, w, k, l)
<1>1. k <= m /\ m <= l
  BY DEF Lesser
<1>2. f \in Seq(Byte)
  BY BytesType
<1>3. Len(f) = l - k
  BY BytesLength
<1>4. \A i \in 1..(l - k) : f[i] = <<c, w, k + i>>
  BY DEF Bytes
<1>5. Lesser(Len(f), n) = m - k
  BY <1>3 DEF Lesser
<1> HIDE DEF f
<1>6. /\ SubSeq(f, m - k + 1, l - k) \in Seq(Byte)
      /\ Len(SubSeq(f, m - k + 1, l - k)) = l - m
      /\ \A i \in 1..(l - m) : SubSeq(f, m - k + 1, l - k)[i] = f[m - k + i]
  <2>1. PICK a \in Nat, z \in Nat : a = m - k /\ z = l - k /\ a <= z /\ l - m = z - a
    BY <1>1
  <2>2. PICK S : S = Byte
    OBVIOUS
  <2>3. /\ SubSeq(f, a + 1, z) \in Seq(Byte)
        /\ Len(SubSeq(f, a + 1, z)) = z - a
        /\ \A i \in 1..(z - a) : SubSeq(f, a + 1, z)[i] = f[a + i]
    <3>1. f \in Seq(S) /\ a \in Nat /\ z \in Nat /\ a <= z /\ z = Len(f)
      BY <1>2, <1>3, <2>1, <2>2
    <3>2. SubSeq(f, a + 1, z) \in Seq(S)
      BY <3>1, SequenceRest
    <3>3. Len(SubSeq(f, a + 1, z)) = z - a
      BY <3>1, SequenceRest
    <3>4. \A i \in 1..(z - a) : SubSeq(f, a + 1, z)[i] = f[a + i]
      BY <3>1, SequenceRest
    <3> QED BY <2>2, <3>2, <3>3, <3>4
  <2> QED BY <2>1, <2>3
<1>7. \A i \in 1..(l - m) : f[m - k + i] = <<c, w, m + i>>
  <2>1. \A i \in 1..(l - m) : m - k + i \in 1..(l - k) /\ k + (m - k + i) = m + i
    BY <1>1
  <2> QED BY <1>4, <2>1
<1>8. Bytes(c, w, m, l) \in Seq(Byte)
  BY <1>1, BytesType
<1>9. Len(Bytes(c, w, m, l)) = l - m
  BY <1>1, BytesLength
<1>10. \A i \in 1..(l - m) : Bytes(c, w, m, l)[i] = <<c, w, m + i>>
  BY DEF Bytes
<1>11. /\ Remainder(f, n) \in Seq(Byte) /\ Len(Remainder(f, n)) = l - m
       /\ \A i \in 1..(l - m) : Remainder(f, n)[i] = <<c, w, m + i>>
  BY <1>3, <1>5, <1>6, <1>7 DEF Remainder
<1>12. Remainder(f, n) = Bytes(c, w, m, l)
  BY <1>8, <1>9, <1>10, <1>11, SameSequence
<1> QED BY <1>12 DEF f

\* Intervals that meet make one.
LEMMA BytesJoin ==
  ASSUME NEW c, NEW w, NEW k, NEW l, NEW m,
         c \in Nat, w \in Nat, k \in Nat, l \in Nat, m \in Nat, k <= l, l <= m
  PROVE  Bytes(c, w, k, l) \o Bytes(c, w, l, m) = Bytes(c, w, k, m)
<1> DEFINE f == Bytes(c, w, k, l)
           g == Bytes(c, w, l, m)
<1>0. f \in Seq(Byte) /\ g \in Seq(Byte)
  BY BytesType
<1>1. Len(f) = l - k /\ Len(g) = m - l
  BY BytesLength
<1>2. /\ \A i \in 1..(l - k) : f[i] = <<c, w, k + i>>
      /\ \A i \in 1..(m - l) : g[i] = <<c, w, l + i>>
  BY DEF Bytes
<1> HIDE DEF f, g
<1>3. /\ f \o g \in Seq(Byte) /\ Len(f \o g) = m - k
      /\ \A i \in 1..(m - k) : (f \o g)[i] = IF i <= l - k THEN f[i] ELSE g[i - (l - k)]
  BY <1>0, <1>1
<1>4. ASSUME NEW i \in 1..(m - k) PROVE (f \o g)[i] = <<c, w, k + i>>
  <2>1. CASE i <= l - k
    <3>1. i \in 1..(l - k) /\ (f \o g)[i] = f[i]
      BY <1>3, <2>1
    <3> QED BY <1>2, <3>1
  <2>2. CASE ~(i <= l - k)
    <3>1. i - (l - k) \in 1..(m - l) /\ l + (i - (l - k)) = k + i
      BY <2>2
    <3> QED BY <1>2, <1>3, <2>2, <3>1
  <2> QED BY <2>1, <2>2
<1>5. Bytes(c, w, k, m) \in Seq(Byte)
  BY BytesType
<1>6. Len(Bytes(c, w, k, m)) = m - k
  BY BytesLength
<1>7. \A i \in 1..(m - k) : Bytes(c, w, k, m)[i] = <<c, w, k + i>>
  BY DEF Bytes
<1> QED BY <1>3, <1>4, <1>5, <1>6, <1>7, SameSequence DEF f, g

\* A header and a payload are intervals, and a header tells its message.
LEMMA BytesOfMessage ==
  ASSUME NEW c \in Nat, NEW w \in Nat
  PROVE  /\ Header(c, w) = Bytes(c, w, 0, MessageHeaderSize)
         /\ \A n \in Nat :
              Payload(c, w, n) = Bytes(c, w, MessageHeaderSize, MessageHeaderSize + n)
<1> USE HeaderAssumption
<1>1. Header(c, w) = Bytes(c, w, 0, MessageHeaderSize)
  BY DEF Header, Bytes
<1>2. ASSUME NEW n \in Nat
      PROVE  Payload(c, w, n) = Bytes(c, w, MessageHeaderSize, MessageHeaderSize + n)
  BY DEF Payload, Bytes
<1> QED BY <1>1, <1>2

\* Two messages of a client have different headers.
LEMMA HeaderTells ==
  ASSUME NEW c, NEW w, NEW v, Header(c, v) = Header(c, w)
  PROVE  v = w
<1>1. Header(c, v)[1] = <<c, v, 1>> /\ Header(c, w)[1] = <<c, w, 1>>
  BY HeaderAssumption DEF Header
<1> QED BY <1>1

\* The size of the w-th of the messages s, and the number of its bytes.
Size(s, w) == Len(s[w].data)
End(s, w) == MessageHeaderSize + Size(s, w)

\* Bytes k + 1 to l of message w can be in one pipe message.  A header is not cut.
Interval(s, w, k, l) ==
  /\ w \in 1..Len(s) /\ k \in Nat /\ l \in Nat
  /\ k < l /\ l <= End(s, w)
  /\ k = 0 => l >= MessageHeaderSize
  /\ k # 0 => k >= MessageHeaderSize

\* A piece of one of the messages s of client c.
Piece(c, s, f) == \E w, k, l \in Nat : Interval(s, w, k, l) /\ f = Bytes(c, w, k, l)

\* The message and the bytes that a piece is of: after From up to To.
MsgOf(f) == f[1][2]
From(f) == f[1][3] - 1
To(f) == From(f) + Len(f)

\* Positions in what the client writes: a message and how many of its bytes come
\* before.
Positions == Nat \X Nat
Position(s, w, l) == IF l = End(s, w) THEN <<w + 1, 0>> ELSE <<w, l>>
Start(f) == <<MsgOf(f), From(f)>>
Finish(s, f) == Position(s, MsgOf(f), To(f))

\* From one position to the other no message with a payload ends.
Within(s, p, e) ==
  \/ e[1] = p[1]
  \/ e[1] = p[1] + 1 /\ p[1] \in 1..Len(s) /\ Size(s, p[1]) = 0

\* The types of what a client's message is made of.
LEMMA SizeTypes ==
  ASSUME NEW s, NEW w, s \in Seq(SentMessages), w \in 1..Len(s)
  PROVE  /\ s[w].id \in Nat /\ s[w].data \in Seq(Byte)
         /\ Size(s, w) \in Nat /\ End(s, w) \in Nat
         /\ End(s, w) = MessageHeaderSize + Size(s, w)
<1>1. s[w] \in SentMessages
  OBVIOUS
<1> QED BY <1>1, HeaderAssumption DEF SentMessages, Size, End

\* What a client sent, what it wrote, and what is in a pipe.
MessageList(s) == s \in Seq(SentMessages)
Frame(f) == f \in Seq(Byte)
Frames(q) == q \in Seq(Seq(Byte))

\* Where such an interval begins and ends.
LEMMA PieceParts ==
  ASSUME NEW c, NEW s, NEW w, NEW k, NEW l, NEW f,
         c \in Nat, Interval(s, w, k, l), f = Bytes(c, w, k, l)
  PROVE  /\ f \in Seq(Byte) /\ Len(f) = l - k /\ f # << >>
         /\ MsgOf(f) = w /\ From(f) = k /\ To(f) = l
<1>1. w \in Nat /\ k \in Nat /\ l \in Nat /\ k <= l /\ k < l /\ 1 \in 1..(l - k)
  BY DEF Interval
<1>2. f \in Seq(Byte)
  BY <1>1, BytesType
<1>3. Len(f) = l - k
  BY <1>1, BytesLength
<1>4. f # << >>
  BY <1>1, <1>2, <1>3
<1>5. f[1] = <<c, w, k + 1>>
  BY <1>1 DEF Bytes
<1>6. MsgOf(f) = w /\ From(f) = k
  BY <1>1, <1>5 DEF MsgOf, From
<1>7. To(f) = l
  BY <1>1, <1>3, <1>6 DEF To
<1> QED BY <1>2, <1>3, <1>4, <1>6, <1>7

\* A piece is the interval its first byte and its length tell.
LEMMA PieceIs ==
  ASSUME NEW c, NEW s, NEW w, NEW k, NEW l, NEW f,
         c \in Nat, Interval(s, w, k, l), f = Bytes(c, w, k, l)
  PROVE  Piece(c, s, f)
BY DEF Interval, Piece

\* The position behind a piece.
LEMMA PieceEnds ==
  ASSUME NEW c, NEW s, NEW w, NEW k, NEW l, NEW f,
         c \in Nat, Interval(s, w, k, l), f = Bytes(c, w, k, l)
  PROVE  Start(f) = <<w, k>> /\ Finish(s, f) = Position(s, w, l)
BY PieceParts DEF Start, Finish

\* A position is one in what the client writes.
LEMMA PieceTypes ==
  ASSUME NEW c, NEW s, NEW f, c \in Nat, Piece(c, s, f)
  PROVE  Start(f) \in Positions /\ Finish(s, f) \in Positions /\ f \in Seq(Byte) /\ f # << >>
<1>1. PICK w, k, l \in Nat : Interval(s, w, k, l) /\ f = Bytes(c, w, k, l)
  BY DEF Piece
<1>2. Start(f) = <<w, k>> /\ Finish(s, f) = Position(s, w, l)
  BY <1>1, PieceEnds
<1>3. w \in Nat /\ w >= 1 /\ k \in Nat /\ l \in Nat
  BY <1>1 DEF Interval
<1>4. f \in Seq(Byte) /\ f # << >>
  BY <1>1, PieceParts
<1> QED BY <1>2, <1>3, <1>4 DEF Position, Positions

\* What a read of at most n bytes takes of a piece, t, is a piece.  It is all of
\* it, or what it leaves, r, is one that follows.
Splits(c, s, f, n, t, r) ==
  /\ Piece(c, s, t) /\ Start(t) = Start(f)
  /\ From(f) = 0 => Len(t) = MessageHeaderSize
  /\ \/ t = f /\ r = << >> /\ Len(f) <= n
     \/ /\ Piece(c, s, r) /\ r # << >> /\ Len(f) > n
        /\ Start(r) = Finish(s, t) /\ Finish(s, r) = Finish(s, f)

\* A read that has not room for a piece takes a piece of it and leaves a piece.
LEMMA TakePiece ==
  ASSUME NEW c, NEW s, NEW f, NEW n, c \in Nat, MessageList(s), Piece(c, s, f),
         n \in Nat, n >= 1, From(f) = 0 => n = MessageHeaderSize,
         NEW t, NEW r, t = Transfer(f, n), r = Remainder(f, n)
  PROVE  Splits(c, s, f, n, t, r)
<1>1. PICK w, k, l \in Nat : Interval(s, w, k, l) /\ f = Bytes(c, w, k, l)
  BY DEF Piece
<1>2. /\ w \in 1..Len(s) /\ w \in Nat /\ k < l /\ k <= l /\ l <= End(s, w)
      /\ k = 0 => l >= MessageHeaderSize
      /\ k # 0 => k >= MessageHeaderSize
  BY <1>1 DEF Interval
<1>3. f \in Seq(Byte) /\ Len(f) = l - k /\ From(f) = k
  BY <1>1, PieceParts
<1>4. Start(f) = <<w, k>> /\ Finish(s, f) = Position(s, w, l)
  BY <1>1, PieceEnds
<1>5. End(s, w) \in Nat
  BY <1>2, SizeTypes DEF MessageList
<1> DEFINE m == Lesser(l, k + n)
<1>6. m \in Nat /\ k < m /\ k <= m /\ m <= l /\ (k = 0 => m = MessageHeaderSize)
  BY <1>2, <1>3, HeaderAssumption DEF Lesser
<1>7. t = Bytes(c, w, k, m)
  BY <1>1, <1>2, <1>6, BytesTaken
<1>8. r = Bytes(c, w, m, l)
  BY <1>1, <1>2, <1>6, BytesLeft
<1>9. Interval(s, w, k, m)
  BY <1>2, <1>5, <1>6, HeaderAssumption DEF Interval
<1>10. m = l \/ (m = k + n /\ m < l)
  BY <1>2, <1>6 DEF Lesser
<1>11. l - k <= n <=> m = l
  BY <1>2, <1>6 DEF Lesser
<1> HIDE DEF m
<1>12. Piece(c, s, t)
  BY <1>7, <1>9, PieceIs
<1>13. Start(t) = <<w, k>> /\ Finish(s, t) = Position(s, w, m)
  BY <1>7, <1>9, PieceEnds
<1>14. Len(t) = m - k
  BY <1>7, <1>9, PieceParts
<1>15. From(f) = 0 => Len(t) = MessageHeaderSize
  BY <1>3, <1>6, <1>14, HeaderAssumption
<1>16. CASE m = l
  <2>1. Bytes(c, w, l, l) \in Seq(Byte)
    BY <1>2, BytesType
  <2>2. Len(Bytes(c, w, l, l)) = l - l
    BY <1>2, BytesLength
  <2>3. r = << >>
    BY <1>8, <1>16, <2>1, <2>2
  <2> QED BY <1>1, <1>3, <1>4, <1>7, <1>11, <1>12, <1>13, <1>15, <1>16, <2>3 DEF Splits
<1>17. CASE m = k + n /\ m < l
  <2>1. m >= MessageHeaderSize /\ m # 0 /\ m # End(s, w)
    BY <1>2, <1>5, <1>6, <1>17, HeaderAssumption
  <2>2. Interval(s, w, m, l)
    BY <1>2, <1>6, <1>17, <2>1 DEF Interval
  <2>3. Piece(c, s, r)
    BY <1>8, <2>2, PieceIs
  <2>4. Start(r) = <<w, m>> /\ Finish(s, r) = Position(s, w, l)
    <3>1. Start(r) = <<w, m>>
      BY <1>8, <2>2, PieceParts DEF Start
    <3>2. Finish(s, r) = Position(s, w, l)
      BY <1>8, <2>2, PieceEnds
    <3> QED BY <3>1, <3>2
  <2>5. r # << >>
    BY <1>8, <2>2, PieceParts
  <2>6. Position(s, w, m) = <<w, m>>
    BY <2>1 DEF Position
  <2>7. Len(f) > n
    BY <1>2, <1>3, <1>6, <1>11, <1>17
  <2> QED BY <1>4, <1>12, <1>13, <1>15, <2>3, <2>4, <2>5, <2>6, <2>7 DEF Splits
<1> QED BY <1>10, <1>16, <1>17

\* A sequence without elements is the empty one.
LEMMA EmptySequence ==
  ASSUME NEW q \in Seq(Seq(Byte)) PROVE q = << >> <=> Len(q) = 0
OBVIOUS

-----------------------------------------------------------------------------
\* Pieces one behind the other.

\* Pieces that follow one another, from position p on, and where they end.
Chain(c, s, p, q) ==
  \A i \in 1..Len(q) : /\ Piece(c, s, q[i])
                       /\ Start(q[i]) = IF i = 1 THEN p ELSE Finish(s, q[i - 1])
ChainEnd(s, p, q) == IF q = << >> THEN p ELSE Finish(s, q[Len(q)])

\* A write behind a chain.
LEMMA ChainAppend ==
  ASSUME NEW c, NEW s, NEW p, NEW q \in Seq(Seq(Byte)), NEW f \in Seq(Byte),
         Chain(c, s, p, q), Piece(c, s, f), Start(f) = ChainEnd(s, p, q)
  PROVE  /\ Chain(c, s, p, Append(q, f))
         /\ ChainEnd(s, p, Append(q, f)) = Finish(s, f)
<1> DEFINE r == Append(q, f)
<1>1. /\ Len(q) \in Nat /\ Len(r) = Len(q) + 1
      /\ r[Len(q) + 1] = f /\ \A i \in 1..Len(q) : r[i] = q[i]
  OBVIOUS
<1>5. r \in Seq(Seq(Byte))
  OBVIOUS
<1>0. q = << >> <=> Len(q) = 0
  OBVIOUS
<1> HIDE DEF r
<1>6. r # << >>
  BY <1>1, <1>5, EmptySequence
<1>2. ASSUME NEW i \in 1..Len(r)
      PROVE  /\ Piece(c, s, r[i])
             /\ Start(r[i]) = IF i = 1 THEN p ELSE Finish(s, r[i - 1])
  <2>1. CASE i \in 1..Len(q)
    <3>1. Piece(c, s, q[i]) /\ Start(q[i]) = IF i = 1 THEN p ELSE Finish(s, q[i - 1])
      BY <2>1 DEF Chain
    <3>2. r[i] = q[i]
      BY <1>1, <2>1
    <3>3. ASSUME i # 1 PROVE r[i - 1] = q[i - 1]
      <4>1. i - 1 \in 1..Len(q)
        BY <1>1, <2>1, <3>3
      <4> QED BY <1>1, <4>1
    <3> QED BY <3>1, <3>2, <3>3
  <2>2. CASE i = Len(q) + 1
    <3>1. r[i] = f /\ (i = 1 <=> q = << >>) /\ (i # 1 => r[i - 1] = q[Len(q)])
      BY <1>0, <1>1, <2>2
    <3> QED BY <3>1 DEF ChainEnd
  <2> QED BY <1>1, <2>1, <2>2
<1>3. Chain(c, s, p, r)
  BY <1>2 DEF Chain
<1>4. ChainEnd(s, p, r) = Finish(s, f)
  BY <1>1, <1>6 DEF ChainEnd
<1> QED BY <1>3, <1>4 DEF r

\* What a read leaves of a chain: the first piece is gone, ...
LEMMA ChainTail ==
  ASSUME NEW c, NEW s, NEW p, NEW q \in Seq(Seq(Byte)), q # << >>, Chain(c, s, p, q)
  PROVE  /\ Piece(c, s, Head(q)) /\ Start(Head(q)) = p /\ Head(q) \in Seq(Byte)
         /\ Chain(c, s, Finish(s, Head(q)), Tail(q))
         /\ ChainEnd(s, Finish(s, Head(q)), Tail(q)) = ChainEnd(s, p, q)
<1> DEFINE t == Tail(q)
<1>1. /\ Len(q) \in Nat /\ Len(q) >= 1 /\ Len(t) = Len(q) - 1
      /\ Head(q) = q[1] /\ q[1] \in Seq(Byte)
      /\ \A i \in 1..Len(t) : t[i] = q[i + 1]
  OBVIOUS
<1>6. t \in Seq(Seq(Byte))
  OBVIOUS
<1> HIDE DEF t
<1>0. t = << >> <=> Len(q) = 1
  <2>1. t = << >> <=> Len(t) = 0
    BY <1>6, EmptySequence
  <2>2. Len(t) = 0 <=> Len(q) = 1
    BY <1>1
  <2> QED BY <2>1, <2>2
<1>2. Piece(c, s, q[1]) /\ Start(q[1]) = p
  BY <1>1 DEF Chain
<1>3. ASSUME NEW i \in 1..Len(t)
      PROVE  /\ Piece(c, s, t[i])
             /\ Start(t[i]) = IF i = 1 THEN Finish(s, q[1]) ELSE Finish(s, t[i - 1])
  <2>1. i + 1 \in 1..Len(q) /\ i + 1 # 1 /\ i + 1 - 1 = i
    BY <1>1
  <2>2. Piece(c, s, q[i + 1]) /\ Start(q[i + 1]) = Finish(s, q[i + 1 - 1])
    BY <2>1 DEF Chain
  <2>3. t[i] = q[i + 1]
    BY <1>1
  <2>4. ASSUME i # 1 PROVE t[i - 1] = q[i]
    <3>1. i - 1 \in 1..Len(t) /\ i - 1 + 1 = i
      BY <1>1, <2>4
    <3> QED BY <1>1, <3>1
  <2>5. CASE i = 1
    BY <2>1, <2>2, <2>3, <2>5
  <2>6. CASE i # 1
    BY <2>1, <2>2, <2>3, <2>4, <2>6
  <2> QED BY <2>5, <2>6
<1>4. Chain(c, s, Finish(s, q[1]), t)
  BY <1>3 DEF Chain
<1>5. ChainEnd(s, Finish(s, q[1]), t) = ChainEnd(s, p, q)
  <2>1. CASE t = << >>
    BY <1>0, <1>1, <2>1 DEF ChainEnd
  <2>2. CASE t # << >>
    <3>1. q # << >> /\ t[Len(t)] = q[Len(q)]
      BY <1>0, <1>1, <2>2
    <3> QED BY <2>2, <3>1 DEF ChainEnd
  <2> QED BY <2>1, <2>2
<1> QED BY <1>1, <1>2, <1>4, <1>5 DEF t

\* ... or its rest comes first.
LEMMA ChainReplace ==
  ASSUME NEW c, NEW s, NEW p, NEW e, NEW q \in Seq(Seq(Byte)), q # << >>, Chain(c, s, p, q),
         NEW r \in Seq(Byte), Piece(c, s, r), Start(r) = e, Finish(s, r) = Finish(s, Head(q))
  PROVE  /\ Chain(c, s, e, <<r>> \o Tail(q))
         /\ ChainEnd(s, e, <<r>> \o Tail(q)) = ChainEnd(s, p, q)
<1> DEFINE t == <<r>> \o Tail(q)
<1>1. /\ Len(q) \in Nat /\ Len(q) >= 1 /\ Len(t) = Len(q)
      /\ Head(q) = q[1] /\ t[1] = r
      /\ \A i \in 2..Len(q) : t[i] = q[i]
      /\ t # << >>
  OBVIOUS
<1> HIDE DEF t
<1>2. ASSUME NEW i \in 1..Len(t)
      PROVE  /\ Piece(c, s, t[i])
             /\ Start(t[i]) = IF i = 1 THEN e ELSE Finish(s, t[i - 1])
  <2>1. CASE i = 1
    BY <1>1, <2>1
  <2>2. CASE i # 1
    <3>1. Piece(c, s, q[i]) /\ Start(q[i]) = Finish(s, q[i - 1])
      BY <1>1, <2>2 DEF Chain
    <3>2. t[i] = q[i] /\ Finish(s, t[i - 1]) = Finish(s, q[i - 1])
      <4>1. t[i] = q[i]
        BY <1>1, <2>2
      <4>2. CASE i = 2
        BY <1>1, <4>2
      <4>3. CASE i # 2
        <5>1. i - 1 \in 2..Len(q)
          BY <1>1, <2>2, <4>3
        <5>2. PICK x : x = t[i - 1]
          OBVIOUS
        <5>3. x = q[i - 1]
          BY <1>1, <5>1, <5>2
        <5> QED BY <4>1, <5>2, <5>3
      <4> QED BY <4>1, <4>2, <4>3
    <3> QED BY <2>2, <3>1, <3>2
  <2> QED BY <2>1, <2>2
<1>3. Chain(c, s, e, t)
  BY <1>2 DEF Chain
<1>4. ChainEnd(s, e, t) = ChainEnd(s, p, q)
  <2>1. Finish(s, t[Len(t)]) = Finish(s, q[Len(q)])
    BY <1>1
  <2> QED BY <1>1, <2>1 DEF ChainEnd
<1> QED BY <1>3, <1>4 DEF t

\* A chain of one piece.
LEMMA ChainOfOne ==
  ASSUME NEW c, NEW s, NEW r, Piece(c, s, r)
  PROVE  /\ Chain(c, s, Start(r), <<r>>)
         /\ ChainEnd(s, Start(r), <<r>>) = Finish(s, r)
BY DEF Chain, ChainEnd

\* When the client sends one more message, the pieces of the earlier ones stay.
Longer(s, t) == \A i \in 1..Len(s) : i \in 1..Len(t) /\ t[i] = s[i]

\* An interval of a message stays one when the client sends more, ...
LEMMA IntervalGrows ==
  ASSUME NEW s, NEW t, NEW w, NEW k, NEW l, Longer(s, t), Interval(s, w, k, l)
  PROVE  Interval(t, w, k, l) /\ End(t, w) = End(s, w)
<1>1. w \in 1..Len(s)
  BY DEF Interval
<1>2. w \in 1..Len(t) /\ t[w] = s[w]
  BY <1>1 DEF Longer
<1>3. End(t, w) = End(s, w)
  BY <1>2 DEF End, Size
<1>4. Interval(t, w, k, l)
  BY <1>2, <1>3 DEF Interval
<1> QED BY <1>3, <1>4

\* ... so does a piece, ...
LEMMA PieceGrows ==
  ASSUME NEW c, NEW s, NEW t, NEW f, c \in Nat, Longer(s, t), Piece(c, s, f)
  PROVE  Piece(c, t, f) /\ Finish(t, f) = Finish(s, f)
<1>1. PICK w, k, l \in Nat : Interval(s, w, k, l) /\ f = Bytes(c, w, k, l)
  BY DEF Piece
<1>2. Interval(t, w, k, l) /\ End(t, w) = End(s, w)
  BY <1>1, IntervalGrows
<1>3. Finish(t, f) = Position(t, w, l)
  BY <1>1, <1>2, PieceEnds
<1>4. Finish(s, f) = Position(s, w, l)
  BY <1>1, PieceEnds
<1>5. Piece(c, t, f)
  BY <1>1, <1>2, PieceIs
<1> QED BY <1>2, <1>3, <1>4, <1>5 DEF Position

\* ... and so does a chain of pieces.
LEMMA ChainGrows ==
  ASSUME NEW c, NEW s, NEW t, NEW p, NEW q, c \in Nat, Longer(s, t), Chain(c, s, p, q),
         Frames(q)
  PROVE  Chain(c, t, p, q) /\ ChainEnd(t, p, q) = ChainEnd(s, p, q)
<1>1. ASSUME NEW i \in 1..Len(q)
      PROVE  Piece(c, t, q[i]) /\ Finish(t, q[i]) = Finish(s, q[i])
  <2>1. PICK f : f = q[i]
    OBVIOUS
  <2>2. Piece(c, s, f)
    BY <2>1 DEF Chain
  <2>3. Piece(c, t, f) /\ Finish(t, f) = Finish(s, f)
    BY <2>2, PieceGrows
  <2> QED BY <2>1, <2>3
<1>2. ASSUME NEW i \in 1..Len(q)
      PROVE  Start(q[i]) = IF i = 1 THEN p ELSE Finish(t, q[i - 1])
  <2>1. Start(q[i]) = IF i = 1 THEN p ELSE Finish(s, q[i - 1])
    BY DEF Chain
  <2>2. CASE i = 1
    BY <2>1, <2>2
  <2>3. CASE i # 1
    <3>1. i - 1 \in 1..Len(q)
      BY <2>3 DEF Frames
    <3> QED BY <1>1, <2>1, <2>3, <3>1
  <2> QED BY <2>2, <2>3
<1>3. Chain(c, t, p, q)
  BY <1>1, <1>2 DEF Chain
<1>4. ChainEnd(t, p, q) = ChainEnd(s, p, q)
  <2>1. q # << >> => Len(q) \in 1..Len(q)
    BY DEF Frames
  <2> QED BY <1>1, <2>1 DEF ChainEnd
<1> QED BY <1>3, <1>4

-----------------------------------------------------------------------------
\* What a message has of what its client sent, and what onRead makes of it.

\* What message m has of what the client sent, when the server has read up to
\* position p: nothing, or a header and the payload so far.
Partial(c, s, m, p) ==
  IF IsHeaderProcessed(m)
  THEN /\ Interval(s, p[1], 0, p[2]) /\ p[2] # End(s, p[1])
       /\ m.header.id = p[1] /\ m.header.size = Size(s, p[1])
       /\ m.header.size <= m.buffer.size
       /\ m.data = Bytes(c, p[1], MessageHeaderSize, p[2])
  ELSE p[2] = 0

\* All of message w.
AllOf(c, s, m, w) ==
  /\ w \in 1..Len(s)
  /\ m.header.id = w /\ m.header.size = Size(s, w)
  /\ m.data = Bytes(c, w, MessageHeaderSize, End(s, w))

\* A message that is not complete has room for the next read.
LEMMA RoomLeft ==
  ASSUME NEW c \in Nat, NEW s, NEW p \in Positions, MessageList(s),
         NEW m \in Messages, Sound(m), Partial(c, s, m, p)
  PROVE  /\ ReadSize(m) \in Nat /\ ReadSize(m) >= 1
         /\ p[2] = 0 => ReadSize(m) = MessageHeaderSize
<1> USE DEF MessageList
<1>0. p[1] \in Nat /\ p[2] \in Nat
  BY DEF Positions
<1>1. CASE IsHeaderProcessed(m)
  <2> DEFINE b == m.buffer
  <2>0. Interval(s, p[1], 0, p[2])
    BY <1>1 DEF Partial
  <2>1. /\ p[1] \in 1..Len(s) /\ p[1] \in Nat /\ p[2] \in Nat /\ m.header.size = Size(s, p[1])
        /\ m.header.size <= b.size
        /\ p[2] >= MessageHeaderSize /\ p[2] # End(s, p[1]) /\ p[2] <= End(s, p[1])
        /\ m.data = Bytes(c, p[1], MessageHeaderSize, p[2])
    BY <1>0, <1>1, <2>0 DEF Partial, Interval
  <2>2. Size(s, p[1]) \in Nat /\ End(s, p[1]) = MessageHeaderSize + Size(s, p[1])
    BY <2>1, SizeTypes
  <2>3. Len(m.data) = p[2] - MessageHeaderSize
    BY <1>0, <2>1, BytesLength, HeaderAssumption
  <2>4. b.write = Len(m.data) /\ b.size \in Nat
    BY DEF Sound, Messages, Buffers, SizeType
  <2>5. b.write < b.size /\ b.write \in Nat
    BY <1>0, <2>1, <2>2, <2>3, <2>4, HeaderAssumption
  <2>6. AvailableToWrite(b) = b.size - b.write
    BY <2>4, <2>5 DEF AvailableToWrite, Minus, Lesser
  <2>7. ReadSize(m) = Lesser(b.size - b.write, PacketSize)
    BY <1>1, <2>6 DEF ReadSize
  <2>8. p[2] # 0
    BY <2>1, HeaderAssumption
  <2> QED BY <2>4, <2>5, <2>7, <2>8, ServerAssumption, HeaderAssumption DEF Lesser
<1>2. CASE ~IsHeaderProcessed(m)
  BY <1>2, HeaderAssumption DEF ReadSize
<1> QED BY <1>1, <1>2

\* A header tells which message comes.
LEMMA HeaderRead ==
  ASSUME NEW c \in Nat, NEW s, MessageList(s), s = sent[c],
         \A w \in 1..Len(s) : s[w].id = w,
         NEW m \in Messages, ~m.allDataRead,
         NEW f, Piece(c, s, f), From(f) = 0, Len(f) = MessageHeaderSize,
         NEW h \in HeaderIn(c, f), NEW n, n = ProcessHeader(m, h)
  PROVE  /\ Partial(c, s, n, Finish(s, f)) /\ Within(s, Start(f), Finish(s, f))
         /\ ~n.allDataRead
         /\ n.connectionId = m.connectionId
<1> USE DEF MessageList
<1>0. PICK w, k, l \in Nat : Interval(s, w, k, l) /\ f = Bytes(c, w, k, l)
  BY DEF Piece
<1>1. /\ w \in 1..Len(s) /\ k < l /\ l <= End(s, w)
      /\ Len(f) = l - k /\ MsgOf(f) = w /\ From(f) = k /\ To(f) = l
      /\ Finish(s, f) = Position(s, w, l)
  BY <1>0, PieceParts, PieceEnds DEF Interval
<1>2. k = 0 /\ l = MessageHeaderSize /\ w \in Nat /\ f = Bytes(c, w, 0, l)
  BY <1>0, <1>1, HeaderAssumption
<1>3. f = Header(c, w)
  <2>1. Header(c, w) = Bytes(c, w, 0, MessageHeaderSize)
    BY <1>2, BytesOfMessage
  <2> QED BY <1>2, <2>1
<1>4. h = [id |-> s[w].id, size |-> Len(s[w].data)]
  <2>1. w \in {v \in 1..Len(s) : f = Header(c, v)}
    BY <1>1, <1>3
  <2>2. ASSUME NEW v \in 1..Len(s), f = Header(c, v) PROVE v = w
    <3>1. Header(c, v) = Header(c, w)
      BY <1>3, <2>2
    <3> QED BY <3>1, HeaderTells
  <2>3. {v \in 1..Len(s) : f = Header(c, v)} = {w}
    BY <2>1, <2>2
  <2> QED BY <2>3 DEF HeaderIn
<1>5. h.id = w /\ h.size = Size(s, w)
  BY <1>1, <1>4 DEF Size
<1>6. /\ Size(s, w) \in Nat /\ End(s, w) = MessageHeaderSize + Size(s, w)
      /\ s[w].data \in Seq(Byte) /\ Len(s[w].data) \in Sizes
  <2>1. s[w] \in SentMessages
    BY <1>1
  <2> QED BY <1>1, <2>1, SizeTypes DEF SentMessages
<1>7. m.buffer \in Buffers
  BY DEF Messages
<1>8. Start(f) = <<w, 0>>
  BY <1>1, <1>2 DEF Start
<1>9. CASE Size(s, w) = 0
  <2>1. n = ResetMessage(m)
    BY <1>5, <1>9 DEF ProcessHeader, ValidHeader
  <2>2. /\ n.headerProcessed = FALSE /\ n.allDataRead = FALSE
        /\ n.connectionId = m.connectionId
    BY <2>1 DEF ResetMessage, Messages
  <2>3. Finish(s, f) = <<w + 1, 0>>
    BY <1>1, <1>2, <1>6, <1>9, HeaderAssumption DEF Position
  <2>4. Partial(c, s, n, Finish(s, f))
    BY <2>2, <2>3 DEF Partial, IsHeaderProcessed
  <2>5. Within(s, Start(f), Finish(s, f))
    BY <1>1, <1>9, <1>8, <2>3 DEF Within
  <2> QED BY <2>2, <2>4, <2>5
<1>10. CASE Size(s, w) # 0
  <2> DEFINE b == Resize(ResetPositions(m.buffer), h.size)
  <2>1. ValidHeader(h)
    BY <1>2, <1>1, <1>5, <1>6, <1>10 DEF ValidHeader
  <2>2. /\ n.headerProcessed = TRUE /\ n.allDataRead = m.allDataRead
        /\ n.connectionId = m.connectionId /\ n.header = h
        /\ n.buffer = b /\ n.data = << >>
    BY <2>1 DEF ProcessHeader, Messages
  <2>3. b.size = Greater(h.size, BufferMinSize)
    BY <1>7 DEF Resize, ResetPositions, Buffers
  <2>4. h.size <= b.size
    BY <1>5, <1>6, <2>3, SizeAssumption DEF Greater
  <2>5. Finish(s, f) = <<w, MessageHeaderSize>>
    BY <1>1, <1>2, <1>6, <1>10, HeaderAssumption DEF Position
  <2>6. Bytes(c, w, MessageHeaderSize, MessageHeaderSize) = << >>
    <3>1. Bytes(c, w, MessageHeaderSize, MessageHeaderSize) \in Seq(Byte)
      BY <1>2, BytesType, HeaderAssumption
    <3>2. Len(Bytes(c, w, MessageHeaderSize, MessageHeaderSize)) = MessageHeaderSize - MessageHeaderSize
      BY <1>2, BytesLength, HeaderAssumption
    <3> QED BY <3>1, <3>2, HeaderAssumption
  <2> HIDE DEF b
  <2>7. Partial(c, s, n, <<w, MessageHeaderSize>>)
    <3>1. IsHeaderProcessed(n)
      BY <2>1, <2>2 DEF IsHeaderProcessed
    <3>2. MessageHeaderSize # End(s, w)
      BY <1>6, <1>10, HeaderAssumption
    <3>3. Interval(s, w, 0, MessageHeaderSize)
      BY <1>0, <1>2
    <3> QED BY <1>5, <2>2, <2>4, <2>6, <3>1, <3>2, <3>3 DEF Partial
  <2>8. Within(s, Start(f), Finish(s, f))
    BY <1>8, <2>5 DEF Within
  <2> QED BY <2>2, <2>5, <2>7, <2>8
<1> QED BY <1>9, <1>10

\* Message n has piece f, too, behind what came before p.
Extends(c, s, p, f, n) ==
  /\ n.allDataRead => AllOf(c, s, n, p[1]) /\ Finish(s, f) = <<p[1] + 1, 0>>
  /\ ~n.allDataRead => Partial(c, s, n, Finish(s, f)) /\ Within(s, p, Finish(s, f))

\* A piece of the payload follows what the message has already; the message is
\* complete when it was the last one.
LEMMA PayloadRead ==
  ASSUME NEW c \in Nat, NEW s, NEW p \in Positions, MessageList(s),
         NEW m \in Messages, Sound(m), IsHeaderProcessed(m), ~m.allDataRead,
         Partial(c, s, m, p),
         NEW f, Piece(c, s, f), Start(f) = p, FitsInBuffer(m, Len(f)),
         NEW n, n = AcceptBytes(m, f)
  PROVE  Extends(c, s, p, f, n)
<1> DEFINE b == SetWritePosition(m.buffer, WritePosition(m.buffer) + Len(f))
<1>0. PICK w, k, l \in Nat : Interval(s, w, k, l) /\ f = Bytes(c, w, k, l)
  BY DEF Piece
<1>1. /\ w \in 1..Len(s) /\ k < l /\ l <= End(s, w)
      /\ f = Bytes(c, w, k, l) /\ k \in Nat /\ l \in Nat
      /\ Len(f) = l - k /\ Start(f) = <<w, k>>
      /\ Finish(s, f) = Position(s, w, l)
  <2>1. w \in 1..Len(s) /\ k < l /\ l <= End(s, w)
    BY <1>0 DEF Interval
  <2>2. c \in Nat /\ Interval(s, w, k, l) /\ f = Bytes(c, w, k, l)
    BY <1>0
  <2>3. Len(f) = l - k
    BY <2>2, PieceParts
  <2>4. Start(f) = <<w, k>> /\ Finish(s, f) = Position(s, w, l)
    BY <2>2, PieceEnds, SMTT(30)
  <2> QED BY <1>0, <2>1, <2>3, <2>4
<1>2. p = <<w, k>> /\ p[1] = w /\ p[2] = k /\ w \in Nat
  BY <1>0, <1>1
<1>3. /\ m.header.id = w /\ m.header.size = Size(s, w) /\ m.header.size <= m.buffer.size
      /\ k >= MessageHeaderSize
      /\ m.data = Bytes(c, w, MessageHeaderSize, k)
  BY <1>2 DEF Partial, Interval
<1>4. Size(s, w) \in Nat /\ End(s, w) = MessageHeaderSize + Size(s, w)
  BY <1>1, SizeTypes DEF MessageList
<1>5. Len(m.data) = k - MessageHeaderSize
  BY <1>2, <1>3, BytesLength, HeaderAssumption
<1>6. /\ m.buffer \in Buffers /\ m.buffer.read = 0 /\ m.buffer.write = k - MessageHeaderSize
      /\ m.buffer.write <= m.buffer.size /\ m.buffer.size \in Nat
  BY <1>5 DEF Sound, Messages, Buffers, SizeType
<1>7. WritePosition(m.buffer) = k - MessageHeaderSize
  BY <1>3, <1>6, HeaderAssumption DEF WritePosition, Lesser
<1>8. l - MessageHeaderSize <= m.buffer.size
  BY <1>1, <1>3, <1>7, HeaderAssumption DEF FitsInBuffer
<1>9. b.read = 0 /\ b.write = l - MessageHeaderSize /\ b.size = m.buffer.size
  <2>1. WritePosition(m.buffer) + Len(f) = l - MessageHeaderSize
    BY <1>1, <1>7, HeaderAssumption
  <2>2. Lesser(m.buffer.size, l - MessageHeaderSize) = l - MessageHeaderSize
    BY <1>6, <1>8, HeaderAssumption DEF Lesser
  <2>3. b = [m.buffer EXCEPT !.write = l - MessageHeaderSize]
    BY <2>1, <2>2 DEF SetWritePosition
  <2> HIDE DEF b
  <2> QED BY <1>6, <2>3 DEF Buffers
<1> HIDE DEF b
<1>10. AvailableToRead(b) = l - MessageHeaderSize
  BY <1>1, <1>3, <1>9, HeaderAssumption DEF AvailableToRead, Minus
<1>11. /\ n.connectionId = m.connectionId /\ n.buffer = b /\ n.data = m.data \o f
       /\ n.header = m.header /\ n.headerProcessed = m.headerProcessed
       /\ n.allDataRead = (m.allDataRead \/ AvailableToRead(b) = m.header.size)
  BY DEF AcceptBytes, Messages, b
<1>12. n.data = Bytes(c, w, MessageHeaderSize, l)
  <2>1. Bytes(c, w, MessageHeaderSize, k) \o Bytes(c, w, k, l) = Bytes(c, w, MessageHeaderSize, l)
    <3>1. /\ c \in Nat /\ w \in Nat /\ k \in Nat /\ l \in Nat /\ MessageHeaderSize \in Nat
          /\ MessageHeaderSize <= k /\ k <= l
      BY <1>1, <1>2, <1>3, HeaderAssumption
    <3> QED BY <3>1, BytesJoin
  <2> QED BY <1>1, <1>3, <1>11, <2>1
<1>13. n.allDataRead <=> AvailableToRead(b) = m.header.size
  BY <1>11, Zenon
<1>14. n.allDataRead <=> l = End(s, w)
  BY <1>1, <1>3, <1>4, <1>10, <1>13, HeaderAssumption
<1>15. CASE n.allDataRead
  <2>1. Finish(s, f) = <<w + 1, 0>>
    BY <1>1, <1>14, <1>15 DEF Position
  <2>2. AllOf(c, s, n, w)
    BY <1>1, <1>3, <1>11, <1>12, <1>14, <1>15 DEF AllOf
  <2> QED BY <1>2, <1>15, <2>1, <2>2 DEF Extends
<1>16. CASE ~n.allDataRead
  <2>1. l # End(s, w)
    BY <1>14, <1>16
  <2>2. Finish(s, f) = <<w, l>>
    BY <1>1, <2>1 DEF Position
  <2>3. IsHeaderProcessed(n)
    BY <1>11 DEF IsHeaderProcessed
  <2>4. Interval(s, w, 0, l)
    BY <1>0, <1>1, <1>2, <1>3, HeaderAssumption DEF Interval
  <2>5. n.header.size <= n.buffer.size
    BY <1>3, <1>9, <1>11
  <2>6. Partial(c, s, n, <<w, l>>)
    BY <1>3, <1>11, <1>12, <2>1, <2>3, <2>4, <2>5 DEF Partial
  <2>7. Within(s, p, <<w, l>>)
    BY <1>2 DEF Within
  <2> QED BY <1>16, <2>2, <2>6, <2>7 DEF Extends
<1> QED BY <1>15, <1>16

-----------------------------------------------------------------------------
\* What the clients write.

\* A client numbers its messages.
SentInOrder ==
  \A c \in Conn : \A w \in 1..Len(sent[c]) :
    sent[c][w] = [id |-> w, data |-> Payload(c, w, Size(sent[c], w))]

\* What a client must still write is the payload of its last message.
RestKnown ==
  \A c \in Conn : unwritten[c] # << >> =>
    /\ sent[c] # << >>
    /\ unwritten[c] = Bytes(c, Len(sent[c]), MessageHeaderSize, End(sent[c], Len(sent[c])))

\* A client that is not connected has sent nothing.
Silent ==
  \A c \in Conn : client[c] \in {"none", "listening"} =>
    sent[c] = << >> /\ unwritten[c] = << >>

Sending == SentInOrder /\ RestKnown /\ Silent

\* Where the client stands with its writes.
WriteEnd(c) == IF unwritten[c] = << >> THEN <<Len(sent[c]) + 1, 0>>
                                       ELSE <<Len(sent[c]), MessageHeaderSize>>

\* A message is written as pieces: all of it, or first its header.
LEMMA SendPieces ==
  ASSUME TypeOK, NEW c \in Conn, NEW size \in Sizes, ClientSend(c, size)
  PROVE  \E t, bytes :
           /\ sent' = [sent EXCEPT ![c] = t] /\ sent'[c] = t
           /\ t \in Seq(SentMessages) /\ Len(t) = Len(sent[c]) + 1 /\ Longer(sent[c], t)
           /\ t[Len(t)] = [id |-> Len(t), data |-> Payload(c, Len(t), size)]
           /\ Size(t, Len(t)) = size
           /\ Write(c, bytes) /\ bytes \in Seq(Byte) /\ Piece(c, t, bytes)
           /\ Start(bytes) = WriteEnd(c) /\ Start(bytes) = <<Len(t), 0>>
           /\ Finish(t, bytes) = WriteEnd(c)'
           /\ unwritten'[c] # << >> =>
                unwritten'[c] = Bytes(c, Len(t), MessageHeaderSize, End(t, Len(t)))
           /\ \A d \in Conn : d # c => unwritten'[d] = unwritten[d]
<1> DEFINE s == sent[c]
           w == Len(s) + 1
           payload == Payload(c, w, size)
           m == [id |-> w, data |-> payload]
           t == Append(s, m)
<1>1. /\ s \in Seq(SentMessages) /\ Len(s) \in Nat /\ w \in Nat /\ c \in Nat
      /\ size \in Nat /\ size \in SizeType /\ sent \in [Conn -> Seq(SentMessages)]
      /\ unwritten \in [Conn -> Seq(Byte)]
  BY ServerAssumption, SizeAssumption DEF TypeOK, ClientTypes, Conn, SizeType
<1>2. /\ payload \in Seq(Byte) /\ Len(payload) = size /\ Header(c, w) \in Seq(Byte)
  BY <1>1, PayloadTypes
<1>3. m \in SentMessages
  BY <1>1, <1>2 DEF SentMessages
<1>4. sent' = [sent EXCEPT ![c] = t] /\ sent'[c] = t
  BY <1>1 DEF ClientSend
<1>5. /\ t \in Seq(SentMessages) /\ Len(t) = w /\ t[w] = m /\ w \in 1..Len(t)
      /\ Longer(s, t)
  BY <1>1, <1>3 DEF Longer
<1>6. Size(t, w) = size /\ End(t, w) = MessageHeaderSize + size
  BY <1>2, <1>5 DEF Size, End
<1>7. /\ Header(c, w) = Bytes(c, w, 0, MessageHeaderSize)
      /\ payload = Bytes(c, w, MessageHeaderSize, MessageHeaderSize + size)
  BY <1>1, BytesOfMessage
<1>8. unwritten[c] = << >> /\ w = Len(s) + 1
  BY <1>1 DEF ClientSend
<1>9. WriteEnd(c) = <<w, 0>>
  BY <1>8 DEF WriteEnd
<1>10. m = [id |-> w, data |-> Payload(c, w, size)]
  OBVIOUS
<1> DEFINE Sends(bytes) ==
           /\ Write(c, bytes) /\ bytes \in Seq(Byte) /\ Piece(c, t, bytes)
           /\ Start(bytes) = <<w, 0>> /\ Finish(t, bytes) = WriteEnd(c)'
           /\ unwritten'[c] # << >> =>
                unwritten'[c] = Bytes(c, w, MessageHeaderSize, End(t, w))
           /\ \A d \in Conn : d # c => unwritten'[d] = unwritten[d]
<1> HIDE DEF t, m, payload
<1>0. c \in Nat
  BY <1>1
<1>11. ASSUME Write(c, Header(c, w) \o payload), UNCHANGED unwritten
       PROVE  \E bytes : Sends(bytes)
  <2> DEFINE l == MessageHeaderSize + size
             bytes == Bytes(c, w, 0, l)
  <2>0. 0 <= MessageHeaderSize /\ MessageHeaderSize <= l /\ l \in Nat /\ 0 \in Nat /\ 0 <= l
    BY <1>1, HeaderAssumption
  <2>1. Bytes(c, w, 0, MessageHeaderSize) \o Bytes(c, w, MessageHeaderSize, l) = bytes
    BY <1>1, <2>0, BytesJoin, HeaderAssumption
  <2>2. Write(c, bytes)
    BY <1>7, <1>11, <2>1
  <2>3. bytes \in Seq(Byte)
    BY <1>1, <2>0, BytesType
  <2>4. Interval(t, w, 0, l)
    BY <1>1, <1>5, <1>6, <2>0, HeaderAssumption DEF Interval
  <2> HIDE DEF bytes, l
  <2>5. bytes = Bytes(c, w, 0, l)
    BY DEF bytes
  <2>6. Piece(c, t, bytes)
    BY <1>0, <2>4, <2>5, PieceIs
  <2>7. Start(bytes) = <<w, 0>> /\ Finish(t, bytes) = Position(t, w, l)
    BY <1>0, <2>4, <2>5, PieceEnds
  <2>8. Finish(t, bytes) = <<w + 1, 0>>
    BY <1>6, <2>7 DEF Position, l
  <2>9. Finish(t, bytes) = WriteEnd(c)'
    BY <1>4, <1>5, <1>8, <1>11, <2>8 DEF WriteEnd
  <2>10. Sends(bytes)
    BY <1>8, <1>11, <2>2, <2>3, <2>6, <2>7, <2>9
  <2> HIDE DEF Sends
  <2> QED BY <2>10
<1>12. ASSUME Write(c, Header(c, w)), unwritten' = [unwritten EXCEPT ![c] = payload]
       PROVE  \E bytes : Sends(bytes)
  <2> DEFINE bytes == Bytes(c, w, 0, MessageHeaderSize)
  <2>2. Write(c, bytes)
    BY <1>7, <1>12
  <2>3. bytes \in Seq(Byte)
    BY <1>2, <1>7
  <2>4. Interval(t, w, 0, MessageHeaderSize)
    BY <1>1, <1>5, <1>6, HeaderAssumption DEF Interval
  <2> HIDE DEF bytes
  <2>5. bytes = Bytes(c, w, 0, MessageHeaderSize)
    BY DEF bytes
  <2>6. Piece(c, t, bytes)
    BY <1>0, <2>4, <2>5, PieceIs
  <2>7. Start(bytes) = <<w, 0>> /\ Finish(t, bytes) = Position(t, w, MessageHeaderSize)
    BY <1>0, <2>4, <2>5, PieceEnds
  <2>8. unwritten'[c] = payload /\ (payload = << >> <=> size = 0)
    BY <1>1, <1>2, <1>12
  <2>9. \A d \in Conn : d # c => unwritten'[d] = unwritten[d]
    BY <1>1, <1>12
  <2>12. WriteEnd(c)' = IF size = 0 THEN <<w + 1, 0>> ELSE <<w, MessageHeaderSize>>
    <3>1. Len(sent'[c]) = w /\ (unwritten'[c] = << >> <=> size = 0)
      BY <1>4, <1>5, <2>8
    <3> QED BY <3>1 DEF WriteEnd
  <2>13. MessageHeaderSize = End(t, w) <=> size = 0
    BY <1>1, <1>6, HeaderAssumption
  <2>10. Finish(t, bytes) = WriteEnd(c)'
    BY <2>7, <2>12, <2>13 DEF Position
  <2>11. Sends(bytes)
    BY <1>6, <1>7, <2>2, <2>3, <2>6, <2>7, <2>8, <2>9, <2>10
  <2> HIDE DEF Sends
  <2> QED BY <2>11
<1>13. PICK bytes : Sends(bytes)
  <2> HIDE DEF Sends
  <2> QED BY <1>11, <1>12 DEF ClientSend, payload
<1> QED BY <1>4, <1>5, <1>6, <1>9, <1>10, <1>13

\* The payload that is written behind its header is a piece of its message.
LEMMA RestPiece ==
  ASSUME TypeOK, Sending, NEW c \in Conn, ClientSendRest(c)
  PROVE  /\ Write(c, unwritten[c]) /\ unwritten[c] \in Seq(Byte)
         /\ Piece(c, sent[c], unwritten[c])
         /\ Start(unwritten[c]) = WriteEnd(c)
         /\ Start(unwritten[c]) = <<Len(sent[c]), MessageHeaderSize>>
         /\ Finish(sent[c], unwritten[c]) = WriteEnd(c)'
<1> DEFINE s == sent[c]
           w == Len(s)
           l == End(s, w)
           bytes == Bytes(c, w, MessageHeaderSize, l)
<1>1. /\ s \in Seq(SentMessages) /\ w \in Nat /\ c \in Nat
      /\ unwritten \in [Conn -> Seq(Byte)]
  BY ServerAssumption DEF TypeOK, ClientTypes, Conn
<1>2. /\ unwritten[c] # << >> /\ s # << >> /\ unwritten[c] = bytes /\ Write(c, unwritten[c])
      /\ unwritten' = [unwritten EXCEPT ![c] = << >>] /\ UNCHANGED sent
  BY DEF ClientSendRest, Sending, RestKnown
<1>3. w \in 1..Len(s)
  BY <1>1, <1>2
<1>4. Size(s, w) \in Nat /\ l \in Nat /\ l = MessageHeaderSize + Size(s, w)
  BY <1>1, <1>3, SizeTypes
<1>5. Len(bytes) = l - MessageHeaderSize
  BY <1>1, <1>4, BytesLength, HeaderAssumption
<1>6. MessageHeaderSize < l /\ MessageHeaderSize # 0
  <2>1. Len(bytes) # 0
    BY <1>1, <1>2
  <2> HIDE DEF bytes
  <2> QED BY <1>4, <1>5, <2>1, HeaderAssumption
<1>7. Interval(s, w, MessageHeaderSize, l)
  BY <1>1, <1>3, <1>4, <1>6, HeaderAssumption DEF Interval
<1> HIDE DEF bytes
<1>8. bytes = Bytes(c, w, MessageHeaderSize, l)
  BY DEF bytes
<1>9. Piece(c, s, bytes)
  BY <1>1, <1>7, <1>8, PieceIs
<1>10. Start(bytes) = <<w, MessageHeaderSize>> /\ Finish(s, bytes) = Position(s, w, l)
  BY <1>1, <1>7, <1>8, PieceEnds, SMTT(30)
<1>11. Start(bytes) = WriteEnd(c)
  BY <1>2, <1>10 DEF WriteEnd
<1>12. Finish(s, bytes) = WriteEnd(c)'
  <2>1. unwritten'[c] = << >> /\ sent'[c] = s
    BY <1>1, <1>2
  <2> QED BY <1>10, <2>1 DEF WriteEnd, Position
<1> QED BY <1>1, <1>2, <1>9, <1>10, <1>11, <1>12

\* Each step keeps what is known of the writes.
LEMMA SendingStep ==
  ASSUME TypeOK, Ownership, Instances, Sending, [Next]_vars
  PROVE  Sending'
<1>1. ASSUME UNCHANGED <<sent, unwritten>>,
             \A c \in Conn : client'[c] \in {"none", "listening"} =>
                               client[c] \in {"none", "listening"}
      PROVE  Sending'
  BY <1>1 DEF Sending, SentInOrder, RestKnown, Silent
<1>2. CASE UNCHANGED vars
  BY <1>1, <1>2 DEF vars
<1>3. ASSUME NEW c \in Conn, ClientConnect(c) PROVE Sending'
  BY <1>1, <1>3 DEF ClientConnect, TypeOK, ClientTypes
<1>4. ASSUME NEW c \in Conn, NEW size \in Sizes, ClientSend(c, size) PROVE Sending'
  <2>1. PICK t, bytes :
           /\ sent' = [sent EXCEPT ![c] = t] /\ sent'[c] = t
           /\ t \in Seq(SentMessages) /\ Len(t) = Len(sent[c]) + 1 /\ Longer(sent[c], t)
           /\ t[Len(t)] = [id |-> Len(t), data |-> Payload(c, Len(t), size)]
           /\ Size(t, Len(t)) = size
           /\ unwritten'[c] # << >> =>
                unwritten'[c] = Bytes(c, Len(t), MessageHeaderSize, End(t, Len(t)))
           /\ \A d \in Conn : d # c => unwritten'[d] = unwritten[d]
    BY <1>4, SendPieces
  <2>3. sent[c] \in Seq(SentMessages) /\ \A d \in Conn : d # c => sent'[d] = sent[d]
    BY <2>1 DEF TypeOK, ClientTypes
  <2>4. client[c] = "open" /\ UNCHANGED client
    BY <1>4 DEF ClientSend
  <2>5. ASSUME NEW d \in Conn, NEW w \in 1..Len(sent'[d])
        PROVE  sent'[d][w] = [id |-> w, data |-> Payload(d, w, Size(sent'[d], w))]
    <3>1. CASE d = c
      <4>1. CASE w \in 1..Len(sent[c])
        <5>1. sent'[c][w] = sent[c][w]
          BY <2>1, <4>1 DEF Longer
        <5> QED BY <3>1, <4>1, <5>1 DEF Sending, SentInOrder, Size
      <4>2. CASE w = Len(t)
        BY <2>1, <3>1, <4>2
      <4> QED BY <2>1, <2>3, <3>1, <4>1, <4>2
    <3>2. CASE d # c
      BY <2>3, <3>2 DEF Sending, SentInOrder
    <3> QED BY <3>1, <3>2
  <2>6. SentInOrder'
    BY <2>5 DEF SentInOrder
  <2>7. RestKnown'
    <3>1. sent'[c] # << >>
      BY <2>1, <2>3
    <3> QED BY <2>1, <2>3, <3>1 DEF Sending, RestKnown
  <2>8. Silent'
    BY <2>1, <2>3, <2>4 DEF Sending, Silent
  <2> QED BY <2>6, <2>7, <2>8 DEF Sending
<1>5. ASSUME NEW c \in Conn, ClientSendRest(c) \/ ClientClose(c) PROVE Sending'
  <2>1. /\ UNCHANGED sent /\ unwritten' = [unwritten EXCEPT ![c] = << >>]
        /\ client[c] = "open" /\ (client' = client \/ client' = [client EXCEPT ![c] = "closed"])
    BY <1>5 DEF ClientSendRest, ClientClose
  <2> QED BY <2>1 DEF Sending, SentInOrder, RestKnown, Silent, TypeOK, ClientTypes
<1>6. CASE IoCreate
  <2>1. /\ UNCHANGED <<sent, unwritten>>
        /\ client' \in {client, [client EXCEPT ![nconn + 1] = "listening"],
                        [client EXCEPT ![nconn + 1] = "open"]}
    BY <1>6 DEF IoCreate
  <2>2. CASE client' \in {client, [client EXCEPT ![nconn + 1] = "open"]}
    BY <1>1, <2>1, <2>2 DEF TypeOK, ClientTypes
  <2>3. CASE client' = [client EXCEPT ![nconn + 1] = "listening"]
    <3>1. client[nconn + 1] = "none" /\ nconn + 1 \in Conn
      BY <1>6, CreateFresh
    <3> QED BY <2>1, <2>3, <3>1 DEF Sending, SentInOrder, RestKnown, Silent, TypeOK, ClientTypes
  <2> QED BY <2>1, <2>2, <2>3
<1>7. CASE EmitLookupCrashes \/ DestroyConnections
  <2>1. UNCHANGED sent /\ ClosePipes
    BY <1>7 DEF EmitLookupCrashes, DestroyConnections
  <2> QED BY <2>1 DEF Sending, SentInOrder, RestKnown, Silent, ClosePipes
<1>8. ASSUME NEW c \in Conn, ClientSendNothing(c) PROVE Sending'
  BY <1>1, <1>8 DEF ClientSendNothing, clientVars
<1>9. CASE \/ IoStopped \/ IoPush \/ IoNoCreate \/ IoSkip \/ IoAcquire \/ IoStartRead
           \/ IoDistribute \/ IoSwap \/ IoRelease \/ IoScanned \/ IoWaitFails
           \/ \E c \in Conn : IoConnectEvent(c) \/ IoReadEvent(c) \/ IoBrokenEvent(c)
  <2>1. UNCHANGED clientVars
    BY <1>9 DEF IoStopped, IoPush, IoNoCreate, IoSkip, IoAcquire, IoStartRead,
       IoDistribute, IoSwap, IoRelease, IoScanned, IoWaitFails, IoConnectEvent,
       IoReadEvent, IoBrokenEvent
  <2> QED BY <1>1, <2>1 DEF clientVars
<1>10. CASE \/ EmitTop \/ EmitTest \/ EmitSleep \/ EmitSpuriousWake \/ EmitLookup
            \/ EmitLookupMisses \/ EmitHandle \/ OwnerStop \/ OwnerJoin
           \/ DestroyQueue \/ DestroyQueueCrashes
  <2>1. UNCHANGED clientVars
    BY <1>10 DEF EmitTop, EmitTest, EmitSleep, EmitSpuriousWake, EmitLookup,
       EmitLookupMisses, EmitHandle, OwnerStop, OwnerJoin, DestroyQueue, DestroyQueueCrashes, ioOwned
  <2> QED BY <1>1, <2>1 DEF clientVars
<1> QED BY <1>2, <1>3, <1>4, <1>5, <1>6, <1>7, <1>8, <1>9, <1>10
        DEF Next, ClientNext, IoNext, EmitNext, OwnerDestroys

-----------------------------------------------------------------------------
\* Which messages are on their way to the handler, and which connection has
\* which Message objects.

\* Each step leaves alone what was given away, ...
LEMMA GivenStable ==
  ASSUME TypeOK, Ownership, [Next]_vars, NEW o \in Obj, Given(o)
  PROVE  message'[o] = message[o]
<1>1. CASE o \in Queued \/ o = emitMsg
  BY <1>1, StableStep
<1>2. CASE o = ioMsg
  <2>1. Distributing
    BY <1>2, HeldObjects DEF Ownership, IoMsgHeld
  <2>2. CASE IoSwap
    <3>1. /\ cur \in Conn /\ o = readMessage[cur] /\ Acquire(cur)
      BY <1>2, <2>1, <2>2 DEF IoSwap, Ownership, IoMsgHeld
    <3>2. o \in Nat /\ o <= allocated /\ allocated \in Nat
      BY <3>1, ServerAssumption DEF Ownership, UsedAllocated, TypeOK, PoolTypes, Obj
    <3>3. o # allocated + 1
      BY <3>2
    <3> QED BY <3>1, <3>3 DEF Acquire, TypeOK, StoreTypes
  <2>3. CASE ~IoSwap
    <3>1. ioPc \in {"Distribute", "Swap", "Release"}
      BY <2>1 DEF Distributing
    <3>2. ~IoAcquire /\ ~IoStartRead /\ \A c \in Conn : ~IoReadEvent(c)
      BY <3>1 DEF IoAcquire, IoStartRead, StartsRead, IoReadEvent
    <3>3. CASE UNCHANGED vars \/ ClientNext
      BY <3>3 DEF vars, ClientNext, ClientConnect, ClientSend, ClientSendRest,
         ClientSendNothing, ClientClose
    <3>4. CASE \/ IoStopped \/ IoCreate \/ IoPush \/ IoNoCreate \/ IoSkip \/ IoDistribute
               \/ IoRelease \/ IoScanned \/ IoWaitFails
               \/ \E c \in Conn : IoConnectEvent(c) \/ IoBrokenEvent(c)
      BY <3>4 DEF IoStopped, IoCreate, IoPush, IoNoCreate, IoSkip, IoDistribute, IoRelease,
         IoScanned, IoWaitFails, IoConnectEvent, IoBrokenEvent
    <3>5. CASE EmitNext \/ EmitSpuriousWake \/ OwnerStop \/ OwnerDestroys
      BY <3>5 DEF EmitNext, EmitTop, EmitTest, EmitSleep, EmitSpuriousWake, EmitLookup,
         EmitLookupMisses, EmitLookupCrashes, EmitHandle, OwnerStop, OwnerDestroys,
         OwnerJoin, DestroyConnections, DestroyQueue, DestroyQueueCrashes, ioOwned
    <3> QED BY <2>3, <3>2, <3>3, <3>4, <3>5 DEF Next, IoNext
  <2> QED BY <2>2, <2>3
<1> QED BY <1>1, <1>2 DEF Given

\* ... and gives away only the message that onRead has completed.
Completes == ioPc # "Distribute" /\ ioPc' = "Distribute"

\* A step gives away no other message than the one that onRead has completed.
LEMMA GivenStep ==
  ASSUME TypeOK, [Next]_vars, NEW o \in Obj, Given(o)'
  PROVE  Given(o) \/ (Completes /\ o = ioMsg')
<1>1. ASSUME UNCHANGED <<emitMessageQueue, emitMsg, ioMsg>> PROVE Given(o)
  BY <1>1 DEF Given, Queued
<1>2. CASE IoStartRead \/ \E c \in Conn : IoReadEvent(c)
  <2>1. /\ UNCHANGED <<emitMessageQueue, emitMsg>> /\ ioPc # "Distribute"
        /\ UNCHANGED ioMsg \/ ioPc' = "Distribute"
    BY <1>2 DEF IoStartRead, StartsRead, IoReadEvent, OnRead, emitVars
  <2> QED BY <1>1, <2>1 DEF Given, Queued, Completes
<1>3. CASE IoDistribute
  <2>1. /\ emitMessageQueue \in Seq(Obj) /\ emitMessageQueue' = Append(emitMessageQueue, ioMsg)
        /\ UNCHANGED <<emitMsg, ioMsg>>
    BY <1>3 DEF IoDistribute, Enqueue, TypeOK, QueueTypes
  <2>2. Queued' \subseteq Queued \cup {ioMsg}
    BY <2>1 DEF Queued, Range
  <2> QED BY <2>1, <2>2 DEF Given
<1>4. CASE EmitTest
  <2>1. UNCHANGED ioMsg
    BY <1>4 DEF EmitTest, ioOwned, ioVars
  <2>2. \/ UNCHANGED <<emitMessageQueue, emitMsg>>
        \/ /\ emitMessageQueue # << >> /\ emitMsg' = Head(emitMessageQueue)
           /\ emitMessageQueue' = Tail(emitMessageQueue)
    BY <1>4 DEF EmitTest
  <2>3. emitMessageQueue \in Seq(Obj)
    BY DEF TypeOK, QueueTypes
  <2>4. ASSUME emitMessageQueue # << >>, emitMsg' = Head(emitMessageQueue),
               emitMessageQueue' = Tail(emitMessageQueue)
        PROVE  emitMsg' \in Queued /\ Queued' \subseteq Queued
    BY <2>3, <2>4 DEF Queued, Range
  <2> QED BY <1>1, <2>1, <2>2, <2>4 DEF Given
<1>5. CASE EmitLookupMisses \/ EmitHandle \/ IoRelease
  <2>1. /\ UNCHANGED emitMessageQueue /\ emitMsg' \in {emitMsg, Null}
        /\ ioMsg' \in {ioMsg, Null}
    BY <1>5 DEF EmitLookupMisses, EmitHandle, EmitRelease, IoRelease, ioOwned, ioVars, emitVars
  <2>2. Null # o
    BY HeldObjects
  <2> QED BY <2>1, <2>2 DEF Given, Queued
<1>6. CASE DestroyQueue
  <2>1. Queued' = {} /\ UNCHANGED <<emitMsg, ioMsg>>
    BY <1>6 DEF DestroyQueue, ioOwned, ioVars, emitVars, Queued, Range
  <2> QED BY <2>1 DEF Given
<1>7. CASE UNCHANGED vars \/ ClientNext
  <2>1. UNCHANGED <<emitMessageQueue, emitMsg, ioMsg>>
    BY <1>7 DEF vars, ClientNext, ClientConnect, ClientSend, ClientSendRest,
       ClientSendNothing, ClientClose, ioVars, emitVars
  <2> QED BY <1>1, <2>1
<1>8. CASE \/ IoStopped \/ IoCreate \/ IoPush \/ IoNoCreate \/ IoSkip \/ IoAcquire \/ IoSwap
           \/ IoScanned \/ IoWaitFails \/ \E c \in Conn : IoConnectEvent(c) \/ IoBrokenEvent(c)
  <2>1. UNCHANGED <<emitMessageQueue, emitMsg, ioMsg>>
    BY <1>8 DEF IoStopped, IoCreate, IoPush, IoNoCreate, IoSkip, IoAcquire, IoSwap,
       IoScanned, IoWaitFails, IoConnectEvent, IoBrokenEvent, ioVars, emitVars
  <2> QED BY <1>1, <2>1
<1>9. CASE \/ EmitTop \/ EmitSleep \/ EmitSpuriousWake \/ EmitLookup \/ EmitLookupCrashes
           \/ OwnerStop \/ OwnerJoin \/ DestroyConnections \/ DestroyQueueCrashes
  <2>1. UNCHANGED <<emitMessageQueue, emitMsg, ioMsg>>
    BY <1>9 DEF EmitTop, EmitSleep, EmitSpuriousWake, EmitLookup, EmitLookupCrashes,
       OwnerStop, OwnerJoin, DestroyConnections, DestroyQueueCrashes, ioOwned, ioVars, emitVars
  <2> QED BY <1>1, <2>1
<1> QED BY <1>2, <1>3, <1>4, <1>5, <1>6, <1>7, <1>8, <1>9
        DEF Next, IoNext, EmitNext, OwnerDestroys

\* The messages in the pool of a connection were made for it, and were read
\* completely; so was the one it reads into made for it.
Homes ==
  \A c \in Conn :
    /\ readMessage[c] # Null => message[readMessage[c]].connectionId = c
    /\ \A o \in Pooled(c) : message[o].connectionId = c /\ message[o].allDataRead

\* Nothing of it changes.
LEMMA HomesKept ==
  ASSUME Homes, UNCHANGED <<readMessage, messagePool, message>>
  PROVE  Homes'
BY DEF Homes, Pooled

\* onRead keeps the connection of a message.
LEMMA HomesOnRead ==
  ASSUME TypeOK, Ownership, Homes, UNCHANGED <<readMessage, messagePool>>,
         NEW c \in Conn, readMessage[c] # Null, NEW m,
         message' = [message EXCEPT ![readMessage[c]] = m],
         m.connectionId = message[readMessage[c]].connectionId
  PROVE  Homes'
<1> DEFINE o == readMessage[c]
<1>1. o \in Obj /\ message'[o] = m /\ \A x \in Obj : x # o => message'[x] = message[x]
  BY DEF TypeOK, PoolTypes, StoreTypes
<1>2. \A d \in Conn : Pooled(d)' = Pooled(d) /\ o \notin Pooled(d) /\ Pooled(d) \subseteq Obj
  BY HeldObjects DEF Pooled, Ownership, PooledUnused
<1>3. \A d \in Conn : readMessage[d] # Null => readMessage[d] \in Obj
  BY DEF TypeOK, PoolTypes
<1> QED BY <1>1, <1>2, <1>3 DEF Homes

\* acquire takes an object of the pool of the connection, or a new one.
LEMMA HomesAcquire ==
  ASSUME TypeOK, Ownership, Homes, NEW c \in Conn, Acquire(c)
  PROVE  Homes'
<1>0. /\ messagePool \in [Conn -> Seq(Obj)] /\ readMessage \in [Conn -> Obj \cup {Null}]
      /\ message \in [Obj -> Messages] /\ allocated \in Nat
      /\ \A d \in Conn : Pooled(d) \subseteq Obj
  BY HeldObjects DEF TypeOK, PoolTypes, StoreTypes
<1>1. CASE messagePool[c] # << >>
  <2> DEFINE o == Head(messagePool[c])
  <2>1. /\ readMessage' = [readMessage EXCEPT ![c] = o]
        /\ messagePool' = [messagePool EXCEPT ![c] = Tail(@)]
        /\ UNCHANGED message
    BY <1>1 DEF Acquire
  <2>2. messagePool[c] \in Seq(Obj)
    BY <1>0
  <2>3. o \in Pooled(c)
    BY <1>1, <2>2 DEF Pooled, Range
  <2>4. Range(Tail(messagePool[c])) \subseteq Range(messagePool[c])
    BY <1>1, <2>2 DEF Range
  <2>5. \A d \in Conn : Pooled(d)' \subseteq Pooled(d)
    BY <1>0, <2>1, <2>4 DEF Pooled
  <2> HIDE DEF o
  <2>6. readMessage'[c] = o /\ \A d \in Conn : d # c => readMessage'[d] = readMessage[d]
    BY <1>0, <2>1
  <2> QED BY <2>1, <2>3, <2>5, <2>6 DEF Homes
<1>2. CASE messagePool[c] = << >>
  <2> DEFINE o == allocated + 1
  <2>1. /\ message' = [message EXCEPT ![o] = NewMessage(c)]
        /\ readMessage' = [readMessage EXCEPT ![c] = o]
        /\ UNCHANGED messagePool /\ allocated < MaxObjects
    BY <1>2 DEF Acquire
  <2>2. o \in Obj
    BY <1>0, <2>1, ServerAssumption DEF Obj
  <2>3. message'[o] = NewMessage(c) /\ \A x \in Obj : x # o => message'[x] = message[x]
    BY <1>0, <2>1, <2>2
  <2>4. ASSUME NEW x, x <= allocated PROVE x # o
    BY <1>0, <2>4
  <2>5. \A d \in Conn : readMessage[d] # o /\ o \notin Pooled(d)
    BY <2>4 DEF Ownership, UsedAllocated, PooledUnused
  <2>6. NewMessage(c).connectionId = c
    BY DEF NewMessage
  <2> HIDE DEF o
  <2>7. readMessage'[c] = o /\ \A d \in Conn : d # c => readMessage'[d] = readMessage[d]
    BY <1>0, <2>1
  <2>8. \A d \in Conn : Pooled(d)' = Pooled(d)
    BY <2>1 DEF Pooled
  <2>9. ASSUME NEW d \in Conn, readMessage'[d] # Null
        PROVE  message'[readMessage'[d]].connectionId = d
    <3>1. CASE d = c
      BY <2>3, <2>6, <2>7, <3>1
    <3>2. CASE d # c
      BY <1>0, <2>3, <2>5, <2>7, <2>9, <3>2 DEF Homes
    <3> QED BY <3>1, <3>2
  <2>10. ASSUME NEW d \in Conn, NEW x \in Pooled(d)
         PROVE  message'[x].connectionId = d /\ message'[x].allDataRead
    <3>1. x \in Obj /\ x # o
      BY <1>0, <2>5
    <3>2. message'[x] = message[x]
      BY <2>3, <3>1
    <3>3. message[x].connectionId = d /\ message[x].allDataRead
      BY DEF Homes
    <3> QED BY <3>2, <3>3
  <2> QED BY <2>8, <2>9, <2>10 DEF Homes
<1> QED BY <1>1, <1>2

\* What is in the pools after an object has returned to one.
LEMMA PooledReturn ==
  ASSUME TypeOK, NEW o \in Obj, ReturnToPool(o), NEW c \in Conn
  PROVE  /\ c = message[o].connectionId => Pooled(c)' = Pooled(c) \cup {o}
         /\ c # message[o].connectionId =>
              Pooled(c)' = Pooled(c) /\ messagePool'[c] = messagePool[c]
<1>1. messagePool \in [Conn -> Seq(Obj)] /\ messagePool[c] \in Seq(Obj)
  BY DEF TypeOK, PoolTypes
<1>2. CASE c = message[o].connectionId
  <2>1. messagePool'[c] = <<o>> \o messagePool[c]
    BY <1>1, <1>2 DEF ReturnToPool
  <2> QED BY <1>1, <1>2, <2>1, PushElements DEF Pooled
<1>3. CASE c # message[o].connectionId
  <2>1. messagePool'[c] = messagePool[c]
    BY <1>1, <1>3 DEF ReturnToPool
  <2> QED BY <1>3, <2>1 DEF Pooled
<1> QED BY <1>2, <1>3

\* A message that was read completely comes back to the pool of its connection.
LEMMA HomesReturn ==
  ASSUME TypeOK, Homes, NEW o \in Obj, ReturnToPool(o), message[o].allDataRead,
         UNCHANGED <<readMessage, message>>
  PROVE  Homes'
BY PooledReturn DEF Homes

\* Each step leaves the messages with the connections they were made for.
LEMMA HomesStep ==
  ASSUME IInv, Homes, [Next]_vars
  PROVE  Homes'
<1>0. TypeOK /\ Ownership /\ Whole
  BY DEF IInv
<1>1. CASE IoAcquire \/ IoSwap
  <2>1. cur \in Conn /\ Acquire(cur)
    BY <1>0, <1>1, ServedConnection DEF IoAcquire, IoSwap, Distributing
  <2> QED BY <1>0, <2>1, HomesAcquire
<1>2. ASSUME NEW c \in Conn, NEW bytes, NEW from, readMessage[c] # Null,
             OnRead(c, readMessage[c], bytes, from), UNCHANGED poolVars
      PROVE  Homes'
  <2> DEFINE m == message[readMessage[c]]
  <2>1. m \in Messages
    BY <1>0, <1>2 DEF TypeOK, PoolTypes, StoreTypes
  <2>2. \A h : ProcessHeader(m, h).connectionId = m.connectionId
    BY <2>1 DEF ProcessHeader, ResetMessage, Messages
  <2>3. AcceptBytes(m, bytes).connectionId = m.connectionId
    BY <2>1 DEF AcceptBytes, Messages
  <2>4. \/ UNCHANGED message
        \/ \E h : message' = [message EXCEPT ![readMessage[c]] = ProcessHeader(m, h)]
        \/ message' = [message EXCEPT ![readMessage[c]] = AcceptBytes(m, bytes)]
    BY <1>2 DEF OnRead
  <2> HIDE DEF m
  <2>5. UNCHANGED <<readMessage, messagePool>>
    BY <1>2 DEF poolVars
  <2>6. CASE UNCHANGED message
    BY <2>5, <2>6, HomesKept
  <2>7. ASSUME NEW h, message' = [message EXCEPT ![readMessage[c]] = ProcessHeader(m, h)]
        PROVE  Homes'
    BY <1>0, <1>2, <2>2, <2>5, <2>7, HomesOnRead DEF m
  <2>8. CASE message' = [message EXCEPT ![readMessage[c]] = AcceptBytes(m, bytes)]
    BY <1>0, <1>2, <2>3, <2>5, <2>8, HomesOnRead DEF m
  <2> QED BY <2>4, <2>6, <2>7, <2>8
<1>3. CASE IoStartRead
  <2>1. cur \in Conn /\ readMessage[cur] # Null /\ UNCHANGED poolVars
    BY <1>0, <1>3, ServedConnection DEF IoStartRead
  <2>2. CASE UNCHANGED message
    BY <2>1, <2>2, HomesKept DEF poolVars
  <2> QED BY <1>2, <1>3, <2>1, <2>2 DEF IoStartRead
<1>4. ASSUME NEW c \in Conn, IoReadEvent(c) PROVE Homes'
  BY <1>0, <1>2, <1>4 DEF IoReadEvent, Ownership, ReadHasMessage, KernelOwns
<1>5. ASSUME NEW o \in Obj, Given(o), ReturnToPool(o), UNCHANGED <<readMessage, message>>
      PROVE  Homes'
  BY <1>0, <1>5, HomesReturn DEF Whole
<1>6. CASE IoRelease
  <2>1. ioMsg \in Obj /\ Given(ioMsg)
    BY <1>0, <1>6, HeldObjects DEF IoRelease, TypeOK, IoTypes, Ownership, IoMsgHeld,
       Distributing, Given
  <2> QED BY <1>5, <1>6, <2>1, HomesKept DEF IoRelease
<1>7. CASE EmitLookupMisses \/ EmitHandle
  <2>1. emitMsg \in Obj /\ Given(emitMsg)
    BY <1>0, <1>7, HeldObjects DEF EmitLookupMisses, LookupRaces, EmitHandle, TypeOK, EmitTypes,
       Ownership, EmitMsgHeld, Given
  <2> QED BY <1>5, <1>7, <2>1, HomesKept DEF EmitLookupMisses, EmitHandle, EmitRelease, ioOwned
<1>8. CASE DestroyConnections
  <2>1. \A c \in Conn : readMessage'[c] = Null /\ messagePool'[c] = << >>
    BY <1>8 DEF DestroyConnections
  <2>2. \A c \in Conn : Pooled(c)' = {}
    BY <2>1 DEF Pooled, Range
  <2> QED BY <2>1, <2>2 DEF Homes
<1>9. CASE UNCHANGED vars \/ ClientNext
  BY <1>9, HomesKept DEF vars, ClientNext, ClientConnect, ClientSend, ClientSendRest,
     ClientSendNothing, ClientClose, poolVars
<1>10. CASE \/ IoStopped \/ IoCreate \/ IoPush \/ IoNoCreate \/ IoSkip \/ IoDistribute
            \/ IoScanned \/ IoWaitFails
            \/ \E c \in Conn : IoConnectEvent(c) \/ IoBrokenEvent(c)
  BY <1>10, HomesKept DEF IoStopped, IoCreate, IoPush, IoNoCreate, IoSkip, IoDistribute,
     IoScanned, IoWaitFails, IoConnectEvent, IoBrokenEvent, poolVars
<1>11. CASE \/ EmitTop \/ EmitTest \/ EmitSleep \/ EmitSpuriousWake \/ EmitLookup
            \/ EmitLookupCrashes \/ OwnerStop \/ OwnerJoin
           \/ DestroyQueue \/ DestroyQueueCrashes
  BY <1>11, HomesKept DEF EmitTop, EmitTest, EmitSleep, EmitSpuriousWake, EmitLookup,
     EmitLookupCrashes, OwnerStop, OwnerJoin, DestroyQueue, DestroyQueueCrashes, ioOwned, poolVars
<1> QED BY <1>1, <1>3, <1>4, <1>6, <1>7, <1>8, <1>9, <1>10, <1>11
        DEF Next, IoNext, EmitNext, OwnerDestroys

-----------------------------------------------------------------------------
\* What has been read of the messages s of client c up to position p, and what
\* follows from there to position e.

\* onRead has completed the message the connection reads into, and has not
\* replaced it yet.
Complete(c) == c = cur /\ ioPc \in {"Distribute", "Swap"}

\* The connection reads into a message that was complete before: one from its
\* pool, which still is as the handler saw it.
Stale(c) == /\ readMessage[c] # Null /\ message[readMessage[c]].allDataRead
            /\ ~Complete(c)

\* Nothing arrives for such a message.
FreshReads == \A c \in Conn : Stale(c) => readIO[c] # "Done" /\ pipe[c] = << >>

Fetched(c, s, p) == IF readIO[c] = "Done" THEN Finish(s, transferred[c]) ELSE p

\* What was read and not looked at, and behind it what is in the pipe, follow
\* one another, up to what the client has written.
Streaming(c, s, p, e) ==
  /\ readIO[c] = "Done" =>
       /\ Piece(c, s, transferred[c]) /\ Start(transferred[c]) = p
       /\ From(transferred[c]) = 0 => Len(transferred[c]) = MessageHeaderSize
  /\ Chain(c, s, Fetched(c, s, p), pipe[c])
  /\ client[c] # "closed" => ChainEnd(s, Fetched(c, s, p), pipe[c]) = e

\* The message being read has what comes before p, and an object in the pool
\* was used for an earlier message.
Receiving(c, s, p) ==
  /\ p[1] \in 1..(Len(s) + 1)
  /\ messagePool[c] # << >> => p[1] >= 2 /\ (Complete(c) => p[1] >= 3)
  /\ readMessage[c] = Null => p[2] = 0 /\ (p[1] = 1 \/ Gone)
  /\ Complete(c) => p[2] = 0 /\ message[readMessage[c]].header.id + 1 = p[1]
  /\ Stale(c) => p[1] >= 3 /\ p[2] = 0
  /\ readMessage[c] # Null /\ ~Complete(c) /\ ~Stale(c) =>
       Partial(c, s, message[readMessage[c]], p)

\* What was distributed comes before p.
Passed(c, p) ==
  /\ \A o \in Obj : Given(o) /\ message[o].connectionId = c => message[o].header.id < p[1]
  /\ \A i \in 1..Len(delivered[c]) : delivered[c][i].id < p[1]

Flows(c, p) == /\ Streaming(c, sent[c], p, WriteEnd(c))
               /\ Receiving(c, sent[c], p)
               /\ Passed(c, p)

Flowing == \A c \in Conn : \E p \in Positions : Flows(c, p)

\* The message that onRead completes is the next whole message of its client.
Arrives(c, p) == /\ Passed(c, p)
                 /\ message'[ioMsg'].connectionId = c
                 /\ AllOf(c, sent[c], message'[ioMsg'], p[1])

\* A step goes to the next message when onRead has completed this one.
Moves(c, p, q) ==
  Within(sent[c], p, q) \/ (q[1] = p[1] + 1 /\ ioPc' = "Distribute" /\ Arrives(c, p))

\* From each position that a client may be at a step goes to such a position.
FlowsOn ==
  \A c \in Conn : \A p \in Positions :
    Flows(c, p) => \E q \in Positions : Flows(c, q)' /\ Moves(c, p, q)

\* Then the bytes of all clients stay in order.
LEMMA FlowingOn ==
  ASSUME Flowing, FlowsOn
  PROVE  Flowing'
BY DEF Flowing, FlowsOn

\* A step that has nothing to do with the bytes of a client.
LEMMA StreamingKept ==
  ASSUME NEW c, NEW s, NEW p, NEW e, NEW d, Streaming(c, s, p, e),
         readIO'[c] = "Done" <=> readIO[c] = "Done",
         readIO[c] = "Done" => transferred'[c] = transferred[c],
         pipe'[c] = pipe[c], client'[c] # "closed" => client[c] # "closed" /\ d = e
  PROVE  Streaming(c, s, p, d)'
<1>1. Fetched(c, s, p)' = Fetched(c, s, p)
  BY DEF Fetched
<1> QED BY <1>1 DEF Streaming

\* A step that leaves the message being read alone, and puts into the pool only
\* what may be there.
LEMMA ReceivingKept ==
  ASSUME NEW c, NEW s, NEW p, Receiving(c, s, p),
         readMessage'[c] = readMessage[c],
         readMessage[c] # Null => message'[readMessage[c]] = message[readMessage[c]],
         Complete(c)' <=> Complete(c), Gone => Gone',
         Complete(c) => readMessage[c] # Null,
         messagePool'[c] # << >> => p[1] >= 2 /\ (Complete(c) => p[1] >= 3)
  PROVE  Receiving(c, s, p)'
<1>1. Stale(c)' <=> Stale(c)
  BY DEF Stale
<1> QED BY <1>1 DEF Receiving

\* When the client sends one more message, what was read stays.
LEMMA ReceivingGrows ==
  ASSUME NEW c, NEW s, NEW t, NEW p, Receiving(c, s, p), Longer(s, t),
         Len(s) \in Nat, Len(t) \in Nat, Len(s) <= Len(t)
  PROVE  Receiving(c, t, p)
<1>1. p[1] \in 1..(Len(t) + 1)
  BY DEF Receiving
<1>2. ASSUME NEW m, Partial(c, s, m, p) PROVE Partial(c, t, m, p)
  <2>1. CASE IsHeaderProcessed(m)
    <3>1. Interval(s, p[1], 0, p[2])
      BY <1>2, <2>1 DEF Partial
    <3>2. Interval(t, p[1], 0, p[2]) /\ End(t, p[1]) = End(s, p[1])
      BY <3>1, IntervalGrows
    <3>3. Size(t, p[1]) = Size(s, p[1])
      <4>1. p[1] \in 1..Len(s)
        BY <3>1 DEF Interval
      <4> QED BY <4>1 DEF Longer, Size
    <3> QED BY <1>2, <2>1, <3>2, <3>3 DEF Partial
  <2>2. CASE ~IsHeaderProcessed(m)
    BY <1>2, <2>2 DEF Partial
  <2> QED BY <2>1, <2>2
<1> QED BY <1>1, <1>2 DEF Receiving

\* Nothing new is distributed, or it comes before the new position.
LEMMA PassedKept ==
  ASSUME TypeOK, Ownership, [Next]_vars, NEW c \in Conn, NEW p, NEW q, Passed(c, p),
         p[1] \in Nat, q[1] \in Nat, p[1] <= q[1],
         Completes /\ message'[ioMsg'].connectionId = c => message'[ioMsg'].header.id < q[1]
  PROVE  Passed(c, q)'
<1>1. ASSUME NEW o \in Obj, Given(o)', message'[o].connectionId = c
      PROVE  message'[o].header.id < q[1]
  <2>1. CASE Given(o)
    <3>1. message'[o] = message[o] /\ message[o].header.id \in Nat
      BY <2>1, GivenStable DEF TypeOK, StoreTypes, Messages, Headers
    <3> QED BY <1>1, <2>1, <3>1 DEF Passed
  <2>2. CASE Completes /\ o = ioMsg'
    BY <1>1, <2>2
  <2> QED BY <1>1, <2>1, <2>2, GivenStep
<1>2. ASSUME NEW i \in 1..Len(delivered'[c]) PROVE delivered'[c][i].id < q[1]
  <2>0. /\ delivered \in [Conn -> Seq([id : Nat, data : Seq(Byte)])]
        /\ delivered[c] \in Seq([id : Nat, data : Seq(Byte)])
    BY DEF TypeOK, EmitTypes
  <2>4. ASSUME NEW j \in 1..Len(delivered[c]) PROVE delivered[c][j].id \in Nat
    <3> DEFINE S == [id : Nat, data : Seq(Byte)]
    <3> HIDE DEF S
    <3>2. delivered[c] \in Seq(S)
      BY <2>0 DEF S
    <3>3. delivered[c][j] \in S
      BY <3>2
    <3>1. delivered[c][j] \in [id : Nat, data : Seq(Byte)]
      BY <3>3 DEF S
    <3> QED BY <3>1
  <2>1. CASE delivered'[c] = delivered[c]
    <3>1. i \in 1..Len(delivered[c])
      BY <1>2, <2>1
    <3>2. delivered[c][i].id \in Nat /\ delivered[c][i].id < p[1]
      BY <2>4, <3>1 DEF Passed
    <3> QED BY <2>1, <3>2
  <2>2. CASE EmitHandle /\ delivered'[c] # delivered[c]
    <3> DEFINE m == message[emitMsg]
    <3>1. emitMsg \in Obj /\ Given(emitMsg)
      BY <2>2, HeldObjects DEF EmitHandle, TypeOK, EmitTypes, Ownership, EmitMsgHeld, Given
    <3>2. m.header.id \in Nat
      BY <3>1 DEF TypeOK, StoreTypes, Messages, Headers
    <3>3. /\ m.connectionId = c
          /\ delivered'[c] = Append(delivered[c], HandedOver(m))
      BY <2>0, <2>2 DEF EmitHandle
    <3>4. m.header.id < p[1]
      BY <3>1, <3>3 DEF Passed
    <3>5. HandedOver(m).id = m.header.id
      BY DEF HandedOver
    <3> HIDE DEF m
    <3>6. CASE i = Len(delivered[c]) + 1
      <4>1. delivered'[c][i] = HandedOver(m)
        BY <2>0, <3>3, <3>6
      <4> QED BY <3>2, <3>4, <3>5, <4>1
    <3>7. CASE i \in 1..Len(delivered[c])
      <4>1. delivered'[c][i] = delivered[c][i]
        BY <2>0, <3>3, <3>7
      <4>2. delivered[c][i].id \in Nat /\ delivered[c][i].id < p[1]
        BY <2>4, <3>7 DEF Passed
      <4> QED BY <4>1, <4>2
    <3>8. Len(delivered'[c]) = Len(delivered[c]) + 1 /\ Len(delivered[c]) \in Nat
      BY <2>0, <3>3
    <3> QED BY <1>2, <3>6, <3>7, <3>8
  <2>3. CASE ~EmitHandle
    <3>1. CASE UNCHANGED vars \/ ClientNext
      BY <2>1, <3>1 DEF vars, ClientNext, ClientConnect, ClientSend, ClientSendRest,
         ClientSendNothing, ClientClose, emitVars
    <3>2. CASE IoNext
      BY <2>1, <3>2 DEF IoNext, IoStopped, IoCreate, IoPush, IoNoCreate, IoSkip, IoAcquire,
         IoStartRead, IoDistribute, IoSwap, IoRelease, IoScanned, IoWaitFails,
         IoConnectEvent, IoReadEvent, IoBrokenEvent, emitVars
    <3>3. CASE EmitNext \/ EmitSpuriousWake \/ OwnerStop \/ OwnerDestroys
      BY <2>1, <2>3, <3>3 DEF EmitNext, EmitTop, EmitTest, EmitSleep, EmitSpuriousWake,
         EmitLookup, EmitLookupMisses, EmitLookupCrashes, OwnerStop, OwnerDestroys,
         OwnerJoin, DestroyConnections, DestroyQueue, DestroyQueueCrashes, emitVars
    <3> QED BY <3>1, <3>2, <3>3 DEF Next
  <2> QED BY <2>1, <2>2, <2>3
<1> QED BY <1>1, <1>2 DEF Passed

\* The pieces of a client's state put together.
LEMMA FlowsPrimed ==
  ASSUME NEW c, NEW p, NEW s, NEW e, s = sent'[c], e = WriteEnd(c)',
         Streaming(c, s, p, e)', Receiving(c, s, p)', Passed(c, p)'
  PROVE  Flows(c, p)'
BY DEF Flows

\* A step that does not concern connection c.
LEMMA FlowsKept ==
  ASSUME IInv, [Next]_vars, NEW c \in Conn, NEW p \in Positions, Flows(c, p),
         sent'[c] = sent[c], client'[c] # "closed" => client[c] # "closed",
         client'[c] # "closed" => unwritten'[c] = unwritten[c],
         readIO'[c] = "Done" <=> readIO[c] = "Done",
         readIO[c] = "Done" => transferred'[c] = transferred[c],
         pipe'[c] = pipe[c], readMessage'[c] = readMessage[c],
         readMessage[c] # Null => message'[readMessage[c]] = message[readMessage[c]],
         Complete(c)' <=> Complete(c), Gone => Gone',
         messagePool'[c] # << >> => p[1] >= 2 /\ (Complete(c) => p[1] >= 3),
         Completes => message'[ioMsg'].connectionId # c
  PROVE  Flows(c, p)'
<1>1. PICK s : s = sent[c]
  OBVIOUS
<1>2. PICK e : e = WriteEnd(c)
  OBVIOUS
<1>3. PICK d : d = WriteEnd(c)'
  OBVIOUS
<1>4. Streaming(c, s, p, e) /\ Receiving(c, s, p) /\ Passed(c, p)
  BY <1>1, <1>2 DEF Flows
<1>5. client'[c] # "closed" => d = e
  BY <1>2, <1>3 DEF WriteEnd
<1>6. Streaming(c, s, p, d)'
  BY <1>4, <1>5, StreamingKept
<1>7. Complete(c) => readMessage[c] # Null
  BY HeldObjects DEF Complete, IInv, Ownership, IoMsgHeld, Distributing
<1>8. Receiving(c, s, p)'
  BY <1>4, <1>7, ReceivingKept
<1>9. p[1] \in Nat /\ p[1] <= p[1]
  BY DEF Positions
<1>10. Passed(c, p)'
  BY <1>4, <1>9, PassedKept DEF IInv
<1>11. s = sent'[c]
  BY <1>1
<1> QED BY <1>3, <1>6, <1>8, <1>10, <1>11, FlowsPrimed

\* When the client sends one more message, what is on its way stays.
LEMMA StreamingGrows ==
  ASSUME NEW c, NEW s, NEW t, NEW p, NEW e, c \in Nat, Longer(s, t), Streaming(c, s, p, e),
         Frames(pipe[c])
  PROVE  Streaming(c, t, p, e)
<1>1. ASSUME readIO[c] = "Done"
      PROVE  /\ Piece(c, t, transferred[c]) /\ Finish(t, transferred[c]) = Finish(s, transferred[c])
  <2>1. Piece(c, s, transferred[c])
    BY <1>1 DEF Streaming
  <2> QED BY <2>1, PieceGrows
<1>2. Fetched(c, t, p) = Fetched(c, s, p)
  BY <1>1 DEF Fetched
<1>3. PICK f : f = Fetched(c, s, p)
  OBVIOUS
<1>4. PICK q : q = pipe[c]
  OBVIOUS
<1>5. Chain(c, s, f, q) /\ Frames(q)
  BY <1>3, <1>4 DEF Streaming
<1>6. Chain(c, t, f, q) /\ ChainEnd(t, f, q) = ChainEnd(s, f, q)
  BY <1>5, ChainGrows
<1> QED BY <1>1, <1>2, <1>3, <1>4, <1>6 DEF Streaming

\* A chain of at most one piece.
LEMMA ChainOfNone ==
  ASSUME NEW c, NEW s, NEW p
  PROVE  Chain(c, s, p, << >>) /\ ChainEnd(s, p, << >>) = p
BY DEF Chain, ChainEnd

-----------------------------------------------------------------------------
\* The steps of the clients keep the bytes in order.

\* A write that follows what the client has written, to a pipe that nobody
\* waits for, or for a read that has room for its beginning.
LEMMA WriteStreams ==
  ASSUME TypeOK, NEW c \in Conn, NEW s, NEW p, NEW e, NEW d, NEW bytes,
         MessageList(s), Frame(bytes), Streaming(c, s, p, e),
         Write(c, bytes), Piece(c, s, bytes), Start(bytes) = e, Finish(s, bytes) = d,
         client[c] # "closed", UNCHANGED client,
         NEW n, n = ReadSize(message[readMessage[c]]),
         readIO[c] = "Pending" => /\ pipe[c] = << >> /\ n \in Nat /\ n >= 1
                                  /\ From(bytes) = 0 => n = MessageHeaderSize
  PROVE  Streaming(c, s, p, d)'
<1>0. /\ c \in Nat /\ pipe \in [Conn -> Seq(Seq(Byte))] /\ pipe[c] \in Seq(Seq(Byte))
      /\ readIO \in [Conn -> {"Idle", "Pending", "Done", "Broken"}]
      /\ transferred \in [Conn -> Seq(Byte)]
  BY ServerAssumption DEF TypeOK, PipeTypes, ReadTypes, Conn
<1>1. CASE readIO[c] = "Pending"
  <2>0. PICK t : t = Transfer(bytes, n)
    OBVIOUS
  <2>1. PICK r : r = Remainder(bytes, n)
    OBVIOUS
  <2>2. readIO'[c] = "Done" /\ transferred'[c] = t /\ pipe'[c] = IF r = << >> THEN << >> ELSE <<r>>
    BY <1>0, <1>1, <2>0, <2>1 DEF Write
  <2>3. p = e
    <3>1. Fetched(c, s, p) = p /\ pipe[c] = << >>
      BY <1>1 DEF Fetched
    <3> QED BY <3>1 DEF Streaming, ChainEnd
  <2>4. n \in Nat /\ n >= 1 /\ (From(bytes) = 0 => n = MessageHeaderSize) /\ c \in Nat
    BY <1>0, <1>1
  <2>5. /\ Piece(c, s, t) /\ Start(t) = Start(bytes)
        /\ From(bytes) = 0 => Len(t) = MessageHeaderSize
        /\ \/ t = bytes /\ r = << >> /\ Len(bytes) <= n
           \/ /\ Piece(c, s, r) /\ r # << >> /\ Len(bytes) > n
              /\ Start(r) = Finish(s, t) /\ Finish(s, r) = Finish(s, bytes)
    <3>1. Splits(c, s, bytes, n, t, r)
      BY <2>0, <2>1, <2>4, TakePiece
    <3> QED BY <3>1 DEF Splits
  <2>6. From(t) = From(bytes)
    BY <2>5 DEF Start
  <2>7. PICK f : f = Finish(s, t)
    OBVIOUS
  <2>8. PICK q : q = pipe'[c]
    OBVIOUS
  <2>9. Chain(c, s, f, q) /\ ChainEnd(s, f, q) = d
    <3>1. CASE t = bytes /\ r = << >>
      BY <2>2, <2>7, <2>8, <3>1, ChainOfNone
    <3>2. CASE Piece(c, s, r) /\ r # << >> /\ Start(r) = Finish(s, t) /\ Finish(s, r) = d
      <4>1. q = <<r>> /\ Start(r) = f
        BY <2>2, <2>7, <2>8, <3>2
      <4>2. Chain(c, s, Start(r), <<r>>) /\ ChainEnd(s, Start(r), <<r>>) = Finish(s, r)
        BY <3>2, ChainOfOne
      <4> QED BY <3>2, <4>1, <4>2
    <3> QED BY <2>5, <3>1, <3>2
  <2>10. Fetched(c, s, p)' = f
    BY <2>2, <2>7 DEF Fetched
  <2> QED BY <2>2, <2>3, <2>5, <2>6, <2>8, <2>9, <2>10 DEF Streaming
<1>2. CASE readIO[c] # "Pending"
  <2>1. pipe'[c] = Append(pipe[c], bytes) /\ UNCHANGED <<readIO, transferred>>
    BY <1>0, <1>2 DEF Write, readVars
  <2>2. PICK f : f = Fetched(c, s, p)
    OBVIOUS
  <2>3. Fetched(c, s, p)' = f
    BY <2>1, <2>2 DEF Fetched
  <2>4. PICK q : q = pipe[c]
    OBVIOUS
  <2>5. Chain(c, s, f, q) /\ ChainEnd(s, f, q) = e /\ q \in Seq(Seq(Byte))
    BY <1>0, <2>2, <2>4 DEF Streaming
  <2>6. Chain(c, s, f, Append(q, bytes)) /\ ChainEnd(s, f, Append(q, bytes)) = d
    BY <2>5, ChainAppend DEF Frame
  <2> QED BY <2>1, <2>3, <2>4, <2>6 DEF Streaming
<1> QED BY <1>1, <1>2

\* What the type invariant says of one connection.
LEMMA ConnectionTypes ==
  ASSUME TypeOK, NEW c \in Conn
  PROVE  /\ c \in Nat /\ MessageList(sent[c]) /\ Frames(pipe[c]) /\ Frame(transferred[c])
         /\ Frame(unwritten[c]) /\ Len(sent[c]) \in Nat
         /\ readMessage[c] # Null =>
              readMessage[c] \in Obj /\ message[readMessage[c]] \in Messages
<1>1. c \in Nat
  BY ServerAssumption DEF Conn
<1>2. MessageList(sent[c]) /\ Len(sent[c]) \in Nat /\ Frame(unwritten[c])
  BY DEF TypeOK, ClientTypes, MessageList, Frame
<1>3. Frames(pipe[c])
  BY DEF TypeOK, PipeTypes, Frames
<1>4. Frame(transferred[c])
  BY DEF TypeOK, ReadTypes, Frame
<1>5. readMessage[c] # Null => readMessage[c] \in Obj /\ message[readMessage[c]] \in Messages
  BY DEF TypeOK, PoolTypes, StoreTypes
<1> QED BY <1>1, <1>2, <1>3, <1>4, <1>5

\* While onRead has a complete message no read is outstanding, and a connection
\* that has completed a message has it.
LEMMA CompleteIdle ==
  ASSUME TypeOK, Ownership, NEW c \in Conn, Complete(c)
  PROVE  readIO[c] = "Idle" /\ readMessage[c] # Null /\ readMessage[c] = ioMsg
BY HeldObjects DEF Complete, Ownership, IoMsgHeld, Distributing

\* The client of a connection writes what comes next.
LEMMA WriteFlows ==
  ASSUME IInv, PendingEmpty, [Next]_vars, NEW c \in Conn, NEW p, p \in Positions, Flows(c, p),
         NEW t, NEW bytes, t = sent'[c], MessageList(t), Longer(sent[c], t),
         Len(t) \in Nat, Len(sent[c]) <= Len(t),
         Frame(bytes), Write(c, bytes), Piece(c, t, bytes),
         Start(bytes) = WriteEnd(c), Finish(t, bytes) = WriteEnd(c)',
         client[c] = "open", UNCHANGED <<client, poolVars, message, ioVars, ownerPc>>,
         Stale(c) => readIO[c] # "Pending"
  PROVE  Flows(c, p)'
<1>1. PICK s : s = sent[c]
  OBVIOUS
<1>2. PICK e : e = WriteEnd(c)
  OBVIOUS
<1>3. PICK d : d = WriteEnd(c)'
  OBVIOUS
<1>4. Streaming(c, s, p, e) /\ Receiving(c, s, p) /\ Passed(c, p)
  BY <1>1, <1>2 DEF Flows
<1>5. /\ c \in Nat /\ MessageList(s) /\ Frames(pipe[c]) /\ Len(s) \in Nat
      /\ readMessage[c] # Null =>
           readMessage[c] \in Obj /\ message[readMessage[c]] \in Messages
  BY <1>1, ConnectionTypes DEF IInv
<1>6. Longer(s, t) /\ Len(s) <= Len(t)
  BY <1>1
<1>7. Streaming(c, t, p, e)
  BY <1>4, <1>5, <1>6, StreamingGrows
<1>8. Receiving(c, t, p)
  BY <1>4, <1>5, <1>6, ReceivingGrows
<1>9. PICK n : n = ReadSize(message[readMessage[c]])
  OBVIOUS
<1>10. ASSUME readIO[c] = "Pending"
       PROVE  /\ pipe[c] = << >> /\ n \in Nat /\ n >= 1
              /\ From(bytes) = 0 => n = MessageHeaderSize
  <2>1. pipe[c] = << >> /\ readMessage[c] # Null
    BY <1>10 DEF PendingEmpty, IInv, Ownership, ReadHasMessage, KernelOwns
  <2>2. ~Complete(c) /\ ~Stale(c)
    BY <1>10, CompleteIdle DEF IInv
  <2>3. PICK m : m = message[readMessage[c]]
    OBVIOUS
  <2>4. m \in Messages /\ Partial(c, t, m, p)
    BY <1>5, <1>8, <2>1, <2>2, <2>3 DEF Receiving
  <2>5. Sound(m)
    BY <1>5, <2>1, <2>3 DEF IInv, Whole
  <2>6. /\ ReadSize(m) \in Nat /\ ReadSize(m) >= 1
        /\ p[2] = 0 => ReadSize(m) = MessageHeaderSize
    BY <1>5, <2>4, <2>5, RoomLeft
  <2>7. Start(bytes) = p
    <3>1. Fetched(c, t, p) = p
      BY <1>10 DEF Fetched
    <3> QED BY <1>2, <1>7, <2>1, <3>1 DEF Streaming, ChainEnd
  <2>8. From(bytes) = p[2]
    BY <2>7 DEF Start
  <2> QED BY <1>9, <2>1, <2>3, <2>6, <2>8
<1>11. Streaming(c, t, p, d)'
  BY <1>2, <1>3, <1>7, <1>9, <1>10, WriteStreams DEF IInv
<1>12. Receiving(c, t, p)'
  <2>1. /\ readMessage'[c] = readMessage[c] /\ messagePool'[c] = messagePool[c]
        /\ readMessage[c] # Null => message'[readMessage[c]] = message[readMessage[c]]
        /\ Complete(c)' <=> Complete(c)
        /\ Gone => Gone'
    BY DEF poolVars, ioVars, Complete, Gone
  <2>2. Complete(c) => readMessage[c] # Null
    BY CompleteIdle DEF IInv
  <2>3. messagePool'[c] # << >> => p[1] >= 2 /\ (Complete(c) => p[1] >= 3)
    BY <1>8, <2>1 DEF Receiving
  <2> QED BY <1>8, <2>1, <2>2, <2>3, ReceivingKept
<1>13. Passed(c, p)'
  <2>1. p[1] \in Nat /\ p[1] <= p[1]
    BY DEF Positions
  <2>2. ~Completes
    BY DEF Completes, ioVars
  <2> QED BY <1>4, <2>1, <2>2, PassedKept DEF IInv
<1> QED BY <1>3, <1>11, <1>12, <1>13, FlowsPrimed

\* A client's write leaves the other connections alone.
LEMMA OthersWrite ==
  ASSUME IInv, ClientNext, NEW c \in Conn, NEW d \in Conn, d # c, NEW bytes, Write(c, bytes),
         NEW p \in Positions, Flows(d, p), sent'[d] = sent[d], unwritten'[d] = unwritten[d],
         UNCHANGED <<client, poolVars, message, ioVars, emitVars, ownerPc>>
  PROVE  Flows(d, p)'
<1>1. [Next]_vars
  BY DEF Next
<1>2. readIO'[d] = readIO[d] /\ transferred'[d] = transferred[d] /\ pipe'[d] = pipe[d]
  BY DEF Write, readVars, IInv, TypeOK, ReadTypes, PipeTypes
<1>3. /\ readMessage'[d] = readMessage[d] /\ messagePool'[d] = messagePool[d]
      /\ message' = message /\ client'[d] = client[d]
      /\ Complete(d)' <=> Complete(d)
      /\ Gone => Gone'
      /\ ~Completes
  BY DEF poolVars, ioVars, Complete, Gone, Completes
<1>4. messagePool[d] # << >> => p[1] >= 2 /\ (Complete(d) => p[1] >= 3)
  BY DEF Flows, Receiving
<1> QED BY <1>1, <1>2, <1>3, <1>4, FlowsKept

\* A client writes nothing for a message that is complete already: it does not
\* send that many.
LEMMA WritesFresh ==
  ASSUME IInv, PendingEmpty, NEW c \in Conn, NEW p \in Positions, Flows(c, p),
         MaxSends <= 2, NEW bytes, Write(c, bytes),
         UNCHANGED <<poolVars, message, ioVars>>,
         \/ /\ Len(sent[c]) + 1 <= MaxSends
         \/ unwritten[c] # << >>,
         client[c] = "open"
  PROVE  Stale(c) => readIO[c] # "Pending"
<1> SUFFICES ASSUME Stale(c), readIO[c] = "Pending" PROVE FALSE
  OBVIOUS
<1>1. p[1] >= 3 /\ p[2] = 0 /\ p[1] \in 1..(Len(sent[c]) + 1)
  BY DEF Flows, Receiving
<1>2. Len(sent[c]) \in Nat /\ MaxSends \in Nat
  BY ConnectionTypes, ServerAssumption DEF IInv
<1>3. unwritten[c] # << >>
  BY <1>1, <1>2
<1>4. WriteEnd(c) = <<Len(sent[c]), MessageHeaderSize>>
  BY <1>3 DEF WriteEnd
<1>5. p = WriteEnd(c)
  <2>1. pipe[c] = << >> /\ readIO[c] # "Done" /\ client[c] # "closed"
    BY DEF PendingEmpty
  <2> QED BY <2>1 DEF Flows, Streaming, Fetched, ChainEnd
<1> QED BY <1>1, <1>4, <1>5, HeaderAssumption

\* The clients keep what has been written in order.
LEMMA ClientFlows ==
  ASSUME IInv, PendingEmpty, Sending, ClientNext, "empty" \notin Events,
         MaxSends <= 2
  PROVE  FlowsOn
<1>0. [Next]_vars /\ TypeOK
  BY DEF Next, IInv
<1>1. ASSUME NEW c \in Conn, ClientConnect(c) \/ ClientClose(c) PROVE FlowsOn
  <2> SUFFICES ASSUME NEW d \in Conn, NEW p \in Positions, Flows(d, p)
             PROVE  \E q \in Positions : Flows(d, q)' /\ Moves(d, p, q)
    BY DEF FlowsOn
  <2>1. Flows(d, p)
    OBVIOUS
  <2>2. /\ readMessage'[d] = readMessage[d] /\ messagePool'[d] = messagePool[d]
        /\ message' = message
        /\ Complete(d)' <=> Complete(d)
        /\ Gone => Gone'
        /\ ~Completes /\ pipe'[d] = pipe[d] /\ transferred'[d] = transferred[d]
        /\ sent'[d] = sent[d]
    BY <1>1 DEF ClientConnect, ClientClose, poolVars, ioVars, readVars, Complete, Gone, Completes
  <2>3. /\ readIO'[d] = "Done" <=> readIO[d] = "Done"
        /\ client'[d] # "closed" => client[d] # "closed"
        /\ client'[d] # "closed" => unwritten'[d] = unwritten[d]
    BY <1>0, <1>1 DEF ClientConnect, ClientClose, readVars, TypeOK, ClientTypes, ReadTypes
  <2>4. messagePool[d] # << >> => p[1] >= 2 /\ (Complete(d) => p[1] >= 3)
    BY <2>1 DEF Flows, Receiving
  <2>5. Flows(d, p)'
    BY <1>0, <2>1, <2>2, <2>3, <2>4, FlowsKept
  <2> QED BY <2>5 DEF Moves, Within
<1>2. ASSUME NEW c \in Conn, NEW size \in Sizes, ClientSend(c, size) PROVE FlowsOn
  <2>1. PICK t, bytes :
           /\ sent' = [sent EXCEPT ![c] = t] /\ sent'[c] = t
           /\ t \in Seq(SentMessages) /\ Len(t) = Len(sent[c]) + 1 /\ Longer(sent[c], t)
           /\ Write(c, bytes) /\ bytes \in Seq(Byte) /\ Piece(c, t, bytes)
           /\ Start(bytes) = WriteEnd(c)
           /\ Finish(t, bytes) = WriteEnd(c)'
           /\ \A d \in Conn : d # c => unwritten'[d] = unwritten[d]
    BY <1>0, <1>2, SendPieces
  <2>2. /\ UNCHANGED <<client, poolVars, message, ioVars, emitVars, ownerPc>>
        /\ client[c] = "open" /\ Len(sent[c]) + 1 <= MaxSends
    BY <1>2 DEF ClientSend
  <2> SUFFICES ASSUME NEW d \in Conn, NEW p \in Positions, Flows(d, p)
             PROVE  \E q \in Positions : Flows(d, q)' /\ Moves(d, p, q)
    BY DEF FlowsOn
  <2>3. Flows(d, p)
    OBVIOUS
  <2>4. CASE d = c
    <3>1. Stale(c) => readIO[c] # "Pending"
      BY <2>1, <2>2, <2>3, <2>4, WritesFresh
    <3>2. Len(sent[c]) \in Nat
      BY <1>0, ConnectionTypes
    <3>3. MessageList(t) /\ Frame(bytes) /\ Len(t) \in Nat /\ Len(sent[c]) <= Len(t)
      BY <2>1, <3>2 DEF MessageList, Frame
    <3>4. /\ t = sent'[c] /\ Longer(sent[c], t) /\ Write(c, bytes) /\ Piece(c, t, bytes)
          /\ Start(bytes) = WriteEnd(c) /\ Finish(t, bytes) = WriteEnd(c)'
      BY <2>1
    <3>5. Flows(c, p)'
      BY <1>0, <2>2, <2>3, <2>4, <3>1, <3>3, <3>4, WriteFlows
    <3> QED BY <2>4, <3>5 DEF Moves, Within
  <2>5. CASE d # c
    <3>1. sent'[d] = sent[d] /\ unwritten'[d] = unwritten[d] /\ Write(c, bytes)
      BY <1>0, <2>1, <2>5 DEF TypeOK, ClientTypes
    <3>2. Flows(d, p)'
      BY <2>2, <2>3, <2>5, <3>1, OthersWrite
    <3> QED BY <3>2 DEF Moves, Within
  <2> QED BY <2>4, <2>5
<1>3. ASSUME NEW c \in Conn, ClientSendRest(c) PROVE FlowsOn
  <2>1. /\ Write(c, unwritten[c]) /\ unwritten[c] \in Seq(Byte)
        /\ Piece(c, sent[c], unwritten[c])
        /\ Start(unwritten[c]) = WriteEnd(c)
        /\ Finish(sent[c], unwritten[c]) = WriteEnd(c)'
    BY <1>0, <1>3, RestPiece
  <2>2. /\ UNCHANGED <<client, sent, poolVars, message, ioVars, emitVars, ownerPc>>
        /\ client[c] = "open" /\ unwritten[c] # << >>
        /\ \A d \in Conn : d # c => unwritten'[d] = unwritten[d]
    BY <1>3 DEF ClientSendRest, TypeOK, ClientTypes
  <2>6. PICK t : t = sent[c]
    OBVIOUS
  <2>7. PICK bytes : bytes = unwritten[c]
    OBVIOUS
  <2> SUFFICES ASSUME NEW d \in Conn, NEW p \in Positions, Flows(d, p)
             PROVE  \E q \in Positions : Flows(d, q)' /\ Moves(d, p, q)
    BY DEF FlowsOn
  <2>3. Flows(d, p)
    OBVIOUS
  <2>4. CASE d = c
    <3>1. Stale(c) => readIO[c] # "Pending"
      BY <2>1, <2>2, <2>3, <2>4, WritesFresh
    <3>2. /\ MessageList(t) /\ Frame(bytes) /\ Len(t) \in Nat /\ Len(sent[c]) <= Len(t)
      BY <1>0, <2>6, <2>7, ConnectionTypes
    <3>3. /\ t = sent'[c] /\ Longer(sent[c], t) /\ Write(c, bytes) /\ Piece(c, t, bytes)
          /\ Start(bytes) = WriteEnd(c) /\ Finish(t, bytes) = WriteEnd(c)'
      BY <2>1, <2>2, <2>6, <2>7 DEF Longer
    <3>5. Flows(c, p)'
      BY <1>0, <2>2, <2>3, <2>4, <3>1, <3>2, <3>3, WriteFlows
    <3> QED BY <2>4, <3>5 DEF Moves, Within
  <2>5. CASE d # c
    <3>1. Flows(d, p)'
      BY <2>1, <2>2, <2>3, <2>5, OthersWrite
    <3> QED BY <3>1 DEF Moves, Within
  <2> QED BY <2>4, <2>5
<1> QED BY <1>1, <1>2, <1>3 DEF ClientNext, ClientSendNothing

-----------------------------------------------------------------------------
\* So do the steps that neither read nor hand over, ...

\* Steps that do not concern the bytes of any client.
LEMMA ServerFrame ==
  ASSUME IInv, [Next]_vars,
         UNCHANGED <<sent, unwritten, pipe, readVars, readMessage, messagePool, message>>,
         \A d \in Conn : client'[d] # "closed" => client[d] # "closed",
         \A d \in Conn : Complete(d)' <=> Complete(d),
         Gone => Gone', ~Completes
  PROVE  FlowsOn
<1> SUFFICES ASSUME NEW d \in Conn, NEW p \in Positions, Flows(d, p)
           PROVE  \E q \in Positions : Flows(d, q)' /\ Moves(d, p, q)
  BY DEF FlowsOn
<1>1. Flows(d, p)
  OBVIOUS
<1>2. /\ readMessage'[d] = readMessage[d] /\ messagePool'[d] = messagePool[d]
      /\ message' = message /\ pipe'[d] = pipe[d] /\ transferred'[d] = transferred[d]
      /\ sent'[d] = sent[d] /\ unwritten'[d] = unwritten[d]
      /\ client'[d] # "closed" => client[d] # "closed"
  BY DEF readVars
<1>3. readIO'[d] = "Done" <=> readIO[d] = "Done"
  BY DEF readVars
<1>4. Complete(d)' <=> Complete(d)
  OBVIOUS
<1>5. messagePool[d] # << >> => p[1] >= 2 /\ (Complete(d) => p[1] >= 3)
  BY <1>1 DEF Flows, Receiving
<1>6. Flows(d, p)'
  BY <1>1, <1>2, <1>3, <1>4, <1>5, FlowsKept
<1> QED BY <1>6 DEF Moves, Within

\* What the I/O thread does besides reading and handing over.
LEMMA IoFrameFlows ==
  ASSUME IInv, Instances, [Next]_vars,
         \/ IoStopped \/ IoCreate \/ IoPush \/ IoNoCreate \/ IoSkip \/ IoDistribute
         \/ IoScanned \/ IoWaitFails
         \/ \E c \in Conn : IoConnectEvent(c) \/ IoBrokenEvent(c)
  PROVE  FlowsOn
<1>1. UNCHANGED <<sent, unwritten, pipe, readVars, readMessage, messagePool, message>>
  BY DEF IoStopped, IoCreate, IoPush, IoNoCreate, IoSkip, IoDistribute,
     IoScanned, IoWaitFails, IoConnectEvent, IoBrokenEvent, clientVars, poolVars
<1>2. \A d \in Conn : client'[d] # "closed" => client[d] # "closed"
  <2>1. CASE IoCreate
    <3>1. client[nconn + 1] = "none" /\ nconn + 1 \in Conn
      BY <2>1, CreateFresh DEF IInv
    <3>2. client' \in {client, [client EXCEPT ![nconn + 1] = "listening"],
                       [client EXCEPT ![nconn + 1] = "open"]}
      BY <2>1 DEF IoCreate
    <3> QED BY <3>1, <3>2 DEF IInv, TypeOK, ClientTypes
  <2>2. CASE ~IoCreate
    <3>1. UNCHANGED client
      BY <2>2 DEF IoStopped, IoPush, IoNoCreate, IoSkip, IoDistribute,
         IoScanned, IoWaitFails, IoConnectEvent, IoBrokenEvent, clientVars
    <3> QED BY <3>1
  <2> QED BY <2>1, <2>2
<1>3. /\ \/ ioPc = "Distribute" /\ ioPc' = "Swap" /\ UNCHANGED cur
         \/ ioPc \notin {"Distribute", "Swap"} /\ ioPc' \notin {"Distribute", "Swap"}
      /\ UNCHANGED ownerPc
  BY DEF IoStopped, IoExits, IoCreate, IoPush, IoNoCreate, IoSkip, IoDistribute,
     IoScanned, IoWaitFails, IoConnectEvent, IoBrokenEvent
<1>4. \A d \in Conn : Complete(d)' <=> Complete(d)
  BY <1>3 DEF Complete
<1>5. (Gone => Gone') /\ ~Completes
  BY <1>3 DEF Gone, Completes
<1> QED BY <1>1, <1>2, <1>4, <1>5, ServerFrame

\* What the emit thread and the owner do besides handing over and releasing.
LEMMA EmitFrameFlows ==
  ASSUME IInv, [Next]_vars,
         \/ EmitTop \/ EmitTest \/ EmitSleep \/ EmitSpuriousWake \/ EmitLookup
         \/ OwnerStop \/ OwnerJoin \/ DestroyQueue \/ DestroyQueueCrashes \/ UNCHANGED vars
  PROVE  FlowsOn
<1>1. /\ UNCHANGED <<sent, unwritten, pipe, readVars, readMessage, messagePool, message,
                     client, cur>>
      /\ UNCHANGED ioPc \/ DestroyQueueCrashes
  BY DEF EmitTop, EmitTest, EmitSleep, EmitSpuriousWake, EmitLookup, OwnerStop, OwnerJoin,
     DestroyQueue, DestroyQueueCrashes, vars, ioOwned, poolVars, clientVars, connVars,
     readVars, ioVars
<1>2. DestroyQueueCrashes => ioPc = "Exited" /\ ioPc' = "Crashed"
  BY DEF DestroyQueueCrashes, IInv, Ownership, OwnerAlone
<1>3. \A d \in Conn : Complete(d)' <=> Complete(d)
  BY <1>1, <1>2 DEF Complete
<1>4. Gone => Gone'
  BY DEF EmitTop, EmitTest, EmitSleep, EmitSpuriousWake, EmitLookup, OwnerStop,
     OwnerJoin, DestroyQueue, DestroyQueueCrashes, vars, Gone
<1>5. ~Completes
  BY <1>1, <1>2 DEF Completes
<1>6. \A d \in Conn : client'[d] # "closed" => client[d] # "closed"
  BY <1>1
<1> QED BY <1>1, <1>3, <1>4, <1>5, <1>6, ServerFrame

\* Nothing was read for an instance without a client.
LEMMA NothingRead ==
  ASSUME Sending, NEW c \in Conn, NEW p \in Positions, Flows(c, p), client[c] = "none"
  PROVE  p = <<1, 0>> /\ WriteEnd(c) = <<1, 0>>
<1>1. sent[c] = << >> /\ unwritten[c] = << >>
  BY DEF Sending, Silent
<1>2. WriteEnd(c) = <<1, 0>>
  BY <1>1 DEF WriteEnd
<1>3. Receiving(c, << >>, p)
  BY <1>1 DEF Flows
<1>4. p[1] = 1
  BY <1>3 DEF Receiving
<1>5. p[2] = 0
  BY <1>3, <1>4 DEF Receiving, Partial, Interval
<1> QED BY <1>2, <1>4, <1>5 DEF Positions

\* When the operating system closes the pipes nothing is left to read.
LEMMA CloseStreams ==
  ASSUME TypeOK, Sending, NEW c \in Conn, NEW p \in Positions, Flows(c, p), ClosePipes,
         UNCHANGED sent, NEW q, NEW s, NEW e, e = WriteEnd(c)',
         q = p \/ q = <<p[1], 0>>
  PROVE  Streaming(c, s, q, e)'
<1>1. readIO'[c] # "Done" /\ pipe'[c] = << >> /\ (client'[c] # "closed" => client[c] = "none")
      /\ unwritten'[c] = << >>
  BY DEF ClosePipes
<1>2. Fetched(c, s, q)' = q
  BY <1>1 DEF Fetched
<1>3. client'[c] # "closed" => q = e
  <2>1. ASSUME client'[c] # "closed" PROVE q = e
    <3>1. client[c] = "none"
      BY <1>1, <2>1
    <3>2. p = <<1, 0>>
      BY <3>1, NothingRead
    <3>3. sent[c] = << >>
      BY <3>1 DEF Sending, Silent
    <3>4. e = <<1, 0>>
      BY <1>1, <3>3 DEF WriteEnd
    <3> QED BY <3>2, <3>4
  <2> QED BY <2>1
<1> QED BY <1>1, <1>2, <1>3 DEF Streaming, Chain, ChainEnd

\* The crash during a lookup: nothing is read or handed over any more.
LEMMA CrashFlows ==
  ASSUME IInv, Sending, [Next]_vars, EmitLookupCrashes
  PROVE  FlowsOn
<1> SUFFICES ASSUME NEW d \in Conn, NEW p \in Positions, Flows(d, p)
           PROVE  \E q \in Positions : Flows(d, q)' /\ Moves(d, p, q)
  BY DEF FlowsOn
<1>0. TypeOK
  BY DEF IInv
<1>1. Flows(d, p)
  OBVIOUS
<1>2. PICK s : s = sent[d]
  OBVIOUS
<1>3. PICK e : e = WriteEnd(d)'
  OBVIOUS
<1>4. /\ ClosePipes /\ UNCHANGED <<sent, readMessage, messagePool, message, cur>>
      /\ ioPc = "Push" /\ ioPc' = "Crashed" /\ ownerPc' = "Crashed"
  BY DEF EmitLookupCrashes, LookupRaces, poolVars
<1>5. Streaming(d, s, p, e)'
  BY <1>0, <1>1, <1>3, <1>4, CloseStreams
<1>6. ~Complete(d) /\ ~Complete(d)' /\ Gone' /\ ~Completes
  BY <1>4 DEF Complete, Gone, Completes
<1>7. Receiving(d, s, p)
  BY <1>1, <1>2 DEF Flows
<1>8. messagePool'[d] # << >> => p[1] >= 2 /\ (Complete(d) => p[1] >= 3)
  BY <1>4, <1>7 DEF Receiving
<1>9. Receiving(d, s, p)'
  BY <1>4, <1>6, <1>7, <1>8, ReceivingKept
<1>10. p[1] \in Nat /\ p[1] <= p[1] /\ Passed(d, p)
  BY <1>1 DEF Positions, Flows
<1>11. Passed(d, p)'
  BY <1>6, <1>10, PassedKept DEF IInv
<1>12. s = sent'[d]
  BY <1>2, <1>4
<1>13. Flows(d, p)'
  BY <1>3, <1>5, <1>9, <1>11, <1>12, FlowsPrimed
<1> QED BY <1>13 DEF Moves, Within

\* The destruction of the connections, with the pools and the messages being
\* read.
LEMMA DestroyFlows ==
  ASSUME IInv, Sending, [Next]_vars, DestroyConnections
  PROVE  FlowsOn
<1> SUFFICES ASSUME NEW d \in Conn, NEW p \in Positions, Flows(d, p)
           PROVE  \E q \in Positions : Flows(d, q)' /\ Moves(d, p, q)
  BY DEF FlowsOn
<1>0. TypeOK
  BY DEF IInv
<1>1. Flows(d, p)
  OBVIOUS
<1>2. PICK s : s = sent[d]
  OBVIOUS
<1>3. PICK e : e = WriteEnd(d)'
  OBVIOUS
<1>14. PICK q : q = <<p[1], 0>>
  OBVIOUS
<1>15. q \in Positions /\ q[1] = p[1] /\ q[2] = 0 /\ p[1] \in Nat
  BY <1>14 DEF Positions
<1>4. /\ ClosePipes /\ UNCHANGED <<sent, message, ioVars>>
      /\ readMessage'[d] = Null /\ messagePool'[d] = << >> /\ Gone'
      /\ ioPc = "Exited"
  BY DEF DestroyConnections, Gone, IInv, Ownership, OwnerAlone
<1>5. Streaming(d, s, q, e)'
  BY <1>0, <1>1, <1>3, <1>4, <1>14, CloseStreams
<1>6. ~Complete(d)' /\ ~Stale(d)' /\ ~Completes
  BY <1>4 DEF Complete, Stale, Completes, ioVars
<1>7. p[1] \in 1..(Len(s) + 1)
  BY <1>1, <1>2 DEF Flows, Receiving
<1>9. Receiving(d, s, q)'
  BY <1>4, <1>6, <1>7, <1>15 DEF Receiving
<1>10. q[1] \in Nat /\ p[1] <= q[1] /\ Passed(d, p)
  BY <1>1, <1>15 DEF Flows
<1>11. Passed(d, q)'
  BY <1>6, <1>10, <1>15, PassedKept DEF IInv
<1>12. s = sent'[d]
  BY <1>2, <1>4
<1>13. Flows(d, q)'
  BY <1>3, <1>5, <1>9, <1>11, <1>12, FlowsPrimed
<1> QED BY <1>13, <1>15 DEF Moves, Within

-----------------------------------------------------------------------------
\* ... those that drop a message, ...

\* What was distributed is a whole message of its client.
GivenIntact ==
  \A o \in Obj : Given(o) =>
    /\ message[o].connectionId \in Conn
    /\ AllOf(message[o].connectionId, sent[message[o].connectionId], message[o],
             message[o].header.id)

\* Of the messages of one client the one sent first.
Before(o, x) == message[o].connectionId = message[x].connectionId =>
                  message[o].header.id < message[x].header.id

\* A message that was queued, or that the emit thread has.
Waiting(o) == o \in Queued \/ o = emitMsg

\* What waits for the handler is in order, behind what the handler was given and
\* ahead of what onRead has completed.
QueueOrdered == \A i, j \in 1..Len(emitMessageQueue) :
                  i < j => Before(emitMessageQueue[i], emitMessageQueue[j])
EmitFirst == emitMsg # Null => \A o \in Queued : Before(emitMsg, o)
IoLast == ioPc \in {"Distribute", "Swap"} =>
            \A o \in Obj : Waiting(o) /\ o # ioMsg => Before(o, ioMsg)
DeliveredFirst ==
  \A o \in Obj : Waiting(o) \/ (o = ioMsg /\ ioPc = "Distribute") =>
    \A i \in 1..Len(delivered[message[o].connectionId]) :
      delivered[message[o].connectionId][i].id < message[o].header.id

Ordered == QueueOrdered /\ EmitFirst /\ IoLast /\ DeliveredFirst

\* A message of a client comes back to the pool of its connection: there was one
\* before it, and another one if onRead has just completed the next.
LEMMA ReturnFlows ==
  ASSUME IInv, Homes, GivenIntact, IoLast, [Next]_vars,
         NEW o \in Obj, Given(o), ReturnToPool(o),
         ioPc \in {"Distribute", "Swap"} => o # ioMsg /\ ioPc' = ioPc,
         ioPc \notin {"Distribute", "Swap"} => ioPc' \notin {"Distribute", "Swap"},
         UNCHANGED <<sent, client, unwritten, pipe, readVars, readMessage, message, cur,
                     ownerPc>>
  PROVE  FlowsOn
<1> SUFFICES ASSUME NEW d \in Conn, NEW p \in Positions, Flows(d, p)
           PROVE  \E q \in Positions : Flows(d, q)' /\ Moves(d, p, q)
  BY DEF FlowsOn
<1>0. TypeOK /\ Ownership
  BY DEF IInv
<1>1. Flows(d, p)
  OBVIOUS
<1>2. /\ readMessage'[d] = readMessage[d]
      /\ message' = message /\ pipe'[d] = pipe[d] /\ transferred'[d] = transferred[d]
      /\ sent'[d] = sent[d] /\ unwritten'[d] = unwritten[d] /\ client'[d] = client[d]
  BY DEF readVars
<1>3. readIO'[d] = "Done" <=> readIO[d] = "Done"
  BY DEF readVars
<1>4. Complete(d)' <=> Complete(d)
  BY DEF Complete
<1>5. (Gone => Gone') /\ ~Completes
  BY DEF Gone, Completes
<1>6. messagePool[d] # << >> => p[1] >= 2 /\ (Complete(d) => p[1] >= 3)
  BY <1>1 DEF Flows, Receiving
<1>7. messagePool'[d] # << >> => p[1] >= 2 /\ (Complete(d) => p[1] >= 3)
  <2>1. CASE d # message[o].connectionId
    <3>1. messagePool'[d] = messagePool[d]
      BY <1>0, <2>1, PooledReturn
    <3> QED BY <1>6, <3>1
  <2>2. CASE d = message[o].connectionId
    <3> DEFINE i == message[o].header.id
    <3>1. i \in 1..Len(sent[d])
      BY <2>2 DEF GivenIntact, AllOf
    <3>2. i \in Nat /\ i >= 1 /\ i < p[1]
      BY <1>0, <1>1, <2>2, <3>1, ConnectionTypes DEF Flows, Passed
    <3>3. ASSUME Complete(d) PROVE p[1] >= 3
      <4>1. d = cur /\ ioPc \in {"Distribute", "Swap"} /\ readMessage[d] # Null
            /\ readMessage[d] = ioMsg
        BY <1>0, <3>3, CompleteIdle DEF Complete
      <4>2. message[ioMsg].connectionId = d
        BY <4>1 DEF Homes
      <4>3. Waiting(o) /\ o # ioMsg
        BY <4>1 DEF Given, Waiting
      <4>4. i < message[ioMsg].header.id
        BY <2>2, <4>1, <4>2, <4>3 DEF IoLast, Before
      <4>5. message[ioMsg].header.id + 1 = p[1]
        BY <1>1, <3>3, <4>1 DEF Flows, Receiving
      <4>6. message[ioMsg].header.id \in Nat
        BY <1>0, <4>1 DEF TypeOK, StoreTypes, PoolTypes, Messages, Headers
      <4> HIDE DEF i
      <4> QED BY <3>2, <4>4, <4>5, <4>6
    <3>4. p[1] \in Nat
      BY DEF Positions
    <3> HIDE DEF i
    <3> QED BY <3>2, <3>3, <3>4
  <2> QED BY <2>1, <2>2
<1>8. Flows(d, p)'
  BY <1>1, <1>2, <1>3, <1>4, <1>5, <1>7, FlowsKept
<1> QED BY <1>8 DEF Moves, Within

\* onRead drops the message it has distributed.
LEMMA ReleaseFlows ==
  ASSUME IInv, Homes, GivenIntact, IoLast, [Next]_vars, IoRelease
  PROVE  FlowsOn
<1>1. /\ UNCHANGED <<sent, client, unwritten, pipe, readVars, readMessage, message, cur, ownerPc>>
      /\ ioPc = "Release" /\ ioPc' \notin {"Distribute", "Swap"}
  BY DEF IoRelease, clientVars, IInv, TypeOK, IoTypes
<1>2. ioMsg \in Obj /\ Given(ioMsg)
  BY <1>1, HeldObjects DEF IInv, TypeOK, IoTypes, Ownership, IoMsgHeld, Distributing, Given
<1>3. CASE ReturnToPool(ioMsg)
  BY <1>1, <1>2, <1>3, ReturnFlows
<1>4. CASE UNCHANGED messagePool
  <2>1. \A d \in Conn : ~Complete(d) /\ ~Complete(d)'
    BY <1>1 DEF Complete
  <2>2. (Gone => Gone') /\ ~Completes
    BY <1>1 DEF Gone, Completes
  <2>3. \A d \in Conn : client'[d] # "closed" => client[d] # "closed"
    BY <1>1
  <2>4. UNCHANGED <<sent, unwritten, pipe, readVars, readMessage, messagePool, message>>
    BY <1>1, <1>4
  <2> QED BY <2>1, <2>2, <2>3, <2>4, ServerFrame
<1> QED BY <1>3, <1>4 DEF IoRelease

\* The emit thread drops the message it has handled, or lost.
LEMMA HandledFlows ==
  ASSUME IInv, Homes, GivenIntact, IoLast, [Next]_vars,
         EmitLookupMisses \/ EmitHandle
  PROVE  FlowsOn
<1>1. /\ UNCHANGED <<sent, client, unwritten, pipe, readVars, readMessage, message, cur, ownerPc,
                     ioPc>>
      /\ EmitRelease /\ emitPc \in {"Lookup", "Handle"}
  BY DEF EmitLookupMisses, LookupRaces, EmitHandle, ioOwned, clientVars, ioVars
<1>2. emitMsg \in Obj /\ Given(emitMsg)
  BY <1>1, HeldObjects DEF IInv, TypeOK, EmitTypes, Ownership, EmitMsgHeld, Given
<1>3. CASE ReturnToPool(emitMsg) /\ ioMsg # emitMsg
  BY <1>1, <1>2, <1>3, ReturnFlows
<1>4. CASE UNCHANGED messagePool
  <2>1. \A d \in Conn : Complete(d) <=> Complete(d)'
    BY <1>1 DEF Complete
  <2>2. (Gone => Gone') /\ ~Completes
    BY <1>1 DEF Gone, Completes
  <2>3. \A d \in Conn : client'[d] # "closed" => client[d] # "closed"
    BY <1>1
  <2>4. UNCHANGED <<sent, unwritten, pipe, readVars, readMessage, messagePool, message>>
    BY <1>1, <1>4
  <2> QED BY <2>1, <2>2, <2>3, <2>4, ServerFrame
<1> QED BY <1>1, <1>3, <1>4 DEF EmitRelease

-----------------------------------------------------------------------------
\* ... those of onRead, ...

\* A piece belongs to a message that was sent, and ends there.
LEMMA PieceMessage ==
  ASSUME NEW c, NEW s, NEW f, c \in Nat, Len(s) \in Nat, Piece(c, s, f)
  PROVE  /\ Start(f)[1] \in 1..Len(s)
         /\ Finish(s, f)[1] \in 1..(Len(s) + 1)
         /\ Start(f)[1] <= Finish(s, f)[1]
<1>1. PICK w, k, l \in Nat : Interval(s, w, k, l) /\ f = Bytes(c, w, k, l)
  BY DEF Piece
<1>2. Start(f) = <<w, k>> /\ Finish(s, f) = Position(s, w, l)
  BY <1>1, PieceEnds
<1>3. w \in 1..Len(s)
  BY <1>1 DEF Interval
<1> QED BY <1>2, <1>3 DEF Position

\* A read of no more than the room that was offered fits.
LEMMA OfferedFits ==
  ASSUME NEW m \in Messages, Sound(m), NEW n \in Nat, n <= ReadSize(m), IsHeaderProcessed(m)
  PROVE  FitsInBuffer(m, n)
<1> DEFINE b == m.buffer
<1>1. /\ b.write \in Nat /\ b.size \in Nat /\ b.write <= b.size
  BY DEF Sound, Messages, Buffers, SizeType
<1>2. AvailableToWrite(b) = b.size - b.write
  BY <1>1 DEF AvailableToWrite, Minus, Lesser
<1>3. ReadSize(m) = Lesser(b.size - b.write, PacketSize)
  BY <1>2 DEF ReadSize
<1>4. WritePosition(b) = b.write
  BY <1>1 DEF WritePosition, Lesser
<1> HIDE DEF b
<1>5. n <= b.size - b.write
  BY <1>1, <1>3, ServerAssumption DEF Lesser
<1>6. b.write + n <= b.size
  BY <1>1, <1>5
<1> QED BY <1>4, <1>6 DEF FitsInBuffer, b

\* What onRead makes of the next piece: the message is complete, or has more of
\* it than before.
LEMMA OnReadResult ==
  ASSUME IInv, NEW c \in Conn, NEW s, NEW p \in Positions, MessageList(s), s = sent[c],
         \A w \in 1..Len(s) : s[w].id = w,
         NEW o, o = readMessage[c], o # Null, NEW m, m = message[o],
         Partial(c, s, m, p), ~m.allDataRead,
         NEW f, Frame(f), Piece(c, s, f), Start(f) = p, From(f) = 0 => Len(f) = MessageHeaderSize,
         Len(f) <= ReadSize(m), NEW from \in {"Scan", "Top"}, OnRead(c, o, f, from),
         NEW e, e = Finish(s, f)
  PROVE  \E n :
           /\ message' = [message EXCEPT ![o] = n] /\ n.connectionId = m.connectionId
           /\ \/ /\ ioPc' = "Distribute" /\ ioMsg' = o /\ n.allDataRead
                 /\ AllOf(c, s, n, p[1]) /\ e = <<p[1] + 1, 0>>
              \/ /\ ioPc' \notin {"Distribute", "Swap"} /\ UNCHANGED ioMsg /\ ~n.allDataRead
                 /\ Partial(c, s, n, e) /\ Within(s, p, e)
<1>0. /\ o \in Obj /\ m \in Messages /\ Sound(m) /\ c \in Nat
  BY ConnectionTypes DEF IInv, Whole
<1>1. Len(f) \in Nat
  BY DEF Frame
<1>2. From(f) = p[2]
  BY DEF Start
<1>3. CASE IsHeaderProcessed(m)
  <2>1. FitsInBuffer(m, Len(f))
    BY <1>0, <1>1, <1>3, OfferedFits
  <2>2. PICK n : n = AcceptBytes(m, f)
    OBVIOUS
  <2>3. /\ message' = [message EXCEPT ![o] = n]
        /\ IF n.allDataRead THEN ioPc' = "Distribute" /\ ioMsg' = o
                            ELSE ioPc' = from /\ UNCHANGED ioMsg
    BY <1>3, <2>1, <2>2 DEF OnRead
  <2>4. /\ n.connectionId = m.connectionId
        /\ n.allDataRead => /\ AllOf(c, s, n, p[1])
                            /\ Finish(s, f) = <<p[1] + 1, 0>>
        /\ ~n.allDataRead => Partial(c, s, n, Finish(s, f)) /\ Within(s, p, Finish(s, f))
    <3>1. /\ c \in Nat /\ p \in Positions /\ MessageList(s) /\ m \in Messages /\ Sound(m)
          /\ IsHeaderProcessed(m) /\ ~m.allDataRead /\ Partial(c, s, m, p) /\ Piece(c, s, f)
          /\ Start(f) = p /\ FitsInBuffer(m, Len(f)) /\ n = AcceptBytes(m, f)
      BY <1>0, <1>3, <2>1, <2>2
    <3>2. n.connectionId = m.connectionId
      BY <1>0, <2>2 DEF AcceptBytes, Messages
    <3>3. Extends(c, s, p, f, n)
      BY <3>1, PayloadRead
    <3> QED BY <3>2, <3>3 DEF Extends
  <2>5. CASE n.allDataRead
    BY <2>3, <2>4, <2>5
  <2>6. CASE ~n.allDataRead
    BY <2>3, <2>4, <2>6
  <2> QED BY <2>5, <2>6
<1>4. CASE ~IsHeaderProcessed(m)
  <2>1. From(f) = 0 /\ Len(f) = MessageHeaderSize
    BY <1>2, <1>4 DEF Partial
  <2>2. PICK h \in HeaderIn(c, f) :
          /\ message' = [message EXCEPT ![o] = ProcessHeader(m, h)]
          /\ ioPc' \in {from, "Top", "Exited"} /\ UNCHANGED ioMsg
    BY <1>4, <2>1 DEF OnRead, Accept, Reject, IoExits
  <2>3. PICK n : n = ProcessHeader(m, h)
    OBVIOUS
  <2>4. /\ Partial(c, s, n, Finish(s, f)) /\ Within(s, p, Finish(s, f))
        /\ ~n.allDataRead
        /\ n.connectionId = m.connectionId
    BY <1>0, <2>1, <2>3, HeaderRead
  <2>5. ioPc' \notin {"Distribute", "Swap"}
    BY <2>2
  <2> QED BY <2>2, <2>3, <2>4, <2>5
<1> QED BY <1>3, <1>4

\* onRead gets the next piece.
LEMMA ReadFlows ==
  ASSUME IInv, Homes, Sending, [Next]_vars, NEW c \in Conn, NEW p \in Positions,
         Flows(c, p), ~Stale(c), ~Complete(c), NEW o, o = readMessage[c], o # Null,
         NEW s, s = sent[c], NEW f, Frame(f), Piece(c, s, f), Start(f) = p,
         From(f) = 0 => Len(f) = MessageHeaderSize, Len(f) <= ReadSize(message[o]),
         NEW from \in {"Scan", "Top"}, OnRead(c, o, f, from), cur' = c,
         UNCHANGED <<sent, readMessage, messagePool>>,
         NEW e, e = Finish(s, f), NEW d, d = WriteEnd(c)', Streaming(c, s, e, d)'
  PROVE  /\ Flows(c, e)'
         /\ Completes => Arrives(c, p)
         /\ Moves(c, p, e)
<1>0. /\ TypeOK /\ Ownership /\ c \in Nat /\ MessageList(s) /\ Len(s) \in Nat /\ o \in Obj
      /\ message \in [Obj -> Messages]
  BY ConnectionTypes DEF IInv, TypeOK, StoreTypes
<1>1. PICK m : m = message[o]
  OBVIOUS
<1>2. Receiving(c, s, p) /\ Passed(c, p)
  BY DEF Flows
<1>3. Partial(c, s, m, p) /\ ~m.allDataRead
  BY <1>1, <1>2 DEF Receiving, Stale
<1>4. \A w \in 1..Len(s) : s[w].id = w
  <2>1. ASSUME NEW w \in 1..Len(s) PROVE s[w].id = w
    <3>1. s[w] = [id |-> w, data |-> Payload(c, w, Size(s, w))]
      BY DEF Sending, SentInOrder
    <3> QED BY <3>1
  <2> QED BY <2>1
<1>5. PICK n :
        /\ message' = [message EXCEPT ![o] = n] /\ n.connectionId = m.connectionId
        /\ \/ /\ ioPc' = "Distribute" /\ ioMsg' = o /\ n.allDataRead
              /\ AllOf(c, s, n, p[1]) /\ e = <<p[1] + 1, 0>>
           \/ /\ ioPc' \notin {"Distribute", "Swap"} /\ UNCHANGED ioMsg /\ ~n.allDataRead
              /\ Partial(c, s, n, e) /\ Within(s, p, e)
  <2>1. /\ IInv /\ c \in Conn /\ p \in Positions /\ MessageList(s) /\ s = sent[c]
        /\ \A w \in 1..Len(s) : s[w].id = w
        /\ o = readMessage[c] /\ o # Null /\ m = message[o]
        /\ Partial(c, s, m, p) /\ ~m.allDataRead
        /\ Frame(f) /\ Piece(c, s, f) /\ Start(f) = p
        /\ From(f) = 0 => Len(f) = MessageHeaderSize
        /\ Len(f) <= ReadSize(m) /\ from \in {"Scan", "Top"} /\ OnRead(c, o, f, from)
        /\ e = Finish(s, f)
    BY <1>0, <1>1, <1>3, <1>4
  <2> QED BY <2>1, OnReadResult
<1>6. message'[o] = n /\ m.connectionId = c
  BY <1>0, <1>1, <1>5 DEF Homes
<1>7. p[1] \in 1..Len(s) /\ e[1] \in 1..(Len(s) + 1) /\ p[1] <= e[1]
  BY <1>0, PieceMessage
<1>8. messagePool[c] # << >> => p[1] >= 2
  BY <1>2 DEF Receiving
<1>9. CASE ioPc' = "Distribute"
  <2>1. /\ ioMsg' = o /\ n.allDataRead /\ AllOf(c, s, n, p[1]) /\ e = <<p[1] + 1, 0>>
    BY <1>5, <1>9
  <2>2. e[1] = p[1] + 1 /\ e[2] = 0 /\ n.header.id = p[1]
    BY <2>1 DEF AllOf
  <2>3. Complete(c)' /\ ~Stale(c)' /\ readMessage'[c] = o /\ messagePool'[c] = messagePool[c]
    BY <1>9 DEF Complete, Stale
  <2>4. Receiving(c, s, e)'
    BY <1>0, <1>6, <1>7, <1>8, <2>2, <2>3 DEF Receiving
  <2>5. Arrives(c, p)
    BY <1>2, <1>5, <1>6, <2>1 DEF Arrives
  <2>6. Passed(c, e)'
    <3>1. /\ p[1] \in Nat /\ e[1] \in Nat /\ p[1] <= e[1]
          /\ message'[ioMsg'].header.id < e[1]
      BY <1>0, <1>6, <1>7, <2>1, <2>2
    <3> QED BY <1>0, <1>2, <3>1, PassedKept
  <2>7. s = sent'[c]
    OBVIOUS
  <2>8. Flows(c, e)'
    BY <2>4, <2>6, <2>7, FlowsPrimed
  <2>9. Moves(c, p, e)
    BY <1>9, <2>2, <2>5 DEF Moves
  <2> QED BY <2>5, <2>8, <2>9
<1>10. CASE ioPc' # "Distribute"
  <2>1. /\ ioPc' \notin {"Distribute", "Swap"} /\ ~n.allDataRead /\ Partial(c, s, n, e)
    BY <1>5, <1>10
  <2>2. /\ ~Complete(c)' /\ readMessage'[c] = o /\ messagePool'[c] = messagePool[c] /\ ~Completes
    BY <2>1 DEF Complete, Completes
  <2>3. ~Stale(c)'
    BY <1>6, <2>1, <2>2 DEF Stale
  <2>4. Receiving(c, s, e)'
    BY <1>0, <1>6, <1>7, <1>8, <2>1, <2>2, <2>3 DEF Receiving
  <2>5. Passed(c, e)'
    <3>1. /\ p[1] \in Nat /\ e[1] \in Nat /\ p[1] <= e[1]
      BY <1>0, <1>7
    <3> QED BY <1>0, <1>2, <2>2, <3>1, PassedKept
  <2>6. s = sent'[c]
    OBVIOUS
  <2>7. Flows(c, e)'
    BY <2>4, <2>5, <2>6, FlowsPrimed
  <2>8. Moves(c, p, e)
    BY <1>5, <1>10 DEF Moves, Within
  <2> QED BY <2>2, <2>7, <2>8
<1> QED BY <1>9, <1>10

\* What a read of connection c does to another one: nothing.
LEMMA ReadOthers ==
  ASSUME IInv, Homes, [Next]_vars, NEW c \in Conn, NEW d \in Conn, d # c,
         NEW p \in Positions, Flows(d, p), readMessage[c] # Null,
         ~Complete(d), ~Complete(d)',
         UNCHANGED message \/ \E m : /\ message' = [message EXCEPT ![readMessage[c]] = m]
                                     /\ m.connectionId = message[readMessage[c]].connectionId,
         Completes => ioMsg' = readMessage[c],
         pipe'[d] = pipe[d], readIO'[d] = readIO[d], transferred'[d] = transferred[d],
         UNCHANGED <<client, sent, unwritten, readMessage, messagePool, ownerPc>>
  PROVE  Flows(d, p)'
<1>0. TypeOK /\ Ownership
  BY DEF IInv
<1>1. readMessage[d] # Null => message'[readMessage[d]] = message[readMessage[d]]
  BY <1>0, OthersMessage
<1>2. Gone => Gone'
  BY DEF Gone
<1>3. Completes => message'[ioMsg'].connectionId # d
  <2>1. readMessage[c] \in Obj /\ message[readMessage[c]].connectionId = c
    BY <1>0 DEF Homes, TypeOK, PoolTypes
  <2>2. message'[readMessage[c]].connectionId = c
    BY <1>0, <2>1 DEF TypeOK, StoreTypes
  <2> QED BY <2>2
<1>4. messagePool'[d] # << >> => p[1] >= 2 /\ (Complete(d) => p[1] >= 3)
  BY DEF Flows, Receiving
<1>5. /\ sent'[d] = sent[d] /\ client'[d] = client[d] /\ unwritten'[d] = unwritten[d]
      /\ readMessage'[d] = readMessage[d]
  OBVIOUS
<1> QED BY <1>1, <1>2, <1>3, <1>4, <1>5, FlowsKept

\* What onRead may change.
LEMMA OnReadChanges ==
  ASSUME TypeOK, NEW c \in Conn, readMessage[c] # Null, NEW bytes, NEW from,
         from \in {"Scan", "Top"}, OnRead(c, readMessage[c], bytes, from)
  PROVE  /\ UNCHANGED message \/ \E m : /\ message' = [message EXCEPT ![readMessage[c]] = m]
                                        /\ m.connectionId = message[readMessage[c]].connectionId
         /\ Completes => ioMsg' = readMessage[c]
         /\ ioPc' \in {"Distribute", "Scan", "Top", "Exited"}
<1> DEFINE m == message[readMessage[c]]
<1>1. m \in Messages
  BY DEF TypeOK, PoolTypes, StoreTypes
<1>2. \A h : ProcessHeader(m, h).connectionId = m.connectionId
  BY <1>1 DEF ProcessHeader, ResetMessage, Messages
<1>3. AcceptBytes(m, bytes).connectionId = m.connectionId
  BY <1>1 DEF AcceptBytes, Messages
<1>4. \/ UNCHANGED message
      \/ \E h : message' = [message EXCEPT ![readMessage[c]] = ProcessHeader(m, h)]
      \/ message' = [message EXCEPT ![readMessage[c]] = AcceptBytes(m, bytes)]
  BY DEF OnRead
<1>5. /\ Completes => ioMsg' = readMessage[c]
      /\ ioPc' \in {"Distribute", "Scan", "Top", "Exited"}
  BY DEF OnRead, Completes, Reject, Accept, IoExits
<1> HIDE DEF m
<1> QED BY <1>2, <1>3, <1>4, <1>5 DEF m

\* Each message that onRead completes arrives like that.
Arrival == Completes => \E c \in Conn : \E p \in Positions : Arrives(c, p)

\* The loop gets the bytes of a completed read.
LEMMA ReadEventFlows ==
  ASSUME IInv, Homes, Sending, Flowing, ReadInRoom, FreshReads, [Next]_vars,
         NEW c \in Conn, IoReadEvent(c)
  PROVE  FlowsOn /\ Arrival
<1>0. /\ TypeOK /\ Ownership /\ c \in Nat /\ MessageList(sent[c]) /\ Frame(transferred[c])
      /\ readIO \in [Conn -> {"Idle", "Pending", "Done", "Broken"}]
  BY ConnectionTypes DEF IInv, TypeOK, ReadTypes
<1>1. /\ readIO[c] = "Done" /\ readMessage[c] # Null /\ ~Stale(c) /\ ioPc = "Wait"
      /\ cur' = c /\ OnRead(c, readMessage[c], transferred[c], "Top")
      /\ readIO' = [readIO EXCEPT ![c] = "Idle"]
      /\ UNCHANGED <<client, sent, unwritten, pipe, transferred, readMessage, messagePool, ownerPc>>
  BY <1>0 DEF IoReadEvent, Ownership, ReadHasMessage, KernelOwns, FreshReads, clientVars, poolVars
<1>2. \A d \in Conn : ~Complete(d)
  BY <1>1 DEF Complete
<1>3. ASSUME NEW p \in Positions, Flows(c, p)
      PROVE  /\ \E q \in Positions : Flows(c, q)' /\ Moves(c, p, q)
             /\ Completes => Arrives(c, p)
  <2>4. PICK o : o = readMessage[c]
    OBVIOUS
  <2>5. PICK s : s = sent[c]
    OBVIOUS
  <2>6. PICK f : f = transferred[c]
    OBVIOUS
  <2>7. PICK e : e = Finish(s, f)
    OBVIOUS
  <2>8. PICK d : d = WriteEnd(c)'
    OBVIOUS
  <2>9. d = WriteEnd(c)
    BY <1>1, <2>8 DEF WriteEnd
  <2>10. Streaming(c, s, p, d)
    BY <1>3, <2>5, <2>9 DEF Flows
  <2>11. /\ Piece(c, s, f) /\ Start(f) = p /\ (From(f) = 0 => Len(f) = MessageHeaderSize)
         /\ Chain(c, s, e, pipe[c])
         /\ client[c] # "closed" => ChainEnd(s, e, pipe[c]) = d
    BY <1>1, <2>6, <2>7, <2>10 DEF Streaming, Fetched
  <2>12. Streaming(c, s, e, d)'
    <3>1. readIO'[c] = "Idle"
      BY <1>0, <1>1
    <3>2. Fetched(c, s, e)' = e
      BY <3>1 DEF Fetched
    <3> QED BY <1>1, <2>11, <3>1, <3>2 DEF Streaming
  <2>13. Len(f) <= ReadSize(message[o])
    BY <1>1, <2>4, <2>6 DEF ReadInRoom
  <2>14. /\ c \in Conn /\ p \in Positions /\ Flows(c, p) /\ ~Stale(c) /\ ~Complete(c)
         /\ o = readMessage[c] /\ o # Null /\ s = sent[c] /\ Frame(f) /\ Piece(c, s, f)
         /\ Start(f) = p /\ (From(f) = 0 => Len(f) = MessageHeaderSize)
         /\ "Top" \in {"Scan", "Top"} /\ OnRead(c, o, f, "Top") /\ cur' = c
         /\ UNCHANGED <<sent, readMessage, messagePool>>
    BY <1>0, <1>1, <1>2, <1>3, <2>4, <2>5, <2>6, <2>11
  <2>15. Flows(c, e)'
    BY <2>7, <2>8, <2>12, <2>13, <2>14, ReadFlows
  <2>16. Completes => Arrives(c, p)
    BY <2>7, <2>8, <2>12, <2>13, <2>14, ReadFlows
  <2>17. Moves(c, p, e)
    BY <2>7, <2>8, <2>12, <2>13, <2>14, ReadFlows
  <2>18. e \in Positions
    BY <1>0, <2>7, <2>11, PieceTypes
  <2> QED BY <2>15, <2>16, <2>17, <2>18
<1>4. Arrival
  <2>1. PICK p \in Positions : Flows(c, p)
    BY DEF Flowing
  <2> QED BY <1>3, <2>1 DEF Arrival
<1>5. ASSUME NEW x \in Conn, NEW q \in Positions, Flows(x, q), x # c PROVE Flows(x, q)'
  <2>1. /\ UNCHANGED message \/ \E m : /\ message' = [message EXCEPT ![readMessage[c]] = m]
                                       /\ m.connectionId = message[readMessage[c]].connectionId
        /\ Completes => ioMsg' = readMessage[c]
    BY <1>0, <1>1, OnReadChanges
  <2>2. ~Complete(x) /\ ~Complete(x)'
    BY <1>1, <1>2, <1>5 DEF Complete
  <2>3. pipe'[x] = pipe[x] /\ readIO'[x] = readIO[x] /\ transferred'[x] = transferred[x]
    BY <1>0, <1>1, <1>5
  <2> QED BY <1>1, <1>5, <2>1, <2>2, <2>3, ReadOthers
<1> QED BY <1>3, <1>4, <1>5 DEF FlowsOn, Moves, Within

-----------------------------------------------------------------------------
\* ... of startRead, ...

\* The next pipe message of a connection, what is behind it, and what a ReadFile
\* takes and leaves of it.
Front(c) == Head(pipe[c])
Behind(c) == Tail(pipe[c])
Taken(c) == Transfer(Front(c), ReadSize(message[readMessage[c]]))
Left(c) == Remainder(Front(c), ReadSize(message[readMessage[c]]))

\* They are pieces that follow position p and lead to e.
TakesNext(c, s, p, e) ==
  /\ Frame(Front(c)) /\ Piece(c, s, Front(c)) /\ Start(Front(c)) = p
  /\ Chain(c, s, Finish(s, Front(c)), Behind(c))
  /\ client[c] # "closed" => ChainEnd(s, Finish(s, Front(c)), Behind(c)) = e
  /\ Piece(c, s, Taken(c)) /\ Start(Taken(c)) = p
  /\ From(Front(c)) = 0 => Len(Taken(c)) = MessageHeaderSize
  /\ \/ /\ Taken(c) = Front(c) /\ Left(c) = << >>
        /\ Len(Front(c)) <= ReadSize(message[readMessage[c]])
     \/ /\ Piece(c, s, Left(c)) /\ Left(c) # << >>
        /\ Len(Front(c)) > ReadSize(message[readMessage[c]])
        /\ Start(Left(c)) = Finish(s, Taken(c)) /\ Finish(s, Left(c)) = Finish(s, Front(c))

\* What startRead takes of the front of the pipe is the next piece, and what it
\* leaves goes on behind it.
LEMMA NextPiece ==
  ASSUME IInv, NEW c \in Conn, NEW p \in Positions, NEW s, s = sent[c], NEW e,
         Streaming(c, s, p, e), Receiving(c, s, p), ~Stale(c), ~Complete(c), readIO[c] = "Idle",
         readMessage[c] # Null, pipe[c] # << >>
  PROVE  TakesNext(c, s, p, e)
<1>13. PICK n : n = ReadSize(message[readMessage[c]])
  OBVIOUS
<1>14. PICK f : f = Head(pipe[c])
  OBVIOUS
<1>15. PICK t : t = Transfer(f, n)
  OBVIOUS
<1>16. PICK r : r = Remainder(f, n)
  OBVIOUS
<1>17. PICK q : q = Tail(pipe[c])
  OBVIOUS
<1>0. /\ c \in Nat /\ MessageList(s) /\ Frames(pipe[c]) /\ readMessage[c] \in Obj
      /\ message[readMessage[c]] \in Messages /\ Sound(message[readMessage[c]])
  BY ConnectionTypes DEF IInv, Whole
<1>1. Fetched(c, s, p) = p
  BY DEF Fetched
<1>2. PICK g : g = pipe[c]
  OBVIOUS
<1>3. /\ Chain(c, s, p, g) /\ g # << >> /\ g \in Seq(Seq(Byte))
      /\ client[c] # "closed" => ChainEnd(s, p, g) = e
  BY <1>0, <1>1, <1>2 DEF Streaming, Frames
<1>4. /\ Piece(c, s, Head(g)) /\ Start(Head(g)) = p /\ Head(g) \in Seq(Byte)
      /\ Chain(c, s, Finish(s, Head(g)), Tail(g))
      /\ ChainEnd(s, Finish(s, Head(g)), Tail(g)) = ChainEnd(s, p, g)
  BY <1>3, ChainTail
<1>5. f = Head(g) /\ q = Tail(g)
  BY <1>2, <1>14, <1>17
<1>6. /\ Frame(f) /\ Piece(c, s, f) /\ Start(f) = p
      /\ Chain(c, s, Finish(s, f), q)
      /\ client[c] # "closed" => ChainEnd(s, Finish(s, f), q) = e
  BY <1>3, <1>4, <1>5 DEF Frame
<1>7. PICK m : m = message[readMessage[c]]
  OBVIOUS
<1>8. m \in Messages /\ Sound(m) /\ Partial(c, s, m, p)
  BY <1>0, <1>7 DEF Receiving
<1>9. /\ ReadSize(m) \in Nat /\ ReadSize(m) >= 1
      /\ p[2] = 0 => ReadSize(m) = MessageHeaderSize
  BY <1>0, <1>8, RoomLeft
<1>10. From(f) = p[2]
  BY <1>6 DEF Start
<1>11. n \in Nat /\ n >= 1 /\ (From(f) = 0 => n = MessageHeaderSize)
  BY <1>7, <1>9, <1>10, <1>13
<1>12. /\ Piece(c, s, t) /\ Start(t) = Start(f)
       /\ From(f) = 0 => Len(t) = MessageHeaderSize
       /\ \/ t = f /\ r = << >> /\ Len(f) <= n
          \/ /\ Piece(c, s, r) /\ r # << >> /\ Len(f) > n
             /\ Start(r) = Finish(s, t) /\ Finish(s, r) = Finish(s, f)
  <2>1. /\ c \in Nat /\ MessageList(s) /\ Piece(c, s, f) /\ n \in Nat /\ n >= 1
        /\ From(f) = 0 => n = MessageHeaderSize
        /\ t = Transfer(f, n) /\ r = Remainder(f, n)
    BY <1>0, <1>6, <1>11, <1>15, <1>16
  <2>2. Splits(c, s, f, n, t, r)
    BY <2>1, TakePiece
  <2> QED BY <2>2 DEF Splits
<1> QED BY <1>6, <1>12, <1>13, <1>14, <1>15, <1>16, <1>17 DEF TakesNext, Front, Behind, Taken, Left

\* startRead of a connection.
LEMMA StartReadOthers ==
  ASSUME IInv, Homes, [Next]_vars, IoStartRead, NEW d \in Conn, d # cur,
         NEW p \in Positions, Flows(d, p)
  PROVE  Flows(d, p)'
<1>0. /\ TypeOK /\ Ownership /\ cur \in Conn /\ readMessage[cur] # Null /\ ioPc = "Scan"
      /\ UNCHANGED <<client, sent, unwritten, readMessage, messagePool, ownerPc>>
  BY ServedConnection DEF IInv, IoStartRead, StartsRead, clientVars, poolVars
<1>1. ~Complete(d)
  BY <1>0 DEF Complete
<1>2. pipe'[d] = pipe[d] /\ readIO'[d] = readIO[d] /\ transferred'[d] = transferred[d]
  BY <1>0 DEF IoStartRead, readVars, TypeOK, PipeTypes, ReadTypes
<1>3. CASE UNCHANGED message /\ ioPc' \notin {"Distribute", "Swap"}
  <2>1. ~Complete(d)' /\ ~Completes
    BY <1>3 DEF Complete, Completes
  <2> QED BY <1>0, <1>1, <1>2, <1>3, <2>1, ReadOthers
<1>4. ASSUME OnRead(cur, readMessage[cur], Head(pipe[cur]), "Scan"), UNCHANGED cur
      PROVE  Flows(d, p)'
  <2>1. /\ UNCHANGED message \/ \E m : /\ message' = [message EXCEPT ![readMessage[cur]] = m]
                                       /\ m.connectionId = message[readMessage[cur]].connectionId
        /\ Completes => ioMsg' = readMessage[cur]
    BY <1>0, <1>4, OnReadChanges
  <2>2. ~Complete(d)'
    BY <1>4 DEF Complete
  <2> QED BY <1>0, <1>1, <1>2, <2>1, <2>2, ReadOthers
<1>5. \/ UNCHANGED message /\ ioPc' \notin {"Distribute", "Swap"}
      \/ OnRead(cur, readMessage[cur], Head(pipe[cur]), "Scan") /\ UNCHANGED cur
  <2>1. ioPc' \in {ioPc, "Exited"} => ioPc' \notin {"Distribute", "Swap"}
    BY <1>0
  <2> QED BY <2>1 DEF IoStartRead, IoExits
<1> QED BY <1>3, <1>4, <1>5

\* startRead of the connection it serves keeps what was read.
LEMMA StartReadFlows ==
  ASSUME IInv, Homes, Sending, FreshReads, [Next]_vars, IoStartRead, NEW c, c = cur,
         NEW p \in Positions, Flows(c, p)
  PROVE  /\ \E q \in Positions : Flows(c, q)' /\ Moves(c, p, q)
         /\ Completes => Arrives(c, p)
<1>1. c = cur
  OBVIOUS
<1>0. /\ TypeOK /\ Ownership /\ c \in Conn /\ readMessage[c] # Null /\ ioPc = "Scan"
      /\ UNCHANGED <<client, sent, unwritten, readMessage, messagePool, ownerPc>>
      /\ readIO[c] = "Idle" /\ c \in Nat
      /\ readIO \in [Conn -> {"Idle", "Pending", "Done", "Broken"}]
      /\ transferred \in [Conn -> Seq(Byte)] /\ pipe \in [Conn -> Seq(Seq(Byte))]
  <2>1. TypeOK /\ Ownership
    BY DEF IInv
  <2>2. c \in Conn /\ c \in Nat
    BY <1>1, <2>1, ServedConnection, ServerAssumption DEF IoStartRead, StartsRead, Conn
  <2>3. /\ readMessage[c] # Null /\ ioPc = "Scan" /\ readIO[c] = "Idle"
        /\ UNCHANGED <<client, sent, unwritten, readMessage, messagePool, ownerPc>>
    BY <1>1 DEF IoStartRead, StartsRead, clientVars, poolVars
  <2>4. /\ readIO \in [Conn -> {"Idle", "Pending", "Done", "Broken"}]
        /\ transferred \in [Conn -> Seq(Byte)] /\ pipe \in [Conn -> Seq(Seq(Byte))]
    BY <2>1 DEF TypeOK, ReadTypes, PipeTypes
  <2> QED BY <2>1, <2>2, <2>3, <2>4
<1>2. ~Complete(c) /\ Flows(c, p)
  BY <1>0, <1>1 DEF Complete
<1>3. pipe[c] # << >> => ~Stale(c)
  BY <1>0 DEF FreshReads
<1>4. PICK s : s = sent[c]
  OBVIOUS
<1>5. PICK n : n = ReadSize(message[readMessage[c]])
  OBVIOUS
<1>6. PICK f : f = Head(pipe[c])
  OBVIOUS
<1>7. PICK t : t = Transfer(f, n)
  OBVIOUS
<1>8. PICK r : r = Remainder(f, n)
  OBVIOUS
<1>9. PICK q : q = Tail(pipe[c])
  OBVIOUS
<1>10. PICK d : d = WriteEnd(c)'
  OBVIOUS
<1>11. d = WriteEnd(c)
  BY <1>0, <1>10 DEF WriteEnd
<1>12. Streaming(c, s, p, d) /\ Receiving(c, s, p) /\ Passed(c, p)
  BY <1>2, <1>4, <1>11 DEF Flows
<1>13. ASSUME pipe[c] # << >>
       PROVE  /\ Frame(f) /\ Piece(c, s, f) /\ Start(f) = p
              /\ Chain(c, s, Finish(s, f), q)
              /\ client[c] # "closed" => ChainEnd(s, Finish(s, f), q) = d
              /\ Piece(c, s, t) /\ Start(t) = p
              /\ From(f) = 0 => Len(t) = MessageHeaderSize
              /\ \/ t = f /\ r = << >> /\ Len(f) <= n
                 \/ /\ Piece(c, s, r) /\ r # << >> /\ Len(f) > n
                    /\ Start(r) = Finish(s, t) /\ Finish(s, r) = Finish(s, f)
  <2>1. ~Stale(c) /\ ~Complete(c) /\ readIO[c] = "Idle" /\ readMessage[c] # Null
    BY <1>0, <1>2, <1>3, <1>13
  <2>2. TakesNext(c, s, p, d)
    BY <1>0, <1>4, <1>12, <1>13, <2>1, NextPiece
  <2> QED BY <1>5, <1>6, <1>7, <1>8, <1>9, <2>2 DEF TakesNext, Front, Behind, Taken, Left
<1>14. ASSUME /\ pipe'[c] = pipe[c] /\ readIO'[c] # "Done" /\ UNCHANGED message
              /\ ioPc' \notin {"Distribute", "Swap"}
       PROVE  Flows(c, p)' /\ ~Completes
  <2>1. /\ sent'[c] = sent[c] /\ client'[c] = client[c] /\ unwritten'[c] = unwritten[c]
        /\ readMessage'[c] = readMessage[c] /\ messagePool'[c] = messagePool[c]
        /\ ~Complete(c)' /\ (Gone => Gone') /\ ~Completes
    BY <1>0, <1>14 DEF Complete, Gone, Completes
  <2>2. messagePool'[c] # << >> => p[1] >= 2 /\ (Complete(c) => p[1] >= 3)
    BY <1>12, <2>1 DEF Receiving
  <2>3. readIO'[c] = "Done" <=> readIO[c] = "Done"
    BY <1>0, <1>14
  <2>4. readIO[c] = "Done" => transferred'[c] = transferred[c]
    BY <1>0
  <2>5. Flows(c, p)'
    BY <1>0, <1>2, <1>14, <2>1, <2>2, <2>3, <2>4, FlowsKept
  <2> QED BY <2>1, <2>5
<1>15. CASE /\ pipe[c] = << >> /\ UNCHANGED <<pipe, message, ioPc>>
            /\ readIO' = [readIO EXCEPT ![c] = "Pending"]
  BY <1>0, <1>1, <1>14, <1>15 DEF Moves, Within
<1>16. CASE /\ IF pipe[c] = << >> THEN UNCHANGED pipe ELSE f = << >>
            /\ IoExits /\ UNCHANGED <<readVars, message>>
  <2>1. pipe[c] = << >>
    BY <1>0, <1>13, <1>16, PieceTypes
  <2>2. readIO'[c] = "Idle" /\ ioPc' = "Exited" /\ UNCHANGED <<pipe, message>>
    BY <1>0, <1>16, <2>1 DEF readVars, IoExits
  <2> QED BY <1>1, <1>14, <2>2 DEF Moves, Within
<1>17. CASE /\ pipe[c] # << >> /\ Len(f) > n
            /\ pipe' = [pipe EXCEPT ![c] = <<r>> \o q]
            /\ readIO' = [readIO EXCEPT ![c] = "Done"]
            /\ transferred' = [transferred EXCEPT ![c] = t]
            /\ UNCHANGED <<message, ioPc, ioMsg>>
  <2>1. readIO'[c] = "Done" /\ transferred'[c] = t /\ pipe'[c] = <<r>> \o q
    BY <1>0, <1>17
  <2>2. /\ Piece(c, s, r) /\ Start(r) = Finish(s, t) /\ Finish(s, r) = Finish(s, f)
        /\ Piece(c, s, t) /\ Start(t) = p
        /\ From(f) = 0 => Len(t) = MessageHeaderSize
        /\ Start(f) = p /\ Frame(f)
    <3>1. Len(f) \in Nat
      BY <1>13, <1>17 DEF Frame
    <3>2. n \in Nat
      BY <1>0, <1>5, ConnectionTypes, MessageTypes DEF IInv
    <3> QED BY <1>13, <1>17, <3>1, <3>2
  <2>3. From(t) = From(f)
    BY <2>2 DEF Start
  <2>4. PICK g : g = pipe[c]
    OBVIOUS
  <2>5. PICK x : x = Finish(s, t)
    OBVIOUS
  <2>6. /\ g \in Seq(Seq(Byte)) /\ g # << >> /\ Chain(c, s, p, g) /\ f = Head(g) /\ q = Tail(g)
        /\ client[c] # "closed" => ChainEnd(s, p, g) = d
    <3>1. Fetched(c, s, p) = p
      BY <1>0 DEF Fetched
    <3> QED BY <1>0, <1>6, <1>9, <1>12, <1>17, <2>4, <3>1 DEF Streaming
  <2>7. r \in Seq(Byte)
    BY <1>0, <2>2, PieceTypes
  <2>8. /\ Chain(c, s, x, <<r>> \o Tail(g))
        /\ ChainEnd(s, x, <<r>> \o Tail(g)) = ChainEnd(s, p, g)
    BY <2>2, <2>5, <2>6, <2>7, ChainReplace
  <2>9. Fetched(c, s, p)' = x
    BY <2>1, <2>5 DEF Fetched
  <2>10. Chain(c, s, x, pipe'[c]) /\ (client[c] # "closed" => ChainEnd(s, x, pipe'[c]) = d)
    BY <2>1, <2>6, <2>8
  <2>11. Streaming(c, s, p, d)'
    BY <1>0, <2>1, <2>2, <2>3, <2>9, <2>10 DEF Streaming
  <2>12. ~Complete(c)' /\ ~Completes /\ (Gone => Gone')
    BY <1>0, <1>17 DEF Complete, Completes, Gone
  <2>13. messagePool'[c] # << >> => p[1] >= 2 /\ (Complete(c) => p[1] >= 3)
    BY <1>0, <1>12 DEF Receiving
  <2>14. Receiving(c, s, p)'
    BY <1>0, <1>2, <1>12, <1>17, <2>12, <2>13, ReceivingKept
  <2>15. Passed(c, p)'
    <3>1. p[1] \in Nat /\ p[1] <= p[1]
      BY DEF Positions
    <3> QED BY <1>0, <1>12, <2>12, <3>1, PassedKept
  <2>16. s = sent'[c]
    BY <1>0, <1>4
  <2>17. Flows(c, p)'
    BY <1>10, <2>11, <2>14, <2>15, <2>16, FlowsPrimed
  <2> QED BY <1>1, <2>12, <2>17 DEF Moves, Within
<1>18. CASE /\ pipe[c] # << >> /\ f # << >> /\ Len(f) <= n
            /\ pipe' = [pipe EXCEPT ![c] = q]
            /\ OnRead(c, readMessage[c], f, "Scan")
            /\ UNCHANGED <<readVars, cur>>
  <2>1. pipe'[c] = q /\ readIO'[c] = "Idle" /\ cur' = c
    BY <1>0, <1>1, <1>18 DEF readVars
  <2>2. PICK e : e = Finish(s, f)
    OBVIOUS
  <2>3. /\ Frame(f) /\ Piece(c, s, f) /\ Start(f) = p /\ Chain(c, s, e, q)
        /\ client[c] # "closed" => ChainEnd(s, e, q) = d
        /\ From(f) = 0 => Len(f) = MessageHeaderSize
    <3>1. Len(f) \in Nat
      BY <1>13, <1>18 DEF Frame
    <3>2. n \in Nat
      BY <1>0, <1>5, ConnectionTypes, MessageTypes DEF IInv
    <3> QED BY <1>13, <1>18, <2>2, <3>1, <3>2
  <2>4. Fetched(c, s, e)' = e
    BY <2>1 DEF Fetched
  <2>5. Streaming(c, s, e, d)'
    BY <1>0, <2>1, <2>3, <2>4 DEF Streaming
  <2>6. PICK o : o = readMessage[c]
    OBVIOUS
  <2>7. /\ c \in Conn /\ p \in Positions /\ Flows(c, p) /\ ~Stale(c) /\ ~Complete(c)
        /\ o = readMessage[c] /\ o # Null /\ s = sent[c] /\ Frame(f) /\ Piece(c, s, f)
        /\ Start(f) = p /\ (From(f) = 0 => Len(f) = MessageHeaderSize)
        /\ Len(f) <= ReadSize(message[o])
        /\ "Scan" \in {"Scan", "Top"} /\ OnRead(c, o, f, "Scan") /\ cur' = c
        /\ UNCHANGED <<sent, readMessage, messagePool>>
    BY <1>0, <1>2, <1>3, <1>4, <1>5, <1>18, <2>1, <2>3, <2>6
  <2>8. Flows(c, e)'
    BY <1>10, <2>2, <2>5, <2>7, ReadFlows
  <2>9. Completes => Arrives(c, p)
    BY <1>10, <2>2, <2>5, <2>7, ReadFlows
  <2>10. e \in Positions
    BY <1>0, <2>2, <2>3, PieceTypes
  <2>11. Moves(c, p, e)
    BY <1>10, <2>2, <2>5, <2>7, ReadFlows
  <2> QED BY <1>1, <2>8, <2>9, <2>10, <2>11
<1> QED BY <1>1, <1>5, <1>6, <1>7, <1>8, <1>9, <1>15, <1>16, <1>17, <1>18 DEF IoStartRead

\* Each outcome of startRead keeps the bytes in order.
LEMMA StartFlows ==
  ASSUME IInv, Homes, Sending, Flowing, FreshReads, [Next]_vars, IoStartRead
  PROVE  FlowsOn /\ Arrival
<1>0. PICK c : c = cur
  OBVIOUS
<1>1. c \in Conn
  BY <1>0, ServedConnection DEF IInv, IoStartRead
<1>2. PICK p \in Positions : Flows(c, p)
  BY <1>1 DEF Flowing
<1>3. ASSUME NEW x \in Positions, Flows(c, x)
      PROVE  \E q \in Positions : Flows(c, q)' /\ Moves(c, x, q)
  BY <1>0, <1>3, StartReadFlows
<1>4. Completes => Arrives(c, p)
  BY <1>0, <1>2, StartReadFlows
<1>5. ASSUME NEW d \in Conn, NEW x \in Positions, Flows(d, x), d # c PROVE Flows(d, x)'
  BY <1>0, <1>5, StartReadOthers
<1>6. Arrival
  BY <1>1, <1>2, <1>4 DEF Arrival
<1>7. FlowsOn
  BY <1>3, <1>5 DEF FlowsOn, Moves, Within
<1> QED BY <1>6, <1>7

-----------------------------------------------------------------------------
\* ... and of acquire.

\* A connection gets its first message, or another one for the complete one: a
\* new one, or one from its pool if two were complete before.
LEMMA AcquireReceives ==
  ASSUME IInv, Homes, NEW c \in Conn, NEW s, NEW p \in Positions,
         Receiving(c, s, p), Acquire(c), ~Complete(c)',
         (readMessage[c] = Null /\ ~Gone) \/ Complete(c)
  PROVE  Receiving(c, s, p)'
<1>0. /\ messagePool[c] \in Seq(Obj) /\ messagePool \in [Conn -> Seq(Obj)]
      /\ message \in [Obj -> Messages] /\ readMessage \in [Conn -> Obj \cup {Null}]
      /\ allocated \in Nat /\ Null \notin Obj
  BY HeldObjects DEF IInv, TypeOK, PoolTypes, StoreTypes
<1>1. p[2] = 0 /\ p[1] \in 1..(Len(s) + 1) /\ p[1] \in Nat
  BY DEF Receiving, Positions
<1>2. messagePool[c] # << >> => p[1] >= 3
  BY <1>1 DEF Receiving
<1>3. CASE messagePool[c] # << >>
  <2> DEFINE o == Head(messagePool[c])
  <2>1. /\ readMessage'[c] = o /\ UNCHANGED message
    BY <1>0, <1>3 DEF Acquire
  <2>2. o \in Pooled(c) /\ o \in Obj
    BY <1>0, <1>3 DEF Pooled, Range
  <2>3. message[o].allDataRead /\ o # Null
    BY <1>0, <2>2 DEF Homes
  <2> HIDE DEF o
  <2>4. Stale(c)'
    BY <2>1, <2>3 DEF Stale
  <2>5. p[1] >= 3 /\ p[1] >= 2
    BY <1>1, <1>2, <1>3
  <2>6. readMessage'[c] # Null
    BY <2>1, <2>3
  <2> QED BY <1>1, <2>4, <2>5, <2>6 DEF Receiving
<1>4. CASE messagePool[c] = << >>
  <2>1. /\ allocated + 1 \in Obj /\ readMessage'[c] = allocated + 1
        /\ message'[allocated + 1] = NewMessage(c) /\ messagePool'[c] = << >>
    <3>1. allocated < MaxObjects /\ allocated + 1 \in Obj
      BY <1>0, <1>4, ServerAssumption DEF Acquire, Obj
    <3> QED BY <1>0, <1>4, <3>1 DEF Acquire
  <2>2. message'[readMessage'[c]] = NewMessage(c) /\ readMessage'[c] # Null
    BY <1>0, <2>1
  <2>3. ~NewMessage(c).allDataRead /\ ~NewMessage(c).headerProcessed
    BY DEF NewMessage
  <2>4. ~Stale(c)'
    BY <2>2, <2>3 DEF Stale
  <2>5. Partial(c, s, NewMessage(c), p)
    BY <1>1, <2>3 DEF Partial, IsHeaderProcessed
  <2> QED BY <1>1, <2>1, <2>2, <2>4, <2>5 DEF Receiving
<1> QED BY <1>3, <1>4

\* startRead and onRead take the next message to read into.
LEMMA AcquireFlows ==
  ASSUME IInv, Instances, Homes, [Next]_vars, IoAcquire \/ IoSwap
  PROVE  FlowsOn
<1>0. TypeOK /\ Ownership
  BY DEF IInv
<1>1. PICK c : c = cur
  OBVIOUS
<1>2. /\ c \in Conn /\ Acquire(c) /\ UNCHANGED <<client, sent, unwritten, pipe, readVars, cur, ownerPc>>
  BY <1>0, <1>1, ServedConnection DEF IoAcquire, IoSwap, Distributing, clientVars, ioVars
<1>3. ioPc' \in {"Scan", "Release"} /\ ioPc \in {"Scan", "Swap"}
  BY DEF IoAcquire, IoSwap, StartsRead, ioVars
<1>4. /\ \A d \in Conn : ~Complete(d)'
      /\ (Gone => Gone') /\ ~Completes /\ ~Gone
  BY <1>2, <1>3 DEF Complete, Gone, Completes, Instances, CrashedTogether, IInv, Ownership, OwnerAlone
<1>5. readMessage[c] = Null \/ Complete(c)
  BY <1>1 DEF IoAcquire, IoSwap, Complete
<1>6. \A d \in Conn : d # c => ~Complete(d)
  BY <1>1 DEF Complete
<1>7. ASSUME NEW p \in Positions, Flows(c, p) PROVE Flows(c, p)'
  <2>1. Flows(c, p)
    BY <1>7
  <2>2. PICK s : s = sent[c]
    OBVIOUS
  <2>3. PICK e : e = WriteEnd(c)
    OBVIOUS
  <2>4. PICK d : d = WriteEnd(c)'
    OBVIOUS
  <2>5. d = e
    BY <1>2, <2>3, <2>4 DEF WriteEnd
  <2>6. Streaming(c, s, p, e) /\ Receiving(c, s, p) /\ Passed(c, p)
    BY <2>1, <2>2, <2>3 DEF Flows
  <2>7. /\ readIO'[c] = "Done" <=> readIO[c] = "Done"
        /\ readIO[c] = "Done" => transferred'[c] = transferred[c]
        /\ pipe'[c] = pipe[c] /\ (client'[c] # "closed" => client[c] # "closed" /\ d = e)
    BY <1>2, <2>5 DEF readVars
  <2>8. Streaming(c, s, p, d)'
    BY <2>6, <2>7, StreamingKept
  <2>9. Receiving(c, s, p)'
    BY <1>2, <1>4, <1>5, <2>6, AcquireReceives
  <2>10. Passed(c, p)'
    <3>1. p[1] \in Nat /\ p[1] <= p[1]
      BY DEF Positions
    <3> QED BY <1>0, <1>2, <1>4, <2>6, <3>1, PassedKept
  <2>11. s = sent'[c]
    BY <1>2, <2>2
  <2>12. Flows(c, p)'
    BY <2>4, <2>8, <2>9, <2>10, <2>11, FlowsPrimed
  <2> QED BY <2>12
<1>8. ASSUME NEW d \in Conn, NEW p \in Positions, Flows(d, p), d # c PROVE Flows(d, p)'
  <2>1. Flows(d, p)
    BY <1>8
  <2>2. /\ sent'[d] = sent[d] /\ client'[d] = client[d] /\ unwritten'[d] = unwritten[d]
        /\ pipe'[d] = pipe[d] /\ transferred'[d] = transferred[d]
    BY <1>2 DEF readVars
  <2>3. readIO'[d] = "Done" <=> readIO[d] = "Done"
    BY <1>2 DEF readVars
  <2>4. readMessage'[d] = readMessage[d] /\ messagePool'[d] = messagePool[d]
    BY <1>0, <1>2, <1>8 DEF Acquire, TypeOK, PoolTypes
  <2>5. readMessage[d] # Null => message'[readMessage[d]] = message[readMessage[d]]
    BY <1>0, <1>2, <1>8, OthersAcquire
  <2>6. messagePool'[d] # << >> => p[1] >= 2 /\ (Complete(d) => p[1] >= 3)
    BY <2>1, <2>4 DEF Flows, Receiving
  <2>7. ~Complete(d) /\ ~Complete(d)'
    BY <1>4, <1>6, <1>8
  <2>8. Flows(d, p)'
    BY <1>4, <2>1, <2>2, <2>3, <2>4, <2>5, <2>6, <2>7, FlowsKept
  <2> QED BY <2>8
<1> QED BY <1>7, <1>8 DEF FlowsOn, Moves, Within

-----------------------------------------------------------------------------
\* All steps.

\* A client sends no more messages than it may.
Bounded == \A c \in Conn : Len(sent[c]) <= MaxSends

\* A client sends no more than its messages.
LEMMA BoundedStep ==
  ASSUME TypeOK, Bounded, [Next]_vars
  PROVE  Bounded'
<1>0. /\ sent \in [Conn -> Seq(SentMessages)] /\ MaxSends \in Nat
  BY ServerAssumption DEF TypeOK, ClientTypes
<1>1. ASSUME UNCHANGED sent PROVE Bounded'
  BY <1>1 DEF Bounded
<1>2. ASSUME NEW c \in Conn, NEW size \in Sizes, ClientSend(c, size) PROVE Bounded'
  <2>1. PICK t : /\ sent' = [sent EXCEPT ![c] = t] /\ sent'[c] = t /\ Len(t) = Len(sent[c]) + 1
    BY <1>2, SendPieces
  <2>2. Len(sent[c]) + 1 <= MaxSends
    BY <1>2 DEF ClientSend
  <2>3. \A d \in Conn : d # c => sent'[d] = sent[d]
    BY <1>0, <2>1
  <2>4. Len(sent'[c]) <= MaxSends
    BY <2>1, <2>2
  <2> QED BY <2>3, <2>4 DEF Bounded
<1>3. ASSUME NEW c \in Conn,
             ClientConnect(c) \/ ClientSendRest(c) \/ ClientSendNothing(c) \/ ClientClose(c)
      PROVE  UNCHANGED sent
  BY <1>3 DEF ClientConnect, ClientSendRest, ClientSendNothing, ClientClose, clientVars
<1>4. CASE IoNext
  BY <1>1, <1>4 DEF IoNext, IoStopped, IoCreate, IoPush, IoNoCreate, IoSkip, IoAcquire,
     IoStartRead, IoDistribute, IoSwap, IoRelease, IoScanned, IoWaitFails, IoConnectEvent,
     IoReadEvent, IoBrokenEvent, clientVars
<1>5. CASE EmitNext \/ EmitSpuriousWake \/ OwnerStop \/ OwnerDestroys
  BY <1>1, <1>5 DEF EmitNext, EmitTop, EmitTest, EmitSleep, EmitSpuriousWake, EmitLookup,
     EmitLookupMisses, EmitLookupCrashes, EmitHandle, OwnerStop, OwnerDestroys, OwnerJoin,
     DestroyConnections, DestroyQueue, DestroyQueueCrashes, ioOwned, clientVars
<1> QED BY <1>1, <1>2, <1>3, <1>4, <1>5 DEF Next, ClientNext, vars

\* For clients that send no more than two messages nothing arrives for a message
\* that was complete before.
LEMMA FewFresh ==
  ASSUME TypeOK, Bounded, Flowing, MaxSends <= 2
  PROVE  FreshReads
<1> SUFFICES ASSUME NEW c \in Conn, Stale(c) PROVE readIO[c] # "Done" /\ pipe[c] = << >>
  BY DEF FreshReads
<1>0. c \in Nat /\ Frames(pipe[c]) /\ Len(sent[c]) \in Nat /\ MaxSends \in Nat
  BY ConnectionTypes, ServerAssumption
<1>1. PICK p \in Positions : Flows(c, p)
  BY DEF Flowing
<1>2. PICK s : s = sent[c]
  OBVIOUS
<1>3. PICK e : e = WriteEnd(c)
  OBVIOUS
<1>4. Streaming(c, s, p, e) /\ Receiving(c, s, p)
  BY <1>1, <1>2, <1>3 DEF Flows
<1>5. p[1] >= 3 /\ Len(s) \in Nat /\ Len(s) <= 2 /\ p[1] \in Nat
  BY <1>0, <1>2, <1>4 DEF Receiving, Bounded, Positions
<1>6. ASSUME NEW f, Piece(c, s, f), Start(f) = p PROVE FALSE
  <2>1. Start(f)[1] \in 1..Len(s)
    BY <1>0, <1>5, <1>6, PieceMessage
  <2> QED BY <1>5, <1>6, <2>1
<1>7. readIO[c] # "Done"
  BY <1>4, <1>6 DEF Streaming
<1>8. Chain(c, s, p, pipe[c])
  BY <1>4, <1>7 DEF Streaming, Fetched
<1>9. pipe[c] = << >>
  <2>1. ASSUME pipe[c] # << >> PROVE FALSE
    <3>1. 1 \in 1..Len(pipe[c])
      BY <1>0, <2>1 DEF Frames
    <3>2. Piece(c, s, pipe[c][1]) /\ Start(pipe[c][1]) = p
      BY <1>8, <3>1 DEF Chain
    <3> QED BY <1>6, <3>2
  <2> QED BY <2>1
<1> QED BY <1>7, <1>9

\* Each step keeps the bytes of the clients in order.
Orderly == Homes /\ Sending /\ Bounded /\ GivenIntact /\ Ordered /\ Flowing

\* What the theorems of NamedPipeServerProofs say, ...
Settled == IInv /\ Instances /\ PendingEmpty /\ ReadInRoom

\* Each step keeps the bytes of the clients in order, and what onRead completes
\* is the next message of its client.
LEMMA FlowingStep ==
  ASSUME Settled, Orderly, "empty" \notin Events, MaxSends <= 2,
         [Next]_vars
  PROVE  FlowsOn /\ Arrival
<1>0. /\ IInv /\ Instances /\ PendingEmpty /\ ReadInRoom /\ TypeOK
      /\ Homes /\ Sending /\ Bounded /\ GivenIntact /\ IoLast /\ Flowing
  BY DEF Settled, Orderly, IInv, Ordered
<1>1. FreshReads
  BY <1>0, FewFresh
<1>2. CASE IoStartRead \/ \E c \in Conn : IoReadEvent(c)
  BY <1>0, <1>1, <1>2, StartFlows, ReadEventFlows
<1>3. CASE ~(IoStartRead \/ \E c \in Conn : IoReadEvent(c))
  <2>1. Arrival
    <3>1. ASSUME UNCHANGED ioPc \/ ioPc' # "Distribute" PROVE ~Completes
      BY <3>1 DEF Completes
    <3>2. CASE UNCHANGED vars \/ ClientNext
      BY <3>1, <3>2 DEF vars, ClientNext, ClientConnect, ClientSend, ClientSendRest,
         ClientSendNothing, ClientClose, ioVars, Arrival
    <3>3. CASE IoNext
      <4>1. ioFrom # "Distribute"
        BY <1>0 DEF TypeOK, IoTypes
      <4>2. ioPc' # "Distribute" \/ UNCHANGED ioPc
        BY <1>3, <3>3, <4>1 DEF IoNext, IoStopped, IoCreate, IoPush, IoNoCreate, IoSkip,
           IoAcquire, IoDistribute, IoSwap, IoRelease, IoScanned, IoWaitFails, IoConnectEvent,
           IoBrokenEvent, IoExits, ioVars
      <4> QED BY <3>1, <4>2 DEF Arrival
    <3>4. CASE EmitNext \/ EmitSpuriousWake \/ OwnerStop \/ OwnerDestroys
      <4>1. ioPc' # "Distribute" \/ UNCHANGED ioPc
        BY <3>4 DEF EmitNext, EmitTop, EmitTest, EmitSleep, EmitSpuriousWake, EmitLookup,
           EmitLookupMisses, EmitLookupCrashes, EmitHandle, OwnerStop, OwnerDestroys, OwnerJoin,
           DestroyConnections, DestroyQueue, DestroyQueueCrashes, ioOwned, ioVars
      <4> QED BY <3>1, <4>1 DEF Arrival
    <3> QED BY <3>2, <3>3, <3>4 DEF Next
  <2>2. FlowsOn
    <3>1. CASE ClientNext
      BY <1>0, <1>1, <3>1, ClientFlows
    <3>2. CASE IoNext
      <4>1. CASE IoAcquire \/ IoSwap
        BY <1>0, <4>1, AcquireFlows
      <4>2. CASE IoRelease
        BY <1>0, <4>2, ReleaseFlows
      <4>3. CASE \/ IoStopped \/ IoCreate \/ IoPush \/ IoNoCreate \/ IoSkip \/ IoDistribute
                 \/ IoScanned \/ IoWaitFails
                 \/ \E c \in Conn : IoConnectEvent(c) \/ IoBrokenEvent(c)
        BY <1>0, <4>3, IoFrameFlows
      <4> QED BY <1>3, <3>2, <4>1, <4>2, <4>3 DEF IoNext
    <3>3. CASE EmitLookupMisses \/ EmitHandle
      BY <1>0, <3>3, HandledFlows
    <3>4. CASE EmitLookupCrashes
      BY <1>0, <3>4, CrashFlows
    <3>5. CASE DestroyConnections
      BY <1>0, <3>5, DestroyFlows
    <3>6. CASE \/ EmitTop \/ EmitTest \/ EmitSleep \/ EmitSpuriousWake \/ EmitLookup
               \/ OwnerStop \/ OwnerJoin \/ DestroyQueue \/ DestroyQueueCrashes \/ UNCHANGED vars
      BY <1>0, <3>6, EmitFrameFlows
    <3> QED BY <3>1, <3>2, <3>3, <3>4, <3>5, <3>6 DEF Next, EmitNext, OwnerDestroys
  <2> QED BY <2>1, <2>2
<1> QED BY <1>2, <1>3

-----------------------------------------------------------------------------
\* The messages on their way to the handler stay whole and in order.

\* A client adds to what it has sent.
LEMMA SentLonger ==
  ASSUME TypeOK, [Next]_vars, NEW c \in Conn
  PROVE  Longer(sent[c], sent'[c])
<1>1. ASSUME UNCHANGED sent PROVE Longer(sent[c], sent'[c])
  BY <1>1 DEF Longer
<1>2. ASSUME NEW d \in Conn, NEW size \in Sizes, ClientSend(d, size)
      PROVE  Longer(sent[c], sent'[c])
  <2>1. PICK t : /\ sent' = [sent EXCEPT ![d] = t] /\ sent'[d] = t /\ Longer(sent[d], t)
    BY <1>2, SendPieces
  <2>2. CASE c = d
    BY <2>1, <2>2
  <2>3. CASE c # d
    <3>1. sent'[c] = sent[c]
      BY <2>1, <2>3 DEF TypeOK, ClientTypes
    <3> QED BY <3>1 DEF Longer
  <2> QED BY <2>2, <2>3
<1>3. ASSUME NEW d \in Conn,
             ClientConnect(d) \/ ClientSendRest(d) \/ ClientSendNothing(d) \/ ClientClose(d)
      PROVE  UNCHANGED sent
  BY <1>3 DEF ClientConnect, ClientSendRest, ClientSendNothing, ClientClose, clientVars
<1>4. CASE IoNext
  BY <1>1, <1>4 DEF IoNext, IoStopped, IoCreate, IoPush, IoNoCreate, IoSkip, IoAcquire,
     IoStartRead, IoDistribute, IoSwap, IoRelease, IoScanned, IoWaitFails, IoConnectEvent,
     IoReadEvent, IoBrokenEvent, clientVars
<1>5. CASE EmitNext \/ EmitSpuriousWake \/ OwnerStop \/ OwnerDestroys
  BY <1>1, <1>5 DEF EmitNext, EmitTop, EmitTest, EmitSleep, EmitSpuriousWake, EmitLookup,
     EmitLookupMisses, EmitLookupCrashes, EmitHandle, OwnerStop, OwnerDestroys, OwnerJoin,
     DestroyConnections, DestroyQueue, DestroyQueueCrashes, ioOwned, clientVars
<1> QED BY <1>1, <1>2, <1>3, <1>4, <1>5 DEF Next, ClientNext, vars

\* A message that was read whole stays a message of its client.
LEMMA AllOfGrows ==
  ASSUME NEW c, NEW s, NEW t, NEW m, NEW w, Longer(s, t), AllOf(c, s, m, w)
  PROVE  AllOf(c, t, m, w)
BY DEF AllOf, Longer, Size, End

\* Each step keeps what was distributed whole.
LEMMA GivenIntactStep ==
  ASSUME TypeOK, Ownership, GivenIntact, Arrival, [Next]_vars
  PROVE  GivenIntact'
<1> SUFFICES ASSUME NEW o \in Obj, Given(o)'
             PROVE  /\ message'[o].connectionId \in Conn
                    /\ AllOf(message'[o].connectionId, sent'[message'[o].connectionId],
                             message'[o], message'[o].header.id)
  BY DEF GivenIntact
<1>1. CASE Given(o)
  <2>1. PICK m : m = message[o]
    OBVIOUS
  <2>2. PICK c : c = m.connectionId
    OBVIOUS
  <2>3. message'[o] = m /\ c \in Conn /\ AllOf(c, sent[c], m, m.header.id)
    BY <1>1, <2>1, <2>2, GivenStable DEF GivenIntact
  <2>4. Longer(sent[c], sent'[c])
    BY <2>3, SentLonger
  <2>5. AllOf(c, sent'[c], m, m.header.id)
    BY <2>3, <2>4, AllOfGrows
  <2> QED BY <2>2, <2>3, <2>5
<1>2. CASE Completes /\ o = ioMsg'
  <2>1. PICK c \in Conn : \E p \in Positions : Arrives(c, p)
    BY <1>2 DEF Arrival
  <2>2. PICK p \in Positions : Arrives(c, p)
    BY <2>1
  <2>3. PICK m : m = message'[o]
    OBVIOUS
  <2>4. m.connectionId = c /\ AllOf(c, sent[c], m, p[1]) /\ m.header.id = p[1]
    BY <1>2, <2>2, <2>3 DEF Arrives, AllOf
  <2>5. Longer(sent[c], sent'[c])
    BY <2>1, SentLonger
  <2>6. AllOf(c, sent'[c], m, m.header.id)
    BY <2>4, <2>5, AllOfGrows
  <2> QED BY <2>1, <2>3, <2>4, <2>6
<1> QED BY <1>1, <1>2, GivenStep

\* What a step does to the queue and to the message of the emit thread.
LEMMA QueueCases ==
  ASSUME TypeOK, [Next]_vars
  PROVE  \/ UNCHANGED <<emitMessageQueue, emitMsg>>
         \/ /\ ioPc = "Distribute" /\ emitMessageQueue' = Append(emitMessageQueue, ioMsg)
            /\ UNCHANGED <<emitMsg, ioMsg, delivered>> /\ ioPc' = "Swap"
         \/ /\ emitMessageQueue # << >> /\ emitMsg' = Head(emitMessageQueue)
            /\ emitMessageQueue' = Tail(emitMessageQueue)
         \/ emitMsg' = Null /\ UNCHANGED emitMessageQueue
         \/ emitMessageQueue' = << >> /\ UNCHANGED emitMsg
<1>1. CASE UNCHANGED vars \/ ClientNext
  BY <1>1 DEF vars, ClientNext, ClientConnect, ClientSend, ClientSendRest,
     ClientSendNothing, ClientClose, emitVars
<1>2. CASE IoNext
  BY <1>2 DEF IoNext, IoStopped, IoCreate, IoPush, IoNoCreate, IoSkip, IoAcquire,
     IoStartRead, IoDistribute, Enqueue, IoSwap, IoRelease, IoScanned, IoWaitFails, IoConnectEvent,
     IoReadEvent, IoBrokenEvent, emitVars
<1>3. CASE EmitNext \/ EmitSpuriousWake \/ OwnerStop \/ OwnerDestroys
  BY <1>3 DEF EmitNext, EmitTop, EmitTest, EmitSleep, EmitSpuriousWake, EmitLookup,
     EmitLookupMisses, EmitLookupCrashes, EmitHandle, EmitRelease, OwnerStop, OwnerDestroys,
     OwnerJoin, DestroyConnections, DestroyQueue, DestroyQueueCrashes, emitVars
<1> QED BY <1>1, <1>2, <1>3 DEF Next

\* A message starts to wait only when onRead hands it over.
LEMMA WaitingStep ==
  ASSUME TypeOK, [Next]_vars, NEW o \in Obj, Waiting(o)'
  PROVE  Waiting(o) \/ (o = ioMsg /\ ioPc = "Distribute")
<1>0. emitMessageQueue \in Seq(Obj) /\ o # Null
  BY HeldObjects DEF TypeOK, QueueTypes
<1>1. CASE UNCHANGED <<emitMessageQueue, emitMsg>>
  BY <1>1 DEF Waiting, Queued
<1>2. CASE /\ ioPc = "Distribute" /\ emitMessageQueue' = Append(emitMessageQueue, ioMsg)
           /\ UNCHANGED emitMsg
  <2>1. Queued' \subseteq Queued \cup {ioMsg}
    <3>1. ioMsg \in Obj \cup {Null}
      BY DEF TypeOK, IoTypes
    <3>2. ASSUME NEW x \in Queued' PROVE x \in Queued \/ x = ioMsg
      <4>1. PICK i \in 1..Len(emitMessageQueue') : x = emitMessageQueue'[i]
        BY <1>0, <1>2, <3>1, <3>2 DEF Queued, Range
      <4> QED BY <1>0, <1>2, <4>1 DEF Queued, Range
    <3> QED BY <3>2
  <2> QED BY <1>2, <2>1 DEF Waiting
<1>3. CASE /\ emitMessageQueue # << >> /\ emitMsg' = Head(emitMessageQueue)
           /\ emitMessageQueue' = Tail(emitMessageQueue)
  <2>1. emitMsg' \in Queued /\ Queued' \subseteq Queued
    BY <1>0, <1>3 DEF Queued, Range
  <2> QED BY <2>1 DEF Waiting
<1>4. CASE emitMsg' = Null /\ UNCHANGED emitMessageQueue
  BY <1>0, <1>4 DEF Waiting, Queued
<1>5. CASE emitMessageQueue' = << >> /\ UNCHANGED emitMsg
  <2>1. Queued' = {}
    BY <1>5 DEF Queued, Range
  <2> QED BY <1>5, <2>1 DEF Waiting
<1> QED BY <1>1, <1>2, <1>3, <1>4, <1>5, QueueCases

\* onRead goes from a complete message to its replacement.
LEMMA HandsOn ==
  ASSUME TypeOK, [Next]_vars, ioPc' \in {"Distribute", "Swap"}, ~Completes
  PROVE  /\ ioPc \in {"Distribute", "Swap"} /\ ioMsg' = ioMsg
         /\ ioPc' = "Distribute" => ioPc = "Distribute"
<1>1. ASSUME UNCHANGED <<ioPc, ioMsg>>
      PROVE  /\ ioPc \in {"Distribute", "Swap"} /\ ioMsg' = ioMsg
             /\ ioPc' = "Distribute" => ioPc = "Distribute"
  BY <1>1
<1>2. CASE UNCHANGED vars \/ ClientNext
  BY <1>1, <1>2 DEF vars, ClientNext, ClientConnect, ClientSend, ClientSendRest,
     ClientSendNothing, ClientClose, ioVars
<1>3. CASE IoNext
  <2>1. ioFrom \notin {"Distribute", "Swap"}
    BY DEF TypeOK, IoTypes
  <2>2. CASE IoStartRead \/ \E c \in Conn : IoReadEvent(c)
    <3>1. \/ ioPc' # "Swap" /\ (ioPc' = "Distribute" => ioPc # "Distribute")
          \/ UNCHANGED <<ioPc, ioMsg>>
      BY <2>2 DEF IoStartRead, StartsRead, IoReadEvent, OnRead, Accept, Reject, IoExits
    <3> QED BY <1>1, <3>1 DEF Completes
  <2>3. CASE ~(IoStartRead \/ \E c \in Conn : IoReadEvent(c))
    <3>1. \/ UNCHANGED <<ioPc, ioMsg>>
          \/ ioPc' \notin {"Distribute", "Swap"}
          \/ ioPc = "Distribute" /\ ioPc' = "Swap" /\ UNCHANGED ioMsg
      BY <1>3, <2>1, <2>3 DEF IoNext, IoStopped, IoCreate, IoPush, IoNoCreate, IoSkip, IoAcquire,
         IoDistribute, IoSwap, IoRelease, IoScanned, IoWaitFails, IoConnectEvent, IoBrokenEvent,
         IoExits, ioVars
    <3> QED BY <1>1, <3>1
  <2> QED BY <2>2, <2>3
<1>4. CASE EmitNext \/ EmitSpuriousWake \/ OwnerStop \/ OwnerDestroys
  <2>1. UNCHANGED <<ioPc, ioMsg>> \/ ioPc' = "Crashed"
    BY <1>4 DEF EmitNext, EmitTop, EmitTest, EmitSleep, EmitSpuriousWake, EmitLookup,
       EmitLookupMisses, EmitLookupCrashes, EmitHandle, OwnerStop, OwnerDestroys, OwnerJoin,
       DestroyConnections, DestroyQueue, DestroyQueueCrashes, ioOwned, ioVars
  <2> QED BY <1>1, <2>1
<1> QED BY <1>2, <1>3, <1>4 DEF Next

\* Two messages that were given away stay in order.
LEMMA BeforeKept ==
  ASSUME TypeOK, Ownership, [Next]_vars, NEW o \in Obj, NEW x \in Obj,
         Given(o), Given(x), Before(o, x)
  PROVE  Before(o, x)'
BY GivenStable DEF Before

\* The message that onRead is about to distribute is not distributed yet.
LEMMA NotWaiting ==
  ASSUME TypeOK, Ownership, ioPc = "Distribute"
  PROVE  ioMsg \in Obj /\ Given(ioMsg) /\ ~Waiting(ioMsg)
BY HeldObjects DEF TypeOK, IoTypes, Ownership, IoMsgHeld, Distributing, ReadApart, Waiting, Given

\* What is in the queue are Message objects that were given away.
LEMMA QueueTypesOf ==
  ASSUME TypeOK
  PROVE  /\ emitMessageQueue \in Seq(Obj) /\ Len(emitMessageQueue) \in Nat
         /\ \A i \in 1..Len(emitMessageQueue) :
              /\ emitMessageQueue[i] \in Obj /\ emitMessageQueue[i] \in Queued
              /\ Given(emitMessageQueue[i])
         /\ Queued \subseteq Obj
BY DEF TypeOK, QueueTypes, Queued, Given, Range

\* push_back and pop_front keep the messages of a client in order in the queue.
LEMMA QueueOrderedStep ==
  ASSUME TypeOK, Ownership, Ordered, [Next]_vars
  PROVE  QueueOrdered'
<1> DEFINE q == emitMessageQueue
<1>0. /\ q \in Seq(Obj) /\ Len(q) \in Nat
      /\ \A i \in 1..Len(q) : q[i] \in Obj /\ q[i] \in Queued /\ Given(q[i])
  BY QueueTypesOf
<1>1. ASSUME NEW i \in 1..Len(q), NEW j \in 1..Len(q), i < j PROVE Before(q[i], q[j])
  BY <1>1 DEF Ordered, QueueOrdered
<1>2. ASSUME NEW i \in 1..Len(q), NEW j \in 1..Len(q), i < j, NEW o, NEW x, o = q[i], x = q[j]
      PROVE  Before(o, x)'
  <2>1. o \in Obj /\ x \in Obj /\ Given(o) /\ Given(x)
    BY <1>0, <1>2
  <2>2. Before(o, x)
    BY <1>1, <1>2
  <2> QED BY <2>1, <2>2, BeforeKept
<1> SUFFICES ASSUME NEW i \in 1..Len(q'), NEW j \in 1..Len(q'), i < j,
                    NEW o, NEW x, o = q'[i], x = q'[j]
             PROVE  Before(o, x)'
  BY DEF QueueOrdered, Before
<1>3. CASE q' = q
  BY <1>2, <1>3
<1>4. CASE ioPc = "Distribute" /\ q' = Append(q, ioMsg)
  <2>1. ioMsg \in Obj /\ Given(ioMsg) /\ ~Waiting(ioMsg)
    BY <1>4, NotWaiting
  <2>2. Len(q') = Len(q) + 1 /\ q'[Len(q) + 1] = ioMsg /\ \A k \in 1..Len(q) : q'[k] = q[k]
    BY <1>0, <1>4, <2>1
  <2>3. i \in 1..Len(q)
    BY <1>0, <2>2
  <2>4. CASE j \in 1..Len(q)
    BY <1>2, <2>2, <2>3, <2>4
  <2>5. CASE j \notin 1..Len(q)
    <3>1. x = ioMsg /\ o = q[i]
      BY <1>0, <2>2, <2>3, <2>5
    <3>2. o \in Obj /\ Given(o) /\ Waiting(o) /\ o # ioMsg
      BY <1>0, <2>1, <2>3, <3>1 DEF Waiting
    <3>3. Before(o, x)
      BY <1>4, <3>1, <3>2 DEF Ordered, IoLast
    <3> QED BY <2>1, <3>1, <3>2, <3>3, BeforeKept
  <2> QED BY <2>4, <2>5
<1>5. CASE q # << >> /\ q' = Tail(q)
  <2>1. Len(q') = Len(q) - 1 /\ q'[i] = q[i + 1] /\ q'[j] = q[j + 1]
    BY <1>0, <1>5
  <2>2. i + 1 \in 1..Len(q) /\ j + 1 \in 1..Len(q) /\ i + 1 < j + 1
    BY <1>0, <2>1
  <2> QED BY <1>2, <2>1, <2>2
<1>6. CASE q' = << >>
  BY <1>6
<1> QED BY <1>3, <1>4, <1>5, <1>6, QueueCases

\* The emit thread has a message that comes before those in the queue.
LEMMA EmitFirstStep ==
  ASSUME TypeOK, Ownership, Ordered, [Next]_vars
  PROVE  EmitFirst'
<1> DEFINE q == emitMessageQueue
<1>0. /\ q \in Seq(Obj) /\ Len(q) \in Nat /\ Queued \subseteq Obj
      /\ \A i \in 1..Len(q) : q[i] \in Obj /\ q[i] \in Queued /\ Given(q[i])
      /\ emitMsg \in Obj \cup {Null}
  BY QueueTypesOf DEF TypeOK, EmitTypes
<1> SUFFICES ASSUME NEW o, NEW x, o = emitMsg', o # Null, x \in Queued'
             PROVE  Before(o, x)'
  BY DEF EmitFirst, Before
<1>1. ASSUME emitMsg' = emitMsg, x \in Queued PROVE Before(o, x)'
  <2>1. o \in Obj /\ x \in Obj /\ Given(o) /\ Given(x)
    BY <1>0, <1>1 DEF Given
  <2>2. Before(o, x)
    BY <1>1 DEF Ordered, EmitFirst
  <2> QED BY <2>1, <2>2, BeforeKept
<1>2. CASE UNCHANGED <<emitMessageQueue, emitMsg>>
  BY <1>1, <1>2 DEF Queued
<1>3. CASE ioPc = "Distribute" /\ q' = Append(q, ioMsg) /\ UNCHANGED emitMsg
  <2>1. ioMsg \in Obj /\ Given(ioMsg) /\ ~Waiting(ioMsg)
    BY <1>3, NotWaiting
  <2>2. x \in Queued \/ x = ioMsg
    <3>1. PICK i \in 1..Len(q') : x = q'[i]
      BY <1>0, <1>3, <2>1 DEF Queued, Range
    <3> QED BY <1>0, <1>3, <2>1, <3>1 DEF Queued, Range
  <2>3. CASE x = ioMsg
    <3>1. o \in Obj /\ Given(o) /\ Waiting(o) /\ o # ioMsg
      BY <1>0, <1>3, <2>1 DEF Waiting, Given
    <3>2. Before(o, x)
      BY <1>3, <2>3, <3>1 DEF Ordered, IoLast
    <3> QED BY <2>1, <2>3, <3>1, <3>2, BeforeKept
  <2> QED BY <1>1, <1>3, <2>2, <2>3
<1>4. CASE q # << >> /\ emitMsg' = Head(q) /\ q' = Tail(q)
  <2>1. Len(q') = Len(q) - 1 /\ \A i \in 1..Len(q') : q'[i] = q[i + 1]
    BY <1>0, <1>4
  <2>2. PICK i \in 1..Len(q') : x = q'[i]
    BY <1>0, <1>4 DEF Queued, Range
  <2>3. 1 \in 1..Len(q) /\ i + 1 \in 1..Len(q) /\ 1 < i + 1 /\ o = q[1] /\ x = q[i + 1]
    BY <1>0, <1>4, <2>1, <2>2
  <2>4. Before(o, x)
    BY <2>3 DEF Ordered, QueueOrdered
  <2>5. o \in Obj /\ x \in Obj /\ Given(o) /\ Given(x)
    BY <1>0, <2>3
  <2> QED BY <2>4, <2>5, BeforeKept
<1>5. CASE q' = << >>
  BY <1>5 DEF Queued, Range
<1> QED BY <1>2, <1>3, <1>4, <1>5, QueueCases

\* What the handler is given is an id and bytes.
LEMMA HandedOverTypes ==
  ASSUME NEW m \in Messages, m.header.size <= Len(m.data)
  PROVE  HandedOver(m) \in [id : Nat, data : Seq(Byte)]
<1>1. m.header.id \in Nat /\ m.header.size \in Nat /\ m.data \in Seq(Byte)
  BY SizeAssumption DEF Messages, Headers, SizeType
<1>2. SubSeq(m.data, 1, m.header.size) \in Seq(Byte)
  BY <1>1
<1> QED BY <1>1, <1>2 DEF HandedOver

\* What was given to the handler, and what the handler is given now.
LEMMA DeliveredCases ==
  ASSUME TypeOK, [Next]_vars
  PROVE  \/ delivered' = delivered
         \/ /\ EmitHandle /\ emitPc = "Handle"
            /\ delivered' = [delivered EXCEPT ![message[emitMsg].connectionId] =
                               Append(@, HandedOver(message[emitMsg]))]
            /\ emitMsg' = Null /\ UNCHANGED <<emitMessageQueue, ioPc, ioMsg, message, sent>>
<1>1. CASE UNCHANGED vars \/ ClientNext
  BY <1>1 DEF vars, ClientNext, ClientConnect, ClientSend, ClientSendRest,
     ClientSendNothing, ClientClose, emitVars
<1>2. CASE IoNext
  BY <1>2 DEF IoNext, IoStopped, IoCreate, IoPush, IoNoCreate, IoSkip, IoAcquire,
     IoStartRead, IoDistribute, IoSwap, IoRelease, IoScanned, IoWaitFails, IoConnectEvent,
     IoReadEvent, IoBrokenEvent, emitVars
<1>3. CASE EmitHandle
  BY <1>3 DEF EmitHandle, EmitRelease, ioOwned, ioVars, clientVars
<1>4. CASE (EmitNext /\ ~EmitHandle) \/ EmitSpuriousWake \/ OwnerStop \/ OwnerDestroys
  BY <1>4 DEF EmitNext, EmitTop, EmitTest, EmitSleep, EmitSpuriousWake, EmitLookup,
     EmitLookupMisses, EmitLookupCrashes, OwnerStop, OwnerDestroys,
     OwnerJoin, DestroyConnections, DestroyQueue, DestroyQueueCrashes, emitVars
<1> QED BY <1>1, <1>2, <1>3, <1>4 DEF Next

\* What Arrival says when onRead completes a message.
LEMMA ArrivalParts ==
  ASSUME TypeOK, Arrival, Completes
  PROVE  \E c \in Conn : \E w \in Nat :
           /\ message'[ioMsg'].connectionId = c /\ message'[ioMsg'].header.id = w
           /\ \A o \in Obj : Given(o) /\ message[o].connectionId = c => message[o].header.id < w
           /\ \A i \in 1..Len(delivered[c]) : delivered[c][i].id < w
<1>1. PICK c \in Conn, p \in Positions : Arrives(c, p)
  BY DEF Arrival
<1>2. p[1] \in Nat
  BY DEF Positions
<1> QED BY <1>1, <1>2 DEF Arrives, AllOf, Passed

\* onRead completes a message that comes behind those that wait for the handler.
LEMMA IoLastStep ==
  ASSUME TypeOK, Ownership, Ordered, Arrival, [Next]_vars
  PROVE  IoLast'
<1> SUFFICES ASSUME ioPc' \in {"Distribute", "Swap"}, NEW o \in Obj, Waiting(o)', o # ioMsg',
                    NEW x, x = ioMsg'
             PROVE  Before(o, x)'
  BY DEF IoLast, Before
<1>1. Waiting(o) \/ (o = ioMsg /\ ioPc = "Distribute")
  BY WaitingStep
<1>2. CASE Completes
  <2>1. Waiting(o) /\ Given(o)
    BY <1>1, <1>2 DEF Completes, Waiting, Given
  <2>2. PICK m : m = message[o]
    OBVIOUS
  <2>3. message'[o] = m
    BY <2>1, <2>2, GivenStable
  <2>4. PICK c \in Conn, w \in Nat :
           /\ message'[ioMsg'].connectionId = c /\ message'[ioMsg'].header.id = w
           /\ \A y \in Obj : Given(y) /\ message[y].connectionId = c => message[y].header.id < w
    BY <1>2, ArrivalParts
  <2>5. m.connectionId = c => m.header.id < w
    BY <2>1, <2>2, <2>4
  <2> QED BY <2>3, <2>4, <2>5 DEF Before
<1>3. CASE ~Completes
  <2>1. ioPc \in {"Distribute", "Swap"} /\ x = ioMsg
    BY <1>3, HandsOn
  <2>2. Waiting(o) /\ o # ioMsg /\ Given(o)
    BY <1>1, <2>1 DEF Waiting, Given
  <2>3. x \in Obj /\ Given(x)
    BY <2>1, HeldObjects DEF TypeOK, IoTypes, Ownership, IoMsgHeld, Distributing, Given
  <2>4. Before(o, x)
    BY <2>1, <2>2 DEF Ordered, IoLast
  <2> QED BY <2>2, <2>3, <2>4, BeforeKept
<1> QED BY <1>2, <1>3

\* The handler is not given a message twice, and not one after its successor.
LEMMA HandledBefore ==
  ASSUME TypeOK, Ownership, GivenIntact, Ordered, emitPc = "Handle",
         NEW o \in Obj, o \in Queued \/ (o = ioMsg /\ ioPc = "Distribute")
  PROVE  emitMsg \in Obj /\ Given(emitMsg) /\ Waiting(emitMsg) /\ Before(emitMsg, o)
<1>1. emitMsg \in Obj /\ emitMsg # Null
  BY HeldObjects DEF TypeOK, EmitTypes, Ownership, EmitMsgHeld
<1>2. CASE o \in Queued
  BY <1>1, <1>2 DEF Ordered, EmitFirst, Given, Waiting
<1>3. CASE o = ioMsg /\ ioPc = "Distribute"
  BY <1>1, <1>3, NotWaiting DEF Ordered, IoLast, Given, Waiting
<1> QED BY <1>2, <1>3

\* What waits for the handler comes behind what the handler was given.
LEMMA DeliveredFirstStep ==
  ASSUME IInv, GivenIntact, Ordered, Arrival, [Next]_vars
  PROVE  DeliveredFirst'
<1> SUFFICES ASSUME NEW o \in Obj, (Waiting(o) \/ (o = ioMsg /\ ioPc = "Distribute"))',
                    NEW c, c = message'[o].connectionId, NEW i \in 1..Len(delivered'[c])
             PROVE  delivered'[c][i].id < message'[o].header.id
  BY DEF DeliveredFirst
<1>0. TypeOK /\ Ownership /\ Whole
  BY DEF IInv
<1>1. CASE Completes /\ o = ioMsg'
  <2>1. delivered' = delivered
    <3>1. ~EmitHandle
      BY <1>1 DEF Completes, EmitHandle, ioOwned, ioVars
    <3> QED BY <3>1, <1>0, DeliveredCases
  <2> QED BY <1>1, <2>1, <1>0, ArrivalParts
<1>2. CASE ~(Completes /\ o = ioMsg')
  <2>1. Waiting(o) \/ (o = ioMsg /\ ioPc = "Distribute")
    <3>1. CASE Waiting(o)'
      BY <3>1, <1>0, WaitingStep
    <3>2. CASE (o = ioMsg /\ ioPc = "Distribute")'
      BY <1>2, <3>2, <1>0, HandsOn
    <3> QED BY <3>1, <3>2
  <2>2. Given(o)
    BY <2>1 DEF Waiting, Given
  <2>3. PICK m : m = message[o]
    OBVIOUS
  <2>4. message'[o] = m /\ m.connectionId = c
    BY <2>2, <2>3, <1>0, GivenStable
  <2>5. \A k \in 1..Len(delivered[c]) : delivered[c][k].id < m.header.id
    BY <2>1, <2>3, <2>4 DEF Ordered, DeliveredFirst
  <2>6. CASE delivered' = delivered
    BY <2>4, <2>5, <2>6
  <2>7. CASE /\ emitPc = "Handle" /\ emitMsg' = Null
             /\ delivered' = [delivered EXCEPT ![message[emitMsg].connectionId] =
                                Append(@, HandedOver(message[emitMsg]))]
             /\ UNCHANGED <<emitMessageQueue, ioPc, ioMsg>>
    <3>1. o \in Queued \/ (o = ioMsg /\ ioPc = "Distribute")
      <4>1. o # Null
        BY <1>0, HeldObjects
      <4> QED BY <2>7, <4>1 DEF Waiting, Queued
    <3>2. emitMsg \in Obj /\ Given(emitMsg) /\ Before(emitMsg, o)
      BY <2>7, <3>1, <1>0, HandledBefore
    <3>3. PICK x : x = message[emitMsg]
      OBVIOUS
    <3>4. x.connectionId \in Conn
      BY <3>2, <3>3 DEF GivenIntact
    <3>5. PICK e : e = HandedOver(x)
      OBVIOUS
    <3>6. e.id = x.header.id
      BY <3>5 DEF HandedOver
    <3>7. /\ delivered \in [Conn -> Seq([id : Nat, data : Seq(Byte)])]
          /\ e \in [id : Nat, data : Seq(Byte)]
      <4>1. x \in Messages
        BY <1>0, <3>2, <3>3 DEF TypeOK, StoreTypes
      <4>2. x.header.size <= Len(x.data)
        BY <1>0, <3>2, <3>3 DEF Whole, Sound
      <4> QED BY <1>0, <3>5, <4>1, <4>2, HandedOverTypes DEF TypeOK, EmitTypes
    <3>8. delivered' = [delivered EXCEPT ![x.connectionId] = Append(@, e)]
      BY <2>7, <3>3, <3>5
    <3>9. CASE c = x.connectionId
      <4>1. c \in Conn /\ delivered'[c] = Append(delivered[c], e)
            /\ delivered[c] \in Seq([id : Nat, data : Seq(Byte)])
        BY <3>4, <3>7, <3>8, <3>9
      <4>2. x.header.id < m.header.id
        BY <2>3, <2>4, <3>2, <3>3, <3>9 DEF Before
      <4>3. CASE i \in 1..Len(delivered[c])
        <5>1. delivered'[c][i] = delivered[c][i]
          BY <3>7, <4>1, <4>3
        <5> QED BY <2>4, <2>5, <4>3, <5>1
      <4>4. CASE i \notin 1..Len(delivered[c])
        <5>1. PICK r : r = delivered[c]
          OBVIOUS
        <5>2. PICK S : S = [id : Nat, data : Seq(Byte)]
          OBVIOUS
        <5>3. r \in Seq(S) /\ e \in S /\ delivered'[c] = Append(r, e)
          BY <3>7, <4>1, <5>1, <5>2
        <5>4. Len(Append(r, e)) = Len(r) + 1 /\ Append(r, e)[Len(r) + 1] = e
          BY <5>3
        <5>5. i = Len(r) + 1
          BY <4>4, <5>1, <5>3, <5>4
        <5>6. delivered'[c][i] = e
          BY <5>3, <5>4, <5>5
        <5> QED BY <2>4, <3>6, <4>2, <5>6
      <4> QED BY <4>3, <4>4
    <3>10. CASE c # x.connectionId
      <4>1. c \in Conn
        BY <2>2, <2>3, <2>4 DEF GivenIntact
      <4>2. delivered'[c] = delivered[c]
        BY <3>7, <3>8, <3>10, <4>1
      <4> QED BY <2>4, <2>5, <4>2
    <3> QED BY <3>9, <3>10
  <2> QED BY <2>6, <2>7, <1>0, DeliveredCases
<1> QED BY <1>1, <1>2

-----------------------------------------------------------------------------
\* What the handler gets is what the clients sent.

\* A whole message that is handed over is the message its client sent.
LEMMA HandedOverSent ==
  ASSUME NEW c \in Nat, NEW s, MessageList(s),
         NEW w, w \in 1..Len(s), s[w] = [id |-> w, data |-> Payload(c, w, Size(s, w))],
         NEW m, AllOf(c, s, m, w)
  PROVE  HandedOver(m) = s[w] /\ HandedOver(m) \in Range(s)
<1>0. s \in Seq(SentMessages)
  BY DEF MessageList
<1>1. /\ w \in Nat /\ Size(s, w) \in Nat /\ End(s, w) = MessageHeaderSize + Size(s, w)
      /\ s[w].data \in Seq(Byte) /\ Size(s, w) = Len(s[w].data)
  BY <1>0, SizeTypes DEF Size
<1>2. PICK n \in Nat : n = Size(s, w)
  BY <1>1
<1>3. PICK d : d = Payload(c, w, n)
  OBVIOUS
<1>4. s[w] = [id |-> w, data |-> d] /\ s[w].data = d
  <2>1. s[w] = [id |-> w, data |-> d]
    BY <1>2, <1>3
  <2> QED BY <2>1
<1>5. m.header.id = w /\ m.header.size = Len(d) /\ m.data = d /\ d \in Seq(Byte)
  <2>1. m.header.id = w /\ m.header.size = n
        /\ m.data = Bytes(c, w, MessageHeaderSize, MessageHeaderSize + n)
    BY <1>1, <1>2 DEF AllOf
  <2>2. d = Bytes(c, w, MessageHeaderSize, MessageHeaderSize + n)
    BY <1>1, <1>2, <1>3, BytesOfMessage
  <2>3. n = Len(d) /\ d \in Seq(Byte)
    BY <1>1, <1>2, <1>4
  <2> QED BY <2>1, <2>2, <2>3
<1>6. SubSeq(d, 1, Len(d)) = d
  BY <1>5
<1>7. HandedOver(m) = s[w]
  BY <1>4, <1>5, <1>6 DEF HandedOver
<1> QED BY <1>0, <1>7 DEF Range

\* Each step hands over what was sent, behind what was handed over before.
LEMMA DeliveredStep ==
  ASSUME IInv, Sending, GivenIntact, Ordered, DeliveredIntact, [Next]_vars
  PROVE  DeliveredIntact'
<1>0. TypeOK /\ Ownership /\ Whole
  BY DEF IInv
<1>1. ASSUME NEW c \in Conn PROVE Range(sent[c]) \subseteq Range(sent'[c])
  <2>1. Longer(sent[c], sent'[c])
    BY <1>0, SentLonger
  <2>2. IInv'
    BY NextIInv
  <2>3. sent[c] \in Seq(SentMessages) /\ sent'[c] \in Seq(SentMessages)
    BY <1>0, <2>2 DEF IInv, TypeOK, ClientTypes
  <2>4. ASSUME NEW x \in Range(sent[c]) PROVE x \in Range(sent'[c])
    <3>1. PICK i \in 1..Len(sent[c]) : x = sent[c][i]
      BY <2>3, <2>4 DEF Range
    <3>2. i \in 1..Len(sent'[c]) /\ sent'[c][i] = x
      BY <2>1, <3>1 DEF Longer
    <3> QED BY <2>3, <3>2 DEF Range
  <2> QED BY <2>4
<1>2. CASE delivered' = delivered
  BY <1>1, <1>2 DEF DeliveredIntact
<1>3. CASE /\ emitPc = "Handle" /\ sent' = sent
           /\ delivered' = [delivered EXCEPT ![message[emitMsg].connectionId] =
                              Append(@, HandedOver(message[emitMsg]))]
  <2>1. emitMsg \in Obj /\ Given(emitMsg) /\ Waiting(emitMsg)
    BY <1>0, <1>3, HeldObjects
       DEF TypeOK, EmitTypes, Ownership, EmitMsgHeld, Given, Waiting
  <2>2. PICK m : m = message[emitMsg]
    OBVIOUS
  <2>3. PICK c : c = m.connectionId
    OBVIOUS
  <2>4. PICK w : w = m.header.id
    OBVIOUS
  <2>5. c \in Conn /\ AllOf(c, sent[c], m, w) /\ m \in Messages /\ m.header.size <= Len(m.data)
    BY <1>0, <2>1, <2>2, <2>3, <2>4 DEF GivenIntact, TypeOK, StoreTypes, Whole, Sound
  <2>6. PICK e : e = HandedOver(m)
    OBVIOUS
  <2>7. PICK S : S = [id : Nat, data : Seq(Byte)]
    OBVIOUS
  <2>8. PICK r : r = delivered[c]
    OBVIOUS
  <2>9. e \in S /\ r \in Seq(S) /\ delivered \in [Conn -> Seq(S)] /\ e.id = w
    <3>1. e \in S
      BY <2>5, <2>6, <2>7, HandedOverTypes
    <3>2. delivered \in [Conn -> Seq(S)]
      BY <1>0, <2>7 DEF TypeOK, EmitTypes
    <3>3. e.id = w
      BY <2>4, <2>6 DEF HandedOver
    <3> QED BY <2>5, <2>8, <3>1, <3>2, <3>3
  <2>10. delivered'[c] = Append(r, e) /\ \A d \in Conn : d # c => delivered'[d] = delivered[d]
    BY <1>3, <2>2, <2>3, <2>5, <2>6, <2>8, <2>9
  <2>11. e \in Range(sent[c])
    <3>1. c \in Nat /\ MessageList(sent[c])
      BY <1>0, <2>5, ConnectionTypes
    <3>2. w \in 1..Len(sent[c])
      BY <2>5 DEF AllOf
    <3>3. sent[c][w] = [id |-> w, data |-> Payload(c, w, Size(sent[c], w))]
      BY <2>5, <3>2 DEF Sending, SentInOrder
    <3> QED BY <2>5, <2>6, <3>1, <3>2, <3>3, HandedOverSent
  <2>12. \A i \in 1..Len(r) : r[i].id < w
    BY <2>1, <2>2, <2>3, <2>4, <2>8 DEF Ordered, DeliveredFirst
  <2>13. /\ Len(r) \in Nat /\ Len(Append(r, e)) = Len(r) + 1 /\ Append(r, e)[Len(r) + 1] = e
         /\ \A i \in 1..Len(r) : Append(r, e)[i] = r[i]
    BY <2>9
  <2>14. PICK t : t = Append(r, e)
    OBVIOUS
  <2>15. ASSUME NEW i \in 1..Len(t)
         PROVE  t[i] \in Range(sent[c]) /\ \A j \in 1..(i - 1) : t[j].id < t[i].id
    <3>1. CASE i \in 1..Len(r)
      <4>1. t[i] = r[i] /\ \A j \in 1..(i - 1) : j \in 1..Len(r) /\ t[j] = r[j]
        BY <2>13, <2>14, <3>1
      <4>2. r[i] \in Range(sent[c]) /\ \A j \in 1..(i - 1) : r[j].id < r[i].id
        BY <2>5, <2>8, <3>1 DEF DeliveredIntact
      <4> QED BY <4>1, <4>2
    <3>2. CASE i \notin 1..Len(r)
      <4>1. i = Len(r) + 1 /\ t[i] = e
        BY <2>13, <2>14, <2>15, <3>2
      <4>2. \A j \in 1..(i - 1) : j \in 1..Len(r) /\ t[j] = r[j]
        BY <2>13, <2>14, <4>1
      <4> QED BY <2>9, <2>11, <2>12, <4>1, <4>2
    <3> QED BY <3>1, <3>2
  <2>16. ASSUME NEW d \in Conn, NEW i \in 1..Len(delivered'[d])
         PROVE  /\ delivered'[d][i] \in Range(sent'[d])
                /\ \A j \in 1..(i - 1) : delivered'[d][j].id < delivered'[d][i].id
    <3>1. CASE d = c
      BY <1>3, <2>10, <2>14, <2>15, <2>16, <3>1
    <3>2. CASE d # c
      BY <1>3, <2>10, <2>16, <3>2 DEF DeliveredIntact
    <3> QED BY <3>1, <3>2
  <2> QED BY <2>16 DEF DeliveredIntact
<1> QED BY <1>0, <1>2, <1>3, DeliveredCases

\* Before the first message each client is at its beginning.
LEMMA InitFlows ==
  ASSUME Init, NEW c \in Conn
  PROVE  Flows(c, <<1, 0>>)
<1>1. /\ sent[c] = << >> /\ unwritten[c] = << >> /\ pipe[c] = << >> /\ readIO[c] = "Idle"
      /\ readMessage[c] = Null /\ messagePool[c] = << >> /\ delivered[c] = << >>
      /\ ioPc = "Top"
  BY DEF Init
<1>2. WriteEnd(c) = <<1, 0>>
  BY <1>1 DEF WriteEnd
<1>3. Streaming(c, sent[c], <<1, 0>>, WriteEnd(c))
  BY <1>1, <1>2 DEF Streaming, Fetched, Chain, ChainEnd
<1>4. Receiving(c, sent[c], <<1, 0>>)
  BY <1>1 DEF Receiving, Complete, Stale
<1>5. \A o \in Obj : ~Given(o)
  <2>1. \A o \in Obj : o # Null
    BY ServerAssumption DEF Obj, Null
  <2> QED BY <2>1 DEF Init, Given, Queued, Range
<1>6. Passed(c, <<1, 0>>)
  BY <1>5, <1>1 DEF Passed
<1> QED BY <1>3, <1>4, <1>6 DEF Flows

\* Nothing was sent yet.
LEMMA InitOrderly == Init => Orderly /\ DeliveredIntact
<1> SUFFICES ASSUME Init PROVE Orderly /\ DeliveredIntact
  OBVIOUS
<1>1. Homes
  BY DEF Init, Homes, Pooled, Range
<1>2. Sending
  BY DEF Init, Sending, SentInOrder, RestKnown, Silent
<1>3. Bounded
  BY ServerAssumption DEF Init, Bounded
<1>4. \A o \in Obj : ~Given(o) /\ ~Waiting(o)
  <2>1. \A o \in Obj : o # Null
    BY ServerAssumption DEF Obj, Null
  <2> QED BY <2>1 DEF Init, Given, Waiting, Queued, Range
<1>5. GivenIntact
  BY <1>4 DEF GivenIntact
<1>6. Ordered
  BY <1>4 DEF Init, Ordered, QueueOrdered, EmitFirst, IoLast, DeliveredFirst
<1>7. ASSUME NEW c \in Conn PROVE Flows(c, <<1, 0>>)
  BY InitFlows
<1>8. <<1, 0>> \in Positions
  BY DEF Positions
<1>9. Flowing
  BY <1>7, <1>8 DEF Flowing
<1>10. DeliveredIntact
  BY DEF Init, DeliveredIntact
<1> QED BY <1>1, <1>2, <1>3, <1>5, <1>6, <1>9, <1>10 DEF Orderly

\* Each step keeps the order.
LEMMA OrderlyStep ==
  ASSUME Settled, Orderly, DeliveredIntact, "empty" \notin Events, MaxSends <= 2,
         [Next]_vars
  PROVE  Orderly' /\ DeliveredIntact'
<1>0. /\ IInv /\ Instances /\ TypeOK /\ Ownership
      /\ Homes /\ Sending /\ Bounded /\ GivenIntact /\ Ordered
  BY DEF Settled, Orderly, IInv
<1>1. Flowing' /\ Arrival
  BY FlowingStep, FlowingOn DEF Orderly
<1>2. Homes' /\ Sending' /\ Bounded'
  BY <1>0, HomesStep, SendingStep, BoundedStep
<1>3. GivenIntact'
  BY <1>0, <1>1, GivenIntactStep
<1>4. Ordered'
  BY <1>0, <1>1, QueueOrderedStep, EmitFirstStep, IoLastStep, DeliveredFirstStep DEF Ordered
<1>5. DeliveredIntact'
  BY <1>0, DeliveredStep
<1> QED BY <1>1, <1>2, <1>3, <1>4, <1>5 DEF Orderly

\* What the other theorems say of the server holds throughout.
LEMMA SettledHolds == Spec => []Settled
BY IInvHolds, InstancesHold, StartedHold, RoomHolds, PTL DEF Settled

\* Clients that send at most two messages each never see a message again that
\* was read completely: what they sent is handed over intact.
THEOREM DeliveredIntactHolds ==
  ASSUME "empty" \notin Events, MaxSends <= 2
  PROVE  Spec => []DeliveredIntact
<1>1. Settled /\ Orderly /\ DeliveredIntact /\ [Next]_vars => Orderly' /\ DeliveredIntact'
  BY OrderlyStep
<1> QED BY <1>1, InitOrderly, SettledHolds, PTL DEF Spec

-----------------------------------------------------------------------------
\* No message is lost on its way to the handler.

\* What the handler is going to be given next: what waits for it, and what onRead
\* is about to distribute.
Coming(o) == Waiting(o) \/ (o = ioMsg /\ ioPc = "Distribute")

\* The handler was given message v of client c, or is going to be.
Accounted(c, v) ==
  \/ \E i \in 1..Len(delivered[c]) : delivered[c][i].id = v
  \/ \E o \in Obj : /\ Coming(o)
                    /\ message[o].connectionId = c /\ message[o].header.id = v

\* That holds of every message that was read up to position p.
NoneLost(c, p) == \A v \in 1..(p[1] - 1) : Accounted(c, v)

\* As long as the server is there no message is missing between what the handler
\* was given and what is being read.
Gapless ==
  ~Gone => \A c \in Conn : \E p \in Positions : Flows(c, p) /\ NoneLost(c, p)

\* The emit thread has a message only while it looks its connection up and
\* handles it, and a crash takes the emit thread with it.
EmitStates ==
  /\ emitPc \notin {"Lookup", "Handle", "Crashed"} => emitMsg = Null
  /\ ownerPc = "Crashed" => emitPc = "Crashed"

\* Each step of the emit thread keeps that.
LEMMA EmitStatesStep ==
  ASSUME TypeOK, EmitStates, [Next]_vars
  PROVE  EmitStates'
<1>1. ASSUME UNCHANGED <<emitPc, emitMsg, ownerPc>> PROVE EmitStates'
  BY <1>1 DEF EmitStates
<1>2. CASE UNCHANGED vars \/ ClientNext
  BY <1>1, <1>2 DEF vars, ClientNext, ClientConnect, ClientSend, ClientSendRest,
     ClientSendNothing, ClientClose, emitVars
<1>3. CASE IoNext /\ ~IoDistribute
  BY <1>1, <1>3 DEF IoNext, IoStopped, IoCreate, IoPush, IoNoCreate, IoSkip, IoAcquire,
     IoStartRead, IoSwap, IoRelease, IoScanned, IoWaitFails, IoConnectEvent,
     IoReadEvent, IoBrokenEvent, emitVars
<1>4. CASE IoDistribute
  BY <1>4 DEF IoDistribute, EmitStates
<1>5. CASE EmitNext \/ EmitSpuriousWake
  BY <1>5 DEF EmitNext, EmitTop, EmitTest, EmitSleep, EmitSpuriousWake, EmitLookup,
     EmitLookupMisses, EmitLookupCrashes, LookupRaces, EmitHandle, EmitRelease, EmitStates
<1>6. CASE OwnerStop \/ OwnerDestroys
  BY <1>6 DEF OwnerStop, OwnerDestroys, OwnerJoin, DestroyConnections, DestroyQueue,
     DestroyQueueCrashes, emitVars, EmitStates
<1> QED BY <1>2, <1>3, <1>4, <1>5, <1>6 DEF Next

\* What comes to the handler goes on coming until it is handled, unless a lookup
\* misses its connection or the server goes.
LEMMA ComingStep ==
  ASSUME TypeOK, EmitStates, [Next]_vars, ~EmitLookupMisses, ~Gone',
         NEW o \in Obj, Coming(o)
  PROVE  Coming(o)' \/ (EmitHandle /\ o = emitMsg)
<1>0. emitMessageQueue \in Seq(Obj) /\ o # Null /\ ioMsg \in Obj \cup {Null}
  BY HeldObjects DEF TypeOK, QueueTypes, IoTypes
<1>1. ASSUME UNCHANGED <<emitMessageQueue, emitMsg, ioMsg, ioPc>> PROVE Coming(o)'
  BY <1>1 DEF Coming, Waiting, Queued
<1>2. CASE UNCHANGED vars \/ ClientNext
  BY <1>1, <1>2 DEF vars, ClientNext, ClientConnect, ClientSend, ClientSendRest,
     ClientSendNothing, ClientClose, ioVars, emitVars
<1>3. CASE IoDistribute
  <2>1. emitMessageQueue' = Append(emitMessageQueue, ioMsg) /\ emitMsg' = emitMsg
    BY <1>3 DEF IoDistribute, Enqueue
  <2>2. ASSUME NEW x \in Obj, x \in Queued \/ x = ioMsg PROVE x \in Queued'
    <3>1. CASE x \in Queued
      <4>1. PICK i \in 1..Len(emitMessageQueue) : x = emitMessageQueue[i]
        BY <1>0, <3>1 DEF Queued, Range
      <4>2. i \in 1..Len(emitMessageQueue') /\ emitMessageQueue'[i] = x
        BY <1>0, <2>1, <4>1
      <4> QED BY <1>0, <2>1, <4>2 DEF Queued, Range
    <3>2. CASE x = ioMsg
      <4>1. PICK i : i = Len(emitMessageQueue) + 1
        OBVIOUS
      <4>2. i \in 1..Len(emitMessageQueue') /\ emitMessageQueue'[i] = x
        BY <1>0, <2>1, <2>2, <3>2, <4>1
      <4> QED BY <1>0, <2>1, <4>2 DEF Queued, Range
    <3> QED BY <2>2, <3>1, <3>2
  <2> QED BY <2>1, <2>2 DEF Coming, Waiting
<1>4. CASE IoNext /\ ~IoDistribute
  <2>1. ioPc # "Distribute" /\ UNCHANGED <<emitMessageQueue, emitMsg>>
    BY <1>4 DEF IoNext, IoStopped, IoCreate, IoPush, IoNoCreate, IoSkip, IoAcquire,
       IoStartRead, StartsRead, IoSwap, IoRelease, IoScanned, IoWaitFails, IoConnectEvent,
       IoReadEvent, IoBrokenEvent, emitVars
  <2> QED BY <2>1 DEF Coming, Waiting, Queued
<1>5. CASE EmitTest
  <2>1. UNCHANGED <<ioPc, ioMsg>> /\ emitMsg = Null
    BY <1>5 DEF EmitTest, ioOwned, ioVars, EmitStates
  <2>2. \/ UNCHANGED <<emitMessageQueue, emitMsg>>
        \/ /\ emitMessageQueue # << >> /\ emitMsg' = Head(emitMessageQueue)
           /\ emitMessageQueue' = Tail(emitMessageQueue)
    BY <1>5 DEF EmitTest
  <2>3. ASSUME emitMessageQueue # << >>, emitMsg' = Head(emitMessageQueue),
               emitMessageQueue' = Tail(emitMessageQueue), o \in Queued
        PROVE  Waiting(o)'
    <3>1. PICK i \in 1..Len(emitMessageQueue) : o = emitMessageQueue[i]
      BY <1>0, <2>3 DEF Queued, Range
    <3>2. CASE i = 1
      BY <1>0, <2>3, <3>1, <3>2 DEF Waiting
    <3>3. CASE i # 1
      <4>1. i - 1 \in 1..Len(emitMessageQueue') /\ emitMessageQueue'[i - 1] = o
        BY <1>0, <2>3, <3>1, <3>3
      <4> QED BY <1>0, <2>3, <4>1 DEF Waiting, Queued, Range
    <3> QED BY <3>2, <3>3
  <2> QED BY <1>0, <1>1, <2>1, <2>2, <2>3 DEF Coming, Waiting
<1>6. CASE EmitHandle
  <2>1. UNCHANGED <<emitMessageQueue, ioMsg, ioPc>>
    BY <1>6 DEF EmitHandle, ioOwned, ioVars
  <2> QED BY <1>6, <2>1 DEF Coming, Waiting, Queued
<1>7. CASE EmitTop \/ EmitSleep \/ EmitSpuriousWake \/ EmitLookup \/ OwnerStop \/ OwnerJoin
  BY <1>1, <1>7 DEF EmitTop, EmitSleep, EmitSpuriousWake, EmitLookup, OwnerStop, OwnerJoin,
     ioOwned, ioVars, emitVars
<1>8. CASE EmitLookupCrashes \/ DestroyConnections \/ DestroyQueue \/ DestroyQueueCrashes
  BY <1>8 DEF EmitLookupCrashes, DestroyConnections, DestroyQueue, DestroyQueueCrashes, Gone
<1> QED BY <1>2, <1>3, <1>4, <1>5, <1>6, <1>7, <1>8 DEF Next, EmitNext, OwnerDestroys

\* What the handler was given it keeps, and the message it handles comes last.
LEMMA DeliveredGrows ==
  ASSUME IInv, GivenIntact, [Next]_vars, NEW c \in Conn
  PROVE  /\ \A i \in 1..Len(delivered[c]) :
              i \in 1..Len(delivered'[c]) /\ delivered'[c][i] = delivered[c][i]
         /\ EmitHandle /\ message[emitMsg].connectionId = c =>
              /\ Len(delivered'[c]) = Len(delivered[c]) + 1
              /\ delivered'[c][Len(delivered[c]) + 1] = HandedOver(message[emitMsg])
         /\ ~(EmitHandle /\ message[emitMsg].connectionId = c) => delivered'[c] = delivered[c]
<1>0. TypeOK /\ Ownership /\ Whole
  BY DEF IInv
<1>1. PICK S : S = [id : Nat, data : Seq(Byte)]
  OBVIOUS
<1>2. delivered \in [Conn -> Seq(S)] /\ delivered[c] \in Seq(S)
  BY <1>0, <1>1 DEF TypeOK, EmitTypes
<1>3. PICK r : r = delivered[c]
  OBVIOUS
<1>4. CASE EmitHandle
  <2>1. emitMsg \in Obj /\ Given(emitMsg)
    BY <1>0, <1>4, HeldObjects DEF EmitHandle, TypeOK, EmitTypes, Ownership, EmitMsgHeld, Given
  <2>2. PICK m : m = message[emitMsg]
    OBVIOUS
  <2>3. PICK e : e = HandedOver(m)
    OBVIOUS
  <2>4. delivered' = [delivered EXCEPT ![m.connectionId] = Append(@, e)]
    BY <1>4, <2>2, <2>3 DEF EmitHandle
  <2>5. CASE m.connectionId = c
    <3>1. e \in S
      <4>1. m \in Messages /\ m.header.size <= Len(m.data)
        BY <1>0, <2>1, <2>2 DEF TypeOK, StoreTypes, Whole, Sound
      <4> QED BY <1>1, <2>3, <4>1, HandedOverTypes
    <3>2. delivered'[c] = Append(r, e) /\ r \in Seq(S)
      BY <1>2, <1>3, <2>4, <2>5
    <3>3. /\ Len(Append(r, e)) = Len(r) + 1 /\ Append(r, e)[Len(r) + 1] = e
          /\ \A i \in 1..Len(r) : i \in 1..(Len(r) + 1) /\ Append(r, e)[i] = r[i]
      BY <3>1, <3>2
    <3> QED BY <1>3, <1>4, <2>2, <2>3, <2>5, <3>2, <3>3
  <2>6. CASE m.connectionId # c
    <3>1. delivered'[c] = delivered[c]
      BY <1>2, <2>4, <2>6
    <3> QED BY <2>2, <2>6, <3>1
  <2> QED BY <2>5, <2>6
<1>5. CASE ~EmitHandle
  <2>1. delivered' = delivered
    BY <1>0, <1>5, DeliveredCases
  <2> QED BY <1>5, <2>1
<1> QED BY <1>4, <1>5

\* A message that is accounted for stays so.
LEMMA AccountedStep ==
  ASSUME IInv, GivenIntact, EmitStates, [Next]_vars, ~EmitLookupMisses, ~Gone',
         NEW c \in Conn, NEW v, Accounted(c, v)
  PROVE  Accounted(c, v)'
<1>0. TypeOK /\ Ownership
  BY DEF IInv
<1>1. CASE \E i \in 1..Len(delivered[c]) : delivered[c][i].id = v
  <2>1. PICK i \in 1..Len(delivered[c]) : delivered[c][i].id = v
    BY <1>1
  <2>2. i \in 1..Len(delivered'[c]) /\ delivered'[c][i].id = v
    BY <2>1, DeliveredGrows
  <2> QED BY <2>2 DEF Accounted
<1>2. CASE \E o \in Obj : /\ Coming(o)
                          /\ message[o].connectionId = c /\ message[o].header.id = v
  <2>1. PICK o \in Obj : Coming(o) /\ message[o].connectionId = c /\ message[o].header.id = v
    BY <1>2
  <2>2. message'[o] = message[o]
    BY <1>0, <2>1, GivenStable DEF Coming, Waiting, Given
  <2>3. CASE Coming(o)'
    BY <2>1, <2>2, <2>3 DEF Accounted
  <2>4. CASE EmitHandle /\ o = emitMsg
    <3>1. PICK m : m = message[emitMsg]
      OBVIOUS
    <3>2. PICK k : k = Len(delivered[c]) + 1
      OBVIOUS
    <3>3. Len(delivered'[c]) = k /\ delivered'[c][k] = HandedOver(m)
      BY <2>1, <2>4, <3>1, <3>2, DeliveredGrows
    <3>4. HandedOver(m).id = v
      BY <2>1, <2>4, <3>1 DEF HandedOver
    <3>5. k \in 1..Len(delivered'[c])
      <4>1. Len(delivered[c]) \in Nat
        BY <1>0 DEF TypeOK, EmitTypes
      <4> QED BY <3>2, <3>3, <4>1
    <3> QED BY <3>3, <3>4, <3>5 DEF Accounted
  <2> QED BY <1>0, <2>1, <2>3, <2>4, ComingStep
<1> QED BY <1>1, <1>2 DEF Accounted

\* A connection goes on to the next message when this one is complete.
LEMMA NoneLostStep ==
  ASSUME IInv, GivenIntact, EmitStates, [Next]_vars, ~EmitLookupMisses, ~Gone', 0 \notin Sizes,
         NEW c \in Conn, NEW p \in Positions, NEW q \in Positions,
         NoneLost(c, p), Moves(c, p, q)
  PROVE  NoneLost(c, q)'
<1>0. TypeOK /\ p[1] \in Nat /\ q[1] \in Nat
  BY DEF IInv, Positions
<1>1. ASSUME NEW v \in 1..(p[1] - 1) PROVE Accounted(c, v)'
  BY AccountedStep DEF NoneLost
<1>2. CASE q[1] = p[1]
  BY <1>1, <1>2 DEF NoneLost
<1>3. CASE q[1] = p[1] + 1 /\ ioPc' = "Distribute" /\ Arrives(c, p)
  <2>1. ioMsg' \in Obj
    <3>1. IInv'
      BY NextIInv
    <3>2. ioMsg' \in Obj \cup {Null} /\ ioMsg' # Null
      BY <1>3, <3>1 DEF IInv, TypeOK, IoTypes, Ownership, IoMsgHeld, Distributing
    <3> QED BY <3>2
  <2>2. message'[ioMsg'].connectionId = c /\ message'[ioMsg'].header.id = p[1]
    BY <1>3 DEF Arrives, AllOf
  <2>3. Coming(ioMsg)'
    BY <1>3 DEF Coming
  <2>4. Accounted(c, p[1])'
    BY <2>1, <2>2, <2>3 DEF Accounted
  <2>5. ASSUME NEW v \in 1..(q[1] - 1) PROVE v \in 1..(p[1] - 1) \/ v = p[1]
    BY <1>0, <1>3
  <2> QED BY <1>1, <2>4, <2>5 DEF NoneLost
<1>4. ASSUME p[1] \in 1..Len(sent[c]), Size(sent[c], p[1]) = 0 PROVE FALSE
  <2>1. sent[c] \in Seq(SentMessages)
    BY <1>0 DEF TypeOK, ClientTypes
  <2>2. sent[c][p[1]] \in SentMessages
    BY <1>4, <2>1
  <2> QED BY <1>4, <2>2 DEF SentMessages, Size
<1> QED BY <1>2, <1>3, <1>4 DEF Moves, Within

\* What is taken apart, or has crashed, stays so.
LEMMA GoneStays ==
  ASSUME [Next]_vars, Gone
  PROVE  Gone'
<1>1. ASSUME UNCHANGED ownerPc PROVE Gone'
  BY <1>1 DEF Gone
<1>2. CASE UNCHANGED vars \/ ClientNext
  BY <1>1, <1>2 DEF vars, ClientNext, ClientConnect, ClientSend, ClientSendRest,
     ClientSendNothing, ClientClose
<1>3. CASE IoNext
  BY <1>1, <1>3 DEF IoNext, IoStopped, IoCreate, IoPush, IoNoCreate, IoSkip, IoAcquire,
     IoStartRead, IoDistribute, IoSwap, IoRelease, IoScanned, IoWaitFails, IoConnectEvent,
     IoReadEvent, IoBrokenEvent
<1>4. CASE EmitNext \/ EmitSpuriousWake \/ OwnerStop \/ OwnerDestroys
  BY <1>1, <1>4 DEF EmitNext, EmitTop, EmitTest, EmitSleep, EmitSpuriousWake, EmitLookup,
     EmitLookupMisses, EmitLookupCrashes, EmitHandle, OwnerStop, OwnerDestroys, OwnerJoin,
     DestroyConnections, DestroyQueue, DestroyQueueCrashes, Gone
<1> QED BY <1>2, <1>3, <1>4 DEF Next

\* No message gets lost while no lookup misses.
LEMMA GaplessStep ==
  ASSUME IInv, GivenIntact, EmitStates, Gapless, FlowsOn, [Next]_vars, ~EmitLookupMisses,
         0 \notin Sizes
  PROVE  Gapless'
<1> SUFFICES ASSUME ~Gone', NEW c \in Conn
             PROVE  \E q \in Positions : Flows(c, q)' /\ NoneLost(c, q)'
  BY DEF Gapless
<1>1. PICK p \in Positions : Flows(c, p) /\ NoneLost(c, p)
  BY GoneStays DEF Gapless
<1>2. PICK q \in Positions : Flows(c, q)' /\ Moves(c, p, q)
  BY <1>1 DEF FlowsOn
<1>3. NoneLost(c, q)'
  BY <1>1, <1>2, NoneLostStep
<1> QED BY <1>2, <1>3

-----------------------------------------------------------------------------
\* The server implements MessageDelivery.

\* What the handler was given of a client is the beginning of what that client
\* has sent.
Prefix ==
  \A c \in Conn : \A i \in 1..Len(delivered[c]) :
    i \in 1..Len(sent[c]) /\ delivered[c][i] = sent[c][i]

\* The message that is handled is the next one of its client.
LEMMA HandlesNext ==
  ASSUME IInv, CrashedTogether, Sending, GivenIntact, Ordered, EmitStates, Gapless, Prefix,
         emitPc = "Handle", NEW m, m = message[emitMsg], NEW c, c = m.connectionId,
         NEW k, k = Len(delivered[c]) + 1
  PROVE  /\ c \in Conn /\ k \in 1..Len(sent[c]) /\ k \in Nat
         /\ HandedOver(m) = sent[c][k]
<1>0. TypeOK /\ Ownership
  BY DEF IInv
<1>1. emitMsg \in Obj /\ Given(emitMsg) /\ Waiting(emitMsg)
  BY <1>0, HeldObjects DEF TypeOK, EmitTypes, Ownership, EmitMsgHeld, Given, Waiting
<1>2. PICK w : w = m.header.id
  OBVIOUS
<1>3. c \in Conn /\ AllOf(c, sent[c], m, w)
  BY <1>1, <1>2 DEF GivenIntact
<1>4. w \in 1..Len(sent[c]) /\ w \in Nat /\ w >= 1
  BY <1>3 DEF AllOf
<1>5. Len(delivered[c]) \in Nat /\ k \in Nat
  <2>1. delivered[c] \in Seq([id : Nat, data : Seq(Byte)])
    BY <1>0, <1>3 DEF TypeOK, EmitTypes
  <2> QED BY <2>1
<1>6. ~Gone
  BY <1>0 DEF Gone, Ownership, OwnerAlone, EmitStates
<1>7. PICK p \in Positions : Flows(c, p) /\ NoneLost(c, p)
  BY <1>3, <1>6 DEF Gapless
<1>8. w < p[1] /\ p[1] \in Nat
  BY <1>1, <1>2, <1>7 DEF Flows, Passed, Positions
<1>9. ASSUME NEW i \in 1..Len(delivered[c]) PROVE delivered[c][i].id = i
  <2>1. i \in 1..Len(sent[c]) /\ delivered[c][i] = sent[c][i]
    BY <1>3 DEF Prefix
  <2>2. sent[c][i] = [id |-> i, data |-> Payload(c, i, Size(sent[c], i))]
    BY <1>3, <2>1 DEF Sending, SentInOrder
  <2> QED BY <2>1, <2>2
<1>10. ASSUME NEW v \in 1..(w - 1) PROVE v \in 1..Len(delivered[c])
  <2>1. v \in 1..(p[1] - 1) /\ v \in Nat /\ v < w
    BY <1>4, <1>8
  <2>2. Accounted(c, v)
    BY <1>7, <2>1 DEF NoneLost
  <2>3. CASE \E i \in 1..Len(delivered[c]) : delivered[c][i].id = v
    BY <1>9, <2>3
  <2>4. ASSUME NEW o \in Obj, Coming(o), message[o].connectionId = c, message[o].header.id = v
        PROVE  FALSE
    <3>1. CASE o = emitMsg
      BY <1>2, <2>1, <2>4, <3>1, <1>4
    <3>2. CASE o # emitMsg
      <4>1. o \in Queued \/ (o = ioMsg /\ ioPc = "Distribute")
        BY <2>4, <3>2 DEF Coming, Waiting
      <4>2. Before(emitMsg, o)
        BY <1>0, <4>1, HandledBefore
      <4>3. w < v
        BY <1>2, <2>4, <4>2 DEF Before
      <4> QED BY <1>4, <2>1, <4>3
    <3> QED BY <3>1, <3>2
  <2> QED BY <2>2, <2>3, <2>4 DEF Accounted
<1>11. \A i \in 1..Len(delivered[c]) : delivered[c][i].id < w
  BY <1>1, <1>2 DEF Ordered, DeliveredFirst
<1>12. k = w
  <2>1. Len(delivered[c]) >= w - 1
    <3>1. CASE w = 1
      BY <1>5, <3>1
    <3>2. CASE w # 1
      <4>1. w - 1 \in 1..(w - 1)
        BY <1>4, <3>2
      <4>2. w - 1 \in 1..Len(delivered[c])
        BY <1>10, <4>1
      <4> QED BY <4>2
    <3> QED BY <3>1, <3>2
  <2>2. Len(delivered[c]) < w
    <3>1. CASE Len(delivered[c]) = 0
      BY <1>4, <3>1
    <3>2. CASE Len(delivered[c]) # 0
      <4>1. Len(delivered[c]) \in 1..Len(delivered[c])
        BY <1>5, <3>2
      <4> QED BY <1>9, <1>11, <4>1
    <3> QED BY <3>1, <3>2
  <2> QED BY <1>4, <1>5, <2>1, <2>2
<1>13. HandedOver(m) = sent[c][w]
  <2>1. c \in Nat /\ MessageList(sent[c])
    BY <1>0, <1>3, ConnectionTypes
  <2>2. sent[c][w] = [id |-> w, data |-> Payload(c, w, Size(sent[c], w))]
    BY <1>3, <1>4 DEF Sending, SentInOrder
  <2> QED BY <1>3, <1>4, <2>1, <2>2, HandedOverSent
<1> QED BY <1>3, <1>4, <1>12, <1>13

\* The handler goes on being given what was sent.
LEMMA PrefixStep ==
  ASSUME IInv, CrashedTogether, Sending, GivenIntact, Ordered, EmitStates, Gapless, Prefix,
         [Next]_vars
  PROVE  Prefix'
<1> SUFFICES ASSUME NEW c \in Conn, NEW i \in 1..Len(delivered'[c])
             PROVE  i \in 1..Len(sent'[c]) /\ delivered'[c][i] = sent'[c][i]
  BY DEF Prefix
<1>0. TypeOK
  BY DEF IInv
<1>1. Longer(sent[c], sent'[c])
  BY <1>0, SentLonger
<1>2. CASE i \in 1..Len(delivered[c])
  <2>1. delivered'[c][i] = delivered[c][i]
    BY <1>2, DeliveredGrows
  <2>2. i \in 1..Len(sent[c]) /\ delivered[c][i] = sent[c][i]
    BY <1>2 DEF Prefix
  <2> QED BY <1>1, <2>1, <2>2 DEF Longer
<1>3. CASE i \notin 1..Len(delivered[c])
  <2>1. EmitHandle /\ message[emitMsg].connectionId = c
    BY <1>3, DeliveredGrows
  <2>2. PICK m : m = message[emitMsg]
    OBVIOUS
  <2>3. PICK k : k = Len(delivered[c]) + 1
    OBVIOUS
  <2>4. Len(delivered'[c]) = k /\ delivered'[c][k] = HandedOver(m)
    BY <2>1, <2>2, <2>3, DeliveredGrows
  <2>5. k \in 1..Len(sent[c]) /\ k \in Nat /\ HandedOver(m) = sent[c][k]
    <3>1. emitPc = "Handle" /\ c = m.connectionId
      BY <2>1, <2>2 DEF EmitHandle
    <3> QED BY <2>2, <2>3, <3>1, HandlesNext
  <2>6. i = k
    <3>1. Len(delivered[c]) \in Nat
      BY <1>0 DEF TypeOK, EmitTypes
    <3> QED BY <1>3, <2>3, <2>4, <3>1
  <2> QED BY <1>1, <2>4, <2>5, <2>6 DEF Longer
<1> QED BY <1>2, <1>3

\* Only ClientSend adds to what the clients have sent.
LEMMA SentCases ==
  ASSUME [Next]_vars
  PROVE  sent' = sent \/ \E c \in Conn : \E size \in Sizes : ClientSend(c, size)
<1>1. CASE UNCHANGED vars \/ ClientNext
  BY <1>1 DEF vars, ClientNext, ClientConnect, ClientSendRest, ClientSendNothing, ClientClose,
     clientVars
<1>2. CASE IoNext
  BY <1>2 DEF IoNext, IoStopped, IoCreate, IoPush, IoNoCreate, IoSkip, IoAcquire,
     IoStartRead, IoDistribute, IoSwap, IoRelease, IoScanned, IoWaitFails, IoConnectEvent,
     IoReadEvent, IoBrokenEvent, clientVars
<1>3. CASE EmitNext \/ EmitSpuriousWake \/ OwnerStop \/ OwnerDestroys
  BY <1>3 DEF EmitNext, EmitTop, EmitTest, EmitSleep, EmitSpuriousWake, EmitLookup,
     EmitLookupMisses, EmitLookupCrashes, EmitHandle, OwnerStop, OwnerDestroys, OwnerJoin,
     DestroyConnections, DestroyQueue, DestroyQueueCrashes, ioOwned, clientVars
<1> QED BY <1>1, <1>2, <1>3 DEF Next

\* ClientSend is MessageDelivery's Send.
LEMMA SendRefines ==
  ASSUME TypeOK, NEW c \in Conn, NEW size \in Sizes, ClientSend(c, size)
  PROVE  Delivery!Send(c)
<1>1. PICK w : w = Len(sent[c]) + 1
  OBVIOUS
<1>2. w \in 1..MaxSends
  <2>1. Len(sent[c]) \in Nat
    BY ConnectionTypes
  <2> QED BY <1>1, <2>1, ServerAssumption DEF ClientSend
<1>3. PICK m : m = [id |-> w, data |-> Payload(c, w, size)]
  OBVIOUS
<1>4. m \in MessagesOf(c)
  BY <1>2, <1>3 DEF MessagesOf
<1>5. sent' = [sent EXCEPT ![c] = Append(@, m)] /\ UNCHANGED delivered
  BY <1>1, <1>3 DEF ClientSend, emitVars
<1> QED BY <1>4, <1>5 DEF Delivery!Send

\* EmitHandle is MessageDelivery's Deliver.
LEMMA HandleRefines ==
  ASSUME IInv, CrashedTogether, Sending, GivenIntact, Ordered, EmitStates, Gapless, Prefix,
         EmitHandle
  PROVE  \E c \in Conn : Delivery!Deliver(c)
<1>1. PICK m : m = message[emitMsg]
  OBVIOUS
<1>2. PICK c : c = m.connectionId
  OBVIOUS
<1>3. PICK k : k = Len(delivered[c]) + 1
  OBVIOUS
<1>4. /\ c \in Conn /\ k \in 1..Len(sent[c]) /\ k \in Nat
      /\ HandedOver(m) = sent[c][k]
  BY <1>1, <1>2, <1>3, HandlesNext DEF EmitHandle
<1>5. /\ delivered' = [delivered EXCEPT ![c] = Append(@, HandedOver(m))]
      /\ UNCHANGED sent
  BY <1>1, <1>2 DEF EmitHandle, ioOwned, clientVars
<1>6. delivered' = [delivered EXCEPT ![c] = Append(@, sent[c][Len(@) + 1])]
  BY <1>3, <1>4, <1>5
<1>7. Len(delivered[c]) < Len(sent[c])
  <2>1. Len(delivered[c]) \in Nat /\ Len(sent[c]) \in Nat
    BY <1>4, ConnectionTypes DEF IInv, TypeOK, EmitTypes
  <2> QED BY <1>3, <1>4, <2>1
<1> QED BY <1>4, <1>5, <1>6, <1>7 DEF Delivery!Deliver, Delivery!Undelivered

\* Each step is one of MessageDelivery, or one it does not see.
LEMMA DeliveryStep ==
  ASSUME IInv, CrashedTogether, Sending, GivenIntact, Ordered, EmitStates, Gapless, Prefix,
         [Next]_vars
  PROVE  [Delivery!Next]_(Delivery!vars)
<1>1. TypeOK
  BY DEF IInv
<1>2. CASE \E c \in Conn : \E size \in Sizes : ClientSend(c, size)
  <2>1. PICK c \in Conn, size \in Sizes : ClientSend(c, size)
    BY <1>2
  <2>2. Delivery!Send(c)
    BY <1>1, <2>1, SendRefines
  <2> QED BY <2>2 DEF Delivery!Next
<1>3. CASE EmitHandle
  BY <1>3, HandleRefines DEF Delivery!Next
<1>4. CASE sent' = sent /\ delivered' = delivered
  BY <1>4 DEF Delivery!vars
<1> QED BY <1>1, <1>2, <1>3, <1>4, SentCases, DeliveredCases

\* What makes each message the next one of its client.
Promised == Orderly /\ DeliveredIntact /\ EmitStates /\ Gapless /\ Prefix

\* Nothing was sent, and nothing handed over.
LEMMA InitPromised == Init => Promised /\ Delivery!Init
<1> SUFFICES ASSUME Init PROVE Promised /\ Delivery!Init
  OBVIOUS
<1>1. Orderly /\ DeliveredIntact
  BY InitOrderly
<1>2. EmitStates
  BY DEF Init, EmitStates
<1>3. Gapless
  <2>1. ASSUME NEW c \in Conn PROVE \E p \in Positions : Flows(c, p) /\ NoneLost(c, p)
    <3>1. PICK p : p = <<1, 0>>
      OBVIOUS
    <3>2. p \in Positions /\ p[1] = 1
      BY <3>1 DEF Positions
    <3>3. Flows(c, p)
      BY <3>1, InitFlows
    <3>4. NoneLost(c, p)
      BY <3>2 DEF NoneLost
    <3> QED BY <3>2, <3>3, <3>4
  <2> QED BY <2>1 DEF Gapless
<1>4. Prefix
  BY DEF Init, Prefix
<1>5. Delivery!Init
  BY DEF Init, Delivery!Init
<1> QED BY <1>1, <1>2, <1>3, <1>4, <1>5 DEF Promised

\* Each step keeps that, and is a step of MessageDelivery or one it does not see,
\* unless a lookup misses.
LEMMA PromisedStep ==
  ASSUME Settled, Promised, "empty" \notin Events, 0 \notin Sizes, MaxSends <= 2,
         [Next]_vars, [~EmitLookupMisses]_vars
  PROVE  Promised' /\ [Delivery!Next]_(Delivery!vars)
<1>0. /\ IInv /\ CrashedTogether /\ TypeOK /\ Sending /\ GivenIntact /\ Ordered
      /\ EmitStates /\ Gapless /\ Prefix /\ Orderly /\ DeliveredIntact
  BY DEF Settled, Instances, IInv, Promised, Orderly
<1>1. ~EmitLookupMisses
  BY DEF vars, EmitLookupMisses, LookupRaces
<1>2. Orderly' /\ DeliveredIntact'
  BY <1>0, OrderlyStep
<1>3. FlowsOn
  BY <1>0, FlowingStep
<1>4. EmitStates'
  BY <1>0, EmitStatesStep
<1>5. Gapless'
  BY <1>0, <1>1, <1>3, GaplessStep
<1>6. Prefix'
  BY <1>0, PrefixStep
<1>7. [Delivery!Next]_(Delivery!vars)
  BY <1>0, DeliveryStep
<1> QED BY <1>2, <1>4, <1>5, <1>6, <1>7 DEF Promised

-----------------------------------------------------------------------------
\* A server of one connection creates no instance while messages are handled.

\* Message objects are allocated for connections only.
Unread == nconn = 0 /\ ~Gone => allocated = 0

\* Each step keeps that.
LEMMA UnreadStep ==
  ASSUME IInv, Unread, [Next]_vars
  PROVE  Unread'
<1>0. TypeOK /\ Ownership /\ nconn \in Nat /\ allocated \in Nat
  BY ServerAssumption DEF IInv, TypeOK, ConnTypes, PoolTypes
<1>1. ASSUME UNCHANGED <<nconn, allocated>> PROVE Unread'
  BY <1>1, GoneStays DEF Unread
<1>2. CASE IoAcquire
  <2>1. nconn # 0 /\ nconn' = nconn
    BY <1>0, <1>2 DEF IoAcquire, StartsRead, connVars, Ownership, LastIdle, TypeOK, IoTypes
  <2> QED BY <2>1 DEF Unread
<1>3. CASE IoSwap
  <2>1. nconn' = nconn /\ UNCHANGED ownerPc /\ ioPc = "Swap"
    BY <1>3 DEF IoSwap, connVars
  <2>2. ioMsg \in Obj /\ cur \in Conn /\ readMessage[cur] = ioMsg
    BY <1>0, <2>1, HeldObjects DEF TypeOK, IoTypes, Ownership, IoMsgHeld, Distributing
  <2>3. ioMsg <= allocated /\ ioMsg \in Nat /\ ioMsg >= 1
    BY <1>0, <2>2, ServerAssumption DEF Ownership, UsedAllocated, Obj
  <2>4. allocated # 0
    BY <1>0, <2>3
  <2> QED BY <2>1, <2>4 DEF Unread, Gone
<1>4. CASE IoPush
  <2>1. nconn' # 0
    BY <1>0, <1>4 DEF IoPush
  <2> QED BY <2>1 DEF Unread
<1>5. CASE UNCHANGED vars \/ ClientNext
  BY <1>1, <1>5 DEF vars, ClientNext, ClientConnect, ClientSend, ClientSendRest,
     ClientSendNothing, ClientClose, connVars, poolVars
<1>6. CASE \/ IoStopped \/ IoCreate \/ IoNoCreate \/ IoSkip \/ IoStartRead \/ IoDistribute
           \/ IoRelease \/ IoScanned \/ IoWaitFails
           \/ \E c \in Conn : IoConnectEvent(c) \/ IoReadEvent(c) \/ IoBrokenEvent(c)
  BY <1>1, <1>6 DEF IoStopped, IoCreate, IoNoCreate, IoSkip, IoStartRead, IoDistribute,
     IoRelease, IoScanned, IoWaitFails, IoConnectEvent, IoReadEvent, IoBrokenEvent,
     connVars, poolVars
<1>7. CASE \/ EmitTop \/ EmitTest \/ EmitSleep \/ EmitSpuriousWake \/ EmitLookup
           \/ EmitLookupMisses \/ EmitHandle \/ OwnerStop \/ OwnerJoin
           \/ DestroyQueue \/ DestroyQueueCrashes
  BY <1>1, <1>7 DEF EmitTop, EmitTest, EmitSleep, EmitSpuriousWake, EmitLookup,
     EmitLookupMisses, EmitHandle, OwnerStop, OwnerJoin, DestroyQueue, DestroyQueueCrashes, ioOwned,
     connVars, poolVars
<1>8. CASE EmitLookupCrashes \/ DestroyConnections
  BY <1>8 DEF EmitLookupCrashes, DestroyConnections, Unread, Gone
<1> QED BY <1>2, <1>3, <1>4, <1>5, <1>6, <1>7, <1>8 DEF Next, IoNext, EmitNext, OwnerDestroys

\* So no lookup races with push_back.
LEMMA NoRace ==
  ASSUME IInv, Instances, EmitStates, Unread, MaxConnections = 1
  PROVE  ~LookupRaces
<1> SUFFICES ASSUME emitPc = "Lookup", ioPc = "Push" PROVE FALSE
  BY DEF LookupRaces
<1>0. TypeOK /\ Ownership /\ nconn \in Nat /\ allocated \in Nat
  BY ServerAssumption DEF IInv, TypeOK, ConnTypes, PoolTypes
<1>1. ~Gone
  BY <1>0 DEF Gone, Ownership, OwnerAlone, EmitStates
<1>2. nconn = 0
  <2>1. PICK k \in 0..(MaxClients + 1) : k <= 1 /\ k = nconn + 1
    BY <1>1 DEF Instances, InstancesCounted, Made
  <2> QED BY <1>0, <2>1
<1>3. allocated = 0
  BY <1>1, <1>2 DEF Unread
<1>4. emitMsg \in Obj /\ emitMsg <= 0
  BY <1>0, <1>3 DEF TypeOK, EmitTypes, Ownership, EmitMsgHeld, UsedAllocated
<1> QED BY <1>4, ServerAssumption DEF Obj

\* A server of one connection hands over what its client sends, whatever else
\* happens, when that client sends at most two messages.
THEOREM DeliveryRefinedHolds ==
  ASSUME "empty" \notin Events, 0 \notin Sizes, MaxSends <= 2, MaxConnections = 1
  PROVE  Spec => DeliveryRefined
<1>1. Init => Unread
  BY DEF Init, Unread
<1>2. Settled /\ Promised /\ Unread /\ [Next]_vars
        => Promised' /\ Unread' /\ [Delivery!Next]_(Delivery!vars)
  <2> SUFFICES ASSUME Settled, Promised, Unread, [Next]_vars
               PROVE  Promised' /\ Unread' /\ [Delivery!Next]_(Delivery!vars)
    OBVIOUS
  <2>1. ~LookupRaces
    BY NoRace DEF Settled, Promised
  <2>2. [~EmitLookupMisses]_vars
    BY <2>1 DEF EmitLookupMisses
  <2>3. Promised' /\ [Delivery!Next]_(Delivery!vars)
    BY <2>2, PromisedStep
  <2>4. Unread'
    BY UnreadStep DEF Settled
  <2> QED BY <2>3, <2>4
<1> QED BY <1>1, <1>2, InitPromised, SettledHolds, PTL DEF Spec, DeliveryRefined, Delivery!Spec

=============================================================================
