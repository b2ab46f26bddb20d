------------------------ MODULE NamedPipeServerProofs -----------------------
(***************************************************************************)
(* Theorems about the asynchronous server for any number of clients,       *)
(* connections, messages and message objects: the types of its variables,  *)
(* who owns its message objects, that a read in progress never writes into *)
(* a message that another part of the server holds and never overruns it,  *)
(* how many instances there are, and that the I/O thread waits for all it  *)
(* has to see.                                                            *)
(***************************************************************************)
EXTENDS NamedPipeServer, FiniteSetTheorems, TLAPS

-----------------------------------------------------------------------------
\* What push_back, pop_front, push and pop do to the elements of a queue or stack.

\* push_back adds one element; it keeps the elements different.
LEMMA AppendElements ==
  ASSUME NEW S, NEW s \in Seq(S), NEW e \in S
  PROVE  /\ Append(s, e) \in Seq(S)
         /\ Range(Append(s, e)) = Range(s) \cup {e}
         /\ IsInjective(s) /\ e \notin Range(s) => IsInjective(Append(s, e))
<1> DEFINE t == Append(s, e)
<1>1. /\ t \in Seq(S)
      /\ Len(s) \in Nat
      /\ DOMAIN s = 1..Len(s)
      /\ DOMAIN t = 1..(Len(s) + 1)
      /\ t[Len(s) + 1] = e
      /\ \A i \in 1..Len(s) : t[i] = s[i]
  OBVIOUS
<1> HIDE DEF t
<1>2. Range(t) = Range(s) \cup {e}
  <2>1. ASSUME NEW x \in Range(t) PROVE x \in Range(s) \cup {e}
    BY <1>1 DEF Range
  <2>2. ASSUME NEW x \in Range(s) PROVE x \in Range(t)
    <3>1. PICK i \in 1..Len(s) : x = s[i]
      BY <1>1 DEF Range
    <3>2. i \in DOMAIN t /\ t[i] = x
      BY <1>1, <3>1
    <3> QED BY <3>2 DEF Range
  <2>3. e \in Range(t)
    BY <1>1 DEF Range
  <2> QED BY <2>1, <2>2, <2>3
<1>3. ASSUME IsInjective(s), e \notin Range(s) PROVE IsInjective(t)
  BY <1>1, <1>3 DEF Range, IsInjective
<1> QED BY <1>1, <1>2, <1>3 DEF t

\* pop_front and pop take one element out.
LEMMA TailElements ==
  ASSUME NEW S, NEW s \in Seq(S), s # << >>
  PROVE  /\ Head(s) \in S /\ Head(s) \in Range(s)
         /\ Tail(s) \in Seq(S)
         /\ Range(Tail(s)) \subseteq Range(s)
         /\ IsInjective(s) => IsInjective(Tail(s)) /\ Head(s) \notin Range(Tail(s))
<1> DEFINE t == Tail(s)
<1>1. /\ Len(s) \in Nat \ {0}
      /\ DOMAIN s = 1..Len(s)
      /\ Head(s) = s[1] /\ s[1] \in S
      /\ t \in Seq(S)
      /\ DOMAIN t = 1..(Len(s) - 1)
      /\ \A i \in 1..(Len(s) - 1) : t[i] = s[i + 1]
  OBVIOUS
<1> HIDE DEF t
<1>2. Head(s) \in Range(s)
  BY <1>1 DEF Range
<1>3. ASSUME NEW x \in Range(t) PROVE \E i \in 2..Len(s) : x = s[i]
  <2>1. PICK i \in 1..(Len(s) - 1) : x = t[i]
    BY <1>1 DEF Range
  <2> QED BY <1>1, <2>1
<1>4. Range(t) \subseteq Range(s)
  BY <1>1, <1>3 DEF Range
<1>5. ASSUME IsInjective(s) PROVE IsInjective(t) /\ Head(s) \notin Range(t)
  <2>1. IsInjective(t)
    <3>1. SUFFICES ASSUME NEW i \in DOMAIN t, NEW j \in DOMAIN t, t[i] = t[j]
                   PROVE  i = j
      BY DEF IsInjective
    <3>2. /\ i + 1 \in DOMAIN s /\ j + 1 \in DOMAIN s
          /\ s[i + 1] = s[j + 1] /\ i \in Int /\ j \in Int
      BY <1>1, <3>1
    <3>3. i + 1 = j + 1
      BY <1>5, <3>2 DEF IsInjective
    <3> QED BY <3>2, <3>3
  <2>2. Head(s) \notin Range(t)
    BY <1>1, <1>3, <1>5 DEF IsInjective
  <2> QED BY <2>1, <2>2
<1> QED BY <1>1, <1>2, <1>4, <1>5 DEF t

\* push puts one element in front.
LEMMA PushElements ==
  ASSUME NEW S, NEW s \in Seq(S), NEW e \in S
  PROVE  /\ <<e>> \o s \in Seq(S)
         /\ Range(<<e>> \o s) = Range(s) \cup {e}
         /\ IsInjective(s) /\ e \notin Range(s) => IsInjective(<<e>> \o s)
<1> DEFINE t == <<e>> \o s
<1>1. /\ t \in Seq(S)
      /\ Len(s) \in Nat
      /\ DOMAIN s = 1..Len(s)
      /\ DOMAIN t = 1..(Len(s) + 1)
      /\ t[1] = e
      /\ \A i \in 2..(Len(s) + 1) : t[i] = s[i - 1]
  OBVIOUS
<1> HIDE DEF t
<1>2. Range(t) = Range(s) \cup {e}
  <2>1. ASSUME NEW x \in Range(t) PROVE x \in Range(s) \cup {e}
    <3>1. PICK i \in 1..(Len(s) + 1) : x = t[i]
      BY <1>1 DEF Range
    <3>2. CASE i = 1
      BY <1>1, <3>1, <3>2
    <3>3. CASE i # 1
      BY <1>1, <3>1, <3>3 DEF Range
    <3> QED BY <3>2, <3>3
  <2>2. ASSUME NEW x \in Range(s) PROVE x \in Range(t)
    <3>1. PICK i \in 1..Len(s) : x = s[i]
      BY <1>1 DEF Range
    <3>2. i + 1 \in 2..(Len(s) + 1) /\ t[i + 1] = x
      BY <1>1, <3>1
    <3> QED BY <1>1, <3>2 DEF Range
  <2>3. e \in Range(t)
    BY <1>1 DEF Range
  <2> QED BY <2>1, <2>2, <2>3
<1>3. ASSUME IsInjective(s), e \notin Range(s) PROVE IsInjective(t)
  <2>1. SUFFICES ASSUME NEW i \in 1..(Len(s) + 1), NEW j \in 1..(Len(s) + 1),
                        t[i] = t[j], i # j
                 PROVE  FALSE
    BY <1>1 DEF IsInjective
  <2>2. \A k \in 1..(Len(s) + 1) : k # 1 => k - 1 \in DOMAIN s /\ t[k] = s[k - 1]
    BY <1>1
  <2>3. CASE i # 1 /\ j # 1
    <3>1. /\ i - 1 \in DOMAIN s /\ j - 1 \in DOMAIN s
          /\ s[i - 1] = s[j - 1] /\ i \in Int /\ j \in Int
      BY <2>1, <2>2, <2>3
    <3>2. i - 1 = j - 1
      BY <1>3, <3>1 DEF IsInjective
    <3> QED BY <2>1, <3>1, <3>2
  <2>4. ASSUME NEW k \in 1..(Len(s) + 1), k # 1 PROVE t[k] # e
    BY <1>3, <2>2, <2>4 DEF Range
  <2> QED BY <1>1, <2>1, <2>3, <2>4
<1> QED BY <1>1, <1>2, <1>3 DEF t

-----------------------------------------------------------------------------
\* The operations on a message and on its buffer keep their types.

\* What the operators on the positions of a buffer return, the unsigned
\* wrap-around included.
LEMMA BufferTypes ==
  /\ NewBuffer \in Buffers
  /\ \A b \in Buffers :
       /\ ResetPositions(b) \in Buffers
       /\ AvailableToWrite(b) \in SizeType
       /\ WritePosition(b) \in SizeType
       /\ \A n \in SizeType : Resize(b, n) \in Buffers
       /\ \A n \in Nat : SetWritePosition(b, n) \in Buffers
<1> USE SizeAssumption DEF Buffers, SizeType
<1>1. NewBuffer \in Buffers
  BY DEF NewBuffer
<1>2. ASSUME NEW b \in Buffers
      PROVE  /\ ResetPositions(b) \in Buffers
             /\ AvailableToWrite(b) \in SizeType
             /\ WritePosition(b) \in SizeType
  <2>1. b.size \in SizeType /\ b.write \in SizeType
    OBVIOUS
  <2>2. Minus(b.size, b.write) \in Nat
    BY <2>1 DEF Minus
  <2>3. AvailableToWrite(b) \in SizeType
    BY <2>1, <2>2 DEF AvailableToWrite, Lesser
  <2>4. WritePosition(b) \in SizeType
    BY <2>1 DEF WritePosition, Lesser
  <2>5. 0 \in SizeType
    OBVIOUS
  <2>6. ResetPositions(b) \in Buffers
    BY <2>5 DEF ResetPositions
  <2> QED BY <2>3, <2>4, <2>6
<1>3. ASSUME NEW b \in Buffers, NEW n \in SizeType PROVE Resize(b, n) \in Buffers
  BY DEF Resize, Greater
<1>4. ASSUME NEW b \in Buffers, NEW n \in Nat PROVE SetWritePosition(b, n) \in Buffers
  BY DEF SetWritePosition, Lesser
<1> QED BY <1>1, <1>2, <1>3, <1>4

\* What the operators of Message return is a message again.
LEMMA MessageTypes ==
  /\ \A c \in Nat : NewMessage(c) \in Messages
  /\ \A m \in Messages :
       /\ \A h \in Headers : ProcessHeader(m, h) \in Messages
       /\ \A bytes \in Seq(Byte) : AcceptBytes(m, bytes) \in Messages
       /\ ReadSize(m) \in Nat
<1> USE SizeAssumption, HeaderAssumption, ServerAssumption
<1>0. NoHeader \in Headers /\ << >> \in Seq(Byte)
  BY DEF NoHeader, Headers, SizeType
<1>1. ASSUME NEW c \in Nat PROVE NewMessage(c) \in Messages
  BY <1>0, BufferTypes DEF NewMessage, Messages
<1>2. ASSUME NEW m \in Messages, NEW h \in Headers
      PROVE  ProcessHeader(m, h) \in Messages
  <2>1. /\ m.buffer \in Buffers /\ ResetPositions(m.buffer) \in Buffers
        /\ h.size \in SizeType
    BY BufferTypes DEF Messages, Headers
  <2>2. Resize(ResetPositions(m.buffer), h.size) \in Buffers
    BY <2>1, BufferTypes
  <2> QED BY <1>0, <2>1, <2>2 DEF ProcessHeader, ResetMessage, Messages
<1>3. ASSUME NEW m \in Messages, NEW bytes \in Seq(Byte)
      PROVE  AcceptBytes(m, bytes) \in Messages
  <2>1. /\ m.buffer \in Buffers /\ m.data \in Seq(Byte) /\ m.allDataRead \in BOOLEAN
        /\ WritePosition(m.buffer) \in Nat /\ Len(bytes) \in Nat
    BY BufferTypes DEF Messages, SizeType
  <2>2. SetWritePosition(m.buffer, WritePosition(m.buffer) + Len(bytes)) \in Buffers
    BY <2>1, BufferTypes
  <2>3. m.data \o bytes \in Seq(Byte)
    BY <2>1
  <2> QED BY <2>1, <2>2, <2>3 DEF AcceptBytes, Messages
<1>4. ASSUME NEW m \in Messages PROVE ReadSize(m) \in Nat
  <2>1. AvailableToWrite(m.buffer) \in Nat
    BY BufferTypes DEF Messages, SizeType
  <2> QED BY <2>1 DEF ReadSize, Lesser
<1> QED BY <1>1, <1>2, <1>3, <1>4

\* A read splits a pipe message into what it takes and what it leaves.
LEMMA TransferTypes ==
  ASSUME NEW frame \in Seq(Byte), NEW n \in Nat
  PROVE  Transfer(frame, n) \in Seq(Byte) /\ Remainder(frame, n) \in Seq(Byte)
<1>1. /\ Len(frame) \in Nat /\ Lesser(Len(frame), n) \in Nat
      /\ Lesser(Len(frame), n) <= Len(frame)
  BY DEF Lesser
<1>2. \A i \in 1..Len(frame) : frame[i] \in Byte
  OBVIOUS
<1> QED BY <1>1, <1>2 DEF Transfer, Remainder

\* A split pipe message leaves at least one of its bytes.
LEMMA PrependTypes ==
  ASSUME NEW S, NEW s \in Seq(S), NEW e \in S
  PROVE  <<e>> \o s \in Seq(S)
OBVIOUS

\* The header fields the server finds are header fields.
LEMMA HeaderTypes ==
  ASSUME TypeOK, NEW c \in Conn, NEW bytes
  PROVE  HeaderIn(c, bytes) \subseteq Headers
<1> DEFINE Written == {w \in 1..Len(sent[c]) : bytes = Header(c, w)}
<1>1. ASSUME NEW w \in Written
      PROVE  [id |-> sent[c][w].id, size |-> Len(sent[c][w].data)] \in Headers
  <2>1. sent[c] \in Seq(SentMessages)
    BY DEF TypeOK, ClientTypes
  <2>2. sent[c][w] \in SentMessages
    BY <2>1
  <2>3. sent[c][w].id \in Nat /\ Len(sent[c][w].data) \in SizeType
    BY <2>2, ServerAssumption DEF SentMessages
  <2> QED BY <2>3 DEF Headers
<1> QED BY <1>1, ServerAssumption DEF HeaderIn

\* What a client sends, and what a write leaves in its pipe.
LEMMA PayloadTypes ==
  ASSUME NEW c \in Conn, NEW w \in Nat, NEW size \in SizeType
  PROVE  /\ Header(c, w) \in Seq(Byte)
         /\ Payload(c, w, size) \in Seq(Byte)
         /\ Len(Payload(c, w, size)) = size
<1>1. /\ MessageHeaderSize \in Nat /\ size \in Nat /\ c \in Nat
  BY SizeAssumption, HeaderAssumption, ServerAssumption DEF SizeType, Conn
<1>2. Header(c, w) \in [1..MessageHeaderSize -> Byte]
  BY <1>1 DEF Header, Byte
<1>3. Payload(c, w, size) \in [1..size -> Byte]
  BY <1>1 DEF Payload, Byte
<1>4. ASSUME NEW n \in Nat, NEW f \in [1..n -> Byte] PROVE f \in Seq(Byte) /\ Len(f) = n
  BY <1>4
<1> QED BY <1>1, <1>2, <1>3, <1>4

\* A client's write, and the completion of a pending read by it, keep the types.
LEMMA WriteTypes ==
  ASSUME TypeOK, Ownership, NEW c \in Conn, NEW bytes \in Seq(Byte), Write(c, bytes)
  PROVE  PipeTypes' /\ ReadTypes'
<1> USE DEF PipeTypes, ReadTypes
<1>0. PipeTypes /\ ReadTypes
  BY DEF TypeOK
<1>1. CASE readIO[c] = "Pending"
  <2>1. readMessage[c] \in Obj
    BY <1>1 DEF TypeOK, PoolTypes, Ownership, ReadHasMessage, KernelOwns
  <2>2. ReadSize(message[readMessage[c]]) \in Nat
    BY <2>1, MessageTypes DEF TypeOK, StoreTypes
  <2> DEFINE rest == Remainder(bytes, ReadSize(message[readMessage[c]]))
             taken == Transfer(bytes, ReadSize(message[readMessage[c]]))
  <2>3. taken \in Seq(Byte) /\ rest \in Seq(Byte)
    BY <2>2, TransferTypes
  <2>4. /\ readIO' = [readIO EXCEPT ![c] = "Done"]
        /\ transferred' = [transferred EXCEPT ![c] = taken]
        /\ pipe' = [pipe EXCEPT ![c] = IF rest = << >> THEN << >> ELSE <<rest>>]
    BY <1>1 DEF Write
  <2> HIDE DEF rest, taken
  <2>5. << >> \in Seq(Seq(Byte)) /\ <<rest>> \in Seq(Seq(Byte))
    BY <2>3
  <2> QED BY <1>0, <2>3, <2>4, <2>5
<1>2. CASE readIO[c] # "Pending"
  <2>1. Append(pipe[c], bytes) \in Seq(Seq(Byte))
    BY <1>0
  <2> QED BY <1>0, <1>2, <2>1 DEF Write, readVars
<1> QED BY <1>1, <1>2

\* onRead changes a message, and where the I/O thread goes on.
LEMMA OnReadTypes ==
  ASSUME TypeOK, NEW c \in Conn, NEW o \in Obj, NEW bytes \in Seq(Byte),
         NEW from \in {"Scan", "Top"}, OnRead(c, o, bytes, from),
         cur' \in 0..(MaxClients + 2), ownerPc' = ownerPc
  PROVE  StoreTypes' /\ IoTypes' /\ ServerTypes'
<1>1. message[o] \in Messages /\ message \in [Obj -> Messages]
  BY DEF TypeOK, StoreTypes
<1>2. AcceptBytes(message[o], bytes) \in Messages
  BY <1>1, MessageTypes
<1>3. \A h \in HeaderIn(c, bytes) : ProcessHeader(message[o], h) \in Messages
  BY <1>1, MessageTypes, HeaderTypes
<1>4. StoreTypes'
  BY <1>1, <1>2, <1>3 DEF OnRead, StoreTypes
<1>5. ServerTypes'
  BY DEF OnRead, Reject, Accept, IoExits, TypeOK, ServerTypes
<1>6. ioPc' \in {"Top", "Scan", "Distribute", "Exited"}
  BY DEF OnRead, Reject, Accept, IoExits
<1>7. ioMsg' \in Obj \cup {Null} /\ ioFrom' \in {"Scan", "Top"}
  BY DEF OnRead, TypeOK, IoTypes
<1> QED BY <1>4, <1>5, <1>6, <1>7 DEF IoTypes

\* acquire takes a message from the pool or makes one.
LEMMA AcquireTypes ==
  ASSUME TypeOK, NEW c \in Conn, Acquire(c)
  PROVE  PoolTypes' /\ StoreTypes'
<1> USE DEF PoolTypes, StoreTypes
<1>0. PoolTypes /\ StoreTypes
  BY DEF TypeOK
<1>1. CASE messagePool[c] # << >>
  <2>1. Head(messagePool[c]) \in Obj /\ Tail(messagePool[c]) \in Seq(Obj)
    BY <1>0, <1>1, TailElements
  <2> QED BY <1>0, <1>1, <2>1 DEF Acquire
<1>2. CASE messagePool[c] = << >>
  <2>1. /\ allocated + 1 \in Obj /\ allocated + 1 \in 0..MaxObjects
        /\ c \in Nat
    BY <1>0, <1>2, ServerAssumption DEF Acquire, Obj, Conn
  <2>2. NewMessage(c) \in Messages
    BY <2>1, MessageTypes
  <2> QED BY <1>0, <1>2, <2>1, <2>2 DEF Acquire
<1> QED BY <1>1, <1>2

\* A Deleter puts an object into a pool.
LEMMA ReturnToPoolTypes ==
  ASSUME TypeOK, NEW o \in Obj, ReturnToPool(o),
         UNCHANGED <<readMessage, allocated>>
  PROVE  PoolTypes'
<1> USE DEF PoolTypes
<1>0. PoolTypes
  BY DEF TypeOK
<1> DEFINE c == message[o].connectionId
<1>1. CASE c \in Conn
  <2>1. <<o>> \o messagePool[c] \in Seq(Obj)
    BY <1>0, <1>1, PrependTypes
  <2> QED BY <1>0, <2>1 DEF ReturnToPool
<1>2. CASE c \notin Conn
  BY <1>0, <1>2 DEF ReturnToPool
<1> QED BY <1>1, <1>2

\* Variables that stay as they are keep their types.
LEMMA TypesKept ==
  ASSUME TypeOK
  PROVE  /\ UNCHANGED clientVars => ClientTypes'
         /\ UNCHANGED pipe => PipeTypes'
         /\ UNCHANGED connVars => ConnTypes'
         /\ UNCHANGED readVars => ReadTypes'
         /\ UNCHANGED poolVars => PoolTypes'
         /\ UNCHANGED message => StoreTypes'
         /\ UNCHANGED ioVars => IoTypes'
         /\ UNCHANGED emitMessageQueue => QueueTypes'
         /\ UNCHANGED emitVars => EmitTypes'
         /\ UNCHANGED <<running, ownerPc>> => ServerTypes'
<1> USE DEF TypeOK
<1>1. UNCHANGED clientVars => ClientTypes'
  BY DEF clientVars, ClientTypes
<1>2. UNCHANGED pipe => PipeTypes'
  BY DEF PipeTypes
<1>3. UNCHANGED connVars => ConnTypes'
  BY DEF connVars, ConnTypes
<1>4. UNCHANGED readVars => ReadTypes'
  BY DEF readVars, ReadTypes
<1>5. UNCHANGED poolVars => PoolTypes'
  BY DEF poolVars, PoolTypes
<1>6. UNCHANGED message => StoreTypes'
  BY DEF StoreTypes
<1>7. UNCHANGED ioVars => IoTypes'
  BY DEF ioVars, IoTypes
<1>8. UNCHANGED emitMessageQueue => QueueTypes'
  BY DEF QueueTypes
<1>9. UNCHANGED emitVars => EmitTypes'
  BY DEF emitVars, EmitTypes
<1>10. UNCHANGED <<running, ownerPc>> => ServerTypes'
  BY DEF ServerTypes
<1> QED BY <1>1, <1>2, <1>3, <1>4, <1>5, <1>6, <1>7, <1>8, <1>9, <1>10

-----------------------------------------------------------------------------
\* The variables have their types in the initial states.
LEMMA InitTypes == Init => TypeOK
<1> SUFFICES ASSUME Init PROVE TypeOK
  OBVIOUS
<1>1. NewMessage(0) \in Messages
  BY MessageTypes
<1>2. /\ \A S : << >> \in Seq(S)
      /\ 0 \in 0..(MaxClients + 1) /\ 0 \in 0..(MaxClients + 2) /\ 0 \in 0..MaxObjects
  BY ServerAssumption
<1> USE <1>1, <1>2 DEF Init, Null
<1>3. ClientTypes /\ PipeTypes
  BY DEF ClientTypes, PipeTypes
<1>4. ConnTypes /\ ReadTypes
  BY DEF ConnTypes, ReadTypes
<1>5. PoolTypes /\ StoreTypes /\ QueueTypes
  BY DEF PoolTypes, StoreTypes, QueueTypes
<1>6. IoTypes /\ EmitTypes /\ ServerTypes
  BY DEF IoTypes, EmitTypes, ServerTypes
<1> QED BY <1>3, <1>4, <1>5, <1>6 DEF TypeOK

\* Each step of a client keeps the types.
LEMMA ClientStepTypes ==
  ASSUME TypeOK, Ownership, ClientNext
  PROVE  TypeOK'
<1>1. ASSUME NEW c \in Conn, ClientConnect(c) PROVE TypeOK'
  <2>1. ClientTypes' /\ ConnTypes'
    BY <1>1 DEF ClientConnect, TypeOK, ClientTypes, ConnTypes
  <2> QED BY <1>1, <2>1, TypesKept DEF ClientConnect, TypeOK
<1>2. ASSUME NEW c \in Conn, NEW size \in Sizes, ClientSend(c, size) PROVE TypeOK'
  <2> DEFINE w == Len(sent[c]) + 1
             m == [id |-> w, data |-> Payload(c, w, size)]
  <2>0. ClientTypes
    BY DEF TypeOK
  <2>1. w \in Nat /\ size \in SizeType
    BY <2>0, ServerAssumption DEF ClientTypes
  <2>2. /\ Header(c, w) \in Seq(Byte)
        /\ Payload(c, w, size) \in Seq(Byte)
        /\ Len(Payload(c, w, size)) = size
    BY <2>1, PayloadTypes
  <2>3. Header(c, w) \o Payload(c, w, size) \in Seq(Byte)
    BY <2>2
  <2>4. m \in SentMessages
    BY <2>1, <2>2 DEF SentMessages
  <2>5. /\ client' = client
        /\ sent' = [sent EXCEPT ![c] = Append(@, m)]
        /\ \/ Write(c, Header(c, w) \o Payload(c, w, size)) /\ UNCHANGED unwritten
           \/ /\ Write(c, Header(c, w))
              /\ unwritten' = [unwritten EXCEPT ![c] = Payload(c, w, size)]
        /\ UNCHANGED <<connVars, poolVars, message, ioVars,
                       emitMessageQueue, emitVars, running, ownerPc>>
    BY <1>2 DEF ClientSend
  <2> HIDE DEF w, m
  <2>6. Append(sent[c], m) \in Seq(SentMessages)
    BY <2>0, <2>4 DEF ClientTypes
  <2>7. ClientTypes'
    BY <2>0, <2>2, <2>5, <2>6 DEF ClientTypes
  <2>8. PipeTypes' /\ ReadTypes'
    BY <2>2, <2>3, <2>5, WriteTypes
  <2> QED BY <2>5, <2>7, <2>8, TypesKept DEF TypeOK
<1>3. ASSUME NEW c \in Conn, ClientSendRest(c) PROVE TypeOK'
  <2>1. unwritten[c] \in Seq(Byte) /\ << >> \in Seq(Byte)
    BY DEF TypeOK, ClientTypes
  <2>2. PipeTypes' /\ ReadTypes'
    BY <1>3, <2>1, WriteTypes DEF ClientSendRest
  <2>3. ClientTypes'
    BY <1>3, <2>1 DEF ClientSendRest, TypeOK, ClientTypes
  <2> QED BY <1>3, <2>2, <2>3, TypesKept DEF ClientSendRest, TypeOK
<1>4. ASSUME NEW c \in Conn, ClientSendNothing(c) PROVE TypeOK'
  <2>1. << >> \in Seq(Byte)
    OBVIOUS
  <2>2. PipeTypes' /\ ReadTypes'
    BY <1>4, <2>1, WriteTypes DEF ClientSendNothing
  <2> QED BY <1>4, <2>2, TypesKept DEF ClientSendNothing, TypeOK
<1>5. ASSUME NEW c \in Conn, ClientClose(c) PROVE TypeOK'
  <2>1. ClientTypes' /\ ReadTypes'
    BY <1>5 DEF ClientClose, TypeOK, ClientTypes, ReadTypes
  <2> QED BY <1>5, <2>1, TypesKept DEF ClientClose, TypeOK
<1> QED BY <1>1, <1>2, <1>3, <1>4, <1>5 DEF ClientNext

\* startRead, whichever way ReadFile answers, keeps the types.
LEMMA IoStartReadTypes ==
  ASSUME TypeOK, Ownership, IoStartRead
  PROVE  TypeOK'
<1> DEFINE n == ReadSize(message[readMessage[cur]])
           frame == Head(pipe[cur])
           rest == Remainder(frame, n)
           taken == Transfer(frame, n)
<1>1. /\ cur \in Conn /\ readMessage[cur] \in Obj
      /\ cur \in 0..(MaxClients + 2) /\ cur + 1 \in 0..(MaxClients + 2)
  BY ServerAssumption DEF IoStartRead, StartsRead, TypeOK, ConnTypes, IoTypes,
     PoolTypes, Ownership, LastIdle, Conn
<1>2. pipe[cur] \in Seq(Seq(Byte)) /\ n \in Nat
  BY <1>1, MessageTypes DEF TypeOK, PipeTypes, StoreTypes
<1>3. pipe[cur] # << >> => frame \in Seq(Byte) /\ Tail(pipe[cur]) \in Seq(Seq(Byte))
  BY <1>2
<1>4. pipe[cur] # << >> => /\ taken \in Seq(Byte)
                           /\ <<rest>> \o Tail(pipe[cur]) \in Seq(Seq(Byte))
  BY <1>2, <1>3, TransferTypes, PrependTypes
<1>5. UNCHANGED <<clientVars, connVars, poolVars, emitMessageQueue, emitVars, ownerPc>>
  BY DEF IoStartRead
<1> SUFFICES PipeTypes' /\ ReadTypes' /\ StoreTypes' /\ IoTypes' /\ ServerTypes'
  BY <1>5, TypesKept DEF TypeOK
<1> HIDE DEF rest, taken, n, frame
<1>6. CASE /\ readIO' = [readIO EXCEPT ![cur] = "Pending"]
           /\ cur' = cur + 1
           /\ UNCHANGED <<pipe, transferred, message, ioPc, ioMsg, ioFrom, running>>
  BY <1>1, <1>5, <1>6 DEF TypeOK, PipeTypes, ReadTypes, StoreTypes, IoTypes, ServerTypes
<1>7. CASE /\ IF pipe[cur] = << >> THEN client[cur] = "closed" /\ UNCHANGED pipe
              ELSE frame = << >> /\ pipe' = [pipe EXCEPT ![cur] = Tail(@)]
           /\ IoExits
           /\ UNCHANGED <<readVars, message, cur, ioMsg, ioFrom>>
  <2>1. PipeTypes'
    BY <1>1, <1>3, <1>7 DEF TypeOK, PipeTypes
  <2>2. IoTypes' /\ ServerTypes'
    BY <1>5, <1>7 DEF IoExits, TypeOK, IoTypes, ServerTypes
  <2> QED BY <1>7, <2>1, <2>2, TypesKept
<1>8. CASE /\ pipe[cur] # << >>
           /\ pipe' = [pipe EXCEPT ![cur] = <<rest>> \o Tail(@)]
           /\ readIO' = [readIO EXCEPT ![cur] = "Done"]
           /\ transferred' = [transferred EXCEPT ![cur] = taken]
           /\ cur' = cur + 1
           /\ UNCHANGED <<message, ioPc, ioMsg, ioFrom, running>>
  <2>1. PipeTypes' /\ ReadTypes'
    BY <1>1, <1>4, <1>8 DEF TypeOK, PipeTypes, ReadTypes
  <2>2. IoTypes' /\ ServerTypes'
    BY <1>1, <1>5, <1>8 DEF TypeOK, IoTypes, ServerTypes
  <2> QED BY <1>8, <2>1, <2>2, TypesKept
<1>9. CASE /\ pipe[cur] # << >>
           /\ pipe' = [pipe EXCEPT ![cur] = Tail(@)]
           /\ OnRead(cur, readMessage[cur], frame, "Scan")
           /\ UNCHANGED <<readVars, cur>>
  <2>1. StoreTypes' /\ IoTypes' /\ ServerTypes'
    BY <1>1, <1>3, <1>5, <1>9, OnReadTypes
  <2>2. PipeTypes'
    BY <1>1, <1>3, <1>9 DEF TypeOK, PipeTypes
  <2> QED BY <1>9, <2>1, <2>2, TypesKept
<1> QED BY <1>6, <1>7, <1>8, <1>9 DEF IoStartRead, n, frame, rest, taken

\* Each step of the I/O thread keeps the types.
LEMMA IoStepTypes ==
  ASSUME TypeOK, Ownership, IoNext
  PROVE  TypeOK'
<1>1. CASE IoStopped
  <2>1. IoTypes' /\ ServerTypes'
    BY <1>1 DEF IoStopped, IoExits, TypeOK, IoTypes, ServerTypes
  <2> QED BY <1>1, <2>1, TypesKept DEF IoStopped, TypeOK
<1>2. CASE IoCreate
  <2>1. ClientTypes' /\ ConnTypes'
    BY <1>2 DEF IoCreate, TypeOK, ClientTypes, ConnTypes
  <2>2. IoTypes' /\ ServerTypes'
    BY <1>2 DEF IoCreate, IoExits, TypeOK, IoTypes, ServerTypes
  <2> QED BY <1>2, <2>1, <2>2, TypesKept DEF IoCreate, TypeOK
<1>3. CASE IoPush
  <2>1. ConnTypes'
    BY <1>3, ServerAssumption DEF IoPush, TypeOK, ConnTypes, Ownership, LastIdle
  <2>2. IoTypes'
    BY <1>3, ServerAssumption DEF IoPush, TypeOK, IoTypes
  <2> QED BY <1>3, <2>1, <2>2, TypesKept DEF IoPush, TypeOK
<1>4. CASE IoNoCreate
  <2>1. IoTypes'
    BY <1>4, ServerAssumption DEF IoNoCreate, TypeOK, IoTypes
  <2> QED BY <1>4, <2>1, TypesKept DEF IoNoCreate, TypeOK
<1>5. CASE IoSkip
  <2>1. IoTypes'
    BY <1>5, ServerAssumption DEF IoSkip, TypeOK, ConnTypes, IoTypes
  <2> QED BY <1>5, <2>1, TypesKept DEF IoSkip, TypeOK
<1>6. CASE IoAcquire
  <2>1. cur \in Conn
    BY <1>6, ServerAssumption DEF IoAcquire, StartsRead, TypeOK, ConnTypes,
       IoTypes, Ownership, LastIdle, Conn
  <2>2. PoolTypes' /\ StoreTypes'
    BY <1>6, <2>1, AcquireTypes DEF IoAcquire
  <2> QED BY <1>6, <2>2, TypesKept DEF IoAcquire, TypeOK
<1>7. CASE IoStartRead
  BY <1>7, IoStartReadTypes
<1>8. CASE IoDistribute
  <2>1. ioMsg \in Obj
    BY <1>8 DEF IoDistribute, TypeOK, IoTypes, Ownership, IoMsgHeld, Distributing
  <2>2. QueueTypes'
    BY <1>8, <2>1 DEF IoDistribute, Enqueue, TypeOK, QueueTypes
  <2>3. IoTypes' /\ EmitTypes'
    BY <1>8 DEF IoDistribute, TypeOK, IoTypes, EmitTypes
  <2> QED BY <1>8, <2>2, <2>3, TypesKept DEF IoDistribute, TypeOK
<1>9. CASE IoSwap
  <2>1. cur \in Conn
    BY <1>9 DEF IoSwap, Ownership, IoMsgHeld, Distributing
  <2>2. PoolTypes' /\ StoreTypes'
    BY <1>9, <2>1, AcquireTypes DEF IoSwap
  <2>3. IoTypes'
    BY <1>9 DEF IoSwap, TypeOK, IoTypes
  <2> QED BY <1>9, <2>2, <2>3, TypesKept DEF IoSwap, TypeOK
<1>10. CASE IoRelease
  <2>1. ioMsg \in Obj
    BY <1>10 DEF IoRelease, TypeOK, IoTypes, Ownership, IoMsgHeld, Distributing
  <2>2. PoolTypes'
    <3>1. CASE UNCHANGED messagePool
      BY <1>10, <3>1 DEF IoRelease, TypeOK, PoolTypes
    <3>2. CASE ReturnToPool(ioMsg)
      BY <1>10, <2>1, <3>2, ReturnToPoolTypes DEF IoRelease
    <3> QED BY <1>10, <3>1, <3>2 DEF IoRelease
  <2>3. IoTypes'
    BY <1>10 DEF IoRelease, TypeOK, IoTypes
  <2> QED BY <1>10, <2>2, <2>3, TypesKept DEF IoRelease, TypeOK
<1>11. CASE IoScanned
  <2>1. IoTypes'
    BY <1>11 DEF IoScanned, TypeOK, IoTypes
  <2> QED BY <1>11, <2>1, TypesKept DEF IoScanned, TypeOK
<1>12. CASE IoWaitFails
  <2>1. IoTypes' /\ ServerTypes'
    BY <1>12 DEF IoWaitFails, IoExits, TypeOK, IoTypes, ServerTypes
  <2> QED BY <1>12, <2>1, TypesKept DEF IoWaitFails, TypeOK
<1>13. ASSUME NEW c \in Conn, IoConnectEvent(c) PROVE TypeOK'
  <2>1. ConnTypes' /\ IoTypes'
    BY <1>13 DEF IoConnectEvent, TypeOK, ConnTypes, IoTypes
  <2> QED BY <1>13, <2>1, TypesKept DEF IoConnectEvent, TypeOK
<1>14. ASSUME NEW c \in Conn, IoReadEvent(c) PROVE TypeOK'
  <2>1. readMessage[c] \in Obj
    BY <1>14 DEF IoReadEvent, TypeOK, PoolTypes, Ownership, ReadHasMessage, KernelOwns
  <2>2. transferred[c] \in Seq(Byte) /\ c \in 0..(MaxClients + 2)
    BY ServerAssumption DEF TypeOK, ReadTypes, Conn
  <2>3. StoreTypes' /\ IoTypes' /\ ServerTypes'
    BY <1>14, <2>1, <2>2, OnReadTypes DEF IoReadEvent
  <2>4. ReadTypes'
    BY <1>14 DEF IoReadEvent, TypeOK, ReadTypes
  <2> QED BY <1>14, <2>3, <2>4, TypesKept DEF IoReadEvent, TypeOK
<1>15. ASSUME NEW c \in Conn, IoBrokenEvent(c) PROVE TypeOK'
  <2>1. IoTypes' /\ ServerTypes'
    BY <1>15 DEF IoBrokenEvent, IoExits, TypeOK, IoTypes, ServerTypes
  <2> QED BY <1>15, <2>1, TypesKept DEF IoBrokenEvent, TypeOK
<1> QED BY <1>1, <1>2, <1>3, <1>4, <1>5, <1>6, <1>7, <1>8, <1>9, <1>10, <1>11,
           <1>12, <1>13, <1>14, <1>15 DEF IoNext

\* Dropping the emit thread's pointer keeps the types.
LEMMA EmitReleaseTypes ==
  ASSUME TypeOK, emitMsg # Null, EmitRelease, UNCHANGED <<readMessage, allocated>>
  PROVE  PoolTypes' /\ emitMsg' \in Obj \cup {Null}
<1>1. emitMsg \in Obj
  BY DEF TypeOK, EmitTypes
<1>2. CASE UNCHANGED messagePool
  BY <1>2 DEF EmitRelease, TypeOK, PoolTypes
<1>3. CASE ReturnToPool(emitMsg)
  BY <1>1, <1>3, ReturnToPoolTypes DEF EmitRelease
<1> QED BY <1>2, <1>3 DEF EmitRelease

\* All instances are closed.
LEMMA ClosePipesTypes ==
  ASSUME TypeOK, ClosePipes, UNCHANGED <<sent, nconn, connected>> \/
                             (sent' = sent /\ connected' = connected /\ nconn' = 0)
  PROVE  ClientTypes' /\ PipeTypes' /\ ConnTypes' /\ ReadTypes'
<1>1. /\ << >> \in Seq(Byte) /\ << >> \in Seq(Seq(Byte))
      /\ 0 \in 0..(MaxClients + 1)
  BY ServerAssumption
<1>2. ClientTypes' /\ PipeTypes'
  BY <1>1 DEF ClosePipes, TypeOK, ClientTypes, PipeTypes
<1>3. ConnTypes' /\ ReadTypes'
  BY <1>1 DEF ClosePipes, TypeOK, ConnTypes, ReadTypes
<1> QED BY <1>2, <1>3

\* Each step of the emit thread keeps the types.
LEMMA EmitStepTypes ==
  ASSUME TypeOK, Ownership, Whole, EmitNext \/ EmitSpuriousWake
  PROVE  TypeOK'
<1> USE DEF ioOwned
<1>1. CASE EmitTop
  <2>1. EmitTypes' /\ ServerTypes'
    BY <1>1 DEF EmitTop, TypeOK, EmitTypes, ServerTypes
  <2> QED BY <1>1, <2>1, TypesKept DEF EmitTop, TypeOK
<1>2. CASE EmitTest
  <2>1. emitMessageQueue \in Seq(Obj)
    BY DEF TypeOK, QueueTypes
  <2>2. emitMessageQueue # << >> =>
          Head(emitMessageQueue) \in Obj /\ Tail(emitMessageQueue) \in Seq(Obj)
    BY <2>1, TailElements
  <2>3. QueueTypes' /\ EmitTypes'
    BY <1>2, <2>1, <2>2 DEF EmitTest, TypeOK, QueueTypes, EmitTypes
  <2> QED BY <1>2, <2>3, TypesKept DEF EmitTest, TypeOK
<1>3. CASE EmitSleep \/ EmitSpuriousWake
  <2>1. EmitTypes'
    BY <1>3 DEF EmitSleep, EmitSpuriousWake, TypeOK, EmitTypes
  <2> QED BY <1>3, <2>1, TypesKept DEF EmitSleep, EmitSpuriousWake, TypeOK
<1>4. CASE EmitLookup
  <2>1. EmitTypes'
    BY <1>4 DEF EmitLookup, TypeOK, EmitTypes
  <2> QED BY <1>4, <2>1, TypesKept DEF EmitLookup, TypeOK
<1>5. CASE EmitLookupMisses
  <2>1. PoolTypes' /\ emitMsg' \in Obj \cup {Null}
    BY <1>5, EmitReleaseTypes DEF EmitLookupMisses, LookupRaces, Ownership, EmitMsgHeld
  <2>2. EmitTypes'
    BY <1>5, <2>1 DEF EmitLookupMisses, TypeOK, EmitTypes
  <2> QED BY <1>5, <2>1, <2>2, TypesKept DEF EmitLookupMisses, TypeOK
<1>6. CASE EmitLookupCrashes
  <2>1. ClientTypes' /\ PipeTypes' /\ ConnTypes' /\ ReadTypes'
    BY <1>6, ClosePipesTypes DEF EmitLookupCrashes
  <2>2. IoTypes' /\ EmitTypes' /\ ServerTypes'
    BY <1>6 DEF EmitLookupCrashes, TypeOK, IoTypes, EmitTypes, ServerTypes
  <2> QED BY <1>6, <2>1, <2>2, TypesKept DEF EmitLookupCrashes, TypeOK
<1>7. CASE EmitHandle
  <2> DEFINE m == message[emitMsg]
             c == m.connectionId
             Record == [id : Nat, data : Seq(Byte)]
  <2>1. emitMsg \in Obj /\ emitMsg # Null
    BY <1>7 DEF EmitHandle, TypeOK, EmitTypes, Ownership, EmitMsgHeld
  <2>2. m \in Messages /\ Sound(m) /\ m.allDataRead
    BY <2>1 DEF TypeOK, StoreTypes, Whole, Given
  <2>3. /\ m.header.id \in Nat /\ m.header.size \in Nat
        /\ m.data \in Seq(Byte) /\ m.header.size <= Len(m.data)
    BY <2>2 DEF Messages, Headers, SizeType, Sound
  <2>4. HandedOver(m) \in Record
    BY <2>3 DEF HandedOver
  <2>5. delivered \in [Conn -> Seq(Record)]
    BY DEF TypeOK, EmitTypes
  <2>6. delivered' = [delivered EXCEPT ![c] = Append(@, HandedOver(m))]
    BY <1>7 DEF EmitHandle
  <2> HIDE DEF m, c, Record
  <2>7. delivered' \in [Conn -> Seq(Record)]
    <3>1. CASE c \in Conn
      <4>1. Append(delivered[c], HandedOver(m)) \in Seq(Record)
        BY <2>4, <2>5, <3>1
      <4> QED BY <2>5, <2>6, <4>1
    <3>2. CASE c \notin Conn
      BY <2>5, <2>6, <3>2
    <3> QED BY <3>1, <3>2
  <2>8. PoolTypes' /\ emitMsg' \in Obj \cup {Null}
    BY <1>7, <2>1, EmitReleaseTypes DEF EmitHandle
  <2>9. EmitTypes'
    BY <1>7, <2>7, <2>8 DEF EmitHandle, EmitTypes, Record
  <2> QED BY <1>7, <2>8, <2>9, TypesKept DEF EmitHandle, TypeOK
<1> QED BY <1>1, <1>2, <1>3, <1>4, <1>5, <1>6, <1>7 DEF EmitNext

\* Each step of stop and of the destructor keeps the types.
LEMMA OwnerStepTypes ==
  ASSUME TypeOK, OwnerStop \/ OwnerDestroys
  PROVE  TypeOK'
<1> USE DEF ioOwned
<1>1. CASE OwnerStop
  <2>1. EmitTypes' /\ ServerTypes'
    BY <1>1 DEF OwnerStop, TypeOK, EmitTypes, ServerTypes
  <2> QED BY <1>1, <2>1, TypesKept DEF OwnerStop, TypeOK
<1>2. CASE OwnerJoin
  <2>1. ServerTypes'
    BY <1>2 DEF OwnerJoin, TypeOK, ServerTypes
  <2> QED BY <1>2, <2>1, TypesKept DEF OwnerJoin, TypeOK
<1>3. CASE DestroyConnections
  <2>1. ClientTypes' /\ PipeTypes' /\ ConnTypes' /\ ReadTypes'
    BY <1>3, ClosePipesTypes DEF DestroyConnections
  <2>2. PoolTypes' /\ ServerTypes'
    BY <1>3 DEF DestroyConnections, TypeOK, PoolTypes, ServerTypes
  <2> QED BY <1>3, <2>1, <2>2, TypesKept DEF DestroyConnections, TypeOK
<1>4. CASE DestroyQueue
  <2>1. QueueTypes' /\ ServerTypes'
    BY <1>4 DEF DestroyQueue, TypeOK, QueueTypes, ServerTypes
  <2> QED BY <1>4, <2>1, TypesKept DEF DestroyQueue, TypeOK
<1>5. CASE DestroyQueueCrashes
  <2>1. IoTypes' /\ EmitTypes' /\ ServerTypes'
    BY <1>5 DEF DestroyQueueCrashes, TypeOK, IoTypes, EmitTypes, ServerTypes
  <2> QED BY <1>5, <2>1, TypesKept DEF DestroyQueueCrashes, TypeOK
<1> QED BY <1>1, <1>2, <1>3, <1>4, <1>5 DEF OwnerDestroys

\* Type correctness is inductive once connections that read are known to have
\* a message.
LEMMA TypeStep ==
  ASSUME TypeOK, Ownership, Whole, [Next]_vars
  PROVE  TypeOK'
<1>1. CASE UNCHANGED vars
  BY <1>1, TypesKept DEF vars, clientVars, connVars, readVars, poolVars, ioVars,
                         emitVars, TypeOK
<1> QED BY <1>1, ClientStepTypes, IoStepTypes, EmitStepTypes, OwnerStepTypes DEF Next

-----------------------------------------------------------------------------
\* What is distributed was read completely.

\* A message made by the factory of the pool is sound and not complete.
LEMMA NewMessageSound == \A c : Sound(NewMessage(c)) /\ ~NewMessage(c).allDataRead
BY SizeAssumption DEF Sound, NewMessage, NewBuffer

\* processHeader keeps a message sound.
LEMMA ProcessHeaderSound ==
  ASSUME NEW m \in Messages, Sound(m), ~IsHeaderProcessed(m), NEW h \in Headers
  PROVE  Sound(ProcessHeader(m, h))
<1>1. ~m.allDataRead
  BY DEF Sound, IsHeaderProcessed
<1>2. CASE ValidHeader(h)
  <2> DEFINE p == ProcessHeader(m, h)
             b == Resize(ResetPositions(m.buffer), h.size)
  <2>1. /\ p.header = h /\ p.headerProcessed = TRUE /\ p.allDataRead = m.allDataRead
        /\ p.buffer = b /\ p.data = << >>
    BY <1>2 DEF ProcessHeader, Messages
  <2>2. m.buffer \in Buffers /\ ResetPositions(m.buffer) \in Buffers /\ h.size \in SizeType
    BY BufferTypes DEF Messages, Headers
  <2>3. b \in Buffers /\ b.read = 0 /\ b.write = 0
    BY <2>2, BufferTypes DEF Resize, ResetPositions, Buffers
  <2>4. b.size \in Nat
    BY <2>3 DEF Buffers, SizeType
  <2> HIDE DEF p, b
  <2> QED BY <1>1, <1>2, <2>1, <2>3, <2>4 DEF Sound, p
<1>3. CASE ~ValidHeader(h)
  <2> DEFINE p == ResetMessage(m)
  <2>1. /\ p.headerProcessed = FALSE /\ p.allDataRead = FALSE
        /\ p.buffer = ResetPositions(m.buffer) /\ p.data = << >>
    BY DEF ResetMessage, Messages
  <2>2. m.buffer \in Buffers /\ ResetPositions(m.buffer) \in Buffers
    BY BufferTypes DEF Messages
  <2>3. /\ ResetPositions(m.buffer).read = 0 /\ ResetPositions(m.buffer).write = 0
        /\ ResetPositions(m.buffer).size \in Nat
    BY <2>2 DEF ResetPositions, Buffers, SizeType
  <2> HIDE DEF p
  <2>4. Sound(p)
    BY <2>1, <2>3 DEF Sound
  <2> QED BY <1>3, <2>4 DEF ProcessHeader, p
<1> QED BY <1>2, <1>3

\* Message::onRead keeps a message sound: it is complete only with all its
\* bytes.
LEMMA AcceptBytesSound ==
  ASSUME NEW m \in Messages, Sound(m), IsHeaderProcessed(m),
         NEW bytes \in Seq(Byte), FitsInBuffer(m, Len(bytes))
  PROVE  Sound(AcceptBytes(m, bytes))
<1> DEFINE b == SetWritePosition(m.buffer, WritePosition(m.buffer) + Len(bytes))
           p == AcceptBytes(m, bytes)
<1>1. /\ m.buffer \in Buffers /\ m.data \in Seq(Byte) /\ m.header \in Headers
      /\ m.headerProcessed = TRUE
  BY DEF Messages, IsHeaderProcessed
<1>2. /\ m.buffer.read = 0 /\ m.buffer.write = Len(m.data)
      /\ m.buffer.write <= m.buffer.size /\ m.buffer.size \in Nat
      /\ Len(m.data) \in Nat /\ Len(bytes) \in Nat /\ m.header.size \in Nat
  BY <1>1 DEF Sound, Buffers, SizeType, Headers
<1>3. WritePosition(m.buffer) = Len(m.data)
  BY <1>2 DEF WritePosition, Lesser
<1>4. Len(m.data) + Len(bytes) <= m.buffer.size
  BY <1>3 DEF FitsInBuffer
<1>5. b.read = 0 /\ b.write = Len(m.data) + Len(bytes) /\ b.size = m.buffer.size
  BY <1>1, <1>2, <1>3, <1>4 DEF SetWritePosition, Lesser, Buffers
<1> HIDE DEF b
<1>6. AvailableToRead(b) = Len(m.data) + Len(bytes)
  BY <1>2, <1>5 DEF AvailableToRead, Minus
<1>7. /\ p.buffer = b /\ p.data = m.data \o bytes /\ p.header = m.header
      /\ p.headerProcessed = m.headerProcessed
      /\ p.allDataRead = (m.allDataRead \/ AvailableToRead(b) = m.header.size)
  BY DEF AcceptBytes, Messages, b
<1>8. Len(p.data) = Len(m.data) + Len(bytes)
  BY <1>1, <1>7
<1> HIDE DEF p
<1>9. p.allDataRead => p.header.size <= Len(p.data)
  <2>1. p.allDataRead => m.allDataRead \/ AvailableToRead(b) = m.header.size
    BY <1>7, Zenon
  <2>2. m.allDataRead => m.header.size <= Len(m.data)
    BY DEF Sound
  <2> QED BY <1>2, <1>6, <1>7, <1>8, <2>1, <2>2
<1>10. p.buffer.read = 0 /\ p.buffer.write = Len(p.data) /\ p.buffer.write <= p.buffer.size
  BY <1>2, <1>4, <1>5, <1>7, <1>8
<1>11. p.headerProcessed => ValidHeader(p.header)
  BY <1>7 DEF IsHeaderProcessed
<1>12. p.headerProcessed
  BY <1>1, <1>7
<1>13. Sound(p)
  BY <1>9, <1>10, <1>11, <1>12 DEF Sound
<1> QED BY <1>13 DEF p

\* Nothing that is distributed has a read outstanding.
LEMMA ReadNotGiven ==
  ASSUME TypeOK, Ownership, NEW c \in Conn, readMessage[c] # Null,
         ioPc \notin {"Distribute", "Swap", "Release"}
  PROVE  ~Given(readMessage[c])
BY DEF Given, Ownership, ReadApart, IoMsgHeld, Distributing

\* onRead of a connection changes no message but that connection's, which is
\* given to nobody yet.
LEMMA OnReadWhole ==
  ASSUME TypeOK, Ownership, Whole, NEW c \in Conn, NEW from,
         NEW bytes \in Seq(Byte), NEW o \in Obj, o = readMessage[c],
         ioPc \notin {"Distribute", "Swap", "Release"},
         OnRead(c, o, bytes, from), UNCHANGED <<emitMessageQueue, emitMsg>>
  PROVE  Whole'
<1> DEFINE m == message[o]
           full == AcceptBytes(m, bytes)
<1>1. /\ message \in [Obj -> Messages] /\ m \in Messages /\ Sound(m)
      /\ \A x \in Obj : Sound(message[x])
      /\ \A x \in Obj : Given(x) => message[x].allDataRead
  BY DEF TypeOK, StoreTypes, Whole
<1>2. /\ \A x \in Obj : Given(x)' => Given(x) \/ x = ioMsg'
      /\ ~Given(o)
  <2>1. Queued' = Queued
    BY DEF Queued
  <2>2. o # Null
    BY ServerAssumption DEF Obj, Null
  <2> QED BY <2>1, <2>2, ReadNotGiven DEF Given
<1>3. CASE UNCHANGED <<message, ioMsg>>
  BY <1>1, <1>2, <1>3 DEF Whole, Given
<1>4. CASE /\ ~IsHeaderProcessed(m) /\ UNCHANGED ioMsg
           /\ \E h \in HeaderIn(c, bytes) :
                message' = [message EXCEPT ![o] = ProcessHeader(m, h)]
  <2>1. PICK h \in Headers : message' = [message EXCEPT ![o] = ProcessHeader(m, h)]
    BY <1>4, HeaderTypes
  <2>2. Sound(ProcessHeader(m, h))
    BY <1>1, <1>4, ProcessHeaderSound
  <2>3. \A x \in Obj : x # o => message'[x] = message[x]
    BY <2>1
  <2>4. message'[o] = ProcessHeader(m, h)
    BY <1>1, <2>1
  <2>5. \A x \in Obj : Given(x)' => Given(x) /\ x # o
    BY <1>2, <1>4 DEF Given
  <2> QED BY <1>1, <2>2, <2>3, <2>4, <2>5 DEF Whole
<1>5. CASE /\ IsHeaderProcessed(m) /\ FitsInBuffer(m, Len(bytes))
           /\ message' = [message EXCEPT ![o] = full]
           /\ IF full.allDataRead THEN ioMsg' = o ELSE UNCHANGED ioMsg
  <2>1. Sound(full)
    BY <1>1, <1>5, AcceptBytesSound
  <2>2. \A x \in Obj : x # o => message'[x] = message[x]
    BY <1>5
  <2>3. message'[o] = full
    BY <1>1, <1>5
  <2> HIDE DEF full
  <2>4. \A x \in Obj : Given(x)' => \/ Given(x) /\ x # o
                                    \/ x = o /\ full.allDataRead
    BY <1>2, <1>5 DEF Given
  <2> QED BY <1>1, <2>1, <2>2, <2>3, <2>4 DEF Whole
<1> QED BY <1>3, <1>4, <1>5 DEF OnRead

\* acquire gives out a message that nobody refers to.
LEMMA AcquireWhole ==
  ASSUME TypeOK, Ownership, Whole, NEW c \in Conn, Acquire(c),
         UNCHANGED <<emitMessageQueue, emitMsg, ioMsg>>
  PROVE  Whole'
<1>0. \A x \in Obj : Given(x)' <=> Given(x)
  BY DEF Given, Queued
<1>1. CASE UNCHANGED message
  BY <1>0, <1>1 DEF Whole
<1>2. CASE /\ allocated < MaxObjects
           /\ message' = [message EXCEPT ![allocated + 1] = NewMessage(c)]
  <2> DEFINE o == allocated + 1
  <2>1. /\ allocated \in Nat /\ message \in [Obj -> Messages] /\ ioMsg \in Nat
        /\ o \in Obj
    BY <1>2, ServerAssumption DEF TypeOK, PoolTypes, StoreTypes, IoTypes, Obj, Null
  <2>2. ioMsg <= allocated
    <3>1. CASE ioMsg = Null
      BY <2>1, <3>1 DEF Null
    <3>2. CASE ioMsg # Null
      BY <2>1, <3>2 DEF Ownership, IoMsgHeld, UsedAllocated, Distributing
    <3> QED BY <3>1, <3>2
  <2>3. ~Given(o)
    BY <2>1, <2>2 DEF Given, Ownership, UsedAllocated
  <2> HIDE DEF o
  <2>4. message'[o] = NewMessage(c) /\ \A x \in Obj : x # o => message'[x] = message[x]
    BY <1>2, <2>1 DEF o
  <2> QED BY <1>0, <2>3, <2>4, NewMessageSound DEF Whole
<1> QED BY <1>1, <1>2 DEF Acquire

\* Each step keeps the messages that are queued or handled whole.
LEMMA WholeStep ==
  ASSUME TypeOK, Ownership, Whole, [Next]_vars
  PROVE  Whole'
<1> DEFINE Fewer == UNCHANGED message /\ \A o \in Obj : Given(o)' => Given(o)
<1>1. ASSUME Fewer PROVE Whole'
  BY <1>1 DEF Whole
<1>2. ASSUME UNCHANGED <<message, emitMessageQueue, emitMsg, ioMsg>> PROVE Whole'
  BY <1>2 DEF Whole, Given, Queued
<1>3. CASE UNCHANGED vars
  BY <1>2, <1>3 DEF vars
<1>4. CASE ClientNext
  BY <1>2, <1>4 DEF ClientNext, ClientConnect, ClientSend, ClientSendRest,
     ClientSendNothing, ClientClose, ioVars, emitVars
<1>5. CASE IoAcquire
  <2>1. cur \in Conn
    BY <1>5, ServerAssumption DEF IoAcquire, StartsRead, TypeOK, ConnTypes,
       IoTypes, Ownership, LastIdle, Conn
  <2> QED BY <1>5, <2>1, AcquireWhole DEF IoAcquire, ioVars, emitVars
<1>6. CASE IoSwap
  <2>1. cur \in Conn
    BY <1>6 DEF IoSwap, Ownership, IoMsgHeld, Distributing
  <2> QED BY <1>6, <2>1, AcquireWhole DEF IoSwap, emitVars
<1>7. CASE IoStartRead
  <2>1. /\ cur \in Conn /\ readMessage[cur] \in Obj
        /\ ioPc \notin {"Distribute", "Swap", "Release"}
    BY <1>7, ServerAssumption DEF IoStartRead, StartsRead, TypeOK, ConnTypes,
       IoTypes, PoolTypes, Ownership, LastIdle, Conn
  <2>2. pipe[cur] # << >> => Head(pipe[cur]) \in Seq(Byte)
    BY <2>1 DEF TypeOK, PipeTypes
  <2>3. UNCHANGED <<emitMessageQueue, emitMsg>>
    BY <1>7 DEF IoStartRead, emitVars
  <2>4. CASE UNCHANGED <<message, ioMsg>>
    BY <1>2, <2>3, <2>4
  <2>5. CASE /\ pipe[cur] # << >>
             /\ OnRead(cur, readMessage[cur], Head(pipe[cur]), "Scan")
    BY <2>1, <2>2, <2>3, <2>5, OnReadWhole
  <2> QED BY <1>7, <2>4, <2>5 DEF IoStartRead
<1>8. ASSUME NEW c \in Conn, IoReadEvent(c) PROVE Whole'
  <2>1. /\ readMessage[c] \in Obj /\ transferred[c] \in Seq(Byte)
        /\ ioPc \notin {"Distribute", "Swap", "Release"}
    BY <1>8 DEF IoReadEvent, TypeOK, PoolTypes, ReadTypes, Ownership,
       ReadHasMessage, KernelOwns
  <2> QED BY <1>8, <2>1, OnReadWhole DEF IoReadEvent, emitVars
<1>9. CASE IoDistribute
  <2>1. ioMsg \in Obj /\ emitMessageQueue \in Seq(Obj)
    BY <1>9 DEF IoDistribute, TypeOK, IoTypes, QueueTypes, Ownership, IoMsgHeld,
       Distributing
  <2>2. Queued' = Queued \cup {ioMsg}
    BY <1>9, <2>1, AppendElements DEF IoDistribute, Enqueue, Queued
  <2> QED BY <1>1, <1>9, <2>2 DEF IoDistribute, Given
<1>10. CASE IoRelease
  BY <1>1, <1>10 DEF IoRelease, Given, Null, Obj, Queued, emitVars
<1>11. CASE IoStopped \/ IoCreate \/ IoPush \/ IoNoCreate \/ IoSkip \/ IoScanned \/ IoWaitFails
  BY <1>2, <1>11 DEF IoStopped, IoCreate, IoPush, IoNoCreate, IoSkip, IoScanned,
     IoWaitFails, ioVars, emitVars
<1>12. ASSUME NEW c \in Conn, IoConnectEvent(c) \/ IoBrokenEvent(c) PROVE Whole'
  BY <1>2, <1>12 DEF IoConnectEvent, IoBrokenEvent, emitVars
<1>13. CASE EmitTop \/ EmitSleep \/ EmitSpuriousWake \/ EmitLookup \/ EmitLookupCrashes
  BY <1>2, <1>13 DEF EmitTop, EmitSleep, EmitSpuriousWake, EmitLookup,
     EmitLookupCrashes, ioOwned, ioVars
<1>14. CASE EmitTest
  <2>1. CASE UNCHANGED <<emitMessageQueue, emitMsg>>
    BY <1>2, <1>14, <2>1 DEF EmitTest, ioOwned, ioVars
  <2>2. CASE /\ emitMessageQueue # << >>
             /\ emitMsg' = Head(emitMessageQueue)
             /\ emitMessageQueue' = Tail(emitMessageQueue)
    <3>1. emitMessageQueue \in Seq(Obj)
      BY DEF TypeOK, QueueTypes
    <3>2. emitMsg' \in Queued /\ Queued' \subseteq Queued
      BY <2>2, <3>1, TailElements DEF Queued
    <3> QED BY <1>1, <1>14, <3>2 DEF EmitTest, Given, ioOwned, ioVars
  <2> QED BY <1>14, <2>1, <2>2 DEF EmitTest
<1>15. CASE EmitLookupMisses \/ EmitHandle
  BY <1>1, <1>15 DEF EmitLookupMisses, EmitHandle, EmitRelease, Given, Null, Obj,
     Queued, ioOwned, ioVars
<1>16. CASE OwnerStop \/ OwnerJoin \/ DestroyConnections \/ DestroyQueueCrashes
  BY <1>2, <1>16 DEF OwnerStop, OwnerJoin, DestroyConnections, DestroyQueueCrashes,
     ioOwned, ioVars, emitVars
<1>17. CASE DestroyQueue
  <2>1. Queued' = {}
    BY <1>17 DEF DestroyQueue, Queued, Range
  <2> QED BY <1>1, <1>17, <2>1 DEF DestroyQueue, Given, ioOwned, ioVars, emitVars
<1> QED BY <1>3, <1>4, <1>5, <1>6, <1>7, <1>8, <1>9, <1>10, <1>11, <1>12, <1>13,
           <1>14, <1>15, <1>16, <1>17 DEF Next, IoNext, EmitNext, OwnerDestroys

-----------------------------------------------------------------------------
\* Each Message object keeps one owner.

\* Which of the parts of Ownership are about the objects themselves.
Held == PoolsApart /\ PooledUnused /\ UsedAllocated /\ QueueApart /\ ReadApart

\* The objects in the pools and in the queue are objects, not null pointers.
LEMMA HeldObjects ==
  ASSUME TypeOK
  PROVE  /\ Null \notin Obj
         /\ \A c \in Conn : Pooled(c) \subseteq Obj
         /\ Queued \subseteq Obj
<1>1. Null \notin Obj
  BY ServerAssumption DEF Null, Obj
<1>2. ASSUME NEW s \in Seq(Obj) PROVE Range(s) \subseteq Obj
  BY DEF Range
<1> QED BY <1>1, <1>2 DEF TypeOK, PoolTypes, QueueTypes, Pooled, Queued

\* Nothing changes hands, or onRead takes a reference to the message read.
LEMMA HeldKept ==
  ASSUME TypeOK, Ownership,
         UNCHANGED <<messagePool, allocated, emitMessageQueue, emitMsg, readMessage>>,
         ioMsg' \in {ioMsg, Null} \/ \E c \in Conn : ioMsg' = readMessage[c],
         ioPc = "Swap" => UNCHANGED <<ioPc, cur>>
  PROVE  Held'
<1>1. /\ Queued' = Queued
      /\ \A c \in Conn : Pooled(c)' = Pooled(c) /\ Pooled(c) \subseteq Obj
      /\ Null \notin Obj
  BY HeldObjects DEF Queued, Pooled
<1>2. PoolsApart' /\ UsedAllocated' /\ QueueApart'
  BY <1>1 DEF Ownership, PoolsApart, UsedAllocated, QueueApart
<1>3. ReadApart'
  BY <1>1 DEF Ownership, ReadApart
<1>4. PooledUnused'
  <2>1. SUFFICES ASSUME NEW c \in Conn, NEW o \in Pooled(c) PROVE o # ioMsg'
    BY <1>1 DEF Ownership, PooledUnused
  <2>2. /\ o # ioMsg /\ o # Null /\ \A d \in Conn : readMessage[d] # o
    BY <1>1 DEF Ownership, PooledUnused
  <2> QED BY <2>2
<1> QED BY <1>2, <1>3, <1>4 DEF Held

\* acquire gives connection cur an object that nobody refers to; readMessage_
\* was null, or is a message that was given away.
LEMMA HeldAcquire ==
  ASSUME TypeOK, Ownership, cur \in Conn, Acquire(cur),
         UNCHANGED <<emitMessageQueue, emitMsg, ioMsg, cur>>,
         ioPc' # "Swap"
  PROVE  /\ Held'
         /\ readMessage'[cur] # Null /\ allocated' >= allocated
         /\ ioMsg # readMessage'[cur]
         /\ \A d \in Conn : d # cur => readMessage'[d] = readMessage[d]
<1> DEFINE o == readMessage'[cur]
<1>1. /\ messagePool \in [Conn -> Seq(Obj)] /\ readMessage \in [Conn -> Obj \cup {Null}]
      /\ allocated \in 0..MaxObjects /\ MaxObjects \in Nat
      /\ emitMsg \in Obj \cup {Null} /\ ioMsg \in Obj \cup {Null}
  BY ServerAssumption DEF TypeOK, PoolTypes, EmitTypes, IoTypes
<1>2. /\ Null \notin Obj /\ Queued \subseteq Obj /\ Queued' = Queued
      /\ \A c \in Conn : Pooled(c) \subseteq Obj
  BY HeldObjects DEF Queued
<1>3. ioMsg # Null => ioMsg <= allocated
  BY DEF Ownership, IoMsgHeld, UsedAllocated, Distributing
<1>4. /\ o \in Obj /\ o <= allocated' /\ allocated' \in {allocated, allocated + 1}
      /\ \A d \in Conn : d # cur => readMessage'[d] = readMessage[d]
      /\ o \notin Queued /\ o # emitMsg /\ o # ioMsg
      /\ \A d \in Conn : readMessage[d] # o
      /\ \A c \in Conn : /\ Pooled(c)' \subseteq Pooled(c) /\ o \notin Pooled(c)'
                         /\ IsInjective(messagePool'[c])
  <2>1. CASE messagePool[cur] # << >>
    <3> DEFINE h == Head(messagePool[cur])
               t == Tail(messagePool[cur])
    <3>1. /\ h \in Obj /\ h \in Pooled(cur)
          /\ Range(t) \subseteq Pooled(cur)
          /\ IsInjective(messagePool[cur]) => IsInjective(t) /\ h \notin Range(t)
      BY <1>1, <2>1, TailElements DEF Pooled
    <3>2. /\ readMessage' = [readMessage EXCEPT ![cur] = h]
          /\ messagePool' = [messagePool EXCEPT ![cur] = t]
          /\ allocated' = allocated
      BY <2>1 DEF Acquire
    <3> HIDE DEF h, t
    <3>3. /\ o = h /\ messagePool'[cur] = t
          /\ \A d \in Conn : d # cur => /\ readMessage'[d] = readMessage[d]
                                        /\ messagePool'[d] = messagePool[d]
      BY <1>1, <3>2
    <3>4. /\ h <= allocated /\ h \notin Queued /\ h # emitMsg /\ h # ioMsg
          /\ \A d \in Conn : readMessage[d] # h
      BY <3>1 DEF Ownership, PooledUnused
    <3>5. ASSUME NEW c \in Conn
          PROVE  /\ Pooled(c)' \subseteq Pooled(c) /\ h \notin Pooled(c)'
                 /\ IsInjective(messagePool'[c])
      <4>1. CASE c = cur
        BY <3>1, <3>3, <4>1 DEF Pooled, Ownership, PoolsApart
      <4>2. CASE c # cur
        <5>1. Pooled(c)' = Pooled(c) /\ messagePool'[c] = messagePool[c]
          BY <3>3, <4>2 DEF Pooled
        <5> QED BY <3>1, <4>2, <5>1 DEF Ownership, PoolsApart
      <4> QED BY <4>1, <4>2
    <3> QED BY <3>1, <3>2, <3>3, <3>4, <3>5
  <2>2. CASE messagePool[cur] = << >>
    <3>1. /\ allocated < MaxObjects /\ allocated' = allocated + 1
          /\ readMessage' = [readMessage EXCEPT ![cur] = allocated + 1]
          /\ messagePool' = messagePool
      BY <2>2 DEF Acquire
    <3>2. /\ o = allocated + 1 /\ o \in Obj /\ o <= allocated'
          /\ \A d \in Conn : d # cur => readMessage'[d] = readMessage[d]
      BY <1>1, <3>1 DEF Obj
    <3>3. /\ \A x \in Queued : x <= allocated
          /\ emitMsg <= allocated
          /\ \A c \in Conn : readMessage[c] <= allocated
          /\ \A c \in Conn : \A x \in Pooled(c) : x <= allocated
      BY DEF Ownership, UsedAllocated, PooledUnused
    <3>4. /\ \A x \in Obj \cup {Null} : x \in Nat
          /\ allocated \in Nat
      BY <1>1 DEF Obj, Null
    <3>5. \A c \in Conn : Pooled(c)' = Pooled(c) /\ IsInjective(messagePool'[c])
      BY <3>1 DEF Pooled, Ownership, PoolsApart
    <3> HIDE DEF o
    <3>6. \A x \in Obj \cup {Null} : x <= allocated => x # o
      BY <3>2, <3>4
    <3>7. o \notin Queued /\ o # emitMsg /\ o # ioMsg
      BY <1>1, <1>2, <1>3, <3>2, <3>3, <3>6
    <3>8. \A c \in Conn : readMessage[c] # o /\ o \notin Pooled(c)
      BY <1>1, <1>2, <3>3, <3>6
    <3> QED BY <3>1, <3>2, <3>5, <3>7, <3>8
  <2> QED BY <2>1, <2>2
<1> HIDE DEF o
<1>5. /\ allocated \in Nat /\ allocated' \in Nat /\ allocated' >= allocated
      /\ \A x \in Obj \cup {Null} : x <= allocated => x <= allocated'
  BY <1>1, <1>4 DEF Obj, Null
<1>6. PoolsApart'
  BY <1>4 DEF Ownership, PoolsApart
<1>7. PooledUnused'
  <2>1. SUFFICES ASSUME NEW c \in Conn, NEW x \in Pooled(c)'
                 PROVE  /\ x <= allocated' /\ x \notin Queued /\ x # emitMsg /\ x # ioMsg
                        /\ \A d \in Conn : readMessage'[d] # x
    BY <1>2 DEF PooledUnused
  <2>2. /\ x \in Pooled(c) /\ x \in Obj /\ x # o
    BY <1>2, <1>4
  <2>3. /\ x <= allocated /\ x \notin Queued /\ x # emitMsg /\ x # ioMsg
        /\ \A d \in Conn : readMessage[d] # x
    BY <2>2 DEF Ownership, PooledUnused
  <2>4. \A d \in Conn : readMessage'[d] # x
    BY <1>4, <2>2, <2>3 DEF o
  <2> QED BY <1>5, <2>2, <2>3, <2>4
<1>8. UsedAllocated'
  <2>1. \A c \in Conn : readMessage'[c] <= allocated'
    <3>1. SUFFICES ASSUME NEW c \in Conn PROVE readMessage'[c] <= allocated'
      OBVIOUS
    <3>2. CASE c = cur
      BY <1>4, <3>2 DEF o
    <3>3. CASE c # cur
      BY <1>1, <1>4, <1>5, <3>3 DEF Ownership, UsedAllocated
    <3> QED BY <3>2, <3>3
  <2>2. emitMsg <= allocated' /\ \A x \in Queued : x <= allocated'
    BY <1>1, <1>2, <1>5 DEF Ownership, UsedAllocated
  <2> QED BY <1>2, <2>1, <2>2 DEF UsedAllocated
<1>9. QueueApart'
  BY <1>2 DEF Ownership, QueueApart
<1>10. ReadApart'
  <2>1. SUFFICES ASSUME NEW c \in Conn, readMessage'[c] # Null
                 PROVE  /\ \A d \in Conn : readMessage'[d] = readMessage'[c] => d = c
                        /\ readMessage'[c] \notin Queued /\ readMessage'[c] # emitMsg
    BY <1>2 DEF ReadApart
  <2>2. CASE c = cur
    BY <1>4, <2>2 DEF o
  <2>3. CASE c # cur
    BY <1>4, <2>1, <2>3 DEF o, Ownership, ReadApart
  <2> QED BY <2>2, <2>3
<1> QED BY <1>2, <1>4, <1>5, <1>6, <1>7, <1>8, <1>9, <1>10 DEF Held, o

\* The last reference to an object is dropped: it is in one pool afterwards.
LEMMA HeldReturn ==
  ASSUME TypeOK, Ownership, NEW o \in Obj, ReturnToPool(o),
         UNCHANGED <<readMessage, allocated, emitMessageQueue>>,
         emitMsg' \in {emitMsg, Null} \ {o}, ioMsg' \in {ioMsg, Null} \ {o},
         o <= allocated, o \notin Queued,
         \A c \in Conn : o \notin Pooled(c) /\ readMessage[c] # o,
         ioPc = "Swap" => UNCHANGED <<ioPc, cur>>
  PROVE  Held'
<1> DEFINE k == message[o].connectionId
<1>1. /\ messagePool \in [Conn -> Seq(Obj)]
      /\ messagePool' = [messagePool EXCEPT ![k] = <<o>> \o @]
      /\ Null \notin Obj /\ Null \notin Queued /\ Queued' = Queued
      /\ \A c \in Conn : Pooled(c) \subseteq Obj
      /\ allocated \in Nat
  BY HeldObjects DEF TypeOK, PoolTypes, ReturnToPool, Queued
<1> HIDE DEF k
<1>2. ASSUME NEW c \in Conn
      PROVE  /\ IsInjective(messagePool'[c])
             /\ Pooled(c)' = IF c = k THEN Pooled(c) \cup {o} ELSE Pooled(c)
  <2>1. IsInjective(messagePool[c]) /\ messagePool[c] \in Seq(Obj)
    BY <1>1 DEF Ownership, PoolsApart
  <2>2. CASE c = k
    <3>1. messagePool'[c] = <<o>> \o messagePool[c]
      BY <1>1, <2>2
    <3> QED BY <2>1, <2>2, <3>1, PushElements DEF Pooled
  <2>3. CASE c # k
    <3>1. messagePool'[c] = messagePool[c]
      BY <1>1, <2>3
    <3> QED BY <2>1, <2>3, <3>1 DEF Pooled
  <2> QED BY <2>2, <2>3
<1>3. PoolsApart'
  BY <1>2 DEF Ownership, PoolsApart
<1>4. PooledUnused'
  <2>1. SUFFICES ASSUME NEW c \in Conn, NEW x \in Pooled(c)'
                 PROVE  /\ x <= allocated /\ x \notin Queued /\ x # emitMsg' /\ x # ioMsg'
                        /\ \A d \in Conn : readMessage[d] # x
    BY <1>1 DEF PooledUnused
  <2>2. CASE x = o
    BY <2>2
  <2>3. CASE x # o
    <3>1. x \in Pooled(c) /\ x # Null
      BY <1>1, <1>2, <2>1, <2>3
    <3> QED BY <3>1 DEF Ownership, PooledUnused
  <2> QED BY <2>2, <2>3
<1>5. UsedAllocated'
  BY <1>1 DEF Ownership, UsedAllocated, Null
<1>6. QueueApart'
  BY <1>1 DEF Ownership, QueueApart
<1>7. ReadApart'
  BY <1>1 DEF Ownership, ReadApart
<1> QED BY <1>3, <1>4, <1>5, <1>6, <1>7 DEF Held

\* The emit thread drops its message: onRead may still refer to it.
LEMMA HeldEmitRelease ==
  ASSUME TypeOK, Ownership, emitMsg # Null, EmitRelease,
         UNCHANGED <<readMessage, allocated, emitMessageQueue, ioPc, cur, ioMsg>>
  PROVE  Held'
<1>1. /\ emitMsg \in Obj /\ Null \notin Obj /\ Queued \subseteq Obj /\ Queued' = Queued
      /\ \A c \in Conn : Pooled(c) \subseteq Obj
      /\ allocated \in Nat /\ emitMsg' = Null
  <2>1. emitMsg \in Obj /\ allocated \in Nat
    BY ServerAssumption DEF TypeOK, EmitTypes, PoolTypes
  <2>2. Queued' = Queued /\ emitMsg' = Null
    BY DEF Queued, EmitRelease
  <2> QED BY <2>1, <2>2, HeldObjects
<1>2. CASE ioMsg = emitMsg
  <2>1. UNCHANGED messagePool
    BY <1>2 DEF EmitRelease
  <2>2. \A c \in Conn : Pooled(c)' = Pooled(c)
    BY <2>1 DEF Pooled
  <2>3. PoolsApart' /\ PooledUnused'
    BY <1>1, <2>1, <2>2 DEF Ownership, PoolsApart, PooledUnused
  <2>4. UsedAllocated' /\ QueueApart' /\ ReadApart'
    BY <1>1 DEF Ownership, UsedAllocated, QueueApart, ReadApart, Null
  <2> QED BY <2>3, <2>4 DEF Held
<1>3. CASE ioMsg # emitMsg
  <2>1. ReturnToPool(emitMsg)
    BY <1>3 DEF EmitRelease
  <2>2. \A c \in Conn : readMessage[c] # emitMsg
    BY <1>1, <1>3 DEF Ownership, ReadApart, IoMsgHeld
  <2>3. emitMsg <= allocated /\ emitMsg \notin Queued
    BY DEF Ownership, UsedAllocated, QueueApart
  <2>4. \A c \in Conn : emitMsg \notin Pooled(c)
    BY DEF Ownership, PooledUnused
  <2> QED BY <1>1, <1>3, <2>1, <2>2, <2>3, <2>4, HeldReturn
<1> QED BY <1>2, <1>3

\* A message is distributed: emitMessage gives it to the queue.
LEMMA HeldDistribute ==
  ASSUME TypeOK, Ownership, IoDistribute
  PROVE  Held'
<1>1. /\ emitMessageQueue \in Seq(Obj) /\ ioMsg \in Obj /\ cur \in Conn
      /\ readMessage[cur] = ioMsg /\ Null \notin Obj
      /\ \A c \in Conn : Pooled(c) \subseteq Obj
  BY HeldObjects DEF IoDistribute, TypeOK, QueueTypes, IoTypes, Ownership, IoMsgHeld,
     Distributing
<1>2. /\ ioMsg \notin Queued /\ ioMsg # emitMsg
      /\ \A c \in Conn : readMessage[c] = ioMsg => c = cur
  BY <1>1 DEF IoDistribute, Ownership, ReadApart
<1>3. /\ Queued' = Queued \cup {ioMsg}
      /\ IsInjective(emitMessageQueue) => IsInjective(emitMessageQueue')
  BY <1>1, <1>2, AppendElements DEF IoDistribute, Enqueue, Queued
<1>4. /\ UNCHANGED <<messagePool, allocated, emitMsg, readMessage, ioMsg, cur>>
      /\ ioPc' = "Swap" /\ ioPc = "Distribute"
      /\ \A c \in Conn : Pooled(c)' = Pooled(c)
  BY DEF IoDistribute, poolVars, Pooled
<1>5. PoolsApart' /\ QueueApart'
  BY <1>2, <1>3, <1>4 DEF Ownership, PoolsApart, QueueApart
<1>6. UsedAllocated'
  BY <1>1, <1>3, <1>4 DEF Ownership, UsedAllocated
<1>7. PooledUnused'
  BY <1>3, <1>4 DEF Ownership, PooledUnused
<1>8. ReadApart'
  BY <1>1, <1>2, <1>3, <1>4 DEF Ownership, ReadApart
<1> QED BY <1>5, <1>6, <1>7, <1>8 DEF Held

\* onRead returns: it drops the last reference, or the handler has it still.
LEMMA HeldIoRelease ==
  ASSUME TypeOK, Ownership, IoRelease
  PROVE  Held'
<1>1. /\ ioMsg \in Obj /\ ioMsg' = Null /\ ioPc = "Release"
      /\ UNCHANGED <<readMessage, allocated, emitMessageQueue, emitMsg, cur>>
      /\ Null \notin Obj
  BY HeldObjects DEF IoRelease, TypeOK, IoTypes, Ownership, IoMsgHeld, Distributing,
     emitVars
<1>2. CASE UNCHANGED messagePool
  BY <1>1, <1>2, HeldKept
<1>3. CASE ioMsg \notin Queued /\ ioMsg # emitMsg /\ ReturnToPool(ioMsg)
  <2>1. ioMsg <= allocated /\ \A c \in Conn : readMessage[c] # ioMsg
    BY <1>1 DEF Ownership, IoMsgHeld
  <2>2. \A c \in Conn : ioMsg \notin Pooled(c)
    BY DEF Ownership, PooledUnused
  <2> QED BY <1>1, <1>3, <2>1, <2>2, HeldReturn
<1> QED BY <1>2, <1>3 DEF IoRelease

\* nextEmitMessage takes the oldest message off the queue.
LEMMA HeldEmitTest ==
  ASSUME TypeOK, Ownership, EmitTest
  PROVE  Held'
<1>0. UNCHANGED <<messagePool, allocated, readMessage, ioMsg, ioPc, cur>>
  BY DEF EmitTest, ioOwned, ioVars, poolVars
<1>1. CASE UNCHANGED <<emitMessageQueue, emitMsg>>
  BY <1>0, <1>1, HeldKept
<1>2. CASE /\ emitMessageQueue # << >>
           /\ emitMsg' = Head(emitMessageQueue)
           /\ emitMessageQueue' = Tail(emitMessageQueue)
  <2>1. emitMessageQueue \in Seq(Obj)
    BY DEF TypeOK, QueueTypes
  <2>2. /\ emitMsg' \in Queued /\ Queued' \subseteq Queued
        /\ IsInjective(emitMessageQueue) =>
             IsInjective(emitMessageQueue') /\ emitMsg' \notin Queued'
    BY <1>2, <2>1, TailElements DEF Queued
  <2>3. \A c \in Conn : Pooled(c)' = Pooled(c)
    BY <1>0 DEF Pooled
  <2>4. PoolsApart' /\ QueueApart' /\ UsedAllocated'
    BY <1>0, <2>2, <2>3 DEF Ownership, PoolsApart, QueueApart, UsedAllocated
  <2>5. PooledUnused'
    BY <1>0, <2>2, <2>3 DEF Ownership, PooledUnused
  <2>6. ReadApart'
    BY <1>0, <2>2 DEF Ownership, ReadApart
  <2> QED BY <2>4, <2>5, <2>6 DEF Held
<1> QED BY <1>1, <1>2 DEF EmitTest

\* What is destroyed with the server is held by nobody.
LEMMA HeldDestroy ==
  ASSUME TypeOK, Ownership, DestroyConnections \/ DestroyQueue
  PROVE  Held'
<1> USE DEF ioOwned, ioVars, emitVars, poolVars
<1>1. ioPc = "Exited" /\ ioMsg = Null
  BY DEF DestroyConnections, DestroyQueue, Ownership, OwnerAlone, IoMsgHeld,
     Distributing
<1>2. \A S : Range(<< >>) = {} /\ IsInjective(<< >>)
  BY DEF Range, IsInjective
<1>3. CASE DestroyConnections
  <2>1. /\ UNCHANGED <<allocated, emitMessageQueue, emitMsg, ioMsg>>
        /\ \A c \in Conn : readMessage'[c] = Null /\ messagePool'[c] = << >>
    BY <1>3 DEF DestroyConnections
  <2>2. Queued' = Queued /\ \A c \in Conn : Pooled(c)' = {}
    BY <1>2, <2>1 DEF Queued, Pooled
  <2>3. PoolsApart' /\ PooledUnused'
    BY <1>2, <2>1, <2>2 DEF PoolsApart, PooledUnused
  <2>4. QueueApart' /\ ReadApart'
    BY <2>1, <2>2 DEF Ownership, QueueApart, ReadApart
  <2>5. UsedAllocated'
    BY <2>1, <2>2 DEF Ownership, UsedAllocated, TypeOK, PoolTypes, Null
  <2> QED BY <2>3, <2>4, <2>5 DEF Held
<1>4. CASE DestroyQueue
  <2>1. /\ UNCHANGED <<allocated, emitMsg, ioMsg, readMessage, messagePool, ioPc, cur>>
        /\ emitMessageQueue' = << >>
    BY <1>4 DEF DestroyQueue
  <2>2. Queued' = {} /\ \A c \in Conn : Pooled(c)' = Pooled(c)
    BY <1>2, <2>1 DEF Queued, Pooled
  <2>3. PoolsApart' /\ PooledUnused'
    BY <2>1, <2>2 DEF Ownership, PoolsApart, PooledUnused
  <2>4. QueueApart' /\ ReadApart' /\ UsedAllocated'
    BY <1>2, <2>1, <2>2 DEF Ownership, QueueApart, ReadApart, UsedAllocated
  <2> QED BY <2>3, <2>4 DEF Held
<1> QED BY <1>3, <1>4

\* Every step hands the objects on as Ownership says.
LEMMA HeldStep ==
  ASSUME TypeOK, Ownership, [Next]_vars
  PROVE  Held'
<1>1. ASSUME UNCHANGED <<poolVars, emitMessageQueue, emitMsg, ioMsg>>,
             ioPc = "Swap" => UNCHANGED <<ioPc, cur>>
      PROVE  Held'
  BY <1>1, HeldKept DEF poolVars
<1>2. CASE UNCHANGED vars
  BY <1>1, <1>2 DEF vars, poolVars
<1>3. CASE ClientNext
  <2>1. UNCHANGED <<poolVars, emitMessageQueue, emitMsg, ioMsg, ioPc, cur>>
    BY <1>3 DEF ClientNext, ClientConnect, ClientSend, ClientSendRest,
       ClientSendNothing, ClientClose, ioVars, emitVars
  <2> QED BY <1>1, <2>1
<1>4. CASE IoStopped \/ IoCreate \/ IoPush \/ IoNoCreate \/ IoSkip \/ IoScanned \/ IoWaitFails
  BY <1>1, <1>4 DEF IoStopped, IoCreate, IoPush, IoNoCreate, IoSkip, IoScanned,
     IoWaitFails, ioVars, emitVars
<1>5. CASE IoAcquire
  <2>1. cur \in Conn
    BY <1>5, ServerAssumption DEF IoAcquire, StartsRead, TypeOK, ConnTypes,
       IoTypes, Ownership, LastIdle, Conn
  <2> QED BY <1>5, <2>1, HeldAcquire DEF IoAcquire, StartsRead, ioVars, emitVars
<1>6. CASE IoStartRead
  <2>1. /\ cur \in Conn /\ ioPc = "Scan"
        /\ UNCHANGED <<poolVars, emitMessageQueue, emitMsg>>
    BY <1>6, ServerAssumption DEF IoStartRead, StartsRead, TypeOK, ConnTypes,
       IoTypes, Ownership, LastIdle, Conn, emitVars
  <2>2. ioMsg' \in {ioMsg, readMessage[cur]}
    BY <1>6 DEF IoStartRead, OnRead
  <2> QED BY <2>1, <2>2, HeldKept DEF poolVars
<1>7. CASE IoDistribute
  BY <1>7, HeldDistribute
<1>8. CASE IoSwap
  <2>1. cur \in Conn
    BY <1>8 DEF IoSwap, Ownership, IoMsgHeld, Distributing
  <2> QED BY <1>8, <2>1, HeldAcquire DEF IoSwap, emitVars
<1>9. CASE IoRelease
  BY <1>9, HeldIoRelease
<1>10. ASSUME NEW c \in Conn, IoConnectEvent(c) \/ IoBrokenEvent(c) PROVE Held'
  BY <1>1, <1>10 DEF IoConnectEvent, IoBrokenEvent, emitVars
<1>11. ASSUME NEW c \in Conn, IoReadEvent(c) PROVE Held'
  <2>1. ioPc = "Wait" /\ UNCHANGED <<poolVars, emitMessageQueue, emitMsg>>
    BY <1>11 DEF IoReadEvent, emitVars
  <2>2. ioMsg' \in {ioMsg, readMessage[c]}
    BY <1>11 DEF IoReadEvent, OnRead
  <2> QED BY <2>1, <2>2, HeldKept DEF poolVars
<1>12. CASE EmitTop \/ EmitSleep \/ EmitSpuriousWake \/ EmitLookup \/ EmitLookupCrashes
  BY <1>1, <1>12 DEF EmitTop, EmitSleep, EmitSpuriousWake, EmitLookup,
     EmitLookupCrashes, LookupRaces, ioOwned, ioVars
<1>13. CASE EmitTest
  BY <1>13, HeldEmitTest
<1>14. CASE EmitLookupMisses \/ EmitHandle
  <2>1. /\ emitMsg # Null /\ EmitRelease
        /\ UNCHANGED <<readMessage, allocated, emitMessageQueue, ioPc, cur, ioMsg>>
    BY <1>14 DEF EmitLookupMisses, EmitHandle, LookupRaces, Ownership, EmitMsgHeld,
       ioOwned, ioVars
  <2> QED BY <2>1, HeldEmitRelease
<1>15. CASE OwnerStop \/ OwnerJoin
  BY <1>1, <1>15 DEF OwnerStop, OwnerJoin, ioOwned, ioVars, emitVars
<1>16. CASE DestroyConnections \/ DestroyQueue
  BY <1>16, HeldDestroy
<1>17. CASE DestroyQueueCrashes
  <2>1. ioPc # "Swap"
    BY <1>17 DEF DestroyQueueCrashes, Ownership, OwnerAlone
  <2> QED BY <1>17, <2>1, HeldKept DEF DestroyQueueCrashes, poolVars
<1> QED BY <1>2, <1>3, <1>4, <1>5, <1>6, <1>7, <1>8, <1>9, <1>10, <1>11, <1>12,
           <1>13, <1>14, <1>15, <1>16, <1>17 DEF Next, IoNext, EmitNext, OwnerDestroys

-----------------------------------------------------------------------------
\* The control of the threads fits the objects they hold.

\* A write, a close or the loss of the pipes leaves an idle read idle, and
\* signals none that was idle.
LEMMA ReadIOKept ==
  ASSUME TypeOK, ClientNext, NEW c \in Conn
  PROVE  /\ readIO[c] = "Idle" => readIO'[c] = "Idle"
         /\ KernelOwns(c)' => KernelOwns(c)
<1> USE DEF KernelOwns, TypeOK, ReadTypes
<1>1. ASSUME NEW d \in Conn, NEW bytes, Write(d, bytes)
      PROVE  /\ readIO[c] = "Idle" => readIO'[c] = "Idle"
             /\ KernelOwns(c)' => KernelOwns(c)
  BY <1>1 DEF Write, readVars
<1>2. ASSUME NEW d \in Conn, ClientClose(d)
      PROVE  /\ readIO[c] = "Idle" => readIO'[c] = "Idle"
             /\ KernelOwns(c)' => KernelOwns(c)
  BY <1>2 DEF ClientClose
<1> QED BY <1>1, <1>2 DEF ClientNext, ClientConnect, ClientSend, ClientSendRest,
           ClientSendNothing, readVars

\* Each step leaves every connection that reads with a message to read into.
LEMMA ReadHasMessageStep ==
  ASSUME TypeOK, Ownership, [Next]_vars
  PROVE  ReadHasMessage'
<1>0. ReadHasMessage /\ readIO \in [Conn -> {"Idle", "Pending", "Done", "Broken"}]
  BY DEF Ownership, TypeOK, ReadTypes
<1>1. ASSUME UNCHANGED readMessage, \A c \in Conn : KernelOwns(c)' => KernelOwns(c)
      PROVE  ReadHasMessage'
  BY <1>0, <1>1 DEF ReadHasMessage
<1>2. ASSUME UNCHANGED <<readMessage, readIO>> PROVE ReadHasMessage'
  BY <1>0, <1>2 DEF ReadHasMessage, KernelOwns
<1>3. CASE UNCHANGED vars
  BY <1>2, <1>3 DEF vars
<1>4. CASE ClientNext
  <2>1. UNCHANGED readMessage
    BY <1>4 DEF ClientNext, ClientConnect, ClientSend, ClientSendRest,
       ClientSendNothing, ClientClose, poolVars
  <2> QED BY <1>1, <1>4, <2>1, ReadIOKept
<1>5. CASE IoAcquire \/ IoSwap
  <2>1. /\ cur \in Conn /\ Acquire(cur) /\ ioPc' # "Swap"
        /\ UNCHANGED <<emitMessageQueue, emitMsg, ioMsg, cur, readIO>>
    BY <1>5, ServerAssumption DEF IoAcquire, IoSwap, StartsRead, TypeOK, ConnTypes,
       IoTypes, Ownership, LastIdle, IoMsgHeld, Distributing, Conn, ioVars, emitVars,
       readVars
  <2>2. \A c \in Conn : readMessage'[c] # Null \/ readMessage'[c] = readMessage[c]
    BY <2>1, HeldAcquire
  <2> QED BY <1>0, <2>1, <2>2 DEF ReadHasMessage, KernelOwns
<1>6. CASE IoStartRead
  BY <1>0, <1>6 DEF IoStartRead, ReadHasMessage, KernelOwns, poolVars, readVars
<1>7. ASSUME NEW c \in Conn, IoReadEvent(c) PROVE ReadHasMessage'
  BY <1>0, <1>7 DEF IoReadEvent, ReadHasMessage, KernelOwns, poolVars
<1>8. CASE \/ IoStopped \/ IoCreate \/ IoPush \/ IoNoCreate \/ IoSkip
           \/ IoDistribute \/ IoRelease \/ IoScanned \/ IoWaitFails
  BY <1>2, <1>8 DEF IoStopped, IoCreate, IoPush, IoNoCreate, IoSkip, IoDistribute,
     IoRelease, IoScanned, IoWaitFails, poolVars, readVars
<1>9. ASSUME NEW c \in Conn, IoConnectEvent(c) \/ IoBrokenEvent(c) PROVE ReadHasMessage'
  BY <1>2, <1>9 DEF IoConnectEvent, IoBrokenEvent, poolVars, readVars
<1>10. CASE EmitLookupCrashes \/ DestroyConnections
  BY <1>10 DEF EmitLookupCrashes, DestroyConnections, ClosePipes, ReadHasMessage,
     KernelOwns
<1>11. CASE \/ EmitTop \/ EmitTest \/ EmitSleep \/ EmitSpuriousWake \/ EmitLookup
            \/ EmitLookupMisses \/ EmitHandle
  BY <1>2, <1>11 DEF EmitTop, EmitTest, EmitSleep, EmitSpuriousWake, EmitLookup,
     EmitLookupMisses, EmitHandle, ioOwned, poolVars, readVars
<1>12. CASE OwnerStop \/ OwnerJoin \/ DestroyQueue \/ DestroyQueueCrashes
  BY <1>2, <1>12 DEF OwnerStop, OwnerJoin, DestroyQueue, DestroyQueueCrashes, ioOwned,
     poolVars, readVars
<1> QED BY <1>3, <1>4, <1>5, <1>6, <1>7, <1>8, <1>9, <1>10, <1>11, <1>12
        DEF Next, IoNext, EmitNext, OwnerDestroys

\* The emit thread has a message while it looks up and handles one.
LEMMA EmitMsgHeldStep ==
  ASSUME TypeOK, Ownership, [Next]_vars
  PROVE  EmitMsgHeld'
<1>0. EmitMsgHeld
  BY DEF Ownership
<1>1. CASE UNCHANGED vars \/ ClientNext
  BY <1>0, <1>1 DEF EmitMsgHeld, vars, ClientNext, ClientConnect, ClientSend,
     ClientSendRest, ClientSendNothing, ClientClose, emitVars
<1>2. CASE IoNext
  BY <1>0, <1>2 DEF EmitMsgHeld, IoNext, IoStopped, IoCreate, IoPush, IoNoCreate,
     IoSkip, IoAcquire, IoStartRead, IoDistribute, IoSwap, IoRelease, IoScanned,
     IoWaitFails, IoConnectEvent, IoReadEvent, IoBrokenEvent, emitVars
<1>3. CASE EmitTest
  <2>1. emitMessageQueue # << >> => Head(emitMessageQueue) # Null
    BY TailElements, HeldObjects DEF TypeOK, QueueTypes
  <2> QED BY <1>0, <1>3, <2>1 DEF EmitTest, EmitMsgHeld
<1>4. CASE \/ EmitTop \/ EmitSleep \/ EmitSpuriousWake \/ EmitLookup
           \/ EmitLookupMisses \/ EmitLookupCrashes \/ EmitHandle
  BY <1>0, <1>4 DEF EmitMsgHeld, EmitTop, EmitSleep, EmitSpuriousWake, EmitLookup,
     EmitLookupMisses, EmitLookupCrashes, EmitHandle
<1>5. CASE OwnerStop \/ OwnerDestroys
  BY <1>0, <1>5 DEF EmitMsgHeld, OwnerStop, OwnerDestroys, OwnerJoin,
     DestroyConnections, DestroyQueue, DestroyQueueCrashes, emitVars
<1> QED BY <1>1, <1>2, <1>3, <1>4, <1>5 DEF Next, EmitNext

\* The server creates an instance only when all have been connected to.
LEMMA LastIdleStep ==
  ASSUME TypeOK, Ownership, [Next]_vars
  PROVE  LastIdle'
<1>0. /\ LastIdle /\ ConnTypes /\ cur \in 0..(MaxClients + 2) /\ MaxClients \in Nat
  BY ServerAssumption DEF Ownership, TypeOK, IoTypes
<1> USE <1>0 DEF ConnTypes, Conn
<1>1. ASSUME UNCHANGED <<connVars, ioPc, cur>> PROVE LastIdle'
  BY <1>1 DEF LastIdle, connVars
<1>2. CASE UNCHANGED vars
  BY <1>1, <1>2 DEF vars, connVars
<1>3. CASE ClientNext
  <2>1. CASE UNCHANGED <<connVars, ioVars>>
    BY <1>1, <2>1 DEF ioVars
  <2>2. ASSUME NEW c \in Conn, ClientConnect(c) PROVE LastIdle'
    BY <2>2 DEF ClientConnect, LastIdle, ioVars
  <2> QED BY <1>3, <2>1, <2>2 DEF ClientNext, ClientSend, ClientSendRest,
             ClientSendNothing, ClientClose
<1>4. CASE IoCreate
  <2>1. nconn <= MaxClients
    <3>1. CASE nconn = 0
      BY <3>1
    <3>2. CASE nconn # 0
      <4>1. nconn \in 1..nconn /\ nconn \in Conn
        BY <3>2
      <4> QED BY <1>4, <4>1 DEF IoCreate, ShouldCreateConnection,
                 HasAvailableConnection, LastIdle
    <3> QED BY <3>1, <3>2
  <2>2. \A c \in Conn : connected'[c] \/ connectIO'[c] = "Done" => c <= MaxClients
    BY <1>4, <2>1 DEF IoCreate, LastIdle
  <2> QED BY <1>4, <2>1, <2>2 DEF IoCreate, IoExits, LastIdle
<1>5. CASE IoPush
  BY <1>5 DEF IoPush, LastIdle
<1>6. CASE IoRelease
  <2>1. cur >= 1
    BY <1>6 DEF IoRelease, Ownership, IoMsgHeld, Distributing
  <2>2. UNCHANGED <<connVars, cur>> /\ ioPc' \in {"Top", "Scan"}
    BY <1>6 DEF IoRelease, TypeOK, IoTypes
  <2> QED BY <2>1, <2>2 DEF LastIdle, connVars
<1>7. CASE IoStartRead
  <2>1. UNCHANGED connVars /\ cur' \in {cur, cur + 1} /\ ioPc = "Scan" /\ ioPc' # "Push"
    BY <1>7 DEF IoStartRead, StartsRead, OnRead, Reject, Accept, IoExits
  <2> QED BY <2>1 DEF LastIdle, connVars
<1>8. ASSUME NEW c \in Conn, IoReadEvent(c) PROVE LastIdle'
  <2>1. UNCHANGED connVars /\ cur' = c /\ ioPc' # "Push"
    BY <1>8 DEF IoReadEvent, OnRead, Reject, Accept, IoExits
  <2> QED BY <2>1 DEF LastIdle, connVars
<1>9. ASSUME NEW c \in Conn, IoConnectEvent(c) PROVE LastIdle'
  BY <1>9 DEF IoConnectEvent, LastIdle
<1>10. CASE \/ IoStopped \/ IoNoCreate \/ IoSkip \/ IoAcquire \/ IoDistribute \/ IoSwap
            \/ IoScanned \/ IoWaitFails \/ \E c \in Conn : IoBrokenEvent(c)
  <2>1. UNCHANGED connVars /\ ioPc' # "Push" /\ (ioPc' = "Scan" => cur' >= 1)
    BY <1>10 DEF IoStopped, IoNoCreate, IoSkip, IoAcquire, StartsRead, IoDistribute,
       IoSwap, IoScanned, IoWaitFails, IoBrokenEvent, IoExits, LastIdle, ioVars
  <2> QED BY <2>1 DEF LastIdle, connVars
<1>11. CASE EmitLookupCrashes \/ DestroyConnections \/ DestroyQueueCrashes
  BY <1>11 DEF EmitLookupCrashes, DestroyConnections, DestroyQueueCrashes, ClosePipes,
     LastIdle, Ownership, OwnerAlone, ioVars, connVars
<1>12. CASE \/ EmitTop \/ EmitTest \/ EmitSleep \/ EmitSpuriousWake \/ EmitLookup
            \/ EmitLookupMisses \/ EmitHandle \/ OwnerStop \/ OwnerJoin \/ DestroyQueue
  BY <1>1, <1>12 DEF EmitTop, EmitTest, EmitSleep, EmitSpuriousWake, EmitLookup,
     EmitLookupMisses, EmitHandle, OwnerStop, OwnerJoin, DestroyQueue, ioOwned, ioVars
<1> QED BY <1>2, <1>3, <1>4, <1>5, <1>6, <1>7, <1>8, <1>9, <1>10, <1>11, <1>12
        DEF Next, IoNext, EmitNext, OwnerDestroys

\* Nothing runs any more when the owner takes the server apart.
LEMMA OwnerAloneStep ==
  ASSUME TypeOK, Ownership, [Next]_vars
  PROVE  OwnerAlone'
<1>0. OwnerAlone
  BY DEF Ownership
<1>1. CASE UNCHANGED vars \/ ClientNext
  BY <1>0, <1>1 DEF OwnerAlone, vars, ClientNext, ClientConnect, ClientSend,
     ClientSendRest, ClientSendNothing, ClientClose, emitVars, ioVars
<1>2. CASE IoNext
  <2>1. ioPc # "Exited" /\ ownerPc' = ownerPc
    BY <1>2 DEF IoNext, IoStopped, IoCreate, IoPush, IoNoCreate, IoSkip, IoAcquire,
       IoStartRead, StartsRead, IoDistribute, IoSwap, IoRelease, IoScanned,
       IoWaitFails, IoConnectEvent, IoReadEvent, IoBrokenEvent
  <2> QED BY <1>0, <2>1 DEF OwnerAlone
<1>3. CASE EmitNext \/ EmitSpuriousWake
  <2>1. emitPc # "Exited" /\ ownerPc' \in {ownerPc, "Crashed"}
    BY <1>3 DEF EmitNext, EmitTop, EmitTest, EmitSleep, EmitSpuriousWake, EmitLookup,
       EmitLookupMisses, EmitLookupCrashes, EmitHandle, LookupRaces
  <2> QED BY <1>0, <2>1 DEF OwnerAlone
<1>4. CASE OwnerStop \/ OwnerDestroys
  BY <1>0, <1>4 DEF OwnerAlone, OwnerStop, OwnerDestroys, OwnerJoin,
     DestroyConnections, DestroyQueue, DestroyQueueCrashes, emitVars, ioVars, ioOwned
<1> QED BY <1>1, <1>2, <1>3, <1>4 DEF Next

\* onRead's msg is the message of a connection that has no read outstanding,
\* until onRead has replaced it.
LEMMA IoMsgHeldStep ==
  ASSUME TypeOK, Ownership, [Next]_vars
  PROVE  IoMsgHeld'
<1>0. /\ IoMsgHeld /\ readIO \in [Conn -> {"Idle", "Pending", "Done", "Broken"}]
      /\ readMessage \in [Conn -> Obj \cup {Null}] /\ Null \notin Obj
  BY HeldObjects DEF Ownership, TypeOK, ReadTypes, PoolTypes
<1>1. ASSUME UNCHANGED <<ioMsg, ioPc, cur, readMessage, allocated>>,
             \A c \in Conn : readIO[c] = "Idle" => readIO'[c] = "Idle"
      PROVE  IoMsgHeld'
  BY <1>0, <1>1 DEF IoMsgHeld, Distributing
<1>2. ASSUME UNCHANGED ioMsg, ~Distributing, ~Distributing' PROVE IoMsgHeld'
  BY <1>0, <1>2 DEF IoMsgHeld, Distributing
<1>3. CASE UNCHANGED vars
  BY <1>1, <1>3 DEF vars
<1>4. CASE ClientNext
  <2>1. UNCHANGED <<ioMsg, ioPc, cur, readMessage, allocated>>
    BY <1>4 DEF ClientNext, ClientConnect, ClientSend, ClientSendRest,
       ClientSendNothing, ClientClose, poolVars, ioVars
  <2> QED BY <1>1, <1>4, <2>1, ReadIOKept
<1>5. CASE \/ IoStopped \/ IoCreate \/ IoPush \/ IoNoCreate \/ IoSkip \/ IoAcquire
           \/ IoScanned \/ IoWaitFails
           \/ \E c \in Conn : IoConnectEvent(c) \/ IoBrokenEvent(c)
  <2>1. UNCHANGED ioMsg /\ ~Distributing /\ ~Distributing'
    BY <1>5 DEF IoStopped, IoCreate, IoPush, IoNoCreate, IoSkip, IoAcquire, StartsRead,
       IoScanned, IoWaitFails, IoConnectEvent, IoBrokenEvent, IoExits, Distributing,
       ioVars
  <2> QED BY <1>2, <2>1
<1>6. ASSUME NEW c \in Conn, NEW bytes, NEW from \in {"Scan", "Top"}, ~Distributing,
             readMessage[c] # Null, OnRead(c, readMessage[c], bytes, from),
             cur' = c, readIO'[c] = "Idle", UNCHANGED <<readMessage, allocated>>
      PROVE  IoMsgHeld'
  <2>1. CASE ioPc' = "Distribute" /\ ioMsg' = readMessage[c]
    BY <1>6, <2>1 DEF IoMsgHeld, Distributing
  <2>2. CASE ioPc' \in {"Top", "Scan", "Exited"} /\ UNCHANGED ioMsg
    BY <1>2, <1>6, <2>2 DEF Distributing
  <2> QED BY <1>6, <2>1, <2>2 DEF OnRead, Reject, Accept, IoExits
<1>7. CASE IoStartRead
  <2>1. /\ cur \in Conn /\ ~Distributing /\ readIO[cur] = "Idle"
        /\ readMessage[cur] # Null /\ UNCHANGED <<readMessage, allocated>>
    BY <1>7, ServerAssumption DEF IoStartRead, StartsRead, TypeOK, ConnTypes,
       IoTypes, Ownership, LastIdle, Conn, Distributing, poolVars
  <2>2. CASE ioPc' \in {ioPc, "Exited"} /\ UNCHANGED ioMsg
    <3>1. ~Distributing'
      BY <1>7, <2>1, <2>2 DEF IoStartRead, StartsRead, Distributing
    <3> QED BY <1>2, <2>1, <2>2, <3>1
  <2>3. CASE /\ OnRead(cur, readMessage[cur], Head(pipe[cur]), "Scan")
             /\ UNCHANGED <<readVars, cur>>
    BY <1>6, <2>1, <2>3 DEF readVars
  <2> QED BY <1>7, <2>2, <2>3 DEF IoStartRead, IoExits
<1>8. ASSUME NEW c \in Conn, IoReadEvent(c) PROVE IoMsgHeld'
  <2>1. /\ ~Distributing /\ readMessage[c] # Null /\ readIO'[c] = "Idle" /\ cur' = c
        /\ UNCHANGED <<readMessage, allocated>>
    BY <1>0, <1>8 DEF IoReadEvent, Distributing, Ownership, ReadHasMessage, KernelOwns,
       poolVars
  <2> QED BY <1>6, <1>8, <2>1 DEF IoReadEvent
<1>9. CASE IoDistribute
  BY <1>0, <1>9 DEF IoDistribute, IoMsgHeld, Distributing, readVars, poolVars
<1>10. CASE IoSwap
  <2>1. /\ cur \in Conn /\ Acquire(cur) /\ ioPc' = "Release" /\ ioPc = "Swap"
        /\ UNCHANGED <<emitMessageQueue, emitMsg, ioMsg, cur, readIO>>
    BY <1>0, <1>10 DEF IoSwap, IoMsgHeld, Distributing, readVars, emitVars
  <2>2. /\ ioMsg # readMessage'[cur] /\ allocated' >= allocated
        /\ \A d \in Conn : d # cur => readMessage'[d] = readMessage[d]
    BY <2>1, HeldAcquire
  <2>3. ioMsg # Null /\ readMessage[cur] = ioMsg /\ ioMsg \in Nat /\ ioMsg <= allocated
    BY <1>0, <2>1, ServerAssumption DEF IoMsgHeld, Distributing, Ownership,
       UsedAllocated, TypeOK, IoTypes, Obj, Null
  <2>4. \A d \in Conn : readMessage'[d] # ioMsg
    BY <2>1, <2>2, <2>3 DEF Ownership, ReadApart
  <2>5. ioMsg <= allocated'
    <3>1. allocated \in Nat /\ allocated' \in Nat
      BY <2>1, AcquireTypes, ServerAssumption DEF TypeOK, PoolTypes
    <3> QED BY <2>2, <2>3, <3>1
  <2> QED BY <1>0, <2>1, <2>3, <2>4, <2>5 DEF IoMsgHeld, Distributing
<1>11. CASE IoRelease
  BY <1>0, <1>11 DEF IoRelease, TypeOK, IoTypes, IoMsgHeld, Distributing
<1>12. CASE EmitLookupCrashes \/ DestroyConnections \/ DestroyQueueCrashes
  <2>1. UNCHANGED ioMsg /\ ~Distributing /\ ~Distributing'
    BY <1>12 DEF EmitLookupCrashes, DestroyConnections, DestroyQueueCrashes,
       LookupRaces, Distributing,
       Ownership, OwnerAlone, ioVars
  <2> QED BY <1>2, <2>1
<1>13. CASE \/ EmitTop \/ EmitTest \/ EmitSleep \/ EmitSpuriousWake \/ EmitLookup
            \/ EmitLookupMisses \/ EmitHandle \/ OwnerStop \/ OwnerJoin \/ DestroyQueue
  BY <1>1, <1>13 DEF EmitTop, EmitTest, EmitSleep, EmitSpuriousWake, EmitLookup,
     EmitLookupMisses, EmitHandle, OwnerStop, OwnerJoin, DestroyQueue, ioOwned,
     ioVars, readVars, poolVars
<1> QED BY <1>3, <1>4, <1>5, <1>7, <1>8, <1>9, <1>10, <1>11, <1>12, <1>13
        DEF Next, IoNext, EmitNext, OwnerDestroys

-----------------------------------------------------------------------------
\* The inductive invariant: the types are kept because of who owns what (a
\* read goes into an object), and the owner of a message is known by what is
\* known of the message (it is not distributed before it is complete).
IInv == TypeOK /\ Ownership /\ Whole

\* The initial states satisfy the invariant.
LEMMA InitIInv == Init => IInv
<1> SUFFICES ASSUME Init PROVE IInv
  OBVIOUS
<1>1. TypeOK
  BY InitTypes
<1>2. Queued = {} /\ \A c \in Conn : Pooled(c) = {}
  BY DEF Init, Queued, Pooled, Range
<1>3. 0 <= 0 /\ IsInjective(<< >>) /\ Null \notin Obj
  BY <1>1, HeldObjects DEF IsInjective
<1>4. PoolsApart /\ PooledUnused /\ UsedAllocated /\ QueueApart /\ ReadApart
  BY <1>2, <1>3 DEF Init, PoolsApart, PooledUnused, UsedAllocated, QueueApart,
     ReadApart, Null
<1>5. IoMsgHeld /\ EmitMsgHeld /\ ReadHasMessage /\ LastIdle /\ OwnerAlone
  BY DEF Init, IoMsgHeld, EmitMsgHeld, ReadHasMessage, LastIdle, OwnerAlone,
     Distributing, KernelOwns
<1>6. Whole
  BY <1>2, <1>3, NewMessageSound DEF Init, Whole, Given
<1> QED BY <1>1, <1>4, <1>5, <1>6 DEF IInv, Ownership

\* The invariant is inductive.
LEMMA NextIInv == IInv /\ [Next]_vars => IInv'
<1> SUFFICES ASSUME TypeOK, Ownership, Whole, [Next]_vars PROVE IInv'
  BY DEF IInv
<1>1. TypeOK' /\ Whole'
  BY TypeStep, WholeStep
<1>2. Ownership'
  BY HeldStep, IoMsgHeldStep, EmitMsgHeldStep, ReadHasMessageStep, LastIdleStep,
     OwnerAloneStep DEF Ownership, Held
<1> QED BY <1>1, <1>2 DEF IInv

\* The invariant holds throughout.
LEMMA IInvHolds == Spec => []IInv
BY InitIInv, NextIInv, PTL DEF Spec

\* The variables have their types whatever the clients send, the handler does
\* and the scheduler chooses.
THEOREM TypeCorrect == Spec => []TypeOK
<1>1. IInv => TypeOK
  BY DEF IInv
<1> QED BY <1>1, IInvHolds, PTL

\* Every Message object has one owner at a time: acquire, emitMessage, the
\* emit thread and the Deleter hand it on, and never to two.
THEOREM OwnershipHolds == Spec => []Ownership
<1>1. IInv => Ownership
  BY DEF IInv
<1> QED BY <1>1, IInvHolds, PTL

\* ReadFile never writes into a message that a pool, the queue, the handler
\* or another connection holds.
THEOREM NoReadIntoSharedHolds == Spec => []NoReadIntoShared
<1>1. IInv => NoReadIntoShared
  <2> SUFFICES ASSUME TypeOK, Ownership, NEW c \in Conn, KernelOwns(c)
               PROVE  LET o == readMessage[c] IN
                      /\ o # Null
                      /\ o # emitMsg /\ o \notin Queued
                      /\ \A d \in Conn : o \notin Pooled(d) /\ (readMessage[d] = o => d = c)
    BY DEF IInv, NoReadIntoShared
  <2>1. readMessage[c] # Null
    BY DEF Ownership, ReadHasMessage
  <2>2. ~(ioPc = "Swap" /\ c = cur)
    BY DEF Ownership, IoMsgHeld, Distributing, KernelOwns
  <2>3. \A d \in Conn : readMessage[c] \notin Pooled(d)
    BY DEF Ownership, PooledUnused
  <2> QED BY <2>1, <2>2, <2>3 DEF Ownership, ReadApart
<1> QED BY <1>1, IInvHolds, PTL

\* A message is not given to the queue or to the handler before as many bytes
\* as its header claims were read for it.
THEOREM HandedOverWholeHolds == Spec => []HandedOverWhole
<1>1. IInv => HandedOverWhole
  BY DEF IInv, Whole, Given, Sound, HandedOverWhole
<1> QED BY <1>1, IInvHolds, PTL

\* Only onRead and the creation of an object change a Message, and both for an
\* object that was not given away.
LEMMA StableStep ==
  ASSUME TypeOK, Ownership, [Next]_vars, NEW o \in Obj, o \in Queued \/ o = emitMsg
  PROVE  message'[o] = message[o]
<1>1. ASSUME NEW c \in Conn, readMessage[c] # Null, ~Distributing,
             \/ UNCHANGED message
             \/ \E m : message' = [message EXCEPT ![readMessage[c]] = m]
      PROVE  message'[o] = message[o]
  <2>1. readMessage[c] # o
    BY <1>1, ReadNotGiven DEF Given, Distributing
  <2> QED BY <1>1, <2>1 DEF TypeOK, StoreTypes
<1>2. ASSUME NEW c \in Conn, Acquire(c) PROVE message'[o] = message[o]
  <2>1. o \in Nat /\ o <= allocated /\ allocated \in Nat
    BY ServerAssumption DEF Ownership, UsedAllocated, TypeOK, PoolTypes, Obj
  <2>2. o # allocated + 1
    BY <2>1
  <2> QED BY <1>2, <2>2 DEF Acquire, TypeOK, StoreTypes
<1>3. CASE IoAcquire \/ IoSwap
  <2>1. cur \in Conn /\ Acquire(cur)
    BY <1>3, ServerAssumption DEF IoAcquire, IoSwap, StartsRead, TypeOK, ConnTypes,
       IoTypes, Ownership, LastIdle, IoMsgHeld, Distributing, Conn
  <2> QED BY <1>2, <2>1
<1>4. CASE IoStartRead
  <2>1. /\ cur \in Conn /\ ~Distributing /\ readMessage[cur] # Null
    BY <1>4, ServerAssumption DEF IoStartRead, StartsRead, TypeOK, ConnTypes,
       IoTypes, Ownership, LastIdle, Conn, Distributing
  <2>2. \/ UNCHANGED message
        \/ \E m : message' = [message EXCEPT ![readMessage[cur]] = m]
    BY <1>4 DEF IoStartRead, OnRead
  <2> QED BY <1>1, <2>1, <2>2
<1>5. ASSUME NEW c \in Conn, IoReadEvent(c) PROVE message'[o] = message[o]
  <2>1. ~Distributing /\ readMessage[c] # Null
    BY <1>5 DEF IoReadEvent, Distributing, Ownership, ReadHasMessage, KernelOwns
  <2>2. \/ UNCHANGED message
        \/ \E m : message' = [message EXCEPT ![readMessage[c]] = m]
    BY <1>5 DEF IoReadEvent, OnRead
  <2> QED BY <1>1, <2>1, <2>2
<1>6. CASE UNCHANGED vars \/ ClientNext
  BY <1>6 DEF vars, ClientNext, ClientConnect, ClientSend, ClientSendRest,
     ClientSendNothing, ClientClose
<1>7. CASE \/ IoStopped \/ IoCreate \/ IoPush \/ IoNoCreate \/ IoSkip \/ IoDistribute
           \/ IoRelease \/ IoScanned \/ IoWaitFails
           \/ \E c \in Conn : IoConnectEvent(c) \/ IoBrokenEvent(c)
  BY <1>7 DEF IoStopped, IoCreate, IoPush, IoNoCreate, IoSkip, IoDistribute, IoRelease,
     IoScanned, IoWaitFails, IoConnectEvent, IoBrokenEvent
<1>8. CASE EmitNext \/ EmitSpuriousWake \/ OwnerStop \/ OwnerDestroys
  BY <1>8 DEF EmitNext, EmitTop, EmitTest, EmitSleep, EmitSpuriousWake, EmitLookup,
     EmitLookupMisses, EmitLookupCrashes, EmitHandle, OwnerStop, OwnerDestroys,
     OwnerJoin, DestroyConnections, DestroyQueue, DestroyQueueCrashes, ioOwned
<1> QED BY <1>3, <1>4, <1>5, <1>6, <1>7, <1>8 DEF Next, IoNext

\* While a message waits for the handler, or the handler works on it, nobody
\* writes to it: onRead replaces readMessage_ before it reads again.
THEOREM DistributedStableHolds == Spec => DistributedStable
<1>1. IInv /\ [Next]_vars =>
        [\A o \in Obj : /\ o \in Queued \/ o = emitMsg
                        /\ o \in Queued' \/ o = emitMsg'
                        => message'[o] = message[o]]_vars
  BY StableStep DEF IInv
<1> QED BY <1>1, IInvHolds, PTL DEF Spec, DistributedStable

-----------------------------------------------------------------------------
\* What the instances have come to, for the pipes and for the server.

\* The instances the I/O thread has created; the last of them may not be in
\* connections_ yet.
Made == IF ioPc = "Push" THEN nconn + 1 ELSE nconn

\* The instances that were ever created.
Created == {c \in Conn : client[c] # "none"}

\* The server has been taken apart, or has crashed.
Gone == ownerPc \in {"Unpooled", "Destroyed", "Crashed"}

\* Instances are created one after the other and up to the limit.
InstancesCounted ==
  \E k \in 0..(MaxClients + 1) : /\ Created = 1..k
                                 /\ MaxConnections # 0 => k <= MaxConnections
                                 /\ ~Gone => k = Made

\* What a client has done to its instance and what the server knows of it.
InstanceStates ==
  \A c \in Conn :
    /\ client[c] = "listening" <=> connectIO[c] = "Pending"
    /\ client[c] = "listening" => c = Made
    /\ connected[c] \/ connectIO[c] = "Done" => client[c] \in {"open", "closed"}
    /\ client[c] = "open" => connected[c] \/ connectIO[c] = "Done"
    /\ client[c] = "closed" => connected[c] \/ connectIO[c] = "Done" \/ Gone
    /\ client[c] \in {"none", "listening"} => pipe[c] = << >>

\* While an instance is created every other one has its client.
CreatesLast == ioPc = "Push" => \A c \in 1..nconn : connected[c]

\* A crash takes the I/O thread with it.
CrashedTogether == ownerPc = "Crashed" => ioPc = "Crashed"

\* All of this together is inductive next to IInv.
Instances ==
  InstancesCounted /\ InstanceStates /\ CreatesLast /\ CrashedTogether

\* Clients come and go, threads end: the instances stay the same.
LEMMA InstancesKept ==
  ASSUME InstancesCounted,
         \A c \in Conn : client'[c] = "none" <=> client[c] = "none",
         Made' = Made \/ Gone', Gone => Gone'
  PROVE  InstancesCounted'
<1>1. Created' = Created
  BY DEF Created
<1>2. PICK k \in 0..(MaxClients + 1) : /\ Created = 1..k
                                       /\ MaxConnections # 0 => k <= MaxConnections
                                       /\ ~Gone => k = Made
  BY DEF InstancesCounted
<1> QED BY <1>1, <1>2 DEF InstancesCounted

\* A client writes to an instance it has opened.
LEMMA WriteStates ==
  ASSUME TypeOK, Instances, NEW c \in Conn, NEW bytes, Write(c, bytes),
         client[c] = "open", UNCHANGED <<client, connVars, ioVars, ownerPc>>
  PROVE  Instances'
<1>1. Made' = Made /\ Gone' = Gone
  BY DEF Made, Gone, connVars, ioVars
<1>2. InstancesCounted'
  BY <1>1, InstancesKept DEF Instances
<1>3. \A d \in Conn : d # c => pipe'[d] = pipe[d]
  BY DEF Write, TypeOK, PipeTypes
<1>4. InstanceStates'
  BY <1>1, <1>3 DEF Instances, InstanceStates, connVars
<1> QED BY <1>2, <1>4 DEF Instances, CreatesLast, CrashedTogether, connVars, ioVars

\* Steps that concern neither the instances nor their clients.
LEMMA StatesKept ==
  ASSUME TypeOK, Instances, UNCHANGED <<client, connVars>>,
         \A c \in Conn : pipe[c] = << >> => pipe'[c] = << >>,
         UNCHANGED ioPc \/ ("Push" \notin {ioPc, ioPc'} /\ ioPc # "Crashed"),
         UNCHANGED Gone, ownerPc' = "Crashed" => ownerPc = "Crashed"
  PROVE  Instances'
<1>1. Made' = Made
  BY DEF Made, connVars
<1>2. InstancesCounted'
  BY <1>1, InstancesKept DEF Instances
<1>3. InstanceStates'
  BY <1>1 DEF Instances, InstanceStates, connVars
<1> QED BY <1>2, <1>3 DEF Instances, CreatesLast, CrashedTogether, connVars

\* Each step of a client leaves the instances in order.
LEMMA InstancesClientStep ==
  ASSUME TypeOK, Ownership, Instances, ClientNext
  PROVE  Instances'
<1> USE DEF TypeOK, ClientTypes, ConnTypes, PipeTypes
<1>1. ASSUME NEW c \in Conn, ClientConnect(c) PROVE Instances'
  <2>1. Made' = Made /\ Gone' = Gone
    BY <1>1 DEF ClientConnect, Made, Gone, ioVars
  <2>2. InstancesCounted'
    BY <1>1, <2>1, InstancesKept DEF Instances, ClientConnect
  <2>3. InstanceStates'
    BY <1>1, <2>1 DEF ClientConnect, Instances, InstanceStates
  <2> QED BY <1>1, <2>2, <2>3 DEF ClientConnect, Instances, CreatesLast,
             CrashedTogether, ioVars
<1>2. ASSUME NEW c \in Conn, ClientClose(c) PROVE Instances'
  <2>1. Made' = Made /\ Gone' = Gone
    BY <1>2 DEF ClientClose, Made, Gone, ioVars, connVars
  <2>2. InstancesCounted'
    BY <1>2, <2>1, InstancesKept DEF Instances, ClientClose
  <2>3. InstanceStates'
    BY <1>2, <2>1 DEF ClientClose, Instances, InstanceStates, connVars
  <2> QED BY <1>2, <2>2, <2>3 DEF ClientClose, Instances, CreatesLast,
             CrashedTogether, ioVars, connVars
<1>3. ASSUME NEW c \in Conn, NEW size \in Sizes, ClientSend(c, size) PROVE Instances'
  BY <1>3, WriteStates DEF ClientSend
<1>4. ASSUME NEW c \in Conn, ClientSendRest(c) \/ ClientSendNothing(c) PROVE Instances'
  BY <1>4, WriteStates DEF ClientSendRest, ClientSendNothing, clientVars
<1> QED BY <1>1, <1>2, <1>3, <1>4 DEF ClientNext

\* The instance that is created has been used for nothing so far, and the others
\* have their clients.
LEMMA CreateFresh ==
  ASSUME TypeOK, Ownership, Instances, IoCreate
  PROVE  LET n == nconn + 1 IN
         /\ ioPc = "Top" /\ ~Gone /\ n \in Conn /\ Created = 1..nconn
         /\ \A c \in 1..nconn : connected[c]
         /\ client[n] = "none" /\ connectIO[n] = "Idle" /\ ~connected[n]
         /\ pipe[n] = << >>
<1> DEFINE n == nconn + 1
<1>0. /\ nconn \in Nat /\ MaxClients \in Nat /\ MaxConnections \in Nat
      /\ Conn = 1..(MaxClients + 1)
      /\ client \in [Conn -> {"none", "listening", "open", "closed"}]
      /\ connected \in [Conn -> BOOLEAN]
      /\ connectIO \in [Conn -> {"Idle", "Pending", "Done"}]
  BY ServerAssumption DEF TypeOK, ClientTypes, ConnTypes, Conn
<1>1. ioPc = "Top" /\ ~Gone /\ Made = nconn
  BY DEF IoCreate, Instances, CrashedTogether, Ownership, OwnerAlone, Gone, Made
<1>2. \A c \in 1..nconn : connected[c]
  BY DEF IoCreate, ShouldCreateConnection, HasAvailableConnection
<1>3. n \in Conn
  <2>1. CASE nconn = 0
    BY <1>0, <2>1
  <2>2. CASE nconn # 0
    <3>1. nconn \in 1..nconn /\ nconn \in Conn
      BY <1>0, <2>2 DEF TypeOK, ConnTypes
    <3>2. nconn <= MaxClients
      BY <1>2, <3>1 DEF Ownership, LastIdle
    <3> QED BY <1>0, <3>2
  <2> QED BY <2>1, <2>2
<1>4. Created = 1..nconn
  BY <1>1 DEF Instances, InstancesCounted
<1>5. client[n] = "none" /\ connectIO[n] = "Idle" /\ ~connected[n] /\ pipe[n] = << >>
  <2>1. n \notin 1..nconn
    BY <1>0
  <2>2. client[n] = "none"
    BY <1>3, <1>4, <2>1 DEF Created
  <2> QED BY <1>0, <1>3, <2>2 DEF Instances, InstanceStates
<1> QED BY <1>1, <1>2, <1>3, <1>4, <1>5

\* An instance is created only next to instances that have their clients, and
\* within the limit.
LEMMA InstancesCreateStep ==
  ASSUME TypeOK, Ownership, Instances, IoCreate
  PROVE  Instances'
<1> DEFINE n == nconn + 1
<1>0. /\ nconn \in Nat /\ MaxClients \in Nat /\ MaxConnections \in Nat
      /\ Conn = 1..(MaxClients + 1)
      /\ client \in [Conn -> {"none", "listening", "open", "closed"}]
      /\ connected \in [Conn -> BOOLEAN]
      /\ connectIO \in [Conn -> {"Idle", "Pending", "Done"}]
  BY ServerAssumption DEF TypeOK, ClientTypes, ConnTypes, Conn
<1>1. ioPc = "Top" /\ ~Gone /\ Made = nconn
  BY CreateFresh DEF Made
<1>2. \A c \in 1..nconn : connected[c]
  BY CreateFresh
<1>3. n \in Conn
  BY CreateFresh
<1>4. Created = 1..nconn
  BY CreateFresh
<1>5. client[n] = "none" /\ connectIO[n] = "Idle" /\ ~connected[n] /\ pipe[n] = << >>
  BY CreateFresh
<1>6. CASE ioPc' = "Exited" /\ UNCHANGED <<client, connectIO, connected>>
  BY <1>1, <1>6, StatesKept DEF IoCreate, connVars, Gone
<1>7. CASE /\ ioPc' = "Push"
           /\ \/ /\ client' = [client EXCEPT ![n] = "listening"]
                 /\ connectIO' = [connectIO EXCEPT ![n] = "Pending"]
                 /\ connected' = connected
              \/ /\ client' = [client EXCEPT ![n] = "open"]
                 /\ connected' = [connected EXCEPT ![n] = TRUE]
                 /\ connectIO' = connectIO
  <2>1. UNCHANGED <<nconn, pipe, ownerPc>> /\ Gone' = Gone /\ Made' = n
    BY <1>7 DEF IoCreate, Gone, Made
  <2>2. Created' = 1..n
    <3>1. ASSUME NEW c \in Conn PROVE c \in Created' <=> c \in 1..n
      <4>1. CASE c = n
        BY <1>0, <1>7, <4>1 DEF Created
      <4>2. CASE c # n
        <5>1. client'[c] = client[c] /\ c \in Nat
          BY <1>0, <1>7, <4>2
        <5>2. c \in Created' <=> c \in 1..nconn
          BY <1>4, <5>1 DEF Created
        <5> QED BY <1>0, <4>2, <5>1, <5>2
      <4> QED BY <4>1, <4>2
    <3>2. Created' \subseteq Conn /\ 1..n \subseteq Conn
      BY <1>0, <1>3 DEF Created
    <3> QED BY <3>1, <3>2
  <2>3. MaxConnections # 0 => n <= MaxConnections
    BY <1>0 DEF IoCreate, ShouldCreateConnection
  <2>4. InstancesCounted'
    BY <1>0, <1>3, <2>1, <2>2, <2>3 DEF InstancesCounted
  <2>5. InstanceStates'
    <3>1. SUFFICES ASSUME NEW c \in Conn
                   PROVE  /\ client'[c] = "listening" <=> connectIO'[c] = "Pending"
                          /\ client'[c] = "listening" => c = Made'
                          /\ connected'[c] \/ connectIO'[c] = "Done"
                               => client'[c] \in {"open", "closed"}
                          /\ client'[c] = "open" => connected'[c] \/ connectIO'[c] = "Done"
                          /\ client'[c] = "closed"
                               => connected'[c] \/ connectIO'[c] = "Done" \/ Gone'
                          /\ client'[c] \in {"none", "listening"} => pipe'[c] = << >>
      BY DEF InstanceStates
    <3>2. CASE c = n
      BY <1>0, <1>5, <1>7, <2>1, <3>2
    <3>3. CASE c # n
      <4>1. /\ client'[c] = client[c] /\ connected'[c] = connected[c]
            /\ connectIO'[c] = connectIO[c] /\ pipe'[c] = pipe[c]
        BY <1>0, <1>7, <2>1, <3>3
      <4>2. client[c] # "listening"
        <5>1. client[c] = "listening" => c \in 1..nconn
          BY <1>4 DEF Created
        <5> QED BY <1>2, <5>1 DEF Instances, InstanceStates
      <4> QED BY <2>1, <4>1, <4>2 DEF Instances, InstanceStates
    <3> QED BY <3>2, <3>3
  <2>6. CreatesLast' /\ CrashedTogether'
    <3>1. \A c \in 1..nconn : connected'[c]
      BY <1>0, <1>2, <1>3, <1>7
    <3> QED BY <1>1, <2>1, <3>1 DEF CreatesLast, CrashedTogether, Gone
  <2> QED BY <2>4, <2>5, <2>6 DEF Instances
<1> QED BY <1>6, <1>7 DEF IoCreate, IoExits

\* Each step of the server's threads and of its owner leaves them in order.
LEMMA InstancesServerStep ==
  ASSUME TypeOK, Ownership, Instances,
         IoNext \/ EmitNext \/ EmitSpuriousWake \/ OwnerStop \/ OwnerDestroys
  PROVE  Instances'
<1> USE DEF TypeOK, ClientTypes, ConnTypes, PipeTypes
<1>1. CASE IoCreate
  BY <1>1, InstancesCreateStep
<1>2. CASE IoPush
  <2>1. Made' = Made /\ Gone' = Gone
    BY <1>2 DEF IoPush, Made, Gone
  <2>2. InstancesCounted'
    BY <1>2, <2>1, InstancesKept DEF Instances, IoPush, clientVars
  <2>3. InstanceStates'
    BY <1>2, <2>1 DEF IoPush, Instances, InstanceStates, clientVars
  <2> QED BY <1>2, <2>2, <2>3 DEF IoPush, Instances, CreatesLast, CrashedTogether
<1>3. CASE \/ IoStopped \/ IoNoCreate \/ IoSkip \/ IoAcquire \/ IoDistribute \/ IoSwap
           \/ IoRelease \/ IoScanned \/ IoWaitFails
           \/ \E c \in Conn : IoBrokenEvent(c)
  <2>1. /\ UNCHANGED <<client, connVars, pipe, ownerPc>>
        /\ "Push" \notin {ioPc, ioPc'} /\ ioPc # "Crashed"
    BY <1>3 DEF IoStopped, IoNoCreate, IoSkip, IoAcquire, IoDistribute, IoSwap,
       IoRelease, IoScanned, IoWaitFails, IoBrokenEvent, IoExits, StartsRead,
       clientVars, ioVars, IoTypes
  <2> QED BY <2>1, StatesKept DEF Gone
<1>4. CASE IoStartRead
  <2>1. /\ UNCHANGED <<client, connVars, ownerPc>>
        /\ "Push" \notin {ioPc, ioPc'} /\ ioPc # "Crashed"
    BY <1>4 DEF IoStartRead, OnRead, Reject, Accept, IoExits, StartsRead, clientVars
  <2>2. \A c \in Conn : pipe[c] = << >> => pipe'[c] = << >>
    BY <1>4 DEF IoStartRead
  <2> QED BY <2>1, <2>2, StatesKept DEF Gone
<1>5. ASSUME NEW c \in Conn, IoReadEvent(c) PROVE Instances'
  <2>1. /\ UNCHANGED <<client, connVars, pipe, ownerPc>>
        /\ "Push" \notin {ioPc, ioPc'} /\ ioPc # "Crashed"
    BY <1>5 DEF IoReadEvent, OnRead, Reject, Accept, IoExits, clientVars
  <2> QED BY <2>1, StatesKept DEF Gone
<1>6. ASSUME NEW c \in Conn, IoConnectEvent(c) PROVE Instances'
  <2>1. Made' = Made /\ Gone' = Gone
    BY <1>6 DEF IoConnectEvent, Made, Gone
  <2>2. InstancesCounted'
    BY <1>6, <2>1, InstancesKept DEF Instances, IoConnectEvent, clientVars
  <2>3. InstanceStates'
    BY <1>6, <2>1 DEF IoConnectEvent, Instances, InstanceStates, clientVars
  <2> QED BY <1>6, <2>2, <2>3 DEF IoConnectEvent, Instances, CreatesLast, CrashedTogether
<1>7. CASE EmitLookupCrashes \/ DestroyConnections
  <2>1. Gone' /\ (\A c \in Conn : client'[c] = "none" <=> client[c] = "none")
    BY <1>7 DEF EmitLookupCrashes, DestroyConnections, ClosePipes, Gone
  <2>2. InstancesCounted'
    BY <2>1, InstancesKept DEF Instances
  <2>3. InstanceStates'
    BY <1>7, <2>1 DEF EmitLookupCrashes, DestroyConnections, ClosePipes, Instances,
       InstanceStates
  <2>4. ioPc' # "Push"
    BY <1>7 DEF EmitLookupCrashes, DestroyConnections, ioVars, Ownership, OwnerAlone
  <2> QED BY <1>7, <2>2, <2>3, <2>4 DEF EmitLookupCrashes, DestroyConnections,
             Instances, CreatesLast, CrashedTogether
<1>8. CASE \/ EmitTop \/ EmitTest \/ EmitSleep \/ EmitSpuriousWake \/ EmitLookup
           \/ EmitLookupMisses \/ EmitHandle \/ OwnerStop \/ OwnerJoin \/ DestroyQueue
  <2>1. /\ UNCHANGED <<client, connVars, pipe, ioPc>>
        /\ UNCHANGED Gone /\ (ownerPc' = "Crashed" => ownerPc = "Crashed")
    BY <1>8 DEF EmitTop, EmitTest, EmitSleep, EmitSpuriousWake, EmitLookup,
       EmitLookupMisses, EmitHandle, OwnerStop, OwnerJoin, DestroyQueue, ioOwned,
       ioVars, clientVars, Gone
  <2> QED BY <2>1, StatesKept
<1>9. CASE DestroyQueueCrashes
  <2>1. Made' = Made /\ Gone' = Gone /\ ioPc' = "Crashed" /\ ioPc # "Push"
    BY <1>9 DEF DestroyQueueCrashes, Made, Gone, connVars, Ownership, OwnerAlone
  <2>2. InstancesCounted'
    BY <1>9, <2>1, InstancesKept DEF Instances, DestroyQueueCrashes, clientVars
  <2>3. InstanceStates'
    BY <1>9, <2>1 DEF DestroyQueueCrashes, Instances, InstanceStates, clientVars, connVars
  <2> QED BY <2>1, <2>2, <2>3 DEF Instances, CreatesLast, CrashedTogether
<1> QED BY <1>1, <1>2, <1>3, <1>4, <1>5, <1>6, <1>7, <1>8, <1>9
        DEF IoNext, EmitNext, OwnerDestroys

\* No instance exists in the initial states.
LEMMA InitInstances == Init => Instances
<1> SUFFICES ASSUME Init PROVE Instances
  OBVIOUS
<1>1. Created = 1..0 /\ Made = 0 /\ 0 \in 0..(MaxClients + 1)
  BY ServerAssumption DEF Init, Created, Made
<1>2. InstancesCounted
  BY <1>1, ServerAssumption DEF InstancesCounted
<1>3. InstanceStates
  BY DEF Init, InstanceStates
<1> QED BY <1>2, <1>3 DEF Init, Instances, CreatesLast, CrashedTogether

\* Each step leaves the instances in order.
LEMMA InstancesStep ==
  ASSUME TypeOK, Ownership, Instances, [Next]_vars
  PROVE  Instances'
<1>1. CASE UNCHANGED vars
  <2>1. /\ UNCHANGED <<client, connVars, pipe, ioPc, ownerPc, Gone>>
    BY <1>1 DEF vars, connVars, Gone
  <2> QED BY <2>1, StatesKept
<1>2. CASE ClientNext
  BY <1>2, InstancesClientStep
<1>3. CASE IoNext \/ EmitNext \/ EmitSpuriousWake \/ OwnerStop \/ OwnerDestroys
  BY <1>3, InstancesServerStep
<1> QED BY <1>1, <1>2, <1>3 DEF Next

\* So they are in order throughout.
LEMMA InstancesHold == Spec => []Instances
<1>1. Init => Instances
  BY InitInstances
<1>2. IInv /\ Instances /\ [Next]_vars => Instances'
  BY InstancesStep DEF IInv
<1> QED BY <1>1, <1>2, IInvHolds, PTL DEF Spec

\* The server never has more instances than maxConnections, and never two that
\* wait for a client.
THEOREM AcceptsWithinLimitHolds == Spec => []AcceptsWithinLimit
<1>1. TypeOK /\ Instances => AcceptsWithinLimit
  <2> SUFFICES ASSUME TypeOK, Instances PROVE AcceptsWithinLimit
    OBVIOUS
  <2>1. Cardinality({c \in Conn : client[c] = "listening"}) <= 1
    <3> DEFINE L == {c \in Conn : client[c] = "listening"}
    <3>1. L \subseteq {Made}
      BY DEF Instances, InstanceStates
    <3>2. IsFiniteSet({Made}) /\ Cardinality({Made}) = 1
      BY FS_Singleton
    <3>3. Cardinality(L) <= Cardinality({Made})
      BY <3>1, <3>2, FS_Subset
    <3> QED BY <3>2, <3>3
  <2>2. ASSUME MaxConnections # 0
        PROVE  Cardinality(Created) <= MaxConnections
    <3>1. PICK k \in 0..(MaxClients + 1) : Created = 1..k /\ k <= MaxConnections
      BY <2>2 DEF Instances, InstancesCounted
    <3>2. k \in Nat
      BY ServerAssumption
    <3>3. Cardinality(1..k) = IF 1 > k THEN 0 ELSE k - 1 + 1
      BY <3>2, FS_Interval
    <3> QED BY <3>1, <3>2, <3>3, ServerAssumption
  <2> QED BY <2>1, <2>2 DEF AcceptsWithinLimit, Created
<1>2. IInv => TypeOK
  BY DEF IInv
<1> QED BY <1>1, <1>2, IInvHolds, InstancesHold, PTL

-----------------------------------------------------------------------------
\* What ReadFile may put into a message, and what is known of it when onRead
\* looks at it.

\* The bytes of a completed read still fit into the room that was offered for
\* them: the message they are for has not changed meanwhile.
ReadInRoom ==
  \A c \in Conn : readIO[c] = "Done" =>
    Len(transferred[c]) <= ReadSize(message[readMessage[c]])

\* A read takes no more than it was asked for.
LEMMA TransferLength ==
  ASSUME NEW S, NEW frame \in Seq(S), NEW n \in Nat
  PROVE  Len(Transfer(frame, n)) <= n
<1>1. Lesser(Len(frame), n) \in 0..Len(frame) /\ Lesser(Len(frame), n) <= n
  BY DEF Lesser
<1>2. Len(SubSeq(frame, 1, Lesser(Len(frame), n))) = Lesser(Len(frame), n)
  BY <1>1
<1> QED BY <1>1, <1>2 DEF Transfer

\* onRead of one connection leaves the messages of the others alone.
LEMMA OthersMessage ==
  ASSUME TypeOK, Ownership, NEW c \in Conn, NEW d \in Conn, c # d,
         readMessage[c] # Null, readMessage[d] # Null,
         UNCHANGED message \/ \E m : message' = [message EXCEPT ![readMessage[c]] = m]
  PROVE  message'[readMessage[d]] = message[readMessage[d]]
<1>1. readMessage[d] # readMessage[c]
  BY DEF Ownership, ReadApart
<1> QED BY <1>1 DEF TypeOK, StoreTypes, PoolTypes

\* So does the acquisition of a message.
LEMMA OthersAcquire ==
  ASSUME TypeOK, Ownership, NEW c \in Conn, NEW d \in Conn, c # d, Acquire(c),
         readMessage[d] # Null
  PROVE  /\ readMessage'[d] = readMessage[d]
         /\ message'[readMessage[d]] = message[readMessage[d]]
<1>1. /\ readMessage[d] \in Obj /\ readMessage[d] <= allocated
      /\ readMessage[d] \in Nat /\ allocated \in Nat
  BY ServerAssumption DEF TypeOK, PoolTypes, Ownership, UsedAllocated, Obj
<1>2. readMessage[d] # allocated + 1
  BY <1>1
<1> QED BY <1>1, <1>2 DEF Acquire, TypeOK, PoolTypes, StoreTypes

\* The connection the I/O thread serves.
LEMMA ServedConnection ==
  ASSUME TypeOK, Ownership
  PROVE  /\ StartsRead => cur \in Conn /\ readIO[cur] = "Idle" /\ ~Distributing
         /\ Distributing => cur \in Conn /\ readIO[cur] = "Idle"
BY ServerAssumption DEF StartsRead, TypeOK, ConnTypes, IoTypes, Ownership, LastIdle,
   IoMsgHeld, Distributing, Conn

\* A completed read fits as long as neither it nor its message changes.
LEMMA RoomKept ==
  ASSUME ReadInRoom,
         \A d \in Conn : readIO'[d] = "Done" =>
           /\ readIO[d] = "Done" /\ transferred'[d] = transferred[d]
           /\ readMessage'[d] = readMessage[d]
           /\ message'[readMessage[d]] = message[readMessage[d]]
  PROVE  ReadInRoom'
BY DEF ReadInRoom, ReadSize, IsHeaderProcessed

\* A write that completes a read fills no more than the room that it offered.
LEMMA WriteInRoom ==
  ASSUME TypeOK, Ownership, ReadInRoom, NEW c \in Conn, NEW bytes \in Seq(Byte),
         Write(c, bytes), UNCHANGED <<readMessage, message>>
  PROVE  ReadInRoom'
<1>1. CASE readIO[c] = "Pending"
  <2> DEFINE n == ReadSize(message[readMessage[c]])
  <2>1. readMessage[c] \in Obj
    BY <1>1 DEF TypeOK, PoolTypes, Ownership, ReadHasMessage, KernelOwns
  <2>2. n \in Nat
    BY <2>1, MessageTypes DEF TypeOK, StoreTypes
  <2>3. Len(Transfer(bytes, n)) <= n
    BY <2>2, TransferLength
  <2>4. /\ readIO' = [readIO EXCEPT ![c] = "Done"]
        /\ transferred' = [transferred EXCEPT ![c] = Transfer(bytes, n)]
    BY <1>1 DEF Write
  <2>5. n' = n
    OBVIOUS
  <2> HIDE DEF n
  <2> SUFFICES ASSUME NEW d \in Conn, readIO'[d] = "Done"
               PROVE  Len(transferred'[d]) <= ReadSize(message[readMessage[d]])
    BY DEF ReadInRoom
  <2>6. CASE d = c
    BY <2>3, <2>4, <2>6 DEF n, TypeOK, ReadTypes
  <2>7. CASE d # c
    BY <2>4, <2>7 DEF ReadInRoom, TypeOK, ReadTypes
  <2> QED BY <2>6, <2>7
<1>2. CASE readIO[c] # "Pending"
  BY <1>2, RoomKept DEF Write, readVars
<1> QED BY <1>1, <1>2

\* Each step leaves the bytes of the completed reads room in their messages.
LEMMA RoomStep ==
  ASSUME TypeOK, Ownership, ReadInRoom, [Next]_vars
  PROVE  ReadInRoom'
<1>0. /\ readIO \in [Conn -> {"Idle", "Pending", "Done", "Broken"}]
      /\ \A d \in Conn : readIO[d] = "Done" => readMessage[d] # Null
  BY DEF TypeOK, ReadTypes, Ownership, ReadHasMessage, KernelOwns
<1>1. CASE UNCHANGED vars
  BY <1>1, RoomKept DEF vars
<1>2. CASE ClientNext
  <2>1. ASSUME NEW c \in Conn, ClientConnect(c) \/ ClientClose(c) PROVE ReadInRoom'
    BY <1>0, <2>1, RoomKept DEF ClientConnect, ClientClose, readVars, poolVars
  <2>2. ASSUME NEW c \in Conn, NEW size \in Sizes, ClientSend(c, size)
        PROVE  ReadInRoom'
    <3>1. sent[c] \in Seq(SentMessages) /\ size \in SizeType
      BY ServerAssumption DEF TypeOK, ClientTypes
    <3>2. /\ Header(c, Len(sent[c]) + 1) \in Seq(Byte)
          /\ Payload(c, Len(sent[c]) + 1, size) \in Seq(Byte)
      BY <3>1, PayloadTypes
    <3>3. Header(c, Len(sent[c]) + 1) \o Payload(c, Len(sent[c]) + 1, size) \in Seq(Byte)
      BY <3>2
    <3> QED BY <2>2, <3>2, <3>3, WriteInRoom DEF ClientSend, poolVars
  <2>3. ASSUME NEW c \in Conn, ClientSendRest(c) PROVE ReadInRoom'
    BY <2>3, WriteInRoom DEF ClientSendRest, poolVars, TypeOK, ClientTypes
  <2>4. ASSUME NEW c \in Conn, ClientSendNothing(c) PROVE ReadInRoom'
    <3>1. << >> \in Seq(Byte)
      OBVIOUS
    <3> QED BY <2>4, <3>1, WriteInRoom DEF ClientSendNothing, poolVars
  <2> QED BY <1>2, <2>1, <2>2, <2>3, <2>4 DEF ClientNext
<1>3. CASE IoAcquire \/ IoSwap
  <2>1. cur \in Conn /\ readIO[cur] = "Idle" /\ Acquire(cur) /\ UNCHANGED readVars
    BY <1>3, ServedConnection DEF IoAcquire, IoSwap, Distributing
  <2> QED BY <1>0, <2>1, OthersAcquire, RoomKept DEF readVars
<1>4. CASE IoStartRead
  <2> DEFINE n == ReadSize(message[readMessage[cur]])
             frame == Head(pipe[cur])
  <2>1. /\ cur \in Conn /\ readIO[cur] = "Idle" /\ readMessage[cur] # Null
        /\ UNCHANGED readMessage
    BY <1>4, ServedConnection DEF IoStartRead, poolVars
  <2>2. CASE UNCHANGED transferred /\ readIO' \in {readIO, [readIO EXCEPT ![cur] = "Pending"]}
    <3>1. \/ UNCHANGED message
          \/ \E m : message' = [message EXCEPT ![readMessage[cur]] = m]
      BY <1>4 DEF IoStartRead, OnRead
    <3>2. \A d \in Conn : readIO'[d] = "Done" => d # cur /\ readIO[d] = "Done"
      BY <1>0, <2>1, <2>2
    <3> QED BY <1>0, <2>1, <2>2, <3>1, <3>2, OthersMessage, RoomKept
  <2>3. CASE /\ pipe[cur] # << >> /\ UNCHANGED message
             /\ readIO' = [readIO EXCEPT ![cur] = "Done"]
             /\ transferred' = [transferred EXCEPT ![cur] = Transfer(frame, n)]
    <3>1. frame \in Seq(Byte) /\ n \in Nat
      <4>1. pipe[cur] \in Seq(Seq(Byte)) /\ message[readMessage[cur]] \in Messages
        BY <2>1 DEF TypeOK, PipeTypes, PoolTypes, StoreTypes
      <4>2. frame \in Seq(Byte)
        BY <2>3, <4>1
      <4> QED BY <4>1, <4>2, MessageTypes
    <3>2. Len(Transfer(frame, n)) <= n
      BY <3>1, TransferLength
    <3> HIDE DEF frame
    <3> SUFFICES ASSUME NEW d \in Conn, readIO'[d] = "Done"
                 PROVE  Len(transferred'[d]) <= ReadSize(message[readMessage[d]])
      BY <2>1, <2>3 DEF ReadInRoom
    <3>3. CASE d = cur
      BY <2>3, <3>2, <3>3 DEF TypeOK, ReadTypes
    <3>4. CASE d # cur
      BY <2>3, <3>4 DEF ReadInRoom, TypeOK, ReadTypes
    <3> QED BY <3>3, <3>4
  <2> QED BY <1>4, <2>2, <2>3 DEF IoStartRead, readVars
<1>5. ASSUME NEW c \in Conn, IoReadEvent(c) PROVE ReadInRoom'
  <2>1. /\ readMessage[c] # Null /\ UNCHANGED <<transferred, readMessage>>
        /\ readIO' = [readIO EXCEPT ![c] = "Idle"]
        /\ \/ UNCHANGED message
           \/ \E m : message' = [message EXCEPT ![readMessage[c]] = m]
    BY <1>0, <1>5 DEF IoReadEvent, OnRead, poolVars
  <2>2. \A d \in Conn : readIO'[d] = "Done" => d # c /\ readIO[d] = "Done"
    BY <1>0, <2>1
  <2> QED BY <1>0, <2>1, <2>2, OthersMessage, RoomKept
<1>6. CASE \/ IoStopped \/ IoCreate \/ IoPush \/ IoNoCreate \/ IoSkip \/ IoDistribute
           \/ IoRelease \/ IoScanned \/ IoWaitFails
           \/ \E c \in Conn : IoConnectEvent(c) \/ IoBrokenEvent(c)
  <2>1. UNCHANGED <<readIO, transferred, readMessage, message>>
    BY <1>6 DEF IoStopped, IoCreate, IoPush, IoNoCreate, IoSkip, IoDistribute, IoRelease,
       IoScanned, IoWaitFails, IoConnectEvent, IoBrokenEvent, readVars, poolVars
  <2> QED BY <2>1, RoomKept
<1>7. CASE EmitLookupCrashes \/ DestroyConnections
  <2>1. \A d \in Conn : readIO'[d] = "Idle"
    BY <1>7 DEF EmitLookupCrashes, DestroyConnections, ClosePipes
  <2> QED BY <2>1, RoomKept
<1>8. CASE \/ EmitTop \/ EmitTest \/ EmitSleep \/ EmitSpuriousWake \/ EmitLookup
           \/ EmitLookupMisses \/ EmitHandle \/ OwnerStop \/ OwnerJoin
           \/ DestroyQueue \/ DestroyQueueCrashes
  <2>1. UNCHANGED <<readIO, transferred, readMessage, message>>
    BY <1>8 DEF EmitTop, EmitTest, EmitSleep, EmitSpuriousWake, EmitLookup,
       EmitLookupMisses, EmitHandle, OwnerStop, OwnerJoin, DestroyQueue, DestroyQueueCrashes, ioOwned,
       readVars, poolVars
  <2> QED BY <2>1, RoomKept
<1> QED BY <1>1, <1>2, <1>3, <1>4, <1>5, <1>6, <1>7, <1>8
        DEF Next, IoNext, EmitNext, OwnerDestroys

\* So they have room throughout.
LEMMA RoomHolds == Spec => []ReadInRoom
<1>1. Init => ReadInRoom
  BY DEF Init, ReadInRoom
<1>2. IInv /\ ReadInRoom /\ [Next]_vars => ReadInRoom'
  BY RoomStep DEF IInv
<1> QED BY <1>1, <1>2, IInvHolds, PTL DEF Spec

\* A payload read brings no more than the storage has room for: the read was
\* offered that room, and the message is the same when onRead gets the bytes.
THEOREM ReadFitsBufferHolds == Spec => []ReadFitsBuffer
<1>1. TypeOK /\ Ownership /\ ReadInRoom => ReadFitsBuffer
  <2> SUFFICES ASSUME TypeOK, Ownership, ReadInRoom, NEW c \in Conn, readIO[c] = "Done",
                      IsHeaderProcessed(message[readMessage[c]])
               PROVE  Len(transferred[c])
                        <= AvailableToWrite(message[readMessage[c]].buffer)
    BY DEF ReadFitsBuffer
  <2> DEFINE m == message[readMessage[c]]
  <2>1. m \in Messages /\ transferred[c] \in Seq(Byte)
    BY DEF TypeOK, PoolTypes, StoreTypes, ReadTypes, Ownership, ReadHasMessage, KernelOwns
  <2>2. AvailableToWrite(m.buffer) \in Nat /\ PacketSize \in Nat
    BY <2>1, BufferTypes, SizeAssumption, ServerAssumption DEF Messages, SizeType
  <2>3. ReadSize(m) <= AvailableToWrite(m.buffer) /\ ReadSize(m) \in Nat
    BY <2>2 DEF ReadSize, Lesser
  <2>4. Len(transferred[c]) <= ReadSize(m) /\ Len(transferred[c]) \in Nat
    BY <2>1 DEF ReadInRoom
  <2> HIDE DEF m
  <2> QED BY <2>2, <2>3, <2>4 DEF m
<1>2. IInv => TypeOK /\ Ownership
  BY DEF IInv
<1> QED BY <1>1, <1>2, IInvHolds, RoomHolds, PTL

-----------------------------------------------------------------------------
\* What the I/O thread has started before it waits.

\* A read is pending only on an empty pipe that the client holds open.
PendingEmpty ==
  \A c \in Conn : readIO[c] = "Pending" => pipe[c] = << >> /\ client[c] = "open"

\* The connections the scan has passed have a read outstanding, if they have a
\* client; those before it returns from onRead, too.
Started ==
  \A c \in Conn : connected[c] =>
    /\ ioPc = "Scan" \/ (Distributing /\ ioFrom = "Scan") => (c < cur => readIO[c] # "Idle")
    /\ ioPc = "Wait" => (c <= nconn => readIO[c] # "Idle")

\* A write or a disconnection completes a pending read, and a read becomes
\* pending only on an empty pipe.
LEMMA PendingEmptyStep ==
  ASSUME TypeOK, Ownership, Instances, PendingEmpty, [Next]_vars
  PROVE  PendingEmpty'
<1> USE DEF PendingEmpty, TypeOK, ReadTypes, PipeTypes, ClientTypes
<1>1. ASSUME NEW c \in Conn, NEW bytes, Write(c, bytes), UNCHANGED client
      PROVE  PendingEmpty'
  BY <1>1 DEF Write, readVars
<1>2. CASE ClientNext
  <2>1. ASSUME NEW c \in Conn, ClientConnect(c) PROVE PendingEmpty'
    BY <2>1 DEF ClientConnect, readVars
  <2>2. ASSUME NEW c \in Conn, ClientClose(c) PROVE PendingEmpty'
    BY <2>2 DEF ClientClose
  <2> QED BY <1>1, <1>2, <2>1, <2>2 DEF ClientNext, ClientSend, ClientSendRest,
             ClientSendNothing, clientVars
<1>3. CASE IoCreate
  <2>1. ASSUME NEW c \in Conn, readIO[c] = "Pending" PROVE client'[c] = "open"
    <3>1. client[c] = "open" /\ ioPc # "Push"
      BY <1>3, <2>1 DEF IoCreate
    <3>2. c <= nconn
      <4>1. \E k \in 0..(MaxClients + 1) : Created = 1..k /\ (~Gone => k = nconn)
        BY <3>1 DEF Instances, InstancesCounted, Made
      <4>2. ~Gone
        BY <1>3 DEF IoCreate, Gone, Instances, CrashedTogether, Ownership, OwnerAlone
      <4>3. c \in Created
        BY <3>1 DEF Created
      <4> QED BY <4>1, <4>2, <4>3
    <3>3. c # nconn + 1
      BY <3>2, ServerAssumption DEF ConnTypes, Conn
    <3> QED BY <1>3, <3>1, <3>3 DEF IoCreate
  <2> QED BY <1>3, <2>1 DEF IoCreate, readVars
<1>4. CASE IoStartRead
  <2>1. cur \in Conn /\ connected[cur] /\ UNCHANGED client
    BY <1>4, ServedConnection DEF IoStartRead, StartsRead, clientVars
  <2>2. client[cur] \in {"open", "closed"}
    BY <2>1 DEF Instances, InstanceStates
  <2>3. CASE /\ pipe[cur] = << >> /\ client[cur] # "closed" /\ UNCHANGED pipe
             /\ readIO' = [readIO EXCEPT ![cur] = "Pending"]
    BY <2>1, <2>2, <2>3
  <2>4. CASE /\ readIO' \in {readIO, [readIO EXCEPT ![cur] = "Done"]}
             /\ \A d \in Conn : d # cur => pipe'[d] = pipe[d]
    <3>1. readIO[cur] = "Idle"
      BY <1>4 DEF IoStartRead, StartsRead
    <3> QED BY <2>1, <2>4, <3>1
  <2> QED BY <1>4, <2>1, <2>3, <2>4 DEF IoStartRead, readVars
<1>5. ASSUME NEW c \in Conn, IoReadEvent(c) PROVE PendingEmpty'
  BY <1>5 DEF IoReadEvent, clientVars
<1>6. CASE EmitLookupCrashes \/ DestroyConnections
  BY <1>6 DEF EmitLookupCrashes, DestroyConnections, ClosePipes
<1>7. CASE \/ UNCHANGED vars
           \/ IoStopped \/ IoPush \/ IoNoCreate \/ IoSkip \/ IoAcquire \/ IoDistribute
           \/ IoSwap \/ IoRelease \/ IoScanned \/ IoWaitFails
           \/ \E c \in Conn : IoConnectEvent(c) \/ IoBrokenEvent(c)
  BY <1>7 DEF vars, IoStopped, IoPush, IoNoCreate, IoSkip, IoAcquire, IoDistribute,
     IoSwap, IoRelease, IoScanned, IoWaitFails, IoConnectEvent, IoBrokenEvent,
     readVars, clientVars
<1>8. CASE \/ EmitTop \/ EmitTest \/ EmitSleep \/ EmitSpuriousWake \/ EmitLookup
           \/ EmitLookupMisses \/ EmitHandle \/ OwnerStop \/ OwnerJoin
           \/ DestroyQueue \/ DestroyQueueCrashes
  BY <1>8 DEF EmitTop, EmitTest, EmitSleep, EmitSpuriousWake, EmitLookup,
     EmitLookupMisses, EmitHandle, OwnerStop, OwnerJoin, DestroyQueue, DestroyQueueCrashes, ioOwned,
     readVars, clientVars
<1> QED BY <1>2, <1>3, <1>4, <1>5, <1>6, <1>7, <1>8
        DEF Next, IoNext, EmitNext, OwnerDestroys

\* The scan passes no connection without starting its read, also if onRead
\* takes messages in between.
LEMMA StartedStep ==
  ASSUME TypeOK, Ownership, Started, [Next]_vars
  PROVE  Started'
<1>0. /\ readIO \in [Conn -> {"Idle", "Pending", "Done", "Broken"}]
      /\ cur \in Nat /\ nconn \in Nat /\ \A c \in Conn : c \in Nat /\ c >= 1
  BY ServerAssumption DEF TypeOK, ReadTypes, IoTypes, ConnTypes, Conn
<1>1. ASSUME UNCHANGED <<connected, nconn, ioPc, cur, ioFrom>>,
             \A c \in Conn : readIO'[c] = "Idle" => readIO[c] = "Idle"
      PROVE  Started'
  BY <1>1 DEF Started, Distributing
<1>2. ASSUME ioPc' \in {"Top", "Push", "Exited", "Crashed"} PROVE Started'
  BY <1>2 DEF Started, Distributing
<1>3. ASSUME ioPc' = "Scan", cur' = 1 PROVE Started'
  BY <1>0, <1>3 DEF Started, Distributing
<1>4. CASE ClientNext
  <2>1. \A c \in Conn : readIO'[c] = "Idle" => readIO[c] = "Idle"
    BY <1>0, <1>4 DEF ClientNext, ClientConnect, ClientSend, ClientSendRest,
       ClientSendNothing, ClientClose, Write, readVars
  <2>2. UNCHANGED <<connected, nconn, ioPc, cur, ioFrom>>
    BY <1>4 DEF ClientNext, ClientConnect, ClientSend, ClientSendRest,
       ClientSendNothing, ClientClose, connVars, ioVars
  <2> QED BY <1>1, <2>1, <2>2
<1>5. CASE IoStopped \/ IoCreate \/ IoWaitFails
           \/ \E c \in Conn : IoConnectEvent(c) \/ IoBrokenEvent(c)
  BY <1>2, <1>5 DEF IoStopped, IoCreate, IoWaitFails, IoConnectEvent, IoBrokenEvent,
     IoExits
<1>6. CASE IoPush \/ IoNoCreate
  BY <1>3, <1>6 DEF IoPush, IoNoCreate
<1>7. CASE IoSkip
  BY <1>0, <1>7 DEF IoSkip, Started, Distributing, connVars, readVars
<1>8. CASE IoAcquire
  BY <1>1, <1>8 DEF IoAcquire, connVars, readVars, ioVars
<1>9. CASE IoStartRead
  <2>1. ioPc = "Scan" /\ UNCHANGED <<connected, nconn>>
    BY <1>9 DEF IoStartRead, StartsRead, connVars
  <2>2. CASE /\ UNCHANGED ioPc /\ cur' = cur + 1
             /\ \/ readIO' = [readIO EXCEPT ![cur] = "Pending"]
                \/ readIO' = [readIO EXCEPT ![cur] = "Done"]
    BY <1>0, <2>1, <2>2 DEF Started, Distributing
  <2>3. CASE UNCHANGED <<readIO, cur>> /\ OnRead(cur, readMessage[cur], Head(pipe[cur]), "Scan")
    <3>1. CASE ioPc' \in {"Scan", "Exited"}
      BY <2>1, <2>3, <3>1 DEF Started, Distributing
    <3>2. CASE ioPc' = "Distribute" /\ ioFrom' = "Scan"
      BY <2>1, <2>3, <3>2 DEF Started, Distributing
    <3> QED BY <2>3, <3>1, <3>2 DEF OnRead, Reject, Accept, IoExits
  <2>4. CASE IoExits
    BY <1>2, <2>4 DEF IoExits
  <2> QED BY <1>9, <2>2, <2>3, <2>4 DEF IoStartRead, readVars
<1>10. CASE IoDistribute \/ IoSwap
  BY <1>10 DEF IoDistribute, IoSwap, Started, Distributing, connVars, readVars
<1>11. CASE IoRelease
  <2>1. Distributing /\ ioPc' = ioFrom /\ UNCHANGED <<connected, nconn, cur, readIO>>
    BY <1>11 DEF IoRelease, Distributing, connVars, readVars
  <2>2. CASE ioFrom = "Scan"
    BY <2>1, <2>2 DEF Started, Distributing
  <2>3. CASE ioFrom = "Top"
    BY <1>2, <2>1, <2>3
  <2> QED BY <2>2, <2>3 DEF TypeOK, IoTypes
<1>12. CASE IoScanned
  BY <1>0, <1>12 DEF IoScanned, Started, Distributing, connVars, readVars
<1>13. ASSUME NEW c \in Conn, IoReadEvent(c) PROVE Started'
  <2>1. CASE ioPc' \in {"Top", "Exited"}
    BY <1>2, <2>1
  <2>2. CASE ioPc' = "Distribute" /\ ioFrom' = "Top"
    BY <2>2 DEF Started
  <2> QED BY <1>13, <2>1, <2>2 DEF IoReadEvent, OnRead, Reject, Accept, IoExits
<1>14. CASE EmitLookupCrashes \/ DestroyQueueCrashes
  BY <1>2, <1>14 DEF EmitLookupCrashes, DestroyQueueCrashes
<1>15. CASE DestroyConnections
  <2>1. ioPc' = "Exited"
    BY <1>15 DEF DestroyConnections, ioVars, Ownership, OwnerAlone
  <2> QED BY <1>2, <2>1
<1>16. CASE \/ UNCHANGED vars
            \/ EmitTop \/ EmitTest \/ EmitSleep \/ EmitSpuriousWake \/ EmitLookup
            \/ EmitLookupMisses \/ EmitHandle \/ OwnerStop \/ OwnerJoin \/ DestroyQueue
  BY <1>1, <1>16 DEF vars, EmitTop, EmitTest, EmitSleep, EmitSpuriousWake, EmitLookup,
     EmitLookupMisses, EmitHandle, OwnerStop, OwnerJoin, DestroyQueue, ioOwned,
     connVars, readVars, ioVars
<1> QED BY <1>4, <1>5, <1>6, <1>7, <1>8, <1>9, <1>10, <1>11, <1>12, <1>13, <1>14,
           <1>15, <1>16 DEF Next, IoNext, EmitNext, OwnerDestroys

\* Both hold throughout.
LEMMA StartedHold == Spec => [](PendingEmpty /\ Started)
<1>1. Init => PendingEmpty /\ Started
  BY DEF Init, PendingEmpty, Started
<1>2. IInv /\ Instances /\ PendingEmpty /\ Started /\ [Next]_vars
        => PendingEmpty' /\ Started'
  BY PendingEmptyStep, StartedStep DEF IInv
<1> QED BY <1>1, <1>2, IInvHolds, InstancesHold, PTL DEF Spec

\* When the I/O thread waits, whatever a client did to its pipe has signalled a
\* handle of the wait set: no byte and no disconnection is overlooked.
THEOREM NoDeafWaitHolds == Spec => []NoDeafWait
<1>1. TypeOK /\ Ownership /\ Instances /\ PendingEmpty /\ Started => NoDeafWait
  <2> SUFFICES ASSUME TypeOK, Ownership, Instances, PendingEmpty, Started,
                      ioPc = "Wait", NEW c \in 1..nconn,
                      pipe[c] # << >> \/ client[c] = "closed"
               PROVE  Signaled(c)
    BY DEF NoDeafWait
  <2>1. c \in Conn /\ c <= nconn
    BY ServerAssumption DEF TypeOK, ConnTypes, Conn
  <2>2. CASE connected[c]
    BY <2>1, <2>2 DEF Started, PendingEmpty, Signaled, TypeOK, ReadTypes
  <2>3. CASE ~connected[c]
    <3>1. ~Gone
      BY DEF Gone, Instances, CrashedTogether, Ownership, OwnerAlone
    <3>2. client[c] \in {"open", "closed"}
      BY <2>1 DEF Instances, InstanceStates, TypeOK, ClientTypes
    <3> QED BY <2>1, <2>3, <3>1, <3>2 DEF Instances, InstanceStates, Signaled
  <2> QED BY <2>2, <2>3
<1>2. IInv => TypeOK /\ Ownership
  BY DEF IInv
<1> QED BY <1>1, <1>2, IInvHolds, InstancesHold, StartedHold, PTL

=============================================================================
