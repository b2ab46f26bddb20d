------------------------------ MODULE Message -------------------------------
(***************************************************************************)
(* IPC::Message (src/src/async/NamedPipeServer.h and .cpp): a header       *)
(* followed by a payload that arrives in packets.  A byte on the wire is   *)
(* the triple <<c, w, k>>: the k-th byte of the w-th message client c      *)
(* wrote, so what a buffer holds tells where every byte came from.  The    *)
(* header fields sourceId and clientId pass through the server untouched   *)
(* and are left out.                                                       *)
(***************************************************************************)
EXTENDS PipeBuffer, Sequences

CONSTANT MessageHeaderSize    \* sizeof(MessageHeader), 16 bytes

ASSUME HeaderAssumption == MessageHeaderSize \in Nat \ {0}

Byte == Nat \X Nat \X Nat

Headers == [id : Nat, size : SizeType]

NoHeader == [id |-> 0, size |-> 0]

Messages == [connectionId : Nat, header : Headers,
             headerProcessed : BOOLEAN, allDataRead : BOOLEAN,
             buffer : Buffers, data : Seq(Byte)]

\* What MessageFactory::operator() creates for a connection.  data is the
\* part of the storage below the write position.
NewMessage(c) ==
  [connectionId |-> c, header |-> NoHeader,
   headerProcessed |-> FALSE, allDataRead |-> FALSE,
   buffer |-> NewBuffer, data |-> << >>]

ValidHeader(h) == h.size > 0 /\ h.id > 0

\* Message::isHeaderProcessed.  It also clears the flag when the header is not
\* valid, which every later call would find again from the header itself.
IsHeaderProcessed(m) == m.headerProcessed /\ ValidHeader(m.header)

\* Message::reset
ResetMessage(m) ==
  [m EXCEPT !.header = NoHeader, !.headerProcessed = FALSE,
            !.allDataRead = FALSE, !.buffer = ResetPositions(@),
            !.data = << >>]

\* The storage keeps its size (a mistake, see NamedPipeServer).
WrongProcessHeader(m, h) ==
  IF ValidHeader(h)
  THEN [m EXCEPT !.header = h, !.headerProcessed = TRUE,
                 !.buffer = ResetPositions(@), !.data = << >>]
  ELSE ResetMessage(m)

\* Message::processHeader after the header bytes h were read.  On a valid
\* header allDataRead is left as it was.
ProcessHeader(m, h) ==
  IF ValidHeader(h)
  THEN [m EXCEPT !.header = h, !.headerProcessed = TRUE,
                 !.buffer = Resize(ResetPositions(@), h.size),
                 !.data = << >>]
  ELSE ResetMessage(m)

\* The check of Message::onRead that the bytes fit in the buffer.
FitsInBuffer(m, n) == WritePosition(m.buffer) + n <= m.buffer.size

\* The message is complete as soon as there is something to read (a mistake).
WrongAcceptBytes(m, bytes) ==
  LET buf == SetWritePosition(m.buffer, WritePosition(m.buffer) + Len(bytes))
  IN [m EXCEPT !.buffer = buf, !.data = @ \o bytes,
               !.allDataRead = @ \/ AvailableToRead(buf) > 0]

\* Message::onRead for bytes that fit.  The message is complete when as many
\* bytes can be read as the header says; the flag is never cleared here.
AcceptBytes(m, bytes) ==
  LET buf == SetWritePosition(m.buffer, WritePosition(m.buffer) + Len(bytes))
  IN [m EXCEPT !.buffer = buf, !.data = @ \o bytes,
               !.allDataRead = @ \/ AvailableToRead(buf) = m.header.size]

\* What the message handler is given: size() bytes from data().
HandedOver(m) ==
  [id |-> m.header.id, data |-> SubSeq(m.data, 1, m.header.size)]

=============================================================================
