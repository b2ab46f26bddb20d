----------------------------- MODULE PipeBuffer -----------------------------
(***************************************************************************)
(* The position arithmetic of IPC::Buffer and IPC::DynamicBuffer           *)
(* (src/src/async/Buffer.h): a storage of `size` bytes with a read and a   *)
(* write position.  The bytes themselves are kept by the modules that use  *)
(* the buffer.  Every length and position has the unsigned type SizeType,  *)
(* so a subtraction that goes below zero wraps around.                     *)
(***************************************************************************)
EXTENDS Integers

CONSTANTS
  SizeModulus,     \* number of values of SizeType (2^64 in the build)
  BufferMinSize    \* smallest storage of a DynamicBuffer (1024)

ASSUME SizeAssumption ==
  /\ SizeModulus \in Nat
  /\ BufferMinSize \in 1..(SizeModulus - 1)

SizeType == 0..(SizeModulus - 1)

Buffers == [size : SizeType, read : SizeType, write : SizeType]

Lesser(a, b) == IF a <= b THEN a ELSE b
Greater(a, b) == IF a <= b THEN b ELSE a

\* Unsigned subtraction: the difference modulo SizeModulus.
Minus(a, b) == IF b <= a THEN a - b ELSE a - b + SizeModulus

\* DynamicBuffer::resizeInternal
Resize(buf, newSize) == [buf EXCEPT !.size = Greater(newSize, BufferMinSize)]

\* DynamicBuffer(initialSize = 1024)
NewBuffer == [size |-> BufferMinSize, read |-> 0, write |-> 0]

\* DynamicBuffer::reset keeps the storage as it is.
ResetPositions(buf) == [buf EXCEPT !.read = 0, !.write = 0]

AvailableToWrite(buf) == Lesser(Minus(buf.size, buf.write), buf.size)

\* max(write - read, 0) of an unsigned difference is the difference itself.
AvailableToRead(buf) == Minus(buf.write, buf.read)

WritePosition(buf) == Lesser(buf.size, buf.write)

SetWritePosition(buf, pos) == [buf EXCEPT !.write = Lesser(buf.size, pos)]

=============================================================================
