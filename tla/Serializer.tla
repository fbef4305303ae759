---------------------------- MODULE Serializer ----------------------------
(***************************************************************************)
(* The growing buffer of a Serializer (util/serial.h): whatever is added,  *)
(* an int, a size_t, a string's characters, is a run of bytes put behind   *)
(* those that are there, in a larger array when they do not fit.           *)
(* Serial.tla adds the bytes of messages and frames to it.                 *)
(***************************************************************************)
EXTENDS Integers, Sequences

CONSTANTS
  Initial,      \* the first capacity: 8 in the code
  Unset         \* a byte of an array before it is written

ASSUME SerializerAssumption == Initial \in Nat \ {0}

VARIABLES
  bytes,        \* bytes_: an array of capacity bytes
  size,
  capacity

svars == <<bytes, size, capacity>>

\* Serializer::Serializer; each object is serialized by one of its own.
New(b, s, c) ==
  /\ b = [i \in 1 .. Initial |-> Unset]
  /\ s = 0
  /\ c = Initial
SInit == New(bytes, size, capacity)
Renew == New(bytes', size', capacity')

\* (mutant) the capacity is doubled, once.
Factor_Twice(min) == {2}

\* (mutant) the factor is one more than it has to be.
Factor_OneMore(min) ==
  {f \in 3 .. min + 3 : min < capacity * (f - 1) /\ (f = 3 \/ min >= capacity * (f - 2))}

\* expand_: the first factor from 2 on that makes room for more than min.
Factor(min) ==
  {f \in 2 .. min + 2 : min < capacity * f /\ (f = 2 \/ min >= capacity * (f - 1))}


\* (mutant) the last byte is not copied.
Copied_ButLast(c) == [i \in 1 .. c |-> IF i < size THEN bytes[i] ELSE Unset]

\* expand_: the new array, with the bytes of the old one.
Copied(c) == [i \in 1 .. c |-> IF i <= size THEN bytes[i] ELSE Unset]

\* b written behind what mem holds.
Written(mem, b) ==
  [i \in DOMAIN mem |-> IF i \in size + 1 .. size + Len(b) THEN b[i - size] ELSE mem[i]]

\* add_int, add_double, ..., add_buffer: they differ in the length of b.
Add(b) ==
  LET newSize == size + Len(b) IN
  /\ \/ /\ newSize <= capacity
        /\ capacity' = capacity
        /\ bytes' = Written(bytes, b)
     \/ /\ newSize > capacity
        /\ \E f \in Factor(newSize) :
             /\ capacity' = capacity * f
             /\ bytes' = Written(Copied(capacity * f), b)
  /\ size' = newSize
-----------------------------------------------------------------------------
(***************************************************************************)
(* Properties                                                              *)
(***************************************************************************)

\* No call writes past the array, whatever it adds and after whichever calls
\* (serial.h:44).
InBounds ==
  /\ size \in Nat
  /\ capacity \in Nat
  /\ size <= capacity
  /\ DOMAIN bytes = 1 .. capacity

\* An array that has grown is less than twice as long as what it holds: the
\* factor is no larger than it has to be (serial.h:42).
TightGrowth == capacity = Initial \/ capacity < 2 * size

\* What was added stays in front, through any growth (serial.h:48).
KeepsBytes == [][size' > size => \A i \in 1 .. size : bytes'[i] = bytes[i]]_svars
=============================================================================
