------------------------------- MODULE Frames -------------------------------
(***************************************************************************)
(* internal/protocol: a frame is a type, the length of the payload as a    *)
(* big-endian uint32, which wraps, and the payload.  The four digits of    *)
(* the length have base Base, which is 256 in the code.                    *)
(***************************************************************************)
EXTENDS Integers, SequencesExt

CONSTANT Base

ASSUME BaseAssumption == Base \in Nat /\ Base > 1

Failed == [ok |-> FALSE, type |-> 0, payload |-> <<>>]

HeaderSize == 5

\* How many lengths a uint32 tells apart.
Width == Base * Base * Base * Base

\* Bug variant: the lowest digit first.
PutUint32_Little(n) ==
  <<n % Base, (n \div Base) % Base,
    (n \div (Base * Base)) % Base, (n \div (Base * Base * Base)) % Base>>

\* The four digits of uint32(n), the highest first.
PutUint32(n) ==
  <<(n \div (Base * Base * Base)) % Base, (n \div (Base * Base)) % Base,
    (n \div Base) % Base, n % Base>>

Uint32(b) == Base * Base * Base * b[1] + Base * Base * b[2] + Base * b[3] + b[4]

EncodeFrame(frameType, payload) == <<frameType>> \o PutUint32(Len(payload)) \o payload

\* Bug variant: what has come of the payload is taken.
DecodeFrame_Short(bytes) ==
  LET length == Uint32(SubSeq(bytes, 2, HeaderSize))
      rest == SubSeq(bytes, HeaderSize + 1, Len(bytes))
  IN  IF Len(bytes) < HeaderSize THEN Failed
      ELSE [ok |-> TRUE, type |-> bytes[1],
            payload |-> SubSeq(rest, 1, Min({length, Len(rest)}))]

\* io.ReadFull fails if bytes end early; what follows the frame is not read.
DecodeFrame(bytes) ==
  LET length == Uint32(SubSeq(bytes, 2, HeaderSize))
  IN  IF Len(bytes) < HeaderSize \/ Len(bytes) < HeaderSize + length THEN Failed
      ELSE [ok |-> TRUE, type |-> bytes[1],
            payload |-> SubSeq(bytes, HeaderSize + 1, HeaderSize + length)]
-----------------------------------------------------------------------------
\* A payload comes back whole exactly when its length fits the header; a longer
\* one comes back cut to its length modulo the width, without an error.
RoundTrip(frameType, payload) ==
  LET d == DecodeFrame(EncodeFrame(frameType, payload))
  IN  /\ d.ok /\ d.type = frameType
      /\ d.payload = SubSeq(payload, 1, Len(payload) % Width)

\* A frame that is cut short anywhere is an error, never a shorter frame.
NoPartialFrame(frameType, payload) ==
  LET frame == EncodeFrame(frameType, payload)
  IN  Len(payload) < Width =>
        \A n \in 0 .. Len(frame) - 1 : ~DecodeFrame(SubSeq(frame, 1, n)).ok
=============================================================================
