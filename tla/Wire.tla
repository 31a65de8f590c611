-------------------------------- MODULE Wire --------------------------------
(***************************************************************************)
(* The byte-level vocabulary shared by the writer and the reader: wire     *)
(* types, field keys and base-128 varints (storage/gsbm/wire.go,           *)
(* storage/gsbm/varint.go).  The radix and the width are parameters, so    *)
(* that the boundaries of the encoding are met by very short inputs: the   *)
(* code has VarintBase = 128 and MaxVarintLen = 10.                        *)
(***************************************************************************)
EXTENDS Integers, Sequences

CONSTANTS
  VarintBase,    \* values carried by one varint byte; 128 in the code
  MaxVarintLen,  \* longest varint accepted; 10 in the code
  Fixed32Size,   \* bytes of a FIXED32 value; 4 in the code
  Fixed64Size    \* bytes of a FIXED64 value; 8 in the code

ASSUME WireAssumption ==
  /\ VarintBase \in Nat /\ VarintBase >= 2
  /\ MaxVarintLen \in Nat /\ MaxVarintLen >= 2
  /\ Fixed32Size \in Nat /\ Fixed64Size \in Nat

\* A byte is a varint digit plus a continuation bit: 0..255 in the code.
Byte == 0 .. 2 * VarintBase - 1

\* The values of the code's uint64: every digit of the first MaxVarintLen-1
\* bytes and one more bit, 2^64 for base 128 and length 10.
Uint64 == 0 .. 2 * VarintBase ^ (MaxVarintLen - 1) - 1

\* The largest int, 2^63 - 1, and the conversion int(v) of a uint64: values
\* with the top bit set become negative.
MaxInt   == VarintBase ^ (MaxVarintLen - 1) - 1
ToInt(v) == IF v <= MaxInt THEN v ELSE v - 2 * (MaxInt + 1)

WireVarint      == 0
WireFixed64     == 1
WireLengthDelim == 2
WireFixed32     == 3
WireTypes       == 0 .. 7

validWireType(wt) == wt <= WireFixed32

\* The field key tag<<3 | wt.
Key(tag, wt) == 8 * tag + wt
KeyTag(k)    == k \div 8
KeyWire(k)   == k % 8

\* Signed integers are spelled by the varint of their zigzag image: 0, -1, 1,
\* -2, ... become 0, 1, 2, 3, ...
zigzagEncode64(i) == IF i >= 0 THEN 2 * i ELSE -2 * i - 1
zigzagDecode64(v) == IF v % 2 = 0 THEN v \div 2 ELSE -((v + 1) \div 2)

-----------------------------------------------------------------------------
\* The number of bytes of the canonical varint of v.
varintLen[v \in Nat] ==
  IF v < VarintBase THEN 1 ELSE 1 + varintLen[v \div VarintBase]

\* The canonical varint of v: low digit first, continuation bit on all but
\* the last byte.
appendUvarint[v \in Nat] ==
  IF v < VarintBase
    THEN <<v>>
    ELSE <<VarintBase + (v % VarintBase)>> \o appendUvarint[v \div VarintBase]

\* A varint of n bytes may stand after offset pos of b[:end]: all its bytes but
\* the last carry the continuation bit, and one of full length may only use the
\* lowest bit of its last byte.  Over-long (non-canonical) ones are accepted.
VarintExtends(b, pos, end, n) ==
  /\ pos + n <= end
  /\ \A i \in 1 .. n - 1 : b[pos + i] >= VarintBase
  /\ b[pos + n] < VarintBase
  /\ n = MaxVarintLen => b[pos + n] <= 1

\* The digits of the n bytes after offset pos are those of v.
Spells(b, pos, n, v) ==
  /\ v < VarintBase ^ n
  /\ \A i \in 1 .. n :
       (v \div VarintBase ^ (i - 1)) % VarintBase = b[pos + i] % VarintBase

\* What reading a varint at offset pos of b[:end] returns: the set holds the
\* pair (bytes consumed, value), and is empty when the read fails.
readUvarint(b, pos, end) ==
  {r \in {n \in 1 .. MaxVarintLen : VarintExtends(b, pos, end, n)} \X Uint64 :
     Spells(b, pos, r[1], r[2])}

\* The error of a failed varint read: the input ends inside the varint, or
\* the varint does not fit 64 bits.
uvarintError(b, pos, end) ==
  IF /\ end - pos < MaxVarintLen
     /\ \A i \in 1 .. end - pos : b[pos + i] >= VarintBase
    THEN "ErrTruncated" ELSE "ErrVarintOverflow"
=============================================================================
