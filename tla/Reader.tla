------------------------------- MODULE Reader -------------------------------
(***************************************************************************)
(* The Reader of storage/gsbm/reader.go over an input that is not trusted. *)
(* The input is any byte string; the caller is any UnmarshalGSBM, generated *)
(* or written by hand, so the methods are called in any order.  What the   *)
(* caller must do is pass EndLengthDelim the bound BeginLengthDelim gave   *)
(* it: those saved bounds live in the caller's frames, here in `saved'.    *)
(* Blob headers are the subject of module BlobStream; this reader starts   *)
(* at the body, as DecodeBodyInto does and as ReadHeader leaves it.        *)
(***************************************************************************)
EXTENDS Wire

CONSTANTS
  MaxTag,        \* largest tag of a field key; 2^29 - 1 in the code
  MaxSliceAlloc, \* elements MakeSlice may allocate: 16 MiB / sizeof(T)
  Inputs,        \* the byte strings a Reader may be created over
  ResetInputs,   \* bound: the ones a pooled Reader may be Reset to
  MaxDepth       \* bound: open regions at one time

ASSUME ReaderAssumption ==
  /\ MaxTag \in Nat
  /\ MaxSliceAlloc \in Nat
  /\ \A s \in Inputs : s \in Seq(Byte) /\ Len(s) <= MaxInt
  /\ ResetInputs \subseteq Inputs
  /\ MaxDepth \in Nat

VARIABLES
  buf,     \* the input
  pos,     \* offset of the next byte to read
  end,     \* exclusive end of the current bounded region
  err,     \* sticky error, "nil" when there is none
  saved,   \* bounds of the enclosing regions, innermost last
  ret      \* what the last method returned

vars == <<buf, pos, end, err, saved, ret>>

Errors == {"ErrTruncated", "ErrVarintOverflow", "ErrZeroTag", "ErrTagOverflow",
           "ErrReservedWire", "ErrTrailingBytes", "ErrInvalidPresence",
           "ErrAllocTooLarge"}

\* What a method returns: an error, or a value with its wire type (0 where
\* the method returns none).
Returned == [err : {"nil"} \cup Errors, v : Nat, wt : Nat]
Value(v)     == [err |-> "nil", v |-> v, wt |-> 0]
Tagged(t, w) == [err |-> "nil", v |-> t, wt |-> w]
Failure(e)   == [err |-> e, v |-> 0, wt |-> 0]

remaining == end - pos

-----------------------------------------------------------------------------
NewReader(src) ==
  /\ buf = src
  /\ pos = 0
  /\ end = Len(src)
  /\ err = "nil"
  /\ saved = <<>>
  /\ ret = Value(0)

\* Reset re-points the reader at src; the caller starts a new decode, so the
\* bounds it had saved are gone with its frames.
Reset(src) ==
  /\ buf' = src
  /\ pos' = 0
  /\ end' = Len(src)
  /\ err' = "nil"
  /\ saved' = <<>>
  /\ ret' = Value(0)

HasMore == err = "nil" /\ pos < end

\* Mutant: the last error replaces the first.
setErrLast(e) == err' = IF e = "nil" THEN err ELSE e

setErr(e) == err' = IF err = "nil" THEN e ELSE err

\* A method that fails keeps its place and hands out the first error, or,
\* in the varint helpers, the error just met.
Fail(e) ==
  /\ setErr(e)
  /\ ret' = Failure(IF err = "nil" THEN e ELSE err)
  /\ UNCHANGED <<buf, pos, end, saved>>

\* The methods that look at the sticky error first return it unchanged.
Stuck ==
  /\ err # "nil"
  /\ ret' = Failure(err)
  /\ UNCHANGED <<buf, pos, end, err, saved>>

Advance(n, r) ==
  /\ pos' = pos + n
  /\ ret' = r
  /\ UNCHANGED <<buf, end, err, saved>>

VarintFails ==
  /\ readUvarint(buf, pos, end) = {}
  /\ setErr(uvarintError(buf, pos, end))
  /\ ret' = Failure(uvarintError(buf, pos, end))
  /\ UNCHANGED <<buf, pos, end, saved>>

-----------------------------------------------------------------------------
KeyError(k) ==
  CASE KeyTag(k) = 0             -> "ErrZeroTag"
    [] KeyTag(k) > MaxTag        -> "ErrTagOverflow"
    [] ~ validWireType(KeyWire(k)) -> "ErrReservedWire"
    [] OTHER                     -> "nil"

\* A bad key is consumed before it is rejected.
ReadTag ==
  \/ Stuck
  \/ err = "nil" /\ VarintFails
  \/ \E r \in readUvarint(buf, pos, end) :
       /\ err = "nil"
       /\ pos' = pos + r[1]
       /\ setErr(KeyError(r[2]))
       /\ ret' = IF KeyError(r[2]) = "nil"
                   THEN Tagged(KeyTag(r[2]), KeyWire(r[2]))
                   ELSE Failure(KeyError(r[2]))
       /\ UNCHANGED <<buf, end, saved>>

\* ReadUvarint; ReadVarint and ReadBool differ in what they make of the value.
ReadUvarint ==
  \/ Stuck
  \/ err = "nil" /\ VarintFails
  \/ \E r \in readUvarint(buf, pos, end) :
       err = "nil" /\ Advance(r[1], Value(r[2]))

\* ReadFixed32 and ReadFixed64, and the floats read through them.
ReadFixed(n) ==
  \/ Stuck
  \/ err = "nil" /\ remaining < n /\ Fail("ErrTruncated")
  \/ err = "nil" /\ remaining >= n /\ Advance(n, Value(0))

\* readLenBytes (ReadString, ReadBytes) does not look at the sticky error.
ReadBytes ==
  \/ VarintFails
  \/ \E r \in readUvarint(buf, pos, end) :
       IF end - (pos + r[1]) < r[2]
         THEN /\ pos' = pos + r[1]
              /\ setErr("ErrTruncated")
              /\ ret' = Failure(IF err = "nil" THEN "ErrTruncated" ELSE err)
              /\ UNCHANGED <<buf, end, saved>>
         ELSE Advance(r[1] + ToInt(r[2]), Value(ToInt(r[2])))

\* An element count; nor does ReadLength look at the sticky error.
ReadLength ==
  \/ VarintFails
  \/ \E r \in readUvarint(buf, pos, end) :
       /\ pos' = pos + r[1]
       /\ IF r[2] > end - (pos + r[1])
            THEN /\ setErr("ErrTruncated")
                 /\ ret' = Failure(IF err = "nil" THEN "ErrTruncated" ELSE err)
            ELSE ret' = Value(ToInt(r[2])) /\ UNCHANGED err
       /\ UNCHANGED <<buf, end, saved>>

\* MakeSlice refuses an allocation over its budget by setting the sticky
\* error; the caller looks at Err next.
MakeSlice(n) ==
  IF n > MaxSliceAlloc
    THEN Fail("ErrAllocTooLarge")
    ELSE ret' = Value(n) /\ UNCHANGED <<buf, pos, end, err, saved>>

\* PresenceNil = 0, PresenceNonZero = 1, PresenceZero = 3 (only where zero
\* elision is allowed); 2 and the bytes with higher bits are malformed.
PresenceStates(allowZeroElide) == {0, 1} \cup (IF allowZeroElide THEN {3} ELSE {})

ReadPresenceByte(allowZeroElide) ==
  \/ Stuck
  \/ err = "nil" /\ remaining < 1 /\ Fail("ErrTruncated")
  \/ /\ err = "nil" /\ remaining >= 1
     /\ pos' = pos + 1
     /\ IF buf[pos + 1] \in PresenceStates(allowZeroElide)
          THEN ret' = Value(buf[pos + 1]) /\ UNCHANGED err
          ELSE setErr("ErrInvalidPresence") /\ ret' = Failure("ErrInvalidPresence")
     /\ UNCHANGED <<buf, end, saved>>

\* Mutant: the length prefix is compared with the input, not with the region.
BeginLengthDelimInput ==
  \/ VarintFails
  \/ \E r \in readUvarint(buf, pos, end) :
       /\ pos' = pos + r[1]
       /\ IF Len(buf) - (pos + r[1]) < r[2]
            THEN /\ setErr("ErrTruncated")
                 /\ ret' = Failure("ErrTruncated")
                 /\ UNCHANGED <<end, saved>>
            ELSE /\ end' = pos + r[1] + ToInt(r[2])
                 /\ saved' = Append(saved, end)
                 /\ ret' = Value(end)
                 /\ UNCHANGED err
       /\ UNCHANGED buf

\* Opening a region narrows the bound; the caller keeps the outer one.
BeginLengthDelim ==
  \/ VarintFails
  \/ \E r \in readUvarint(buf, pos, end) :
       /\ pos' = pos + r[1]
       /\ IF end - (pos + r[1]) < r[2]
            THEN /\ setErr("ErrTruncated")
                 /\ ret' = Failure(IF err = "nil" THEN "ErrTruncated" ELSE err)
                 /\ UNCHANGED <<end, saved>>
            ELSE /\ end' = pos + r[1] + ToInt(r[2])
                 /\ saved' = Append(saved, end)
                 /\ ret' = Value(end)
                 /\ UNCHANGED err
       /\ UNCHANGED buf

\* Closing a region restores the outer bound, but only if every byte of the
\* region was read and no error is pending; the frame is popped either way.
EndLengthDelim ==
  /\ saved # <<>>
  /\ saved' = SubSeq(saved, 1, Len(saved) - 1)
  /\ IF err # "nil"
       THEN ret' = Failure(err) /\ UNCHANGED <<end, err>>
       ELSE IF pos # end
         THEN /\ setErr("ErrTrailingBytes")
              /\ ret' = Failure("ErrTrailingBytes")
              /\ UNCHANGED end
         ELSE /\ end' = saved[Len(saved)]
              /\ ret' = Value(0)
              /\ UNCHANGED err
  /\ UNCHANGED <<buf, pos>>

\* Skipping the value of an unknown tag.
SkipField(wt) ==
  \/ Stuck
  \/ /\ err = "nil" /\ wt = WireVarint
     /\ ReadUvarint
  \/ /\ err = "nil" /\ wt = WireFixed64
     /\ ReadFixed(Fixed64Size)
  \/ /\ err = "nil" /\ wt = WireFixed32
     /\ ReadFixed(Fixed32Size)
  \/ /\ err = "nil" /\ wt = WireLengthDelim
     /\ ReadBytes
  \/ /\ err = "nil" /\ ~ validWireType(wt)
     /\ Fail("ErrReservedWire")

-----------------------------------------------------------------------------
Init == \E src \in Inputs : NewReader(src)

Next ==
  \/ \E src \in ResetInputs : Reset(src)
  \/ ReadTag
  \/ ReadUvarint
  \/ \E n \in {Fixed32Size, Fixed64Size} : ReadFixed(n)
  \/ ReadBytes
  \/ ReadLength
  \/ \E n \in 0 .. MaxSliceAlloc + 1 : MakeSlice(n)
  \/ \E z \in BOOLEAN : ReadPresenceByte(z)
  \/ Len(saved) < MaxDepth /\ BeginLengthDelim
  \/ EndLengthDelim
  \/ \E wt \in WireTypes : SkipField(wt)

Spec == Init /\ [][Next]_vars

-----------------------------------------------------------------------------
TypeOK ==
  /\ buf \in Seq(Byte)
  /\ pos \in Nat
  /\ end \in Nat
  /\ err \in {"nil"} \cup Errors
  /\ saved \in Seq(Nat)
  /\ ret \in Returned

\* The outer bounds s enclose the bound e and each other, within n bytes.
Nested(s, e, n) ==
  /\ \A i \in 1 .. Len(s) : e <= s[i] /\ s[i] <= n
  /\ \A i, j \in 1 .. Len(s) : i <= j => s[j] <= s[i]

\* The regions are nested inside the input: the cursor never passes the
\* innermost bound, an inner bound never passes the outer one and the
\* outermost never passes the input.  Every slice expression of the reader
\* (buf[pos:pos+n], buf[:end]) is therefore in range, whatever the bytes and
\* whatever the caller does, also after an error the caller ignored.
RegionsNested ==
  /\ pos <= end
  /\ end <= Len(buf)
  /\ Nested(saved, end, Len(buf))

\* The first error sticks until Reset (setErr), so a decoder that looks at
\* Err only at the end reports the failure that happened first.
FirstErrorSticks ==
  [][err # "nil" => err' = err \/ (pos' = 0 /\ saved' = <<>> /\ err' = "nil")]_vars
=============================================================================
