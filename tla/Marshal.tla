------------------------------- MODULE Marshal ------------------------------
(***************************************************************************)
(* Encoding a blob (storage/gsbm/writer.go, presence.go and the Marshal    *)
(* functions of gsbm.go).  MarshalGSBM walks the value twice: over a       *)
(* counting Writer, then over a buffered one (no compression) or over one  *)
(* that streams into a compressor through a small buffer.  A pooled Writer *)
(* that a caller drives by hand takes one pass only.                       *)
(*                                                                         *)
(* The value is the sequence of Writer calls its MarshalGSBM makes; it is  *)
(* chosen call by call in the first pass, and the second pass repeats it.  *)
(* What a materializing codec produces is chosen afresh each time it runs, *)
(* as for a clock or an unordered map, so that the two passes agree only   *)
(* through the cache.                                                      *)
(***************************************************************************)
EXTENDS WriterCalls

CONSTANTS
  Chunks,        \* byte strings of tags, varints, fixed-width values, lengths
  Payloads,      \* byte strings of strings, byte slices and codec outputs
  Slots,         \* <<callsite, lane>>: the cells of the materialization cache
  OptionSet,     \* the Options callers pass: [compress, compression]
  FrameLens,     \* lengths a compressed frame may have
  Threshold,     \* streamFlushThreshold; 8192 in the code
  ReservedLen,   \* reservedLenBytes; 5 in the code
  MaxUint32,     \* largest body a header can declare
  MaxOps,        \* bound: calls one MarshalGSBM makes
  MaxNesting     \* bound: open regions

ASSUME MarshalAssumption ==
  /\ Threshold \in Nat \ {0} /\ ReservedLen \in Nat \ {0} /\ MaxUint32 \in Nat
  /\ MaxUint32 < VarintBase ^ ReservedLen
  /\ Chunks \cup Payloads \subseteq Seq(Byte)
  /\ OptionSet \subseteq [compress : BOOLEAN, compression : 0 .. 7]
  /\ FrameLens \subseteq Nat \ {0}
  /\ MaxOps \in Nat /\ MaxNesting \in Nat

VARIABLES
  phase,     \* "idle", "size", "write", "manual", "deliver", "deliverBody"
  method,    \* CompressionMethod in force; Manual for a pooled Writer
  script,    \* the calls of this MarshalGSBM, as the first pass made them
  pc,        \* calls repeated by the second pass
  buf,       \* the Writer's buffer, after the header if it holds one
  err,       \* its sticky error
  sizeAcc,   \* body bytes counted; rawLen or bodyLen in the second pass
  recorded,  \* recordedRegions, handed over as streamSizes
  stack,     \* regionStack
  sizeIdx,   \* streamSizeIdx
  markers,   \* what BeginLengthDelim returned, in the caller's frames
  scratch,   \* [Slots -> materialization cache entry]
  gens,      \* runs of a materializing codec for this blob
  enc,       \* bytes the compressor has accepted
  header,    \* the lengths and the method the blob's header declares
  dest,      \* what the destination holds of this blob
  result     \* "none" while encoding, "ok" or the error returned

regionVars == <<recorded, stack, sizeIdx, markers>>
cacheVars  == <<scratch, gens>>
callVars   == <<phase, method, header, dest, result>>
vars == <<phase, method, script, pc, buf, err, sizeAcc, regionVars, cacheVars,
          enc, header, dest, result>>

CompressionNone == 0
CompressionZstd == 1
CompressionGzip == 2
defaultCompression == CompressionGzip
Manual == 8

compresses(m) == m \notin {CompressionNone, Manual}
validCompressionMethod(m) == m \in {CompressionNone, CompressionZstd, CompressionGzip}

\* The Writer's mode: sizeOnly, a stream target, or neither.
mode == CASE phase = "size" -> "size"
          [] phase # "size" /\ compresses(method) -> "stream"
          [] OTHER -> "buffered"

NoHeader  == [method |-> CompressionNone, bodyLen |-> 0, inflatedLen |-> 0]
NoScratch == [s \in Slots |-> [values |-> <<>>, idx |-> 0]]

-----------------------------------------------------------------------------
(* The Writer's methods, in the three modes. *)

\* afterWrite: the buffer b goes to the compressor once it reaches the
\* threshold; a failing compressor is a sticky error.
afterWrite(b) ==
  \/ Len(b) < Threshold /\ buf' = b /\ UNCHANGED <<enc, err>>
  \/ Len(b) >= Threshold /\ buf' = <<>> /\ enc' = enc \o b /\ UNCHANGED err
  \/ Len(b) >= Threshold /\ buf' = b /\ err' = "ErrTarget" /\ UNCHANGED enc

\* The lengths of b \o s at which writeChunked flushes: a buffer b that is
\* full already is flushed as it is, then each time the threshold is reached.
FlushPoints(b, s) ==
  {n \in 1 .. Len(b \o s) :
     IF Len(b) >= Threshold
       THEN n >= Len(b) /\ (n - Len(b)) % Threshold = 0
       ELSE n % Threshold = 0}

\* writeChunked and writeChunkedBytes: the payload s passes through the
\* buffer b piece by piece; any of the flushes may fail.
writeChunked(b, s) ==
  LET all  == b \o s
      before(n) == Max({0} \cup {f \in FlushPoints(b, s) : f < n})
  IN \/ LET last == before(Len(all) + 1)
        IN /\ enc' = enc \o SubSeq(all, 1, last)
           /\ buf' = SubSeq(all, last + 1, Len(all))
           /\ UNCHANGED err
     \/ \E f \in FlushPoints(b, s) :
          /\ enc' = enc \o SubSeq(all, 1, before(f))
          /\ buf' = SubSeq(all, before(f) + 1, f)
          /\ err' = "ErrTarget"

\* WriteTag, WriteUvarint, WriteVarint, WriteBool, WriteFixed32 and 64, and
\* WriteLength: a few bytes, then afterWrite.
Write(b) ==
  \/ mode = "size" /\ sizeAcc' = sizeAcc + Len(b) /\ UNCHANGED <<buf, enc, err>>
  \/ mode = "buffered" /\ buf' = buf \o b /\ UNCHANGED <<enc, err, sizeAcc>>
  \/ mode = "stream" /\ afterWrite(buf \o b) /\ UNCHANGED sizeAcc

\* WritePresenceNil, NonZero and Zero append their byte without afterWrite.
WritePresence(b) ==
  /\ IF mode = "size"
       THEN sizeAcc' = sizeAcc + 1 /\ UNCHANGED buf
       ELSE buf' = buf \o b /\ UNCHANGED sizeAcc
  /\ UNCHANGED <<enc, err>>

\* WriteString and WriteBytes.
WriteBytes(b) ==
  LET prefix == appendUvarint[Len(b)] IN
  \/ /\ mode = "size"
     /\ sizeAcc' = sizeAcc + varintLen[Len(b)] + Len(b)
     /\ UNCHANGED <<buf, enc, err>>
  \/ mode = "buffered" /\ buf' = buf \o prefix \o b /\ UNCHANGED <<enc, err, sizeAcc>>
  \/ mode = "stream" /\ writeChunked(buf \o prefix, b) /\ UNCHANGED sizeAcc

\* WriteCachedString, WriteCachedBytes and WriteCachedAppendBytes at one lane
\* of a callsite: the cached value under the cursor, or else a new one v.
WriteCached(slot, v) ==
  LET e   == scratch[slot]
      hit == e.idx < Len(e.values)
  IN /\ hit => v = e.values[e.idx + 1]
     /\ scratch' = [scratch EXCEPT ![slot] =
          [values |-> IF hit THEN e.values ELSE Append(e.values, v), idx |-> e.idx + 1]]
     /\ gens' = IF hit THEN gens ELSE gens + 1
     /\ WriteBytes(v)

\* BeginLengthDelim: a snapshot and, for the compressed path, a slot in the
\* record of sizes; or the recorded size, up front; or room for the length.
BeginLengthDelim ==
  \/ /\ mode = "size"
     /\ markers' = Append(markers, sizeAcc)
     /\ IF compresses(method)
          THEN /\ recorded' = Append(recorded, 0)
               /\ stack' = Append(stack, Len(recorded) + 1)
          ELSE UNCHANGED <<recorded, stack>>
     /\ UNCHANGED <<buf, enc, err, sizeIdx>>
  \/ /\ mode = "stream"
     /\ IF sizeIdx >= Len(recorded)
          THEN err' = "ErrTruncated" /\ UNCHANGED <<buf, enc, sizeIdx>>
          ELSE /\ sizeIdx' = sizeIdx + 1
               /\ afterWrite(buf \o appendUvarint[recorded[sizeIdx + 1]])
     /\ markers' = Append(markers, 0)
     /\ UNCHANGED <<recorded, stack>>
  \/ /\ mode = "buffered"
     /\ markers' = Append(markers, Len(buf))
     /\ buf' = buf \o [i \in 1 .. ReservedLen |-> 0]
     /\ UNCHANGED <<enc, err, recorded, stack, sizeIdx>>

\* EndLengthDelim, in which r is the slot of the record that gets the size
\* and w the width of the length prefix that size mode accounts for.
EndRegion(r, w) ==
  LET marker == Last(markers) IN
  /\ markers' = Front(markers)
  /\ \/ /\ mode = "size"
        /\ sizeAcc' = sizeAcc + w
        /\ IF compresses(method)
             THEN /\ recorded' = [recorded EXCEPT ![r] = sizeAcc - marker]
                  /\ stack' = Front(stack)
             ELSE UNCHANGED <<recorded, stack>>
        /\ UNCHANGED <<buf, err>>
     \/ mode = "stream" /\ UNCHANGED <<sizeAcc, recorded, stack, buf, err>>
     \/ /\ mode = "buffered"
        /\ LET n    == Len(buf) - marker - ReservedLen
               body == SubSeq(buf, marker + ReservedLen + 1, Len(buf))
           IN IF varintLen[n] > ReservedLen
                THEN err' = "ErrBodyTooLarge" /\ UNCHANGED buf
                ELSE /\ buf' = SubSeq(buf, 1, marker) \o appendUvarint[n] \o body
                     /\ UNCHANGED err
        /\ UNCHANGED <<sizeAcc, recorded, stack>>
  /\ UNCHANGED <<enc, sizeIdx>>

\* Mutants: sizes are recorded in the order the regions open, or the size
\* pass forgets the length prefix of a region.
EndLengthDelimFirstSlot == EndRegion(Head(stack), varintLen[sizeAcc - Last(markers)])
EndLengthDelimNoPrefix  == EndRegion(Last(stack), 0)

EndLengthDelim == EndRegion(Last(stack), varintLen[sizeAcc - Last(markers)])

\* One call of MarshalGSBM with no error set (with one set, every method
\* returns at once and changes nothing).  v is what a codec would produce.
Do(op, v) ==
  /\ err = "nil"
  /\ \/ /\ op.op = "write" /\ Write(op.b) /\ UNCHANGED <<regionVars, cacheVars>>
     \/ /\ op.op = "presence" /\ WritePresence(op.b)
        /\ UNCHANGED <<regionVars, cacheVars>>
     \/ /\ op.op = "bytes" /\ WriteBytes(op.b) /\ UNCHANGED <<regionVars, cacheVars>>
     \/ /\ op.op = "cached" /\ WriteCached(op.slot, v) /\ UNCHANGED regionVars
     \/ /\ op.op = "begin" /\ BeginLengthDelim /\ UNCHANGED <<sizeAcc, cacheVars>>
     \/ /\ op.op = "end" /\ EndLengthDelim /\ UNCHANGED cacheVars

-----------------------------------------------------------------------------
(* The encode entry points. *)

\* The calls a value may make next.
Ops ==
  [op : {"write"}, b : Chunks] \cup [op : {"presence"}, b : {<<1>>}]
    \cup [op : {"bytes"}, b : Payloads]
    \cup [op : {"cached"}, slot : Slots, b : Payloads]
    \cup [op : {"begin", "end"}]

\* Options.method: an explicit codec wins over the deprecated flag.
resolve(o) ==
  IF compresses(o.compression) THEN o.compression
  ELSE IF o.compress THEN defaultCompression ELSE CompressionNone

\* The state of a Writer that has just been made, and of the call's frames.
FreshWriter ==
  /\ buf' = <<>> /\ err' = "nil" /\ sizeAcc' = 0
  /\ recorded' = <<>> /\ stack' = <<>> /\ sizeIdx' = 0 /\ markers' = <<>>
  /\ scratch' = NoScratch /\ gens' = 0 /\ enc' = <<>>
  /\ script' = <<>> /\ pc' = 0 /\ header' = NoHeader /\ dest' = "empty"

\* Marshal, MarshalWithOptions and MarshalToWriter up to the size pass.
Start(o) ==
  /\ phase = "idle"
  /\ FreshWriter /\ method' = resolve(o)
  /\ IF validCompressionMethod(resolve(o))
       THEN phase' = "size" /\ result' = "none"
       ELSE phase' = "idle" /\ result' = "ErrUnsupportedCompression"

\* A pooled Writer: Reset, then WriteHeader with a placeholder for bodyLen.
Reset ==
  /\ phase = "idle"
  /\ FreshWriter /\ method' = Manual
  /\ phase' = "manual" /\ result' = "none"

\* A call of the first pass: the value decides which.
Call(op) ==
  /\ phase \in {"size", "manual"} /\ Len(script) < MaxOps
  /\ op.op = "begin" => Len(markers) < MaxNesting
  /\ op.op = "end" => markers # <<>>
  /\ Do(op, IF op.op = "cached" THEN op.b ELSE <<>>)
  /\ script' = Append(script, op)
  /\ UNCHANGED <<pc, callVars>>

\* A call of the first pass that fails: WriteTag refuses the tag, or the
\* append function of a codec returns an error.
CallFails ==
  /\ phase \in {"size", "manual"} /\ err = "nil"
  /\ err' \in {"ErrZeroTag", "ErrCodec"}
  /\ UNCHANGED <<script, pc, buf, sizeAcc, regionVars, cacheVars, enc, callVars>>

\* The second pass repeats the calls; a codec that runs again may produce
\* something else.
Repeat ==
  /\ phase = "write" /\ pc < Len(script)
  /\ \E v \in Payloads : Do(script[pc + 1], v)
  /\ pc' = pc + 1
  /\ UNCHANGED <<script, callVars>>

\* The entry point returns the error of MarshalGSBM, of the Writer or of the
\* size guard; an encoder that was borrowed is closed and dropped.
Return(e) ==
  /\ phase' = "idle" /\ result' = e
  /\ UNCHANGED <<method, script, pc, buf, err, sizeAcc, regionVars, cacheVars,
                 enc, header, dest>>

Fail ==
  /\ phase \in {"size", "write", "manual"} /\ err # "nil"
  /\ Return(err)

\* Mutant: the cursors are not rewound.
adoptScratchNoRewind == UNCHANGED scratch

\* adoptScratch: the write pass starts from the cache of the size pass, with
\* its cursors rewound.
adoptScratch == scratch' = [s \in Slots |-> [scratch[s] EXCEPT !.idx = 0]]

\* Mutant: the header is written as soon as the size is known.
SizeDoneHeaderFirst ==
  /\ phase = "size" /\ markers = <<>> /\ err = "nil"
  /\ \/ sizeAcc > MaxUint32 /\ Return("ErrBodyTooLarge")
     \/ /\ sizeAcc <= MaxUint32
        /\ phase' = "write" /\ adoptScratch /\ dest' = "torn"
        /\ header' = [NoHeader EXCEPT !.bodyLen = sizeAcc]
        /\ UNCHANGED <<method, script, pc, buf, err, sizeAcc, regionVars, gens,
                       enc, result>>

\* Between the passes: the guard on the size, then the second Writer.
SizeDone ==
  /\ phase = "size" /\ markers = <<>> /\ err = "nil"
  /\ \/ sizeAcc > MaxUint32 /\ Return("ErrBodyTooLarge")
     \/ /\ sizeAcc <= MaxUint32
        /\ phase' = "write" /\ adoptScratch
        /\ header' = IF compresses(method) THEN NoHeader
                     ELSE [NoHeader EXCEPT !.bodyLen = sizeAcc]
        /\ UNCHANGED <<method, script, pc, buf, err, sizeAcc, regionVars, gens,
                       enc, dest, result>>

\* The write pass is over: Bytes of the buffered Writer.
WriteDone ==
  /\ phase = "write" /\ pc = Len(script) /\ err = "nil" /\ ~compresses(method)
  /\ phase' = "deliver"
  /\ UNCHANGED <<method, script, pc, buf, err, sizeAcc, regionVars, cacheVars,
                 enc, header, dest, result>>

\* FinalizeBodyLen, then Bytes.
FinalizeBodyLen ==
  /\ phase = "manual" /\ markers = <<>> /\ err = "nil"
  /\ IF Len(buf) > MaxUint32
       THEN err' = "ErrBodyTooLarge" /\ UNCHANGED <<phase, header>>
       ELSE /\ phase' = "deliver" /\ UNCHANGED err
            /\ header' = [NoHeader EXCEPT !.bodyLen = Len(buf)]
  /\ UNCHANGED <<method, script, pc, buf, sizeAcc, regionVars, cacheVars, enc,
                 dest, result>>

\* The compressed path after the write pass: flushAll (all of flushed), Close,
\* the guard on the length n of the frame, and the extended header.
CloseFrame(flushed, n) ==
  /\ phase = "write" /\ pc = Len(script) /\ err = "nil" /\ compresses(method)
  /\ \/ flushed # <<>> /\ Return("ErrTarget")
     \/ /\ enc' = enc \o flushed /\ buf' = <<>>
        /\ \/ phase' = "idle" /\ result' \in {"ErrClose"} /\ UNCHANGED header
           \/ /\ n > MaxUint32 /\ phase' = "idle" /\ result' = "ErrBodyTooLarge"
              /\ UNCHANGED header
           \/ /\ n <= MaxUint32 /\ phase' = "deliver" /\ UNCHANGED result
              /\ header' = [method |-> method, bodyLen |-> n, inflatedLen |-> sizeAcc]
        /\ UNCHANGED <<method, script, pc, err, sizeAcc, regionVars, cacheVars, dest>>

\* Mutant: flushAll is forgotten.
FinishNoFlush == \E n \in FrameLens : CloseFrame(<<>>, n)

Finish == \E n \in FrameLens : CloseFrame(buf, n)

\* The blob goes to the destination: one write, or the header and then the
\* frame; a write that fails may leave a part behind.
Deliver ==
  /\ phase = "deliver"
  /\ \/ /\ dest' \in {"empty", "torn"} /\ phase' = "idle" /\ result' = "ErrDest"
     \/ /\ compresses(method) /\ dest' = "torn" /\ phase' = "deliverBody"
        /\ UNCHANGED result
     \/ /\ ~compresses(method) /\ dest' = "whole" /\ phase' = "idle" /\ result' = "ok"
  /\ UNCHANGED <<method, script, pc, buf, err, sizeAcc, regionVars, cacheVars, enc, header>>

DeliverBody ==
  /\ phase = "deliverBody" /\ phase' = "idle"
  /\ \/ dest' = "torn" /\ result' = "ErrDest"
     \/ dest' = "whole" /\ result' = "ok"
  /\ UNCHANGED <<method, script, pc, buf, err, sizeAcc, regionVars, cacheVars, enc, header>>

Init ==
  /\ phase = "idle" /\ method = CompressionNone /\ result = "none"
  /\ script = <<>> /\ pc = 0 /\ buf = <<>> /\ err = "nil" /\ sizeAcc = 0
  /\ recorded = <<>> /\ stack = <<>> /\ sizeIdx = 0 /\ markers = <<>>
  /\ scratch = NoScratch /\ gens = 0 /\ enc = <<>> /\ header = NoHeader
  /\ dest = "empty"

Next ==
  \/ \E o \in OptionSet : Start(o)
  \/ Reset
  \/ \E op \in Ops : Call(op)
  \/ CallFails
  \/ Repeat
  \/ Fail
  \/ SizeDone
  \/ WriteDone
  \/ FinalizeBodyLen
  \/ Finish
  \/ Deliver
  \/ DeliverBody

Spec == Init /\ [][Next]_vars

-----------------------------------------------------------------------------
(* Properties. *)

\* The body as the destination's reader will see it.
Body == IF compresses(method) THEN enc ELSE buf

\* The size pass counts exactly the bytes of the body, length prefixes of
\* nested regions included: bodyLen and inflatedLen are taken from it before a
\* byte is written.
SizePassExact == phase = "write" => sizeAcc = Len(Canonical(script))

\* A blob that is handed over holds the body of the calls of the first pass,
\* under a header that declares its length, whichever of the three Writers
\* produced it and whatever blob was encoded before.
BlobIsCanonical ==
  phase \in {"deliver", "deliverBody"} \/ result = "ok" =>
    /\ Body = Canonical(script)
    /\ header.method = IF compresses(method) THEN method ELSE CompressionNone
    /\ IF compresses(method) THEN header.inflatedLen = Len(Body)
       ELSE header.bodyLen = Len(Body)

\* In streaming mode the bytes given to the compressor so far, with the ones
\* in the buffer, are a prefix of the body: nothing has to be patched later.
StreamedPrefix ==
  phase = "write" /\ compresses(method) /\ err = "nil" =>
    IsPrefix(enc \o buf, Canonical(script))

\* A materializing codec runs once per occurrence, although MarshalGSBM runs
\* twice (adoptScratch hands the cache over).
OneMaterialization ==
  gens = Cardinality({i \in DOMAIN script : script[i].op = "cached"})

\* An encode that fails leaves nothing at the destination: only a failing
\* write to the destination itself can leave a torn blob.
NothingOnEncodeError ==
  dest # "empty" => result \in {"ok", "ErrDest"} \/ phase = "deliverBody"
=============================================================================
