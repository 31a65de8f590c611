----------------------------- MODULE BlobStream -----------------------------
(***************************************************************************)
(* Blobs sent one after the other over a byte stream: MarshalToWriter      *)
(* (storage/gsbm/gsbm.go) writes them, NewReaderFromN and ReadHeader       *)
(* (storage/gsbm/reader.go) read them while they arrive.  The writer may   *)
(* die or meet a write error at any byte, and the medium may damage a word *)
(* of a header.                                                            *)
(*                                                                         *)
(* The stream is a sequence of words.  A header is one word per four       *)
(* bytes, as its layout is: magic; version, flags and hint; bodyLen; and   *)
(* inflatedLen when extended.  A body word stands for a piece of the body  *)
(* (or of its compressed frame) and names the blob it belongs to.          *)
(***************************************************************************)
EXTENDS Integers, Sequences

CONSTANTS
  Kinds,        \* what a blob may be: [method, raw, stored], sizes in words
  MaxBlobs,     \* bound: blobs sent
  MaxFaults,    \* bound: words damaged on the way
  MaxBodyLen,   \* NewReaderFromN's limit, -1 for none
  InflateCap,   \* decoderMaxDecompressedSize
  SizeOver      \* a length larger than any body

ASSUME BoundsAssumption ==
  /\ MaxBlobs \in Nat /\ MaxFaults \in Nat /\ MaxBodyLen \in Int
  /\ InflateCap \in Nat /\ SizeOver \in Nat

\* A gzip frame has a header and a trailer; the zstd encoder writes nothing for
\* nothing.
ASSUME KindsAssumption ==
  \A k \in Kinds : /\ k.method \in {"none", "zstd", "gzip"}
                   /\ k.raw \in 0..InflateCap /\ k.stored \in 0..SizeOver
                   /\ k.method = "none" => k.stored = k.raw
                   /\ k.stored = 0 => k.raw = 0 /\ k.method # "gzip"

VARIABLES
  sent,      \* kinds of the blobs whose marshalling began, in order
  out,       \* words the current MarshalToWriter has still to write
  open,      \* the writer's end is open
  pipe,      \* words written and not yet read
  pc,        \* the reader: "base", "ext", "body", "header", "failed"
  slice,     \* the blob the reader is assembling
  got,       \* the bodies read
  err,       \* the reader's error, or "none"
  faults,    \* words damaged so far
  whole      \* blobs written to the last word

vars == <<sent, out, open, pipe, pc, slice, got, err, faults, whole>>

HeaderSize == 3
ExtendedHeaderSize == 4

-----------------------------------------------------------------------------
(* The words of a blob.                                                    *)

compresses(m) == m # "none"

MagicWord(ok) == [w |-> "magic", v |-> ok]
FlagsWord(ver, m, ext, res) == [w |-> "flags", v |-> <<ver, m, ext, res>>]
SizeWord(n) == [w |-> "size", v |-> n]
BodyWord(id, i) == [w |-> "body", v |-> <<id, i>>]

Header(k, stored, raw) ==
  <<MagicWord(TRUE), FlagsWord(2, k.method, compresses(k.method), FALSE), SizeWord(stored)>>
  \o (IF compresses(k.method) THEN <<SizeWord(raw)>> ELSE <<>>)

\* Mutants: a body one word longer than declared, the two lengths swapped, and
\* the raw length for bodyLen.
WriteHeaderShort(k)   == Header(k, IF k.stored > 0 THEN k.stored - 1 ELSE 0, k.raw)
WriteHeaderSwapped(k) == Header(k, k.raw, k.stored)
WriteHeaderRaw(k)     == Header(k, k.raw, k.raw)

\* bodyLen is what follows on the wire, inflatedLen what it inflates to.
WriteHeader(k) == Header(k, k.stored, k.raw)

Payload(id, k) == [i \in 1..k.stored |-> BodyWord(id, i)]
Blob(id, k) == WriteHeader(k) \o Payload(id, k)

-----------------------------------------------------------------------------
(* Reading.  A word is what its position makes it: a length read where a    *)
(* body word stands is some large number.                                  *)

GoodMagic(x) == x.w = "magic" /\ x.v
Ver(x)     == IF x.w = "flags" THEN x.v[1] ELSE 0
SizeOf(x)  == IF x.w = "size" THEN x.v ELSE SizeOver

\* headerCompressionMethod: reserved bits, a codec this build does not know,
\* and the extended bit on an uncompressed blob are all ErrReservedFlags.
FlagsOK(x) ==
  /\ ~x.v[4]
  /\ x.v[2] \in {"none", "zstd", "gzip"}
  /\ x.v[3] => compresses(x.v[2])
Method(x)   == x.v[2]
Extended(x) == x.v[3]

\* The checks both entry points make on the base header, in their order.
BaseError(b) ==
  IF ~GoodMagic(b[1])     THEN "ErrBadMagic"
  ELSE IF Ver(b[2]) # 2   THEN "ErrUnsupportedVer"
  ELSE IF ~FlagsOK(b[2])  THEN "ErrReservedFlags"
  ELSE "none"

\* decompressBody (external codec): it inflates the frame some blob was
\* compressed to, by the method that made it; a declared size must be exact.
\* No bytes are no frame to gzip, and nothing to zstd.
Inflates(sentKinds, m, frame, inflatedLen) ==
  \/ frame = <<>> /\ m = "zstd" /\ inflatedLen \in {-1, 0}
  \/ \E id \in DOMAIN sentKinds :
       /\ frame # <<>> /\ frame = Payload(id, sentKinds[id])
       /\ m = sentKinds[id].method
       /\ inflatedLen \in {-1, sentKinds[id].raw}

\* The checks on the blob b, in their order: the error set, or "none".
HeaderError(sentKinds, b, check) ==
  IF Len(b) < HeaderSize THEN "ErrTruncated"
  ELSE IF BaseError(b) # "none" THEN BaseError(b)
  ELSE
    LET ext == Extended(b[2])
        headerLen == IF ext THEN ExtendedHeaderSize ELSE HeaderSize
        inflatedLen == IF ext THEN SizeOf(b[4]) ELSE -1
        m == Method(b[2])
        body == SubSeq(b, headerLen + 1, Len(b))
    IN IF Len(b) < headerLen                     THEN "ErrTruncated"
       ELSE IF ext /\ inflatedLen > InflateCap   THEN "ErrCorruptCompressedBody"
       ELSE IF check /\ SizeOf(b[3]) # Len(body) THEN "ErrBodyLenMismatch"
       ELSE IF compresses(m) /\ ~Inflates(sentKinds, m, body, inflatedLen)
                                                 THEN "ErrCorruptCompressedBody"
       ELSE "none"

\* Mutant: the storage layer's length is not cross-checked.
ReadHeaderUnchecked(sentKinds, b) == HeaderError(sentKinds, b, FALSE)
ReadHeader(sentKinds, b) == HeaderError(sentKinds, b, TRUE)

BodyOf(b) ==
  SubSeq(b, (IF Extended(b[2]) THEN ExtendedHeaderSize ELSE HeaderSize) + 1, Len(b))

-----------------------------------------------------------------------------
Init ==
  /\ sent = <<>> /\ out = <<>> /\ open = TRUE /\ pipe = <<>>
  /\ pc = "base" /\ slice = <<>> /\ got = <<>> /\ err = "none"
  /\ faults = 0 /\ whole = 0

\* MarshalToWriter: the blob is complete in memory before its first Write, of
\* header and body together or one after the other; the calls write on.
MarshalToWriter(k) ==
  /\ open /\ out = <<>> /\ Len(sent) < MaxBlobs
  /\ sent' = Append(sent, k)
  /\ out' = Blob(Len(sent) + 1, k)
  /\ UNCHANGED <<open, pipe, pc, slice, got, err, faults, whole>>

Write ==
  /\ out # <<>>
  /\ pipe' = Append(pipe, Head(out))
  /\ out' = Tail(out)
  /\ whole' = IF Len(out) = 1 THEN whole + 1 ELSE whole
  /\ UNCHANGED <<sent, open, pc, slice, got, err, faults>>

\* The writer closes the stream, dies, or gives up after a failed Write.
Close ==
  /\ open
  /\ open' = FALSE
  /\ out' = <<>>
  /\ UNCHANGED <<sent, pipe, pc, slice, got, err, faults, whole>>

\* The medium damages a header word.
Damaged(x) ==
  CASE x.w = "magic" -> {MagicWord(FALSE)}
    [] x.w = "flags" -> {FlagsWord(v, m, e, r) :
                           v \in {1, 2}, m \in {"none", "zstd", "gzip", "other"},
                           e \in BOOLEAN, r \in BOOLEAN}
    [] x.w = "size"  -> {SizeWord(n) : n \in 0..2 \union {SizeOver}}
    [] OTHER         -> {}
Damage(i) ==
  /\ faults < MaxFaults
  /\ \E x \in Damaged(pipe[i]) \ {pipe[i]} : pipe' = [pipe EXCEPT ![i] = x]
  /\ faults' = faults + 1
  /\ UNCHANGED <<sent, out, open, pc, slice, got, err, whole>>

-----------------------------------------------------------------------------
(* newReaderFrom: io.ReadFull of the base header, of inflatedLen, of the    *)
(* body.  ReadFull waits for all it wants, or for the end of the stream.    *)

Wanted ==
  CASE pc = "base" -> HeaderSize
    [] pc = "ext"  -> ExtendedHeaderSize - HeaderSize
    [] pc = "body" -> SizeOf(slice[3])

Fail(e) == pc' = "failed" /\ err' = e /\ UNCHANGED <<slice, got>>

\* After the header: the allocation is bounded before it is made.
BoundBody(s) ==
  IF MaxBodyLen >= 0 /\ SizeOf(s[3]) > MaxBodyLen
  THEN Fail("ErrAllocTooLarge")
  ELSE /\ pc' = "body" /\ slice' = s
       /\ UNCHANGED <<got, err>>

\* Mutant: the extension is taken for part of the body.
ReadBaseOnly(s) ==
  IF BaseError(s) # "none" THEN Fail(BaseError(s)) ELSE BoundBody(s)

ReadBase(s) ==
  IF BaseError(s) # "none" THEN Fail(BaseError(s))
  ELSE IF Extended(s[2])
       THEN pc' = "ext" /\ slice' = s /\ UNCHANGED <<got, err>>
       ELSE BoundBody(s)

ReadFull ==
  /\ pc \in {"base", "ext", "body"}
  /\ IF Len(pipe) >= Wanted
     THEN LET s == slice \o SubSeq(pipe, 1, Wanted)
          IN /\ pipe' = SubSeq(pipe, Wanted + 1, Len(pipe))
             /\ CASE pc = "base" -> ReadBase(s)
                  [] pc = "ext"  -> BoundBody(s)
                  [] pc = "body" -> pc' = "header" /\ slice' = s /\ UNCHANGED <<got, err>>
     ELSE /\ ~open /\ out = <<>>
          /\ pipe' = <<>>
          /\ Fail("ErrTruncated")
  /\ UNCHANGED <<sent, out, open, faults, whole>>

\* The decoder takes the body; the caller asks for the next blob.
Accept ==
  /\ got' = Append(got, BodyOf(slice))
  /\ pc' = "base" /\ slice' = <<>>
  /\ UNCHANGED err

\* NewReader(blob).ReadHeader.
ParseHeader ==
  /\ pc = "header"
  /\ LET e == ReadHeader(sent, slice)
     IN IF e = "none" THEN Accept ELSE Fail(e)
  /\ UNCHANGED <<sent, out, open, pipe, faults, whole>>

Next ==
  \/ \E k \in Kinds : MarshalToWriter(k)
  \/ Write
  \/ Close
  \/ \E i \in DOMAIN pipe : Damage(i)
  \/ ReadFull
  \/ ParseHeader

\* io.ReadFull returns once it has its bytes or the end; a started
\* MarshalToWriter writes on until it is done or the writer gives up.
Spec ==
  /\ Init /\ [][Next]_vars
  /\ WF_vars(ReadFull) /\ WF_vars(ParseHeader) /\ WF_vars(Write)

-----------------------------------------------------------------------------
(* Properties.                                                             *)

\* On an undamaged stream the reader's bodies are the writer's, in order, with
\* nothing of one blob taken for another: the constructor reads a blob's own
\* bytes and no further.
ReadsExactPrefix ==
  faults = 0 => got = [i \in 1..Len(got) |-> Payload(i, sent[i])]

\* On an undamaged stream reading stops only at the end of the stream, and then
\* with every complete blob read, however the writer died; or at a blob over
\* the caller's limit.
FailsOnlyWhereTorn ==
  faults = 0 /\ err # "none" =>
    \/ err = "ErrTruncated" /\ ~open /\ Len(got) = whole
    \/ err = "ErrAllocTooLarge" /\ sent[Len(got) + 1].stored > MaxBodyLen

\* Whatever the damage, a blob newReaderFrom assembles meets no framing error
\* in the ReadHeader that parses it again: the two readings of the header agree
\* on its size and on where the body starts.
HeaderAgreement ==
  pc = "header" => ReadHeader(sent, slice) \in {"none", "ErrCorruptCompressedBody"}

\* A blob cut short anywhere, or with bytes of the next one behind it, is
\* rejected by ReadHeader as such, compressed or not.
TornSliceRejected ==
  \A id \in DOMAIN sent :
    LET b == Blob(id, sent[id])
    IN /\ \A n \in 0..(Len(b) - 1) :
            ReadHeader(sent, SubSeq(b, 1, n)) \in {"ErrTruncated", "ErrBodyLenMismatch"}
       /\ ReadHeader(sent, b) = "none"
       /\ ReadHeader(sent, Append(b, MagicWord(TRUE))) = "ErrBodyLenMismatch"

ReaderStatus ==
  IF faults > 0 THEN "damaged"
  ELSE CASE err = "none"             -> "open"
         [] err = "ErrTruncated"     -> "ended"
         [] err = "ErrAllocTooLarge" -> "refused"
         [] OTHER                    -> "rejected"

Queue == INSTANCE BlobQueue WITH
  Bodies   <- {Payload(id, k) : id \in 1..MaxBlobs, k \in Kinds},
  Limit    <- MaxBodyLen,
  queue    <- [i \in 1..Len(sent) |-> Payload(i, sent[i])],
  complete <- whole,
  received <- got,
  closed   <- ~ open,
  status   <- ReaderStatus

\* An undamaged stream of MarshalToWriter's blobs is a queue to newReaderFrom and
\* ReadHeader: each body is read whole, once and in order, each complete one is
\* read in the end, whether or not anything follows it, and the reader stops
\* only at the end of the stream or at a body over its limit, but there it does.
ImplementsQueue == Queue!QSpec
=============================================================================
