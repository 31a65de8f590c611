-------------------------- MODULE BlobStreamProofs --------------------------
(***************************************************************************)
(* A stream of blobs is a queue for any number of blobs, of any kinds and  *)
(* sizes.  The writer may be several blobs ahead of the reader, so what    *)
(* the pipe holds is not one blob but a piece of all that was ever         *)
(* marshalled: the inductive invariant names that stream, where each blob  *)
(* begins in it, and how far the writer and the reader are.                *)
(***************************************************************************)
EXTENDS BlobStream, TLAPS

Methods == {"none", "zstd", "gzip", "other"}

\* The words of a stream, damaged or not.
Words ==
  [w : {"magic"}, v : BOOLEAN] \union [w : {"flags"}, v : Nat \X Methods \X BOOLEAN \X BOOLEAN]
  \union [w : {"size"}, v : Nat] \union [w : {"body"}, v : Nat \X Nat]

KindSet == [method : {"none", "zstd", "gzip"}, raw : Nat, stored : Nat]

\* The length of the header of a kind of blob, and of a header as it is read.
HeaderLen(k) == IF compresses(k.method) THEN 4 ELSE 3
ReadLen(s) == IF Extended(s[2]) THEN 4 ELSE 3

-----------------------------------------------------------------------------
(* Words and blobs.                                                         *)

\* Every word the program makes is a word.
LEMMA WordTypes ==
  /\ \A ok \in BOOLEAN : MagicWord(ok) \in Words /\ MagicWord(ok).w = "magic" /\ MagicWord(ok).v = ok
  /\ \A ver \in Nat, m \in Methods, e, r \in BOOLEAN :
       /\ FlagsWord(ver, m, e, r) \in Words /\ FlagsWord(ver, m, e, r).w = "flags"
       /\ FlagsWord(ver, m, e, r).v = <<ver, m, e, r>>
  /\ \A n \in Nat : SizeWord(n) \in Words /\ SizeWord(n).w = "size" /\ SizeWord(n).v = n
  /\ \A id, i \in Nat : BodyWord(id, i) \in Words
BY DEF Words, MagicWord, FlagsWord, SizeWord, BodyWord

\* What a word says of itself where a header is read.
LEMMA WordFacts ==
  ASSUME NEW x \in Words
  PROVE  /\ SizeOf(x) \in Nat
         /\ Ver(x) = 2 => x.w = "flags" /\ Extended(x) \in BOOLEAN
BY BoundsAssumption DEF Words, SizeOf, Ver, Extended

\* Sequences are the same when their elements are.
LEMMA SameSeq ==
  ASSUME NEW S, NEW s \in Seq(S), NEW t \in Seq(S), Len(s) = Len(t),
         \A i \in 1..Len(s) : s[i] = t[i]
  PROVE  s = t
OBVIOUS

\* One more at the end.
LEMMA Appended ==
  ASSUME NEW S, NEW s \in Seq(S), NEW x \in S
  PROVE  /\ Append(s, x) \in Seq(S) /\ Len(Append(s, x)) = Len(s) + 1
         /\ \A i \in 1..Len(s) : Append(s, x)[i] = s[i]
         /\ Append(s, x)[Len(s) + 1] = x
OBVIOUS

\* One behind the other.
LEMMA Joined ==
  ASSUME NEW S, NEW s \in Seq(S), NEW t \in Seq(S)
  PROVE  /\ s \o t \in Seq(S) /\ Len(s \o t) = Len(s) + Len(t)
         /\ \A j \in 1..Len(s) : (s \o t)[j] = s[j]
         /\ \A j \in 1..Len(t) : (s \o t)[Len(s) + j] = t[j]
OBVIOUS

\* Three words and a fourth.
LEMMA Listed ==
  ASSUME NEW S, NEW a \in S, NEW b \in S, NEW c \in S
  PROVE  /\ <<a, b, c>> \in Seq(S) /\ Len(<<a, b, c>>) = 3
         /\ <<a, b, c>>[1] = a /\ <<a, b, c>>[2] = b /\ <<a, b, c>>[3] = c
         /\ <<a>> \in Seq(S) /\ Len(<<a>>) = 1 /\ <<a>>[1] = a
         /\ <<>> \in Seq(S) /\ Len(<<>>) = 0
OBVIOUS

\* A blob is its header and its payload, at their places.
LEMMA BlobFacts ==
  ASSUME NEW k \in Kinds, NEW id \in Nat
  PROVE  /\ Payload(id, k) \in Seq(Words) /\ Len(Payload(id, k)) = k.stored
         /\ k.stored \in Nat /\ k.raw \in Nat /\ HeaderLen(k) \in {3, 4}
         /\ Blob(id, k) \in Seq(Words) /\ Len(Blob(id, k)) = HeaderLen(k) + k.stored
         /\ Blob(id, k)[1] = MagicWord(TRUE)
         /\ Blob(id, k)[2] = FlagsWord(2, k.method, compresses(k.method), FALSE)
         /\ Blob(id, k)[3] = SizeWord(k.stored)
         /\ compresses(k.method) => Blob(id, k)[4] = SizeWord(k.raw)
         /\ \A j \in 1..k.stored : Blob(id, k)[HeaderLen(k) + j] = BodyWord(id, j)
<1> DEFINE h == WriteHeader(k)
<1>1. k.method \in {"none", "zstd", "gzip"} /\ k.stored \in Nat /\ k.raw \in Nat
  BY KindsAssumption, BoundsAssumption
<1>2. compresses(k.method) \in BOOLEAN
  BY DEF compresses
<1>3. /\ h \in Seq(Words) /\ Len(h) = HeaderLen(k)
      /\ h[1] = MagicWord(TRUE) /\ h[2] = FlagsWord(2, k.method, compresses(k.method), FALSE)
      /\ h[3] = SizeWord(k.stored)
      /\ compresses(k.method) => h[4] = SizeWord(k.raw)
  <2> DEFINE mw == MagicWord(TRUE)
             fw == FlagsWord(2, k.method, compresses(k.method), FALSE)
             sw == SizeWord(k.stored)
             rw == SizeWord(k.raw)
  <2>1. mw \in Words /\ fw \in Words /\ sw \in Words /\ rw \in Words
    BY <1>1, <1>2, WordTypes DEF Methods
  <2>2. h = <<mw, fw, sw>> \o (IF compresses(k.method) THEN <<rw>> ELSE <<>>)
    BY DEF WriteHeader, Header
  <2> HIDE DEF mw, fw, sw, rw, h
  <2>3. CASE compresses(k.method)
    <3>1. h = <<mw, fw, sw>> \o <<rw>>
      BY <2>2, <2>3
    <3> DEFINE b == <<mw, fw, sw>>
               e == <<rw>>
    <3>2. /\ b \in Seq(Words) /\ Len(b) = 3 /\ b[1] = mw /\ b[2] = fw /\ b[3] = sw
          /\ e \in Seq(Words) /\ Len(e) = 1 /\ e[1] = rw
      BY <2>1, Listed
    <3> HIDE DEF b, e
    <3>3. b \in Seq(Words) /\ e \in Seq(Words)
      BY <3>2
    <3>4. /\ h \in Seq(Words) /\ Len(h) = Len(b) + Len(e)
          /\ \A i \in 1..Len(b) : h[i] = b[i]
          /\ \A j \in 1..Len(e) : h[Len(b) + j] = e[j]
      BY <3>1, <3>3 DEF b, e
    <3>5. /\ Len(h) = 4 /\ h[1] = b[1] /\ h[2] = b[2] /\ h[3] = b[3] /\ h[4] = e[1]
      BY <3>2, <3>4
    <3> QED BY <2>3, <3>2, <3>4, <3>5 DEF HeaderLen, mw, fw, sw, rw
  <2>4. CASE ~compresses(k.method)
    <3>1. h = <<mw, fw, sw>>
      BY <2>2, <2>4, <2>1
    <3> QED BY <2>1, <2>4, <3>1, Listed DEF HeaderLen, mw, fw, sw, rw
  <2> QED BY <2>3, <2>4
<1>4. /\ Payload(id, k) \in Seq(Words) /\ Len(Payload(id, k)) = k.stored
      /\ \A j \in 1..k.stored : Payload(id, k)[j] = BodyWord(id, j)
  BY <1>1, WordTypes DEF Payload
<1>5. HeaderLen(k) \in {3, 4}
  BY DEF HeaderLen
<1> HIDE DEF h
<1>6. Blob(id, k) = h \o Payload(id, k)
  BY DEF Blob, h
<1> DEFINE p == Payload(id, k)
<1> HIDE DEF p
<1>7. /\ Blob(id, k) \in Seq(Words) /\ Len(Blob(id, k)) = Len(h) + Len(p)
      /\ \A i \in 1..Len(h) : Blob(id, k)[i] = h[i]
      /\ \A j \in 1..Len(p) : Blob(id, k)[Len(h) + j] = p[j]
  <2>1. h \in Seq(Words) /\ p \in Seq(Words) /\ Blob(id, k) = h \o p
    BY <1>3, <1>4, <1>6 DEF p
  <2> QED BY <2>1
<1>8. Len(h) \in {3, 4} /\ 1 \in 1..Len(h) /\ 2 \in 1..Len(h) /\ 3 \in 1..Len(h)
  BY <1>3, <1>5
<1>9. compresses(k.method) => Len(h) = 4 /\ 4 \in 1..Len(h)
  BY <1>3 DEF HeaderLen
<1>10. \A j \in 1..k.stored : Blob(id, k)[HeaderLen(k) + j] = BodyWord(id, j)
  BY <1>3, <1>4, <1>7 DEF p
<1>11. Len(Blob(id, k)) = HeaderLen(k) + k.stored
  BY <1>3, <1>4, <1>7 DEF p
<1> DEFINE b == Blob(id, k)
<1> HIDE DEF b
<1>12. b[1] = h[1] /\ b[2] = h[2] /\ b[3] = h[3] /\ (compresses(k.method) => b[4] = h[4])
  BY <1>7, <1>8, <1>9 DEF b
<1> QED BY <1>1, <1>3, <1>4, <1>5, <1>7, <1>10, <1>11, <1>12, Zenon DEF b

\* A blob is at least a base header.
LEMMA BlobSeq ==
  ASSUME NEW k \in Kinds, NEW id \in Nat
  PROVE  /\ Blob(id, k) \in Seq(Words) /\ Payload(id, k) \in Seq(Words)
         /\ Len(Blob(id, k)) \in Nat /\ Len(Blob(id, k)) >= 3
<1>1. Blob(id, k) \in Seq(Words) /\ Payload(id, k) \in Seq(Words)
  BY BlobFacts, Zenon
<1>2. Len(Blob(id, k)) = HeaderLen(k) + k.stored /\ HeaderLen(k) \in {3, 4} /\ k.stored \in Nat
  BY BlobFacts, Zenon
<1> QED BY <1>1, <1>2

\* The base header of a blob is read as it was written.
LEMMA BaseRead ==
  ASSUME NEW k \in Kinds, NEW id \in Nat, NEW b,
         b[1] = Blob(id, k)[1], b[2] = Blob(id, k)[2], b[3] = Blob(id, k)[3]
  PROVE  /\ BaseError(b) = "none" /\ Extended(b[2]) = compresses(k.method)
         /\ Method(b[2]) = k.method /\ SizeOf(b[3]) = k.stored /\ ReadLen(b) = HeaderLen(k)
<1> DEFINE e == compresses(k.method)
<1>1. k.method \in {"none", "zstd", "gzip"} /\ k.method \in Methods /\ e \in BOOLEAN /\ k.stored \in Nat
  BY KindsAssumption, BoundsAssumption DEF compresses, Methods
<1>2. b[1] = MagicWord(TRUE) /\ b[2] = FlagsWord(2, k.method, e, FALSE) /\ b[3] = SizeWord(k.stored)
  BY BlobFacts
<1>3. b[1].w = "magic" /\ b[1].v = TRUE
  BY <1>2, WordTypes
<1>4. b[2].w = "flags"
  BY <1>2 DEF FlagsWord
<1>5. b[2].v[1] = 2 /\ b[2].v[2] = k.method /\ b[2].v[3] = e /\ b[2].v[4] = FALSE
  BY <1>2 DEF FlagsWord
<1>6. SizeOf(b[3]) = k.stored
  BY <1>1, <1>2, WordTypes DEF SizeOf
<1>7. GoodMagic(b[1]) /\ Ver(b[2]) = 2 /\ Extended(b[2]) = e /\ Method(b[2]) = k.method
  BY <1>3, <1>4, <1>5 DEF GoodMagic, Ver, Extended, Method
<1>8. FlagsOK(b[2])
  BY <1>1, <1>5 DEF FlagsOK
<1> QED BY <1>6, <1>7, <1>8 DEF BaseError, ReadLen, HeaderLen

\* ReadHeader on a piece of a blob that is too short or too long.
LEMMA LengthDecides ==
  ASSUME NEW k \in Kinds, NEW id \in Nat, NEW ks, NEW b \in Seq(Words),
         \A j \in 1..4 : j <= Len(b) /\ j <= Len(Blob(id, k)) => b[j] = Blob(id, k)[j],
         Len(b) # Len(Blob(id, k))
  PROVE  /\ ReadHeader(ks, b) \in {"ErrTruncated", "ErrBodyLenMismatch"}
         /\ Len(b) > Len(Blob(id, k)) => ReadHeader(ks, b) = "ErrBodyLenMismatch"
<1>1. /\ k.stored \in Nat /\ HeaderLen(k) \in {3, 4} /\ Len(b) \in Nat
      /\ Len(Blob(id, k)) = HeaderLen(k) + k.stored
  <2>1. Len(b) \in Nat
    OBVIOUS
  <2>2. k.stored \in Nat /\ HeaderLen(k) \in {3, 4} /\ Len(Blob(id, k)) = HeaderLen(k) + k.stored
    BY BlobFacts, Zenon
  <2> QED BY <2>1, <2>2
<1>2. CASE Len(b) < 3
  BY <1>1, <1>2 DEF ReadHeader, HeaderError, HeaderSize
<1>3. CASE Len(b) >= 3
  <2>1. b[1] = Blob(id, k)[1] /\ b[2] = Blob(id, k)[2] /\ b[3] = Blob(id, k)[3]
    BY <1>1, <1>3
  <2>2. /\ BaseError(b) = "none" /\ Extended(b[2]) = compresses(k.method)
        /\ SizeOf(b[3]) = k.stored /\ ReadLen(b) = HeaderLen(k)
    BY <2>1, BaseRead
  <2> DEFINE inf == IF Extended(b[2]) THEN SizeOf(b[4]) ELSE -1
             body == SubSeq(b, HeaderLen(k) + 1, Len(b))
  <2>3. ReadHeader(ks, b) =
          IF Len(b) < HeaderLen(k) THEN "ErrTruncated"
          ELSE IF Extended(b[2]) /\ inf > InflateCap THEN "ErrCorruptCompressedBody"
          ELSE IF k.stored # Len(body) THEN "ErrBodyLenMismatch"
          ELSE IF compresses(Method(b[2])) /\ ~Inflates(ks, Method(b[2]), body, inf)
               THEN "ErrCorruptCompressedBody" ELSE "none"
    BY <1>3, <2>2 DEF ReadHeader, HeaderError, HeaderSize, ExtendedHeaderSize, ReadLen
  <2>4. CASE Len(b) < HeaderLen(k)
    BY <1>1, <2>3, <2>4
  <2>5. CASE Len(b) >= HeaderLen(k)
    <3>1. ~(Extended(b[2]) /\ inf > InflateCap)
      <4>1. SUFFICES ASSUME Extended(b[2]) PROVE SizeOf(b[4]) = k.raw /\ k.raw <= InflateCap /\ k.raw \in Nat
        BY BoundsAssumption
      <4>2. HeaderLen(k) = 4 /\ compresses(k.method)
        BY <2>2, <4>1 DEF HeaderLen
      <4>a. b[4] = Blob(id, k)[4]
        BY <1>1, <2>5, <4>2
      <4>3. b[4] = SizeWord(k.raw) /\ k.raw \in Nat
        BY <4>a, <4>2, BlobFacts, Zenon
      <4> QED BY <4>3, WordTypes, KindsAssumption, BoundsAssumption DEF SizeOf
    <3>2. Len(body) = Len(b) - HeaderLen(k)
      BY <1>1, <2>5
    <3> HIDE DEF body, inf
    <3>3. k.stored # Len(body)
      BY <1>1, <3>2
    <3> QED BY <1>1, <2>3, <2>5, <3>1, <3>3
  <2> QED BY <1>1, <2>4, <2>5
<1> QED BY <1>1, <1>2, <1>3

\* ReadHeader takes a whole blob: what follows the header is the frame it announces.
LEMMA WholeRead ==
  ASSUME NEW ks \in Seq(Kinds), NEW id \in DOMAIN ks
  PROVE  /\ ReadHeader(ks, Blob(id, ks[id])) = "none"
         /\ BodyOf(Blob(id, ks[id])) = Payload(id, ks[id])
<1> DEFINE k == ks[id]
           b == Blob(id, k)
           p == Payload(id, k)
<1>1. k \in Kinds /\ id \in Nat
  OBVIOUS
<1> HIDE DEF k
<1>2. /\ p \in Seq(Words) /\ Len(p) = k.stored
      /\ k.stored \in Nat /\ k.raw \in Nat /\ HeaderLen(k) \in {3, 4}
      /\ b \in Seq(Words) /\ Len(b) = HeaderLen(k) + k.stored
      /\ compresses(k.method) => b[4] = SizeWord(k.raw)
      /\ \A j \in 1..k.stored : b[HeaderLen(k) + j] = BodyWord(id, j)
  BY <1>1, BlobFacts, Zenon
<1>3. /\ BaseError(b) = "none" /\ Extended(b[2]) = compresses(k.method)
      /\ Method(b[2]) = k.method /\ SizeOf(b[3]) = k.stored /\ ReadLen(b) = HeaderLen(k)
  BY <1>1, BaseRead, Zenon
<1>4. \A j \in 1..k.stored : p[j] = BodyWord(id, j)
  BY <1>2 DEF Payload
<1> HIDE DEF b, p
<1> DEFINE body == SubSeq(b, HeaderLen(k) + 1, Len(b))
<1>5. body = p
  <2>1. body \in Seq(Words) /\ Len(body) = k.stored
    BY <1>2
  <2>2. \A j \in 1..k.stored : body[j] = b[HeaderLen(k) + j]
    BY <1>2
  <2> HIDE DEF body
  <2>3. \A j \in 1..k.stored : body[j] = p[j]
    BY <1>2, <1>4, <2>2
  <2> QED BY <1>2, <2>1, <2>3, SameSeq
<1> DEFINE inf == IF Extended(b[2]) THEN SizeOf(b[4]) ELSE -1
<1>6. Len(b) >= 3 /\ Len(b) >= HeaderLen(k)
  BY <1>2
<1>7. ReadHeader(ks, b) =
        IF Extended(b[2]) /\ inf > InflateCap THEN "ErrCorruptCompressedBody"
        ELSE IF k.stored # Len(body) THEN "ErrBodyLenMismatch"
        ELSE IF compresses(k.method) /\ ~Inflates(ks, k.method, body, inf)
             THEN "ErrCorruptCompressedBody" ELSE "none"
  BY <1>3, <1>6 DEF ReadHeader, HeaderError, HeaderSize, ExtendedHeaderSize, ReadLen
<1>8. compresses(k.method) => inf = k.raw
  BY <1>2, <1>3, WordTypes DEF SizeOf
<1>9. ~(Extended(b[2]) /\ inf > InflateCap)
  BY <1>1, <1>2, <1>3, <1>8, KindsAssumption, BoundsAssumption
<1>10. compresses(k.method) => Inflates(ks, k.method, p, k.raw)
  <2> SUFFICES ASSUME compresses(k.method) PROVE Inflates(ks, k.method, p, k.raw)
    OBVIOUS
  <2>1. CASE p = <<>>
    <3>1. k.stored = 0
      BY <1>2, <2>1
    <3>2. k.raw = 0 /\ k.method = "zstd"
      BY <1>1, <3>1, KindsAssumption DEF compresses
    <3> QED BY <2>1, <3>2 DEF Inflates
  <2>2. CASE p # <<>>
    BY <2>2 DEF Inflates, k, p
  <2> QED BY <2>1, <2>2
<1>11. BodyOf(b) = body
  BY <1>3 DEF BodyOf, ReadLen, ExtendedHeaderSize, HeaderSize
<1>12. Len(p) = k.stored
  BY <1>2
<1> HIDE DEF body, inf
<1>13. ReadHeader(ks, b) = "none"
  BY <1>5, <1>7, <1>8, <1>9, <1>10, <1>12
<1> QED BY <1>5, <1>11, <1>13 DEF b, k, p

\* For blobs of every kind: one cut short anywhere, or with something behind it, is
\* rejected as such, and a whole one is taken.
LEMMA TornRejected == sent \in Seq(Kinds) => TornSliceRejected
<1> SUFFICES ASSUME sent \in Seq(Kinds), NEW id \in DOMAIN sent
             PROVE  LET b == Blob(id, sent[id])
                    IN /\ \A n \in 0..(Len(b) - 1) :
                            ReadHeader(sent, SubSeq(b, 1, n)) \in {"ErrTruncated", "ErrBodyLenMismatch"}
                       /\ ReadHeader(sent, b) = "none"
                       /\ ReadHeader(sent, Append(b, MagicWord(TRUE))) = "ErrBodyLenMismatch"
  BY DEF TornSliceRejected
<1> DEFINE k == sent[id]
           b == Blob(id, k)
<1>1. k \in Kinds /\ id \in Nat
  OBVIOUS
<1>2. ReadHeader(sent, b) = "none"
  BY WholeRead
<1> HIDE DEF k
<1>3. b \in Seq(Words) /\ MagicWord(TRUE) \in Words
  BY <1>1, BlobFacts, WordTypes
<1>4. ASSUME NEW n \in 0..(Len(b) - 1)
      PROVE  ReadHeader(sent, SubSeq(b, 1, n)) \in {"ErrTruncated", "ErrBodyLenMismatch"}
  <2> DEFINE c == SubSeq(b, 1, n)
  <2> HIDE DEF b
  <2>1. c \in Seq(Words) /\ Len(c) = n /\ Len(c) # Len(b) /\ \A j \in 1..n : c[j] = b[j]
    BY <1>3, <1>4
  <2> HIDE DEF c
  <2>2. \A j \in 1..4 : j <= Len(c) /\ j <= Len(b) => c[j] = b[j]
    BY <1>4, <2>1
  <2>3. ReadHeader(sent, c) \in {"ErrTruncated", "ErrBodyLenMismatch"}
    BY <1>1, <2>1, <2>2, LengthDecides DEF b
  <2> QED BY <2>3 DEF c
<1>5. ReadHeader(sent, Append(b, MagicWord(TRUE))) = "ErrBodyLenMismatch"
  <2> DEFINE mw == MagicWord(TRUE)
             c == Append(b, mw)
  <2>0. mw \in Words
    BY <1>3
  <2> HIDE DEF b, mw
  <2>1. c \in Seq(Words) /\ Len(c) = Len(b) + 1 /\ \A j \in 1..Len(b) : c[j] = b[j]
    BY <1>3, <2>0, Appended
  <2> HIDE DEF c
  <2>2. /\ \A j \in 1..4 : j <= Len(c) /\ j <= Len(b) => c[j] = b[j]
        /\ Len(c) # Len(b) /\ Len(c) > Len(b)
    BY <1>3, <2>1
  <2>3. ReadHeader(sent, c) = "ErrBodyLenMismatch"
    BY <1>1, <2>1, <2>2, LengthDecides DEF b
  <2> QED BY <2>3 DEF c, mw
<1> HIDE DEF b
<1> QED BY <1>2, <1>4, <1>5 DEF b, k

-----------------------------------------------------------------------------
(* What newReaderFrom has assembled, whatever the damage.                   *)

\* The words are words, and the reader is failed exactly when it has an error.
Types ==
  /\ sent \in Seq(Kinds) /\ got \in Seq(Seq(Words))
  /\ out \in Seq(Words) /\ pipe \in Seq(Words) /\ slice \in Seq(Words)
  /\ open \in BOOLEAN /\ faults \in Nat /\ whole \in Nat
  /\ pc \in {"base", "ext", "body", "header", "failed"}
  /\ pc = "failed" <=> err # "none"

\* The reader has as much of a blob as its place says, behind a base header that
\* passed the checks.
Assembled ==
  /\ pc = "base" => Len(slice) = 0
  /\ pc \in {"ext", "body", "header"} => Len(slice) >= 3 /\ BaseError(slice) = "none"
  /\ pc = "ext" => Len(slice) = 3 /\ Extended(slice[2])
  /\ pc = "body" => Len(slice) = ReadLen(slice)
  /\ pc = "header" => Len(slice) = ReadLen(slice) + SizeOf(slice[3])

\* io.ReadFull got all it wanted: s is the slice with that behind it.
Taken(s) ==
  /\ Wanted <= Len(pipe) /\ s \in Seq(Words) /\ Len(s) = Len(slice) + Wanted
  /\ \A j \in 1..Len(slice) : s[j] = slice[j]
  /\ \A j \in 1..Wanted : s[Len(slice) + j] = pipe[j]
  /\ pipe' \in Seq(Words) /\ Len(pipe') = Len(pipe) - Wanted
  /\ \A j \in 1..Len(pipe') : pipe'[j] = pipe[Wanted + j]
Proceeds(s) ==
  /\ pc = "base" => ReadBase(s)
  /\ pc = "ext" => BoundBody(s)
  /\ pc = "body" => pc' = "header" /\ slice' = s /\ UNCHANGED <<got, err>>
Short == ~open /\ Len(pipe) < Wanted /\ pipe' = <<>> /\ Fail("ErrTruncated")

\* A header that passed the checks has a flags word.
LEMMA PassedFlags ==
  ASSUME NEW s \in Seq(Words), Len(s) >= 3, BaseError(s) = "none"
  PROVE  Extended(s[2]) \in BOOLEAN /\ ReadLen(s) \in {3, 4} /\ SizeOf(s[3]) \in Nat
<1>1. s[2] \in Words /\ s[3] \in Words
  OBVIOUS
<1>2. Ver(s[2]) = 2
  BY DEF BaseError
<1> QED BY <1>1, <1>2, WordFacts DEF ReadLen

\* The two ways a ReadFull ends.
LEMMA ReadFullCases ==
  ASSUME Types, Assembled, ReadFull
  PROVE  /\ Wanted \in Nat /\ pc \in {"base", "ext", "body"}
         /\ UNCHANGED <<sent, out, open, faults, whole>>
         /\ Short \/ \E s : Taken(s) /\ Proceeds(s)
<1>1. pc \in {"base", "ext", "body"} /\ UNCHANGED <<sent, out, open, faults, whole>>
  BY DEF ReadFull
<1>2. pc = "body" => SizeOf(slice[3]) \in Nat
  BY PassedFlags DEF Types, Assembled
<1>3. Wanted \in Nat
  BY <1>1, <1>2 DEF Wanted, HeaderSize, ExtendedHeaderSize
<1>4. pipe \in Seq(Words) /\ slice \in Seq(Words) /\ Len(pipe) \in Nat
  BY DEF Types
<1> DEFINE W == Wanted
<1>5. CASE ~(Len(pipe) >= W)
  BY <1>3, <1>4, <1>5 DEF ReadFull, Short
<1>6. CASE Len(pipe) >= W
  <2> DEFINE head == SubSeq(pipe, 1, W)
             s == slice \o head
  <2>1. pipe' = SubSeq(pipe, W + 1, Len(pipe)) /\ Proceeds(s)
    BY <1>6, <1>1 DEF ReadFull, Proceeds
  <2> HIDE DEF W
  <2>a. W \in Nat
    BY <1>3 DEF W
  <2>2. head \in Seq(Words) /\ Len(head) = W /\ \A j \in 1..W : head[j] = pipe[j]
    BY <1>4, <1>6, <2>a
  <2>3. /\ pipe' \in Seq(Words) /\ Len(pipe') = Len(pipe) - W
        /\ \A j \in 1..Len(pipe') : pipe'[j] = pipe[W + j]
    BY <1>4, <1>6, <2>1, <2>a
  <2> HIDE DEF head
  <2>b. slice \in Seq(Words) /\ head \in Seq(Words)
    BY <1>4, <2>2
  <2>4. /\ s \in Seq(Words) /\ Len(s) = Len(slice) + Len(head)
        /\ \A j \in 1..Len(slice) : s[j] = slice[j]
        /\ \A j \in 1..Len(head) : s[Len(slice) + j] = head[j]
    BY <2>b, Joined
  <2> HIDE DEF s
  <2>5. Taken(s)
    BY <1>6, <1>4, <2>a, <2>2, <2>3, <2>4 DEF Taken, W
  <2> QED BY <1>1, <1>3, <2>1, <2>5
<1> QED BY <1>1, <1>3, <1>5, <1>6

\* The checks look at the first two words, the lengths at the second and third.
LEMMA SameBase ==
  ASSUME NEW s, NEW t, s[1] = t[1], s[2] = t[2]
  PROVE  BaseError(s) = BaseError(t) /\ ReadLen(s) = ReadLen(t)
BY DEF BaseError, ReadLen

Framing == Types /\ Assembled

\* Nothing is sent or read at first.
LEMMA InitFraming == Init => Framing
<1> SUFFICES ASSUME Init PROVE Framing
  OBVIOUS
<1>1. Types
  BY DEF Init, Types
<1>2. Assembled
  BY DEF Init, Assembled
<1> QED BY <1>1, <1>2 DEF Framing

\* A step that leaves the reader alone keeps what it has assembled.
LEMMA ReaderAlone ==
  ASSUME Framing, UNCHANGED <<pc, slice, got, err>>,
         sent' \in Seq(Kinds), out' \in Seq(Words), pipe' \in Seq(Words),
         open' \in BOOLEAN, faults' \in Nat, whole' \in Nat
  PROVE  Framing'
<1>1. Types'
  BY DEF Framing, Types
<1>2. Assembled'
  BY DEF Framing, Assembled, BaseError, Extended, ReadLen, SizeOf, GoodMagic, Ver, FlagsOK, compresses
<1> QED BY <1>1, <1>2 DEF Framing

\* The medium turns a header word into a header word.
LEMMA DamagedWords ==
  ASSUME NEW x, NEW y \in Damaged(x) PROVE y \in Words
<1>1. CASE x.w = "magic"
  <2>1. y = MagicWord(FALSE)
    BY <1>1 DEF Damaged
  <2> QED BY <2>1, WordTypes
<1>2. CASE x.w = "flags"
  <2>1. PICK v \in {1, 2}, m \in Methods, e \in BOOLEAN, r \in BOOLEAN : y = FlagsWord(v, m, e, r)
    BY <1>2 DEF Damaged, Methods
  <2> QED BY <2>1, WordTypes
<1>3. CASE x.w = "size"
  <2>1. PICK n \in 0..2 \union {SizeOver} : y = SizeWord(n)
    BY <1>3 DEF Damaged
  <2>2. n \in Nat
    BY <2>1, BoundsAssumption
  <2> QED BY <2>1, <2>2, WordTypes
<1>4. ASSUME x.w \notin {"magic", "flags", "size"} PROVE FALSE
  <2> DEFINE flags == {FlagsWord(v, m, e, r) :
                         v \in {1, 2}, m \in {"none", "zstd", "gzip", "other"},
                         e \in BOOLEAN, r \in BOOLEAN}
             sizes == {SizeWord(n) : n \in 0..2 \union {SizeOver}}
  <2>1. Damaged(x) = CASE x.w = "magic" -> {MagicWord(FALSE)} [] x.w = "flags" -> flags
                       [] x.w = "size" -> sizes [] OTHER -> {}
    BY DEF Damaged
  <2> HIDE DEF flags, sizes
  <2> QED BY <1>4, <2>1
<1> QED BY <1>1, <1>2, <1>3, <1>4

\* BoundBody leaves the reader waiting for the body, or failed.
LEMMA BoundBodyFraming ==
  ASSUME Framing, NEW s \in Seq(Words), Len(s) >= 3, BaseError(s) = "none",
         Len(s) = ReadLen(s), pc # "failed", BoundBody(s), pipe' \in Seq(Words),
         UNCHANGED <<sent, out, open, faults, whole>>
  PROVE  Framing'
<1>1. CASE MaxBodyLen >= 0 /\ SizeOf(s[3]) > MaxBodyLen
  <2>1. pc' = "failed" /\ err' = "ErrAllocTooLarge" /\ UNCHANGED <<slice, got>>
    BY <1>1 DEF BoundBody, Fail
  <2> QED BY <2>1 DEF Framing, Types, Assembled
<1>2. CASE ~(MaxBodyLen >= 0 /\ SizeOf(s[3]) > MaxBodyLen)
  <2>1. pc' = "body" /\ slice' = s /\ UNCHANGED <<got, err>>
    BY <1>2 DEF BoundBody
  <2>2. Types'
    BY <2>1 DEF Framing, Types
  <2>3. Assembled'
    BY <2>1, SameBase DEF Assembled
  <2> QED BY <2>2, <2>3 DEF Framing
<1> QED BY <1>1, <1>2

\* newReaderFrom's three reads keep what is assembled in step with the header.
LEMMA ReadFullFraming ==
  ASSUME Framing, ReadFull PROVE Framing'
<1>1. /\ Wanted \in Nat /\ pc \in {"base", "ext", "body"}
      /\ UNCHANGED <<sent, out, open, faults, whole>>
      /\ Short \/ \E s : Taken(s) /\ Proceeds(s)
  BY ReadFullCases DEF Framing
<1>2. CASE Short
  <2>1. pc' = "failed" /\ err' = "ErrTruncated" /\ UNCHANGED <<slice, got>> /\ pipe' = <<>>
    BY <1>2 DEF Short, Fail
  <2> QED BY <1>1, <2>1 DEF Framing, Types, Assembled
<1>3. ASSUME NEW s, Taken(s), Proceeds(s) PROVE Framing'
  <2>1. /\ s \in Seq(Words) /\ Len(s) = Len(slice) + Wanted /\ pipe' \in Seq(Words)
        /\ \A j \in 1..Len(slice) : s[j] = slice[j]
    BY <1>3 DEF Taken
  <2>2. CASE pc = "base"
    <3>1. Len(s) = 3 /\ ReadBase(s)
      BY <1>3, <2>1, <2>2 DEF Framing, Assembled, Wanted, HeaderSize, Proceeds
    <3>2. CASE BaseError(s) # "none"
      <4>1. pc' = "failed" /\ err' = BaseError(s) /\ UNCHANGED <<slice, got>>
        BY <3>1, <3>2 DEF ReadBase, Fail
      <4> QED BY <1>1, <2>1, <3>2, <4>1 DEF Framing, Types, Assembled
    <3>3. CASE BaseError(s) = "none" /\ Extended(s[2])
      <4>1. pc' = "ext" /\ slice' = s /\ UNCHANGED <<got, err>>
        BY <3>1, <3>3 DEF ReadBase
      <4>2. Types'
        BY <1>1, <2>1, <2>2, <4>1 DEF Framing, Types
      <4>3. Assembled'
        BY <3>1, <3>3, <4>1, SameBase DEF Assembled
      <4> QED BY <4>2, <4>3 DEF Framing
    <3>4. CASE BaseError(s) = "none" /\ ~Extended(s[2])
      <4>1. BoundBody(s) /\ Len(s) = ReadLen(s) /\ Len(s) >= 3 /\ pc # "failed"
        BY <2>2, <3>1, <3>4 DEF ReadBase, ReadLen
      <4>2. s \in Seq(Words) /\ pipe' \in Seq(Words) /\ BaseError(s) = "none"
        BY <2>1, <3>4
      <4> QED BY <1>1, <4>1, <4>2, BoundBodyFraming
    <3> QED BY <3>2, <3>3, <3>4
  <2>3. CASE pc \in {"ext", "body"}
    <3>1. /\ Len(slice) >= 3 /\ BaseError(slice) = "none" /\ slice \in Seq(Words)
      BY <2>3 DEF Framing, Types, Assembled
    <3>2. s[1] = slice[1] /\ s[2] = slice[2] /\ s[3] = slice[3]
      BY <2>1, <3>1
    <3>3. BaseError(s) = "none" /\ ReadLen(s) = ReadLen(slice) /\ Extended(s[2]) = Extended(slice[2])
      BY <3>1, <3>2, SameBase
    <3>4. CASE pc = "ext"
      <4>1. Wanted = 1 /\ Len(slice) = 3 /\ Extended(slice[2]) /\ BoundBody(s)
        BY <1>3, <3>4 DEF Framing, Assembled, Wanted, HeaderSize, ExtendedHeaderSize, Proceeds
      <4>2. Len(s) = 4 /\ ReadLen(s) = 4
        BY <2>1, <3>3, <4>1 DEF ReadLen
      <4>3. BoundBody(s) /\ Len(s) = ReadLen(s) /\ Len(s) >= 3 /\ pc # "failed"
        BY <3>4, <4>1, <4>2
      <4>4. s \in Seq(Words) /\ pipe' \in Seq(Words) /\ BaseError(s) = "none"
        BY <2>1, <3>3
      <4> QED BY <1>1, <4>3, <4>4, BoundBodyFraming
    <3>5. CASE pc = "body"
      <4>1. pc' = "header" /\ slice' = s /\ UNCHANGED <<got, err>>
        BY <1>3, <3>5 DEF Proceeds
      <4>2. Len(s) = ReadLen(s) + SizeOf(s[3])
        BY <2>1, <3>2, <3>3, <3>5 DEF Framing, Assembled, Wanted
      <4>3. SizeOf(s[3]) \in Nat /\ ReadLen(s) \in {3, 4} /\ Len(s) >= 3
        BY <2>1, <3>1, <3>2, <3>3, <4>2, PassedFlags
      <4>4. Types'
        BY <1>1, <2>1, <3>5, <4>1 DEF Framing, Types
      <4>5. Assembled'
        BY <3>3, <4>1, <4>2, <4>3, SameBase DEF Assembled
      <4> QED BY <4>4, <4>5 DEF Framing
    <3> QED BY <2>3, <3>4, <3>5
  <2> QED BY <1>1, <2>2, <2>3
<1> QED BY <1>1, <1>2, <1>3

\* Every step keeps what is assembled in step with the header, damage included.
LEMMA StepFraming == Framing /\ [Next]_vars => Framing'
<1> SUFFICES ASSUME Framing, [Next]_vars PROVE Framing'
  OBVIOUS
<1> USE DEF Framing
<1>1. ASSUME NEW k \in Kinds, MarshalToWriter(k) PROVE Framing'
  <2>1. Len(sent) + 1 \in Nat /\ sent' = Append(sent, k) /\ out' = Blob(Len(sent) + 1, k)
    BY <1>1 DEF MarshalToWriter, Types
  <2>a. Blob(Len(sent) + 1, k) \in Seq(Words)
    BY <2>1, BlobFacts, Zenon
  <2>b. Append(sent, k) \in Seq(Kinds)
    BY DEF Types
  <2>2. out' \in Seq(Words) /\ sent' \in Seq(Kinds)
    BY <2>1, <2>a, <2>b
  <2> QED BY <1>1, <2>2, ReaderAlone DEF MarshalToWriter, Types
<1>2. CASE Write
  <2>1. Head(out) \in Words /\ Tail(out) \in Seq(Words)
    BY <1>2 DEF Write, Types
  <2>2. out' \in Seq(Words) /\ pipe' \in Seq(Words) /\ whole' \in Nat
    BY <1>2, <2>1 DEF Write, Types
  <2> QED BY <1>2, <2>2, ReaderAlone DEF Write, Types
<1>3. CASE Close
  <2>1. open' \in BOOLEAN
    BY <1>3, Zenon DEF Close
  <2>a. out' \in Seq(Words)
    <3>1. out' = <<>>
      BY <1>3, Zenon DEF Close
    <3> QED BY <3>1
  <2>2. sent' \in Seq(Kinds) /\ pipe' \in Seq(Words) /\ faults' \in Nat /\ whole' \in Nat
    BY <1>3 DEF Close, Types
  <2>3. UNCHANGED <<pc, slice, got, err>>
    BY <1>3 DEF Close
  <2> QED BY <2>1, <2>a, <2>2, <2>3, ReaderAlone
<1>4. ASSUME NEW i \in DOMAIN pipe, Damage(i) PROVE Framing'
  <2>1. PICK x \in Damaged(pipe[i]) : pipe' = [pipe EXCEPT ![i] = x]
    BY <1>4 DEF Damage
  <2>2. x \in Words
    BY DamagedWords
  <2>3. pipe' \in Seq(Words)
    BY <2>1, <2>2 DEF Types
  <2> QED BY <1>4, <2>3, ReaderAlone DEF Damage, Types
<1>5. CASE ReadFull
  BY <1>5, ReadFullFraming
<1>6. CASE ParseHeader
  <2>1. pc = "header" /\ UNCHANGED <<sent, out, open, pipe, faults, whole>>
    BY <1>6 DEF ParseHeader
  <2>2. CASE ReadHeader(sent, slice) = "none"
    <3>1. got' = Append(got, BodyOf(slice)) /\ pc' = "base" /\ slice' = <<>> /\ err' = err
      BY <1>6, <2>2 DEF ParseHeader, Accept
    <3>2. BodyOf(slice) \in Seq(Words)
      <4>1. /\ slice \in Seq(Words) /\ Len(slice) >= 3 /\ BaseError(slice) = "none"
            /\ Len(slice) = ReadLen(slice) + SizeOf(slice[3])
        BY <2>1 DEF Types, Assembled
      <4>2. ReadLen(slice) \in {3, 4} /\ SizeOf(slice[3]) \in Nat
        BY <4>1, PassedFlags
      <4>3. BodyOf(slice) = SubSeq(slice, ReadLen(slice) + 1, Len(slice))
        BY DEF BodyOf, ReadLen, HeaderSize, ExtendedHeaderSize
      <4> DEFINE n == ReadLen(slice) + 1
      <4>4. n \in 1..(Len(slice) + 1) /\ Len(slice) \in Nat
        BY <4>1, <4>2
      <4> HIDE DEF n
      <4> QED BY <4>1, <4>3, <4>4 DEF n
    <3>3. Types'
      BY <2>1, <3>1, <3>2 DEF Types
    <3>4. Assembled'
      BY <3>1 DEF Assembled
    <3> QED BY <3>3, <3>4
  <2>3. CASE ReadHeader(sent, slice) # "none"
    <3>1. pc' = "failed" /\ err' = ReadHeader(sent, slice) /\ UNCHANGED <<slice, got>>
      BY <1>6, <2>3 DEF ParseHeader, Fail
    <3> QED BY <2>1, <2>3, <3>1 DEF Types, Assembled
  <2> QED BY <2>2, <2>3
<1>7. CASE UNCHANGED vars
  BY <1>7, ReaderAlone DEF vars, Types
<1> QED BY <1>1, <1>2, <1>3, <1>4, <1>5, <1>6, <1>7 DEF Next

\* For every set of kinds and any damage: the header ReadHeader parses in memory is
\* the one newReaderFrom read off the stream, with the body it announced.
THEOREM HeadersAgree == Spec => []HeaderAgreement
<1>1. Framing => HeaderAgreement
  <2> SUFFICES ASSUME Framing, pc = "header"
               PROVE  ReadHeader(sent, slice) \in {"none", "ErrCorruptCompressedBody"}
    BY DEF HeaderAgreement
  <2> DEFINE b == slice
             L == ReadLen(b)
             inf == IF Extended(b[2]) THEN SizeOf(b[4]) ELSE -1
             body == SubSeq(b, L + 1, Len(b))
  <2>1. /\ b \in Seq(Words) /\ Len(b) >= 3 /\ BaseError(b) = "none"
        /\ Len(b) = L + SizeOf(b[3])
    BY DEF Framing, Types, Assembled
  <2>2. L \in {3, 4} /\ SizeOf(b[3]) \in Nat /\ Len(b) \in Nat
    BY <2>1, PassedFlags
  <2>3. ReadHeader(sent, b) =
          IF Len(b) < L THEN "ErrTruncated"
          ELSE IF Extended(b[2]) /\ inf > InflateCap THEN "ErrCorruptCompressedBody"
          ELSE IF SizeOf(b[3]) # Len(body) THEN "ErrBodyLenMismatch"
          ELSE IF compresses(Method(b[2])) /\ ~Inflates(sent, Method(b[2]), body, inf)
               THEN "ErrCorruptCompressedBody" ELSE "none"
    BY <2>1, <2>2 DEF ReadHeader, HeaderError, HeaderSize, ExtendedHeaderSize, ReadLen
  <2> HIDE DEF L, inf
  <2>4. Len(body) = SizeOf(b[3])
    BY <2>1, <2>2
  <2> HIDE DEF body
  <2> QED BY <2>1, <2>2, <2>3, <2>4
<1> QED BY <1>1, InitFraming, StepFraming, PTL DEF Spec

\* For blobs of every kind and size: one cut short anywhere, or with something
\* behind it, is rejected by ReadHeader as such, and a whole one is taken.
THEOREM TornSlicesRejected == Spec => []TornSliceRejected
<1>1. Framing => TornSliceRejected
  BY TornRejected DEF Framing, Types
<1> QED BY <1>1, InitFraming, StepFraming, PTL DEF Spec

-----------------------------------------------------------------------------
(* An undamaged stream.  A is all that was ever marshalled, o[i] where blob *)
(* i starts in it, W how much of it was written.                            *)

Starts(o) ==
  /\ o \in [1..(Len(sent) + 1) -> Nat]
  /\ o[1] = 0 /\ \A i \in 1..Len(sent) : o[i + 1] = o[i] + Len(Blob(i, sent[i]))
  /\ \A i, j \in 1..(Len(sent) + 1) : i <= j => o[i] <= o[j]

Contents(A, o) ==
  /\ A \in Seq(Words) /\ Len(A) = o[Len(sent) + 1]
  /\ \A i \in 1..Len(sent) : \A j \in 1..Len(Blob(i, sent[i])) :
       A[o[i] + j] = Blob(i, sent[i])[j]

\* MarshalToWriter still holds what it has not written, until Close drops it; the
\* last blob alone may be in part.
Writer(A, o, W) ==
  /\ W \in 0..Len(A) /\ \A j \in 1..Len(out) : out[j] = A[W + j]
  /\ open => W + Len(out) = Len(A)
  /\ ~open => Len(out) = 0
  /\ \/ whole = Len(sent) /\ W = Len(A)
     \/ whole = Len(sent) - 1 /\ o[Len(sent)] <= W /\ W < Len(A)

\* The slice and the pipe are what lies between the end of the last body taken
\* and the last word written.
Base(o) == o[Len(got) + 1]
Reader(A, o, W) ==
  /\ Base(o) + Len(slice) + Len(pipe) = W
  /\ \A j \in 1..Len(slice) : slice[j] = A[Base(o) + j]
  /\ \A j \in 1..Len(pipe) : pipe[j] = A[Base(o) + Len(slice) + j]

Stream(A, o, W) ==
  /\ Starts(o) /\ Contents(A, o) /\ Writer(A, o, W)
  /\ pc # "failed" => Reader(A, o, W)

\* The bodies taken are the first ones sent, all of them complete.
Bodies ==
  /\ Len(got) <= whole /\ whole <= Len(sent)
  /\ \A i \in 1..Len(got) : got[i] = Payload(i, sent[i])

\* Why reading stopped.
Stopped ==
  \/ err = "none"
  \/ err = "ErrTruncated" /\ ~open /\ Len(got) = whole
  \/ /\ err = "ErrAllocTooLarge" /\ MaxBodyLen >= 0 /\ Len(got) < Len(sent)
     /\ sent[Len(got) + 1].stored > MaxBodyLen

Undamaged == Bodies /\ Stopped /\ \E A, o, W : Stream(A, o, W)
IInv == Framing /\ (faults = 0 => Undamaged)

\* Below the end of what was written there is a blob, and its words.
LEMMA InBlob ==
  ASSUME Types, NEW A, NEW o, NEW W, Starts(o), Contents(A, o), Writer(A, o, W),
         NEW g \in Nat, g <= Len(sent), o[g + 1] < W
  PROVE  /\ g < Len(sent) /\ g + 1 \in DOMAIN sent /\ sent[g + 1] \in Kinds
         /\ o[g + 2] = o[g + 1] + Len(Blob(g + 1, sent[g + 1]))
         /\ \A j \in 1..Len(Blob(g + 1, sent[g + 1])) :
              A[o[g + 1] + j] = Blob(g + 1, sent[g + 1])[j]
<1>1. sent \in Seq(Kinds) /\ Len(sent) \in Nat
  BY DEF Types
<1>2. g # Len(sent)
  BY DEF Contents, Writer
<1>3. g < Len(sent) /\ g + 1 \in 1..Len(sent) /\ (g + 1) + 1 = g + 2
  BY <1>1, <1>2
<1> QED BY <1>1, <1>3 DEF Starts, Contents

\* What a ReadFull takes is the stream's next words.
LEMMA TakenReads ==
  ASSUME Types, NEW A, NEW o, NEW W, Starts(o), Writer(A, o, W), Contents(A, o),
         Reader(A, o, W), Len(got) <= Len(sent),
         Wanted \in Nat, NEW s, Taken(s)
  PROVE  /\ Base(o) \in Nat /\ Len(s) \in Nat /\ W \in Nat
         /\ Base(o) + Len(s) + Len(pipe') = W /\ Base(o) + Len(s) <= W
         /\ \A j \in 1..Len(s) : s[j] = A[Base(o) + j]
         /\ \A j \in 1..Len(pipe') : pipe'[j] = A[Base(o) + Len(s) + j]
<1> DEFINE b == Base(o)
           n == Wanted
           l == Len(slice)
<1>1. b \in Nat /\ l \in Nat /\ Len(pipe) \in Nat /\ n \in Nat /\ W \in Nat
  <2>1. Len(got) + 1 \in 1..(Len(sent) + 1)
    BY DEF Types
  <2>2. Len(slice) \in Nat /\ Len(pipe) \in Nat /\ W \in Nat
    BY DEF Types, Writer, Contents
  <2> QED BY <2>1, <2>2 DEF Base, Starts
<1>2. /\ n <= Len(pipe) /\ s \in Seq(Words) /\ Len(s) = l + n
      /\ \A j \in 1..l : s[j] = slice[j]
      /\ \A j \in 1..n : s[l + j] = pipe[j]
      /\ Len(pipe') = Len(pipe) - n
      /\ \A j \in 1..Len(pipe') : pipe'[j] = pipe[n + j]
  BY DEF Taken
<1>3. /\ b + l + Len(pipe) = W
      /\ \A j \in 1..l : slice[j] = A[b + j]
      /\ \A j \in 1..Len(pipe) : pipe[j] = A[b + l + j]
  BY DEF Reader
<1> HIDE DEF b, n, l
<1> DEFINE ls == Len(s)
           lp == Len(pipe)
           lr == Len(pipe')
<1>a. n <= lp /\ ls = l + n /\ lr = lp - n /\ b + l + lp = W /\ lp \in Nat
  BY <1>1, <1>2, <1>3
<1> HIDE DEF ls, lp, lr
<1>4. ls \in Nat /\ b + ls + lr = W /\ b + ls <= W
  BY <1>1, <1>a
<1>5. ASSUME NEW j \in 1..Len(s) PROVE s[j] = A[b + j]
  <2>1. CASE j <= l
    BY <1>1, <1>2, <1>3, <2>1
  <2>2. CASE j > l
    <3> DEFINE i == j - l
    <3>1. i \in 1..n /\ i \in 1..Len(pipe) /\ j = l + i /\ b + j = b + l + i
      BY <1>1, <1>2, <2>2
    <3> HIDE DEF i
    <3> QED BY <1>2, <1>3, <3>1
  <2> QED BY <1>1, <2>1, <2>2
<1>6. ASSUME NEW j \in 1..Len(pipe') PROVE pipe'[j] = A[b + Len(s) + j]
  <2>0. j \in 1..lr
    BY DEF lr
  <2>1. n + j \in 1..lp /\ b + ls + j = b + l + (n + j)
    BY <1>1, <1>a, <2>0
  <2> QED BY <1>2, <1>3, <2>1 DEF ls, lp
<1> QED BY <1>1, <1>4, <1>5, <1>6 DEF b, ls, lr

\* The reader never wants more than the blob it is in has.
LEMMA WantsWithin ==
  ASSUME Types, Assembled, pc \in {"base", "ext", "body"}, NEW id \in Nat, NEW k \in Kinds,
         \A j \in 1..3 : j <= Len(slice) => slice[j] = Blob(id, k)[j]
  PROVE  Len(slice) + Wanted <= Len(Blob(id, k))
<1>1. /\ k.stored \in Nat /\ HeaderLen(k) \in {3, 4}
      /\ Len(Blob(id, k)) = HeaderLen(k) + k.stored
  BY BlobFacts, Zenon
<1> DEFINE l == Len(slice)
           m == Len(Blob(id, k))
           n == Wanted
<1>2. l \in Nat
  BY DEF Types
<1> HIDE DEF l, m, n
<1>3. CASE pc = "base"
  <2>1. l = 0 /\ n = 3
    BY <1>3 DEF Assembled, Wanted, HeaderSize, l, n
  <2> QED BY <1>1, <2>1 DEF l, m, n
<1>4. CASE pc \in {"ext", "body"}
  <2>1. l >= 3
    BY <1>4 DEF Assembled, l
  <2>2. slice[1] = Blob(id, k)[1] /\ slice[2] = Blob(id, k)[2] /\ slice[3] = Blob(id, k)[3]
    BY <1>2, <2>1 DEF l
  <2>3. /\ Extended(slice[2]) = compresses(k.method)
        /\ SizeOf(slice[3]) = k.stored /\ ReadLen(slice) = HeaderLen(k)
    BY <2>2, BaseRead, Zenon
  <2>4. CASE pc = "ext"
    <3>1. l = 3 /\ n = 1 /\ Extended(slice[2])
      BY <2>4 DEF Assembled, Wanted, HeaderSize, ExtendedHeaderSize, l, n
    <3>2. HeaderLen(k) = 4
      BY <2>3, <3>1 DEF HeaderLen
    <3> QED BY <1>1, <3>1, <3>2 DEF l, m, n
  <2>5. CASE pc = "body"
    <3>1. l = ReadLen(slice) /\ n = SizeOf(slice[3])
      BY <2>5 DEF Assembled, Wanted, l, n
    <3> QED BY <1>1, <2>3, <3>1 DEF l, m, n
  <2> QED BY <1>4, <2>4, <2>5
<1> QED BY <1>3, <1>4

\* The kind and the words of the blob the reader is in.
Current == sent[Len(got) + 1]
CurrentBlob == Blob(Len(got) + 1, Current)

\* The stream is still there for a reader that is in the middle of a blob.
LEMMA HereBlob ==
  ASSUME Types, Bodies, NEW A, NEW o, NEW W, Stream(A, o, W), NEW s, NEW n \in Nat,
         3 <= n, Base(o) + n <= W, \A j \in 1..n : s[j] = A[Base(o) + j]
  PROVE  /\ Len(got) < Len(sent) /\ Len(got) + 1 \in DOMAIN sent /\ Current \in Kinds
         /\ o[Len(got) + 2] = Base(o) + Len(CurrentBlob)
         /\ \A j \in 1..n : j <= Len(CurrentBlob) => s[j] = CurrentBlob[j]
         /\ s[1] = CurrentBlob[1] /\ s[2] = CurrentBlob[2] /\ s[3] = CurrentBlob[3]
<1> USE DEF Current, CurrentBlob
<1> DEFINE g == Len(got)
           b == Base(o)
           bl == Blob(g + 1, sent[g + 1])
<1>1. g \in Nat /\ g <= Len(sent) /\ g + 1 \in 1..(Len(sent) + 1)
  BY DEF Types, Bodies
<1>2. b \in Nat /\ W \in Nat /\ b = o[g + 1]
  <2>1. Starts(o) /\ Contents(A, o) /\ Writer(A, o, W)
    BY DEF Stream
  <2>2. b \in Nat /\ b = o[g + 1]
    BY <1>1, <2>1 DEF Starts, Base
  <2>3. W \in Nat
    BY <2>1 DEF Contents, Writer
  <2> QED BY <2>2, <2>3
<1>3. o[g + 1] < W
  BY <1>2
<1>4. /\ g < Len(sent) /\ g + 1 \in DOMAIN sent /\ sent[g + 1] \in Kinds
      /\ o[g + 2] = o[g + 1] + Len(bl)
      /\ \A j \in 1..Len(bl) : A[o[g + 1] + j] = bl[j]
  BY <1>1, <1>3, InBlob DEF Stream
<1>5. Len(bl) \in Nat /\ Len(bl) >= 3
  <2> DEFINE k == sent[g + 1]
             id == g + 1
  <2>1. k \in Kinds /\ id \in Nat
    BY <1>1, <1>4
  <2>2. bl = Blob(id, k)
    OBVIOUS
  <2> HIDE DEF k, id, bl
  <2>3. Len(bl) = HeaderLen(k) + k.stored /\ HeaderLen(k) \in {3, 4} /\ k.stored \in Nat
    BY <2>1, <2>2, BlobFacts, Zenon
  <2> QED BY <2>3
<1> HIDE DEF bl, b, g
<1>6. \A j \in 1..n : j <= Len(bl) => s[j] = bl[j]
  BY <1>2, <1>4, <1>5 DEF b
<1>7. s[1] = bl[1] /\ s[2] = bl[2] /\ s[3] = bl[3]
  BY <1>5, <1>6
<1> QED BY <1>2, <1>4, <1>6, <1>7 DEF b, g, bl

\* A step of the reader leaves the stream and the writer as they are.
LEMMA WriterAlone ==
  ASSUME UNCHANGED <<sent, out, open, whole>>, NEW A, NEW o, NEW W,
         Starts(o), Contents(A, o), Writer(A, o, W)
  PROVE  Starts(o)' /\ Contents(A, o)' /\ Writer(A, o, W)'
<1>1. Starts(o)'
  BY DEF Starts
<1>2. Contents(A, o)'
  BY DEF Contents
<1>3. Writer(A, o, W)'
  BY DEF Writer
<1> QED BY <1>1, <1>2, <1>3

\* The reader runs out of words only behind the last complete blob.
LEMMA ShortAtEnd ==
  ASSUME Framing, Bodies, NEW A, NEW o, NEW W, Stream(A, o, W),
         pc \in {"base", "ext", "body"}, Wanted \in Nat, Len(pipe) < Wanted
  PROVE  Len(got) = whole
<1>1. SUFFICES ASSUME Len(got) < whole PROVE FALSE
  BY DEF Bodies, Framing, Types
<1> DEFINE g == Len(got)
           b == Base(o)
           l == Len(slice)
           n == Len(sent)
<1>2. Types /\ Assembled /\ Starts(o) /\ Contents(A, o) /\ Writer(A, o, W) /\ Reader(A, o, W)
  BY DEF Framing, Stream
<1>3. /\ g \in Nat /\ n \in Nat /\ whole \in Nat /\ g < whole /\ whole <= n
      /\ l \in Nat /\ Len(pipe) \in Nat
  BY <1>1, <1>2 DEF Types, Bodies
<1>4. o[whole + 1] <= W /\ W \in Nat
  <2>1. W \in Nat
    BY <1>2 DEF Writer, Contents
  <2>2. CASE whole = n
    BY <1>2, <1>3, <2>1, <2>2 DEF Writer, Contents
  <2>3. CASE whole # n
    BY <1>2, <1>3, <2>1, <2>3 DEF Writer
  <2> QED BY <2>1, <2>2, <2>3
<1>5. g + 1 \in 1..n /\ (g + 1) + 1 \in 1..(n + 1) /\ whole + 1 \in 1..(n + 1) /\ (g + 1) + 1 <= whole + 1
  BY <1>3
<1> DEFINE k == sent[g + 1]
           bl == Blob(g + 1, k)
<1>6. k \in Kinds /\ g + 1 \in Nat
  BY <1>2, <1>3, <1>5 DEF Types
<1>7. Len(bl) \in Nat
  <2>1. bl \in Seq(Words)
    BY <1>6, BlobFacts
  <2> QED BY <2>1
<1>8. b \in Nat /\ b + Len(bl) <= W
  <2>1. b \in Nat /\ o[(g + 1) + 1] = b + Len(bl) /\ o[(g + 1) + 1] <= o[whole + 1] /\ o[whole + 1] \in Nat
    BY <1>2, <1>5 DEF Starts, Base
  <2> QED BY <1>4, <1>7, <2>1
<1>9. \A j \in 1..3 : j <= l => slice[j] = bl[j]
  <2>1. \A j \in 1..l : slice[j] = A[b + j]
    BY <1>2 DEF Reader
  <2>2. b + l <= W
    BY <1>2, <1>3, <1>8 DEF Reader
  <2>3. SUFFICES ASSUME NEW j \in 1..3, j <= l PROVE slice[j] = bl[j]
    OBVIOUS
  <2>4. l >= 3
    BY <1>2, <2>3 DEF Assembled
  <2>5. l \in Nat /\ 3 <= l /\ Base(o) + l <= W /\ \A i \in 1..l : slice[i] = A[Base(o) + i]
    BY <1>3, <2>1, <2>2, <2>4
  <2> HIDE DEF l, b
  <2>6. slice[1] = CurrentBlob[1] /\ slice[2] = CurrentBlob[2] /\ slice[3] = CurrentBlob[3]
    BY <1>2, <2>5, HereBlob
  <2>7. slice[1] = bl[1] /\ slice[2] = bl[2] /\ slice[3] = bl[3]
    BY <2>6 DEF CurrentBlob, Current
  <2> QED BY <2>7
<1>10. l + Wanted <= Len(bl)
  BY <1>2, <1>6, <1>9, WantsWithin
<1>11. b + l + Len(pipe) = W
  BY <1>2 DEF Reader
<1> HIDE DEF l, b, bl
<1> QED BY <1>3, <1>7, <1>8, <1>10, <1>11

\* Nothing but the caller's limit stops a reader inside a blob.
LEMMA ReadFullStream ==
  ASSUME Framing, Undamaged, ReadFull PROVE Undamaged'
<1>1. Types /\ Assembled /\ Bodies /\ Stopped
  BY DEF Framing, Undamaged
<1>2. PICK A, o, W : Stream(A, o, W)
  BY DEF Undamaged
<1>3. /\ Wanted \in Nat /\ pc \in {"base", "ext", "body"}
      /\ UNCHANGED <<sent, out, open, faults, whole>>
      /\ Short \/ \E s : Taken(s) /\ Proceeds(s)
  BY <1>1, ReadFullCases
<1>4. Starts(o) /\ Contents(A, o) /\ Writer(A, o, W) /\ Reader(A, o, W) /\ err = "none"
  BY <1>1, <1>2, <1>3 DEF Stream, Types
<1>5. Starts(o)' /\ Contents(A, o)' /\ Writer(A, o, W)'
  BY <1>3, <1>4, WriterAlone
<1>6. CASE Short
  <2>1. pc' = "failed" /\ err' = "ErrTruncated" /\ UNCHANGED <<slice, got>> /\ ~open /\ Len(pipe) < Wanted
    BY <1>6 DEF Short, Fail
  <2>2. Len(got) = whole
    BY <1>1, <1>2, <1>3, <2>1, ShortAtEnd
  <2>3. Bodies' /\ Stopped'
    BY <1>1, <1>3, <2>1, <2>2 DEF Bodies, Stopped
  <2>4. Stream(A, o, W)'
    BY <1>5, <2>1 DEF Stream
  <2> QED BY <2>3, <2>4 DEF Undamaged
<1>7. ASSUME NEW s, Taken(s), Proceeds(s) PROVE Undamaged'
  <2> DEFINE g == Len(got)
             b == Base(o)
  <2>1. Len(got) <= Len(sent)
    BY <1>1 DEF Bodies, Types
  <2>2. /\ b \in Nat /\ Len(s) \in Nat /\ W \in Nat
        /\ b + Len(s) + Len(pipe') = W /\ b + Len(s) <= W
        /\ \A j \in 1..Len(s) : s[j] = A[b + j]
        /\ \A j \in 1..Len(pipe') : pipe'[j] = A[b + Len(s) + j]
    BY <1>1, <1>3, <1>4, <1>7, <2>1, TakenReads
  <2>3. ASSUME slice' = s, UNCHANGED <<got, err>> PROVE Undamaged'
    <3>1. Base(o)' = b
      BY <2>3 DEF Base
    <3>2. Reader(A, o, W)'
      BY <2>2, <2>3, <3>1 DEF Reader
    <3>3. Bodies' /\ Stopped'
      BY <1>1, <1>3, <1>4, <2>3 DEF Bodies, Stopped
    <3>4. Stream(A, o, W)'
      BY <1>5, <3>2 DEF Stream
    <3> QED BY <3>3, <3>4 DEF Undamaged
  <2>4. Len(s) >= 3
    <3>1. Len(s) = Len(slice) + Wanted /\ Len(slice) \in Nat
      BY <1>1, <1>7 DEF Taken, Types
    <3>2. CASE pc = "base"
      <4>1. Wanted = 3
        BY <3>2 DEF Wanted, HeaderSize
      <4> QED BY <3>1, <4>1
    <3>3. CASE pc # "base"
      <4>1. Len(slice) >= 3
        BY <1>1, <1>3, <3>3 DEF Assembled
      <4> QED BY <1>3, <3>1, <4>1
    <3> QED BY <3>2, <3>3
  <2> DEFINE k == sent[g + 1]
  <2>5. /\ g < Len(sent) /\ g + 1 \in Nat /\ k \in Kinds
        /\ s[1] = Blob(g + 1, k)[1] /\ s[2] = Blob(g + 1, k)[2] /\ s[3] = Blob(g + 1, k)[3]
    <3>1. g + 1 \in Nat
      BY <1>1 DEF Types
    <3> DEFINE n == Len(s)
    <3>2. n \in Nat /\ 3 <= n /\ Base(o) + n <= W /\ \A j \in 1..n : s[j] = A[Base(o) + j]
      BY <2>2, <2>4
    <3> HIDE DEF n
    <3>3. /\ Len(got) < Len(sent) /\ Current \in Kinds
          /\ s[1] = CurrentBlob[1] /\ s[2] = CurrentBlob[2] /\ s[3] = CurrentBlob[3]
      BY <1>1, <1>2, <3>2, HereBlob
    <3> QED BY <3>1, <3>3 DEF Current, CurrentBlob
  <2>6. BaseError(s) = "none" /\ SizeOf(s[3]) = k.stored
    BY <2>5, BaseRead, Zenon
  <2>7. ASSUME BoundBody(s) PROVE Undamaged'
    <3>1. CASE MaxBodyLen >= 0 /\ SizeOf(s[3]) > MaxBodyLen
      <4>1. pc' = "failed" /\ err' = "ErrAllocTooLarge" /\ UNCHANGED <<slice, got>>
        BY <2>7, <3>1 DEF BoundBody, Fail
      <4>2. Bodies' /\ Stopped'
        BY <1>1, <1>3, <2>5, <2>6, <3>1, <4>1 DEF Bodies, Stopped
      <4>3. Stream(A, o, W)'
        BY <1>5, <4>1 DEF Stream
      <4> QED BY <4>2, <4>3 DEF Undamaged
    <3>2. CASE ~(MaxBodyLen >= 0 /\ SizeOf(s[3]) > MaxBodyLen)
      BY <2>3, <2>7, <3>2 DEF BoundBody
    <3> QED BY <3>1, <3>2
  <2>8. CASE pc = "base"
    BY <1>7, <2>3, <2>6, <2>7, <2>8 DEF Proceeds, ReadBase
  <2>9. CASE pc = "ext"
    BY <1>7, <2>7, <2>9 DEF Proceeds
  <2>10. CASE pc = "body"
    BY <1>7, <2>3, <2>10 DEF Proceeds
  <2> QED BY <1>3, <2>8, <2>9, <2>10
<1> QED BY <1>3, <1>6, <1>7

\* ReadHeader takes the blob newReaderFrom assembled, as the next one sent.
LEMMA ParseTakes ==
  ASSUME Framing, Undamaged, ParseHeader
  PROVE  /\ Undamaged' /\ UNCHANGED <<sent, open, whole, err>> /\ Len(got) < whole
         /\ got' = Append(got, Payload(Len(got) + 1, sent[Len(got) + 1]))
<1> DEFINE g == Len(got)
           k == sent[g + 1]
           bl == Blob(g + 1, k)
<1>1. Types /\ Assembled /\ Bodies /\ Stopped
  BY DEF Framing, Undamaged
<1>2. PICK A, o, W : Stream(A, o, W)
  BY DEF Undamaged
<1>3. pc = "header" /\ UNCHANGED <<sent, out, open, pipe, faults, whole>>
  BY DEF ParseHeader
<1>4. Starts(o) /\ Contents(A, o) /\ Writer(A, o, W) /\ Reader(A, o, W) /\ err = "none"
  BY <1>1, <1>2, <1>3 DEF Stream, Types
<1>5. Starts(o)' /\ Contents(A, o)' /\ Writer(A, o, W)'
  BY <1>3, <1>4, WriterAlone
<1> DEFINE b == Base(o)
           l == Len(slice)
<1>6. /\ slice \in Seq(Words) /\ l \in Nat /\ 3 <= l /\ g \in Nat /\ Len(pipe) \in Nat
      /\ Len(slice) = ReadLen(slice) + SizeOf(slice[3]) /\ Len(sent) \in Nat
  BY <1>1, <1>3 DEF Types, Assembled
<1>7. /\ b \in Nat /\ W \in Nat /\ b + l + Len(pipe) = W /\ b + l <= W
      /\ \A j \in 1..l : slice[j] = A[b + j]
  <2>1. g + 1 \in 1..(Len(sent) + 1)
    BY <1>1, <1>6 DEF Bodies, Types
  <2>2. b \in Nat
    BY <1>4, <2>1 DEF Starts, Base
  <2>3. b + l + Len(pipe) = W /\ \A j \in 1..l : slice[j] = A[b + j]
    BY <1>4 DEF Reader
  <2> HIDE DEF b, l
  <2> QED BY <1>6, <2>2, <2>3
<1>8. /\ g < Len(sent) /\ g + 1 \in DOMAIN sent /\ k \in Kinds
      /\ o[g + 2] = b + Len(bl)
      /\ \A j \in 1..l : j <= Len(bl) => slice[j] = bl[j]
      /\ slice[1] = bl[1] /\ slice[2] = bl[2] /\ slice[3] = bl[3]
  <2>1. l \in Nat /\ 3 <= l /\ Base(o) + l <= W /\ \A j \in 1..l : slice[j] = A[Base(o) + j]
    BY <1>6, <1>7
  <2> HIDE DEF l
  <2>2. /\ Len(got) < Len(sent) /\ Len(got) + 1 \in DOMAIN sent /\ Current \in Kinds
        /\ o[Len(got) + 2] = Base(o) + Len(CurrentBlob)
        /\ \A j \in 1..l : j <= Len(CurrentBlob) => slice[j] = CurrentBlob[j]
        /\ slice[1] = CurrentBlob[1] /\ slice[2] = CurrentBlob[2] /\ slice[3] = CurrentBlob[3]
    BY <1>1, <1>2, <2>1, HereBlob
  <2> QED BY <2>2 DEF Current, CurrentBlob
<1>9. Len(bl) = l
  <2>1. g + 1 \in Nat
    BY <1>6
  <2>2. SizeOf(slice[3]) = k.stored /\ ReadLen(slice) = HeaderLen(k)
    BY <1>8, <2>1, BaseRead, Zenon
  <2>3. Len(bl) = HeaderLen(k) + k.stored
    BY <1>8, <2>1, BlobFacts, Zenon
  <2> QED BY <1>6, <2>2, <2>3
<1>10. slice = bl
  <2>0. g + 1 \in Nat
    BY <1>6
  <2>1. bl \in Seq(Words)
    BY <1>8, <2>0, BlobSeq, Zenon
  <2>2. \A j \in 1..l : slice[j] = bl[j]
    BY <1>6, <1>8, <1>9
  <2> QED BY <1>6, <1>9, <2>1, <2>2, SameSeq
<1>11. ReadHeader(sent, slice) = "none" /\ BodyOf(slice) = Payload(g + 1, k)
  BY <1>1, <1>8, <1>10, WholeRead DEF Types
<1>12. got' = Append(got, Payload(g + 1, k)) /\ pc' = "base" /\ slice' = <<>> /\ err' = err
  BY <1>11 DEF ParseHeader, Accept
<1>13. g + 1 <= whole /\ whole \in Nat
  <2>0. whole \in Nat
    BY <1>1 DEF Types
  <2>1. o[g + 2] <= W
    BY <1>7, <1>8, <1>9
  <2>2. CASE whole = Len(sent)
    BY <1>6, <1>8, <2>2
  <2>3. CASE whole # Len(sent)
    <3>1. whole = Len(sent) - 1 /\ W < Len(A) /\ Len(A) = o[Len(sent) + 1] /\ Len(A) \in Nat
      BY <1>4, <2>3 DEF Writer, Contents
    <3>2. g # Len(sent) - 1
      <4>1. SUFFICES ASSUME g = Len(sent) - 1 PROVE FALSE
        OBVIOUS
      <4>2. g + 2 = Len(sent) + 1
        BY <1>6, <4>1
      <4>3. o[g + 2] = Len(A)
        BY <3>1, <4>2
      <4> QED BY <1>7, <2>1, <3>1, <4>3
    <3> QED BY <1>6, <1>8, <2>0, <3>1, <3>2
  <2> QED BY <2>0, <2>2, <2>3
<1>14. /\ Len(got') = g + 1 /\ got'[g + 1] = Payload(g + 1, k)
       /\ \A i \in 1..g : got'[i] = got[i]
  <2>0. g + 1 \in Nat /\ got \in Seq(Seq(Words))
    BY <1>1, <1>6 DEF Types
  <2>1. got \in Seq(Seq(Words)) /\ Payload(g + 1, k) \in Seq(Words)
    BY <1>8, <2>0, BlobSeq, Zenon
  <2> HIDE DEF k
  <2> QED BY <1>12, <2>1, Appended
<1>15. Bodies' /\ Stopped'
  <2>1. /\ Len(got') <= whole' /\ whole' <= Len(sent') /\ err' = "none"
    BY <1>1, <1>3, <1>4, <1>12, <1>13, <1>14 DEF Bodies
  <2>2. ASSUME NEW i \in 1..Len(got') PROVE got'[i] = Payload(i, sent'[i])
    <3>1. i \in 1..g \/ i = g + 1
      BY <1>6, <1>14
    <3> QED BY <1>1, <1>3, <1>14, <3>1 DEF Bodies
  <2> QED BY <2>1, <2>2 DEF Bodies, Stopped
<1>16. Reader(A, o, W)'
  <2>1. Base(o)' = b + l
    <3>1. Base(o)' = o[(g + 1) + 1] /\ (g + 1) + 1 = g + 2
      BY <1>6, <1>14 DEF Base
    <3> QED BY <1>8, <1>9, <3>1
  <2>2. \A j \in 1..Len(pipe) : pipe[j] = A[b + l + j]
    BY <1>4 DEF Reader
  <2>3. Len(slice') = 0 /\ pipe' = pipe
    BY <1>3, <1>12
  <2> HIDE DEF b, l
  <2> QED BY <1>6, <1>7, <2>1, <2>2, <2>3 DEF Reader
<1>17. Undamaged'
  BY <1>5, <1>15, <1>16 DEF Undamaged, Stream
<1> QED BY <1>3, <1>6, <1>12, <1>13, <1>17

\* A word written is the stream's next one; the last of a blob makes it whole.
LEMMA WriteStream ==
  ASSUME Framing, Undamaged, Write
  PROVE  /\ Undamaged' /\ UNCHANGED <<sent, open, got, err>> /\ open
         /\ whole' = whole \/ (whole' = whole + 1 /\ whole < Len(sent))
<1>1. Types /\ Bodies /\ Stopped
  BY DEF Framing, Undamaged
<1>2. PICK A, o, W : Stream(A, o, W)
  BY DEF Undamaged
<1>3. Starts(o) /\ Contents(A, o) /\ Writer(A, o, W) /\ (pc # "failed" => Reader(A, o, W))
  BY <1>2 DEF Stream
<1>4. /\ out # <<>> /\ pipe' = Append(pipe, Head(out)) /\ out' = Tail(out)
      /\ whole' = IF Len(out) = 1 THEN whole + 1 ELSE whole
      /\ UNCHANGED <<sent, open, pc, slice, got, err, faults>>
  BY DEF Write
<1> DEFINE lo == Len(out)
           n == Len(sent)
           la == Len(A)
<1>5. /\ lo \in Nat /\ lo >= 1 /\ Head(out) = out[1] /\ Head(out) \in Words /\ Len(out') = lo - 1
      /\ \A j \in 1..(lo - 1) : out'[j] = out[j + 1]
  BY <1>1, <1>4 DEF Types
<1>6. n \in Nat /\ la \in Nat /\ W \in Nat /\ whole \in Nat
  BY <1>1, <1>3 DEF Types, Contents, Writer
<1>7. /\ open /\ W + lo = la /\ W <= la /\ \A j \in 1..lo : out[j] = A[W + j]
      /\ (whole = n /\ W = la) \/ (whole = n - 1 /\ o[n] <= W /\ W < la)
  <2>1. (open => W + lo = la) /\ (~open => lo = 0) /\ W \in 0..la /\ \A j \in 1..lo : out[j] = A[W + j]
    BY <1>3 DEF Writer
  <2>2. (whole = n /\ W = la) \/ (whole = n - 1 /\ o[n] <= W /\ W < la)
    BY <1>3 DEF Writer
  <2>3. lo # 0
    BY <1>5
  <2>4. open /\ W + lo = la /\ W <= la
    BY <1>6, <2>1, <2>3
  <2> QED BY <2>1, <2>2, <2>4
<1> HIDE DEF lo, n, la
<1>8. whole = n - 1 /\ o[n] <= W /\ W < la /\ W + 1 <= la
  BY <1>5, <1>6, <1>7
<1>a. n \in 1..(n + 1)
  BY <1>1, <1>6, <1>8 DEF Bodies
<1>b. o[n] \in Nat
  BY <1>3, <1>a DEF Starts, n
<1>9. Starts(o)' /\ Contents(A, o)'
  BY <1>3, <1>4 DEF Starts, Contents
<1>10. Writer(A, o, W + 1)'
  <2>1. W + 1 \in 0..la
    BY <1>6, <1>8
  <2>2. ASSUME NEW j \in 1..(lo - 1) PROVE out'[j] = A[(W + 1) + j]
    <3>1. j + 1 \in 1..lo /\ (W + 1) + j = W + (j + 1)
      BY <1>5, <1>6
    <3> QED BY <1>5, <1>7, <3>1
  <2>3. (W + 1) + (lo - 1) = la
    BY <1>5, <1>6, <1>7
  <2>4. CASE lo = 1
    <3>1. whole' = n /\ W + 1 = la
      BY <1>4, <1>6, <1>7, <1>8, <2>4 DEF lo
    <3> QED BY <1>4, <1>5, <1>7, <2>1, <2>2, <2>3, <3>1 DEF Writer, lo, la, n
  <2>5. CASE lo # 1
    <3>1. whole' = n - 1 /\ o[n] <= W + 1 /\ W + 1 < la
      <4>1. whole' = whole
        BY <1>4, <2>5 DEF lo
      <4> QED BY <1>5, <1>6, <1>7, <1>8, <1>b, <2>5, <4>1
    <3> QED BY <1>4, <1>5, <1>7, <2>1, <2>2, <2>3, <3>1 DEF Writer, lo, la, n
  <2> QED BY <2>4, <2>5
<1>11. pc # "failed" => Reader(A, o, W + 1)'
  <2> SUFFICES ASSUME pc # "failed" PROVE Reader(A, o, W + 1)'
    OBVIOUS
  <2> DEFINE b == Base(o)
             l == Len(slice)
             lp == Len(pipe)
  <2>1. /\ b + l + lp = W /\ \A j \in 1..l : slice[j] = A[b + j]
        /\ \A j \in 1..lp : pipe[j] = A[b + l + j]
    BY <1>3 DEF Reader
  <2>2. l \in Nat /\ lp \in Nat /\ pipe \in Seq(Words)
    BY <1>1 DEF Types
  <2>3. /\ Len(pipe') = lp + 1 /\ pipe'[lp + 1] = Head(out)
        /\ \A j \in 1..lp : pipe'[j] = pipe[j]
    BY <1>4, <1>5, <2>2, Appended
  <2>4. b \in Nat
    <3>1. Len(got) + 1 \in 1..(Len(sent) + 1)
      BY <1>1 DEF Types, Bodies
    <3> QED BY <1>3, <3>1 DEF Starts, Base
  <2>5. Base(o)' = b /\ Len(slice') = l /\ slice' = slice
    BY <1>4 DEF Base
  <2>6. Head(out) = A[W + 1]
    BY <1>5, <1>7
  <2> HIDE DEF b, l, lp
  <2>7. ASSUME NEW j \in 1..(lp + 1) PROVE pipe'[j] = A[b + l + j]
    <3>1. CASE j \in 1..lp
      BY <2>1, <2>3, <3>1
    <3>2. CASE j = lp + 1
      <4>1. b + l + j = W + 1
        BY <2>1, <2>2, <2>4, <3>2
      <4> QED BY <2>3, <2>6, <3>2, <4>1
    <3> QED BY <2>2, <3>1, <3>2
  <2>8. b + l + (lp + 1) = W + 1
    BY <2>1, <2>2, <2>4
  <2> QED BY <2>1, <2>3, <2>5, <2>7, <2>8 DEF Reader
<1>12. Bodies' /\ Stopped'
  <2>1. whole' \in Nat /\ whole <= whole' /\ whole' <= n /\ Len(got) \in Nat
    BY <1>1, <1>4, <1>6, <1>8 DEF Types
  <2>2. Bodies'
    BY <1>1, <1>4, <1>6, <2>1 DEF Bodies, n
  <2>3. Stopped'
    BY <1>1, <1>4, <1>7 DEF Stopped
  <2> QED BY <2>2, <2>3
<1>13. Stream(A, o, W + 1)'
  BY <1>4, <1>9, <1>10, <1>11 DEF Stream
<1>14. Undamaged'
  BY <1>12, <1>13 DEF Undamaged
<1>15. whole' = whole \/ (whole' = whole + 1 /\ whole < n)
  BY <1>4, <1>6, <1>8
<1> QED BY <1>4, <1>7, <1>14, <1>15 DEF n

\* A writer that dies drops what it had not written.
LEMMA CloseStream ==
  ASSUME Framing, Undamaged, Close PROVE Undamaged'
<1>1. Types /\ Bodies /\ Stopped
  BY DEF Framing, Undamaged
<1>2. PICK A, o, W : Stream(A, o, W)
  BY DEF Undamaged
<1>3. Starts(o) /\ Contents(A, o) /\ Writer(A, o, W) /\ (pc # "failed" => Reader(A, o, W))
  BY <1>2 DEF Stream
<1>4. open /\ ~open' /\ Len(out') = 0 /\ UNCHANGED <<sent, pipe, pc, slice, got, err, faults, whole>>
  BY DEF Close
<1>5. Starts(o)' /\ Contents(A, o)'
  BY <1>3, <1>4 DEF Starts, Contents
<1>6. Writer(A, o, W)'
  BY <1>3, <1>4 DEF Writer
<1>7. pc' # "failed" => Reader(A, o, W)'
  BY <1>3, <1>4 DEF Reader, Base
<1>8. Bodies' /\ Stopped'
  BY <1>1, <1>4 DEF Bodies, Stopped
<1> QED BY <1>5, <1>6, <1>7, <1>8 DEF Undamaged, Stream

\* A blob is marshalled behind the ones before it, all of them written.
LEMMA MarshalStream ==
  ASSUME Framing, Undamaged, NEW k \in Kinds, MarshalToWriter(k)
  PROVE  Undamaged' /\ whole = Len(sent)
<1> DEFINE n == Len(sent)
           bl == Blob(n + 1, k)
<1>1. Types /\ Bodies /\ Stopped
  BY DEF Framing, Undamaged
<1>2. PICK A, o, W : Stream(A, o, W)
  BY DEF Undamaged
<1>3. Starts(o) /\ Contents(A, o) /\ Writer(A, o, W) /\ (pc # "failed" => Reader(A, o, W))
  BY <1>2 DEF Stream
<1>4. /\ open /\ Len(out) = 0 /\ sent' = Append(sent, k) /\ out' = bl
      /\ UNCHANGED <<open, pipe, pc, slice, got, err, faults, whole>>
  BY DEF MarshalToWriter
<1>5. n \in Nat /\ n + 1 \in Nat /\ whole \in Nat /\ sent \in Seq(Kinds) /\ Len(got) \in Nat
  BY <1>1 DEF Types
<1>6. bl \in Seq(Words) /\ Len(bl) \in Nat /\ Len(bl) >= 3
  BY <1>5, BlobSeq, Zenon
<1>7. /\ Len(sent') = n + 1 /\ sent'[n + 1] = k /\ \A i \in 1..n : sent'[i] = sent[i]
  BY <1>4, <1>5, Appended
<1> HIDE DEF n, bl
<1> DEFINE la == Len(A)
           lb == Len(bl)
<1>8. A \in Seq(Words) /\ la \in Nat /\ W \in Nat /\ la = o[n + 1]
  BY <1>3 DEF Contents, Writer, n
<1>9. W = la /\ whole = n
  <2>1. W + 0 = la
    BY <1>3, <1>4 DEF Writer
  <2>2. W = la
    BY <1>8, <2>1
  <2>3. whole = n \/ W < la
    BY <1>3 DEF Writer, n
  <2> QED BY <1>8, <2>2, <2>3
\* The longer stream and its starts, of this state also when they are used in the next.
<1>q. PICK B : B = A \o bl
  OBVIOUS
<1>r. PICK p : p = [i \in 1..((n + 1) + 1) |-> IF i <= n + 1 THEN o[i] ELSE la + lb]
  OBVIOUS
<1>10. /\ B \in Seq(Words) /\ Len(B) = la + lb
       /\ \A i \in 1..la : B[i] = A[i]
       /\ \A j \in 1..lb : B[la + j] = bl[j]
  <2>1. A \in Seq(Words) /\ bl \in Seq(Words)
    BY <1>6, <1>8
  <2>2. /\ A \o bl \in Seq(Words) /\ Len(A \o bl) = Len(A) + Len(bl)
        /\ \A i \in 1..Len(A) : (A \o bl)[i] = A[i]
        /\ \A j \in 1..Len(bl) : (A \o bl)[Len(A) + j] = bl[j]
    BY <2>1
  <2> QED BY <1>q, <2>2, Zenon DEF la, lb
<1>11. /\ \A i \in 1..(n + 1) : p[i] = o[i]
       /\ p[(n + 1) + 1] = la + lb
  <2> HIDE DEF la, lb
  <2> QED BY <1>5, <1>r
<1>12. /\ o \in [1..(n + 1) -> Nat] /\ o[1] = 0
       /\ \A i \in 1..n : o[i + 1] = o[i] + Len(Blob(i, sent[i]))
       /\ \A i, j \in 1..(n + 1) : i <= j => o[i] <= o[j]
  BY <1>3 DEF Starts, n
<1>p. p \in [1..((n + 1) + 1) -> Nat]
  <2>1. la + lb \in Nat
    BY <1>6, <1>8
  <2>2. ASSUME NEW i \in 1..((n + 1) + 1), i <= n + 1 PROVE o[i] \in Nat
    <3>1. i \in 1..(n + 1)
      BY <1>5, <2>2
    <3> QED BY <1>12, <3>1
  <2> HIDE DEF la, lb
  <2> QED BY <1>r, <2>1, <2>2
<1>a. bl = Blob(n + 1, sent'[n + 1])
  BY <1>7 DEF bl
<1> HIDE DEF la, lb
<1>13. Starts(p)'
  <2>1. p[1] = 0
    BY <1>5, <1>11, <1>12
  <2>2. ASSUME NEW i \in 1..(n + 1) PROVE p[i + 1] = p[i] + Len(Blob(i, sent'[i]))
    <3>1. CASE i \in 1..n
      <4>1. i \in 1..(n + 1) /\ i + 1 \in 1..(n + 1)
        BY <1>5, <3>1
      <4> QED BY <1>7, <1>11, <1>12, <3>1, <4>1
    <3>2. CASE i = n + 1
      <4>1. n + 1 \in 1..(n + 1)
        BY <1>5
      <4>2. p[i] = la /\ p[i + 1] = la + lb
        BY <1>8, <1>11, <3>2, <4>1
      <4> QED BY <1>a, <3>2, <4>2 DEF lb
    <3> QED BY <1>5, <3>1, <3>2
  <2>3. ASSUME NEW i \in 1..((n + 1) + 1), NEW j \in 1..((n + 1) + 1), i <= j PROVE p[i] <= p[j]
    <3>1. CASE j \in 1..(n + 1)
      <4>1. i \in 1..(n + 1)
        BY <1>5, <2>3, <3>1
      <4> QED BY <1>11, <1>12, <2>3, <3>1, <4>1
    <3>2. CASE j = (n + 1) + 1
      <4>1. CASE i \in 1..(n + 1)
        <5>1. n + 1 \in 1..(n + 1) /\ i <= n + 1
          BY <1>5, <4>1
        <5>2. o[i] <= la /\ o[i] \in Nat
          BY <1>8, <1>12, <4>1, <5>1
        <5>3. la <= la + lb
          BY <1>6, <1>8 DEF lb
        <5>4. o[i] <= la + lb
          BY <1>6, <1>8, <5>2, <5>3 DEF lb
        <5> QED BY <1>11, <3>2, <4>1, <5>4
      <4>2. CASE i = (n + 1) + 1
        BY <1>p, <3>2, <4>2
      <4> QED BY <1>5, <4>1, <4>2
    <3> QED BY <1>5, <3>1, <3>2
  <2> QED BY <1>7, <1>p, <2>1, <2>2, <2>3 DEF Starts
<1>14. Contents(B, p)'
  <2>1. Len(B) = p[(n + 1) + 1]
    BY <1>10, <1>11
  <2>2. ASSUME NEW i \in 1..(n + 1), NEW j \in 1..Len(Blob(i, sent'[i]))
        PROVE  B[p[i] + j] = Blob(i, sent'[i])[j]
    <3>1. CASE i \in 1..n
      <4> DEFINE c == Blob(i, sent[i])
      <4>1. i \in 1..(n + 1) /\ i + 1 \in 1..(n + 1) /\ n + 1 \in 1..(n + 1) /\ i + 1 <= n + 1
        BY <1>5, <3>1
      <4>2. sent'[i] = sent[i] /\ p[i] = o[i]
        BY <1>7, <1>11, <3>1, <4>1
      <4>3. o[i] + Len(c) <= la /\ o[i] \in Nat
        BY <1>8, <1>12, <3>1, <4>1
      <4>4. j \in 1..Len(c)
        BY <2>2, <4>2
      <4>5. Len(c) \in Nat
        <5>1. sent[i] \in Kinds /\ i \in Nat
          BY <1>5, <3>1 DEF n
        <5> QED BY <5>1, BlobSeq, Zenon
      <4>6. A[o[i] + j] = c[j]
        BY <1>3, <3>1, <4>4 DEF Contents, n
      <4> HIDE DEF c
      <4>7. o[i] + j \in 1..la
        BY <1>8, <4>3, <4>4, <4>5
      <4>8. B[o[i] + j] = c[j]
        BY <1>10, <4>6, <4>7
      <4> QED BY <4>2, <4>8 DEF c
    <3>2. CASE i = n + 1
      <4>1. n + 1 \in 1..(n + 1)
        BY <1>5
      <4>2. p[i] = la /\ Blob(i, sent'[i]) = bl
        BY <1>8, <1>11, <1>a, <3>2, <4>1
      <4>3. j \in 1..lb
        BY <2>2, <4>2 DEF lb
      <4> QED BY <1>10, <4>2, <4>3
    <3> QED BY <1>5, <3>1, <3>2
  <2> QED BY <1>7, <1>10, <2>1, <2>2 DEF Contents
<1>15. Writer(B, p, W)'
  <2>1. W \in 0..Len(B) /\ W + lb = Len(B) /\ W < Len(B)
    BY <1>6, <1>8, <1>9, <1>10 DEF lb
  <2>2. whole' = (n + 1) - 1 /\ p[n + 1] <= W
    <3>1. n + 1 \in 1..(n + 1)
      BY <1>5
    <3>2. p[n + 1] = W
      BY <1>8, <1>9, <1>11, <3>1
    <3>3. whole' = (n + 1) - 1
      BY <1>4, <1>5, <1>9
    <3> QED BY <1>8, <3>2, <3>3
  <2>3. \A j \in 1..Len(out') : out'[j] = B[W + j]
    BY <1>4, <1>9, <1>10 DEF lb
  <2> QED BY <1>4, <1>7, <2>1, <2>2, <2>3 DEF Writer, lb
<1>16. pc' # "failed" => Reader(B, p, W)'
  <2> SUFFICES ASSUME pc # "failed" PROVE Reader(B, p, W)'
    BY <1>4
  <2> DEFINE b == Base(o)
             l == Len(slice)
             lp == Len(pipe)
  <2>1. /\ b + l + lp = W /\ \A j \in 1..l : slice[j] = A[b + j]
        /\ \A j \in 1..lp : pipe[j] = A[b + l + j]
    BY <1>3 DEF Reader
  <2>2. l \in Nat /\ lp \in Nat
    BY <1>1 DEF Types
  <2>3. b \in Nat /\ Base(p)' = b
    <3>1. Len(got) + 1 \in 1..(n + 1)
      BY <1>1, <1>5 DEF Bodies, n
    <3>2. p[Len(got) + 1] = o[Len(got) + 1] /\ o[Len(got) + 1] \in Nat
      BY <1>11, <1>12, <3>1
    <3> QED BY <1>4, <3>2 DEF Base
  <2>4. slice' = slice /\ pipe' = pipe
    BY <1>4
  <2> HIDE DEF b, l, lp
  <2>5. ASSUME NEW j \in 1..l PROVE slice[j] = B[b + j]
    <3>1. b + j \in 1..la
      BY <1>9, <2>1, <2>2, <2>3
    <3> QED BY <1>10, <2>1, <3>1
  <2>6. ASSUME NEW j \in 1..lp PROVE pipe[j] = B[b + l + j]
    <3>1. b + l + j \in 1..la
      BY <1>9, <2>1, <2>2, <2>3
    <3> QED BY <1>10, <2>1, <3>1
  <2> QED BY <2>1, <2>3, <2>4, <2>5, <2>6 DEF Reader, l, lp
<1>17. Bodies' /\ Stopped'
  <2>1. Bodies'
    <3>1. Len(got') <= whole' /\ whole' <= Len(sent')
      BY <1>1, <1>4, <1>5, <1>7, <1>9 DEF Bodies
    <3>2. ASSUME NEW i \in 1..Len(got') PROVE got'[i] = Payload(i, sent'[i])
      <4>1. i \in 1..Len(got) /\ i \in 1..n
        BY <1>1, <1>4, <1>5, <1>9 DEF Bodies
      <4> QED BY <1>1, <1>4, <1>7, <4>1 DEF Bodies
    <3> QED BY <3>1, <3>2 DEF Bodies
  <2>2. CASE err = "none"
    BY <1>4, <2>1, <2>2 DEF Stopped
  <2>3. CASE err # "none"
    <3>1. /\ err = "ErrAllocTooLarge" /\ MaxBodyLen >= 0 /\ Len(got) < n
          /\ sent[Len(got) + 1].stored > MaxBodyLen
      BY <1>1, <1>4, <2>3 DEF Stopped, n
    <3>2. Len(got) + 1 \in 1..n /\ Len(got) < n + 1
      BY <1>5, <3>1
    <3>3. sent'[Len(got) + 1] = sent[Len(got) + 1]
      BY <1>7, <3>2
    <3> QED BY <1>4, <1>7, <2>1, <3>1, <3>2, <3>3 DEF Stopped
  <2> QED BY <2>2, <2>3
<1>18. Undamaged'
  BY <1>13, <1>14, <1>15, <1>16, <1>17 DEF Undamaged, Stream
<1> QED BY <1>9, <1>18 DEF n

-----------------------------------------------------------------------------
(* The inductive invariant, and what follows from it.                       *)

\* Nothing is sent and nothing read at first.
LEMMA InitInv == Init => IInv
<1> SUFFICES ASSUME Init PROVE IInv
  OBVIOUS
<1>1. Framing
  BY InitFraming
<1>2. /\ Len(sent) = 0 /\ Len(out) = 0 /\ Len(pipe) = 0 /\ Len(slice) = 0 /\ Len(got) = 0
      /\ whole = 0 /\ err = "none" /\ sent = <<>>
  BY DEF Init
<1>3. open
  BY DEF Init
<1> DEFINE A == <<>>
           o == [i \in 1..1 |-> 0]
<1>4. A \in Seq(Words) /\ Len(A) = 0 /\ o[1] = 0 /\ o \in [1..1 -> Nat]
  BY DEF A, o
<1> HIDE DEF A, o
<1>5. Starts(o)
  BY <1>2, <1>4 DEF Starts
<1>6. Contents(A, o)
  BY <1>2, <1>4 DEF Contents
<1>7. Writer(A, o, 0)
  BY <1>2, <1>3, <1>4 DEF Writer
<1>8. Reader(A, o, 0)
  BY <1>2, <1>4 DEF Reader, Base
<1>9. Bodies /\ Stopped
  BY <1>2 DEF Bodies, Stopped
<1> QED BY <1>1, <1>5, <1>6, <1>7, <1>8, <1>9 DEF IInv, Undamaged, Stream

\* Every step keeps an undamaged stream what it is.
LEMMA StepInv == IInv /\ [Next]_vars => IInv'
<1> SUFFICES ASSUME IInv, [Next]_vars PROVE IInv'
  OBVIOUS
<1>1. Framing /\ Framing' /\ faults \in Nat
  BY StepFraming DEF IInv, Framing, Types
<1>2. SUFFICES ASSUME faults' = 0 PROVE Undamaged'
  BY <1>1 DEF IInv
<1>3. ASSUME faults' = faults PROVE Undamaged
  BY <1>2, <1>3 DEF IInv
<1>4. ASSUME NEW k \in Kinds, MarshalToWriter(k) PROVE Undamaged'
  <2>1. faults' = faults
    BY <1>4 DEF MarshalToWriter
  <2> QED BY <1>1, <1>3, <1>4, <2>1, MarshalStream
<1>5. CASE Write
  <2>1. faults' = faults
    BY <1>5 DEF Write
  <2> QED BY <1>1, <1>3, <1>5, <2>1, WriteStream
<1>6. CASE Close
  <2>1. faults' = faults
    BY <1>6 DEF Close
  <2> QED BY <1>1, <1>3, <1>6, <2>1, CloseStream
<1>7. ASSUME NEW i \in DOMAIN pipe, Damage(i) PROVE FALSE
  <2>1. faults' = faults + 1
    BY <1>7 DEF Damage
  <2> QED BY <1>1, <1>2, <2>1
<1>8. CASE ReadFull
  <2>1. faults' = faults
    BY <1>8 DEF ReadFull
  <2> QED BY <1>1, <1>3, <1>8, <2>1, ReadFullStream
<1>9. CASE ParseHeader
  <2>1. faults' = faults
    BY <1>9 DEF ParseHeader
  <2> QED BY <1>1, <1>3, <1>9, <2>1, ParseTakes
<1>10. CASE UNCHANGED vars
  <2>1. UNCHANGED <<sent, out, open, pipe, pc, slice, got, err, faults, whole>>
    BY <1>10 DEF vars
  <2>2. Undamaged
    BY <1>3, <2>1
  <2>3. PICK A, o, W : Stream(A, o, W)
    BY <2>2 DEF Undamaged
  <2>4. Starts(o)' /\ Contents(A, o)' /\ Writer(A, o, W)'
    BY <2>1, <2>3, WriterAlone DEF Stream
  <2>5. pc' # "failed" => Reader(A, o, W)'
    BY <2>1, <2>3 DEF Stream, Reader, Base
  <2>6. Bodies' /\ Stopped'
    BY <2>1, <2>2 DEF Undamaged, Bodies, Stopped
  <2> QED BY <2>4, <2>5, <2>6 DEF Undamaged, Stream
<1> QED BY <1>4, <1>5, <1>6, <1>7, <1>8, <1>9, <1>10 DEF Next

\* For every number of blobs, every kind and size, however far the writer is ahead:
\* on an undamaged stream the bodies newReaderFrom and ReadHeader hand out are the
\* ones MarshalToWriter was given, in order.
THEOREM PrefixIsExact == Spec => []ReadsExactPrefix
<1>1. IInv => ReadsExactPrefix
  <2> SUFFICES ASSUME IInv, faults = 0
               PROVE  got = [i \in 1..Len(got) |-> Payload(i, sent[i])]
    BY DEF ReadsExactPrefix
  <2> DEFINE f == [i \in 1..Len(got) |-> Payload(i, sent[i])]
  <2>1. got \in Seq(Seq(Words)) /\ \A i \in 1..Len(got) : got[i] = Payload(i, sent[i])
    BY DEF IInv, Framing, Types, Undamaged, Bodies
  <2>2. DOMAIN got = 1..Len(got) /\ got = [i \in DOMAIN got |-> got[i]]
    BY <2>1
  <2> QED BY <2>1, <2>2
<1> QED BY <1>1, InitInv, StepInv, PTL DEF Spec

\* For every number of blobs, every kind and size, and wherever the writer dies: on
\* an undamaged stream reading stops only at the end, with every complete blob read,
\* or at a blob over the caller's limit.
THEOREM StopsOnlyWhereTorn == Spec => []FailsOnlyWhereTorn
<1>1. IInv => FailsOnlyWhereTorn
  BY DEF IInv, Undamaged, Stopped, FailsOnlyWhereTorn
<1> QED BY <1>1, InitInv, StepInv, PTL DEF Spec

-----------------------------------------------------------------------------
(* The stream implements the queue, step by step.                           *)

Sent == [i \in 1..Len(sent) |-> Payload(i, sent[i])]

\* The queue's bodies are the payloads sent.
LEMMA SentFacts ==
  ASSUME sent \in Seq(Kinds)
  PROVE  /\ Sent \in Seq(Seq(Words)) /\ Len(Sent) = Len(sent)
         /\ \A i \in 1..Len(sent) : Sent[i] = Payload(i, sent[i]) /\ Len(Sent[i]) = sent[i].stored
<1>1. Len(sent) \in Nat
  OBVIOUS
<1>2. ASSUME NEW i \in 1..Len(sent)
      PROVE  Payload(i, sent[i]) \in Seq(Words) /\ Len(Payload(i, sent[i])) = sent[i].stored
  <2>1. sent[i] \in Kinds /\ i \in Nat
    OBVIOUS
  <2> QED BY <2>1, BlobFacts, Zenon
<1> QED BY <1>1, <1>2 DEF Sent

\* The reader's status while the stream is undamaged.
LEMMA StatusFacts ==
  /\ faults = 0 /\ err = "none" => ReaderStatus = "open"
  /\ faults = 0 /\ err = "ErrTruncated" => ReaderStatus = "ended"
  /\ faults = 0 /\ err = "ErrAllocTooLarge" => ReaderStatus = "refused"
BY DEF ReaderStatus

\* Each step of the stream is one of the queue, or none.
LEMMA QueueStep ==
  ASSUME IInv, IInv', [Next]_vars PROVE [Queue!QNext]_(Queue!qvars)
<1>0. Types /\ Types' /\ Framing
  BY DEF IInv, Framing
<1>1. CASE faults' # 0
  <2>1. faults' > 0
    BY <1>0, <1>1 DEF Types
  <2>2. ReaderStatus' = "damaged"
    BY <2>1 DEF ReaderStatus
  <2>3. Queue!Break
    BY <2>2 DEF Queue!Break
  <2> QED BY <2>3 DEF Queue!QNext
<1>2. CASE faults' = 0
  <2>1. CASE UNCHANGED vars
    <3>1. UNCHANGED <<sent, whole, got, open, err, faults>>
      BY <2>1 DEF vars
    <3>2. UNCHANGED Queue!qvars
      BY <3>1 DEF Queue!qvars, ReaderStatus
    <3> QED BY <3>2
  <2>2. ASSUME NEW k \in Kinds, MarshalToWriter(k) PROVE Queue!QNext
    <3> DEFINE n == Len(sent)
    <3>1. faults = 0 /\ Undamaged
      BY <1>2, <2>2 DEF MarshalToWriter, IInv
    <3>2. whole = n
      BY <1>0, <2>2, <3>1, MarshalStream
    <3>3. open /\ n < MaxBlobs /\ sent' = Append(sent, k) /\ UNCHANGED <<open, got, err, faults, whole>>
      BY <2>2 DEF MarshalToWriter
    <3>4. sent \in Seq(Kinds) /\ sent' \in Seq(Kinds) /\ n \in Nat
      BY <1>0 DEF Types
    <3>5. n + 1 \in 1..MaxBlobs
      BY <3>3, <3>4, BoundsAssumption
    <3> DEFINE b == Payload(n + 1, k)
    <3>6. b \in {Payload(id, j) : id \in 1..MaxBlobs, j \in Kinds}
      BY <3>5
    <3>7. Sent' = Append(Sent, b)
      <4>1. Len(sent') = n + 1 /\ sent'[n + 1] = k /\ \A i \in 1..n : sent'[i] = sent[i]
        BY <3>3, <3>4, Appended
      <4>2. /\ Sent \in Seq(Seq(Words)) /\ Len(Sent) = n
            /\ \A i \in 1..n : Sent[i] = Payload(i, sent[i])
        BY <3>4, SentFacts
      <4>3. Sent' = [i \in 1..(n + 1) |-> Payload(i, sent'[i])]
        BY <4>1 DEF Sent
      <4>4. b \in Seq(Words)
        <5>1. n + 1 \in Nat
          BY <3>4
        <5> QED BY <5>1, BlobSeq, Zenon
      <4>5. /\ Append(Sent, b) \in Seq(Seq(Words)) /\ Len(Append(Sent, b)) = n + 1
            /\ \A i \in 1..n : Append(Sent, b)[i] = Sent[i]
            /\ Append(Sent, b)[n + 1] = b
        BY <4>2, <4>4, Appended
      <4>6. \A i \in 1..(n + 1) : Append(Sent, b)[i] = Payload(i, sent'[i])
        <5>1. ASSUME NEW i \in 1..(n + 1) PROVE i \in 1..n \/ i = n + 1
          BY <3>4
        <5> HIDE DEF n
        <5> QED BY <4>1, <4>2, <4>5, <5>1
      <4> DEFINE q == Append(Sent, b)
      <4> HIDE DEF q, n, b
      <4>7. q = [i \in 1..(n + 1) |-> q[i]]
        <5>1. q \in Seq(Seq(Words)) /\ Len(q) = n + 1
          BY <4>5 DEF q
        <5> QED BY <5>1
      <4> QED BY <4>3, <4>6, <4>7 DEF q
    <3>8. Len(Sent) = n /\ ReaderStatus' = ReaderStatus
      BY <3>3, <3>4, SentFacts DEF ReaderStatus
    <3>9. Queue!Announce(b)
      BY <3>2, <3>3, <3>7, <3>8 DEF Queue!Announce, Sent
    <3> QED BY <3>6, <3>9 DEF Queue!QNext
  <2>3. CASE Write
    <3>1. faults = 0 /\ Undamaged /\ faults' = faults
      BY <1>2, <2>3 DEF Write, IInv
    <3>2. /\ UNCHANGED <<sent, open, got, err>> /\ open
          /\ whole' = whole \/ (whole' = whole + 1 /\ whole < Len(sent))
      BY <1>0, <2>3, <3>1, WriteStream
    <3>3. ReaderStatus' = ReaderStatus /\ Len(Sent) = Len(sent) /\ Sent' = Sent
      BY <1>0, <3>1, <3>2, SentFacts DEF ReaderStatus, Types, Sent
    <3>4. CASE whole' = whole
      BY <3>2, <3>3, <3>4 DEF Queue!qvars, Sent
    <3>5. CASE whole' = whole + 1 /\ whole < Len(sent)
      <4>1. Queue!Complete
        BY <3>2, <3>3, <3>5 DEF Queue!Complete, Sent
      <4> QED BY <4>1 DEF Queue!QNext
    <3> QED BY <3>2, <3>4, <3>5
  <2>4. CASE Close
    <3>1. UNCHANGED <<sent, got, err, faults, whole>> /\ ~open'
      BY <2>4 DEF Close
    <3>2. ReaderStatus' = ReaderStatus /\ Sent' = Sent
      BY <3>1 DEF ReaderStatus, Sent
    <3>3. Queue!Leave
      BY <3>1, <3>2 DEF Queue!Leave, Sent
    <3> QED BY <3>3 DEF Queue!QNext
  <2>5. ASSUME NEW i \in DOMAIN pipe, Damage(i) PROVE FALSE
    <3>1. faults' = faults + 1 /\ faults \in Nat
      BY <1>0, <2>5 DEF Damage, Types
    <3> QED BY <1>2, <3>1
  <2>6. CASE ReadFull
    <3>1. /\ Wanted \in Nat /\ pc \in {"base", "ext", "body"}
          /\ UNCHANGED <<sent, out, open, faults, whole>>
          /\ Short \/ \E s : Taken(s) /\ Proceeds(s)
      BY <1>0, <2>6, ReadFullCases DEF IInv, Framing
    <3>2. err = "none" /\ faults = 0 /\ ReaderStatus = "open"
      BY <1>0, <1>2, <3>1, StatusFacts DEF Types
    <3>3. got' = got
      BY <3>1 DEF Short, Fail, Proceeds, ReadBase, BoundBody
    <3>4. Stopped'
      BY <1>2 DEF IInv, Undamaged
    <3>5. Sent' = Sent /\ Len(Sent) = Len(sent)
      BY <1>0, <3>1, SentFacts DEF Sent, Types
    <3>6. CASE err' = "none"
      <4>1. ReaderStatus' = ReaderStatus
        BY <3>1, <3>2, <3>6 DEF ReaderStatus
      <4> QED BY <3>1, <3>3, <3>5, <4>1 DEF Queue!qvars, Sent
    <3>7. CASE err' = "ErrTruncated" /\ ~open /\ Len(got) = whole
      <4>1. ReaderStatus' = "ended"
        BY <1>2, <3>7 DEF ReaderStatus
      <4>2. Queue!End
        BY <3>1, <3>2, <3>3, <3>5, <3>7, <4>1 DEF Queue!End, Sent
      <4> QED BY <4>2 DEF Queue!QNext
    <3>8. CASE /\ err' = "ErrAllocTooLarge" /\ MaxBodyLen >= 0 /\ Len(got) < Len(sent)
               /\ sent[Len(got) + 1].stored > MaxBodyLen
      <4>1. ReaderStatus' = "refused"
        BY <1>2, <3>8 DEF ReaderStatus
      <4>2. Len(got) + 1 \in 1..Len(sent)
        BY <1>0, <3>8 DEF Types
      <4>3. Len(Sent[Len(got) + 1]) > MaxBodyLen
        BY <1>0, <3>8, <4>2, SentFacts DEF Types
      <4>4. Queue!Refuse
        BY <3>1, <3>2, <3>3, <3>5, <3>8, <4>1, <4>3 DEF Queue!Refuse, Sent
      <4> QED BY <4>4 DEF Queue!QNext
    <3> QED BY <3>1, <3>3, <3>4, <3>6, <3>7, <3>8 DEF Stopped
  <2>7. CASE ParseHeader
    <3>1. faults = 0 /\ Undamaged /\ faults' = faults /\ pc = "header"
      BY <1>2, <2>7 DEF ParseHeader, IInv
    <3>2. /\ UNCHANGED <<sent, open, whole, err>> /\ Len(got) < whole
          /\ got' = Append(got, Payload(Len(got) + 1, sent[Len(got) + 1]))
      BY <1>0, <2>7, <3>1, ParseTakes
    <3>3. err = "none" /\ ReaderStatus = "open" /\ ReaderStatus' = "open"
      BY <1>0, <3>1, <3>2 DEF Types, ReaderStatus
    <3>4. Len(got) + 1 \in 1..Len(sent)
      BY <1>0, <3>1, <3>2 DEF Types, Undamaged, Bodies
    <3>5. Sent' = Sent /\ Sent[Len(got) + 1] = Payload(Len(got) + 1, sent[Len(got) + 1])
      BY <1>0, <3>2, <3>4, SentFacts DEF Sent, Types
    <3>6. Queue!Receive
      BY <3>2, <3>3, <3>5 DEF Queue!Receive, Sent
    <3> QED BY <3>6 DEF Queue!QNext
  <2> QED BY <2>1, <2>2, <2>3, <2>4, <2>5, <2>6, <2>7 DEF Next
<1> QED BY <1>1, <1>2

\* For every number of blobs, every kind and size: a stream of MarshalToWriter's
\* blobs is a queue to newReaderFrom and ReadHeader.  Each step of writer, medium and
\* reader is a step of BlobQueue or leaves the queue alone; that every complete body is
\* received in the end is the liveness part of ImplementsQueue and not proved here.
THEOREM StreamIsQueue == Spec => Queue!QInit /\ [][Queue!QNext]_(Queue!qvars)
<1>1. Init => Queue!QInit
  <2> SUFFICES ASSUME Init PROVE Queue!QInit
    OBVIOUS
  <2>1. sent = <<>> /\ got = <<>> /\ whole = 0 /\ err = "none" /\ faults = 0 /\ open = TRUE
    BY DEF Init
  <2>2. ReaderStatus = "open"
    BY <2>1, StatusFacts
  <2>3. [i \in 1..Len(sent) |-> Payload(i, sent[i])] = <<>>
    BY <2>1
  <2> QED BY <2>1, <2>2, <2>3 DEF Queue!QInit
<1>2. IInv /\ IInv' /\ [Next]_vars => [Queue!QNext]_(Queue!qvars)
  BY QueueStep
<1> QED BY <1>1, <1>2, InitInv, StepInv, PTL DEF Spec
=============================================================================
