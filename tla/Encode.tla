------------------------------- MODULE Encode --------------------------------
(***************************************************************************)
(* The MarshalGSBM and SizeGSBM that gsbmcodegen emits for a schema        *)
(* (tools/gsbmcodegen/emit.go, the encode and the size halves): operators  *)
(* from a value to the Writer calls it makes, and to the size it announces.*)
(* An operator is named after the emitter whose output it stands for.      *)
(*                                                                         *)
(* Values: integers and byte strings; a pointer is <<>> or <<x>>; a slice  *)
(* is a sequence, a map a function; a struct is a function on its tags,    *)
(* less the ones flattened from an embedded pointer that is nil.  A Time is*)
(* <<seconds, nanos>>, a DecimalBinary <<coef, scale, sign>>.              *)
(*                                                                         *)
(* What is not a function of the value is in `env': the bytes a            *)
(* materializing codec makes when MarshalGSBM runs it (`cached', shared by *)
(* both passes of an encode), the bytes it makes when SizeGSBM runs it on a*)
(* Writer of its own (`fresh'), and whether the runtime ranges over maps   *)
(* in ascending order (`ascending').                                       *)
(***************************************************************************)
EXTENDS FieldTypes, WriterCalls

CONSTANT NotWritten   \* <<struct, tag>>: deprecated fields without compat_write

\* sizing.go: SizeTag, and the duals of the Writer's methods.
SizeTag(tag, wt)       == varintLen[Key(tag, wt)]
SizeUvarint(n)         == varintLen[n]
SizeVarint(i)          == varintLen[zigzagEncode64(i)]
SizeLengthDelim(n)     == varintLen[n] + n
SizeBytes(b)           == SizeLengthDelim(Len(b))

\* The fields in the order in which they are written.
writableFields(s) ==
  SetToSortSeq({tag \in DOMAIN Schema[s] : <<s, tag>> \notin NotWritten}, <)

\* pointerEmbedGuard, and the nil test of an id_ref: the field leaves no bytes.
Omitted(s, tag, v) ==
  tag \notin DOMAIN v \/ (Schema[s][tag].kind = "idref" /\ v[tag] = <<>>)

\* The fields of v that reach the wire.
Fields(s, v) == SelectSeq(writableFields(s), LAMBDA tag : ~ Omitted(s, tag, v))

\* The payload of a field: an id_ref stands for the field 1 it points to.
FieldValue(s, tag, v) == IF Schema[s][tag].kind = "idref" THEN v[tag][1] ELSE v[tag]

RECURSIVE typeContainsMaterializingCodec(_)

\* Encoding a value of type t may run a materializing codec, whose output the
\* size of the value does not determine.
typeContainsMaterializingCodec(t) ==
  CASE t.kind \in {"optional", "slice", "map"} -> typeContainsMaterializingCodec(t.elem)
    [] t.kind = "custom" -> codecKind(t.codec) = "materializing"
    [] t.kind = "struct" ->
         \E tag \in ToSet(writableFields(t.name)) :
           typeContainsMaterializingCodec(Schema[t.name][tag])
    [] OTHER -> FALSE

-----------------------------------------------------------------------------
(* Map keys. *)

\* The order of Go strings.
StringLess(a, b) ==
  \E i \in 1 .. Len(b) :
    /\ \A j \in 1 .. i - 1 : j <= Len(a) /\ a[j] = b[j]
    /\ i > Len(a) \/ a[i] < b[i]

KeyLess(t, a, b) == IF Underlying(t).kind = "bytes" THEN StringLess(a, b) ELSE a < b

\* The order in which the runtime happens to range over a map.
mapRange(t, m, env) ==
  LET up == SetToSortSeq(DOMAIN m, LAMBDA a, b : KeyLess(t, a, b))
  IN IF env.ascending THEN up ELSE Reverse(up)

emitKeySort(t, keys) == SortSeq(keys, LAMBDA a, b : KeyLess(t, a, b))

-----------------------------------------------------------------------------
(* SizeGSBM. *)

RECURSIVE SizeGSBM(_, _, _), emitValueSize(_, _, _)

\* Floats, integers and strings.
emitPrimitiveSize(t, x) ==
  CASE t.kind = "uint"    -> SizeUvarint(x)
    [] t.kind = "int"     -> SizeVarint(x)
    [] t.kind = "fixed32" -> Fixed32Size
    [] t.kind = "bytes"   -> SizeBytes(x)

\* SizeTime and SizeDecimalBinary.
SizeFn(c, x) ==
  CASE c = "Time"          -> SizeVarint(x[1]) + SizeUvarint(x[2])
    [] c = "DecimalBinary" -> SizeUvarint(x[1]) + SizeUvarint(2 * x[2] + x[3])

\* A codec without a SizeFn runs on a counting Writer of its own.
emitCustomCodecSize(c, x, env) ==
  CASE codecKind(c) = "analytic"      -> SizeLengthDelim(SizeFn(c, x))
    [] codecKind(c) = "materializing" -> SizeBytes(env.fresh)
    [] codecKind(c) = "streaming"     -> SizeBytes(x)

\* Mutant: the presence byte is counted for values only.
emitOptionalSizeNilFree(t, p, env) ==
  SizeLengthDelim(
    IF p = <<>> THEN 0
    ELSE IF isBuiltinPrimitive(t) /\ isZero(t, p[1]) THEN 1
    ELSE 1 + (IF t.kind = "struct" THEN SizeGSBM(t.name, p[1], env)
                                   ELSE emitValueSize(t, p[1], env)))

\* A pointer, as a field or as the element of a slice.
emitOptionalSize(t, p, env) ==
  SizeLengthDelim(
    IF p = <<>> \/ (isBuiltinPrimitive(t) /\ isZero(t, p[1])) THEN 1
    ELSE 1 + (IF t.kind = "struct" THEN SizeGSBM(t.name, p[1], env)
                                   ELSE emitValueSize(t, p[1], env)))

\* The body of a slice: the count and the elements.
SliceBody(t, xs, env) ==
  FoldLeft(LAMBDA n, x : n + emitValueSize(t.elem, x, env), SizeUvarint(Len(xs)), xs)

\* The body of a map, summed in the order of the range.
MapBody(t, m, env) ==
  FoldLeft(LAMBDA n, k : n + emitPrimitiveSize(Underlying(t.key), k)
                           + emitValueSize(t.elem, m[k], env),
           SizeUvarint(Cardinality(DOMAIN m)), mapRange(t.key, m, env))

emitValueSize(t, x, env) ==
  CASE t.kind = "struct"   -> SizeLengthDelim(SizeGSBM(t.name, x, env))
    [] t.kind = "slice"    -> SizeLengthDelim(SliceBody(t, x, env))
    [] t.kind = "map"      -> SizeLengthDelim(MapBody(t, x, env))
    [] t.kind = "optional" -> emitOptionalSize(t.elem, x, env)
    [] t.kind = "custom"   -> emitCustomCodecSize(t.codec, x, env)
    [] OTHER               -> emitPrimitiveSize(Underlying(t), x)

\* emitSize and emitFieldSize: keys and values of the fields that are written.
SizeGSBM(s, v, env) ==
  FoldLeft(LAMBDA n, tag : n + SizeTag(tag, wireType(Schema[s][tag]))
                             + emitValueSize(Underlying(Schema[s][tag]),
                                             FieldValue(s, tag, v), env),
           0, Fields(s, v))

-----------------------------------------------------------------------------
(* MarshalGSBM. *)

RECURSIVE MarshalGSBM(_, _, _), emitValueEncode(_, _, _)

\* emitIntEncode: a value wider than the wire is refused before it is written.
emitIntEncode(call, ok) == <<IF ok THEN call ELSE CallReturn("ErrIntegerOverflow")>>

emitPrimitiveEncode(t, x) ==
  CASE t.kind = "uint"    -> emitIntEncode(CallUvarint(x), x <= t.max)
    [] t.kind = "int"     -> emitIntEncode(CallVarint(x), x \in -t.max - 1 .. t.max)
    [] t.kind = "fixed32" -> <<CallWrite(x)>>
    [] t.kind = "bytes"   -> <<CallBytes(x)>>

\* EncodeTime and EncodeDecimalBinary, the sign packed under the scale.
EncodeFn(c, x) ==
  CASE c = "Time" -> <<CallVarint(x[1]), CallUvarint(x[2])>>
    [] c = "DecimalBinary" ->
         IF x[2] >= MaxScale THEN <<CallReturn("ErrCodec")>>
         ELSE <<CallUvarint(x[1]), CallUvarint(2 * x[2] + x[3])>>

\* The generated code writes the length of an analytic codec's body; the other
\* codecs frame themselves.
emitCustomCodecEncode(c, x, env) ==
  CASE codecKind(c) = "analytic"      -> <<CallUvarint(SizeFn(c, x))>> \o EncodeFn(c, x)
    [] codecKind(c) = "materializing" -> <<CallCached(env.cached)>>
    [] codecKind(c) = "streaming"     -> <<CallBytes(x)>>

\* The presence byte of a pointer and what follows it.
Present(t, p, env) ==
  IF p = <<>> THEN <<CallPresence(PresenceNil)>>
  ELSE IF isBuiltinPrimitive(t) /\ isZero(t, p[1]) THEN <<CallPresence(PresenceZero)>>
  ELSE <<CallPresence(PresenceNonZero)>>
       \o (IF t.kind = "struct" THEN MarshalGSBM(t.name, p[1], env)
                                ELSE emitValueEncode(t, p[1], env))

emitOptionalEncode(t, p, env) == <<CallBegin>> \o Present(t, p, env) \o <<CallEnd>>

\* Mutant: the length of every struct comes from its SizeGSBM.
EnvelopeAnnounced(t, n, calls) == <<CallUvarint(n)>> \o calls

\* The length of a struct, slice or map that holds a t: announced from its size
\* n, unless a materializing codec may run inside; then it is measured.
Envelope(t, n, calls) ==
  IF typeContainsMaterializingCodec(t)
    THEN <<CallBegin>> \o calls \o <<CallEnd>>
    ELSE <<CallUvarint(n)>> \o calls

\* An element that is a pointer to a struct announces its length like a struct.
SliceElem(t, x, env) ==
  IF t.kind = "optional"
    THEN Envelope(t, IF x = <<>> THEN 1 ELSE 1 + SizeGSBM(t.elem.name, x[1], env),
                  Present(t.elem, x, env))
    ELSE emitValueEncode(t, x, env)

emitSliceEncode(t, xs, env) ==
  Envelope(t.elem, SliceBody(t, xs, env),
           <<CallUvarint(Len(xs))>>
             \o FlattenSeq([i \in 1 .. Len(xs) |-> SliceElem(t.elem, xs[i], env)]))

emitMapEncode(t, m, env) ==
  LET keys == emitKeySort(t.key, mapRange(t.key, m, env))
      entry(k) == emitPrimitiveEncode(Underlying(t.key), k)
                    \o emitValueEncode(t.elem, m[k], env)
  IN Envelope(t.elem, MapBody(t, m, env),
              <<CallUvarint(Len(keys))>>
                \o FlattenSeq([i \in 1 .. Len(keys) |-> entry(keys[i])]))

emitValueEncode(t, x, env) ==
  CASE t.kind = "struct"   -> Envelope(t, SizeGSBM(t.name, x, env),
                                       MarshalGSBM(t.name, x, env))
    [] t.kind = "slice"    -> emitSliceEncode(t, x, env)
    [] t.kind = "map"      -> emitMapEncode(t, x, env)
    [] t.kind = "optional" -> emitOptionalEncode(t.elem, x, env)
    [] t.kind = "custom"   -> emitCustomCodecEncode(t.codec, x, env)
    [] OTHER               -> emitPrimitiveEncode(Underlying(t), x)

\* One field, key first.
emitFieldEncode(s, tag, v, env) ==
  <<CallTag(tag, wireType(Schema[s][tag]))>>
    \o emitValueEncode(Underlying(Schema[s][tag]), FieldValue(s, tag, v), env)

\* emitMarshal.
MarshalGSBM(s, v, env) ==
  LET tags == Fields(s, v)
  IN FlattenSeq([i \in 1 .. Len(tags) |-> emitFieldEncode(s, tags[i], v, env)])
=============================================================================
