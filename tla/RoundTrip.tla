------------------------------ MODULE RoundTrip ------------------------------
(***************************************************************************)
(* Generated encoder and generated decoder together: a body that           *)
(* MarshalGSBM wrote is read by the UnmarshalGSBM of the same struct, or of*)
(* a version of it with fewer or with more fields.  Bodies of any other    *)
(* origin are read as well (`source' is then NoSource), also by decoders   *)
(* written by hand, which call the Reader's methods in any order.          *)
(***************************************************************************)
EXTENDS Decoder, Encode

CONSTANTS
  HandInputs, \* the inputs hand-written decoders are given
  Values,     \* [root struct -> the values encoded]
  Envs,       \* [root struct -> what its codecs and map ranges may do]
  Readers     \* [root struct -> the structs that may read its body]

VARIABLE source   \* what was encoded: [root, value, env]

rvars == <<dvars, source>>

NoSource == [root |-> "none"]

\* The calls of MarshalGSBM up to an error of its own.
Calls(w) == MarshalGSBM(w.root, w.value, w.env)

\* DecodeBodyInto over what MarshalGSBM wrote; without a body when it failed.
EncodeFirst ==
  \E s \in DOMAIN Values : \E v \in Values[s], e \in Envs[s], r \in Readers[s] :
    LET w == [root |-> s, value |-> v, env |-> e] IN
    /\ source = w
    /\ root = r
    /\ got = <<>>
    /\ IF Returns(Calls(w)) = {}
         THEN /\ NewReader(Canonical(Calls(w)))
              /\ todo = <<Loop(r)>> /\ outcome = "running"
         ELSE /\ NewReader(<<>>)
              /\ todo = <<>> /\ outcome \in Returns(Calls(w))

\* An UnmarshalGSBM that nobody generated.
HandWritten ==
  /\ \E src \in HandInputs : NewReader(src)
  /\ source = NoSource
  /\ root = "none" /\ todo = <<>> /\ got = <<>> /\ outcome = "by hand"

RInit == (DInit /\ source = NoSource) \/ EncodeFirst \/ HandWritten

\* It makes any call of the Reader next.
CalledByHand == outcome = "by hand" /\ Next /\ UNCHANGED <<root, todo, got, outcome>>

RNext == (DNext \/ CalledByHand) /\ UNCHANGED source

RSpec == RInit /\ [][RNext]_rvars /\ WF_rvars(RNext)

-----------------------------------------------------------------------------
\* Every integer that is written fits the wire width of its field, and every
\* scale is one the decimal codec takes.
RECURSIVE Encodable(_, _)
Encodable(t, x) ==
  CASE t.kind = "uint"     -> x <= t.max
    [] t.kind = "int"      -> x \in -t.max - 1 .. t.max
    [] t.kind = "named"    -> Encodable(t.elem, x)
    [] t.kind \in {"idref", "optional", "slice"} -> \A y \in ToSet(x) : Encodable(t.elem, y)
    [] t.kind = "map"      -> \A k \in DOMAIN x : Encodable(t.key, k) /\ Encodable(t.elem, x[k])
    [] t.kind = "struct"   -> \A tag \in ToSet(writableFields(t.name)) \cap DOMAIN x :
                                Encodable(Schema[t.name][tag], x[tag])
    [] t.kind = "custom"   -> t.codec = "DecimalBinary" => x[2] < MaxScale
    [] OTHER               -> TRUE

\* What a reader with type r is to find in a value x of type t: the fields it
\* knows among those that are written, in the order of their tags, maps in the
\* order of their keys, and what the codec produced for this blob (how.cached).
\* Unless how.signed, the sign of a zero behind a pointer is not to be found.
RECURSIVE Reading(_, _, _, _)
Reading(r, t, x, how) ==
  CASE t.kind = "struct" ->
         LET tags == SelectSeq(writableFields(t.name), LAMBDA tag :
               tag \in DOMAIN Schema[r.name] /\ ~ Omitted(t.name, tag, x))
         IN FlattenSeq([i \in 1 .. Len(tags) |->
              <<Stored("tag", <<tags[i]>>)>>
                \o Reading(Schema[r.name][tags[i]], Schema[t.name][tags[i]], x[tags[i]], how)])
    [] t.kind = "slice" ->
         <<Stored("count", <<Len(x)>>)>>
           \o FlattenSeq([i \in 1 .. Len(x) |-> Reading(r.elem, t.elem, x[i], how)])
    [] t.kind = "map" ->
         LET keys == SetToSortSeq(DOMAIN x, LAMBDA a, b : KeyLess(t.key, a, b))
         IN <<Stored("count", <<Len(keys)>>)>>
              \o FlattenSeq([i \in 1 .. Len(keys) |->
                   Reading(r.key, t.key, keys[i], how) \o Reading(r.elem, t.elem, x[keys[i]], how)])
    [] t.kind = "optional" ->
         IF x = <<>> THEN <<Stored("nil", <<>>)>>
         ELSE <<Stored("ptr", <<>>)>>
                \o Reading(r.elem, t.elem,
                           IF t.elem.kind = "fixed32" /\ x[1] = NegativeZero /\ ~ how.signed
                             THEN zeroValue(t.elem) ELSE x[1], how)
    [] t.kind = "idref" -> Reading(r.elem, t.elem, x[1], how)
    [] t.kind = "named" -> Reading(r.elem, t.elem, x, how)
    [] t.kind \in {"uint", "int"} -> <<Stored("value", <<x>>)>>
    [] t.kind = "custom" /\ t.codec = "Time" ->
         <<Stored("value", <<x[1]>>), Stored("value", <<x[2]>>)>>
    [] t.kind = "custom" /\ t.codec = "DecimalBinary" ->
         <<Stored("value", <<x[1]>>), Stored("value", <<x[2], x[3]>>)>>
    [] t.kind = "custom" /\ t.codec = "DecimalString" -> <<Stored("value", how.cached)>>
    [] OTHER -> <<Stored("value", x)>>

RootType(s) == [kind |-> "struct", name |-> s]

\* What the reader of this blob is to find.
ToRead(signed) ==
  Reading(RootType(root), RootType(source.root), source.value,
          [cached |-> source.env.cached, signed |-> signed])

\* A value that was encoded is read back: by its own struct completely, by an
\* older or a newer one up to the fields it knows, although its codecs may
\* produce something else each time they run and maps are ranged over in any
\* order.  One thing is lost: -0.0 behind a pointer comes back as +0.0, since
\* the generated code elides it (see FloatsKeepBits); any other float keeps its
\* bits.  A value that does not fit the wire is refused by the encoder, never
\* truncated.
ReadsBack ==
  source # NoSource /\ outcome # "running" =>
    IF Encodable(RootType(source.root), source.value)
      THEN outcome = "ok" /\ got = ToRead(FALSE)
      ELSE outcome \in {"ErrIntegerOverflow", "ErrCodec"} /\ got = <<>>

\* docs/spec.md, section 4.3: encoders do not zero-elide float fields, so a float
\* makes an exact round trip, the sign of a zero included.
FloatsKeepBits ==
  source # NoSource /\ outcome = "ok" => got = ToRead(TRUE)

\* SizeGSBM announces the number of bytes MarshalGSBM writes, unless a codec
\* that is not deterministic is involved (TestSizeMatchesMarshal).
SizeMatchesMarshal ==
  source # NoSource /\ outcome = "ok" =>
    \/ SizeGSBM(source.root, source.value, source.env) = Len(buf)
    \/ /\ typeContainsMaterializingCodec(RootType(source.root))
       /\ source.env.fresh # source.env.cached
=============================================================================
