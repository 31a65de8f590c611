------------------------------ MODULE MCDecoder -----------------------------
(***************************************************************************)
(* Decoder on every input of at most MaxLen bytes over a small alphabet,   *)
(* compared with a grammar of the wire format written without regions,     *)
(* cursors or an error state; and on what Encode writes for every shape of *)
(* field.                                                                  *)
(***************************************************************************)
EXTENDS RoundTrip

CONSTANTS MaxLen, Alphabet, HandAlphabet, HandLengths

\* Valid bodies: a list of a leaf and a nil, then unknown fields of three wire
\* types; a dictionary of one entry with a zero-elided pointer.
Seeds == {<<18, 7, 2, 3, 1, 8, 5, 1, 0, 26, 1, 9, 27, 1, 1, 24, 65, 0>>,
          <<10, 2, 1, 5, 18, 7, 1, 1, 9, 3, 10, 1, 3>>}

\* Every short input; every seed cut anywhere, and with any two bytes changed.
ShortInputs  == UNION {[1 .. n -> Alphabet] : n \in 0 .. MaxLen}
CutSeeds     == UNION {{SubSeq(s, 1, n) : n \in 0 .. Len(s)} : s \in Seeds}
DamagedSeeds == UNION {{[s EXCEPT ![i] = x, ![j] = y] :
                          i, j \in 1 .. Len(s), x, y \in Alphabet} : s \in Seeds}
AllInputs    == ShortInputs \cup CutSeeds \cup DamagedSeeds

\* What hand-written decoders read, and may be reset to: shorter inputs, and
\* of the longest those that are lengths throughout.
HandWrittenInputs == [1 .. MaxLen -> HandLengths]
                       \cup UNION {[1 .. n -> HandAlphabet] : n \in 0 .. MaxLen - 1}
OneReset          == {<<1, 0>>}

Uint8       == [kind |-> "uint", max |-> 20]
Int8        == [kind |-> "int", max |-> 9]
Float       == [kind |-> "fixed32"]
Bytes       == [kind |-> "bytes"]
Named(t)    == [kind |-> "named", elem |-> t]
Struct(n)   == [kind |-> "struct", name |-> n]
Slice(t)    == [kind |-> "slice", elem |-> t]
Map(k, t)   == [kind |-> "map", key |-> k, elem |-> t]
Pointer(t)  == [kind |-> "optional", elem |-> t]
IDRef(t)    == [kind |-> "idref", elem |-> t]
Custom(c)   == [kind |-> "custom", codec |-> c]

\* List and Dict read arbitrary input; tag 3 is unknown to both.  The others
\* are written: scalars (5 is flattened from an embedded pointer and 6 is
\* deprecated), composites, the codecs, and composites around a materializing
\* codec.  XOld is X before a few fields were added.
MCSchema ==
  [n \in {"List", "Item", "Dict", "Entry", "Leaf", "Scalars", "ScalarsOld", "Tree",
          "TreeOld", "LeafOld", "Codecs", "CodecsOld", "Money", "Box", "Carrier",
          "CarrierOld", "Deep", "Floats", "FloatsOld"} |->
     CASE n = "List"  -> <<Uint8, Slice(Pointer(Struct("Item")))>>
       [] n = "Item"  -> <<Uint8, Slice(Uint8)>>
       [] n = "Dict"  -> <<Pointer(Uint8), Map(Bytes, Struct("Entry"))>>
       [] n = "Entry" -> <<Pointer(Uint8)>>
       [] n = "Leaf"  -> <<Uint8, Bytes>>
       [] n = "LeafOld" -> 2 :> Bytes
       [] n = "Scalars" -> <<Int8, Pointer(Uint8), Float, IDRef(Bytes), Uint8, Uint8,
                             Pointer(Named(Int8))>>
       [] n = "ScalarsOld" -> 1 :> Int8 @@ 4 :> IDRef(Bytes) @@ 6 :> Uint8
       [] n = "Tree" -> <<Struct("Leaf"), Slice(Pointer(Struct("Leaf"))),
                          Map(Bytes, Struct("Leaf")), Slice(Slice(Uint8))>>
       [] n = "TreeOld" -> 1 :> Struct("LeafOld") @@ 3 :> Map(Bytes, Struct("LeafOld"))
       [] n = "Codecs" -> <<Custom("Time"), Custom("DecimalBinary"), Custom("StreamingJSON"),
                            Pointer(Custom("Time"))>>
       [] n = "CodecsOld" -> 2 :> Custom("DecimalBinary")
       [] n = "Money" -> 1 :> Custom("DecimalString")
       [] n = "Box" -> 1 :> Struct("Money")
       [] n = "Carrier" -> <<Struct("Box"), Slice(Struct("Money")),
                             Map(Int8, Struct("Money")), Pointer(Struct("Money")),
                             Slice(Pointer(Struct("Money"))), Pointer(Custom("DecimalString"))>>
       [] n = "CarrierOld" -> 1 :> Struct("Box") @@ 6 :> Pointer(Custom("DecimalString"))
       [] n = "Deep" -> <<Slice(Slice(Struct("Money"))), Slice(Slice(Uint8))>>
       [] n = "Floats" -> <<Float, Pointer(Float), Slice(Float), Pointer(Named(Float))>>
       [] n = "FloatsOld" -> 2 :> Pointer(Float)]

MCNotWritten == {<<"Scalars", 6>>}

Leaves == {<<0, <<>> >>, <<20, <<5>> >>, <<21, <<>> >>}
Coin   == 1 :> 0
Dec(t) == IF t = 0 THEN <<>> ELSE <<Coin>>

\* 5 is missing from the domain when the embedded pointer is nil; 10 and -11
\* do not fit the wire width of tag 1, nor 25 that of tag 2.
ScalarValues ==
  {[tag \in 1 .. 7 \ (IF embed THEN {} ELSE {5}) |->
      CASE tag = 1 -> i [] tag = 2 -> p [] tag = 3 -> <<0, 7>> [] tag = 4 -> id
        [] tag = 5 -> 4 [] tag = 6 -> 4 [] tag = 7 -> q] :
     i \in {-11, -10, 0, 9, 10}, p \in {<<>>, <<0>>, <<7>>, <<25>>},
     id \in {<<>>, << <<9, 9>> >>}, embed \in BOOLEAN, q \in {<<>>, <<0>>, <<-1>>}}

TreeValues ==
  {<<l, ps, m, ss>> :
     l \in Leaves, ps \in {<<>>} \cup {<< <<>>, <<l2>> >> : l2 \in Leaves},
     m \in {<<>>} \cup {(<<3>> :> l3 @@ <<>> :> <<1, <<2>> >>) : l3 \in Leaves},
     ss \in {<<>>, << <<>>, <<4, 5>> >>}}

CodecValues ==
  {<< <<s, n>>, <<c, sc, g>>, j, p>> :
     s \in {-33, 32}, n \in {0, 9}, c \in {0, 70}, sc \in {0, 3, 4}, g \in {0, 1},
     j \in {<<7>>}, p \in {<<>>, << <<0, 9>> >>}}

CarrierValues ==
  {<<1 :> Coin, l, m, Dec(p), q, d>> :
     l \in {<<>>, <<Coin>>}, m \in {<<>>, 2 :> Coin @@ -1 :> Coin}, p \in {0, 1},
     q \in {<<>>, << <<>>, <<Coin>> >>}, d \in {<<>>, <<0>>}}

DeepValues == {<< xs, << <<1>> >> >> : xs \in {<<>>, << <<>> >>, << <<Coin>>, <<>> >>}}

\* Zeros of both signs, and 1 with them.
FloatBits   == {zeroValue(Float), NegativeZero, <<1, VarintBase>>}
FloatValues ==
  {<<f, p, <<f, NegativeZero>>, q>> :
     f \in FloatBits, p \in {<<>>} \cup {<<x>> : x \in FloatBits}, q \in {<<x>> : x \in FloatBits}}

MCValues == [n \in {"Scalars", "Tree", "Codecs", "Carrier", "Deep", "Floats"} |->
  CASE n = "Scalars" -> ScalarValues [] n = "Tree" -> TreeValues
    [] n = "Codecs" -> CodecValues [] n = "Carrier" -> CarrierValues
    [] n = "Deep" -> DeepValues [] n = "Floats" -> FloatValues]
MCFloats == [n \in {"Floats"} |-> FloatValues]

MCReaders == [n \in DOMAIN MCValues |->
  CASE n = "Scalars" -> {"Scalars", "ScalarsOld"} [] n = "Tree" -> {"Tree", "TreeOld"}
    [] n = "Codecs" -> {"Codecs", "CodecsOld"} [] n = "Carrier" -> {"Carrier", "CarrierOld"}
    [] n = "Deep" -> {"Deep"} [] n = "Floats" -> {"Floats", "FloatsOld"}]

\* The codec agrees with itself, makes more, or makes less.
MCCodecOutputs == {<<7>>, <<8, 9>>}
AllEnvs == [cached : MCCodecOutputs, fresh : MCCodecOutputs, ascending : BOOLEAN]
SameEnv == {e \in AllEnvs : e.cached = <<7>> /\ e.fresh = <<7>>}
MCEnvs  == [n \in DOMAIN MCValues |->
  CASE n = "Tree" -> SameEnv [] n \in {"Carrier", "Deep"} -> AllEnvs
    [] OTHER -> {e \in SameEnv : e.ascending}]

\* No body is so long that its length is not an int.
ASSUME BodiesFit ==
  \A n \in DOMAIN MCValues : \A v \in MCValues[n], e \in MCEnvs[n] :
    SizeGSBM(n, v, e) <= MaxInt
-----------------------------------------------------------------------------
\* Reference grammar: where a value of type t starting at lo may end, within
\* hi.  Each set has at most one element.
RECURSIVE Ends(_, _, _), BodyEnds(_, _, _), ElemEnds(_, _, _, _)

Ends(t, lo, hi) ==
  LET v == readUvarint(buf, lo, hi) IN
  CASE t.kind = "uint"    -> {lo + r[1] : r \in {x \in v : x[2] <= t.max}}
    [] t.kind = "fixed32" -> {e \in {lo + Fixed32Size} : e <= hi}
    [] t.kind = "bytes"   -> {e \in {lo + r[1] + r[2] : r \in v} : e <= hi}
    [] OTHER -> {e \in {lo + r[1] + r[2] : r \in v} :
                   /\ e <= hi
                   /\ \E r \in v : e \in BodyEnds(t, lo + r[1], e)}

\* The inside of a region that ends at hi.
BodyEnds(t, lo, hi) ==
  CASE t.kind = "struct" ->
         IF lo = hi THEN {hi} ELSE
         UNION {LET tag == KeyTag(r[2])
                    wt  == KeyWire(r[2])
                    ft  == Schema[t.name][tag]
                    vs  == lo + r[1]
                    len == readUvarint(buf, vs, hi)
                    ends == IF tag \in DOMAIN Schema[t.name]
                              THEN IF wt = wireType(ft) THEN Ends(ft, vs, hi) ELSE {}
                              ELSE CASE wt = WireVarint -> {vs + x[1] : x \in len}
                                     [] wt = WireFixed32 -> {vs + Fixed32Size}
                                     [] wt = WireFixed64 -> {vs + Fixed64Size}
                                     [] wt = WireLengthDelim -> {vs + x[1] + x[2] : x \in len}
                                     [] OTHER -> {}
                IN UNION {BodyEnds(t, e, hi) : e \in {x \in ends : x <= hi}}
                : r \in {x \in readUvarint(buf, lo, hi) : KeyTag(x[2]) \in 1 .. MaxTag}}
    [] t.kind = "optional" ->
         IF lo >= hi THEN {}
         ELSE CASE buf[lo + 1] = 0 -> {lo + 1}
                [] buf[lo + 1] = 1 -> IF t.elem.kind = "struct"
                                        THEN BodyEnds(t.elem, lo + 1, hi)
                                        ELSE Ends(t.elem, lo + 1, hi)
                [] buf[lo + 1] = 3 /\ isBuiltinPrimitive(t.elem) -> {lo + 1}
                [] OTHER -> {}
    [] OTHER -> UNION {ElemEnds(t, r[2], lo + r[1], hi)
                       : r \in {x \in readUvarint(buf, lo, hi) :
                                  t.kind = "slice" => x[2] <= MaxSliceAlloc}}

ElemEnds(t, n, lo, hi) ==
  IF n = 0 THEN {lo}
  ELSE LET ks == IF t.kind = "map" THEN Ends(t.key, lo, hi) ELSE {lo}
           vs == UNION {Ends(t.elem, k, hi) : k \in ks}
       IN UNION {ElemEnds(t, n - 1, v, hi) : v \in vs}

WellFormed == Len(buf) \in BodyEnds([kind |-> "struct", name |-> root], 0, Len(buf))

\* The generated decoder accepts exactly the well-formed bodies: the region
\* bookkeeping, the skipping of unknown tags and the element counts add up to
\* the grammar, and an error is never lost nor invented.
AcceptsExactlyWellFormed ==
  source = NoSource /\ outcome \notin {"running", "by hand"} => (outcome = "ok" <=> WellFormed)
=============================================================================
