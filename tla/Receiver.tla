------------------------------ MODULE Receiver ------------------------------
(***************************************************************************)
(* What the generated decoder does to the receiver it fills: Reset and     *)
(* UnmarshalGSBM as tools/gsbmcodegen/emit.go emits them, driven by        *)
(* DecodeInto (storage/gsbm/decode_into.go).  A pooled receiver keeps the  *)
(* backing arrays of its slices from one decode to the next, with whatever *)
(* they hold; it must not show.                                            *)
(*                                                                         *)
(* The message is the sequence of field occurrences found on the wire,     *)
(* chosen one at a time; how it is spelled is the subject of Decoder.  The *)
(* struct under decode has one field of each kind, in a type chosen at the *)
(* start:                                                                  *)
(*    p int   n Item   s []Item   q []*Item   l [][]int   m map[K]int      *)
(*    o *Item             with  Item: x int, t []int                       *)
(* Both are //gsbm:track-presence types: they carry the set of field tags  *)
(* seen.                                                                   *)
(***************************************************************************)
EXTENDS Integers, SequencesExt

CONSTANTS
  Ints,        \* values of an int
  Keys,        \* map keys
  ItemMsgs,    \* bodies of an Item: sequences of [f : {"x", "t"}, v : Seq(Ints)]
  FieldSets,   \* the fields a struct type may have
  MaxLen,      \* bound: elements of a list
  MaxMsg,      \* bound: field occurrences in a body
  MaxDecodes   \* bound: decodes into the receiver

FieldNames == {"p", "n", "s", "q", "l", "m", "o"}

ASSUME ReceiverAssumption ==
  /\ FieldSets \subseteq SUBSET FieldNames /\ MaxLen \in Nat \ {0}
  /\ ItemMsgs \subseteq Seq([f : {"x", "t"}, v : Seq(Ints)])

VARIABLES
  fields,   \* the fields of the struct type
  dst,      \* the receiver
  ref,      \* a new receiver given the same body
  phase,    \* "idle", "decode", "ok", "failed"
  msg,      \* the occurrences decoded so far
  held,     \* pointers (and what they point to) a caller has seen
  nextId,   \* the next address
  decodes

vars == <<fields, dst, ref, phase, msg, held, nextId, decodes>>

\* A slice: its backing array up to its capacity, and its length.
NoSlice    == [cells |-> <<>>, len |-> 0]
Visible(sl) == SubSeq(sl.cells, 1, sl.len)

ZeroItem == [x |-> 0, t |-> NoSlice, present |-> {}]
NilPtr   == [id |-> 0, item |-> ZeroItem]
ZeroRoot == [p |-> 0, n |-> ZeroItem, s |-> NoSlice, q |-> NoSlice, l |-> NoSlice,
             m |-> <<>>, o |-> NilPtr, present |-> {}]

\* What can be read from a receiver.
ItemValue(it) == <<it.x, Visible(it.t), it.present>>
PtrValue(c)   == <<c.id = 0, ItemValue(c.item)>>
Value(r) ==
  [p |-> r.p, n |-> ItemValue(r.n), m |-> r.m, o |-> PtrValue(r.o), present |-> r.present,
   s |-> [i \in 1 .. r.s.len |-> ItemValue(r.s.cells[i])],
   q |-> [i \in 1 .. r.q.len |-> PtrValue(r.q.cells[i])],
   l |-> [i \in 1 .. r.l.len |-> Visible(r.l.cells[i])]]

-----------------------------------------------------------------------------
(* The generated methods. *)

\* Item.Reset; a slice of ints keeps its cells.
ResetItem(it) == [it EXCEPT !.x = 0, !.t.len = 0, !.present = {}]

\* clear(expr) and expr[:0]: the visible cells become the zero value.
Cleared(sl, zero) ==
  [cells |-> [i \in DOMAIN sl.cells |-> IF i <= sl.len THEN zero ELSE sl.cells[i]],
   len   |-> 0]

\* Mutant: pointer slots are not cleared.
ResetKeepsPointers(r) ==
  [ZeroRoot EXCEPT
     !.n = ResetItem(r.n),
     !.s = [cells |-> [i \in DOMAIN r.s.cells |->
                         IF i <= r.s.len THEN ResetItem(r.s.cells[i]) ELSE r.s.cells[i]],
            len |-> 0],
     !.q = [r.q EXCEPT !.len = 0], !.l = Cleared(r.l, NoSlice)]

\* Mutant: Reset does not recurse into a nested struct.
ResetShallow(r) ==
  [ZeroRoot EXCEPT !.n = r.n, !.q = Cleared(r.q, NilPtr), !.l = Cleared(r.l, NoSlice)]

\* Reset of the root: pointers are dropped, slices are truncated after each of
\* their elements was reset or cleared, maps are cleared.
Reset(r) ==
  [ZeroRoot EXCEPT
     !.n = ResetItem(r.n),
     !.s = [cells |-> [i \in DOMAIN r.s.cells |->
                         IF i <= r.s.len THEN ResetItem(r.s.cells[i]) ELSE r.s.cells[i]],
            len |-> 0],
     !.q = Cleared(r.q, NilPtr), !.l = Cleared(r.l, NoSlice)]

\* Room for n elements: the backing array if it is large enough, else
\* MakeSlice; an empty list leaves the field as it is.
Resize(sl, n, zero) ==
  IF n = 0 THEN sl
  ELSE IF Len(sl.cells) >= n THEN [sl EXCEPT !.len = n]
  ELSE [cells |-> [i \in 1 .. n |-> zero], len |-> n]

\* A slice of n elements of which the first ones, v, are decoded: elem(c, e)
\* is what decoding e makes of the cell c.
DecodeSlice(sl, n, v, zero, elem(_, _, _)) ==
  LET room == Resize(sl, n, zero)
  IN [room EXCEPT !.cells =
        [i \in DOMAIN @ |-> IF i <= Len(v) THEN elem(@[i], v[i], i) ELSE @[i]]]

SetInt(c, e, i) == e

\* One field occurrence of an Item, and Item.UnmarshalGSBM, which starts by
\* zeroing the presence bitmap only.
ItemField(it, occ) ==
  LET seen == [it EXCEPT !.present = @ \cup {occ.f}]
  IN IF occ.f = "x" THEN [seen EXCEPT !.x = Last(occ.v)]
     ELSE [seen EXCEPT !.t = DecodeSlice(@, Len(occ.v), occ.v, 0, SetInt)]
UnmarshalItem(it, body) == FoldLeft(ItemField, [it EXCEPT !.present = {}], body)

\* Elements of []Item, []*Item and [][]int (SetIntsUntruncated is a mutant).  A pointer that is there is used
\* again, after a Reset of what it points to.
SetItem(c, e, i) == UnmarshalItem(ResetItem(c), e)
SetPtr(c, e, i) ==
  IF e.nil THEN NilPtr
  ELSE IF c.id = 0 THEN [id |-> nextId + i, item |-> UnmarshalItem(ZeroItem, e.body)]
  ELSE [c EXCEPT !.item = UnmarshalItem(ResetItem(@), e.body)]
SetIntsUntruncated(c, e, i) == DecodeSlice(c, Len(e), e, 0, SetInt)
SetInts(c, e, i) == DecodeSlice([c EXCEPT !.len = 0], Len(e), e, 0, SetInt)

DecodeItems(sl, n, v) == DecodeSlice(sl, n, v, ZeroItem, SetItem)
DecodePtrs(sl, n, v)  == DecodeSlice(sl, n, v, NilPtr, SetPtr)
DecodeLists(sl, n, v) == DecodeSlice(sl, n, v, NoSlice, SetInts)

\* A map keeps its entries; each entry of the wire is assigned in turn.
Put(m, kv) == [k \in DOMAIN m \cup {kv[1]} |-> IF k = kv[1] THEN kv[2] ELSE m[k]]
PutAll(m, v) == FoldLeft(Put, m, v)

\* An optional: nil, or a newly allocated Item.
NewPtr(e) ==
  IF e.nil THEN NilPtr ELSE [id |-> nextId + 1, item |-> UnmarshalItem(ZeroItem, e.body)]

\* The case of one tag in UnmarshalGSBM, up to the point where the elements v
\* are decoded; n is the number the wire announces.
Decode(r, f, v, n) ==
  CASE f = "p" -> IF v = <<>> THEN r ELSE [r EXCEPT !.p = v[1]]
    [] f = "n" -> [r EXCEPT !.n = UnmarshalItem(@, v)]
    [] f = "s" -> [r EXCEPT !.s = DecodeItems(@, n, v)]
    [] f = "q" -> [r EXCEPT !.q = DecodePtrs(@, n, v)]
    [] f = "l" -> [r EXCEPT !.l = DecodeLists(@, n, v)]
    [] f = "m" -> [r EXCEPT !.m = PutAll(@, v)]
    [] f = "o" -> IF v = <<>> THEN r ELSE [r EXCEPT !.o = NewPtr(v[1])]

Seen(r, f) == [r EXCEPT !.present = @ \cup {f}]

-----------------------------------------------------------------------------
PtrMsgs == [nil : {FALSE}, body : ItemMsgs] \cup [nil : {TRUE}, body : {<<>>}]

\* The occurrences of field f a body may hold.
Contents(f) ==
  CASE f = "p" -> {<<i>> : i \in Ints}
    [] f = "n" -> ItemMsgs
    [] f = "s" -> SeqOf(ItemMsgs, MaxLen)
    [] f = "q" -> SeqOf(PtrMsgs, MaxLen)
    [] f = "l" -> SeqOf(SeqOf(Ints, 1), MaxLen)
    [] f = "m" -> SeqOf(Keys \X Ints, MaxLen)
    [] f = "o" -> {<<e>> : e \in PtrMsgs}

Init ==
  /\ fields \in FieldSets
  /\ dst = ZeroRoot /\ ref = ZeroRoot
  /\ phase = "idle" /\ msg = <<>> /\ held = {} /\ nextId = 0 /\ decodes = 0

\* DecodeInto: Reset, then the header; UnmarshalGSBM starts by zeroing the
\* presence bitmap, as Reset does.
DecodeInto ==
  /\ phase # "decode" /\ decodes < MaxDecodes
  /\ phase' = "decode" /\ decodes' = decodes + 1
  /\ dst' = Reset(dst) /\ ref' = ZeroRoot /\ msg' = <<>>
  /\ UNCHANGED <<fields, held, nextId>>

\* A field occurrence is decoded.
Field(f, v) ==
  /\ phase = "decode" /\ Len(msg) < MaxMsg
  /\ dst' = Seen(Decode(dst, f, v, Len(v)), f)
  /\ ref' = Seen(Decode(ref, f, v, Len(v)), f)
  /\ msg' = Append(msg, [f |-> f, v |-> v])
  /\ nextId' = nextId + MaxLen
  /\ UNCHANGED <<fields, phase, held, decodes>>

\* The header or a tag is malformed, or the input breaks off: the decode
\* stops, in a field after the first k of its elements.
FailHere ==
  /\ phase = "decode" /\ phase' = "failed"
  /\ UNCHANGED <<fields, dst, ref, msg, held, nextId, decodes>>

FailInside(f, v, k) ==
  /\ phase = "decode" /\ Len(msg) < MaxMsg /\ k < Len(v)
  /\ dst' = Decode(dst, f, SubSeq(v, 1, k), Len(v))
  /\ phase' = "failed" /\ nextId' = nextId + MaxLen
  /\ UNCHANGED <<fields, ref, msg, held, decodes>>

\* The body is at its end; the caller may keep the pointers it now sees.
Done ==
  /\ phase = "decode" /\ phase' = "ok"
  /\ held' = held \cup {c \in Range(Visible(dst.q)) \cup {dst.o} : c.id # 0}
  /\ UNCHANGED <<fields, dst, ref, msg, nextId, decodes>>

Next ==
  \/ DecodeInto
  \/ \E f \in fields : \E v \in Contents(f) :
       Field(f, v) \/ \E k \in 0 .. MaxLen : FailInside(f, v, k)
  \/ FailHere
  \/ Done

Spec == Init /\ [][Next]_vars

-----------------------------------------------------------------------------
(* Properties. *)

\* A reused receiver decodes a body to the same value, presence included, as a
\* new one, whatever was decoded into it before and however that ended: no
\* stale element, entry or bit left in retained capacity shows through.
ReuseIsInvisible == phase \in {"decode", "ok"} => Value(dst) = Value(ref)

\* A pointer the caller took from an earlier decode is never written again:
\* a later decode into the receiver allocates, or reuses only pointers nobody
\* has seen.
HeldPointersStable ==
  \A h \in held : \A c \in Range(dst.q.cells) \cup {dst.o} :
    c.id = h.id => c.item = h.item

\* The last occurrence of field f in the body, alone in a new receiver.
LastOnly(f) ==
  LET at == {i \in DOMAIN msg : msg[i].f = f}
      v  == msg[Max(at)].v
  IN IF at = {} THEN ZeroRoot ELSE Decode(ZeroRoot, f, v, Len(v))

\* When a tag occurs twice the last value wins, for a primitive, an optional
\* and, when the last occurrence is not empty, for each kind of slice.
LastOccurrenceWins ==
  phase = "ok" =>
    LET got == Value(dst)
        want(f) == Value(LastOnly(f))
    IN /\ got.p = want("p").p /\ got.o = want("o").o
       /\ want("s").s # <<>> => got.s = want("s").s
       /\ want("q").q # <<>> => got.q = want("q").q
       /\ want("l").l # <<>> => got.l = want("l").l

\* When the tag of a slice or of a map occurs twice, the whole field value is
\* the one of the most recent occurrence.
DuplicateTagReplaces ==
  phase = "ok" =>
    LET got == Value(dst)
        want(f) == Value(LastOnly(f))
    IN /\ got.s = want("s").s /\ got.q = want("q").q
       /\ got.l = want("l").l /\ got.m = want("m").m
=============================================================================
