--------------------------- MODULE ReceiverProofs ----------------------------
(***************************************************************************)
(* Three facts about pooled receivers, for any item bodies, any number of  *)
(* decodes and of field occurrences, and any set of fields.                *)
(*                                                                         *)
(* The pointers a caller took from a receiver are never written by a later *)
(* decode: every pointer of the receiver has an address of its own; during *)
(* a decode none of them is one a caller holds, since Reset drops what was *)
(* visible and nobody saw the rest.                                        *)
(*                                                                         *)
(* A reused receiver shows what a new one shows, and of a repeated tag     *)
(* what came last: what an occurrence leaves to be seen depends on the     *)
(* wire only, or, for an empty list, on what was to be seen before.        *)
(***************************************************************************)
EXTENDS Receiver, WellFoundedInduction, TLAPS

\* The places a pointer can be in: the optional, and the cells of the slice of
\* pointers up to its capacity.
Places(r)   == {0} \cup DOMAIN r.q.cells
At(r, i)    == IF i = 0 THEN r.o ELSE r.q.cells[i]

IsPtr(c)  == c = [id |-> c.id, item |-> c.item] /\ c.id \in Nat
IsRoot(r) ==
  r = [p |-> r.p, n |-> r.n, s |-> r.s, q |-> r.q, l |-> r.l, m |-> r.m, o |-> r.o,
       present |-> r.present]
IsSlice(sl) ==
  /\ sl = [cells |-> sl.cells, len |-> sl.len]
  /\ \E m \in Nat : /\ sl.cells = [i \in 1 .. m |-> sl.cells[i]] /\ sl.len \in 0 .. m

Types ==
  /\ fields \in FieldSets /\ phase \in {"idle", "decode", "ok", "failed"} /\ nextId \in Nat
  /\ IsRoot(dst) /\ IsSlice(dst.q)
  /\ \A i \in Places(dst) : IsPtr(At(dst, i))
  /\ \A h \in held : IsPtr(h)

\* Addresses are given out once.
Owned ==
  /\ \A i \in Places(dst) : At(dst, i).id <= nextId
  /\ \A i, j \in Places(dst) : At(dst, i).id = At(dst, j).id /\ At(dst, i).id # 0 => i = j
  /\ \A h \in held : h.id # 0 /\ h.id <= nextId

\* While the receiver is written, and after a decode that failed, a caller holds
\* none of its pointers; after one that did not, what a caller holds is visible.
Apart ==
  phase \in {"decode", "failed"} =>
    \A h \in held : \A i \in Places(dst) : At(dst, i).id # h.id
Shown ==
  phase \in {"idle", "ok"} =>
    \A h \in held : \A i \in Places(dst) :
      At(dst, i).id = h.id => At(dst, i).item = h.item /\ i <= dst.q.len

IInv == Types /\ Owned /\ Apart /\ Shown

-----------------------------------------------------------------------------
(* The operators on receivers.                                             *)

\* A slice is a sequence of its cells.
LEMMA SliceFacts ==
  ASSUME NEW sl, IsSlice(sl)
  PROVE  /\ Len(sl.cells) \in Nat /\ DOMAIN sl.cells = 1 .. Len(sl.cells)
         /\ sl.len \in 0 .. Len(sl.cells)
         /\ Range(Visible(sl)) = {sl.cells[i] : i \in 1 .. sl.len}
<1>1. PICK m \in Nat : sl.cells = [i \in 1 .. m |-> sl.cells[i]] /\ sl.len \in 0 .. m
  BY DEF IsSlice
<1> DEFINE C == sl.cells
           P == {C[i] : i \in 1 .. m}
<1>2. C \in Seq(P) /\ Len(C) = m
  <2> HIDE DEF C
  <2>1. C = [i \in 1 .. m |-> C[i]]
    BY <1>1 DEF C
  <2> QED BY <2>1
<1>3. DOMAIN C = 1 .. m
  BY <1>1
<1> HIDE DEF C, P
<1>4. DOMAIN SubSeq(C, 1, sl.len) = 1 .. sl.len /\ \A i \in 1 .. sl.len : SubSeq(C, 1, sl.len)[i] = C[i]
  BY <1>1, <1>2
<1>5. Range(SubSeq(C, 1, sl.len)) = {C[i] : i \in 1 .. sl.len}
  BY <1>4 DEF Range
<1> QED BY <1>1, <1>2, <1>3, <1>5 DEF C, Visible

\* A field occurrence changes the one field it is about.
LEMMA DecodeFacts ==
  ASSUME NEW r, IsRoot(r), NEW f \in FieldNames, NEW v, NEW n
  PROVE  /\ IsRoot(Decode(r, f, v, n))
         /\ Decode(r, f, v, n).q = IF f = "q" THEN DecodePtrs(r.q, n, v) ELSE r.q
         /\ Decode(r, f, v, n).o = IF f = "o" /\ v # <<>> THEN NewPtr(v[1]) ELSE r.o
<1> USE DEF IsRoot, Decode
<1>1. CASE f = "p" BY <1>1
<1>2. CASE f = "n" BY <1>2
<1>3. CASE f = "s" BY <1>3
<1>4. CASE f = "q" BY <1>4
<1>5. CASE f = "l" BY <1>5
<1>6. CASE f = "m" BY <1>6
<1>7. CASE f = "o" BY <1>7
<1> QED BY <1>1, <1>2, <1>3, <1>4, <1>5, <1>6, <1>7 DEF FieldNames

\* Marking a field as seen leaves the pointers alone.
LEMMA SeenFacts ==
  ASSUME NEW r, IsRoot(r), NEW f
  PROVE  IsRoot(Seen(r, f)) /\ Seen(r, f).q = r.q /\ Seen(r, f).o = r.o
BY DEF IsRoot, Seen

\* Reset drops the visible pointers and keeps the cells beyond the length.
LEMMA ResetFacts ==
  ASSUME NEW r, IsSlice(r.q)
  PROVE  /\ IsRoot(Reset(r)) /\ Reset(r).o = NilPtr
         /\ IsSlice(Reset(r).q) /\ DOMAIN Reset(r).q.cells = DOMAIN r.q.cells
         /\ Reset(r).q.len = 0
         /\ \A i \in DOMAIN r.q.cells :
              Reset(r).q.cells[i] = IF i <= r.q.len THEN NilPtr ELSE r.q.cells[i]
<1>1. IsRoot(Reset(r)) /\ Reset(r).o = NilPtr /\ Reset(r).q = Cleared(r.q, NilPtr)
  <2> DEFINE rn == ResetItem(r.n)
             rs == [cells |-> [i \in DOMAIN r.s.cells |->
                                 IF i <= r.s.len THEN ResetItem(r.s.cells[i]) ELSE r.s.cells[i]],
                    len |-> 0]
             rq == Cleared(r.q, NilPtr)
             rl == Cleared(r.l, NoSlice)
  <2>1. Reset(r) = [ZeroRoot EXCEPT !.n = rn, !.s = rs, !.q = rq, !.l = rl]
    BY DEF Reset
  <2> HIDE DEF rn, rs, rq, rl
  <2>2. Reset(r) = [p |-> 0, n |-> rn, s |-> rs, q |-> rq, l |-> rl, m |-> <<>>, o |-> NilPtr,
                    present |-> {}]
    BY <2>1 DEF ZeroRoot
  <2> QED BY <2>2 DEF IsRoot, rq
<1>2. PICK m \in Nat : r.q.cells = [i \in 1 .. m |-> r.q.cells[i]] /\ r.q.len \in 0 .. m
  BY DEF IsSlice
<1> DEFINE c == Cleared(r.q, NilPtr)
<1>3. /\ c = [cells |-> c.cells, len |-> 0] /\ DOMAIN r.q.cells = 1 .. m
      /\ c.cells = [i \in 1 .. m |-> IF i <= r.q.len THEN NilPtr ELSE r.q.cells[i]]
  BY <1>2 DEF Cleared
<1> HIDE DEF c
<1>4. IsSlice(c)
  <2>1. c = [cells |-> c.cells, len |-> c.len] /\ c.len \in 0 .. m
    BY <1>3
  <2>2. c.cells = [i \in 1 .. m |-> c.cells[i]]
    BY <1>3
  <2> QED BY <2>1, <2>2 DEF IsSlice
<1> QED BY <1>1, <1>3, <1>4 DEF c

\* What decoding a list of pointers makes of the addresses: the ones that were
\* there, none, or new ones.
LEMMA PtrsFacts ==
  ASSUME NEW sl, IsSlice(sl), \A i \in DOMAIN sl.cells : IsPtr(sl.cells[i]),
         NEW n \in Nat, NEW v, Len(v) \in 0 .. n, nextId \in Nat
  PROVE  LET d == DecodePtrs(sl, n, v)
         IN /\ IsSlice(d)
            /\ \A i \in DOMAIN d.cells :
                 /\ IsPtr(d.cells[i])
                 /\ \/ d.cells[i].id = 0
                    \/ i \in DOMAIN sl.cells /\ d.cells[i].id = sl.cells[i].id
                    \/ i \in 1 .. Len(v) /\ d.cells[i].id = nextId + i
<1> DEFINE room == Resize(sl, n, NilPtr)
           d == DecodePtrs(sl, n, v)
<1>1. PICK m \in Nat : sl.cells = [i \in 1 .. m |-> sl.cells[i]] /\ sl.len \in 0 .. m
  BY DEF IsSlice
<1>2. IsPtr(NilPtr) /\ NilPtr.id = 0
  BY DEF IsPtr, NilPtr
<1>3. DOMAIN sl.cells = 1 .. m /\ Len(sl.cells) = m
  BY <1>1, SliceFacts
<1>4. /\ room = [cells |-> room.cells, len |-> room.len]
      /\ \E k \in Nat : /\ room.cells = [i \in 1 .. k |-> room.cells[i]] /\ room.len \in 0 .. k
                        /\ \A i \in 1 .. k : IsPtr(room.cells[i])
                        /\ \A i \in 1 .. k : \/ room.cells[i] = NilPtr
                                             \/ i \in 1 .. m /\ room.cells[i] = sl.cells[i]
  <2>0. sl = [cells |-> sl.cells, len |-> sl.len]
    BY DEF IsSlice
  <2>1. CASE n = 0 \/ m >= n
    <3> DEFINE C == sl.cells
               l == sl.len
    <3>0. sl = [cells |-> C, len |-> l] /\ Len(C) = m /\ l \in 0 .. m
      BY <1>1, <1>3, <2>0
    <3>a. room = IF n = 0 THEN sl ELSE [sl EXCEPT !.len = n]
      BY <1>3, <2>1 DEF Resize
    <3> HIDE DEF room, C, l
    <3>b. room = IF n = 0 THEN [cells |-> C, len |-> l] ELSE [cells |-> C, len |-> n]
      BY <3>0, <3>a
    <3>1. room = [cells |-> sl.cells, len |-> room.len] /\ room.len \in 0 .. m
      BY <2>1, <3>0, <3>b DEF C
    <3>2. room.cells = sl.cells
      BY <3>1
    <3> QED BY <1>1, <1>3, <3>1, <3>2
  <2>2. CASE n # 0 /\ m < n
    <3>1. room = [cells |-> [i \in 1 .. n |-> NilPtr], len |-> n]
      BY <1>3, <2>2 DEF Resize
    <3> HIDE DEF room
    <3>2. room.cells = [i \in 1 .. n |-> NilPtr] /\ room.len = n
      BY <3>1
    <3>3. \A i \in 1 .. n : room.cells[i] = NilPtr
      BY <3>2
    <3>4. room.cells = [i \in 1 .. n |-> room.cells[i]] /\ room.len \in 0 .. n
      BY <3>2, <3>3
    <3> QED BY <1>2, <3>1, <3>2, <3>3, <3>4
  <2>3. (n = 0 \/ m >= n) \/ (n # 0 /\ m < n)
    OBVIOUS
  <2> QED BY <2>1, <2>2, <2>3, Zenon
<1> HIDE DEF room
<1>5. PICK k \in Nat :
        /\ room.cells = [i \in 1 .. k |-> room.cells[i]] /\ room.len \in 0 .. k
        /\ \A i \in 1 .. k : IsPtr(room.cells[i])
        /\ \A i \in 1 .. k : \/ room.cells[i] = NilPtr
                             \/ i \in 1 .. m /\ room.cells[i] = sl.cells[i]
  BY <1>4
<1>6. /\ d = [cells |-> d.cells, len |-> d.len] /\ d.len = room.len
      /\ d.cells = [i \in 1 .. k |-> IF i <= Len(v) THEN SetPtr(room.cells[i], v[i], i)
                                                    ELSE room.cells[i]]
  <2>1. d = [room EXCEPT !.cells =
               [i \in DOMAIN @ |-> IF i <= Len(v) THEN SetPtr(@[i], v[i], i) ELSE @[i]]]
    BY DEF DecodePtrs, DecodeSlice, room
  <2> DEFINE dc == [i \in DOMAIN room.cells |->
                      IF i <= Len(v) THEN SetPtr(room.cells[i], v[i], i) ELSE room.cells[i]]
  <2>2. d = [room EXCEPT !.cells = dc]
    BY <2>1
  <2>3. DOMAIN room.cells = 1 .. k
    BY <1>5
  <2>4. dc = [i \in 1 .. k |-> IF i <= Len(v) THEN SetPtr(room.cells[i], v[i], i)
                                               ELSE room.cells[i]]
    BY <2>3
  <2> HIDE DEF dc, d
  <2>5. d = [cells |-> dc, len |-> room.len]
    BY <1>4, <2>2
  <2> QED BY <2>4, <2>5
<1> HIDE DEF d
<1>7. ASSUME NEW c, IsPtr(c), NEW e, NEW i \in Nat
      PROVE  /\ IsPtr(SetPtr(c, e, i))
             /\ SetPtr(c, e, i).id \in {0, c.id, nextId + i}
  <2> DEFINE it == UnmarshalItem(ZeroItem, e.body)
             jt == UnmarshalItem(ResetItem(c.item), e.body)
  <2>1. SetPtr(c, e, i) = IF e.nil THEN NilPtr
                          ELSE IF c.id = 0 THEN [id |-> nextId + i, item |-> it]
                          ELSE [c EXCEPT !.item = jt]
    BY DEF SetPtr
  <2> HIDE DEF it, jt
  <2>2. nextId + i \in Nat
    OBVIOUS
  <2>3. [c EXCEPT !.item = jt] = [id |-> c.id, item |-> jt] /\ c.id \in Nat
    BY <1>7 DEF IsPtr
  <2>4. SetPtr(c, e, i) \in {NilPtr, [id |-> nextId + i, item |-> it], [id |-> c.id, item |-> jt]}
    BY <2>1, <2>3
  <2> QED BY <1>2, <2>2, <2>3, <2>4 DEF IsPtr
<1>8. IsSlice(d) /\ DOMAIN d.cells = 1 .. k
  BY <1>5, <1>6 DEF IsSlice
<1>9. ASSUME NEW i \in 1 .. k
      PROVE  /\ IsPtr(d.cells[i])
             /\ \/ d.cells[i].id = 0
                \/ i \in 1 .. m /\ d.cells[i].id = sl.cells[i].id
                \/ i \in 1 .. Len(v) /\ d.cells[i].id = nextId + i
  <2> DEFINE c == room.cells[i]
  <2>1. IsPtr(c) /\ (c.id = 0 \/ (i \in 1 .. m /\ c.id = sl.cells[i].id))
    BY <1>2, <1>5
  <2>2. d.cells[i] = IF i <= Len(v) THEN SetPtr(c, v[i], i) ELSE c
    BY <1>6
  <2> HIDE DEF c
  <2>3. CASE i <= Len(v)
    <3>1. /\ IsPtr(d.cells[i])
          /\ d.cells[i].id \in {0, c.id, nextId + i}
      BY <1>7, <2>1, <2>2, <2>3
    <3> QED BY <2>1, <2>3, <3>1
  <2>4. CASE ~(i <= Len(v))
    BY <2>1, <2>2, <2>4
  <2> QED BY <2>3, <2>4
<1> QED BY <1>3, <1>8, <1>9 DEF d

-----------------------------------------------------------------------------
(* The invariant is kept.                                                  *)

\* A place of r has the address it has in dst, or none.
Kept(r, i) == At(r, i).id = 0 \/ (i \in Places(dst) /\ At(r, i).id = At(dst, i).id)

\* The pointers of a receiver that takes the place of dst, with m addresses given
\* out at most: each has its old address, none, or a new one of its own.
LEMMA Replaced ==
  ASSUME Types, Owned, Apart, phase = "decode", NEW r, IsRoot(r), IsSlice(r.q),
         \A i \in Places(r) : IsPtr(At(r, i)), NEW m \in Nat,
         dst' = r, nextId' = nextId + m, phase' \in {"decode", "failed"},
         UNCHANGED <<fields, held>>,
         NEW new, \A i \in Places(r) : new[i] \in 1 .. m,
         \A i \in Places(r) : Kept(r, i) \/ At(r, i).id = nextId + new[i],
         \A i, j \in Places(r) : i # j => Kept(r, i) \/ Kept(r, j) \/ new[i] # new[j]
  PROVE  IInv'
<1>1. nextId \in Nat /\ nextId' \in Nat
  BY DEF Types
<1>2. Types'
  BY <1>1 DEF Types
<1>3. ASSUME NEW i \in Places(r)
      PROVE  /\ At(r, i).id \in Nat /\ At(r, i).id <= nextId'
             /\ \A h \in held : At(r, i).id # h.id
  <2>1. At(r, i).id \in Nat /\ new[i] \in 1 .. m
    BY DEF IsPtr
  <2>2. \A h \in held : h.id \in Nat /\ h.id # 0 /\ h.id <= nextId
    BY DEF Types, Owned, IsPtr
  <2>3. CASE At(r, i).id = 0
    BY <1>1, <2>2, <2>3
  <2>4. CASE i \in Places(dst) /\ At(r, i).id = At(dst, i).id
    <3>1. At(dst, i).id <= nextId /\ \A h \in held : At(dst, i).id # h.id
      BY <2>4 DEF Owned, Apart
    <3> QED BY <1>1, <2>1, <2>4, <3>1
  <2>5. CASE At(r, i).id = nextId + new[i]
    <3>1. nextId < At(r, i).id /\ At(r, i).id <= nextId'
      BY <1>1, <2>1, <2>5
    <3> QED BY <1>1, <2>1, <2>2, <3>1
  <2> QED BY <2>3, <2>4, <2>5 DEF Kept
<1>4. ASSUME NEW i \in Places(r), NEW j \in Places(r), At(r, i).id = At(r, j).id, At(r, i).id # 0, i # j
      PROVE  FALSE
  <2>1. /\ new[i] \in 1 .. m /\ new[j] \in 1 .. m
        /\ \A k \in Places(dst) : At(dst, k).id \in Nat /\ At(dst, k).id <= nextId
    BY DEF Types, IsPtr, Owned
  <2>2. ASSUME NEW k \in Places(r), At(r, k).id # 0, Kept(r, k)
        PROVE  k \in Places(dst) /\ At(r, k).id = At(dst, k).id /\ At(r, k).id <= nextId
    BY <2>1, <2>2 DEF Kept
  <2>3. ASSUME NEW k \in Places(r), ~Kept(r, k) PROVE nextId < At(r, k).id
    <3>1. At(r, k).id = nextId + new[k] /\ new[k] \in 1 .. m
      BY <2>3
    <3> DEFINE x == new[k]
    <3> HIDE DEF x
    <3>2. At(r, k).id = nextId + x /\ x \in 1 .. m
      BY <3>1 DEF x
    <3> QED BY <1>1, <3>2
  <2>4. CASE Kept(r, i) /\ Kept(r, j)
    BY <1>4, <2>2, <2>4 DEF Owned
  <2>5. CASE Kept(r, i) /\ ~Kept(r, j)
    <3>1. At(r, i).id <= nextId /\ nextId < At(r, i).id /\ At(r, i).id \in Nat
      BY <1>3, <1>4, <2>2, <2>3, <2>5
    <3> QED BY <1>1, <3>1
  <2>6. CASE ~Kept(r, i) /\ Kept(r, j)
    <3>1. At(r, j).id <= nextId /\ nextId < At(r, j).id /\ At(r, j).id \in Nat
      BY <1>3, <1>4, <2>2, <2>3, <2>6
    <3> QED BY <1>1, <3>1
  <2>7. CASE ~Kept(r, i) /\ ~Kept(r, j)
    <3> DEFINE x == new[i]
               y == new[j]
    <3>1. x # y /\ At(r, i).id = nextId + x /\ At(r, j).id = nextId + y
      BY <1>4, <2>7
    <3>2. x \in Nat /\ y \in Nat
      BY <2>1
    <3> HIDE DEF x, y
    <3>3. nextId + x = nextId + y
      BY <1>4, <3>1
    <3> QED BY <1>1, <3>1, <3>2, <3>3
  <2> QED BY <2>4, <2>5, <2>6, <2>7
<1>5. \A h \in held : h.id # 0 /\ h.id <= nextId'
  BY <1>1 DEF Types, IsPtr, Owned
<1>6. Owned' /\ Apart' /\ Shown'
  BY <1>3, <1>4, <1>5 DEF Owned, Apart, Shown
<1> QED BY <1>2, <1>6 DEF IInv

\* A field occurrence, decoded to its end or not.
LEMMA FieldKeeps ==
  ASSUME IInv, phase = "decode", NEW f \in FieldNames, NEW w, NEW n,
         f = "q" => n \in Nat /\ Len(w) \in 0 .. n /\ Len(w) \in 0 .. MaxLen,
         NEW r, IsRoot(r), r.q = Decode(dst, f, w, n).q, r.o = Decode(dst, f, w, n).o,
         dst' = r, nextId' = nextId + MaxLen, phase' \in {"decode", "failed"},
         UNCHANGED <<fields, held>>
  PROVE  IInv'
<1> DEFINE new == [i \in Places(r) |-> IF f = "q" /\ i \in 1 .. MaxLen THEN i ELSE 1]
<1>1. Types /\ Owned /\ Apart /\ nextId \in Nat /\ IsRoot(dst) /\ IsSlice(dst.q)
  BY DEF IInv, Types
<1>2. MaxLen \in Nat /\ 1 \in 1 .. MaxLen
  BY ReceiverAssumption
<1>3. /\ r.q = IF f = "q" THEN DecodePtrs(dst.q, n, w) ELSE dst.q
      /\ r.o = IF f = "o" /\ w # <<>> THEN NewPtr(w[1]) ELSE dst.o
  BY <1>1, DecodeFacts
<1>4. IsPtr(dst.o) /\ \A i \in DOMAIN dst.q.cells : IsPtr(dst.q.cells[i])
  <2>1. DOMAIN dst.q.cells \subseteq Nat \ {0}
    BY <1>1, SliceFacts
  <2>2. \A i \in Places(dst) : IsPtr(At(dst, i))
    BY <1>1 DEF Types
  <2> QED BY <2>1, <2>2 DEF Places, At
<1>5. /\ IsSlice(r.q)
      /\ \A i \in DOMAIN r.q.cells :
           /\ IsPtr(r.q.cells[i])
           /\ \/ r.q.cells[i].id = 0
              \/ i \in DOMAIN dst.q.cells /\ r.q.cells[i].id = dst.q.cells[i].id
              \/ f = "q" /\ i \in 1 .. MaxLen /\ r.q.cells[i].id = nextId + i
  <2>1. CASE f = "q"
    <3>1. r.q = DecodePtrs(dst.q, n, w) /\ n \in Nat /\ Len(w) \in 0 .. n /\ Len(w) \in 0 .. MaxLen
      BY <1>3, <2>1
    <3>2. /\ IsSlice(DecodePtrs(dst.q, n, w))
          /\ \A i \in DOMAIN DecodePtrs(dst.q, n, w).cells :
               /\ IsPtr(DecodePtrs(dst.q, n, w).cells[i])
               /\ \/ DecodePtrs(dst.q, n, w).cells[i].id = 0
                  \/ i \in DOMAIN dst.q.cells /\ DecodePtrs(dst.q, n, w).cells[i].id = dst.q.cells[i].id
                  \/ i \in 1 .. Len(w) /\ DecodePtrs(dst.q, n, w).cells[i].id = nextId + i
      BY <1>1, <1>4, <3>1, PtrsFacts
    <3>3. \A i \in 1 .. Len(w) : i \in 1 .. MaxLen
      BY <1>2, <3>1
    <3> QED BY <2>1, <3>1, <3>2, <3>3
  <2>2. CASE f # "q"
    BY <1>1, <1>3, <1>4, <2>2
  <2> QED BY <2>1, <2>2
<1>6. /\ IsPtr(r.o)
      /\ r.o.id \in {0, dst.o.id} \/ (f = "o" /\ r.o.id = nextId + 1)
  <2>1. ASSUME NEW e
        PROVE  IsPtr(NewPtr(e)) /\ NewPtr(e).id \in {0, nextId + 1}
    <3> DEFINE it == UnmarshalItem(ZeroItem, e.body)
    <3>1. NewPtr(e) \in {NilPtr, [id |-> nextId + 1, item |-> it]}
      BY DEF NewPtr
    <3> HIDE DEF it
    <3>2. NilPtr.id = 0 /\ IsPtr(NilPtr)
      BY DEF NilPtr, IsPtr
    <3> QED BY <1>1, <3>1, <3>2 DEF IsPtr
  <2>2. CASE f = "o" /\ w # <<>>
    BY <1>3, <2>1, <2>2
  <2>3. CASE ~(f = "o" /\ w # <<>>)
    BY <1>3, <1>4, <2>3
  <2> QED BY <2>2, <2>3
<1>7. DOMAIN r.q.cells \subseteq Nat \ {0}
  BY <1>5, SliceFacts
<1>8. \A i \in Places(r) : new[i] \in 1 .. MaxLen
  BY <1>2
<1>a. ASSUME NEW i \in Places(r) PROVE IsPtr(At(r, i))
  BY <1>5, <1>6, <1>7 DEF Places, At
<1>9. ASSUME NEW i \in Places(r)
      PROVE  /\ \/ At(r, i).id = 0
                \/ i \in Places(dst) /\ At(r, i).id = At(dst, i).id
                \/ /\ At(r, i).id = nextId + new[i]
                   /\ IF i = 0 THEN f = "o" ELSE f = "q" /\ new[i] = i
  <2>1. CASE i = 0
    <3>1. At(r, i) = r.o /\ At(dst, i) = dst.o /\ i \in Places(dst) /\ new[i] = 1
      BY <2>1, <1>2 DEF At, Places
    <3> QED BY <1>6, <2>1, <3>1
  <2>2. CASE i # 0
    <3>1. i \in DOMAIN r.q.cells /\ At(r, i) = r.q.cells[i] /\ At(dst, i) = dst.q.cells[i]
      BY <2>2 DEF At, Places
    <3>2. i \in DOMAIN dst.q.cells => i \in Places(dst)
      BY DEF Places
    <3>3. f = "q" /\ i \in 1 .. MaxLen => new[i] = i
      OBVIOUS
    <3> HIDE DEF new
    <3> QED BY <1>5, <2>2, <3>1, <3>2, <3>3
  <2> QED BY <2>1, <2>2
<1>10. \A i \in Places(r) : Kept(r, i) \/ At(r, i).id = nextId + new[i]
  BY <1>9 DEF Kept
<1>11. \A i, j \in Places(r) : i # j => Kept(r, i) \/ Kept(r, j) \/ new[i] # new[j]
  <2> HIDE DEF new
  <2> QED BY <1>9 DEF Kept
<1>12. PICK nw : nw = new
  OBVIOUS
<1> HIDE DEF new
<1>13. /\ \A i \in Places(r) : nw[i] \in 1 .. MaxLen
       /\ \A i \in Places(r) : Kept(r, i) \/ At(r, i).id = nextId + nw[i]
       /\ \A i, j \in Places(r) : i # j => Kept(r, i) \/ Kept(r, j) \/ nw[i] # nw[j]
  BY <1>8, <1>10, <1>11, <1>12
<1>14. \A i \in Places(r) : IsPtr(At(r, i))
  BY <1>a
<1> QED BY <1>1, <1>2, <1>5, <1>13, <1>14, Replaced

\* The lists of pointers on the wire.
LEMMA ListLengths ==
  ASSUME NEW v \in Contents("q")
  PROVE  /\ Len(v) \in 0 .. MaxLen
         /\ \A k \in Nat : k < Len(v) => Len(SubSeq(v, 1, k)) = k
<1>1. v \in SeqOf(PtrMsgs, MaxLen) /\ MaxLen \in Nat
  BY ReceiverAssumption DEF Contents
<1>2. PICK m \in 0 .. MaxLen : v \in [1 .. m -> PtrMsgs]
  BY <1>1 DEF SeqOf
<1>3. v \in Seq(PtrMsgs) /\ Len(v) = m
  BY <1>1, <1>2
<1> QED BY <1>1, <1>3

\* The zero receiver, and every step, has its pointers apart from the held ones.
LEMMA ReceiverInit == Init => IInv
<1> SUFFICES ASSUME Init PROVE IInv
  OBVIOUS
<1>1. /\ fields \in FieldSets /\ dst = ZeroRoot /\ phase = "idle" /\ held = {} /\ nextId = 0
  BY DEF Init
<1>2. IsRoot(ZeroRoot) /\ ZeroRoot.q = NoSlice /\ ZeroRoot.o = NilPtr
  BY DEF IsRoot, ZeroRoot
<1>3. NoSlice.cells = <<>> /\ NoSlice.len = 0 /\ NoSlice = [cells |-> NoSlice.cells, len |-> NoSlice.len]
  BY DEF NoSlice
<1>4. IsSlice(NoSlice) /\ DOMAIN NoSlice.cells = {}
  <2>0. PICK m \in Nat : m = 0
    OBVIOUS
  <2>1. NoSlice.cells = [i \in 1 .. m |-> NoSlice.cells[i]] /\ DOMAIN NoSlice.cells = {}
    BY <1>3, <2>0
  <2>2. NoSlice.len \in 0 .. m
    BY <1>3, <2>0
  <2> QED BY <1>3, <2>1, <2>2 DEF IsSlice
<1>5. IsPtr(NilPtr) /\ NilPtr.id = 0
  BY DEF IsPtr, NilPtr
<1>6. Places(dst) = {0} /\ At(dst, 0) = NilPtr
  BY <1>1, <1>2, <1>4 DEF Places, At
<1> QED BY <1>1, <1>2, <1>4, <1>5, <1>6 DEF IInv, Types, Owned, Apart, Shown

\* DecodeInto's Reset drops every pointer a caller holds.
LEMMA DecodeIntoKeeps == ASSUME IInv, DecodeInto PROVE IInv'
<1>1. /\ phase # "decode" /\ phase' = "decode" /\ dst' = Reset(dst) /\ UNCHANGED <<fields, held, nextId>>
  BY DEF DecodeInto
<1>2. Types /\ Owned /\ Apart /\ Shown /\ IsSlice(dst.q)
  BY DEF IInv, Types
<1> DEFINE r == Reset(dst)
<1>3. /\ IsRoot(r) /\ r.o = NilPtr /\ IsSlice(r.q) /\ DOMAIN r.q.cells = DOMAIN dst.q.cells
      /\ r.q.len = 0
      /\ \A i \in DOMAIN dst.q.cells :
           r.q.cells[i] = IF i <= dst.q.len THEN NilPtr ELSE dst.q.cells[i]
  BY <1>2, ResetFacts
<1>4. IsPtr(NilPtr) /\ NilPtr.id = 0
  BY DEF IsPtr, NilPtr
<1> HIDE DEF r
<1>5. Places(r) = Places(dst) /\ DOMAIN dst.q.cells \subseteq Nat \ {0}
  BY <1>2, <1>3, SliceFacts DEF Places
<1>6. ASSUME NEW i \in Places(r) PROVE At(r, i) = NilPtr \/ (At(r, i) = At(dst, i) /\ ~(i <= dst.q.len))
  <2>1. CASE i = 0
    BY <1>3, <2>1 DEF At
  <2>2. CASE i # 0
    BY <1>3, <1>5, <2>2 DEF At, Places
  <2> QED BY <2>1, <2>2
<1>7. nextId \in Nat /\ \A h \in held : h.id # 0
  BY <1>2 DEF Types, Owned
<1>8. Types'
  <2>1. \A i \in Places(r) : IsPtr(At(r, i))
    BY <1>2, <1>4, <1>5, <1>6 DEF Types
  <2> QED BY <1>1, <1>2, <1>3, <2>1 DEF Types, r
<1>9. \A i \in Places(r) : At(r, i).id <= nextId
  BY <1>2, <1>4, <1>5, <1>6, <1>7 DEF Owned
<1>10. \A i, j \in Places(r) : At(r, i).id = At(r, j).id /\ At(r, i).id # 0 => i = j
  BY <1>2, <1>4, <1>5, <1>6 DEF Owned
<1>11. \A h \in held : \A i \in Places(r) : At(r, i).id # h.id
  <2> SUFFICES ASSUME NEW h \in held, NEW i \in Places(r), At(r, i).id = h.id PROVE FALSE
    OBVIOUS
  <2>1. At(r, i) = At(dst, i) /\ ~(i <= dst.q.len) /\ i \in Places(dst)
    BY <1>4, <1>5, <1>6, <1>7
  <2>2. phase \in {"idle", "ok", "failed"}
    BY <1>1, <1>2 DEF Types
  <2> QED BY <1>2, <2>1, <2>2 DEF Apart, Shown
<1>12. Owned'
  BY <1>1, <1>2, <1>9, <1>10 DEF Owned, r
<1>13. Apart' /\ Shown'
  BY <1>1, <1>11 DEF Apart, Shown, r
<1> QED BY <1>8, <1>12, <1>13 DEF IInv

\* A finished decode shows its pointers to the caller.
LEMMA DoneKeeps == ASSUME IInv, Done PROVE IInv'
<1> DEFINE taken == {c \in Range(Visible(dst.q)) \cup {dst.o} : c.id # 0}
<1>1. /\ phase = "decode" /\ phase' = "ok" /\ held' = held \cup taken
      /\ UNCHANGED <<fields, dst, nextId>>
  BY DEF Done
<1>2. Types /\ Owned /\ Apart
  BY DEF IInv
<1>3. /\ DOMAIN dst.q.cells = 1 .. Len(dst.q.cells) /\ Len(dst.q.cells) \in Nat
      /\ dst.q.len \in 0 .. Len(dst.q.cells)
      /\ Range(Visible(dst.q)) = {dst.q.cells[i] : i \in 1 .. dst.q.len}
  BY <1>2, SliceFacts DEF Types
<1>4. ASSUME NEW c \in taken
      PROVE  \E j \in Places(dst) : c = At(dst, j) /\ j <= dst.q.len /\ c.id # 0
  <2>1. CASE c = dst.o
    <3>1. 0 \in Places(dst) /\ At(dst, 0) = c /\ 0 <= dst.q.len
      BY <1>3, <2>1 DEF Places, At
    <3> QED BY <3>1
  <2>2. CASE c \in Range(Visible(dst.q))
    <3>1. PICK j \in 1 .. dst.q.len : c = dst.q.cells[j]
      BY <1>3, <2>2
    <3>2. j \in 1 .. Len(dst.q.cells) /\ j # 0 /\ j <= dst.q.len
      BY <1>3
    <3>3. j \in Places(dst) /\ At(dst, j) = c
      BY <1>3, <3>1, <3>2 DEF Places, At
    <3> QED BY <3>2, <3>3
  <2> QED BY <2>1, <2>2
<1> HIDE DEF taken
<1>5. Types'
  <2>1. \A h \in taken : IsPtr(h)
    BY <1>2, <1>4 DEF Types
  <2> QED BY <1>1, <1>2, <2>1 DEF Types
<1>6. Owned'
  <2>1. \A h \in taken : h.id # 0 /\ h.id <= nextId
    BY <1>2, <1>4 DEF Owned
  <2> QED BY <1>1, <1>2, <2>1 DEF Owned
<1>7. \A h \in held : \A i \in Places(dst) : At(dst, i).id # h.id
  BY <1>1, <1>2 DEF Apart
<1>8. ASSUME NEW h \in taken, NEW i \in Places(dst), At(dst, i).id = h.id
      PROVE  At(dst, i).item = h.item /\ i <= dst.q.len
  <2>1. PICK j \in Places(dst) : h = At(dst, j) /\ j <= dst.q.len /\ h.id # 0
    BY <1>4
  <2>2. i = j
    BY <1>2, <1>8, <2>1 DEF Owned
  <2> QED BY <2>1, <2>2
<1>9. Apart' /\ Shown'
  BY <1>1, <1>7, <1>8 DEF Apart, Shown
<1> QED BY <1>5, <1>6, <1>9 DEF IInv

\* Every step keeps the invariant.
LEMMA ReceiverStep == IInv /\ [Next]_vars => IInv'
<1> SUFFICES ASSUME IInv, [Next]_vars PROVE IInv'
  OBVIOUS
<1>1. CASE DecodeInto
  BY <1>1, DecodeIntoKeeps
<1>2. ASSUME NEW f \in fields, NEW v \in Contents(f), Field(f, v) PROVE IInv'
  <2>1. f \in FieldNames /\ IsRoot(dst)
    BY ReceiverAssumption DEF IInv, Types
  <2> DEFINE d == Decode(dst, f, v, Len(v))
             r == Seen(d, f)
  <2>2. /\ phase = "decode" /\ dst' = r /\ nextId' = nextId + MaxLen /\ phase' = "decode"
        /\ UNCHANGED <<fields, held>>
    BY <1>2 DEF Field
  <2>3. IsRoot(d)
    BY <2>1, DecodeFacts
  <2> HIDE DEF d
  <2>4. IsRoot(r) /\ r.q = d.q /\ r.o = d.o
    BY <2>3, SeenFacts
  <2>5. f = "q" => Len(v) \in Nat /\ Len(v) \in 0 .. Len(v) /\ Len(v) \in 0 .. MaxLen
    BY ListLengths
  <2> HIDE DEF r
  <2> QED BY <2>1, <2>2, <2>4, <2>5, FieldKeeps DEF d
<1>3. ASSUME NEW f \in fields, NEW v \in Contents(f), NEW k \in 0 .. MaxLen, FailInside(f, v, k)
      PROVE  IInv'
  <2>1. f \in FieldNames /\ IsRoot(dst)
    BY ReceiverAssumption DEF IInv, Types
  <2> DEFINE w == SubSeq(v, 1, k)
             d == Decode(dst, f, w, Len(v))
  <2>2. /\ phase = "decode" /\ dst' = d /\ nextId' = nextId + MaxLen /\ phase' = "failed"
        /\ UNCHANGED <<fields, held>> /\ k < Len(v)
    BY <1>3 DEF FailInside
  <2>3. IsRoot(d)
    BY <2>1, DecodeFacts
  <2>4. f = "q" => Len(v) \in Nat /\ Len(w) \in 0 .. Len(v) /\ Len(w) \in 0 .. MaxLen
    <3> SUFFICES ASSUME f = "q"
                 PROVE  Len(v) \in Nat /\ Len(w) \in 0 .. Len(v) /\ Len(w) \in 0 .. MaxLen
      OBVIOUS
    <3>1. MaxLen \in Nat
      BY ReceiverAssumption
    <3>2. Len(v) \in 0 .. MaxLen /\ Len(w) = k
      BY <2>2, <3>1, ListLengths
    <3> HIDE DEF w
    <3> QED BY <2>2, <3>1, <3>2
  <2> HIDE DEF w
  <2>5. d.q = Decode(dst, f, w, Len(v)).q /\ d.o = Decode(dst, f, w, Len(v)).o
    OBVIOUS
  <2> HIDE DEF d
  <2> QED BY <2>1, <2>2, <2>3, <2>4, <2>5, FieldKeeps
<1>4. CASE FailHere
  <2>1. phase = "decode" /\ phase' = "failed" /\ UNCHANGED <<fields, dst, held, nextId>>
    BY <1>4 DEF FailHere
  <2> QED BY <2>1 DEF IInv, Types, Owned, Apart, Shown
<1>5. CASE Done
  BY <1>5, DoneKeeps
<1>6. CASE UNCHANGED vars
  <2>1. UNCHANGED <<fields, dst, phase, held, nextId>>
    BY <1>6 DEF vars
  <2> QED BY <2>1 DEF IInv, Types, Owned, Apart, Shown
<1> QED BY <1>1, <1>2, <1>3, <1>4, <1>5, <1>6 DEF Next

\* For any item bodies, field sets and numbers of decodes: what a caller took from a
\* pooled receiver is never written by a later decode into it, whether that one
\* succeeds or breaks off inside a field, and however often a tag repeats.
THEOREM HeldPointersKept == Spec => []HeldPointersStable
<1>1. IInv => HeldPointersStable
  <2> SUFFICES ASSUME IInv, NEW h \in held, NEW c \in Range(dst.q.cells) \cup {dst.o}, c.id = h.id
               PROVE  c.item = h.item
    BY DEF HeldPointersStable
  <2>1. DOMAIN dst.q.cells \subseteq Nat \ {0}
    BY SliceFacts DEF IInv, Types
  <2>2. \E i \in Places(dst) : c = At(dst, i)
    <3>1. CASE c = dst.o
      <4>1. 0 \in Places(dst) /\ At(dst, 0) = c
        BY <3>1 DEF Places, At
      <4> QED BY <4>1
    <3>2. CASE c \in Range(dst.q.cells)
      <4>1. PICK j \in DOMAIN dst.q.cells : c = dst.q.cells[j]
        BY <3>2 DEF Range
      <4>2. j \in Places(dst) /\ At(dst, j) = c
        BY <2>1, <4>1 DEF Places, At
      <4> QED BY <4>2
    <3> QED BY <3>1, <3>2
  <2> QED BY <2>2 DEF IInv, Types, Apart, Shown
<1> QED BY <1>1, ReceiverInit, ReceiverStep, PTL DEF Spec

-----------------------------------------------------------------------------
(* Induction, with the hypothesis as a set: the least counterexample.      *)

\* A set of naturals that is not empty has a least element.
LEMMA Least ==
  ASSUME NEW T, T \subseteq Nat, T # {}
  PROVE  \E n \in T : \A m \in T : n <= m
<1> DEFINE R == {p \in Nat \X Nat : p[1] < p[2]}
<1>1. IsWellFoundedOn(R, Nat)
  BY NatLessThanWellFounded DEF OpToRel
<1>2. PICK n \in T : \A m \in T : ~(<<m, n>> \in R)
  <2> HIDE DEF R
  <2> QED BY <1>1, WFMin
<1>3. ASSUME NEW m \in T PROVE n <= m
  <2>1. m \in Nat /\ n \in Nat /\ <<m, n>> \in Nat \X Nat /\ <<m, n>>[1] = m /\ <<m, n>>[2] = n
    OBVIOUS
  <2>2. ~(m < n)
    BY <1>2, <2>1
  <2> QED BY <2>1, <2>2
<1> QED BY <1>3

\* Induction from n to n + 1.
LEMMA Induct ==
  ASSUME NEW T, 0 \in T, \A n \in Nat : n \in T => n + 1 \in T
  PROVE  Nat \subseteq T
<1> SUFFICES ASSUME Nat \ T # {} PROVE FALSE
  OBVIOUS
<1>1. PICK n \in Nat \ T : \A m \in Nat \ T : n <= m
  BY Least
<1>2. n # 0 /\ n - 1 \in Nat /\ n - 1 \notin Nat \ T
  BY <1>1
<1> QED BY <1>2

-----------------------------------------------------------------------------
(* UnmarshalItem, occurrence by occurrence.                                *)

\* The largest of a set of indices that holds n + 1 and no larger one.
LEMMA MaxLast ==
  ASSUME NEW n \in Nat, NEW S, S \subseteq 1 .. n + 1, n + 1 \in S
  PROVE  Max(S) = n + 1 /\ S \ {n + 1} \subseteq 1 .. n
<1>1. \A y \in S : n + 1 >= y
  OBVIOUS
<1>2. \A x \in S : (\A y \in S : x >= y) => x = n + 1
  OBVIOUS
<1>3. Max(S) = n + 1
  BY <1>1, <1>2 DEF Max
<1> QED BY <1>3

\* The function FoldLeft iterates over the sets of indices of the body s, from
\* the item b.
Iterates(g, b, s, n) ==
  g = [S \in SUBSET (1 .. n) |->
         IF S = {} THEN b ELSE ItemField(g[S \ {Max(S)}], s[Max(S)])]

\* There is such a function.
LEMMA IteratesExists ==
  ASSUME NEW b, NEW s, NEW N \in Nat
  PROVE  \E g : Iterates(g, b, s, N)
<1> DEFINE T == {n \in Nat : \E g : Iterates(g, b, s, n)}
<1>1. 0 \in T
  <2>1. Iterates([S \in SUBSET (1 .. 0) |-> b], b, s, 0)
    BY DEF Iterates
  <2> QED BY <2>1
<1>2. ASSUME NEW n \in Nat, n \in T PROVE n + 1 \in T
  <2>1. PICK g : Iterates(g, b, s, n)
    BY <1>2
  <2> DEFINE D == SUBSET (1 .. n + 1)
             h == [S \in D |-> IF n + 1 \in S THEN ItemField(g[S \ {n + 1}], s[n + 1]) ELSE g[S]]
             hh == [S \in D |-> IF S = {} THEN b ELSE ItemField(h[S \ {Max(S)}], s[Max(S)])]
  <2>2. ASSUME NEW S \in D PROVE h[S] = hh[S]
    <3>1. CASE n + 1 \in S
      <4>1. Max(S) = n + 1 /\ S \ {n + 1} \in D /\ n + 1 \notin S \ {n + 1}
        BY <3>1, MaxLast
      <4>2. h[S \ {n + 1}] = g[S \ {n + 1}]
        BY <4>1
      <4> QED BY <3>1, <4>1, <4>2
    <3>2. CASE n + 1 \notin S
      <4>1. S \in SUBSET (1 .. n)
        <5>1. S \subseteq 1 .. n + 1
          OBVIOUS
        <5>2. \A x \in S : x \in 1 .. n
          BY <5>1, <3>2
        <5> QED BY <5>2
      <4>2. S \ {Max(S)} \in D /\ n + 1 \notin S \ {Max(S)}
        BY <3>2
      <4>3. g[S] = IF S = {} THEN b ELSE ItemField(g[S \ {Max(S)}], s[Max(S)])
        BY <4>1, <2>1 DEF Iterates
      <4>4. h[S] = g[S] /\ h[S \ {Max(S)}] = g[S \ {Max(S)}]
        BY <4>1, <4>2, <3>2
      <4> QED BY <4>3, <4>4
    <3> QED BY <3>1, <3>2
  <2>3. h = hh
    BY <2>2
  <2>4. Iterates(h, b, s, n + 1)
    BY <2>3, Zenon DEF Iterates
  <2> HIDE DEF h
  <2> QED BY <2>4
<1> HIDE DEF T
<1>3. N \in T
  BY <1>1, <1>2, Induct
<1> QED BY <1>3 DEF T

\* A decode is the end of the chain of the items it goes through.
Chain(t, b, s, n) == t[0] = b /\ \A k \in 1 .. n : t[k] = ItemField(t[k - 1], s[k])

Bare(it) == [it EXCEPT !.present = {}]

\* UnmarshalItem is the end of its chain.
LEMMA ItemChain ==
  ASSUME NEW it, NEW s, NEW n \in Nat, DOMAIN s = 1 .. n
  PROVE  \E t : Chain(t, Bare(it), s, n) /\ t[n] = UnmarshalItem(it, s)
<1> DEFINE b == Bare(it)
           g == CHOOSE h : Iterates(h, b, s, n)
<1>1. Iterates(g, b, s, n)
  BY IteratesExists
<1>2. UnmarshalItem(it, s) = g[1 .. n]
  BY Zenon DEF UnmarshalItem, FoldLeft, MapThenFoldSet, Iterates, Bare
<1> HIDE DEF g, b
<1> DEFINE t == [k \in 0 .. n |-> g[1 .. k]]
<1>3. t[0] = b
  <2>1. g[{}] = b
    BY <1>1 DEF Iterates
  <2> QED BY <2>1
<1>4. ASSUME NEW k \in 1 .. n PROVE t[k] = ItemField(t[k - 1], s[k])
  <2>1. /\ k - 1 \in Nat /\ (k - 1) + 1 = k /\ k \in 1 .. k
        /\ (1 .. k) \ {k} = 1 .. k - 1 /\ 1 .. k # {} /\ 1 .. k \in SUBSET (1 .. n)
    OBVIOUS
  <2>2. Max(1 .. k) = k
    <3>1. Max(1 .. k) = (k - 1) + 1
      BY <2>1, MaxLast
    <3> QED BY <2>1, <3>1
  <2>3. g[1 .. k] = ItemField(g[(1 .. k) \ {Max(1 .. k)}], s[Max(1 .. k)])
    BY <1>1, <2>1 DEF Iterates
  <2>4. t[k] = g[1 .. k] /\ t[k - 1] = g[1 .. k - 1]
    OBVIOUS
  <2> QED BY <2>1, <2>2, <2>3, <2>4
<1>5. t[n] = UnmarshalItem(it, s)
  BY <1>2
<1>6. Chain(t, b, s, n)
  BY <1>3, <1>4, Zenon DEF Chain
<1> HIDE DEF t
<1> QED BY <1>5, <1>6 DEF b

-----------------------------------------------------------------------------
(* Slices.                                                                 *)

\* What can be seen of a slice.
LEMMA VisibleIs ==
  ASSUME NEW sl, IsSlice(sl)
  PROVE  Visible(sl) = [i \in 1 .. sl.len |-> sl.cells[i]]
<1>1. PICK m \in Nat : sl.cells = [i \in 1 .. m |-> sl.cells[i]] /\ sl.len \in 0 .. m
  BY DEF IsSlice
<1> DEFINE C == sl.cells
           P == {C[i] : i \in 1 .. m}
<1>2. C \in Seq(P) /\ Len(C) = m
  <2> HIDE DEF C
  <2>1. C = [i \in 1 .. m |-> C[i]]
    BY <1>1 DEF C
  <2> QED BY <2>1
<1> HIDE DEF C, P
<1>3. SubSeq(C, 1, sl.len) = [i \in 1 .. sl.len |-> C[i]]
  BY <1>1, <1>2
<1> QED BY <1>3 DEF Visible, C

\* No slice at all.
LEMMA NoSliceFacts == IsSlice(NoSlice) /\ NoSlice.len = 0 /\ DOMAIN NoSlice.cells = {}
<1>1. NoSlice.cells = <<>> /\ NoSlice.len = 0 /\ NoSlice = [cells |-> NoSlice.cells, len |-> NoSlice.len]
  BY DEF NoSlice
<1>2. PICK m \in Nat : m = 0
  OBVIOUS
<1>3. NoSlice.cells = [i \in 1 .. m |-> NoSlice.cells[i]] /\ DOMAIN NoSlice.cells = {}
  BY <1>1, <1>2
<1>4. NoSlice.len \in 0 .. m
  BY <1>1, <1>2
<1> QED BY <1>1, <1>3, <1>4 DEF IsSlice

\* A slice of a new length over the same cells.
LEMMA Relength ==
  ASSUME NEW sl, IsSlice(sl), NEW l \in 0 .. Len(sl.cells)
  PROVE  LET d == [sl EXCEPT !.len = l]
         IN IsSlice(d) /\ d.len = l /\ d.cells = sl.cells
<1>1. PICK m \in Nat : sl.cells = [i \in 1 .. m |-> sl.cells[i]] /\ sl.len \in 0 .. m
  BY DEF IsSlice
<1>2. Len(sl.cells) = m
  <2>1. DOMAIN sl.cells = 1 .. m
    BY <1>1
  <2>2. Len(sl.cells) \in Nat /\ DOMAIN sl.cells = 1 .. Len(sl.cells)
    BY SliceFacts
  <2> QED BY <2>1, <2>2
<1> DEFINE C == sl.cells
           d == [sl EXCEPT !.len = l]
<1>3. sl = [cells |-> C, len |-> sl.len]
  BY DEF IsSlice
<1>4. C = [i \in 1 .. m |-> C[i]] /\ l \in 0 .. m
  BY <1>1, <1>2
<1> HIDE DEF C
<1>5. d = [cells |-> C, len |-> l]
  BY <1>3
<1> HIDE DEF d
<1>6. IsSlice(d) /\ d.len = l /\ d.cells = C
  BY <1>4, <1>5 DEF IsSlice
<1> QED BY <1>6 DEF d, C

\* Room for n elements: the old cells, or zero ones.
LEMMA ResizeFacts ==
  ASSUME NEW sl, IsSlice(sl), NEW n \in Nat, NEW zero
  PROVE  LET room == Resize(sl, n, zero)
         IN /\ IsSlice(room) /\ room.len = (IF n = 0 THEN sl.len ELSE n)
            /\ n = 0 => room = sl
            /\ \A i \in DOMAIN room.cells :
                 room.cells[i] = zero \/ (i \in DOMAIN sl.cells /\ room.cells[i] = sl.cells[i])
<1>1. Len(sl.cells) \in Nat /\ DOMAIN sl.cells = 1 .. Len(sl.cells)
  BY SliceFacts
<1>2. CASE n = 0
  BY <1>2 DEF Resize
<1>3. CASE n # 0 /\ Len(sl.cells) >= n
  <2>1. Resize(sl, n, zero) = [sl EXCEPT !.len = n]
    BY <1>3 DEF Resize
  <2>2. n \in 0 .. Len(sl.cells)
    BY <1>1, <1>3
  <2> DEFINE d == [sl EXCEPT !.len = n]
  <2>3. IsSlice(d) /\ d.len = n /\ d.cells = sl.cells
    BY <2>2, Relength
  <2> HIDE DEF d
  <2> QED BY <1>3, <2>1, <2>3 DEF d
<1>4. CASE n # 0 /\ ~(Len(sl.cells) >= n)
  <2>1. Resize(sl, n, zero) = [cells |-> [i \in 1 .. n |-> zero], len |-> n]
    BY <1>4 DEF Resize
  <2> DEFINE d == [cells |-> [i \in 1 .. n |-> zero], len |-> n]
  <2>2. d.cells = [i \in 1 .. n |-> zero] /\ d.len = n /\ d = [cells |-> d.cells, len |-> d.len]
    OBVIOUS
  <2>3. d.cells = [i \in 1 .. n |-> d.cells[i]] /\ d.len \in 0 .. n
    BY <2>2
  <2>4. DOMAIN d.cells = 1 .. n /\ \A i \in 1 .. n : d.cells[i] = zero
    BY <2>2
  <2> HIDE DEF d
  <2>5. IsSlice(d)
    BY <2>2, <2>3 DEF IsSlice
  <2> QED BY <1>4, <2>1, <2>2, <2>4, <2>5 DEF d
<1> QED BY <1>2, <1>3, <1>4

\* The two parts of a slice.
LEMMA SliceParts ==
  ASSUME NEW c, NEW l, NEW d, d = [cells |-> c, len |-> l]
  PROVE  d.len = l /\ d.cells = c /\ d = [cells |-> d.cells, len |-> d.len]
OBVIOUS

\* The first k cells of a slice are replaced.
Filled(d, sl, k, g) ==
  /\ IsSlice(d) /\ d.len = sl.len /\ DOMAIN d.cells = DOMAIN sl.cells
  /\ \A i \in DOMAIN sl.cells : d.cells[i] = IF i <= k THEN g[i] ELSE sl.cells[i]

\* Replacing cells leaves a slice.
LEMMA Fill ==
  ASSUME NEW sl, IsSlice(sl), NEW k, NEW g,
         NEW d, d = [sl EXCEPT !.cells = [i \in DOMAIN sl.cells |-> IF i <= k THEN g[i] ELSE sl.cells[i]]]
  PROVE  Filled(d, sl, k, g)
<1>1. PICK m \in Nat : sl.cells = [i \in 1 .. m |-> sl.cells[i]] /\ sl.len \in 0 .. m
  BY DEF IsSlice
<1> DEFINE C == [i \in DOMAIN sl.cells |-> IF i <= k THEN g[i] ELSE sl.cells[i]]
           l == sl.len
<1>2. sl = [cells |-> sl.cells, len |-> l]
  BY DEF IsSlice
<1>3. DOMAIN sl.cells = 1 .. m /\ l \in 0 .. m
  BY <1>1
<1>4. DOMAIN C = 1 .. m /\ \A i \in 1 .. m : C[i] = IF i <= k THEN g[i] ELSE sl.cells[i]
  BY <1>3
<1>5. C = [i \in 1 .. m |-> C[i]]
  BY <1>3
<1>6. d = [sl EXCEPT !.cells = C]
  OBVIOUS
<1> HIDE DEF C, l
<1>7. d = [cells |-> C, len |-> l]
  BY <1>2, <1>6
<1>7a. d.len = l /\ d.cells = C /\ d = [cells |-> d.cells, len |-> d.len]
  BY <1>7, SliceParts
<1>8. IsSlice(d) /\ d.len = l /\ d.cells = C
  <2>1. d.cells = [i \in 1 .. m |-> d.cells[i]] /\ d.len \in 0 .. m
    BY <1>3, <1>5, <1>7a
  <2> QED BY <1>7a, <2>1 DEF IsSlice
<1> QED BY <1>3, <1>4, <1>8 DEF Filled, l

\* A list of n ints of which v are decoded.
LEMMA IntsFacts ==
  ASSUME NEW sl, IsSlice(sl), NEW X, NEW v \in Seq(X)
  PROVE  LET d == DecodeSlice(sl, Len(v), v, 0, SetInt)
         IN IsSlice(d) /\ Visible(d) = IF v = <<>> THEN Visible(sl) ELSE v
<1> DEFINE n == Len(v)
           room == Resize(sl, n, 0)
           d == DecodeSlice(sl, n, v, 0, SetInt)
<1>1. n \in Nat
  OBVIOUS
<1>2. /\ IsSlice(room) /\ room.len = (IF n = 0 THEN sl.len ELSE n)
      /\ n = 0 => room = sl
  BY <1>1, ResizeFacts
<1>3. d = [room EXCEPT !.cells = [i \in DOMAIN room.cells |-> IF i <= n THEN v[i] ELSE room.cells[i]]]
  BY DEF DecodeSlice, SetInt
<1> HIDE DEF room, d
<1>4. Filled(d, room, n, v)
  BY <1>2, <1>3, Fill
<1> HIDE DEF n
<1>5. IsSlice(d) /\ d.len = room.len /\ d.len \in Nat
  BY <1>4, SliceFacts DEF Filled
<1>6. \A i \in 1 .. room.len : i \in DOMAIN room.cells
  <2>1. Len(room.cells) \in Nat /\ DOMAIN room.cells = 1 .. Len(room.cells) /\ room.len \in 0 .. Len(room.cells)
    BY <1>2, SliceFacts
  <2> QED BY <2>1
<1>7. Visible(d) = [i \in 1 .. d.len |-> d.cells[i]]
  BY <1>5, VisibleIs
<1>8. CASE n = 0
  <2>1. \A i \in 1 .. d.len : d.cells[i] = sl.cells[i] /\ d.len = sl.len
    BY <1>1, <1>2, <1>4, <1>5, <1>6, <1>8 DEF Filled
  <2>1a. d.len = sl.len
    BY <1>2, <1>5, <1>8
  <2>2. Visible(sl) = [i \in 1 .. sl.len |-> sl.cells[i]]
    BY VisibleIs
  <2>3. Visible(d) = Visible(sl)
    BY <1>7, <2>1, <2>1a, <2>2
  <2>4. v = <<>>
    BY <1>8 DEF n
  <2> QED BY <1>5, <2>3, <2>4 DEF d, n
<1>9. CASE n # 0
  <2>1. d.len = n
    BY <1>2, <1>5, <1>9
  <2>2. \A i \in 1 .. n : d.cells[i] = v[i]
    BY <1>1, <1>4, <1>5, <1>6, <2>1 DEF Filled
  <2>3. v = [i \in 1 .. n |-> v[i]] /\ v # <<>>
    BY <1>9 DEF n
  <2>4. Visible(d) = [i \in 1 .. n |-> v[i]]
    BY <1>7, <2>1, <2>2
  <2> QED BY <1>5, <2>3, <2>4 DEF d, n
<1> QED BY <1>8, <1>9

-----------------------------------------------------------------------------
(* Items.                                                                  *)

IsItem(it) == it = [x |-> it.x, t |-> it.t, present |-> it.present] /\ IsSlice(it.t)

\* Two items nobody can tell apart.
Alike(a, b) == IsItem(a) /\ IsItem(b) /\ ItemValue(a) = ItemValue(b)

\* What is seen of an item.
LEMMA AlikeParts ==
  ASSUME NEW a, NEW b
  PROVE  ItemValue(a) = ItemValue(b) <=>
           a.x = b.x /\ Visible(a.t) = Visible(b.t) /\ a.present = b.present
BY DEF ItemValue

Occurrences == [f : {"x", "t"}, v : Seq(Ints)]

\* An occurrence makes items that are alike alike.
LEMMA FieldAlike ==
  ASSUME NEW a, NEW b, Alike(a, b), NEW occ \in Occurrences
  PROVE  Alike(ItemField(a, occ), ItemField(b, occ))
<1>1. IsItem(a) /\ IsItem(b) /\ a.x = b.x /\ Visible(a.t) = Visible(b.t) /\ a.present = b.present
  BY AlikeParts DEF Alike
<1>2. occ.v \in Seq(Ints)
  BY DEF Occurrences
<1> DEFINE tt(it) == DecodeSlice(it.t, Len(occ.v), occ.v, 0, SetInt)
<1>3. ASSUME NEW it, IsItem(it)
      PROVE  ItemField(it, occ) = IF occ.f = "x"
               THEN [x |-> Last(occ.v), t |-> it.t, present |-> it.present \cup {occ.f}]
               ELSE [x |-> it.x, t |-> tt(it), present |-> it.present \cup {occ.f}]
  <2> DEFINE se == [it EXCEPT !.present = @ \cup {occ.f}]
             pr == it.present \cup {occ.f}
             lv == Last(occ.v)
             T  == tt(it)
  <2>1. se = [x |-> it.x, t |-> it.t, present |-> pr]
    BY <1>3 DEF IsItem
  <2>2. ItemField(it, occ) = IF occ.f = "x" THEN [se EXCEPT !.x = lv]
                             ELSE [se EXCEPT !.t = DecodeSlice(se.t, Len(occ.v), occ.v, 0, SetInt)]
    BY DEF ItemField
  <2>3. se.t = it.t
    BY <2>1
  <2>4. ItemField(it, occ) = IF occ.f = "x" THEN [se EXCEPT !.x = lv] ELSE [se EXCEPT !.t = T]
    BY <2>2, <2>3
  <2> HIDE DEF se, pr, lv, T
  <2>5. ItemField(it, occ) = IF occ.f = "x" THEN [x |-> lv, t |-> it.t, present |-> pr]
                             ELSE [x |-> it.x, t |-> T, present |-> pr]
    BY <2>1, <2>4
  <2> QED BY <2>5 DEF pr, lv, T
<1>4. /\ IsSlice(tt(a)) /\ IsSlice(tt(b)) /\ Visible(tt(a)) = Visible(tt(b))
  <2>1. IsSlice(a.t) /\ IsSlice(b.t)
    BY <1>1 DEF IsItem
  <2>2. IsSlice(tt(a)) /\ Visible(tt(a)) = IF occ.v = <<>> THEN Visible(a.t) ELSE occ.v
    BY <1>2, <2>1, IntsFacts
  <2>3. IsSlice(tt(b)) /\ Visible(tt(b)) = IF occ.v = <<>> THEN Visible(b.t) ELSE occ.v
    BY <1>2, <2>1, IntsFacts
  <2> QED BY <1>1, <2>2, <2>3
<1> DEFINE pr == a.present \cup {occ.f}
           lv == Last(occ.v)
           ta == tt(a)
           tb == tt(b)
<1>5. /\ ItemField(a, occ) = IF occ.f = "x" THEN [x |-> lv, t |-> a.t, present |-> pr]
                             ELSE [x |-> a.x, t |-> ta, present |-> pr]
      /\ ItemField(b, occ) = IF occ.f = "x" THEN [x |-> lv, t |-> b.t, present |-> pr]
                             ELSE [x |-> a.x, t |-> tb, present |-> pr]
  BY <1>1, <1>3
<1>6. IsSlice(ta) /\ IsSlice(tb) /\ Visible(ta) = Visible(tb) /\ IsSlice(a.t) /\ IsSlice(b.t)
  BY <1>1, <1>4 DEF IsItem
<1> HIDE DEF pr, lv, ta, tb
<1> DEFINE u == ItemField(a, occ)
           w == ItemField(b, occ)
<1>7. /\ u = [x |-> u.x, t |-> u.t, present |-> u.present] /\ w = [x |-> w.x, t |-> w.t, present |-> w.present]
      /\ u.x = w.x /\ u.present = w.present
      /\ (u.t = a.t /\ w.t = b.t) \/ (u.t = ta /\ w.t = tb)
  <2> HIDE DEF u, w
  <2> QED BY <1>5 DEF u, w
<1> HIDE DEF u, w
<1>8. IsSlice(u.t) /\ IsSlice(w.t) /\ Visible(u.t) = Visible(w.t)
  BY <1>1, <1>6, <1>7
<1>9. Alike(u, w)
  BY <1>7, <1>8, AlikeParts DEF Alike, IsItem
<1> QED BY <1>9 DEF u, w

\* UnmarshalItem makes items that differ at most in their presence bits alike.
LEMMA UnmarshalAlike ==
  ASSUME NEW a, NEW b, IsItem(a), IsItem(b), a.x = b.x, Visible(a.t) = Visible(b.t),
         NEW s \in Seq(Occurrences)
  PROVE  Alike(UnmarshalItem(a, s), UnmarshalItem(b, s))
<1> DEFINE n == Len(s)
<1>1. n \in Nat /\ DOMAIN s = 1 .. n /\ \A k \in 1 .. n : s[k] \in Occurrences
  OBVIOUS
<1> HIDE DEF n
<1>2. PICK t : Chain(t, Bare(a), s, n) /\ t[n] = UnmarshalItem(a, s)
  BY <1>1, ItemChain
<1>3. PICK u : Chain(u, Bare(b), s, n) /\ u[n] = UnmarshalItem(b, s)
  BY <1>1, ItemChain
<1>4. Alike(Bare(a), Bare(b))
  <2>0. ASSUME NEW it, IsItem(it) PROVE Bare(it) = [x |-> it.x, t |-> it.t, present |-> {}]
    <3> DEFINE x == it.x
               y == it.t
               z == it.present
    <3>1. it = [x |-> x, t |-> y, present |-> z] /\ Bare(it) = [it EXCEPT !.present = {}]
      BY <2>0 DEF IsItem, Bare
    <3> HIDE DEF x, y, z
    <3>2. Bare(it) = [x |-> x, t |-> y, present |-> {}]
      BY <3>1
    <3> QED BY <3>2 DEF x, y, z
  <2>1. /\ Bare(a) = [x |-> a.x, t |-> a.t, present |-> {}]
        /\ Bare(b) = [x |-> b.x, t |-> b.t, present |-> {}]
    BY <2>0
  <2>2. IsItem(Bare(a)) /\ IsItem(Bare(b))
    BY <2>1 DEF IsItem
  <2> QED BY <2>1, <2>2, AlikeParts DEF Alike
<1> DEFINE T == {k \in Nat : k <= n => Alike(t[k], u[k])}
<1>5. 0 \in T
  BY <1>2, <1>3, <1>4 DEF Chain
<1>6. ASSUME NEW k \in Nat, k \in T PROVE k + 1 \in T
  <2> SUFFICES ASSUME k + 1 <= n PROVE Alike(t[k + 1], u[k + 1])
    OBVIOUS
  <2>1. k + 1 \in 1 .. n /\ (k + 1) - 1 = k /\ k <= n
    BY <1>1
  <2>2. Alike(t[k], u[k])
    BY <1>6, <2>1
  <2>3. t[k + 1] = ItemField(t[k], s[k + 1]) /\ u[k + 1] = ItemField(u[k], s[k + 1])
    BY <1>2, <1>3, <2>1 DEF Chain
  <2> QED BY <1>1, <2>1, <2>2, <2>3, FieldAlike
<1> HIDE DEF T
<1>7. n \in T
  BY <1>1, <1>5, <1>6, Induct
<1> QED BY <1>1, <1>2, <1>3, <1>7 DEF T

\* Reset, and the zero item.
LEMMA ResetItemFacts ==
  /\ IsItem(ZeroItem) /\ ZeroItem.x = 0 /\ Visible(ZeroItem.t) = <<>> /\ ZeroItem.present = {}
  /\ \A c : IsItem(c) => /\ IsItem(ResetItem(c)) /\ ResetItem(c).x = 0
                         /\ Visible(ResetItem(c).t) = <<>> /\ ResetItem(c).present = {}
<1>1. ASSUME NEW sl, IsSlice(sl), sl.len = 0 PROVE Visible(sl) = <<>>
  <2>1. Visible(sl) = [i \in 1 .. 0 |-> sl.cells[i]]
    BY <1>1, VisibleIs
  <2> QED BY <2>1
<1>2. IsSlice(NoSlice) /\ Visible(NoSlice) = <<>>
  BY <1>1, NoSliceFacts
<1>3. IsItem(ZeroItem) /\ ZeroItem.x = 0 /\ ZeroItem.t = NoSlice /\ ZeroItem.present = {}
  BY <1>2 DEF ZeroItem, IsItem
<1>4. ASSUME NEW c, IsItem(c)
      PROVE  /\ IsItem(ResetItem(c)) /\ ResetItem(c).x = 0
             /\ Visible(ResetItem(c).t) = <<>> /\ ResetItem(c).present = {}
  <2> DEFINE T == [c.t EXCEPT !.len = 0]
             d == ResetItem(c)
  <2>1. 0 \in 0 .. Len(c.t.cells) /\ IsSlice(c.t)
    BY <1>4, SliceFacts DEF IsItem
  <2>2. IsSlice(T) /\ T.len = 0
    BY <2>1, Relength
  <2>3. d = [x |-> 0, t |-> T, present |-> {}]
    <3>1. c = [x |-> c.x, t |-> c.t, present |-> c.present]
      BY <1>4 DEF IsItem
    <3>2. d = [c EXCEPT !.x = 0, !.t = T, !.present = {}]
      BY <3>1 DEF ResetItem
    <3> HIDE DEF d, T
    <3> QED BY <3>1, <3>2
  <2> HIDE DEF T, d
  <2>4. d.x = 0 /\ d.t = T /\ d.present = {} /\ d = [x |-> d.x, t |-> d.t, present |-> d.present]
    BY <2>3
  <2>5. IsItem(d) /\ Visible(d.t) = <<>>
    BY <1>1, <2>2, <2>4 DEF IsItem
  <2> QED BY <2>4, <2>5 DEF d
<1> QED BY <1>2, <1>3, <1>4

-----------------------------------------------------------------------------
(* What the occurrence of a field leaves in a receiver.                    *)

Bodies == Seq(Occurrences)
IsItemPtr(c) == IsPtr(c) /\ IsItem(c.item)

\* What decoding the pointer e shows.
PtrWant(e) ==
  IF e.nil THEN <<TRUE, ItemValue(ZeroItem)>>
  ELSE <<FALSE, ItemValue(UnmarshalItem(ZeroItem, e.body))>>

\* The bodies of items and pointers on the wire.
LEMMA WireBodies ==
  ItemMsgs \subseteq Bodies /\ \A e \in PtrMsgs : e.body \in Bodies
<1>1. ItemMsgs \subseteq Bodies
  BY ReceiverAssumption DEF Bodies, Occurrences
<1>2. <<>> \in Bodies
  BY DEF Bodies
<1> HIDE DEF Bodies
<1>3. ASSUME NEW e \in PtrMsgs PROVE e.body \in Bodies
  <2>1. e.body \in ItemMsgs \/ e.body = <<>>
    BY DEF PtrMsgs
  <2> QED BY <1>1, <1>2, <2>1
<1> QED BY <1>1, <1>3

\* An element decoded into a cell shows what it would show in a new one.
LEMMA ElementShows ==
  /\ \A c, e, i : IsItem(c) /\ e \in Bodies =>
       IsItem(SetItem(c, e, i)) /\ ItemValue(SetItem(c, e, i)) = ItemValue(UnmarshalItem(ZeroItem, e))
  /\ \A e \in Bodies : IsItem(UnmarshalItem(ZeroItem, e))
<1>1. ASSUME NEW c, NEW e, NEW i, IsItem(c), e \in Bodies
      PROVE  IsItem(SetItem(c, e, i)) /\ ItemValue(SetItem(c, e, i)) = ItemValue(UnmarshalItem(ZeroItem, e))
  <2>1. /\ IsItem(ResetItem(c)) /\ IsItem(ZeroItem)
        /\ ResetItem(c).x = ZeroItem.x /\ Visible(ResetItem(c).t) = Visible(ZeroItem.t)
    BY <1>1, ResetItemFacts
  <2>2. Alike(UnmarshalItem(ResetItem(c), e), UnmarshalItem(ZeroItem, e))
    BY <1>1, <2>1, UnmarshalAlike DEF Bodies
  <2> QED BY <2>2 DEF Alike, SetItem
<1>2. ASSUME NEW e \in Bodies PROVE IsItem(UnmarshalItem(ZeroItem, e))
  <2>1. Alike(UnmarshalItem(ZeroItem, e), UnmarshalItem(ZeroItem, e))
    BY ResetItemFacts, UnmarshalAlike DEF Bodies
  <2> QED BY <2>1 DEF Alike
<1> QED BY <1>1, <1>2

\* The same for a pointer.
LEMMA PointerShows ==
  ASSUME nextId \in Nat, NEW e \in PtrMsgs
  PROVE  /\ IsItemPtr(NewPtr(e)) /\ PtrValue(NewPtr(e)) = PtrWant(e)
         /\ \A c : \A i \in Nat : IsItemPtr(c) /\ i # 0 =>
              IsItemPtr(SetPtr(c, e, i)) /\ PtrValue(SetPtr(c, e, i)) = PtrWant(e)
         /\ IsItemPtr(NilPtr)
<1>1. NilPtr.id = 0 /\ NilPtr.item = ZeroItem /\ IsPtr(NilPtr)
  BY DEF NilPtr, IsPtr
<1>2. IsItemPtr(NilPtr) /\ PtrValue(NilPtr) = <<TRUE, ItemValue(ZeroItem)>>
  BY <1>1, ResetItemFacts DEF IsItemPtr, PtrValue
<1>3. e.body \in Bodies
  BY WireBodies
<1> DEFINE new == UnmarshalItem(ZeroItem, e.body)
<1>4. IsItem(new)
  BY <1>3, ElementShows
<1>5. ASSUME NEW k \in Nat, k # 0, NEW it, IsItem(it), ItemValue(it) = ItemValue(new),
             NEW c, c = [id |-> k, item |-> it]
      PROVE  IsItemPtr(c) /\ PtrValue(c) = <<FALSE, ItemValue(new)>>
  <2> HIDE DEF new
  <2>1. c.id = k /\ c.item = it /\ IsPtr(c)
    BY <1>5 DEF IsPtr
  <2> QED BY <1>5, <2>1 DEF IsItemPtr, PtrValue
<1>6. ASSUME NEW k \in Nat, k # 0 
      PROVE  LET c == [id |-> k, item |-> new] IN IsItemPtr(c) /\ PtrValue(c) = <<FALSE, ItemValue(new)>>
  BY <1>4, <1>5, <1>6
<1>7. IsItemPtr(NewPtr(e)) /\ PtrValue(NewPtr(e)) = PtrWant(e)
  <2>1. CASE e.nil
    BY <1>2, <2>1 DEF NewPtr, PtrWant
  <2>2. CASE ~e.nil
    <3>1. nextId + 1 \in Nat /\ nextId + 1 # 0
      OBVIOUS
    <3>2. NewPtr(e) = [id |-> nextId + 1, item |-> new] /\ PtrWant(e) = <<FALSE, ItemValue(new)>>
      BY <2>2 DEF NewPtr, PtrWant
    <3> HIDE DEF new
    <3> QED BY <1>6, <3>1, <3>2
  <2> QED BY <2>1, <2>2
<1>8. ASSUME NEW c, NEW i \in Nat, IsItemPtr(c), i # 0
      PROVE  IsItemPtr(SetPtr(c, e, i)) /\ PtrValue(SetPtr(c, e, i)) = PtrWant(e)
  <2>1. CASE e.nil
    BY <1>2, <2>1 DEF SetPtr, PtrWant
  <2>2. CASE ~e.nil /\ c.id = 0
    <3>1. nextId + i \in Nat /\ nextId + i # 0
      BY <1>8
    <3>2. SetPtr(c, e, i) = [id |-> nextId + i, item |-> new] /\ PtrWant(e) = <<FALSE, ItemValue(new)>>
      BY <2>2 DEF SetPtr, PtrWant
    <3> HIDE DEF new
    <3> QED BY <1>6, <3>1, <3>2
  <2>3. CASE ~e.nil /\ c.id # 0
    <3> DEFINE it == SetItem(c.item, e.body, 1)
    <3>1. c = [id |-> c.id, item |-> c.item] /\ c.id \in Nat /\ IsItem(c.item)
      BY <1>8 DEF IsItemPtr, IsPtr
    <3>2. SetPtr(c, e, i) = [c EXCEPT !.item = it] /\ PtrWant(e) = <<FALSE, ItemValue(new)>>
      BY <2>3 DEF SetPtr, PtrWant, SetItem
    <3>3. IsItem(it) /\ ItemValue(it) = ItemValue(new)
      BY <1>3, <3>1, ElementShows
    <3> HIDE DEF it, new
    <3>4. SetPtr(c, e, i) = [id |-> c.id, item |-> it]
      BY <3>1, <3>2
    <3> QED BY <1>5, <2>3, <3>1, <3>2, <3>3, <3>4
  <2> QED BY <2>1, <2>2, <2>3
<1> QED BY <1>2, <1>7, <1>8

\* The same for a list of ints.
LEMMA ListShows ==
  ASSUME NEW c, IsSlice(c), NEW X, NEW e \in Seq(X), NEW i
  PROVE  IsSlice(SetInts(c, e, i)) /\ Visible(SetInts(c, e, i)) = e
<1> DEFINE z == [c EXCEPT !.len = 0]
<1>1. 0 \in 0 .. Len(c.cells)
  BY SliceFacts
<1>2. IsSlice(z) /\ z.len = 0
  BY <1>1, Relength
<1>3. SetInts(c, e, i) = DecodeSlice(z, Len(e), e, 0, SetInt)
  BY DEF SetInts
<1> HIDE DEF z
<1>4. Visible(z) = <<>>
  <2>1. Visible(z) = [j \in 1 .. 0 |-> z.cells[j]]
    BY <1>2, VisibleIs
  <2> QED BY <2>1
<1>5. /\ IsSlice(DecodeSlice(z, Len(e), e, 0, SetInt))
      /\ Visible(DecodeSlice(z, Len(e), e, 0, SetInt)) = IF e = <<>> THEN Visible(z) ELSE e
  BY <1>2, IntsFacts
<1> QED BY <1>3, <1>4, <1>5

-----------------------------------------------------------------------------
(* Slices of them.  d is the slice sl after n elements were announced and k *)
(* of them decoded, g[i] to the cell i.                                     *)

Grown(d, sl, n, k, g) ==
  /\ IsSlice(d)
  /\ n = 0 => d.len = sl.len /\ DOMAIN d.cells = DOMAIN sl.cells /\ \A i \in DOMAIN sl.cells : d.cells[i] = sl.cells[i]
  /\ n # 0 => d.len = n
  /\ 1 .. k \subseteq DOMAIN d.cells /\ DOMAIN d.cells \subseteq Nat \ {0}
  /\ \A i \in 1 .. k : d.cells[i] = g[i]

\* From the room and what fills it.
LEMMA Grow ==
  ASSUME NEW sl, IsSlice(sl), NEW n \in Nat, NEW zero, NEW k \in 0 .. n, NEW g, NEW d,
         Filled(d, Resize(sl, n, zero), k, g)
  PROVE  /\ Grown(d, sl, n, k, g)
         /\ \A i \in DOMAIN d.cells : ~(i <= k) =>
              d.cells[i] = zero \/ (i \in DOMAIN sl.cells /\ d.cells[i] = sl.cells[i])
<1> DEFINE room == Resize(sl, n, zero)
<1>1. /\ IsSlice(room) /\ room.len = (IF n = 0 THEN sl.len ELSE n)
      /\ n = 0 => room = sl
      /\ \A i \in DOMAIN room.cells :
           room.cells[i] = zero \/ (i \in DOMAIN sl.cells /\ room.cells[i] = sl.cells[i])
  BY ResizeFacts
<1>2. /\ IsSlice(d) /\ d.len = room.len /\ DOMAIN d.cells = DOMAIN room.cells
      /\ \A i \in DOMAIN room.cells : d.cells[i] = IF i <= k THEN g[i] ELSE room.cells[i]
  BY DEF Filled
<1> HIDE DEF room
<1>3. /\ DOMAIN room.cells = 1 .. Len(room.cells) /\ Len(room.cells) \in Nat
      /\ room.len \in 0 .. Len(room.cells)
  BY <1>1, SliceFacts
<1>4. n # 0 => 1 .. k \subseteq DOMAIN room.cells
  BY <1>1, <1>3
<1>5. n = 0 => k = 0
  OBVIOUS
<1>6. 1 .. k \subseteq DOMAIN d.cells /\ DOMAIN d.cells \subseteq Nat \ {0}
  BY <1>2, <1>3, <1>4, <1>5
<1>7. \A i \in 1 .. k : d.cells[i] = g[i]
  BY <1>2, <1>6
<1>8. ASSUME n = 0 PROVE d.len = sl.len /\ DOMAIN d.cells = DOMAIN sl.cells /\ \A i \in DOMAIN sl.cells : d.cells[i] = sl.cells[i]
  <2>1. room = sl /\ k = 0
    BY <1>1, <1>5, <1>8
  <2>2. \A i \in DOMAIN sl.cells : ~(i <= k)
    BY <1>3, <2>1
  <2> QED BY <1>2, <2>1, <2>2
<1> QED BY <1>1, <1>2, <1>6, <1>7, <1>8 DEF Grown

\* A slice of items, of pointers and of lists, after k of n elements.
LEMMA ItemsShow ==
  ASSUME NEW sl, IsSlice(sl), \A i \in DOMAIN sl.cells : IsItem(sl.cells[i]),
         NEW n \in Nat, NEW v \in Seq(Bodies), Len(v) <= n
  PROVE  LET d == DecodeItems(sl, n, v)
         IN /\ \E g : /\ Grown(d, sl, n, Len(v), g)
                      /\ \A i \in 1 .. Len(v) : ItemValue(g[i]) = ItemValue(UnmarshalItem(ZeroItem, v[i]))
            /\ \A i \in DOMAIN d.cells : IsItem(d.cells[i])
<1> DEFINE room == Resize(sl, n, ZeroItem)
           k == Len(v)
           d == DecodeItems(sl, n, v)
           g == [i \in DOMAIN room.cells |-> SetItem(room.cells[i], v[i], i)]
<1>1. k \in 0 .. n /\ \A i \in 1 .. k : v[i] \in Bodies
  OBVIOUS
<1>2. /\ IsSlice(room)
      /\ \A i \in DOMAIN room.cells :
           room.cells[i] = ZeroItem \/ (i \in DOMAIN sl.cells /\ room.cells[i] = sl.cells[i])
  BY ResizeFacts
<1>3. \A i \in DOMAIN room.cells : IsItem(room.cells[i])
  BY <1>2, ResetItemFacts
<1>4. d = [room EXCEPT !.cells = [i \in DOMAIN room.cells |-> IF i <= k THEN g[i] ELSE room.cells[i]]]
  <2>1. d = [room EXCEPT !.cells =
               [i \in DOMAIN @ |-> IF i <= k THEN SetItem(@[i], v[i], i) ELSE @[i]]]
    BY DEF DecodeItems, DecodeSlice
  <2> QED BY <2>1
<1> HIDE DEF d, k
<1>5. Filled(d, room, k, g)
  BY <1>2, <1>4, Fill
<1>6. /\ Grown(d, sl, n, k, g)
      /\ \A i \in DOMAIN d.cells : ~(i <= k) =>
           d.cells[i] = ZeroItem \/ (i \in DOMAIN sl.cells /\ d.cells[i] = sl.cells[i])
  BY <1>1, <1>5, Grow
<1>7. DOMAIN d.cells = DOMAIN room.cells /\ 1 .. k \subseteq DOMAIN d.cells /\ DOMAIN d.cells \subseteq Nat \ {0}
      /\ \A i \in 1 .. k : d.cells[i] = g[i]
  BY <1>5, <1>6 DEF Filled, Grown
<1>8. ASSUME NEW i \in 1 .. k
      PROVE  IsItem(g[i]) /\ ItemValue(g[i]) = ItemValue(UnmarshalItem(ZeroItem, v[i]))
  <2>1. i \in DOMAIN room.cells /\ IsItem(room.cells[i]) /\ v[i] \in Bodies
    BY <1>1, <1>3, <1>7
  <2>2. g[i] = SetItem(room.cells[i], v[i], i)
    BY <2>1
  <2> HIDE DEF g
  <2> QED BY <2>1, <2>2, ElementShows
<1> HIDE DEF g, room
<1>9. ASSUME NEW i \in DOMAIN d.cells PROVE IsItem(d.cells[i])
  <2>1. CASE i <= k
    <3>1. i \in 1 .. k
      BY <1>1, <1>7, <2>1
    <3> QED BY <1>7, <1>8, <3>1
  <2>2. CASE ~(i <= k)
    BY <1>6, <2>2, ResetItemFacts
  <2> QED BY <2>1, <2>2
<1> QED BY <1>6, <1>8, <1>9 DEF d, k

\* The same for pointers.
LEMMA PtrsShow ==
  ASSUME NEW sl, IsSlice(sl), \A i \in DOMAIN sl.cells : IsItemPtr(sl.cells[i]), nextId \in Nat,
         NEW n \in Nat, NEW v \in Seq(PtrMsgs), Len(v) <= n
  PROVE  LET d == DecodePtrs(sl, n, v)
         IN /\ \E g : /\ Grown(d, sl, n, Len(v), g)
                      /\ \A i \in 1 .. Len(v) : PtrValue(g[i]) = PtrWant(v[i])
            /\ \A i \in DOMAIN d.cells : IsItemPtr(d.cells[i])
<1> DEFINE room == Resize(sl, n, NilPtr)
           k == Len(v)
           d == DecodePtrs(sl, n, v)
           g == [i \in DOMAIN room.cells |-> SetPtr(room.cells[i], v[i], i)]
<1>0. IsItemPtr(NilPtr)
  BY ResetItemFacts DEF NilPtr, IsItemPtr, IsPtr
<1>1. k \in 0 .. n /\ \A i \in 1 .. k : v[i] \in PtrMsgs
  OBVIOUS
<1>2. /\ IsSlice(room)
      /\ \A i \in DOMAIN room.cells :
           room.cells[i] = NilPtr \/ (i \in DOMAIN sl.cells /\ room.cells[i] = sl.cells[i])
  BY ResizeFacts
<1>3. \A i \in DOMAIN room.cells : IsItemPtr(room.cells[i])
  BY <1>0, <1>2
<1>4. d = [room EXCEPT !.cells = [i \in DOMAIN room.cells |-> IF i <= k THEN g[i] ELSE room.cells[i]]]
  <2>1. d = [room EXCEPT !.cells =
               [i \in DOMAIN @ |-> IF i <= k THEN SetPtr(@[i], v[i], i) ELSE @[i]]]
    BY DEF DecodePtrs, DecodeSlice
  <2> QED BY <2>1
<1> HIDE DEF d, k
<1>5. Filled(d, room, k, g)
  BY <1>2, <1>4, Fill
<1>6. /\ Grown(d, sl, n, k, g)
      /\ \A i \in DOMAIN d.cells : ~(i <= k) =>
           d.cells[i] = NilPtr \/ (i \in DOMAIN sl.cells /\ d.cells[i] = sl.cells[i])
  BY <1>1, <1>5, Grow
<1>7. DOMAIN d.cells = DOMAIN room.cells /\ 1 .. k \subseteq DOMAIN d.cells /\ DOMAIN d.cells \subseteq Nat \ {0}
      /\ \A i \in 1 .. k : d.cells[i] = g[i]
  BY <1>5, <1>6 DEF Filled, Grown
<1>8. ASSUME NEW i \in 1 .. k
      PROVE  IsItemPtr(g[i]) /\ PtrValue(g[i]) = PtrWant(v[i])
  <2>1. i \in DOMAIN room.cells /\ IsItemPtr(room.cells[i]) /\ v[i] \in PtrMsgs /\ i \in Nat /\ i # 0
    BY <1>1, <1>3, <1>7
  <2>2. g[i] = SetPtr(room.cells[i], v[i], i)
    BY <2>1
  <2> HIDE DEF g
  <2> QED BY <2>1, <2>2, PointerShows
<1> HIDE DEF g, room
<1>9. ASSUME NEW i \in DOMAIN d.cells PROVE IsItemPtr(d.cells[i])
  <2>1. CASE i <= k
    <3>1. i \in 1 .. k
      BY <1>1, <1>7, <2>1
    <3> QED BY <1>7, <1>8, <3>1
  <2>2. CASE ~(i <= k)
    BY <1>0, <1>6, <2>2
  <2> QED BY <2>1, <2>2
<1> QED BY <1>6, <1>8, <1>9 DEF d, k

\* The same for lists of ints.
LEMMA ListsShow ==
  ASSUME NEW sl, IsSlice(sl), \A i \in DOMAIN sl.cells : IsSlice(sl.cells[i]),
         NEW n \in Nat, NEW v \in Seq(Seq(Ints)), Len(v) <= n
  PROVE  LET d == DecodeLists(sl, n, v)
         IN /\ \E g : /\ Grown(d, sl, n, Len(v), g)
                      /\ \A i \in 1 .. Len(v) : Visible(g[i]) = v[i]
            /\ \A i \in DOMAIN d.cells : IsSlice(d.cells[i])
<1> DEFINE room == Resize(sl, n, NoSlice)
           k == Len(v)
           d == DecodeLists(sl, n, v)
           g == [i \in DOMAIN room.cells |-> SetInts(room.cells[i], v[i], i)]
<1>1. k \in 0 .. n /\ \A i \in 1 .. k : v[i] \in Seq(Ints)
  OBVIOUS
<1>2. /\ IsSlice(room)
      /\ \A i \in DOMAIN room.cells :
           room.cells[i] = NoSlice \/ (i \in DOMAIN sl.cells /\ room.cells[i] = sl.cells[i])
  BY ResizeFacts
<1>3. \A i \in DOMAIN room.cells : IsSlice(room.cells[i])
  BY <1>2, NoSliceFacts
<1>4. d = [room EXCEPT !.cells = [i \in DOMAIN room.cells |-> IF i <= k THEN g[i] ELSE room.cells[i]]]
  <2>1. d = [room EXCEPT !.cells =
               [i \in DOMAIN @ |-> IF i <= k THEN SetInts(@[i], v[i], i) ELSE @[i]]]
    BY DEF DecodeLists, DecodeSlice
  <2> QED BY <2>1
<1> HIDE DEF d, k
<1>5. Filled(d, room, k, g)
  BY <1>2, <1>4, Fill
<1>6. /\ Grown(d, sl, n, k, g)
      /\ \A i \in DOMAIN d.cells : ~(i <= k) =>
           d.cells[i] = NoSlice \/ (i \in DOMAIN sl.cells /\ d.cells[i] = sl.cells[i])
  BY <1>1, <1>5, Grow
<1>7. DOMAIN d.cells = DOMAIN room.cells /\ 1 .. k \subseteq DOMAIN d.cells /\ DOMAIN d.cells \subseteq Nat \ {0}
      /\ \A i \in 1 .. k : d.cells[i] = g[i]
  BY <1>5, <1>6 DEF Filled, Grown
<1>8. ASSUME NEW i \in 1 .. k
      PROVE  IsSlice(g[i]) /\ Visible(g[i]) = v[i]
  <2>1. i \in DOMAIN room.cells /\ IsSlice(room.cells[i]) /\ v[i] \in Seq(Ints)
    BY <1>1, <1>3, <1>7
  <2>2. g[i] = SetInts(room.cells[i], v[i], i)
    BY <2>1
  <2> HIDE DEF g
  <2> QED BY <2>1, <2>2, ListShows
<1> HIDE DEF g, room
<1>9. ASSUME NEW i \in DOMAIN d.cells PROVE IsSlice(d.cells[i])
  <2>1. CASE i <= k
    <3>1. i \in 1 .. k
      BY <1>1, <1>7, <2>1
    <3> QED BY <1>7, <1>8, <3>1
  <2>2. CASE ~(i <= k)
    BY <1>6, <2>2, NoSliceFacts
  <2> QED BY <2>1, <2>2
<1> QED BY <1>6, <1>8, <1>9 DEF d, k

-----------------------------------------------------------------------------
(* Receivers.                                                              *)

Good(r) ==
  /\ IsRoot(r) /\ IsItem(r.n) /\ IsItemPtr(r.o)
  /\ IsSlice(r.s) /\ \A i \in DOMAIN r.s.cells : IsItem(r.s.cells[i])
  /\ IsSlice(r.q) /\ \A i \in DOMAIN r.q.cells : IsItemPtr(r.q.cells[i])
  /\ IsSlice(r.l) /\ \A i \in DOMAIN r.l.cells : IsSlice(r.l.cells[i])

\* Slices nobody can tell apart.
SameItems(a, b) == a.len = b.len /\ \A i \in 1 .. a.len : ItemValue(a.cells[i]) = ItemValue(b.cells[i])
SamePtrs(a, b)  == a.len = b.len /\ \A i \in 1 .. a.len : PtrValue(a.cells[i]) = PtrValue(b.cells[i])
SameLists(a, b) == a.len = b.len /\ \A i \in 1 .. a.len : Visible(a.cells[i]) = Visible(b.cells[i])

\* Receivers nobody can tell apart.
Same(a, b) ==
  /\ a.p = b.p /\ a.m = b.m /\ a.present = b.present
  /\ ItemValue(a.n) = ItemValue(b.n) /\ PtrValue(a.o) = PtrValue(b.o)
  /\ SameItems(a.s, b.s) /\ SamePtrs(a.q, b.q) /\ SameLists(a.l, b.l)

\* What is the same slice by slice is the same value.
LEMMA SameValues ==
  /\ \A a, b : SameItems(a, b) =>
       [i \in 1 .. a.len |-> ItemValue(a.cells[i])] = [i \in 1 .. b.len |-> ItemValue(b.cells[i])]
  /\ \A a, b : SamePtrs(a, b) =>
       [i \in 1 .. a.len |-> PtrValue(a.cells[i])] = [i \in 1 .. b.len |-> PtrValue(b.cells[i])]
  /\ \A a, b : SameLists(a, b) =>
       [i \in 1 .. a.len |-> Visible(a.cells[i])] = [i \in 1 .. b.len |-> Visible(b.cells[i])]
BY DEF SameItems, SamePtrs, SameLists

\* Receivers that are the same, field by field, have the same value.
LEMMA SameValue ==
  ASSUME NEW a, NEW b, Same(a, b)
  PROVE  Value(a) = Value(b)
<1>1. /\ a.p = b.p /\ a.m = b.m /\ a.present = b.present
      /\ ItemValue(a.n) = ItemValue(b.n) /\ PtrValue(a.o) = PtrValue(b.o)
      /\ SameItems(a.s, b.s) /\ SamePtrs(a.q, b.q) /\ SameLists(a.l, b.l)
  BY DEF Same
<1> DEFINE sv(r) == [i \in 1 .. r.s.len |-> ItemValue(r.s.cells[i])]
           qv(r) == [i \in 1 .. r.q.len |-> PtrValue(r.q.cells[i])]
           lv(r) == [i \in 1 .. r.l.len |-> Visible(r.l.cells[i])]
<1>2. sv(a) = sv(b) /\ qv(a) = qv(b) /\ lv(a) = lv(b)
  BY <1>1, SameValues
<1>3. /\ Value(a) = [p |-> a.p, n |-> ItemValue(a.n), m |-> a.m, o |-> PtrValue(a.o), present |-> a.present,
                     s |-> sv(a), q |-> qv(a), l |-> lv(a)]
      /\ Value(b) = [p |-> b.p, n |-> ItemValue(b.n), m |-> b.m, o |-> PtrValue(b.o), present |-> b.present,
                     s |-> sv(b), q |-> qv(b), l |-> lv(b)]
  BY DEF Value
<1> HIDE DEF sv, qv, lv
<1> QED BY <1>1, <1>2, <1>3

\* Each field after an occurrence of f.
LEMMA DecodeParts ==
  ASSUME NEW r, IsRoot(r), NEW f \in FieldNames, NEW v, NEW n
  PROVE  LET d == Decode(r, f, v, n)
         IN /\ d.p = IF f = "p" /\ v # <<>> THEN v[1] ELSE r.p
            /\ d.n = IF f = "n" THEN UnmarshalItem(r.n, v) ELSE r.n
            /\ d.s = IF f = "s" THEN DecodeItems(r.s, n, v) ELSE r.s
            /\ d.l = IF f = "l" THEN DecodeLists(r.l, n, v) ELSE r.l
            /\ d.m = IF f = "m" THEN PutAll(r.m, v) ELSE r.m
            /\ d.present = r.present
<1> USE DEF IsRoot, Decode
<1>1. CASE f = "p" BY <1>1
<1>2. CASE f = "n" BY <1>2
<1>3. CASE f = "s" BY <1>3
<1>4. CASE f = "q" BY <1>4
<1>5. CASE f = "l" BY <1>5
<1>6. CASE f = "m" BY <1>6
<1>7. CASE f = "o" BY <1>7
<1> QED BY <1>1, <1>2, <1>3, <1>4, <1>5, <1>6, <1>7 DEF FieldNames

\* Marking a field as seen changes nothing else.
LEMMA SeenParts ==
  ASSUME NEW r, IsRoot(r), NEW f
  PROVE  LET d == Seen(r, f)
         IN /\ d.p = r.p /\ d.n = r.n /\ d.s = r.s /\ d.q = r.q /\ d.l = r.l /\ d.m = r.m /\ d.o = r.o
            /\ d.present = r.present \cup {f} /\ IsRoot(d)
BY DEF IsRoot, Seen

-----------------------------------------------------------------------------
(* What is on the wire.                                                    *)

Typed(f, v) ==
  /\ f = "n" => v \in Bodies
  /\ f = "s" => v \in Seq(Bodies)
  /\ f = "q" => v \in Seq(PtrMsgs)
  /\ f = "l" => v \in Seq(Seq(Ints))
  /\ f = "o" => v = <<>> \/ v[1] \in PtrMsgs

\* Sequences of a bounded length, and their beginnings.
LEMMA SeqOfTyped ==
  ASSUME NEW S, NEW n \in Nat, NEW v \in SeqOf(S, n)
  PROVE  v \in Seq(S)
<1>1. PICK m \in 0 .. n : v \in [1 .. m -> S]
  BY DEF SeqOf
<1> QED BY <1>1

\* The beginning of a sequence.
LEMMA Beginning ==
  ASSUME NEW S, NEW v \in Seq(S), NEW k \in Nat, k < Len(v)
  PROVE  SubSeq(v, 1, k) \in Seq(S) /\ Len(SubSeq(v, 1, k)) = k
OBVIOUS

\* A smaller set of elements.
LEMMA SeqMono ==
  ASSUME NEW S, NEW T, S \subseteq T, NEW v \in Seq(S)
  PROVE  v \in Seq(T)
OBVIOUS

\* The contents of a field are typed, to their end or to anywhere before it.
LEMMA ContentsTyped ==
  ASSUME NEW f \in FieldNames, NEW v \in Contents(f)
  PROVE  /\ Typed(f, v) /\ Len(v) \in Nat
         /\ f \in {"p", "o"} => v # <<>>
         /\ \A k \in Nat : k < Len(v) =>
              Typed(f, SubSeq(v, 1, k)) /\ Len(SubSeq(v, 1, k)) \in Nat /\ Len(SubSeq(v, 1, k)) <= Len(v)
<1>0. MaxLen \in Nat /\ 1 \in Nat
  BY ReceiverAssumption
<1>1. ASSUME NEW S, v \in Seq(S)
      PROVE  /\ Len(v) \in Nat
             /\ \A k \in Nat : k < Len(v) =>
                  SubSeq(v, 1, k) \in Seq(S) /\ Len(SubSeq(v, 1, k)) \in Nat /\ Len(SubSeq(v, 1, k)) <= Len(v)
  <2>1. Len(v) \in Nat
    BY <1>1
  <2>2. \A k \in Nat : k < Len(v) => SubSeq(v, 1, k) \in Seq(S) /\ Len(SubSeq(v, 1, k)) = k
    BY <1>1, Beginning
  <2> QED BY <2>1, <2>2
<1>2. CASE f = "p"
  <2>1. PICK i \in Ints : v = <<i>>
    BY <1>2 DEF Contents
  <2>2. v \in Seq(Ints) /\ v # <<>>
    BY <2>1
  <2> QED BY <1>1, <1>2, <2>2 DEF Typed
<1>3. CASE f = "n"
  <2>1. v \in Seq(Occurrences)
    BY <1>3, WireBodies DEF Contents, Bodies
  <2> QED BY <1>1, <1>3, <2>1 DEF Typed, Bodies
<1>4. CASE f = "s"
  <2>1. v \in SeqOf(ItemMsgs, MaxLen)
    BY <1>4 DEF Contents
  <2>2. v \in Seq(ItemMsgs)
    BY <1>0, <2>1, SeqOfTyped
  <2>3. v \in Seq(Bodies)
    BY <2>2, WireBodies, SeqMono
  <2> QED BY <1>1, <1>4, <2>3 DEF Typed
<1>5. CASE f = "q"
  <2>1. v \in SeqOf(PtrMsgs, MaxLen)
    BY <1>5 DEF Contents
  <2>2. v \in Seq(PtrMsgs)
    BY <1>0, <2>1, SeqOfTyped
  <2> QED BY <1>1, <1>5, <2>2 DEF Typed
<1>6. CASE f = "l"
  <2>1. v \in SeqOf(SeqOf(Ints, 1), MaxLen)
    BY <1>6 DEF Contents
  <2>2. v \in Seq(SeqOf(Ints, 1)) /\ SeqOf(Ints, 1) \subseteq Seq(Ints)
    BY <1>0, <2>1, SeqOfTyped
  <2>3. v \in Seq(Seq(Ints))
    BY <2>2, SeqMono
  <2> QED BY <1>1, <1>6, <2>3 DEF Typed
<1>7. CASE f = "m"
  <2>1. v \in SeqOf(Keys \X Ints, MaxLen)
    BY <1>7 DEF Contents
  <2>2. v \in Seq(Keys \X Ints)
    BY <1>0, <2>1, SeqOfTyped
  <2> QED BY <1>1, <1>7, <2>2 DEF Typed
<1>8. CASE f = "o"
  <2>1. PICK e \in PtrMsgs : v = <<e>>
    BY <1>8 DEF Contents
  <2>2. v \in Seq(PtrMsgs) /\ v # <<>> /\ v[1] \in PtrMsgs
    BY <2>1
  <2>3. ASSUME NEW w \in Seq(PtrMsgs) PROVE w = <<>> \/ w[1] \in PtrMsgs
    OBVIOUS
  <2> QED BY <1>1, <1>8, <2>2, <2>3 DEF Typed
<1> QED BY <1>2, <1>3, <1>4, <1>5, <1>6, <1>7, <1>8 DEF FieldNames

-----------------------------------------------------------------------------
(* An occurrence of a field.                                               *)

\* A receiver stays one, wherever the decode breaks off.
LEMMA DecodeGood ==
  ASSUME NEW r, Good(r), nextId \in Nat, NEW f \in FieldNames, NEW v, Typed(f, v), Len(v) \in Nat,
         NEW n \in Nat, Len(v) <= n
  PROVE  Good(Decode(r, f, v, n))
<1> DEFINE d == Decode(r, f, v, n)
<1>0. /\ IsRoot(r) /\ IsItem(r.n) /\ IsItemPtr(r.o)
      /\ IsSlice(r.s) /\ \A i \in DOMAIN r.s.cells : IsItem(r.s.cells[i])
      /\ IsSlice(r.q) /\ \A i \in DOMAIN r.q.cells : IsItemPtr(r.q.cells[i])
      /\ IsSlice(r.l) /\ \A i \in DOMAIN r.l.cells : IsSlice(r.l.cells[i])
  BY DEF Good
<1>1. /\ IsRoot(d)
      /\ d.n = IF f = "n" THEN UnmarshalItem(r.n, v) ELSE r.n
      /\ d.s = IF f = "s" THEN DecodeItems(r.s, n, v) ELSE r.s
      /\ d.q = IF f = "q" THEN DecodePtrs(r.q, n, v) ELSE r.q
      /\ d.l = IF f = "l" THEN DecodeLists(r.l, n, v) ELSE r.l
      /\ d.o = IF f = "o" /\ v # <<>> THEN NewPtr(v[1]) ELSE r.o
  BY <1>0, DecodeParts, DecodeFacts
<1> HIDE DEF d
<1>2. IsItem(d.n)
  <2>1. CASE f = "n"
    <3>1. v \in Seq(Occurrences)
      BY <2>1 DEF Typed, Bodies
    <3>2. Alike(UnmarshalItem(r.n, v), UnmarshalItem(r.n, v))
      BY <1>0, <3>1, UnmarshalAlike
    <3> QED BY <1>1, <2>1, <3>2 DEF Alike
  <2> QED BY <1>0, <1>1, <2>1
<1>3. IsSlice(d.s) /\ \A i \in DOMAIN d.s.cells : IsItem(d.s.cells[i])
  <2>1. CASE f = "s"
    <3>1. v \in Seq(Bodies)
      BY <2>1 DEF Typed
    <3> DEFINE u == DecodeItems(r.s, n, v)
    <3>2. /\ \E g : Grown(u, r.s, n, Len(v), g)
          /\ \A i \in DOMAIN u.cells : IsItem(u.cells[i])
      BY <1>0, <3>1, ItemsShow
    <3> HIDE DEF u
    <3>3. d.s = u
      BY <1>1, <2>1 DEF u
    <3> QED BY <3>2, <3>3 DEF Grown
  <2> QED BY <1>0, <1>1, <2>1
<1>4. IsSlice(d.q) /\ \A i \in DOMAIN d.q.cells : IsItemPtr(d.q.cells[i])
  <2>1. CASE f = "q"
    <3>1. v \in Seq(PtrMsgs)
      BY <2>1 DEF Typed
    <3> DEFINE u == DecodePtrs(r.q, n, v)
    <3>2. /\ \E g : Grown(u, r.q, n, Len(v), g)
          /\ \A i \in DOMAIN u.cells : IsItemPtr(u.cells[i])
      BY <1>0, <3>1, PtrsShow
    <3> HIDE DEF u
    <3>3. d.q = u
      BY <1>1, <2>1 DEF u
    <3> QED BY <3>2, <3>3 DEF Grown
  <2> QED BY <1>0, <1>1, <2>1
<1>5. IsSlice(d.l) /\ \A i \in DOMAIN d.l.cells : IsSlice(d.l.cells[i])
  <2>1. CASE f = "l"
    <3>1. v \in Seq(Seq(Ints))
      BY <2>1 DEF Typed
    <3> DEFINE u == DecodeLists(r.l, n, v)
    <3>2. /\ \E g : Grown(u, r.l, n, Len(v), g)
          /\ \A i \in DOMAIN u.cells : IsSlice(u.cells[i])
      BY <1>0, <3>1, ListsShow
    <3> HIDE DEF u
    <3>3. d.l = u
      BY <1>1, <2>1 DEF u
    <3> QED BY <3>2, <3>3 DEF Grown
  <2> QED BY <1>0, <1>1, <2>1
<1>6. IsItemPtr(d.o)
  <2>1. CASE f = "o" /\ v # <<>>
    <3>1. v[1] \in PtrMsgs
      BY <2>1 DEF Typed
    <3>2. IsItemPtr(NewPtr(v[1]))
      BY <3>1, PointerShows
    <3> QED BY <1>1, <2>1, <3>2
  <2> QED BY <1>0, <1>1, <2>1
<1>7. Good(d)
  BY <1>1, <1>2, <1>3, <1>4, <1>5, <1>6 DEF Good
<1> QED BY <1>7 DEF d

\* What a receiver shows of the field f after v was decoded to it.
Shows(r, f, v) ==
  /\ f = "p" => r.p = v[1]
  /\ f = "o" => PtrValue(r.o) = PtrWant(v[1])
  /\ f = "s" /\ Len(v) # 0 =>
       r.s.len = Len(v) /\ \A i \in 1 .. Len(v) : ItemValue(r.s.cells[i]) = ItemValue(UnmarshalItem(ZeroItem, v[i]))
  /\ f = "q" /\ Len(v) # 0 =>
       r.q.len = Len(v) /\ \A i \in 1 .. Len(v) : PtrValue(r.q.cells[i]) = PtrWant(v[i])
  /\ f = "l" /\ Len(v) # 0 =>
       r.l.len = Len(v) /\ \A i \in 1 .. Len(v) : Visible(r.l.cells[i]) = v[i]

\* A slice that n = 0 elements were announced for is as it was.
Untouched(a, b) == a.len = b.len /\ \A i \in 1 .. b.len : a.cells[i] = b.cells[i]

\* No elements announced: nothing is touched.
LEMMA GrownNone ==
  ASSUME NEW d, NEW sl, IsSlice(sl), NEW k, NEW g, Grown(d, sl, 0, k, g)
  PROVE  Untouched(d, sl)
<1>1. DOMAIN sl.cells = 1 .. Len(sl.cells) /\ Len(sl.cells) \in Nat /\ sl.len \in 0 .. Len(sl.cells)
  BY SliceFacts
<1>2. d.len = sl.len /\ \A i \in DOMAIN sl.cells : d.cells[i] = sl.cells[i]
  BY DEF Grown
<1>3. \A i \in 1 .. sl.len : i \in DOMAIN sl.cells
  BY <1>1
<1> QED BY <1>2, <1>3 DEF Untouched

\* An occurrence shows, whatever the receiver held; an empty list shows nothing.
LEMMA DecodeShows ==
  ASSUME NEW r, Good(r), nextId \in Nat, NEW f \in FieldNames, NEW v \in Contents(f)
  PROVE  LET d == Decode(r, f, v, Len(v))
         IN /\ Shows(d, f, v)
            /\ f = "s" /\ Len(v) = 0 => Untouched(d.s, r.s)
            /\ f = "q" /\ Len(v) = 0 => Untouched(d.q, r.q)
            /\ f = "l" /\ Len(v) = 0 => Untouched(d.l, r.l)
<1> DEFINE n == Len(v)
           d == Decode(r, f, v, n)
<1>0. /\ IsRoot(r) /\ IsItem(r.n) /\ IsItemPtr(r.o)
      /\ IsSlice(r.s) /\ \A i \in DOMAIN r.s.cells : IsItem(r.s.cells[i])
      /\ IsSlice(r.q) /\ \A i \in DOMAIN r.q.cells : IsItemPtr(r.q.cells[i])
      /\ IsSlice(r.l) /\ \A i \in DOMAIN r.l.cells : IsSlice(r.l.cells[i])
  BY DEF Good
<1>1. /\ d.p = IF f = "p" /\ v # <<>> THEN v[1] ELSE r.p
      /\ d.s = IF f = "s" THEN DecodeItems(r.s, n, v) ELSE r.s
      /\ d.q = IF f = "q" THEN DecodePtrs(r.q, n, v) ELSE r.q
      /\ d.l = IF f = "l" THEN DecodeLists(r.l, n, v) ELSE r.l
      /\ d.o = IF f = "o" /\ v # <<>> THEN NewPtr(v[1]) ELSE r.o
  BY <1>0, DecodeParts, DecodeFacts
<1>2. Typed(f, v) /\ n \in Nat /\ (f \in {"p", "o"} => v # <<>>) /\ n <= n
  BY ContentsTyped
<1> HIDE DEF d
<1>3. CASE f = "p"
  BY <1>1, <1>2, <1>3 DEF Shows, d
<1>4. CASE f = "o"
  <2>1. v[1] \in PtrMsgs
    BY <1>2, <1>4 DEF Typed
  <2>2. PtrValue(NewPtr(v[1])) = PtrWant(v[1])
    BY <2>1, PointerShows
  <2> QED BY <1>1, <1>2, <1>4, <2>2 DEF Shows, d
<1>5. CASE f = "s"
  <2>1. v \in Seq(Bodies)
    BY <1>2, <1>5 DEF Typed
  <2> DEFINE u == DecodeItems(r.s, n, v)
  <2>2. \E g : /\ Grown(u, r.s, n, n, g)
               /\ \A i \in 1 .. n : ItemValue(g[i]) = ItemValue(UnmarshalItem(ZeroItem, v[i]))
    BY <1>0, <1>2, <2>1, ItemsShow
  <2> HIDE DEF u, n
  <2>3. PICK g : /\ Grown(u, r.s, n, n, g)
                 /\ \A i \in 1 .. n : ItemValue(g[i]) = ItemValue(UnmarshalItem(ZeroItem, v[i]))
    BY <2>2
  <2>4. d.s = u
    BY <1>1, <1>5 DEF u
  <2>5. n = 0 => Untouched(d.s, r.s)
    BY <1>0, <2>3, <2>4, GrownNone
  <2>6. n # 0 => d.s.len = n /\ \A i \in 1 .. n : ItemValue(d.s.cells[i]) = ItemValue(UnmarshalItem(ZeroItem, v[i]))
    BY <2>3, <2>4 DEF Grown
  <2> QED BY <1>5, <2>5, <2>6 DEF Shows, d, n
<1>6. CASE f = "q"
  <2>1. v \in Seq(PtrMsgs)
    BY <1>2, <1>6 DEF Typed
  <2> DEFINE u == DecodePtrs(r.q, n, v)
  <2>2. \E g : /\ Grown(u, r.q, n, n, g)
               /\ \A i \in 1 .. n : PtrValue(g[i]) = PtrWant(v[i])
    BY <1>0, <1>2, <2>1, PtrsShow
  <2> HIDE DEF u, n
  <2>3. PICK g : /\ Grown(u, r.q, n, n, g)
                 /\ \A i \in 1 .. n : PtrValue(g[i]) = PtrWant(v[i])
    BY <2>2
  <2>4. d.q = u
    BY <1>1, <1>6 DEF u
  <2>5. n = 0 => Untouched(d.q, r.q)
    BY <1>0, <2>3, <2>4, GrownNone
  <2>6. n # 0 => d.q.len = n /\ \A i \in 1 .. n : PtrValue(d.q.cells[i]) = PtrWant(v[i])
    BY <2>3, <2>4 DEF Grown
  <2> QED BY <1>6, <2>5, <2>6 DEF Shows, d, n
<1>7. CASE f = "l"
  <2>1. v \in Seq(Seq(Ints))
    BY <1>2, <1>7 DEF Typed
  <2> DEFINE u == DecodeLists(r.l, n, v)
  <2>2. \E g : /\ Grown(u, r.l, n, n, g)
               /\ \A i \in 1 .. n : Visible(g[i]) = v[i]
    BY <1>0, <1>2, <2>1, ListsShow
  <2> HIDE DEF u, n
  <2>3. PICK g : /\ Grown(u, r.l, n, n, g)
                 /\ \A i \in 1 .. n : Visible(g[i]) = v[i]
    BY <2>2
  <2>4. d.l = u
    BY <1>1, <1>7 DEF u
  <2>5. n = 0 => Untouched(d.l, r.l)
    BY <1>0, <2>3, <2>4, GrownNone
  <2>6. n # 0 => d.l.len = n /\ \A i \in 1 .. n : Visible(d.l.cells[i]) = v[i]
    BY <2>3, <2>4 DEF Grown
  <2> QED BY <1>7, <2>5, <2>6 DEF Shows, d, n
<1>8. CASE f \in {"n", "m"}
  BY <1>8 DEF Shows
<1> QED BY <1>3, <1>4, <1>5, <1>6, <1>7, <1>8 DEF FieldNames

-----------------------------------------------------------------------------
(* The zero receiver and Reset.                                            *)

\* The zero receiver.
LEMMA ZeroFacts ==
  /\ ZeroRoot.p = 0 /\ ZeroRoot.n = ZeroItem /\ ZeroRoot.s = NoSlice /\ ZeroRoot.q = NoSlice
  /\ ZeroRoot.l = NoSlice /\ ZeroRoot.m = <<>> /\ ZeroRoot.o = NilPtr /\ ZeroRoot.present = {}
  /\ Good(ZeroRoot)
<1>1. /\ ZeroRoot.p = 0 /\ ZeroRoot.n = ZeroItem /\ ZeroRoot.s = NoSlice /\ ZeroRoot.q = NoSlice
      /\ ZeroRoot.l = NoSlice /\ ZeroRoot.m = <<>> /\ ZeroRoot.o = NilPtr /\ ZeroRoot.present = {}
      /\ IsRoot(ZeroRoot)
  BY DEF ZeroRoot, IsRoot
<1>2. IsItemPtr(NilPtr)
  BY ResetItemFacts DEF NilPtr, IsItemPtr, IsPtr
<1> QED BY <1>1, <1>2, ResetItemFacts, NoSliceFacts DEF Good

\* Other cells in a slice that is truncated.
LEMMA Truncated ==
  ASSUME NEW sl, IsSlice(sl), NEW c, DOMAIN c = DOMAIN sl.cells, c = [i \in DOMAIN c |-> c[i]],
         NEW d, d = [cells |-> c, len |-> 0]
  PROVE  IsSlice(d) /\ d.len = 0 /\ d.cells = c
<1>1. d.len = 0 /\ d.cells = c /\ d = [cells |-> d.cells, len |-> d.len]
  BY SliceParts
<1>2. DOMAIN c = 1 .. Len(sl.cells) /\ Len(sl.cells) \in Nat
  BY SliceFacts
<1>3. PICK m \in Nat : DOMAIN c = 1 .. m
  BY <1>2
<1>4. d.cells = [i \in 1 .. m |-> d.cells[i]] /\ d.len \in 0 .. m
  <2>1. c = [i \in 1 .. m |-> c[i]] /\ 0 \in 0 .. m
    BY <1>3
  <2> QED BY <1>1, <2>1
<1> QED BY <1>1, <1>4 DEF IsSlice

\* Slices of no length are the same.
LEMMA NoneSame ==
  ASSUME NEW a, NEW b, a.len = 0, b.len = 0
  PROVE  SameItems(a, b) /\ SamePtrs(a, b) /\ SameLists(a, b)
<1>1. 1 .. a.len = {}
  OBVIOUS
<1> QED BY <1>1 DEF SameItems, SamePtrs, SameLists

\* After Reset a receiver shows what a new one shows.
LEMMA ResetGood ==
  ASSUME NEW r, Good(r)
  PROVE  Good(Reset(r)) /\ Same(Reset(r), ZeroRoot)
<1>0. /\ IsRoot(r) /\ IsItem(r.n)
      /\ IsSlice(r.s) /\ \A i \in DOMAIN r.s.cells : IsItem(r.s.cells[i])
      /\ IsSlice(r.q) /\ \A i \in DOMAIN r.q.cells : IsItemPtr(r.q.cells[i])
      /\ IsSlice(r.l) /\ \A i \in DOMAIN r.l.cells : IsSlice(r.l.cells[i])
  BY DEF Good
<1> DEFINE rn == ResetItem(r.n)
           sc == [i \in DOMAIN r.s.cells |->
                    IF i <= r.s.len THEN ResetItem(r.s.cells[i]) ELSE r.s.cells[i]]
           rs == [cells |-> sc, len |-> 0]
           qc == [i \in DOMAIN r.q.cells |-> IF i <= r.q.len THEN NilPtr ELSE r.q.cells[i]]
           rq == [cells |-> qc, len |-> 0]
           lc == [i \in DOMAIN r.l.cells |-> IF i <= r.l.len THEN NoSlice ELSE r.l.cells[i]]
           rl == [cells |-> lc, len |-> 0]
           R == Reset(r)
<1>1. Reset(r) = [ZeroRoot EXCEPT !.n = rn, !.s = rs, !.q = rq, !.l = rl]
  BY DEF Reset, Cleared
<1>2. IsItemPtr(NilPtr)
  BY ResetItemFacts DEF NilPtr, IsItemPtr, IsPtr
<1>3. IsSlice(rs) /\ rs.len = 0 /\ rs.cells = sc /\ \A i \in DOMAIN sc : IsItem(sc[i])
  <2>1. DOMAIN sc = DOMAIN r.s.cells /\ sc = [i \in DOMAIN sc |-> sc[i]]
    OBVIOUS
  <2>2. \A i \in DOMAIN sc : IsItem(sc[i])
    BY <1>0, ResetItemFacts
  <2> HIDE DEF sc
  <2> QED BY <1>0, <2>1, <2>2, Truncated
<1>4. IsSlice(rq) /\ rq.len = 0 /\ rq.cells = qc /\ \A i \in DOMAIN qc : IsItemPtr(qc[i])
  <2>1. DOMAIN qc = DOMAIN r.q.cells /\ qc = [i \in DOMAIN qc |-> qc[i]]
    OBVIOUS
  <2>2. \A i \in DOMAIN qc : IsItemPtr(qc[i])
    BY <1>0, <1>2
  <2> HIDE DEF qc
  <2> QED BY <1>0, <2>1, <2>2, Truncated
<1>5. IsSlice(rl) /\ rl.len = 0 /\ rl.cells = lc /\ \A i \in DOMAIN lc : IsSlice(lc[i])
  <2>1. DOMAIN lc = DOMAIN r.l.cells /\ lc = [i \in DOMAIN lc |-> lc[i]]
    OBVIOUS
  <2>2. \A i \in DOMAIN lc : IsSlice(lc[i])
    BY <1>0, NoSliceFacts
  <2> HIDE DEF lc
  <2> QED BY <1>0, <2>1, <2>2, Truncated
<1>6. IsItem(rn) /\ ItemValue(rn) = ItemValue(ZeroItem)
  BY <1>0, ResetItemFacts, AlikeParts
<1> HIDE DEF rn, rs, rq, rl, sc, qc, lc
<1>7. Reset(r) = [p |-> 0, n |-> rn, s |-> rs, q |-> rq, l |-> rl, m |-> <<>>, o |-> NilPtr,
                  present |-> {}]
  BY <1>1 DEF ZeroRoot
<1> HIDE DEF R
<1>8. /\ R.p = 0 /\ R.n = rn /\ R.s = rs /\ R.q = rq /\ R.l = rl /\ R.m = <<>> /\ R.o = NilPtr
      /\ R.present = {} /\ IsRoot(R)
  BY <1>7 DEF IsRoot, R
<1>9. Good(R)
  BY <1>2, <1>3, <1>4, <1>5, <1>6, <1>8 DEF Good
<1>10. SameItems(rs, NoSlice) /\ SamePtrs(rq, NoSlice) /\ SameLists(rl, NoSlice)
  BY <1>3, <1>4, <1>5, NoSliceFacts, NoneSame
<1>11. Same(R, ZeroRoot)
  BY <1>6, <1>8, <1>10, ZeroFacts DEF Same
<1> QED BY <1>9, <1>11 DEF R

-----------------------------------------------------------------------------
(* Receivers that are the same stay the same.                              *)

\* Slices that show the same, before and after.
LEMMA UntouchedSame ==
  ASSUME NEW a, NEW b, NEW c, NEW d, Untouched(c, a), Untouched(d, b)
  PROVE  /\ SameItems(a, b) => SameItems(c, d)
         /\ SamePtrs(a, b) => SamePtrs(c, d)
         /\ SameLists(a, b) => SameLists(c, d)
BY DEF Untouched, SameItems, SamePtrs, SameLists

\* An occurrence of a field leaves what is the same the same.
LEMMA DecodeSame ==
  ASSUME NEW a, NEW b, Good(a), Good(b), Same(a, b), nextId \in Nat,
         NEW f \in FieldNames, NEW v \in Contents(f)
  PROVE  Same(Decode(a, f, v, Len(v)), Decode(b, f, v, Len(v)))
<1> DEFINE n == Len(v)
           c == Decode(a, f, v, n)
           d == Decode(b, f, v, n)
<1>1. /\ a.p = b.p /\ a.m = b.m /\ a.present = b.present
      /\ ItemValue(a.n) = ItemValue(b.n) /\ PtrValue(a.o) = PtrValue(b.o)
      /\ SameItems(a.s, b.s) /\ SamePtrs(a.q, b.q) /\ SameLists(a.l, b.l)
  BY DEF Same
<1>2. IsRoot(a) /\ IsRoot(b) /\ IsItem(a.n) /\ IsItem(b.n)
  BY DEF Good
<1>3. /\ c.p = (IF f = "p" /\ v # <<>> THEN v[1] ELSE a.p) /\ d.p = (IF f = "p" /\ v # <<>> THEN v[1] ELSE b.p)
      /\ c.m = (IF f = "m" THEN PutAll(a.m, v) ELSE a.m) /\ d.m = (IF f = "m" THEN PutAll(b.m, v) ELSE b.m)
      /\ c.present = a.present /\ d.present = b.present
      /\ c.n = (IF f = "n" THEN UnmarshalItem(a.n, v) ELSE a.n)
      /\ d.n = (IF f = "n" THEN UnmarshalItem(b.n, v) ELSE b.n)
      /\ f # "s" => c.s = a.s /\ d.s = b.s
      /\ f # "q" => c.q = a.q /\ d.q = b.q
      /\ f # "l" => c.l = a.l /\ d.l = b.l
      /\ f # "o" => c.o = a.o /\ d.o = b.o
  BY <1>2, DecodeParts, DecodeFacts
<1>4. /\ Shows(c, f, v) /\ Shows(d, f, v)
      /\ f = "s" /\ n = 0 => Untouched(c.s, a.s) /\ Untouched(d.s, b.s)
      /\ f = "q" /\ n = 0 => Untouched(c.q, a.q) /\ Untouched(d.q, b.q)
      /\ f = "l" /\ n = 0 => Untouched(c.l, a.l) /\ Untouched(d.l, b.l)
  BY DecodeShows
<1>5. Typed(f, v)
  BY ContentsTyped
<1> HIDE DEF c, d, n
<1>6. c.p = d.p /\ c.m = d.m /\ c.present = d.present
  BY <1>1, <1>3
<1>7. ItemValue(c.n) = ItemValue(d.n)
  <2>1. CASE f = "n"
    <3>1. v \in Seq(Occurrences)
      BY <1>5, <2>1 DEF Typed, Bodies
    <3>2. a.n.x = b.n.x /\ Visible(a.n.t) = Visible(b.n.t)
      BY <1>1, AlikeParts
    <3>3. Alike(UnmarshalItem(a.n, v), UnmarshalItem(b.n, v))
      BY <1>2, <3>1, <3>2, UnmarshalAlike
    <3> QED BY <1>3, <2>1, <3>3 DEF Alike
  <2> QED BY <1>1, <1>3, <2>1
<1>8. PtrValue(c.o) = PtrValue(d.o)
  <2>1. CASE f = "o"
    BY <1>4, <2>1 DEF Shows
  <2> QED BY <1>1, <1>3, <2>1
<1>9. SameItems(c.s, d.s)
  <2>1. CASE f = "s" /\ n = 0
    BY <1>1, <1>4, <2>1, UntouchedSame
  <2>2. CASE f = "s" /\ n # 0
    BY <1>4, <2>2 DEF Shows, SameItems, n
  <2> QED BY <1>1, <1>3, <2>1, <2>2
<1>10. SamePtrs(c.q, d.q)
  <2>1. CASE f = "q" /\ n = 0
    BY <1>1, <1>4, <2>1, UntouchedSame
  <2>2. CASE f = "q" /\ n # 0
    BY <1>4, <2>2 DEF Shows, SamePtrs, n
  <2> QED BY <1>1, <1>3, <2>1, <2>2
<1>11. SameLists(c.l, d.l)
  <2>1. CASE f = "l" /\ n = 0
    BY <1>1, <1>4, <2>1, UntouchedSame
  <2>2. CASE f = "l" /\ n # 0
    BY <1>4, <2>2 DEF Shows, SameLists, n
  <2> QED BY <1>1, <1>3, <2>1, <2>2
<1>12. Same(c, d)
  BY <1>6, <1>7, <1>8, <1>9, <1>10, <1>11 DEF Same
<1> QED BY <1>12 DEF c, d, n

\* Marking the field as seen, too.
LEMMA SeenSame ==
  ASSUME NEW a, NEW b, IsRoot(a), IsRoot(b), NEW f
  PROVE  /\ Same(a, b) => Same(Seen(a, f), Seen(b, f))
         /\ Good(a) => Good(Seen(a, f))
         /\ \A g, w : Shows(a, g, w) => Shows(Seen(a, f), g, w)
<1> DEFINE c == Seen(a, f)
           d == Seen(b, f)
<1>1. /\ c.p = a.p /\ c.n = a.n /\ c.s = a.s /\ c.q = a.q /\ c.l = a.l /\ c.m = a.m /\ c.o = a.o
      /\ c.present = a.present \cup {f} /\ IsRoot(c)
  BY SeenParts
<1>2. /\ d.p = b.p /\ d.n = b.n /\ d.s = b.s /\ d.q = b.q /\ d.l = b.l /\ d.m = b.m /\ d.o = b.o
      /\ d.present = b.present \cup {f} /\ IsRoot(d)
  BY SeenParts
<1> HIDE DEF c, d
<1>3. Same(a, b) => Same(c, d)
  BY <1>1, <1>2 DEF Same
<1>4. Good(a) => Good(c)
  BY <1>1 DEF Good
<1>5. \A g, w : Shows(a, g, w) => Shows(c, g, w)
  BY <1>1 DEF Shows
<1> QED BY <1>3, <1>4, <1>5 DEF c, d

-----------------------------------------------------------------------------
(* The last occurrence of a field.                                         *)

\* The occurrences a body may hold.
OccsOf == UNION {[f : {g}, v : Contents(g)] : g \in FieldNames}

\* The fields of r after the occurrences ms: as in a new receiver, or as the
\* last occurrence left them.
LastSeen(r, ms) ==
  /\ (\A i \in DOMAIN ms : ms[i].f # "p") => r.p = 0
  /\ (\A i \in DOMAIN ms : ms[i].f # "o") => PtrValue(r.o) = PtrValue(NilPtr)
  /\ \A i \in DOMAIN ms :
       (\A j \in DOMAIN ms : i < j => ms[j].f # ms[i].f) => Shows(r, ms[i].f, ms[i].v)

\* An occurrence is a field and its contents.
LEMMA OccFacts ==
  /\ \A e \in OccsOf : e.f \in FieldNames /\ e.v \in Contents(e.f)
  /\ \A f \in FieldNames : \A v \in Contents(f) : [f |-> f, v |-> v] \in OccsOf
<1>1. ASSUME NEW e \in OccsOf PROVE e.f \in FieldNames /\ e.v \in Contents(e.f)
  <2>1. PICK g \in FieldNames : e \in [f : {g}, v : Contents(g)]
    BY DEF OccsOf
  <2>2. e.f = g /\ e.v \in Contents(g)
    BY <2>1
  <2> QED BY <2>2
<1>2. ASSUME NEW f \in FieldNames, NEW v \in Contents(f) PROVE [f |-> f, v |-> v] \in OccsOf
  <2>1. [f |-> f, v |-> v] \in [f : {f}, v : Contents(f)]
    OBVIOUS
  <2> QED BY <2>1 DEF OccsOf
<1> QED BY <1>1, <1>2

\* An occurrence leaves what the others show.
LEMMA ShowsOther ==
  ASSUME NEW r, IsRoot(r), NEW f \in FieldNames, NEW v, NEW n, NEW g, g # f, NEW w, Shows(r, g, w)
  PROVE  Shows(Decode(r, f, v, n), g, w)
<1> DEFINE d == Decode(r, f, v, n)
<1>1. /\ f # "p" => d.p = r.p
      /\ f # "s" => d.s = r.s
      /\ f # "q" => d.q = r.q
      /\ f # "l" => d.l = r.l
      /\ f # "o" => d.o = r.o
  BY DecodeParts, DecodeFacts
<1> HIDE DEF d
<1>2. Shows(d, g, w)
  BY <1>1 DEF Shows
<1> QED BY <1>2 DEF d

\* One occurrence more.
LEMMA LastNext ==
  ASSUME NEW r, Good(r), nextId \in Nat, NEW ms \in Seq(OccsOf), LastSeen(r, ms),
         NEW f \in FieldNames, NEW v \in Contents(f)
  PROVE  LastSeen(Seen(Decode(r, f, v, Len(v)), f), Append(ms, [f |-> f, v |-> v]))
<1> DEFINE d == Decode(r, f, v, Len(v))
           s == Seen(d, f)
           e == [f |-> f, v |-> v]
           nx == Append(ms, e)
           n == Len(ms)
<1>0. e \in OccsOf /\ e.f = f /\ e.v = v
  BY OccFacts
<1> HIDE DEF e
<1>1. /\ n \in Nat /\ DOMAIN ms = 1 .. n /\ DOMAIN nx = 1 .. n + 1
      /\ nx[n + 1] = e /\ \A i \in 1 .. n : nx[i] = ms[i]
  BY <1>0
<1>2. IsRoot(r) /\ IsRoot(d)
  BY DecodeFacts DEF Good
<1>3. /\ f # "p" => d.p = r.p
      /\ f # "o" => d.o = r.o
  BY <1>2, DecodeParts, DecodeFacts
<1>4. s.p = d.p /\ s.o = d.o
  BY <1>2, SeenParts
<1>5. Shows(d, f, v)
  BY DecodeShows
<1>6. \A g, w : g # f /\ Shows(r, g, w) => Shows(d, g, w)
  BY <1>2, ShowsOther
<1>7. \A g, w : Shows(d, g, w) => Shows(s, g, w)
  BY <1>2, SeenSame
<1> HIDE DEF d, s, nx, n
<1>8. ASSUME \A i \in DOMAIN nx : nx[i].f # "p" PROVE s.p = 0
  <2>1. \A i \in DOMAIN ms : ms[i].f # "p"
    BY <1>1, <1>8
  <2>2. f # "p"
    BY <1>0, <1>1, <1>8
  <2> QED BY <1>3, <1>4, <2>1, <2>2 DEF LastSeen
<1>9. ASSUME \A i \in DOMAIN nx : nx[i].f # "o" PROVE PtrValue(s.o) = PtrValue(NilPtr)
  <2>1. \A i \in DOMAIN ms : ms[i].f # "o"
    BY <1>1, <1>9
  <2>2. f # "o"
    BY <1>0, <1>1, <1>9
  <2> QED BY <1>3, <1>4, <2>1, <2>2 DEF LastSeen
<1>10. ASSUME NEW i \in DOMAIN nx, \A j \in DOMAIN nx : i < j => nx[j].f # nx[i].f
       PROVE  Shows(s, nx[i].f, nx[i].v)
  <2>1. CASE i = n + 1
    BY <1>0, <1>1, <1>5, <1>7, <2>1
  <2>2. CASE i \in 1 .. n
    <3>1. nx[i] = ms[i] /\ nx[n + 1] = e /\ n + 1 \in DOMAIN nx /\ i < n + 1
      BY <1>1, <2>2
    <3>2. ms[i].f # f
      BY <1>0, <1>10, <3>1
    <3>3. ASSUME NEW j \in DOMAIN ms, i < j PROVE ms[j].f # ms[i].f
      <4>1. j \in DOMAIN nx /\ nx[j] = ms[j]
        BY <1>1
      <4> QED BY <1>10, <3>1, <3>3, <4>1
    <3>4. Shows(r, ms[i].f, ms[i].v)
      BY <1>1, <2>2, <3>3 DEF LastSeen
    <3> QED BY <1>6, <1>7, <3>1, <3>2, <3>4
  <2>3. i \in 1 .. n \/ i = n + 1
    BY <1>1
  <2> QED BY <2>1, <2>2, <2>3
<1>11. LastSeen(s, nx)
  BY <1>8, <1>9, <1>10 DEF LastSeen
<1> QED BY <1>11 DEF s, d, nx, e

\* The largest of a set of indices.
LEMMA MaxIn ==
  ASSUME NEW n \in Nat, NEW S, S \subseteq 1 .. n, S # {}
  PROVE  Max(S) \in S /\ \A i \in S : i <= Max(S)
<1> DEFINE T == {m \in Nat : \A i \in S : i <= m}
<1>1. n \in T /\ T \subseteq Nat
  OBVIOUS
<1>2. PICK m \in T : \A k \in T : m <= k
  <2> HIDE DEF T
  <2> QED BY <1>1, Least
<1>3. m \in Nat /\ \A i \in S : i \in Nat /\ i <= m /\ i # 0
  BY <1>2
<1>4. m \in S
  <2> SUFFICES ASSUME m \notin S PROVE FALSE
    OBVIOUS
  <2>1. PICK i \in S : TRUE
    OBVIOUS
  <2>2. m # 0 /\ m - 1 \in Nat
    BY <1>3, <2>1
  <2>3. \A k \in S : k <= m - 1
    BY <1>3
  <2>4. m - 1 \in T
    BY <2>2, <2>3
  <2>5. m <= m - 1
    BY <1>2, <2>4
  <2> QED BY <1>3, <2>5
<1>5. \E x \in S : \A y \in S : x >= y
  BY <1>3, <1>4
<1>6. Max(S) \in S /\ \A y \in S : Max(S) >= y
  BY <1>5 DEF Max
<1>7. \A y \in S : Max(S) \in Nat /\ y \in Nat
  BY <1>3, <1>6
<1> QED BY <1>6, <1>7

-----------------------------------------------------------------------------
(* The receiver beside a new one.                                          *)

\* Receivers stay receivers however a decode ends; while a body is decoded, and
\* after, the receiver shows what a new one shows and what came last.
RInv ==
  /\ Good(dst) /\ Good(ref) /\ msg \in Seq(OccsOf)
  /\ phase \in {"decode", "ok"} => Same(dst, ref) /\ LastSeen(dst, msg)

\* The start.
LEMMA RInvInit == Init => RInv
<1> SUFFICES ASSUME Init PROVE RInv
  OBVIOUS
<1>1. dst = ZeroRoot /\ ref = ZeroRoot /\ phase = "idle" /\ msg = <<>>
  BY DEF Init
<1>2. <<>> \in Seq(OccsOf)
  OBVIOUS
<1> QED BY <1>1, <1>2, ZeroFacts DEF RInv

\* A receiver before the first occurrence.
LEMMA NothingSeen ==
  ASSUME NEW r, Same(r, ZeroRoot)
  PROVE  LastSeen(r, <<>>)
<1>1. r.p = 0 /\ PtrValue(r.o) = PtrValue(NilPtr)
  BY ZeroFacts DEF Same
<1>2. DOMAIN <<>> = {}
  OBVIOUS
<1> QED BY <1>1, <1>2 DEF LastSeen

\* Every step keeps the invariant.
LEMMA RInvStep == IInv /\ RInv /\ [Next]_vars => RInv'
<1> SUFFICES ASSUME IInv, RInv, [Next]_vars PROVE RInv'
  OBVIOUS
<1>0. /\ nextId \in Nat /\ fields \in FieldSets
      /\ Good(dst) /\ Good(ref) /\ msg \in Seq(OccsOf)
      /\ phase \in {"decode", "ok"} => Same(dst, ref) /\ LastSeen(dst, msg)
  BY DEF IInv, Types, RInv
<1>a. ASSUME NEW f \in fields PROVE f \in FieldNames
  BY <1>0, ReceiverAssumption
<1>1. CASE DecodeInto
  <2>1. phase' = "decode" /\ dst' = Reset(dst) /\ ref' = ZeroRoot /\ msg' = <<>>
    BY <1>1 DEF DecodeInto
  <2>2. Good(Reset(dst)) /\ Same(Reset(dst), ZeroRoot)
    BY <1>0, ResetGood
  <2>3. LastSeen(Reset(dst), <<>>)
    BY <2>2, NothingSeen
  <2>4. <<>> \in Seq(OccsOf)
    OBVIOUS
  <2> QED BY <2>1, <2>2, <2>3, <2>4, ZeroFacts DEF RInv
<1>2. ASSUME NEW f \in fields, NEW v \in Contents(f), Field(f, v) PROVE RInv'
  <2> DEFINE c == Decode(dst, f, v, Len(v))
             d == Decode(ref, f, v, Len(v))
             e == [f |-> f, v |-> v]
  <2>1. /\ phase = "decode" /\ phase' = "decode" /\ dst' = Seen(c, f) /\ ref' = Seen(d, f)
        /\ msg' = Append(msg, e)
    BY <1>2 DEF Field
  <2>2. f \in FieldNames /\ Typed(f, v) /\ Len(v) \in Nat /\ Len(v) <= Len(v)
    BY <1>a, ContentsTyped
  <2>3. Good(c) /\ Good(d)
    BY <1>0, <2>2, DecodeGood
  <2>4. Same(c, d)
    BY <1>0, <2>1, <2>2, DecodeSame
  <2>5. LastSeen(Seen(c, f), Append(msg, e))
    BY <1>0, <2>1, <2>2, LastNext
  <2>6. e \in OccsOf
    BY <2>2, OccFacts
  <2> HIDE DEF c, d, e
  <2>7. Append(msg, e) \in Seq(OccsOf)
    BY <1>0, <2>6
  <2>8. IsRoot(c) /\ IsRoot(d)
    BY <2>3 DEF Good
  <2>9. Good(Seen(c, f)) /\ Good(Seen(d, f)) /\ Same(Seen(c, f), Seen(d, f))
    BY <2>3, <2>4, <2>8, SeenSame
  <2> QED BY <2>1, <2>5, <2>7, <2>9 DEF RInv
<1>3. ASSUME NEW f \in fields, NEW v \in Contents(f), NEW k \in 0 .. MaxLen, FailInside(f, v, k)
      PROVE  RInv'
  <2> DEFINE w == SubSeq(v, 1, k)
             c == Decode(dst, f, w, Len(v))
  <2>1. phase' = "failed" /\ dst' = c /\ UNCHANGED <<ref, msg>> /\ k < Len(v)
    BY <1>3 DEF FailInside
  <2>2. f \in FieldNames /\ k \in Nat
    BY <1>a
  <2>3. Typed(f, w) /\ Len(w) \in Nat /\ Len(w) <= Len(v) /\ Len(v) \in Nat
    BY <2>1, <2>2, ContentsTyped
  <2> HIDE DEF w
  <2>4. Good(c)
    BY <1>0, <2>2, <2>3, DecodeGood
  <2> HIDE DEF c
  <2> QED BY <1>0, <2>1, <2>4 DEF RInv
<1>4. CASE FailHere
  BY <1>0, <1>4 DEF FailHere, RInv
<1>5. CASE Done
  BY <1>0, <1>5 DEF Done, RInv
<1>6. CASE UNCHANGED vars
  BY <1>0, <1>6 DEF vars, RInv
<1> QED BY <1>1, <1>2, <1>3, <1>4, <1>5, <1>6 DEF Next

\* A pooled receiver decodes every body to the value a new one would, presence
\* bits included, for any item bodies, field sets and numbers of decodes, and
\* wherever the decodes before it broke off: what Reset and the reuse of cells
\* leave behind is never seen.
THEOREM ReuseUnseen == Spec => []ReuseIsInvisible
<1>1. RInv => ReuseIsInvisible
  BY SameValue DEF RInv, ReuseIsInvisible
<1> QED BY <1>1, ReceiverInit, ReceiverStep, RInvInit, RInvStep, PTL DEF Spec

-----------------------------------------------------------------------------
(* The value of the last occurrence.                                       *)

\* The last occurrence alone, and the receiver that saw it last.
LEMMA LastOnlyShows ==
  ASSUME IInv, RInv, phase = "ok", NEW f \in FieldNames
  PROVE  \/ /\ \A i \in DOMAIN msg : msg[i].f # f
            /\ LastOnly(f) = ZeroRoot
         \/ \E v \in Contents(f) :
              /\ Shows(dst, f, v) /\ Shows(LastOnly(f), f, v)
              /\ f = "s" /\ Len(v) = 0 => LastOnly(f).s.len = 0
              /\ f = "q" /\ Len(v) = 0 => LastOnly(f).q.len = 0
              /\ f = "l" /\ Len(v) = 0 => LastOnly(f).l.len = 0
<1>0. nextId \in Nat /\ msg \in Seq(OccsOf) /\ LastSeen(dst, msg)
  BY DEF IInv, Types, RInv
<1> DEFINE at == {i \in DOMAIN msg : msg[i].f = f}
           v == msg[Max(at)].v
<1>1. LastOnly(f) = IF at = {} THEN ZeroRoot ELSE Decode(ZeroRoot, f, v, Len(v))
  BY DEF LastOnly
<1>2. CASE at = {}
  BY <1>1, <1>2
<1>3. CASE at # {}
  <2>1. at \subseteq 1 .. Len(msg) /\ Len(msg) \in Nat /\ DOMAIN msg = 1 .. Len(msg)
    BY <1>0
  <2> DEFINE k == Max(at)
  <2>2. k \in at /\ \A i \in at : i <= k
    <3> HIDE DEF at
    <3> QED BY <1>3, <2>1, MaxIn
  <2>3. k \in DOMAIN msg /\ msg[k].f = f /\ msg[k] \in OccsOf
    BY <1>0, <2>2
  <2>4. ASSUME NEW j \in DOMAIN msg, k < j PROVE msg[j].f # msg[k].f
    <3>1. msg[j].f = f => j \in at
      OBVIOUS
    <3>2. j \in Nat /\ k \in Nat
      BY <2>1, <2>3
    <3> HIDE DEF k, at
    <3>3. j \notin at
      BY <2>2, <2>4, <3>2
    <3> QED BY <2>3, <3>1, <3>3
  <2> HIDE DEF k, at
  <2>5. v = msg[k].v
    BY DEF k
  <2> HIDE DEF v
  <2>6. v \in Contents(f) /\ Shows(dst, f, v)
    BY <1>0, <2>3, <2>4, <2>5, OccFacts DEF LastSeen
  <2> DEFINE d == Decode(ZeroRoot, f, v, Len(v))
  <2>7. /\ Shows(d, f, v)
        /\ f = "s" /\ Len(v) = 0 => Untouched(d.s, ZeroRoot.s)
        /\ f = "q" /\ Len(v) = 0 => Untouched(d.q, ZeroRoot.q)
        /\ f = "l" /\ Len(v) = 0 => Untouched(d.l, ZeroRoot.l)
    BY <1>0, <2>6, ZeroFacts, DecodeShows
  <2>8. LastOnly(f) = d
    BY <1>1, <1>3
  <2> HIDE DEF d
  <2>9. /\ f = "s" /\ Len(v) = 0 => d.s.len = 0
        /\ f = "q" /\ Len(v) = 0 => d.q.len = 0
        /\ f = "l" /\ Len(v) = 0 => d.l.len = 0
    BY <2>7, ZeroFacts, NoSliceFacts DEF Untouched
  <2> QED BY <2>6, <2>7, <2>8, <2>9
<1> QED BY <1>2, <1>3

\* The parts of a value.
LEMMA ValueParts ==
  ASSUME NEW r
  PROVE  /\ Value(r).p = r.p /\ Value(r).o = PtrValue(r.o)
         /\ Value(r).s = [i \in 1 .. r.s.len |-> ItemValue(r.s.cells[i])]
         /\ Value(r).q = [i \in 1 .. r.q.len |-> PtrValue(r.q.cells[i])]
         /\ Value(r).l = [i \in 1 .. r.l.len |-> Visible(r.l.cells[i])]
<1> DEFINE sv == [i \in 1 .. r.s.len |-> ItemValue(r.s.cells[i])]
           qv == [i \in 1 .. r.q.len |-> PtrValue(r.q.cells[i])]
           lv == [i \in 1 .. r.l.len |-> Visible(r.l.cells[i])]
<1>1. Value(r) = [p |-> r.p, n |-> ItemValue(r.n), m |-> r.m, o |-> PtrValue(r.o), present |-> r.present,
                  s |-> sv, q |-> qv, l |-> lv]
  BY DEF Value
<1> HIDE DEF sv, qv, lv
<1>2. /\ Value(r).p = r.p /\ Value(r).o = PtrValue(r.o)
      /\ Value(r).s = sv /\ Value(r).q = qv /\ Value(r).l = lv
  BY <1>1
<1> QED BY <1>2 DEF sv, qv, lv

\* For any bodies, however often and in whatever order tags repeat in them and
\* whatever the pooled receiver held: a primitive and an optional have the value
\* of the last occurrence of their tag, and so has a slice when that occurrence
\* is not empty.
THEOREM LastWins == Spec => []LastOccurrenceWins
<1>1. IInv /\ RInv => LastOccurrenceWins
  <2> SUFFICES ASSUME IInv, RInv, phase = "ok"
               PROVE  LET got == Value(dst)
                          want(f) == Value(LastOnly(f))
                      IN /\ got.p = want("p").p /\ got.o = want("o").o
                         /\ want("s").s # <<>> => got.s = want("s").s
                         /\ want("q").q # <<>> => got.q = want("q").q
                         /\ want("l").l # <<>> => got.l = want("l").l
    BY DEF LastOccurrenceWins
  <2> DEFINE Case(f) ==
               \/ /\ \A i \in DOMAIN msg : msg[i].f # f
                  /\ LastOnly(f) = ZeroRoot
               \/ \E v \in Contents(f) :
                    /\ Shows(dst, f, v) /\ Shows(LastOnly(f), f, v)
                    /\ f = "s" /\ Len(v) = 0 => LastOnly(f).s.len = 0
                    /\ f = "q" /\ Len(v) = 0 => LastOnly(f).q.len = 0
                    /\ f = "l" /\ Len(v) = 0 => LastOnly(f).l.len = 0
  <2>1. Case("p") /\ Case("o") /\ Case("s") /\ Case("q") /\ Case("l")
    BY LastOnlyShows DEF FieldNames
  <2>2. LastSeen(dst, msg)
    BY DEF RInv
  <2>3. dst.p = LastOnly("p").p
    <3>1. CASE (\A i \in DOMAIN msg : msg[i].f # "p") /\ LastOnly("p") = ZeroRoot
      BY <2>2, <3>1, ZeroFacts DEF LastSeen
    <3>2. ASSUME NEW v, Shows(dst, "p", v), Shows(LastOnly("p"), "p", v) PROVE dst.p = LastOnly("p").p
      BY <3>2 DEF Shows
    <3> QED BY <2>1, <3>1, <3>2
  <2>4. PtrValue(dst.o) = PtrValue(LastOnly("o").o)
    <3>1. CASE (\A i \in DOMAIN msg : msg[i].f # "o") /\ LastOnly("o") = ZeroRoot
      BY <2>2, <3>1, ZeroFacts DEF LastSeen
    <3>2. ASSUME NEW v, Shows(dst, "o", v), Shows(LastOnly("o"), "o", v)
          PROVE  PtrValue(dst.o) = PtrValue(LastOnly("o").o)
      BY <3>2 DEF Shows
    <3> QED BY <2>1, <3>1, <3>2
  <2>5. LastOnly("s").s.len = 0 \/ SameItems(dst.s, LastOnly("s").s)
    <3>1. CASE LastOnly("s") = ZeroRoot
      BY <3>1, ZeroFacts, NoSliceFacts
    <3>2. ASSUME NEW v, Shows(dst, "s", v), Shows(LastOnly("s"), "s", v), Len(v) # 0
          PROVE  SameItems(dst.s, LastOnly("s").s)
      BY <3>2 DEF Shows, SameItems
    <3> QED BY <2>1, <3>1, <3>2
  <2>6. LastOnly("q").q.len = 0 \/ SamePtrs(dst.q, LastOnly("q").q)
    <3>1. CASE LastOnly("q") = ZeroRoot
      BY <3>1, ZeroFacts, NoSliceFacts
    <3>2. ASSUME NEW v, Shows(dst, "q", v), Shows(LastOnly("q"), "q", v), Len(v) # 0
          PROVE  SamePtrs(dst.q, LastOnly("q").q)
      BY <3>2 DEF Shows, SamePtrs
    <3> QED BY <2>1, <3>1, <3>2
  <2>7. LastOnly("l").l.len = 0 \/ SameLists(dst.l, LastOnly("l").l)
    <3>1. CASE LastOnly("l") = ZeroRoot
      BY <3>1, ZeroFacts, NoSliceFacts
    <3>2. ASSUME NEW v, Shows(dst, "l", v), Shows(LastOnly("l"), "l", v), Len(v) # 0
          PROVE  SameLists(dst.l, LastOnly("l").l)
      BY <3>2 DEF Shows, SameLists
    <3> QED BY <2>1, <3>1, <3>2
  <2> HIDE DEF Case
  <2>8. ASSUME NEW r
        PROVE  /\ r.s.len = 0 => Value(r).s = <<>>
               /\ r.q.len = 0 => Value(r).q = <<>>
               /\ r.l.len = 0 => Value(r).l = <<>>
    <3>1. /\ Value(r).s = [i \in 1 .. r.s.len |-> ItemValue(r.s.cells[i])]
          /\ Value(r).q = [i \in 1 .. r.q.len |-> PtrValue(r.q.cells[i])]
          /\ Value(r).l = [i \in 1 .. r.l.len |-> Visible(r.l.cells[i])]
      BY ValueParts
    <3> QED BY <3>1
  <2>9. ASSUME NEW a, NEW b
        PROVE  /\ a.p = b.p => Value(a).p = Value(b).p
               /\ PtrValue(a.o) = PtrValue(b.o) => Value(a).o = Value(b).o
               /\ SameItems(a.s, b.s) => Value(a).s = Value(b).s
               /\ SamePtrs(a.q, b.q) => Value(a).q = Value(b).q
               /\ SameLists(a.l, b.l) => Value(a).l = Value(b).l
    <3>1. /\ Value(a).p = a.p /\ Value(a).o = PtrValue(a.o)
          /\ Value(a).s = [i \in 1 .. a.s.len |-> ItemValue(a.s.cells[i])]
          /\ Value(a).q = [i \in 1 .. a.q.len |-> PtrValue(a.q.cells[i])]
          /\ Value(a).l = [i \in 1 .. a.l.len |-> Visible(a.l.cells[i])]
      BY ValueParts, Zenon
    <3>2. /\ Value(b).p = b.p /\ Value(b).o = PtrValue(b.o)
          /\ Value(b).s = [i \in 1 .. b.s.len |-> ItemValue(b.s.cells[i])]
          /\ Value(b).q = [i \in 1 .. b.q.len |-> PtrValue(b.q.cells[i])]
          /\ Value(b).l = [i \in 1 .. b.l.len |-> Visible(b.l.cells[i])]
      BY ValueParts, Zenon
    <3> QED BY <3>1, <3>2, SameValues
  <2>10. /\ Value(dst).p = Value(LastOnly("p")).p /\ Value(dst).o = Value(LastOnly("o")).o
         /\ SameItems(dst.s, LastOnly("s").s) => Value(dst).s = Value(LastOnly("s")).s
         /\ SamePtrs(dst.q, LastOnly("q").q) => Value(dst).q = Value(LastOnly("q")).q
         /\ SameLists(dst.l, LastOnly("l").l) => Value(dst).l = Value(LastOnly("l")).l
    BY <2>3, <2>4, <2>9, Zenon
  <2> QED BY <2>5, <2>6, <2>7, <2>8, <2>10
<1> QED BY <1>1, ReceiverInit, ReceiverStep, RInvInit, RInvStep, PTL DEF Spec
=============================================================================
