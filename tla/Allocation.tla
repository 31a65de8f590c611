----------------------------- MODULE Allocation ------------------------------
(***************************************************************************)
(* Where decoded strings and slices live.  A Reader takes them from the    *)
(* heap, from an Arena (storage/gsbmarena/arena.go, with the TypedPools of *)
(* storage/gsbm/allocator.go) or, strings only, from an Interner           *)
(* (intern.go); a //gsbm:borrow-strings decoder without an allocator       *)
(* aliases the source.  The caller keeps what it was given, reuses its     *)
(* receivers and its source buffer, and resets interner and arena.         *)
(*                                                                         *)
(* Memory is a sequence of blocks of words; block 1 is the source buffer,  *)
(* and every make is a block of its own.  A view is a string header or a   *)
(* slice header, with the value its holder was given or put there.         *)
(***************************************************************************)
EXTENDS Integers, Sequences, FiniteSets

CONSTANTS
  Words,        \* what a word of memory may hold
  Zero,         \* what fresh memory holds
  Types,        \* element types
  Sizeof,       \* [Types -> bytes of an element]
  Chunk,        \* [pool -> length of a chunk]: arenaChunkBytes, defaultChunkCap
  MaxDistinct,  \* NewInternerN's limit, 0 for none
  MaxAlloc,     \* maxSliceAllocBytes
  Uint64,       \* 2^64
  SrcLen,       \* bound: length of the source buffer
  MaxLength,    \* bound: lengths read from the wire
  MaxViews      \* bound: views handed out

Bytes == "bytes"
Pools == {Bytes} \cup Types

ASSUME AllocationAssumption ==
  /\ Zero \in Words /\ Bytes \notin Types /\ "string" \notin Types
  /\ Sizeof \in [Types -> Nat \ {0}] /\ Chunk \in [Pools -> Nat \ {0}]
  /\ {MaxDistinct, MaxAlloc, SrcLen, MaxLength, MaxViews} \subseteq Nat
  /\ Uint64 \in Nat /\ MaxAlloc < Uint64
  /\ \A t \in Types : MaxAlloc * Sizeof[t] < Uint64

VARIABLES
  memory,   \* the blocks
  alloc,    \* Reader.alloc: "heap", "arena" or "interner"
  bump,     \* [pool -> [block, used]]: curBytes and cur, block 0 for nil
  tab,      \* Interner.tab: [value -> view]
  held,     \* the views that were handed out
  err       \* Reader.err: ErrAllocTooLarge is set

vars == <<memory, alloc, bump, tab, held, err>>

Source == 1

Zeros(n)   == [i \in 1..n |-> Zero]
Max2(a, b) == IF a > b THEN a ELSE b

\* A header for s at lo; of is "string" or the type of the elements.
View(of, block, lo, s, owned) ==
  [of |-> of, block |-> block, lo |-> lo, cap |-> Len(s), value |-> s, owned |-> owned]

\* memory m after s is copied to block from lo on.
Put(m, block, lo, s) ==
  [m EXCEPT ![block] = [i \in DOMAIN @ |-> IF i - lo \in 1..Len(s) THEN s[i - lo] ELSE @[i]]]

NoChunk == [block |-> 0, used |-> 0]

Init ==
  /\ memory = <<Zeros(SrcLen)>>
  /\ alloc = "heap"
  /\ bump = [p \in Pools |-> NoChunk]
  /\ tab = <<>>
  /\ held = {}
  /\ err = FALSE

-----------------------------------------------------------------------------
(* allocBytes and TypedPool.Alloc. *)

ChunkLen(p) == IF bump[p].block = 0 THEN 0 ELSE Len(memory[bump[p].block])

\* Does a request for n words need a new chunk?
Overflows(p, n) == bump[p].used + n > ChunkLen(p)

\* Memory with the chunk that the request is cut from.
Grown(p, n) ==
  IF Overflows(p, n) THEN Append(memory, Zeros(Max2(Chunk[p], n))) ELSE memory

\* Mutant: the last word that is handed out stays free.
CutShort(p, n) ==
  IF Overflows(p, n) THEN [block |-> Len(memory) + 1, used |-> n - 1]
  ELSE [bump[p] EXCEPT !.used = @ + n - 1]

\* The chunk and its free space once n words are taken.
Cut(p, n) ==
  IF Overflows(p, n) THEN [block |-> Len(memory) + 1, used |-> n]
  ELSE [bump[p] EXCEPT !.used = @ + n]

\* s, or room for it, where the free space begins; its capacity ends with it.
Carved(of, p, s) ==
  View(of, Cut(p, Len(s)).block, IF Overflows(p, Len(s)) THEN 0 ELSE bump[p].used, s, TRUE)

-----------------------------------------------------------------------------
(* Strings. *)

Hold(v) == held' = held \cup {v}

\* string(b): a copy of its own.
HeapString(s) ==
  /\ memory' = Append(memory, s)
  /\ Hold(View("string", Len(memory) + 1, 0, s, TRUE))
  /\ UNCHANGED <<bump, tab>>

ArenaCopy(s, lo) ==
  /\ memory' = Put(Grown(Bytes, Len(s)), Cut(Bytes, Len(s)).block, lo, s)
  /\ bump' = [bump EXCEPT ![Bytes] = Cut(Bytes, Len(s))]
  /\ Hold(Carved("string", Bytes, s))
  /\ UNCHANGED tab

\* Mutant: the bytes are copied to the start of the chunk.
ArenaStringAtStart(s) == ArenaCopy(s, 0)

\* Arena.AcquireString.
ArenaString(s) == ArenaCopy(s, Carved("string", Bytes, s).lo)

\* Interner.AcquireString.
InternString(s) ==
  \/ /\ s \in DOMAIN tab
     /\ Hold(tab[s])
     /\ UNCHANGED <<memory, bump, tab>>
  \/ /\ s \notin DOMAIN tab
     /\ MaxDistinct > 0 /\ Cardinality(DOMAIN tab) >= MaxDistinct
     /\ HeapString(s)
  \/ /\ s \notin DOMAIN tab
     /\ ~ (MaxDistinct > 0 /\ Cardinality(DOMAIN tab) >= MaxDistinct)
     /\ LET v == View("string", Len(memory) + 1, 0, s, TRUE)
        IN /\ memory' = Append(memory, s)
           /\ tab' = [x \in DOMAIN tab \cup {s} |-> IF x = s THEN v ELSE tab[x]]
           /\ Hold(v)
     /\ UNCHANGED bump

\* A string of n bytes is read at lo, by a decoder of a borrow-strings struct
\* or not.  An empty one needs no memory.
ReadString(lo, n, borrow) ==
  /\ ~ err /\ Cardinality(held) < MaxViews
  /\ lo + n <= SrcLen
  /\ LET s == SubSeq(memory[Source], lo + 1, lo + n)
     IN \/ n = 0 /\ UNCHANGED <<memory, bump, tab, held>>
        \/ /\ n > 0 /\ alloc = "heap" /\ borrow
           /\ Hold(View("string", Source, lo, s, FALSE)) /\ UNCHANGED <<memory, bump, tab>>
        \/ n > 0 /\ alloc = "heap" /\ ~ borrow /\ HeapString(s)
        \/ n > 0 /\ alloc = "arena" /\ ArenaString(s)
        \/ n > 0 /\ alloc = "interner" /\ InternString(s)
  /\ UNCHANGED <<alloc, err>>

-----------------------------------------------------------------------------
(* Slices. *)

\* AllocSlice, which TypedPool.Alloc serves from the chunk as it is.
AllocSlice(t, n) ==
  /\ memory' = Grown(t, n)
  /\ bump' = [bump EXCEPT ![t] = Cut(t, n)]
  /\ Hold(Carved(t, t, Zeros(n)))
  /\ UNCHANGED tab

\* make([]T, n).
HeapSlice(t, n) ==
  /\ memory' = Append(memory, Zeros(n))
  /\ Hold(View(t, Len(memory) + 1, 0, Zeros(n), TRUE))
  /\ UNCHANGED <<bump, tab>>

\* Mutant: the product alone is compared.
TooLargeWraps(t, n) == (n * Sizeof[t]) % Uint64 > MaxAlloc

\* The product is a uint64, hence the comparison of n before it.
TooLarge(t, n) == n > MaxAlloc \/ (n * Sizeof[t]) % Uint64 > MaxAlloc

MakeSlice(t, n) ==
  /\ ~ err /\ Cardinality(held) < MaxViews
  /\ \/ n = 0 /\ UNCHANGED <<memory, bump, tab, held, err>>
     \/ n > 0 /\ TooLarge(t, n) /\ err' = TRUE /\ UNCHANGED <<memory, bump, tab, held>>
     \/ n > 0 /\ ~ TooLarge(t, n) /\ alloc = "arena" /\ AllocSlice(t, n) /\ UNCHANGED err
     \/ n > 0 /\ ~ TooLarge(t, n) /\ alloc # "arena" /\ HeapSlice(t, n) /\ UNCHANGED err
  /\ UNCHANGED alloc

\* A *T of the arena, used by a caller whatever the Reader's allocator.
AllocStruct(t) ==
  /\ Cardinality(held) < MaxViews
  /\ AllocSlice(t, 1)
  /\ UNCHANGED <<alloc, err>>

\* A slice's elements are decoded, into new room or into a receiver's that has
\* the capacity.
DecodeElements(v, s) ==
  /\ ~ err
  /\ v.of \in Types /\ Len(s) <= v.cap
  /\ memory' = Put(memory, v.block, v.lo, s)
  /\ held' = (held \ {v}) \cup {[v EXCEPT !.value = s]}
  /\ UNCHANGED <<alloc, bump, tab, err>>

-----------------------------------------------------------------------------
(* What the caller does between decodes. *)

\* Reader.Reset on the buffer the caller has filled with the next blob.
Reset(s) ==
  /\ memory' = [memory EXCEPT ![Source] = s]
  /\ err' = FALSE
  /\ UNCHANGED <<alloc, bump, tab, held>>

SetAllocator(a) ==
  /\ alloc' = a
  /\ UNCHANGED <<memory, bump, tab, held, err>>

Release ==
  /\ bump' = [p \in Pools |-> NoChunk]
  /\ UNCHANGED <<memory, alloc, tab, held, err>>

InternerReset ==
  /\ tab' = <<>>
  /\ UNCHANGED <<memory, alloc, bump, held, err>>

Next ==
  \/ \E lo \in 0..SrcLen, n \in 0..SrcLen, borrow \in BOOLEAN : ReadString(lo, n, borrow)
  \/ \E t \in Types, n \in 0..MaxLength : MakeSlice(t, n)
  \/ \E t \in Types : AllocStruct(t)
  \/ \E v \in held : \E n \in 0..MaxLength, x \in Words : DecodeElements(v, [i \in 1..n |-> x])
  \/ \E x \in Words : Reset([i \in 1..SrcLen |-> x])
  \/ \E a \in {"heap", "arena", "interner"} : SetAllocator(a)
  \/ Release
  \/ InternerReset

Spec == Init /\ [][Next]_vars

-----------------------------------------------------------------------------
\* The words a holder may reach through v: v.lo + 1 .. v.lo + v.cap of its block.
Contents(v) == [i \in 1..Len(v.value) |-> memory[v.block][v.lo + i]]

\* A string or slice that a decoder made its holder's own has the value it was
\* given whatever is decoded next, into this arena, another pool or a receiver
\* that is reused; and after the source buffer is refilled, the interner is
\* reset and even the arena is released, since Release drops its chunks and
\* cuts nothing from them again.  New slices and structs are zero.
KeepsValue == \A v \in held : v.owned => Contents(v) = v.value

\* What two holders may reach never overlaps, capacity included (so a receiver
\* that is reused up to its capacity cannot write another's elements), none of
\* it is the source buffer, and none of it is free to be handed out again.
Apart ==
  \A v \in held : v.owned =>
    /\ v.block # Source
    /\ \A w \in held : w # v /\ w.owned /\ w.block = v.block =>
         v.lo + v.cap <= w.lo \/ w.lo + w.cap <= v.lo
    /\ \A p \in Pools : v.block = bump[p].block => v.lo + v.cap <= bump[p].used

\* No length on the wire makes a decoder allocate more than maxSliceAllocBytes
\* for a slice, also where n * sizeof(T) does not fit a uint64.  (A view of one
\* element may be a struct from AllocStruct, which no length asks for.)
BoundedSlices ==
  \A v \in held : v.of \in Types /\ v.cap > 1 => v.cap * Sizeof[v.of] <= MaxAlloc
=============================================================================
