-------------------------- MODULE AllocationProofs ---------------------------
(***************************************************************************)
(* The views that decoders hand out keep their values and stay apart, for  *)
(* any chunk sizes, element types and limits.                              *)
(***************************************************************************)
EXTENDS Allocation, SequenceTheorems, TLAPS

\* A view that lies within its block.
IsView(v) ==
  /\ v \in [of : Types \cup {"string"}, block : Nat, lo : Nat, cap : Nat,
            value : Seq(Words), owned : BOOLEAN]
  /\ v.block \in 1..Len(memory)
  /\ v.lo + v.cap <= Len(memory[v.block])
  /\ Len(v.value) <= v.cap
  /\ v.of \in Types => v.owned

TypeInv ==
  /\ memory \in Seq(Seq(Words))
  /\ Len(memory) >= 1 /\ Len(memory[Source]) = SrcLen
  /\ bump \in [Pools -> [block : Nat, used : Nat]]
  /\ \A v \in held : IsView(v)

\* A chunk is one pool's, no chunk is the source, and what is free is zero.
Chunks ==
  /\ \A p \in Pools :
       \/ bump[p] = NoChunk
       \/ /\ bump[p].block \in 2..Len(memory)
          /\ bump[p].used <= Len(memory[bump[p].block])
          /\ \A i \in (bump[p].used + 1)..Len(memory[bump[p].block]) :
               memory[bump[p].block][i] = Zero
  /\ \A p, q \in Pools : p # q /\ bump[p].block = bump[q].block => bump[p] = NoChunk

\* The interner's strings are strings it has handed out.
Table == \A s \in DOMAIN tab : tab[s] \in held /\ tab[s].of = "string"

IInv == TypeInv /\ Chunks /\ Table /\ Apart /\ KeepsValue /\ BoundedSlices

-----------------------------------------------------------------------------
\* A function on 1..n is a sequence of length n.
LEMMA FcnIsSeq ==
  ASSUME NEW S, NEW n \in Nat, NEW f \in [1..n -> S]
  PROVE  f \in Seq(S) /\ Len(f) = n /\ DOMAIN f = 1..n
<1>1. f \in Seq(S)
  BY SeqDef
<1>2. DOMAIN f = 1..n /\ DOMAIN f = 1..Len(f) /\ Len(f) \in Nat
  BY <1>1, LenProperties
<1> QED
  BY <1>1, <1>2

\* Fresh memory is a sequence of words.
LEMMA ZerosType ==
  ASSUME NEW n \in Nat
  PROVE  Zeros(n) \in Seq(Words) /\ Len(Zeros(n)) = n /\ \A i \in 1..n : Zeros(n)[i] = Zero
<1>1. Zeros(n) \in [1..n -> Words]
  BY AllocationAssumption DEF Zeros
<1>2. \A i \in 1..n : Zeros(n)[i] = Zero
  BY DEF Zeros
<1> QED
  BY <1>1, <1>2, FcnIsSeq

\* A holder sees its value exactly when it sees each of its words.
LEMMA SeesValue ==
  ASSUME TypeInv, NEW v, IsView(v)
  PROVE  Contents(v) = v.value <=>
           \A i \in 1..Len(v.value) : memory[v.block][v.lo + i] = v.value[i]
<1>1. v.value \in Seq(Words) /\ DOMAIN v.value = 1..Len(v.value)
  BY LenProperties DEF IsView
<1> QED
  BY <1>1 DEF Contents

\* Nothing is handed out at first.
LEMMA InitInv == Init => IInv
<1> SUFFICES ASSUME Init PROVE IInv
  OBVIOUS
<1>1. Zeros(SrcLen) \in Seq(Words) /\ Len(Zeros(SrcLen)) = SrcLen
  BY ZerosType, AllocationAssumption
<1>2. memory \in Seq(Seq(Words)) /\ Len(memory) = 1 /\ memory[1] = Zeros(SrcLen)
  BY <1>1 DEF Init
<1>3. TypeInv
  BY <1>1, <1>2 DEF Init, TypeInv, NoChunk, Source
<1> QED
  BY <1>3 DEF Init, IInv, Chunks, Table, Apart, KeepsValue, BoundedSlices, NoChunk

\* A view is handed out: what the others hold is left as it is, the new one lies
\* apart from them, and the chunks are used up to the end of what lies in them.
LEMMA AddView ==
  ASSUME IInv, NEW v,
         memory' \in Seq(Seq(Words)), Len(memory') >= Len(memory),
         \A k \in 1..Len(memory) : Len(memory'[k]) = Len(memory[k]),
         \A w \in held : w.owned =>
           \A i \in 1..Len(w.value) : memory'[w.block][w.lo + i] = memory[w.block][w.lo + i],
         bump' \in [Pools -> [block : Nat, used : Nat]], Chunks',
         \A w \in held : w.owned => \A p \in Pools :
           w.block = bump'[p].block => w.lo + w.cap <= bump'[p].used,
         held' = held \cup {v},
         IsView(v)',
         v.owned =>
           /\ v.block # Source
           /\ \A i \in 1..Len(v.value) : memory'[v.block][v.lo + i] = v.value[i]
           /\ \A w \in held : w.owned /\ w.block = v.block =>
                v.lo + v.cap <= w.lo \/ w.lo + w.cap <= v.lo
           /\ \A p \in Pools : v.block = bump'[p].block => v.lo + v.cap <= bump'[p].used,
         v.of \in Types /\ v.cap > 1 => v.cap * Sizeof[v.of] <= MaxAlloc,
         Table'
  PROVE  IInv'
<1>1. ASSUME NEW w \in held PROVE IsView(w)'
  <2>1. IsView(w) /\ Len(memory) \in Nat /\ Len(memory') \in Nat
    BY LenProperties DEF IInv, TypeInv
  <2>2. Len(memory'[w.block]) = Len(memory[w.block])
    BY <2>1 DEF IsView
  <2> QED
    BY <2>1, <2>2 DEF IsView
<1>2. TypeInv'
  BY <1>1 DEF IInv, TypeInv, Source
<1>3. Apart'
  <2> SUFFICES ASSUME NEW w \in held \cup {v}, w.owned
      PROVE  /\ w.block # Source
             /\ \A x \in held \cup {v} : x # w /\ x.owned /\ x.block = w.block =>
                  w.lo + w.cap <= x.lo \/ x.lo + x.cap <= w.lo
             /\ \A p \in Pools : w.block = bump'[p].block => w.lo + w.cap <= bump'[p].used
    BY DEF Apart, Source
  <2>1. CASE w = v
    BY <2>1
  <2>2. CASE w \in held
    <3>1. w.block # Source
      BY <2>2 DEF IInv, Apart
    <3>2. ASSUME NEW x \in held \cup {v}, x # w, x.owned, x.block = w.block
          PROVE  w.lo + w.cap <= x.lo \/ x.lo + x.cap <= w.lo
      BY <2>2, <3>2 DEF IInv, Apart
    <3> QED
      BY <2>2, <3>1, <3>2
  <2> QED
    BY <2>1, <2>2
<1>4. KeepsValue'
  <2> SUFFICES ASSUME NEW w \in held', w.owned PROVE (Contents(w) = w.value)'
    BY DEF KeepsValue
  <2>1. IsView(w)'
    BY <1>1
  <2>2. \A i \in 1..Len(w.value) : memory'[w.block][w.lo + i] = w.value[i]
    <3>1. CASE w = v
      BY <3>1
    <3>2. CASE w \in held
      <4>1. Contents(w) = w.value /\ IsView(w)
        BY <3>2 DEF IInv, KeepsValue, TypeInv
      <4> QED
        BY <3>2, <4>1, SeesValue DEF IInv
    <3> QED
      BY <3>1, <3>2
  <2>3. w.value \in [1..Len(w.value) -> Words]
    BY <2>1, LenProperties DEF IsView
  <2>4. w.value = [i \in 1..Len(w.value) |-> w.value[i]]
    BY <2>3
  <2>5. w.value = [i \in 1..Len(w.value) |-> memory'[w.block][w.lo + i]]
    BY <2>2, <2>4
  <2> QED
    BY <2>5 DEF Contents
<1>5. BoundedSlices'
  BY DEF IInv, BoundedSlices
<1> QED
  BY <1>2, <1>3, <1>4, <1>5 DEF IInv

\* A new block leaves the others as they are.
LEMMA NewBlock ==
  ASSUME TypeInv, NEW b \in Seq(Words)
  PROVE  /\ Append(memory, b) \in Seq(Seq(Words))
         /\ Len(Append(memory, b)) = Len(memory) + 1 /\ Len(memory) \in Nat
         /\ \A k \in 1..Len(memory) : Append(memory, b)[k] = memory[k]
         /\ Append(memory, b)[Len(memory) + 1] = b
  BY AppendProperties, LenProperties DEF TypeInv

\* A copy on the heap, or a slice of its own.
LEMMA HeapView ==
  ASSUME IInv, NEW of \in Types \cup {"string"}, NEW s \in Seq(Words),
         of \in Types /\ Len(s) > 1 => Len(s) * Sizeof[of] <= MaxAlloc,
         memory' = Append(memory, s),
         held' = held \cup {View(of, Len(memory) + 1, 0, s, TRUE)},
         bump' = bump, Table'
  PROVE  IInv'
<1>0. PICK v : v = View(of, Len(memory) + 1, 0, s, TRUE)
  OBVIOUS
<1>1. /\ memory' \in Seq(Seq(Words)) /\ Len(memory') = Len(memory) + 1 /\ Len(memory) \in Nat
      /\ \A k \in 1..Len(memory) : memory'[k] = memory[k]
      /\ memory'[Len(memory) + 1] = s
  BY NewBlock DEF IInv
<1>2. Len(s) \in Nat
  BY LenProperties
<1>3. /\ v.of = of /\ v.block = Len(memory) + 1 /\ v.lo = 0 /\ v.cap = Len(s)
      /\ v.value = s /\ v.owned = TRUE
      /\ v \in [of : Types \cup {"string"}, block : Nat, lo : Nat, cap : Nat,
                value : Seq(Words), owned : BOOLEAN]
  BY <1>0, <1>1, <1>2 DEF View
<1>4. IsView(v)'
  BY <1>1, <1>2, <1>3 DEF IsView
<1>5. \A w \in held : w.block \in 1..Len(memory)
  BY DEF IInv, TypeInv, IsView
<1>6. \A p \in Pools : bump[p].block \in 0..Len(memory)
  BY <1>1 DEF IInv, Chunks, NoChunk
<1>7. Chunks'
  BY <1>1, <1>6 DEF IInv, Chunks, NoChunk
<1>8. v.block # Source
  BY <1>1, <1>3 DEF IInv, TypeInv, Source
<1>9. \A i \in 1..Len(v.value) : memory'[v.block][v.lo + i] = v.value[i]
  BY <1>1, <1>2, <1>3
<1>10. \A w \in held : w.block # v.block
  BY <1>1, <1>3, <1>5
<1>11. \A p \in Pools : bump'[p].block # v.block
  BY <1>1, <1>3, <1>6
<1>12. \A w \in held : w.owned => \A p \in Pools :
         w.block = bump'[p].block => w.lo + w.cap <= bump'[p].used
  BY DEF IInv, Apart
<1>13. \A w \in held : memory'[w.block] = memory[w.block]
  BY <1>1, <1>5
<1>14. /\ Len(memory') >= Len(memory)
       /\ \A k \in 1..Len(memory) : Len(memory'[k]) = Len(memory[k])
       /\ bump' \in [Pools -> [block : Nat, used : Nat]]
       /\ held' = held \cup {v}
  BY <1>0, <1>1 DEF IInv, TypeInv
<1> QED
  BY <1>1, <1>3, <1>4, <1>7, <1>8, <1>9, <1>10, <1>11, <1>12, <1>13, <1>14, AddView

\* Where the free space begins that n words of pool p are cut from.
Lo(p, n) == IF Overflows(p, n) THEN 0 ELSE bump[p].used

\* What is cut from a chunk, old or new: room that is no holder's, in a block of
\* no other pool, and zero like all that is free behind it.
LEMMA CutFacts ==
  ASSUME IInv, NEW p \in Pools, NEW n \in Nat, n > 0,
         NEW g, g = Grown(p, n), NEW c, c = Cut(p, n), NEW lo, lo = Lo(p, n)
  PROVE  /\ g \in Seq(Seq(Words)) /\ Len(g) \in Nat /\ Len(memory) \in Nat
         /\ Len(g) >= Len(memory) /\ \A k \in 1..Len(memory) : g[k] = memory[k]
         /\ c \in [block : Nat, used : Nat] /\ lo \in Nat
         /\ c.block \in 2..Len(g) /\ c.used = lo + n /\ lo + n <= Len(g[c.block])
         /\ \A w \in held : w.owned /\ w.block = c.block => w.lo + w.cap <= lo
         /\ \A q \in Pools : q # p => bump[q].block # c.block
         /\ \A i \in (lo + 1)..Len(g[c.block]) : g[c.block][i] = Zero
<1>1. /\ memory \in Seq(Seq(Words)) /\ Len(memory) \in Nat /\ Len(memory) >= 1
      /\ bump[p] \in [block : Nat, used : Nat]
  BY LenProperties DEF IInv, TypeInv
<1>2. \A w \in held : w.block \in 1..Len(memory)
  BY DEF IInv, TypeInv, IsView
<1>3. \A q \in Pools : bump[q].block \in 0..Len(memory)
  BY <1>1 DEF IInv, Chunks, NoChunk
<1>4. CASE Overflows(p, n)
  <2> DEFINE z == Zeros(Max2(Chunk[p], n))
  <2>1. Max2(Chunk[p], n) \in Nat /\ n <= Max2(Chunk[p], n)
    BY AllocationAssumption DEF Max2
  <2>2. z \in Seq(Words) /\ Len(z) = Max2(Chunk[p], n) /\ \A i \in 1..Len(z) : z[i] = Zero
    BY <2>1, ZerosType
  <2>3. g = Append(memory, z) /\ c = [block |-> Len(memory) + 1, used |-> n] /\ lo = 0
    BY <1>4 DEF Grown, Cut, Lo
  <2>4. /\ g \in Seq(Seq(Words)) /\ Len(g) = Len(memory) + 1
        /\ \A k \in 1..Len(memory) : g[k] = memory[k]
        /\ g[Len(memory) + 1] = z
    BY <2>2, <2>3, NewBlock DEF IInv
  <2>5. c.block = Len(memory) + 1 /\ c.used = n /\ c \in [block : Nat, used : Nat]
    BY <1>1, <2>3
  <2> HIDE DEF z
  <2>6. \A w \in held : w.block # c.block
    BY <1>1, <1>2, <2>5
  <2>7. \A q \in Pools : bump[q].block # c.block
    BY <1>1, <1>3, <2>5
  <2>8. g[c.block] = z
    BY <2>4, <2>5
  <2>9. c.block \in 2..Len(g) /\ Len(g) \in Nat /\ Len(g) >= Len(memory)
    BY <1>1, <2>4, <2>5
  <2>10. lo \in Nat /\ c.used = lo + n /\ lo + n <= Len(g[c.block])
    BY <2>1, <2>2, <2>3, <2>5, <2>8
  <2>11. \A i \in (lo + 1)..Len(g[c.block]) : g[c.block][i] = Zero
    BY <2>1, <2>2, <2>3, <2>8
  <2> QED
    BY <1>1, <2>4, <2>5, <2>6, <2>7, <2>9, <2>10, <2>11
<1>5. CASE ~ Overflows(p, n)
  <2>1. g = memory /\ c = [bump[p] EXCEPT !.used = @ + n] /\ lo = bump[p].used
    BY <1>5 DEF Grown, Cut, Lo
  <2>2. c.block = bump[p].block /\ c.used = lo + n /\ c \in [block : Nat, used : Nat] /\ lo \in Nat
    <3>1. PICK b \in Nat, u \in Nat : bump[p] = [block |-> b, used |-> u]
      BY <1>1
    <3>2. c = [block |-> b, used |-> u + n]
      BY <2>1, <3>1
    <3> QED
      BY <2>1, <3>1, <3>2
  <2>a. ASSUME bump[p].block = 0 PROVE FALSE
    <3>1. bump[p].used + n <= 0
      BY <1>1, <1>5, <2>a DEF Overflows, ChunkLen
    <3> QED
      BY <1>1, <3>1
  <2>b. bump[p].block \in 2..Len(memory)
    BY <2>a DEF IInv, Chunks, NoChunk
  <2>c. Len(memory[bump[p].block]) \in Nat
    BY <1>1, <2>b, ElementOfSeq, LenProperties
  <2>3. bump[p].block # 0 /\ lo + n <= Len(memory[bump[p].block])
    BY <1>1, <1>5, <2>1, <2>a, <2>c DEF Overflows, ChunkLen
  <2>4. \A i \in (lo + 1)..Len(memory[bump[p].block]) : memory[bump[p].block][i] = Zero
    BY <2>1, <2>a DEF IInv, Chunks, NoChunk
  <2>5. \A q \in Pools : q # p => bump[q].block # c.block
    BY <2>2, <2>3 DEF IInv, Chunks, NoChunk
  <2>6. \A w \in held : w.owned /\ w.block = c.block => w.lo + w.cap <= lo
    BY <2>1, <2>2 DEF IInv, Apart
  <2> QED
    BY <1>1, <2>1, <2>2, <2>b, <2>3, <2>4, <2>5, <2>6
<1> QED
  BY <1>4, <1>5

\* Of grown memory g, only the room for s behind lo in c's block is written.
Filled(g, c, lo, s) ==
  /\ memory' \in Seq(Seq(Words)) /\ Len(memory') = Len(g)
  /\ \A k \in 1..Len(g) : Len(memory'[k]) = Len(g[k])
  /\ \A k \in 1..Len(g) : k # c.block => memory'[k] = g[k]
  /\ \A i \in 1..Len(g[c.block]) :
       i <= lo \/ i > lo + Len(s) => memory'[c.block][i] = g[c.block][i]
  /\ \A i \in 1..Len(s) : memory'[c.block][lo + i] = s[i]

\* A view cut from a chunk.
LEMMA CarveView ==
  ASSUME IInv, NEW of \in Types \cup {"string"}, NEW p \in Pools,
         NEW s \in Seq(Words), NEW n \in Nat, Len(s) = n, n > 0,
         of \in Types /\ n > 1 => n * Sizeof[of] <= MaxAlloc,
         NEW g, g = Grown(p, n), NEW c, c = Cut(p, n), NEW lo, lo = Lo(p, n),
         Filled(g, c, lo, s), bump' = [bump EXCEPT ![p] = c],
         held' = held \cup {View(of, c.block, lo, s, TRUE)}, Table'
  PROVE  IInv'
<1>0. PICK v : v = View(of, c.block, lo, s, TRUE)
  OBVIOUS
<1>1. /\ g \in Seq(Seq(Words)) /\ Len(g) \in Nat /\ Len(memory) \in Nat
      /\ Len(g) >= Len(memory) /\ \A k \in 1..Len(memory) : g[k] = memory[k]
  BY CutFacts
<1>2. /\ c \in [block : Nat, used : Nat] /\ lo \in Nat
      /\ c.block \in 2..Len(g) /\ c.used = lo + n /\ lo + n <= Len(g[c.block])
  BY CutFacts
<1>a. \A w \in held : w.owned /\ w.block = c.block => w.lo + w.cap <= lo
  BY CutFacts
<1>b. \A q \in Pools : q # p => bump[q].block # c.block
  BY CutFacts
<1>c. \A i \in (lo + 1)..Len(g[c.block]) : g[c.block][i] = Zero
  BY CutFacts
<1>d. memory' \in Seq(Seq(Words)) /\ Len(memory') = Len(g)
      /\ \A k \in 1..Len(g) : Len(memory'[k]) = Len(g[k])
  BY DEF Filled
<1>e. \A k \in 1..Len(g) : k # c.block => memory'[k] = g[k]
  BY DEF Filled
<1>f. \A i \in 1..Len(g[c.block]) : i <= lo \/ i > lo + n => memory'[c.block][i] = g[c.block][i]
  BY DEF Filled
<1>g. \A i \in 1..n : memory'[c.block][lo + i] = s[i]
  BY DEF Filled
<1>3. /\ v.of = of /\ v.block = c.block /\ v.lo = lo /\ v.cap = n
      /\ v.value = s /\ v.owned = TRUE
      /\ v \in [of : Types \cup {"string"}, block : Nat, lo : Nat, cap : Nat,
                value : Seq(Words), owned : BOOLEAN]
  BY <1>0, <1>2 DEF View
<1>4. \A k \in 1..Len(g) : Len(g[k]) \in Nat
  BY <1>1, ElementOfSeq, LenProperties
<1>5. IsView(v)'
  <2>1. Len(memory'[c.block]) = Len(g[c.block]) /\ c.block \in 1..Len(memory')
    BY <1>1, <1>2, <1>d
  <2> QED
    BY <1>2, <1>3, <2>1 DEF IsView
<1>6. ASSUME NEW w \in held, w.owned, NEW i \in 1..Len(w.value)
      PROVE  memory'[w.block][w.lo + i] = memory[w.block][w.lo + i]
  <2>1. IsView(w)
    BY DEF IInv, TypeInv
  <2>2. w.block \in 1..Len(memory) /\ w.lo + i <= w.lo + w.cap /\ w.lo + i \in Nat /\ w.lo + i >= 1
        /\ w.lo + i <= Len(memory[w.block])
    <3>1. w.value \in Seq(Words) /\ Len(w.value) \in Nat
      BY <2>1, LenProperties DEF IsView
    <3>2. w.block \in 1..Len(memory) /\ Len(memory[w.block]) \in Nat
      BY <2>1, ElementOfSeq, LenProperties DEF IsView, IInv, TypeInv
    <3> QED
      BY <2>1, <3>1, <3>2 DEF IsView
  <2>3. CASE w.block = c.block
    <3>1. w.lo + w.cap <= lo
      BY <1>a, <1>6, <2>3
    <3>2. w.lo + i <= lo
      BY <1>2, <2>1, <2>2, <3>1 DEF IsView
    <3>3. w.lo + i \in 1..Len(g[c.block])
      <4>1. g[c.block] = memory[c.block]
        BY <1>1, <2>2, <2>3
      <4>2. Len(memory[c.block]) \in Nat
        BY <1>1, <1>2, <1>4, <4>1
      <4> QED
        BY <2>2, <2>3, <4>1, <4>2
    <3>4. g[c.block] = memory[w.block]
      BY <1>1, <2>2, <2>3
    <3>5. memory'[c.block][w.lo + i] = g[c.block][w.lo + i]
      BY <1>f, <3>2, <3>3
    <3> QED
      BY <2>3, <3>4, <3>5
  <2>4. CASE w.block # c.block
    <3>1. w.block \in 1..Len(g) /\ g[w.block] = memory[w.block]
      BY <1>1, <2>2
    <3> QED
      BY <1>e, <2>4, <3>1
  <2> QED
    BY <2>3, <2>4
<1>7. bump' \in [Pools -> [block : Nat, used : Nat]] /\ bump'[p] = c
      /\ \A q \in Pools : q # p => bump'[q] = bump[q]
  BY <1>2 DEF IInv, TypeInv
<1>8. ASSUME NEW q \in Pools
      PROVE  \/ bump'[q] = NoChunk
             \/ /\ bump'[q].block \in 2..Len(memory')
                /\ bump'[q].used <= Len(memory'[bump'[q].block])
                /\ \A i \in (bump'[q].used + 1)..Len(memory'[bump'[q].block]) :
                     memory'[bump'[q].block][i] = Zero
  <2>1. CASE q = p
    <3>1. c.block \in 2..Len(memory') /\ Len(memory'[c.block]) = Len(g[c.block])
      <4>1. Len(g) \in Nat /\ c.block \in 2..Len(g) /\ c.block \in 1..Len(g)
        BY <1>1, <1>2
      <4>2. Len(memory') = Len(g) /\ Len(memory'[c.block]) = Len(g[c.block])
        BY <1>d, <4>1
      <4> QED BY <4>1, <4>2
    <3>2. ASSUME NEW i \in (c.used + 1)..Len(g[c.block])
          PROVE  memory'[c.block][i] = Zero
      <4>0. Len(g[c.block]) \in Nat
        BY <1>1, <1>2, <1>4
      <4>1. i \in 1..Len(g[c.block]) /\ i > lo + n /\ i \in (lo + 1)..Len(g[c.block])
        BY <1>2, <4>0
      <4> QED
        BY <1>c, <1>f, <4>1
    <3> QED
      BY <1>2, <1>7, <2>1, <3>1, <3>2
  <2>2. CASE q # p
    <3>1. \/ bump[q] = NoChunk
          \/ /\ bump[q].block \in 2..Len(memory)
             /\ bump[q].used <= Len(memory[bump[q].block])
             /\ \A i \in (bump[q].used + 1)..Len(memory[bump[q].block]) :
                  memory[bump[q].block][i] = Zero
      BY DEF IInv, Chunks
    <3>2. bump'[q] = bump[q] /\ bump[q].block # c.block
      BY <1>b, <1>7, <2>2
    <3>3. CASE bump[q].block \in 2..Len(memory)
      <4>0. bump[q].block \in 1..Len(g) /\ g[bump[q].block] = memory[bump[q].block]
        <5>1. bump[q].block \in 1..Len(memory)
          BY <1>1, <3>3
        <5> QED
          BY <1>1, <5>1
      <4>1. memory'[bump[q].block] = memory[bump[q].block]
        BY <1>e, <3>2, <4>0
      <4>2. bump[q].block \in 2..Len(memory')
        BY <1>1, <1>d, <3>3
      <4> QED
        BY <3>1, <3>2, <4>1, <4>2
    <3> QED
      BY <3>1, <3>2, <3>3
  <2> QED
    BY <2>1, <2>2
<1>9. \A q, r \in Pools : q # r /\ bump'[q].block = bump'[r].block => bump'[q] = NoChunk
  BY <1>b, <1>7 DEF IInv, Chunks
<1>10. Chunks'
  BY <1>8, <1>9 DEF Chunks, NoChunk
<1>11. ASSUME NEW w \in held, w.owned, NEW q \in Pools, w.block = bump'[q].block
       PROVE  w.lo + w.cap <= bump'[q].used
  <2>1. CASE q = p
    <3>1. w.lo + w.cap <= lo /\ w.lo \in Nat /\ w.cap \in Nat
      BY <1>a, <1>7, <1>11, <2>1 DEF IInv, TypeInv, IsView
    <3> QED
      BY <1>2, <1>7, <2>1, <3>1
  <2>2. CASE q # p
    BY <1>7, <1>11, <2>2 DEF IInv, Apart
  <2> QED
    BY <2>1, <2>2
<1>12. v.block # Source
  BY <1>2, <1>3 DEF Source
<1>13. \A i \in 1..Len(v.value) : memory'[v.block][v.lo + i] = v.value[i]
  BY <1>3, <1>g
<1>14. \A w \in held : w.owned /\ w.block = v.block =>
         v.lo + v.cap <= w.lo \/ w.lo + w.cap <= v.lo
  BY <1>3, <1>a
<1>15. \A q \in Pools : v.block = bump'[q].block => v.lo + v.cap <= bump'[q].used
  BY <1>b, <1>2, <1>3, <1>7
<1>16. /\ Len(memory') >= Len(memory)
       /\ \A k \in 1..Len(memory) : Len(memory'[k]) = Len(memory[k])
       /\ held' = held \cup {v}
  BY <1>0, <1>1, <1>d
<1>17. v.of \in Types /\ v.cap > 1 => v.cap * Sizeof[v.of] <= MaxAlloc
  BY <1>3
<1> QED
  BY <1>d, <1>5, <1>6, <1>7, <1>10, <1>11, <1>12, <1>13, <1>14, <1>15, <1>16, <1>17, AddView

\* Copying s into room of its size changes nothing else.
LEMMA PutFills ==
  ASSUME NEW m \in Seq(Seq(Words)), NEW b \in 1..Len(m), NEW lo \in Nat, NEW s \in Seq(Words),
         lo + Len(s) <= Len(m[b])
  PROVE  /\ Put(m, b, lo, s) \in Seq(Seq(Words)) /\ Len(Put(m, b, lo, s)) = Len(m)
         /\ \A k \in 1..Len(m) : Len(Put(m, b, lo, s)[k]) = Len(m[k])
         /\ \A k \in 1..Len(m) : k # b => Put(m, b, lo, s)[k] = m[k]
         /\ \A i \in 1..Len(m[b]) : i <= lo \/ i > lo + Len(s) => Put(m, b, lo, s)[b][i] = m[b][i]
         /\ \A i \in 1..Len(s) : Put(m, b, lo, s)[b][lo + i] = s[i]
<1> DEFINE f == [i \in DOMAIN m[b] |-> IF i - lo \in 1..Len(s) THEN s[i - lo] ELSE m[b][i]]
<1>1. m[b] \in Seq(Words) /\ Len(m[b]) \in Nat /\ DOMAIN m[b] = 1..Len(m[b])
  BY ElementOfSeq, LenProperties
<1>2. Len(s) \in Nat /\ s \in [1..Len(s) -> Words] /\ m[b] \in [1..Len(m[b]) -> Words]
  BY <1>1, LenProperties
<1>3. f \in [1..Len(m[b]) -> Words]
  BY <1>1, <1>2
<1>4. f \in Seq(Words) /\ Len(f) = Len(m[b])
  BY <1>1, <1>3, FcnIsSeq
<1>5. \A i \in 1..Len(m[b]) : i <= lo \/ i > lo + Len(s) => f[i] = m[b][i]
  BY <1>1, <1>2
<1>6. \A i \in 1..Len(s) : f[lo + i] = s[i]
  BY <1>1, <1>2
<1>7. Put(m, b, lo, s) = [m EXCEPT ![b] = f]
  BY DEF Put
<1> HIDE DEF f
<1>8. Put(m, b, lo, s) \in Seq(Seq(Words)) /\ Len(Put(m, b, lo, s)) = Len(m)
  BY <1>4, <1>7, ExceptSeq
<1>9. \A k \in 1..Len(m) : Put(m, b, lo, s)[k] = IF k = b THEN f ELSE m[k]
  BY <1>7, ExceptSeq
<1> QED
  BY <1>4, <1>5, <1>6, <1>8, <1>9

\* Only these parts of the state matter to the invariant.
LEMMA SameState ==
  ASSUME IInv, memory' = memory, bump' = bump, tab' = tab, held' = held
  PROVE  IInv'
  BY DEF IInv, TypeInv, IsView, Chunks, Table, Apart, KeepsValue, Contents, BoundedSlices

\* The comparison of n with the limit keeps the product from wrapping.
LEMMA NotTooLarge ==
  ASSUME NEW t \in Types, NEW n \in Nat, ~ TooLarge(t, n)
  PROVE  n * Sizeof[t] <= MaxAlloc
<1>1. /\ Sizeof[t] \in Nat /\ MaxAlloc \in Nat /\ Uint64 \in Nat /\ n <= MaxAlloc
      /\ MaxAlloc * Sizeof[t] < Uint64 /\ (n * Sizeof[t]) % Uint64 <= MaxAlloc
  BY AllocationAssumption DEF TooLarge
<1>2. n * Sizeof[t] <= MaxAlloc * Sizeof[t] /\ n * Sizeof[t] \in Nat /\ MaxAlloc * Sizeof[t] \in Nat
  BY <1>1
<1>3. n * Sizeof[t] < Uint64
  BY <1>1, <1>2
<1>4. \A x, m \in Nat : x < m => x % m = x
  OBVIOUS
<1> QED
  BY <1>1, <1>2, <1>3, <1>4

-----------------------------------------------------------------------------
(* The actions. *)

\* A copy on the heap that no table keeps.
LEMMA HeapStringInv ==
  ASSUME IInv, NEW s \in Seq(Words), HeapString(s)
  PROVE  IInv'
<1>1. Table'
  BY DEF HeapString, Hold, IInv, Table
<1>2. "string" \notin Types
  BY AllocationAssumption
<1> QED
  BY <1>1, <1>2, HeapView DEF HeapString, Hold

\* The arena copies into what it has cut.
LEMMA ArenaStringInv ==
  ASSUME IInv, NEW s \in Seq(Words), Len(s) > 0, ArenaString(s)
  PROVE  IInv'
<1>1. PICK n, g, c, lo : n = Len(s) /\ g = Grown(Bytes, n) /\ c = Cut(Bytes, n) /\ lo = Lo(Bytes, n)
  OBVIOUS
<1>2. n \in Nat /\ n > 0 /\ Bytes \in Pools /\ "string" \notin Types
  BY <1>1, LenProperties, AllocationAssumption DEF Pools
<1>3. Carved("string", Bytes, s) = View("string", c.block, lo, s, TRUE)
  BY <1>1 DEF Carved, Lo
<1>4. Carved("string", Bytes, s).lo = lo
  BY <1>3 DEF View
<1>5. memory' = Put(g, c.block, lo, s) /\ bump' = [bump EXCEPT ![Bytes] = c]
      /\ held' = held \cup {View("string", c.block, lo, s, TRUE)} /\ tab' = tab
  BY <1>1, <1>3, <1>4 DEF ArenaString, ArenaCopy, Hold
<1>6. g \in Seq(Seq(Words)) /\ c.block \in 1..Len(g) /\ lo \in Nat /\ lo + n <= Len(g[c.block])
  <2>1. g \in Seq(Seq(Words)) /\ c.block \in 2..Len(g) /\ lo \in Nat /\ lo + n <= Len(g[c.block])
        /\ Len(g) \in Nat
    BY <1>1, <1>2, CutFacts
  <2> QED
    BY <2>1
<1>7. Filled(g, c, lo, s)
  <2>1. lo + Len(s) <= Len(g[c.block])
    BY <1>1, <1>6
  <2> QED
    <3> DEFINE m == Put(g, c.block, lo, s)
    <3>1. /\ m \in Seq(Seq(Words)) /\ Len(m) = Len(g)
          /\ \A k \in 1..Len(g) : Len(m[k]) = Len(g[k])
          /\ \A k \in 1..Len(g) : k # c.block => m[k] = g[k]
          /\ \A i \in 1..Len(g[c.block]) : i <= lo \/ i > lo + Len(s) => m[c.block][i] = g[c.block][i]
          /\ \A i \in 1..Len(s) : m[c.block][lo + i] = s[i]
      BY <1>6, <2>1, PutFills
    <3>2. memory' = m
      BY <1>5
    <3> HIDE DEF m
    <3> QED
      BY <3>1, <3>2 DEF Filled
<1>8. Table'
  BY <1>5 DEF IInv, Table
<1> QED
  BY <1>1, <1>2, <1>5, <1>7, <1>8, CarveView

\* A new string is put into the table with the copy that is handed out.
LEMMA InternStringInv ==
  ASSUME IInv, NEW s \in Seq(Words), InternString(s)
  PROVE  IInv'
<1>1. CASE s \in DOMAIN tab /\ Hold(tab[s]) /\ UNCHANGED <<memory, bump, tab>>
  <2>1. held' = held
    BY <1>1 DEF Hold, IInv, Table
  <2> QED
    BY <1>1, <2>1, SameState
<1>2. CASE HeapString(s)
  BY <1>2, HeapStringInv
<1>3. ASSUME NEW v, v = View("string", Len(memory) + 1, 0, s, TRUE), memory' = Append(memory, s),
             tab' = [x \in DOMAIN tab \cup {s} |-> IF x = s THEN v ELSE tab[x]],
             Hold(v), bump' = bump
      PROVE  IInv'
  <2>1. Table'
    <3>1. v.of = "string"
      BY <1>3 DEF View
    <3> QED
      BY <1>3, <3>1 DEF IInv, Table, Hold
  <2>2. "string" \notin Types
    BY AllocationAssumption
  <2> QED
    BY <1>3, <2>1, <2>2, HeapView DEF Hold
<1> QED
  BY <1>1, <1>2, <1>3 DEF InternString

LEMMA ReadStringInv ==
  ASSUME IInv, NEW lo \in 0..SrcLen, NEW n \in 0..SrcLen, NEW borrow \in BOOLEAN,
         ReadString(lo, n, borrow)
  PROVE  IInv'
<1>0. PICK s : s = SubSeq(memory[Source], lo + 1, lo + n)
  OBVIOUS
<1>1. /\ memory[Source] \in Seq(Words) /\ Len(memory[Source]) = SrcLen
      /\ SrcLen \in Nat /\ lo + n <= SrcLen
  BY AllocationAssumption, ElementOfSeq, LenProperties DEF IInv, TypeInv, Source, ReadString
<1>2. s \in Seq(Words) /\ Len(s) = n
  BY <1>0, <1>1, SubSeqProperties
<1>3. CASE UNCHANGED <<memory, bump, tab, held>>
  BY <1>3, SameState
<1>4. CASE Hold(View("string", Source, lo, s, FALSE)) /\ UNCHANGED <<memory, bump, tab>>
  <2>1. PICK v : v = View("string", Source, lo, s, FALSE)
    OBVIOUS
  <2>2. /\ v.of = "string" /\ v.block = Source /\ v.lo = lo /\ v.cap = n /\ v.value = s
        /\ v.owned = FALSE
        /\ v \in [of : Types \cup {"string"}, block : Nat, lo : Nat, cap : Nat,
                  value : Seq(Words), owned : BOOLEAN]
    BY <1>1, <1>2, <2>1 DEF View, Source
  <2>3. IsView(v)'
    BY <1>1, <1>2, <1>4, <2>2, AllocationAssumption DEF IsView, Source, IInv, TypeInv
  <2>4. held' = held \cup {v} /\ memory' = memory /\ bump' = bump /\ tab' = tab
    BY <1>4, <2>1 DEF Hold
  <2>5. Table' /\ Chunks'
    BY <2>4 DEF IInv, Table, Chunks
  <2>6. /\ memory' \in Seq(Seq(Words)) /\ Len(memory) \in Nat
        /\ bump' \in [Pools -> [block : Nat, used : Nat]]
    BY <2>4, LenProperties DEF IInv, TypeInv
  <2>7. \A w \in held : w.owned => \A p \in Pools :
          w.block = bump'[p].block => w.lo + w.cap <= bump'[p].used
    BY <2>4 DEF IInv, Apart
  <2>8. v.of \notin Types
    BY <2>2, AllocationAssumption
  <2> QED
    BY <2>2, <2>3, <2>4, <2>5, <2>6, <2>7, <2>8, AddView
<1>5. CASE HeapString(s)
  BY <1>2, <1>5, HeapStringInv
<1>6. CASE n > 0 /\ ArenaString(s)
  BY <1>2, <1>6, ArenaStringInv
<1>7. CASE InternString(s)
  BY <1>2, <1>7, InternStringInv
<1> QED
  BY <1>0, <1>3, <1>4, <1>5, <1>6, <1>7 DEF ReadString

\* A slice of the arena: a TypedPool's chunk is not cleared when it is cut.
LEMMA AllocSliceInv ==
  ASSUME IInv, NEW t \in Types, NEW n \in Nat, n > 0,
         n > 1 => n * Sizeof[t] <= MaxAlloc, AllocSlice(t, n)
  PROVE  IInv'
<1>1. PICK s, g, c, lo : s = Zeros(n) /\ g = Grown(t, n) /\ c = Cut(t, n) /\ lo = Lo(t, n)
  OBVIOUS
<1>2. s \in Seq(Words) /\ Len(s) = n /\ \A i \in 1..n : s[i] = Zero
  BY <1>1, ZerosType
<1>3. t \in Pools
  BY DEF Pools
<1>4. Carved(t, t, s) = View(t, c.block, lo, s, TRUE)
  BY <1>1, <1>2 DEF Carved, Lo
<1>5. memory' = g /\ bump' = [bump EXCEPT ![t] = c] /\ tab' = tab
      /\ held' = held \cup {View(t, c.block, lo, s, TRUE)}
  BY <1>1, <1>4 DEF AllocSlice, Hold
<1>6. /\ g \in Seq(Seq(Words)) /\ lo \in Nat /\ lo + n <= Len(g[c.block])
      /\ c.block \in 2..Len(g) /\ Len(g) \in Nat
      /\ \A i \in (lo + 1)..Len(g[c.block]) : g[c.block][i] = Zero
  BY <1>1, <1>3, CutFacts
<1>7. Filled(g, c, lo, s)
  <2>1. Len(g[c.block]) \in Nat
    BY <1>6, ElementOfSeq, LenProperties
  <2>2. \A i \in 1..n : g[c.block][lo + i] = Zero
    BY <1>6, <2>1
  <2> QED
    BY <1>2, <1>5, <1>6, <2>2 DEF Filled
<1>8. Table'
  BY <1>5 DEF IInv, Table
<1> QED
  BY <1>1, <1>2, <1>3, <1>5, <1>7, <1>8, CarveView

LEMMA MakeSliceInv ==
  ASSUME IInv, NEW t \in Types, NEW n \in Nat, MakeSlice(t, n)
  PROVE  IInv'
<1>1. CASE UNCHANGED <<memory, bump, tab, held>>
  BY <1>1, SameState
<1>2. CASE n > 0 /\ ~ TooLarge(t, n) /\ AllocSlice(t, n)
  BY <1>2, NotTooLarge, AllocSliceInv
<1>3. CASE n > 0 /\ ~ TooLarge(t, n) /\ HeapSlice(t, n)
  <2>1. PICK s : s = Zeros(n)
    OBVIOUS
  <2>2. s \in Seq(Words) /\ Len(s) = n /\ n * Sizeof[t] <= MaxAlloc
    BY <1>3, <2>1, ZerosType, NotTooLarge
  <2>3. Table'
    BY <1>3 DEF HeapSlice, Hold, IInv, Table
  <2> QED
    BY <1>3, <2>1, <2>2, <2>3, HeapView DEF HeapSlice, Hold
<1> QED
  BY <1>1, <1>2, <1>3 DEF MakeSlice

\* Elements are decoded into a slice: no other holder's words, and none that
\* are free, are among the words it may reach.
LEMMA DecodeElementsInv ==
  ASSUME IInv, NEW v \in held, NEW s \in Seq(Words), DecodeElements(v, s)
  PROVE  IInv'
<1>0. PICK u : u = [v EXCEPT !.value = s]
  OBVIOUS
<1>1. IsView(v) /\ v.owned /\ v.of \in Types /\ v.block # Source /\ Len(s) <= v.cap /\ Len(s) \in Nat
  BY LenProperties DEF DecodeElements, IInv, TypeInv, IsView, Apart
<1>2. memory \in Seq(Seq(Words)) /\ Len(memory) \in Nat /\ v.block \in 1..Len(memory)
      /\ v.lo \in Nat /\ v.cap \in Nat /\ v.lo + v.cap <= Len(memory[v.block])
      /\ Len(memory[v.block]) \in Nat
  BY <1>1, ElementOfSeq, LenProperties DEF IInv, TypeInv, IsView
<1>3. v.lo + Len(s) <= Len(memory[v.block])
  BY <1>1, <1>2
<1>4. memory' = Put(memory, v.block, v.lo, s) /\ held' = (held \ {v}) \cup {u}
      /\ bump' = bump /\ tab' = tab
  BY <1>0 DEF DecodeElements
<1> DEFINE m == Put(memory, v.block, v.lo, s)
<1>m. /\ m \in Seq(Seq(Words)) /\ Len(m) = Len(memory)
      /\ \A k \in 1..Len(memory) : Len(m[k]) = Len(memory[k])
      /\ \A k \in 1..Len(memory) : k # v.block => m[k] = memory[k]
      /\ \A i \in 1..Len(memory[v.block]) :
           i <= v.lo \/ i > v.lo + Len(s) => m[v.block][i] = memory[v.block][i]
      /\ \A i \in 1..Len(s) : m[v.block][v.lo + i] = s[i]
  BY <1>2, <1>3, PutFills
<1>n. memory' = m
  BY <1>4
<1> HIDE DEF m
<1>5. /\ memory' \in Seq(Seq(Words)) /\ Len(memory') = Len(memory)
      /\ \A k \in 1..Len(memory) : Len(memory'[k]) = Len(memory[k])
  BY <1>m, <1>n
<1>6. \A k \in 1..Len(memory) : k # v.block => memory'[k] = memory[k]
  BY <1>m, <1>n
<1>7. \A i \in 1..Len(memory[v.block]) :
        i <= v.lo \/ i > v.lo + v.cap => memory'[v.block][i] = memory[v.block][i]
  BY <1>1, <1>2, <1>m, <1>n
<1>8. \A i \in 1..Len(s) : memory'[v.block][v.lo + i] = s[i]
  BY <1>m, <1>n
<1>9. /\ u.of = v.of /\ u.block = v.block /\ u.lo = v.lo /\ u.cap = v.cap /\ u.value = s
      /\ u.owned = v.owned
      /\ u \in [of : Types \cup {"string"}, block : Nat, lo : Nat, cap : Nat,
                value : Seq(Words), owned : BOOLEAN]
  BY <1>0, <1>1 DEF IsView
<1>10. ASSUME NEW w \in held PROVE IsView(w)'
  <2>1. IsView(w) /\ w.block \in 1..Len(memory)
    BY DEF IInv, TypeInv, IsView
  <2>2. Len(memory'[w.block]) = Len(memory[w.block])
    BY <1>5, <2>1
  <2> QED
    BY <1>5, <2>1, <2>2 DEF IsView
<1>11. IsView(u)'
  BY <1>1, <1>2, <1>5, <1>9, <1>10 DEF IsView
<1>12. TypeInv'
  BY <1>4, <1>5, <1>10, <1>11 DEF IInv, TypeInv, Source
<1>13. Table'
  <2>1. "string" \notin Types
    BY AllocationAssumption
  <2> QED
    BY <1>1, <1>4, <2>1 DEF IInv, Table
<1>14. BoundedSlices'
  BY <1>4, <1>9 DEF IInv, BoundedSlices
<1>15. Apart'
  <2> SUFFICES ASSUME NEW w \in held', w.owned
      PROVE  /\ w.block # Source
             /\ \A x \in held' : x # w /\ x.owned /\ x.block = w.block =>
                  w.lo + w.cap <= x.lo \/ x.lo + x.cap <= w.lo
             /\ \A p \in Pools : w.block = bump[p].block => w.lo + w.cap <= bump[p].used
    BY <1>4 DEF Apart, Source
  <2>1. PICK w0 \in held : /\ w0.owned /\ w0.block = w.block /\ w0.lo = w.lo /\ w0.cap = w.cap
                           /\ (w = u /\ w0 = v) \/ (w0 = w /\ w # u /\ w # v) \/ (w0 = w /\ w = u /\ w # v)
    BY <1>1, <1>4, <1>9
  <2>2. w.block # Source
        /\ \A p \in Pools : w.block = bump[p].block => w.lo + w.cap <= bump[p].used
    BY <2>1 DEF IInv, Apart
  <2>3. ASSUME NEW x \in held', x # w, x.owned, x.block = w.block
        PROVE  w.lo + w.cap <= x.lo \/ x.lo + x.cap <= w.lo
    <3>1. CASE x = u
      <4>1. w # u /\ w \in held /\ w # v
        BY <1>4, <2>3, <3>1
      <4> QED
        BY <1>1, <1>9, <2>3, <3>1, <4>1 DEF IInv, Apart
    <3>2. CASE x # u /\ w = u
      <4>1. x \in held /\ x # v
        BY <1>4, <3>2
      <4> QED
        BY <1>1, <1>9, <2>3, <3>2, <4>1 DEF IInv, Apart
    <3>3. CASE x # u /\ w # u
      <4>1. x \in held /\ w \in held
        BY <1>4, <3>3
      <4> QED
        BY <2>3, <4>1 DEF IInv, Apart
    <3> QED
      BY <3>1, <3>2, <3>3
  <2> QED
    BY <2>2, <2>3
<1>16. KeepsValue'
  <2> SUFFICES ASSUME NEW w \in held', w.owned PROVE (Contents(w) = w.value)'
    BY DEF KeepsValue
  <2>1. IsView(w)'
    BY <1>4, <1>10, <1>11
  <2>2. \A i \in 1..Len(w.value) : memory'[w.block][w.lo + i] = w.value[i]
    <3>1. CASE w = u
      BY <1>8, <1>9, <3>1
    <3>2. CASE w \in held /\ w # v
      <4>1. Contents(w) = w.value /\ IsView(w)
        BY <3>2 DEF IInv, KeepsValue, TypeInv
      <4>2. \A i \in 1..Len(w.value) : memory[w.block][w.lo + i] = w.value[i]
        BY <4>1, SeesValue DEF IInv
      <4>3. ASSUME NEW i \in 1..Len(w.value)
            PROVE  memory'[w.block][w.lo + i] = memory[w.block][w.lo + i]
        <5>1. /\ w.block \in 1..Len(memory) /\ w.lo \in Nat /\ w.cap \in Nat
              /\ Len(w.value) \in Nat /\ Len(w.value) <= w.cap
              /\ w.lo + w.cap <= Len(memory[w.block]) /\ i \in Nat /\ i >= 1 /\ i <= w.cap
          BY <4>1, LenProperties DEF IsView
        <5>2. CASE w.block = v.block
          <6>1. v.lo + v.cap <= w.lo \/ w.lo + w.cap <= v.lo
            BY <1>1, <3>2, <5>2 DEF IInv, Apart
          <6>2. ASSUME NEW a \in Nat, NEW b \in Nat, NEW k \in Nat, NEW j \in Nat, NEW x \in Nat,
                       j >= 1, j <= b, a + b <= x
                PROVE  a + j \in 1..x /\ (a + b <= k => a + j <= k)
            BY <6>2
          <6>3. v.lo \in Nat /\ v.cap \in Nat /\ Len(memory[v.block]) \in Nat
            BY <1>2
          <6>4. w.lo \in Nat /\ w.cap \in Nat /\ i \in Nat /\ i >= 1 /\ i <= w.cap
            BY <5>1
          <6>5. w.lo + w.cap <= Len(memory[v.block])
            BY <5>1, <5>2
          <6>6. w.lo + i \in 1..Len(memory[v.block]) /\ (w.lo + w.cap <= v.lo => w.lo + i <= v.lo)
            BY <6>2, <6>3, <6>4, <6>5
          <6>7. v.lo + v.cap <= w.lo => w.lo + i > v.lo + v.cap
            BY <6>3, <6>4
          <6> QED
            BY <1>7, <5>2, <6>1, <6>6, <6>7
        <5>3. CASE w.block # v.block
          BY <1>6, <5>1, <5>3
        <5> QED
          BY <5>2, <5>3
      <4> QED
        BY <4>2, <4>3
    <3> QED
      BY <1>4, <3>1, <3>2
  <2>3. w.value \in [1..Len(w.value) -> Words]
    BY <2>1, LenProperties DEF IsView
  <2>4. w.value = [i \in 1..Len(w.value) |-> w.value[i]]
    BY <2>3
  <2>5. w.value = [i \in 1..Len(w.value) |-> memory'[w.block][w.lo + i]]
    BY <2>2, <2>4
  <2> QED
    BY <2>5 DEF Contents
<1>17. Chunks'
  <2>1. ASSUME NEW p \in Pools, bump[p] # NoChunk
        PROVE  /\ bump[p].block \in 2..Len(memory')
               /\ bump[p].used <= Len(memory'[bump[p].block])
               /\ \A i \in (bump[p].used + 1)..Len(memory'[bump[p].block]) :
                    memory'[bump[p].block][i] = Zero
    <3>1. /\ bump[p].block \in 2..Len(memory)
          /\ bump[p].used <= Len(memory[bump[p].block])
          /\ \A i \in (bump[p].used + 1)..Len(memory[bump[p].block]) :
               memory[bump[p].block][i] = Zero
      BY <2>1 DEF IInv, Chunks
    <3>2. bump[p].used \in Nat /\ bump[p].block \in 1..Len(memory)
          /\ Len(memory[bump[p].block]) \in Nat /\ bump[p].block \in Nat
      <4>1. bump[p].block \in 1..Len(memory) /\ bump[p].used \in Nat
        BY <1>2, <3>1 DEF IInv, TypeInv
      <4> QED
        BY <1>2, <4>1, ElementOfSeq, LenProperties
    <3>3. Len(memory'[bump[p].block]) = Len(memory[bump[p].block])
      BY <1>5, <3>2
    <3>4. ASSUME NEW i \in (bump[p].used + 1)..Len(memory[bump[p].block])
          PROVE  memory'[bump[p].block][i] = Zero
      <4>1. i \in 1..Len(memory[bump[p].block]) /\ i > bump[p].used
        BY <3>2
      <4>2. CASE bump[p].block = v.block
        <5>1. v.lo + v.cap <= bump[p].used
          BY <1>1, <4>2 DEF IInv, Apart
        <5>2. i > v.lo + v.cap
          BY <1>2, <3>2, <4>1, <5>1
        <5> QED
          BY <1>7, <3>1, <4>1, <4>2, <5>2
      <4>3. CASE bump[p].block # v.block
        BY <1>6, <3>1, <3>2, <4>3
      <4> QED
        BY <4>2, <4>3
    <3> QED
      BY <1>5, <3>1, <3>3, <3>4
  <2>2. \A p, q \in Pools : p # q /\ bump[p].block = bump[q].block => bump[p] = NoChunk
    BY DEF IInv, Chunks
  <2> QED
    BY <1>4, <2>1, <2>2 DEF Chunks, NoChunk
<1> QED
  BY <1>12, <1>13, <1>14, <1>15, <1>16, <1>17 DEF IInv

\* The source buffer is refilled: only borrowed views lie in it.
LEMMA ResetInv ==
  ASSUME IInv, NEW s \in Seq(Words), Len(s) = SrcLen, Reset(s)
  PROVE  IInv'
<1>1. memory \in Seq(Seq(Words)) /\ Len(memory) \in Nat /\ Len(memory) >= 1 /\ Source \in 1..Len(memory)
      /\ Len(memory[Source]) = SrcLen
  BY LenProperties DEF IInv, TypeInv, Source
<1>2. memory' = [memory EXCEPT ![Source] = s] /\ UNCHANGED <<bump, tab, held>>
  BY DEF Reset
<1>3. /\ memory' \in Seq(Seq(Words)) /\ Len(memory') = Len(memory)
      /\ \A k \in 1..Len(memory) : memory'[k] = IF k = Source THEN s ELSE memory[k]
  BY <1>1, <1>2, ExceptSeq
<1>4. /\ \A k \in 1..Len(memory) : Len(memory'[k]) = Len(memory[k])
      /\ \A k \in 1..Len(memory) : k # Source => memory'[k] = memory[k]
  BY <1>1, <1>3
<1>5. ASSUME NEW w \in held PROVE IsView(w)'
  <2>1. IsView(w) /\ w.block \in 1..Len(memory)
    BY DEF IInv, TypeInv, IsView
  <2> QED
    BY <1>3, <1>4, <2>1 DEF IsView
<1>6. TypeInv'
  BY <1>1, <1>2, <1>3, <1>4, <1>5 DEF IInv, TypeInv, Source
<1>7. Table' /\ Apart' /\ BoundedSlices'
  BY <1>2 DEF IInv, Table, Apart, BoundedSlices, Source
<1>8. Chunks'
  <2>1. ASSUME NEW p \in Pools, bump[p] # NoChunk
        PROVE  bump[p].block \in 2..Len(memory) /\ memory'[bump[p].block] = memory[bump[p].block]
    <3>1. bump[p].block \in 2..Len(memory)
      BY <2>1 DEF IInv, Chunks
    <3>2. bump[p].block \in 1..Len(memory) /\ bump[p].block # Source
      BY <1>1, <3>1 DEF Source
    <3> QED
      BY <1>4, <3>1, <3>2
  <2> QED
    BY <1>2, <1>3, <2>1 DEF IInv, Chunks, NoChunk
<1>9. KeepsValue'
  <2> SUFFICES ASSUME NEW w \in held', w.owned PROVE (Contents(w) = w.value)'
    BY DEF KeepsValue
  <2>1. w \in held /\ Contents(w) = w.value /\ w.block # Source /\ w.block \in 1..Len(memory)
    BY <1>2 DEF IInv, KeepsValue, Apart, TypeInv, IsView
  <2>2. memory'[w.block] = memory[w.block]
    BY <1>4, <2>1
  <2> QED
    BY <2>1, <2>2 DEF Contents
<1> QED
  BY <1>6, <1>7, <1>8, <1>9 DEF IInv

\* Release drops the chunks, and no holder's block is no block.
LEMMA ReleaseInv ==
  ASSUME IInv, Release
  PROVE  IInv'
<1>1. bump' = [p \in Pools |-> NoChunk] /\ UNCHANGED <<memory, tab, held>>
  BY DEF Release
<1>2. \A w \in held : w.block # 0
  BY DEF IInv, TypeInv, IsView
<1>3. TypeInv'
  BY <1>1 DEF IInv, TypeInv, IsView, NoChunk, Source
<1>4. Chunks' /\ Table' /\ KeepsValue' /\ BoundedSlices'
  BY <1>1 DEF IInv, Chunks, Table, KeepsValue, Contents, BoundedSlices, NoChunk
<1>5. Apart'
  BY <1>1, <1>2 DEF IInv, Apart, NoChunk, Source
<1> QED
  BY <1>3, <1>4, <1>5 DEF IInv

LEMMA StepInv == IInv /\ [Next]_vars => IInv'
<1> SUFFICES ASSUME IInv, [Next]_vars PROVE IInv'
  OBVIOUS
<1>0. SrcLen \in Nat /\ MaxLength \in Nat
  BY AllocationAssumption
<1>a. ASSUME NEW n \in Nat, NEW x \in Words
      PROVE  [i \in 1..n |-> x] \in Seq(Words) /\ Len([i \in 1..n |-> x]) = n
  <2>1. [i \in 1..n |-> x] \in [1..n -> Words]
    OBVIOUS
  <2> QED
    BY <2>1, FcnIsSeq
<1>1. CASE \E lo \in 0..SrcLen, n \in 0..SrcLen, borrow \in BOOLEAN : ReadString(lo, n, borrow)
  BY <1>1, ReadStringInv
<1>2. CASE \E t \in Types, n \in 0..MaxLength : MakeSlice(t, n)
  BY <1>0, <1>2, MakeSliceInv
<1>3. CASE \E t \in Types : AllocStruct(t)
  BY <1>3, AllocSliceInv DEF AllocStruct
<1>4. ASSUME NEW v \in held, NEW n \in 0..MaxLength, NEW x \in Words,
             DecodeElements(v, [i \in 1..n |-> x])
      PROVE  IInv'
  <2>1. PICK s : s = [i \in 1..n |-> x]
    OBVIOUS
  <2> QED
    BY <1>0, <1>a, <1>4, <2>1, DecodeElementsInv
<1>5. ASSUME NEW x \in Words, Reset([i \in 1..SrcLen |-> x]) PROVE IInv'
  <2>1. PICK s : s = [i \in 1..SrcLen |-> x]
    OBVIOUS
  <2> QED
    BY <1>0, <1>a, <1>5, <2>1, ResetInv
<1>6. CASE \E a \in {"heap", "arena", "interner"} : SetAllocator(a)
  BY <1>6, SameState DEF SetAllocator
<1>7. CASE Release
  BY <1>7, ReleaseInv
<1>8. CASE InternerReset
  <2>1. tab' = <<>> /\ UNCHANGED <<memory, bump, held>>
    BY <1>8 DEF InternerReset
  <2>2. Table'
    BY <2>1 DEF Table
  <2> QED
    BY <2>1, <2>2 DEF IInv, TypeInv, IsView, Chunks, Apart, KeepsValue, Contents, BoundedSlices
<1>9. CASE UNCHANGED vars
  BY <1>9, SameState DEF vars
<1> QED
  BY <1>1, <1>2, <1>3, <1>4, <1>5, <1>6, <1>7, <1>8, <1>9 DEF Next

-----------------------------------------------------------------------------
\* What a decoder hands its holder as its own keeps its value, whichever of the
\* Reader's allocators it came from (AcquireString, MakeSlice, AllocStruct) and
\* whatever is decoded, reset or released after it.
THEOREM HoldersKeepValues == Spec => []KeepsValue
<1>1. IInv => KeepsValue
  BY DEF IInv
<1> QED
  BY <1>1, InitInv, StepInv, PTL DEF Spec

\* The words behind two holders' headers, capacity included, are disjoint, none
\* lies in the source buffer and none will be cut from a chunk again
\* (Arena.allocBytes, TypedPool.Alloc).
THEOREM HoldersApart == Spec => []Apart
<1>1. IInv => Apart
  BY DEF IInv
<1> QED
  BY <1>1, InitInv, StepInv, PTL DEF Spec

\* MakeSlice's limit bounds every slice, also where the uint64 product wraps.
THEOREM SlicesBounded == Spec => []BoundedSlices
<1>1. IInv => BoundedSlices
  BY DEF IInv
<1> QED
  BY <1>1, InitInv, StepInv, PTL DEF Spec
=============================================================================
