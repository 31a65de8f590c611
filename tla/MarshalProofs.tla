---------------------------- MODULE MarshalProofs ----------------------------
(***************************************************************************)
(* Five facts about every encode, for any value, any slots of the cache    *)
(* and any bounds.  A materializing codec runs once per occurrence though  *)
(* the value is walked twice, and nothing reaches the destination of an    *)
(* encode that fails: this rests on the cursors of the cache, which count  *)
(* the occurrences a pass has met.  The size pass counts exactly the bytes *)
(* of the body, each of the three Writers produces that body, and what is  *)
(* streamed is a prefix of it: this rests on the regions the calls leave   *)
(* open, in which the markers, the buffer and the record of sizes are      *)
(* read (BInv).                                                            *)
(***************************************************************************)
EXTENDS Marshal, FiniteSetTheorems, WellFoundedInduction, TLAPS

\* The cached calls among the first n of calls, all of them and those at a slot.
CachedIn(calls, n) == {i \in 1 .. n : calls[i].op = "cached"}
CachedAt(calls, s, n) == {i \in 1 .. n : calls[i].op = "cached" /\ calls[i].slot = s}

Types ==
  /\ script \in Seq(Ops) /\ pc \in Nat /\ gens \in Nat
  /\ scratch \in [Slots -> [values : Seq(Payloads), idx : Nat]]

\* The first pass appends at each cursor; the second finds what the first left.
Cursors ==
  /\ phase \in {"size", "manual"} =>
       /\ pc = 0
       /\ \A s \in Slots : /\ Len(scratch[s].values) = scratch[s].idx
                           /\ scratch[s].idx = Cardinality(CachedAt(script, s, Len(script)))
  /\ phase = "write" =>
       /\ pc <= Len(script)
       /\ \A s \in Slots :
            /\ Len(scratch[s].values) = Cardinality(CachedAt(script, s, Len(script)))
            /\ scratch[s].idx = Cardinality(CachedAt(script, s, pc))

\* The destination is touched last.
Untouched ==
  /\ phase \in {"idle", "size", "manual", "write", "deliver", "deliverBody"}
  /\ phase \in {"size", "manual", "write", "deliver"} => dest = "empty"
  /\ phase = "idle" => dest = "empty" \/ result \in {"ok", "ErrDest"}

IInv == Types /\ Cursors /\ OneMaterialization /\ Untouched

-----------------------------------------------------------------------------
(* Counting.                                                                *)

\* One call more.
LEMMA CountNext ==
  ASSUME NEW calls, NEW n \in Nat
  PROVE  /\ Cardinality(CachedIn(calls, n)) \in Nat
         /\ Cardinality(CachedIn(calls, n + 1)) =
              IF calls[n + 1].op = "cached" THEN Cardinality(CachedIn(calls, n)) + 1
              ELSE Cardinality(CachedIn(calls, n))
         /\ \A s : /\ Cardinality(CachedAt(calls, s, n)) \in Nat
                   /\ Cardinality(CachedAt(calls, s, n + 1)) =
                        IF calls[n + 1].op = "cached" /\ calls[n + 1].slot = s
                        THEN Cardinality(CachedAt(calls, s, n)) + 1
                        ELSE Cardinality(CachedAt(calls, s, n))
<1>1. IsFiniteSet(1 .. n) /\ n + 1 \notin 1 .. n /\ 1 .. (n + 1) = (1 .. n) \cup {n + 1}
  BY FS_Interval
<1>2. ASSUME NEW S, NEW T, S \subseteq 1 .. n, NEW p \in BOOLEAN,
             T = IF p THEN S \cup {n + 1} ELSE S
      PROVE  /\ Cardinality(S) \in Nat
             /\ Cardinality(T) = IF p THEN Cardinality(S) + 1 ELSE Cardinality(S)
  <2>1. IsFiniteSet(S) /\ n + 1 \notin S
    BY <1>1, <1>2, FS_Subset
  <2>2. Cardinality(S) \in Nat
    BY <2>1, FS_CardinalityType
  <2>3. Cardinality(S \cup {n + 1}) = Cardinality(S) + 1
    BY <2>1, FS_AddElement
  <2> QED BY <1>2, <2>2, <2>3
<1>3. /\ CachedIn(calls, n) \subseteq 1 .. n
      /\ CachedIn(calls, n + 1) = IF calls[n + 1].op = "cached" THEN CachedIn(calls, n) \cup {n + 1}
                                  ELSE CachedIn(calls, n)
  BY <1>1 DEF CachedIn
<1>4. ASSUME NEW s
      PROVE  /\ CachedAt(calls, s, n) \subseteq 1 .. n
             /\ CachedAt(calls, s, n + 1) =
                  IF calls[n + 1].op = "cached" /\ calls[n + 1].slot = s
                  THEN CachedAt(calls, s, n) \cup {n + 1} ELSE CachedAt(calls, s, n)
  BY <1>1 DEF CachedAt
<1> QED BY <1>2, <1>3, <1>4

\* Nothing among no calls.
LEMMA CountNone ==
  ASSUME NEW calls
  PROVE  /\ Cardinality(CachedIn(calls, 0)) = 0
         /\ \A s : Cardinality(CachedAt(calls, s, 0)) = 0
<1>1. CachedIn(calls, 0) = {} /\ \A s : CachedAt(calls, s, 0) = {}
  BY DEF CachedIn, CachedAt
<1> QED BY <1>1, FS_EmptySet

\* Calls behind the first n do not count.
LEMMA CountSame ==
  ASSUME NEW a, NEW b, NEW n \in Nat, \A i \in 1 .. n : a[i] = b[i]
  PROVE  CachedIn(a, n) = CachedIn(b, n) /\ \A s : CachedAt(a, s, n) = CachedAt(b, s, n)
BY DEF CachedIn, CachedAt

\* A cached call is one the cursor of its slot has still to reach.
LEMMA CountBelow ==
  ASSUME NEW calls, NEW m \in Nat, NEW n \in Nat, m < n, calls[m + 1].op = "cached"
  PROVE  Cardinality(CachedAt(calls, calls[m + 1].slot, m))
           < Cardinality(CachedAt(calls, calls[m + 1].slot, n))
<1> DEFINE s == calls[m + 1].slot
           x == Cardinality(CachedAt(calls, s, m))
           y == Cardinality(CachedAt(calls, s, m + 1))
           z == Cardinality(CachedAt(calls, s, n))
<1>1. x \in Nat /\ y = x + 1
  BY CountNext
<1>2. IsFiniteSet(CachedAt(calls, s, n)) /\ CachedAt(calls, s, m + 1) \subseteq CachedAt(calls, s, n)
  <2>1. IsFiniteSet(1 .. n) /\ CachedAt(calls, s, n) \subseteq 1 .. n
    BY FS_Interval DEF CachedAt
  <2>2. 1 .. (m + 1) \subseteq 1 .. n
    OBVIOUS
  <2> QED BY <2>1, <2>2, FS_Subset DEF CachedAt
<1>3. y <= z /\ z \in Nat
  BY <1>2, FS_Subset, FS_CardinalityType
<1> HIDE DEF x, y, z
<1>4. x < z
  BY <1>1, <1>3
<1> QED BY <1>4 DEF x, z

-----------------------------------------------------------------------------
(* What a step does to the cache.                                           *)

\* A Writer call touches the cache only if it is cached: the value under the
\* cursor of its slot, or a new one behind the others.
LEMMA DoCache ==
  ASSUME Types, NEW op \in Ops, NEW v \in Payloads \cup {<<>>}, Do(op, v),
         op.op = "cached" => v \in Payloads
  PROVE  /\ op.op # "cached" => UNCHANGED <<scratch, gens>>
         /\ op.op = "cached" =>
              /\ op.slot \in Slots
              /\ scratch' \in [Slots -> [values : Seq(Payloads), idx : Nat]]
              /\ \A s \in Slots : s # op.slot => scratch'[s] = scratch[s]
              /\ scratch'[op.slot].idx = scratch[op.slot].idx + 1
              /\ IF scratch[op.slot].idx < Len(scratch[op.slot].values)
                 THEN gens' = gens /\ Len(scratch'[op.slot].values) = Len(scratch[op.slot].values)
                 ELSE /\ gens' = gens + 1
                      /\ Len(scratch'[op.slot].values) = Len(scratch[op.slot].values) + 1
<1>1. CASE op.op # "cached"
  <2>1. UNCHANGED cacheVars
    BY <1>1 DEF Do
  <2> QED BY <1>1, <2>1 DEF cacheVars
<1>2. CASE op.op = "cached"
  <2>1. WriteCached(op.slot, v) /\ v \in Payloads
    BY <1>2 DEF Do
  <2>2. op.slot \in Slots
    BY <1>2 DEF Ops
  <2> DEFINE sl == op.slot
             e == scratch[sl]
             vs == IF e.idx < Len(e.values) THEN e.values ELSE Append(e.values, v)
             n == [values |-> vs, idx |-> e.idx + 1]
  <2>3. /\ scratch' = [scratch EXCEPT ![sl] = n]
        /\ gens' = IF e.idx < Len(e.values) THEN gens ELSE gens + 1
    BY <2>1 DEF WriteCached
  <2>4. e.values \in Seq(Payloads) /\ e.idx \in Nat
    BY <2>2 DEF Types
  <2>5. /\ vs \in Seq(Payloads)
        /\ Len(vs) = IF e.idx < Len(e.values) THEN Len(e.values) ELSE Len(e.values) + 1
    BY <2>1, <2>4
  <2> HIDE DEF vs
  <2>6. n \in [values : Seq(Payloads), idx : Nat] /\ n.idx = e.idx + 1 /\ n.values = vs
    BY <2>4, <2>5
  <2> HIDE DEF n
  <2>7. /\ scratch' \in [Slots -> [values : Seq(Payloads), idx : Nat]]
        /\ \A s \in Slots : s # sl => scratch'[s] = scratch[s]
        /\ scratch'[sl] = n
    BY <2>2, <2>3, <2>6 DEF Types
  <2> QED BY <1>2, <2>2, <2>3, <2>5, <2>6, <2>7
<1> QED BY <1>1, <1>2

\* Only the calls of the two passes and the switch between them touch the cache.
LEMMA CacheAlone ==
  ASSUME Types, Cursors, OneMaterialization, UNCHANGED <<script, pc, scratch, gens>>,
         phase' \in {phase, "idle", "deliver", "deliverBody"}
  PROVE  Types' /\ Cursors' /\ OneMaterialization'
BY DEF Types, Cursors, OneMaterialization

\* A new encode starts from nothing.
LEMMA FreshCache ==
  ASSUME FreshWriter PROVE Types' /\ Cursors' /\ OneMaterialization' /\ dest' = "empty"
<1>1. /\ script' = <<>> /\ pc' = 0 /\ gens' = 0 /\ scratch' = NoScratch /\ dest' = "empty"
  BY DEF FreshWriter
<1>2. script' \in Seq(Ops) /\ Len(script') = 0 /\ DOMAIN script' = {}
  BY <1>1
<1>3. /\ NoScratch \in [Slots -> [values : Seq(Payloads), idx : Nat]]
      /\ \A s \in Slots : Len(NoScratch[s].values) = 0 /\ NoScratch[s].idx = 0
  BY DEF NoScratch
<1>4. Types'
  BY <1>1, <1>2, <1>3 DEF Types
<1>5. \A s : Cardinality(CachedAt(script', s, 0)) = 0
  BY CountNone
<1>6. Cursors'
  BY <1>1, <1>2, <1>3, <1>5 DEF Cursors
<1>7. OneMaterialization'
  <2>1. {i \in DOMAIN script' : script'[i].op = "cached"} = {}
    BY <1>2
  <2> QED BY <1>1, <2>1, FS_EmptySet DEF OneMaterialization
<1> QED BY <1>1, <1>4, <1>6, <1>7

\* The first pass misses at every cached call.
LEMMA CallKeeps ==
  ASSUME IInv, NEW op \in Ops, Call(op) PROVE IInv'
<1> DEFINE v == IF op.op = "cached" THEN op.b ELSE <<>>
           n == Len(script)
<1>1. /\ phase \in {"size", "manual"} /\ Do(op, v) /\ script' = Append(script, op) /\ pc' = pc
      /\ UNCHANGED <<phase, dest, result>>
  BY DEF Call, callVars
<1>2. v \in Payloads \cup {<<>>} /\ (op.op = "cached" => v \in Payloads)
  BY DEF Ops
<1>3. Types /\ n \in Nat /\ script \in Seq(Ops) /\ gens \in Nat /\ pc = 0
  BY <1>1 DEF IInv, Types, Cursors
<1>4. /\ script' \in Seq(Ops) /\ Len(script') = n + 1 /\ script'[n + 1] = op
      /\ \A i \in 1 .. n : script'[i] = script[i]
      /\ DOMAIN script = 1 .. n /\ DOMAIN script' = 1 .. (n + 1)
  BY <1>1, <1>3
<1> HIDE DEF v
<1>5. /\ op.op # "cached" => UNCHANGED <<scratch, gens>>
      /\ op.op = "cached" =>
           /\ op.slot \in Slots
           /\ scratch' \in [Slots -> [values : Seq(Payloads), idx : Nat]]
           /\ \A s \in Slots : s # op.slot => scratch'[s] = scratch[s]
           /\ scratch'[op.slot].idx = scratch[op.slot].idx + 1
           /\ IF scratch[op.slot].idx < Len(scratch[op.slot].values)
              THEN gens' = gens /\ Len(scratch'[op.slot].values) = Len(scratch[op.slot].values)
              ELSE /\ gens' = gens + 1
                   /\ Len(scratch'[op.slot].values) = Len(scratch[op.slot].values) + 1
  BY <1>1, <1>2, <1>3, DoCache
<1>6. \A s \in Slots : /\ Len(scratch[s].values) = scratch[s].idx /\ scratch[s].idx \in Nat
                       /\ scratch[s].idx = Cardinality(CachedAt(script, s, n))
  BY <1>1 DEF IInv, Cursors, Types
<1>7. gens = Cardinality(CachedIn(script, n))
  BY <1>4 DEF IInv, OneMaterialization, CachedIn
<1>8. /\ CachedIn(script', n) = CachedIn(script, n)
      /\ \A s : CachedAt(script', s, n) = CachedAt(script, s, n)
  BY <1>3, <1>4, CountSame
<1>9. /\ Cardinality(CachedIn(script', n + 1)) = IF op.op = "cached" THEN gens + 1 ELSE gens
      /\ \A s \in Slots : Cardinality(CachedAt(script', s, n + 1)) =
                            IF op.op = "cached" /\ op.slot = s
                            THEN scratch[s].idx + 1 ELSE scratch[s].idx
  <2>1. Cardinality(CachedIn(script', n + 1)) = IF op.op = "cached" THEN gens + 1 ELSE gens
    <3>1. Cardinality(CachedIn(script', n + 1)) =
            IF script'[n + 1].op = "cached" THEN Cardinality(CachedIn(script', n)) + 1
            ELSE Cardinality(CachedIn(script', n))
      BY <1>3, CountNext
    <3> QED BY <1>4, <1>7, <1>8, <3>1
  <2>2. ASSUME NEW s \in Slots
        PROVE  Cardinality(CachedAt(script', s, n + 1)) =
                 IF op.op = "cached" /\ op.slot = s THEN scratch[s].idx + 1 ELSE scratch[s].idx
    <3>1. Cardinality(CachedAt(script', s, n + 1)) =
            IF script'[n + 1].op = "cached" /\ script'[n + 1].slot = s
            THEN Cardinality(CachedAt(script', s, n)) + 1 ELSE Cardinality(CachedAt(script', s, n))
      BY <1>3, CountNext
    <3>2. Cardinality(CachedAt(script', s, n)) = scratch[s].idx
      BY <1>6, <1>8
    <3> QED BY <1>4, <3>1, <3>2
  <2> QED BY <2>1, <2>2
<1> HIDE DEF n
<1>10. gens' = IF op.op = "cached" THEN gens + 1 ELSE gens
  BY <1>5, <1>6
<1>11. ASSUME NEW s \in Slots
       PROVE  /\ Len(scratch'[s].values) = scratch'[s].idx
              /\ scratch'[s].idx = Cardinality(CachedAt(script', s, n + 1))
  <2>1. CASE op.op = "cached" /\ op.slot = s
    BY <1>5, <1>6, <1>9, <2>1
  <2>2. CASE ~(op.op = "cached" /\ op.slot = s)
    BY <1>5, <1>6, <1>9, <2>2
  <2> QED BY <2>1, <2>2
<1>12. Types'
  BY <1>1, <1>3, <1>4, <1>5, <1>10 DEF Types
<1>13. Cursors'
  BY <1>1, <1>3, <1>4, <1>11 DEF Cursors
<1>14. OneMaterialization'
  <2>1. {i \in DOMAIN script' : script'[i].op = "cached"} = CachedIn(script', n + 1)
    BY <1>4 DEF CachedIn
  <2> QED BY <1>9, <1>10, <2>1 DEF OneMaterialization
<1>15. Untouched'
  BY <1>1 DEF IInv, Untouched
<1> QED BY <1>12, <1>13, <1>14, <1>15 DEF IInv

\* The second pass hits at every cached call.
LEMMA RepeatKeeps ==
  ASSUME IInv, Repeat PROVE IInv'
<1> DEFINE op == script[pc + 1]
           n == Len(script)
<1>1. /\ phase = "write" /\ pc < n /\ pc' = pc + 1
      /\ UNCHANGED <<script, phase, dest, result>>
  BY DEF Repeat, callVars
<1>2. PICK v \in Payloads : Do(op, v)
  BY DEF Repeat
<1>3. Types /\ n \in Nat /\ pc \in Nat /\ script \in Seq(Ops) /\ gens \in Nat
  BY DEF IInv, Types
<1>4. op \in Ops
  BY <1>1, <1>3
<1>5. \A s \in Slots : /\ Len(scratch[s].values) = Cardinality(CachedAt(script, s, n))
                       /\ scratch[s].idx = Cardinality(CachedAt(script, s, pc))
                       /\ scratch[s].idx \in Nat
  BY <1>1 DEF IInv, Cursors, Types
<1>6. \A s \in Slots : Cardinality(CachedAt(script, s, pc + 1)) =
                         IF op.op = "cached" /\ op.slot = s THEN scratch[s].idx + 1
                         ELSE scratch[s].idx
  <2> SUFFICES ASSUME NEW s \in Slots
               PROVE  Cardinality(CachedAt(script, s, pc + 1)) =
                        IF op.op = "cached" /\ op.slot = s THEN scratch[s].idx + 1
                        ELSE scratch[s].idx
    OBVIOUS
  <2>1. Cardinality(CachedAt(script, s, pc + 1)) =
          IF op.op = "cached" /\ op.slot = s THEN Cardinality(CachedAt(script, s, pc)) + 1
          ELSE Cardinality(CachedAt(script, s, pc))
    BY <1>3, CountNext
  <2> QED BY <1>5, <2>1
<1>7. op.op = "cached" => /\ Cardinality(CachedAt(script, op.slot, pc))
                               < Cardinality(CachedAt(script, op.slot, n))
  BY <1>1, <1>3, CountBelow
<1> HIDE DEF op, n
<1>8. /\ op.op # "cached" => UNCHANGED <<scratch, gens>>
      /\ op.op = "cached" =>
           /\ op.slot \in Slots
           /\ scratch' \in [Slots -> [values : Seq(Payloads), idx : Nat]]
           /\ \A s \in Slots : s # op.slot => scratch'[s] = scratch[s]
           /\ scratch'[op.slot].idx = scratch[op.slot].idx + 1
           /\ IF scratch[op.slot].idx < Len(scratch[op.slot].values)
              THEN gens' = gens /\ Len(scratch'[op.slot].values) = Len(scratch[op.slot].values)
              ELSE /\ gens' = gens + 1
                   /\ Len(scratch'[op.slot].values) = Len(scratch[op.slot].values) + 1
  BY <1>2, <1>3, <1>4, DoCache
<1>9. gens' = gens
  BY <1>5, <1>7, <1>8
<1>10. ASSUME NEW s \in Slots
       PROVE  /\ Len(scratch'[s].values) = Cardinality(CachedAt(script, s, n))
              /\ scratch'[s].idx = Cardinality(CachedAt(script, s, pc + 1))
  <2>1. CASE op.op = "cached" /\ op.slot = s
    BY <1>5, <1>6, <1>7, <1>8, <2>1
  <2>2. CASE ~(op.op = "cached" /\ op.slot = s)
    BY <1>5, <1>6, <1>8, <2>2
  <2> QED BY <2>1, <2>2
<1>11. Types'
  BY <1>1, <1>3, <1>8, <1>9 DEF Types
<1>12. Cursors'
  <2>1. pc + 1 <= n
    BY <1>1, <1>3
  <2> QED BY <1>1, <1>10, <2>1 DEF Cursors, n
<1>13. OneMaterialization' /\ Untouched'
  BY <1>1, <1>9 DEF IInv, OneMaterialization, Untouched
<1> QED BY <1>11, <1>12, <1>13 DEF IInv

\* adoptScratch rewinds the cursors.
LEMMA SizeDoneKeeps ==
  ASSUME IInv, SizeDone PROVE IInv'
<1>0. Types /\ Cursors /\ OneMaterialization /\ Untouched /\ phase = "size"
  BY DEF IInv, SizeDone
<1>1. CASE Return("ErrBodyTooLarge")
  <2>1. /\ phase' = "idle" /\ UNCHANGED <<script, pc, scratch, gens, dest>>
    BY <1>1 DEF Return, cacheVars
  <2>2. Untouched'
    BY <1>0, <2>1 DEF Untouched
  <2> QED BY <1>0, <2>1, <2>2, CacheAlone DEF IInv
<1>2. CASE phase' = "write" /\ adoptScratch /\ UNCHANGED <<script, pc, gens, dest, result>>
  <2>1. /\ phase' = "write" /\ UNCHANGED <<script, pc, gens, dest>>
        /\ scratch' = [s \in Slots |-> [scratch[s] EXCEPT !.idx = 0]]
    BY <1>2 DEF adoptScratch
  <2>2. ASSUME NEW s \in Slots
        PROVE  /\ [scratch[s] EXCEPT !.idx = 0] = [values |-> scratch[s].values, idx |-> 0]
               /\ scratch[s].values \in Seq(Payloads)
    BY <1>0 DEF Types
  <2>3. \A s \in Slots : scratch'[s] = [values |-> scratch[s].values, idx |-> 0]
    BY <2>1, <2>2
  <2>4. scratch' \in [Slots -> [values : Seq(Payloads), idx : Nat]]
    BY <2>1, <2>2
  <2>5. Types'
    BY <1>0, <2>1, <2>4 DEF Types
  <2>6. pc = 0 /\ \A s \in Slots : Len(scratch[s].values) = Cardinality(CachedAt(script, s, Len(script)))
    BY <1>0 DEF Cursors
  <2>7. Cursors'
    <3>1. \A s \in Slots : scratch'[s].values = scratch[s].values /\ scratch'[s].idx = 0
      <4> SUFFICES ASSUME NEW s \in Slots
                   PROVE  scratch'[s].values = scratch[s].values /\ scratch'[s].idx = 0
        OBVIOUS
      <4> DEFINE e == scratch'[s]
                 vs == scratch[s].values
      <4>1. e = [values |-> vs, idx |-> 0]
        BY <2>3
      <4> HIDE DEF e, vs
      <4>2. e.values = vs /\ e.idx = 0
        BY <4>1
      <4> QED BY <4>2 DEF e, vs
    <3>2. Len(script) \in Nat /\ 0 <= Len(script)
      BY <1>0 DEF Types
    <3>3. \A s \in Slots : /\ Len(scratch'[s].values) = Cardinality(CachedAt(script, s, Len(script)))
                           /\ scratch'[s].idx = Cardinality(CachedAt(script, s, 0))
      BY <2>6, <3>1, CountNone
    <3> QED BY <2>1, <2>6, <3>2, <3>3 DEF Cursors
  <2>8. OneMaterialization' /\ Untouched'
    BY <1>0, <2>1 DEF OneMaterialization, Untouched
  <2> QED BY <2>5, <2>7, <2>8 DEF IInv
<1> QED BY <1>1, <1>2 DEF SizeDone

-----------------------------------------------------------------------------
\* The invariant holds at first.
LEMMA MarshalInit == Init => IInv
<1> SUFFICES ASSUME Init PROVE IInv
  OBVIOUS
<1>1. /\ script = <<>> /\ pc = 0 /\ gens = 0 /\ scratch = NoScratch
      /\ dest = "empty" /\ phase = "idle"
  BY DEF Init
<1>2. script \in Seq(Ops) /\ DOMAIN script = {}
  BY <1>1
<1>3. NoScratch \in [Slots -> [values : Seq(Payloads), idx : Nat]]
  BY DEF NoScratch
<1>4. {i \in DOMAIN script : script[i].op = "cached"} = {}
  BY <1>2
<1>5. OneMaterialization
  BY <1>1, <1>4, FS_EmptySet DEF OneMaterialization
<1> QED BY <1>1, <1>2, <1>3, <1>5 DEF IInv, Types, Cursors, Untouched

\* Every step keeps it.
LEMMA MarshalStep == IInv /\ [Next]_vars => IInv'
<1> SUFFICES ASSUME IInv, [Next]_vars PROVE IInv'
  OBVIOUS
<1>0. Types /\ Cursors /\ OneMaterialization /\ Untouched
  BY DEF IInv
<1>a. ASSUME UNCHANGED <<script, pc, scratch, gens>>,
             phase' \in {phase, "idle", "deliver", "deliverBody"}, Untouched'
      PROVE  IInv'
  BY <1>0, <1>a, CacheAlone DEF IInv
<1>1. ASSUME NEW o \in OptionSet, Start(o) PROVE IInv'
  <2>1. FreshWriter /\ phase' \in {"size", "idle"}
    BY <1>1 DEF Start
  <2>2. Types' /\ Cursors' /\ OneMaterialization' /\ dest' = "empty"
    BY <2>1, FreshCache
  <2> QED BY <2>1, <2>2 DEF IInv, Untouched
<1>2. CASE Reset
  <2>1. FreshWriter /\ phase' = "manual"
    BY <1>2 DEF Reset
  <2>2. Types' /\ Cursors' /\ OneMaterialization' /\ dest' = "empty"
    BY <2>1, FreshCache
  <2> QED BY <2>1, <2>2 DEF IInv, Untouched
<1>3. ASSUME NEW op \in Ops, Call(op) PROVE IInv'
  BY <1>3, CallKeeps
<1>4. CASE CallFails
  <2>1. UNCHANGED <<script, pc, scratch, gens, phase, dest, result>>
    BY <1>4 DEF CallFails, cacheVars, callVars
  <2> QED BY <1>0, <1>a, <2>1 DEF Untouched
<1>5. CASE Repeat
  BY <1>5, RepeatKeeps
<1>6. CASE Fail
  <2>1. phase \in {"size", "write", "manual"} /\ phase' = "idle" /\ UNCHANGED <<script, pc, scratch, gens, dest>>
    BY <1>6 DEF Fail, Return, cacheVars
  <2> QED BY <1>0, <1>a, <2>1 DEF Untouched
<1>7. CASE SizeDone
  BY <1>7, SizeDoneKeeps
<1>8. CASE WriteDone
  <2>1. phase = "write" /\ phase' = "deliver" /\ UNCHANGED <<script, pc, scratch, gens, dest>>
    BY <1>8 DEF WriteDone, cacheVars
  <2> QED BY <1>0, <1>a, <2>1 DEF Untouched
<1>9. CASE FinalizeBodyLen
  <2>1. /\ phase = "manual" /\ phase' \in {phase, "idle", "deliver"}
        /\ UNCHANGED <<script, pc, scratch, gens, dest>>
    BY <1>9 DEF FinalizeBodyLen, cacheVars
  <2> QED BY <1>0, <1>a, <2>1 DEF Untouched
<1>10. CASE Finish
  <2>1. PICK n \in FrameLens : CloseFrame(buf, n)
    BY <1>10 DEF Finish
  <2>2. /\ phase = "write" /\ phase' \in {"idle", "deliver"}
        /\ UNCHANGED <<script, pc, scratch, gens, dest>>
    BY <2>1 DEF CloseFrame, Return, cacheVars
  <2> QED BY <1>0, <1>a, <2>2 DEF Untouched
<1>11. CASE Deliver
  <2>1. /\ phase = "deliver" /\ UNCHANGED <<script, pc, scratch, gens>>
        /\ \/ phase' = "idle" /\ result' \in {"ErrDest", "ok"}
           \/ phase' = "deliverBody"
    BY <1>11 DEF Deliver, cacheVars
  <2> QED BY <1>0, <1>a, <2>1 DEF Untouched
<1>12. CASE DeliverBody
  <2>1. phase' = "idle" /\ result' \in {"ErrDest", "ok"} /\ UNCHANGED <<script, pc, scratch, gens>>
    BY <1>12 DEF DeliverBody, cacheVars
  <2> QED BY <1>0, <1>a, <2>1 DEF Untouched
<1>13. CASE UNCHANGED vars
  <2>1. UNCHANGED <<script, pc, scratch, gens, phase, dest, result>>
    BY <1>13 DEF vars, cacheVars
  <2> QED BY <1>0, <1>a, <2>1 DEF Untouched
<1> QED BY <1>1, <1>2, <1>3, <1>4, <1>5, <1>6, <1>7, <1>8, <1>9, <1>10, <1>11, <1>12, <1>13 DEF Next

\* For any value, any number of slots and any compression: a materializing codec
\* runs exactly once per occurrence, although MarshalGSBM runs twice.
THEOREM CodecsRunOnce == Spec => []OneMaterialization
<1>1. IInv => OneMaterialization
  BY DEF IInv
<1> QED BY <1>1, MarshalInit, MarshalStep, PTL DEF Spec

\* For any value and options: only a failing write to the destination itself can
\* leave a part of a blob there; every other error leaves nothing.
THEOREM FailedEncodeLeavesNothing == Spec => []NothingOnEncodeError
<1>1. IInv => NothingOnEncodeError
  BY DEF IInv, Untouched, NothingOnEncodeError
<1> QED BY <1>1, MarshalInit, MarshalStep, PTL DEF Spec

-----------------------------------------------------------------------------
(* Induction.  The theorems of the library take the induction hypothesis as *)
(* an operator; here it is a set, and the least counterexample does it.     *)

\* A set of naturals that is not empty has a least element.
LEMMA Least ==
  ASSUME NEW T, T \subseteq Nat, T # {}
  PROVE  \E n \in T : \A m \in T : n <= m
<1> DEFINE R == {p \in Nat \X Nat : p[1] < p[2]}
<1>1. IsWellFoundedOn(R, Nat)
  BY NatLessThanWellFounded DEF OpToRel
<1>2. PICK n \in T : \A m \in T : ~(<<m, n>> \in R)
  <2> HIDE DEF R
  <2> QED BY <1>1, WFMin
<1>3. ASSUME NEW m \in T PROVE n <= m
  <2>1. m \in Nat /\ n \in Nat /\ <<m, n>> \in Nat \X Nat /\ <<m, n>>[1] = m /\ <<m, n>>[2] = n
    OBVIOUS
  <2>2. ~(m < n)
    BY <1>2, <2>1
  <2> QED BY <2>1, <2>2
<1> QED BY <1>3

\* Induction, from n to n + 1 and from everything below n to n.
LEMMA Induct ==
  ASSUME NEW T, 0 \in T, \A n \in Nat : n \in T => n + 1 \in T
  PROVE  Nat \subseteq T
<1> SUFFICES ASSUME Nat \ T # {} PROVE FALSE
  OBVIOUS
<1>1. PICK n \in Nat \ T : \A m \in Nat \ T : n <= m
  BY Least
<1>2. n # 0 /\ n - 1 \in Nat /\ n - 1 \notin Nat \ T
  BY <1>1
<1> QED BY <1>2

\* Induction, from everything below n to n.
LEMMA InductBelow ==
  ASSUME NEW T, \A n \in Nat : (\A m \in 0 .. n - 1 : m \in T) => n \in T
  PROVE  Nat \subseteq T
<1> SUFFICES ASSUME Nat \ T # {} PROVE FALSE
  OBVIOUS
<1>1. PICK n \in Nat \ T : \A m \in Nat \ T : n <= m
  BY Least
<1>2. \A m \in 0 .. n - 1 : m \in T
  BY <1>1
<1> QED BY <1>1, <1>2

\* Concatenation.
LEMMA Cat ==
  ASSUME NEW X, NEW s \in Seq(X), NEW t \in Seq(X)
  PROVE  /\ s \o t \in Seq(X) /\ Len(s \o t) = Len(s) + Len(t)
         /\ s \o <<>> = s /\ <<>> \o s = s
OBVIOUS

\* Concatenation is associative.
LEMMA CatAssoc ==
  ASSUME NEW X, NEW s \in Seq(X), NEW t \in Seq(X), NEW u \in Seq(X)
  PROVE  (s \o t) \o u = s \o (t \o u)
OBVIOUS

-----------------------------------------------------------------------------
(* Varints.                                                                 *)

\* Taking the last digit off makes a number smaller.
Rest(v) == v \div VarintBase

\* Taking the last digit off makes a number smaller.
LEMMA Digit ==
  ASSUME NEW v \in Nat
  PROVE  v >= VarintBase => Rest(v) \in Nat /\ Rest(v) < v
<1> DEFINE b == VarintBase
           q == v \div VarintBase
           m == v % VarintBase
<1>1. b \in Nat /\ b >= 2
  BY WireAssumption
<1>2. q \in Int /\ m \in 0 .. b - 1 /\ v = b * q + m
  BY <1>1
<1> HIDE DEF b, q, m
<1>3. q >= 0
  <2> SUFFICES ASSUME q <= -1 PROVE FALSE
    BY <1>2
  <2>1. b * q <= -b
    BY <1>1, <1>2
  <2> QED BY <1>1, <1>2, <2>1
<1>4. v >= b => q < v
  <2> SUFFICES ASSUME v >= b, q >= v PROVE FALSE
    BY <1>2
  <2>1. b * q >= 2 * q
    BY <1>1, <1>2, <1>3
  <2> QED BY <1>1, <1>2, <2>1
<1> QED BY <1>2, <1>3, <1>4 DEF b, q, m, Rest

\* A function may be defined by recursion on the digits of its argument.
DigitFun(g, D, a, F) ==
  \A v \in D : g[v] = IF v < VarintBase THEN a[v] ELSE F[<<v, g[Rest(v)]>>]

\* A definition by recursion on the digits has a solution.
LEMMA DigitRecursion ==
  ASSUME NEW X, NEW a \in [Nat -> X], NEW F \in [Nat \X X -> X]
  PROVE  \E g \in [Nat -> X] : DigitFun(g, Nat, a, F)
<1> USE WireAssumption
<1> DEFINE T == {n \in Nat : \E g \in [0 .. n -> X] : DigitFun(g, 0 .. n, a, F)}
<1>1. Nat \subseteq T
  <2>1. 0 \in T
    <3> DEFINE g == [v \in 0 .. 0 |-> a[v]]
    <3>1. g \in [0 .. 0 -> X] /\ DigitFun(g, 0 .. 0, a, F)
      BY DEF DigitFun
    <3> QED BY <3>1
  <2>2. ASSUME NEW n \in Nat, n \in T PROVE n + 1 \in T
    <3>1. PICK g \in [0 .. n -> X] : DigitFun(g, 0 .. n, a, F)
      BY <2>2
    <3> DEFINE m == n + 1
               x == IF m < VarintBase THEN a[m] ELSE F[<<m, g[Rest(m)]>>]
               h == [v \in 0 .. m |-> IF v = m THEN x ELSE g[v]]
    <3>a. m \in Nat /\ (m >= VarintBase => Rest(m) \in 0 .. n)
      <4>1. m >= VarintBase => Rest(m) \in Nat /\ Rest(m) < m
        BY Digit
      <4> QED BY <4>1
    <3>2. x \in X
      BY <3>a
    <3> HIDE DEF x
    <3>3. h \in [0 .. m -> X]
      BY <3>2
    <3>4. ASSUME NEW v \in 0 .. m
          PROVE  h[v] = IF v < VarintBase THEN a[v] ELSE F[<<v, h[Rest(v)]>>]
      <4>0. v \in Nat /\ (v < VarintBase <=> ~(v >= VarintBase))
        OBVIOUS
      <4>1. v >= VarintBase => Rest(v) \in Nat /\ Rest(v) < v
        BY <4>0, Digit
      <4>2. v >= VarintBase => h[Rest(v)] = g[Rest(v)]
        BY <4>1
      <4>3. CASE v = m
        <5>1. h[v] = x
          BY <4>3
        <5>2. x = IF v < VarintBase THEN a[v] ELSE F[<<v, g[Rest(v)]>>]
          BY <4>3 DEF x
        <5> HIDE DEF h, m
        <5> QED BY <4>0, <4>2, <5>1, <5>2, Zenon
      <4>4. CASE v # m
        <5>1. v \in 0 .. n /\ h[v] = g[v]
          BY <4>4
        <5>2. g[v] = IF v < VarintBase THEN a[v] ELSE F[<<v, g[Rest(v)]>>]
          BY <3>1, <5>1 DEF DigitFun
        <5> HIDE DEF h, m
        <5> QED BY <4>0, <4>2, <5>1, <5>2, Zenon
      <4> QED BY <4>3, <4>4
    <3>5. DigitFun(h, 0 .. m, a, F)
      BY <3>4 DEF DigitFun
    <3> HIDE DEF h
    <3> QED BY <3>3, <3>5
  <2> HIDE DEF T
  <2> QED BY <2>1, <2>2, Induct
<1> DEFINE G(n) == CHOOSE g \in [0 .. n -> X] : DigitFun(g, 0 .. n, a, F)
<1>2. \A n \in Nat : G(n) \in [0 .. n -> X] /\ DigitFun(G(n), 0 .. n, a, F)
  BY <1>1
<1>3. \A v \in Nat : \A m \in Nat : \A n \in Nat : v <= m /\ v <= n => G(m)[v] = G(n)[v]
  <2> HIDE DEF T, G
  <2> DEFINE Q == {v \in Nat : \A m \in Nat : \A n \in Nat : v <= m /\ v <= n => G(m)[v] = G(n)[v]}
  <2>1. ASSUME NEW v \in Nat, \A u \in 0 .. v - 1 : u \in Q PROVE v \in Q
    <3> SUFFICES ASSUME NEW m \in Nat, NEW n \in Nat, v <= m, v <= n PROVE G(m)[v] = G(n)[v]
      OBVIOUS
    <3>1. /\ G(m)[v] = IF v < VarintBase THEN a[v] ELSE F[<<v, G(m)[Rest(v)]>>]
          /\ G(n)[v] = IF v < VarintBase THEN a[v] ELSE F[<<v, G(n)[Rest(v)]>>]
      BY <1>2 DEF DigitFun
    <3>2. v >= VarintBase => G(m)[Rest(v)] = G(n)[Rest(v)]
      <4>1. v >= VarintBase => Rest(v) \in 0 .. v - 1
        BY Digit
      <4>2. v >= VarintBase => Rest(v) \in Q /\ Rest(v) <= m /\ Rest(v) <= n
        BY <2>1, <4>1
      <4> QED BY <4>2
    <3> QED BY <3>1, <3>2
  <2> HIDE DEF Q
  <2>2. Nat \subseteq Q
    BY <2>1, InductBelow
  <2> QED BY <2>2 DEF Q
<1> HIDE DEF G
<1> DEFINE f == [v \in Nat |-> G(v)[v]]
<1>4. f \in [Nat -> X]
  BY <1>2
<1>5. ASSUME NEW v \in Nat
      PROVE  f[v] = IF v < VarintBase THEN a[v] ELSE F[<<v, f[Rest(v)]>>]
  <2>1. G(v)[v] = IF v < VarintBase THEN a[v] ELSE F[<<v, G(v)[Rest(v)]>>]
    BY <1>2 DEF DigitFun
  <2>2. v >= VarintBase => G(v)[Rest(v)] = f[Rest(v)]
    BY <1>3, Digit
  <2> QED BY <2>1, <2>2
<1>6. DigitFun(f, Nat, a, F)
  BY <1>5 DEF DigitFun
<1> HIDE DEF f
<1> QED BY <1>4, <1>6

\* The length of a varint, and its bytes.
LEMMA VarintLen ==
  /\ varintLen \in [Nat -> Nat]
  /\ \A v \in Nat : varintLen[v] = IF v < VarintBase THEN 1 ELSE 1 + varintLen[Rest(v)]
<1> DEFINE a == [v \in Nat |-> 1]
           F == [p \in Nat \X Nat |-> 1 + p[2]]
<1>1. PICK g \in [Nat -> Nat] : DigitFun(g, Nat, a, F)
  <2>1. a \in [Nat -> Nat] /\ F \in [Nat \X Nat -> Nat]
    OBVIOUS
  <2> HIDE DEF a, F
  <2> QED BY <2>1, DigitRecursion
<1>2. ASSUME NEW v \in Nat
      PROVE  g[v] = IF v < VarintBase THEN 1 ELSE 1 + g[Rest(v)]
  <2>1. v >= VarintBase => <<v, g[Rest(v)]>> \in Nat \X Nat /\ F[<<v, g[Rest(v)]>>] = 1 + g[Rest(v)]
    BY Digit
  <2>2. a[v] = 1 /\ (v >= VarintBase \/ v < VarintBase)
    BY WireAssumption
  <2> HIDE DEF a, F
  <2>3. g[v] = IF v < VarintBase THEN a[v] ELSE F[<<v, g[Rest(v)]>>]
    BY <1>1 DEF DigitFun
  <2> QED BY <2>1, <2>2, <2>3
<1>3. \E h : h = [v \in Nat |-> IF v < VarintBase THEN 1 ELSE 1 + h[Rest(v)]]
  <2>1. g = [v \in Nat |-> IF v < VarintBase THEN 1 ELSE 1 + g[Rest(v)]]
    BY <1>2
  <2> QED BY <2>1
<1>4. varintLen = [v \in Nat |-> IF v < VarintBase THEN 1 ELSE 1 + varintLen[Rest(v)]]
  BY <1>3, Zenon DEF varintLen, Rest
<1>5. \A v \in Nat : varintLen[v] = IF v < VarintBase THEN 1 ELSE 1 + varintLen[Rest(v)]
  BY <1>4
<1> DEFINE T == {v \in Nat : varintLen[v] \in Nat}
<1>6. ASSUME NEW v \in Nat, \A u \in 0 .. v - 1 : u \in T PROVE v \in T
  <2>1. v >= VarintBase => varintLen[Rest(v)] \in Nat
    <3>1. v >= VarintBase => Rest(v) \in 0 .. v - 1
      BY Digit
    <3> QED BY <1>6, <3>1
  <2> QED BY <1>5, <2>1, WireAssumption
<1> HIDE DEF T
<1>7. Nat \subseteq T
  BY <1>6, InductBelow
<1>8. \A v \in Nat : varintLen[v] \in Nat
  BY <1>7 DEF T
<1>9. DOMAIN varintLen = Nat
  BY <1>4
<1>10. varintLen = [v \in Nat |-> varintLen[v]]
  BY <1>4
<1> QED BY <1>5, <1>8, <1>10

\* The bytes of a varint are as many as varintLen says.
LEMMA Uvarint ==
  /\ appendUvarint \in [Nat -> Seq(Byte)]
  /\ \A v \in Nat : Len(appendUvarint[v]) = varintLen[v]
<1> DEFINE a == [v \in Nat |-> IF v < VarintBase THEN <<v>> ELSE <<0>>]
           F == [p \in Nat \X Seq(Byte) |-> <<VarintBase + (p[1] % VarintBase)>> \o p[2]]
           low(v) == <<VarintBase + (v % VarintBase)>>
<1>0. VarintBase \in Nat /\ VarintBase >= 2
  BY WireAssumption
<1>1. \A v \in Nat : low(v) \in Seq(Byte) /\ Len(low(v)) = 1
  <2> SUFFICES ASSUME NEW v \in Nat PROVE low(v) \in Seq(Byte) /\ Len(low(v)) = 1
    OBVIOUS
  <2>1. v % VarintBase \in 0 .. VarintBase - 1
    BY <1>0
  <2>2. VarintBase + (v % VarintBase) \in Byte
    <3> DEFINE m == v % VarintBase
    <3>1. m \in 0 .. VarintBase - 1
      BY <2>1
    <3> HIDE DEF m
    <3> QED BY <1>0, <3>1 DEF Byte, m
  <2> QED BY <2>2
<1>2. \A v \in Nat : v < VarintBase => <<v>> \in Seq(Byte) /\ Len(<<v>>) = 1
  BY <1>0 DEF Byte
<1>3. a \in [Nat -> Seq(Byte)]
  <2>1. <<0>> \in Seq(Byte)
    BY <1>0 DEF Byte
  <2>2. ASSUME NEW v \in Nat PROVE a[v] \in Seq(Byte)
    BY <1>2, <2>1
  <2> QED BY <2>2
<1>4. F \in [Nat \X Seq(Byte) -> Seq(Byte)]
  <2>1. ASSUME NEW p \in Nat \X Seq(Byte) PROVE F[p] \in Seq(Byte)
    <3>1. p[1] \in Nat /\ p[2] \in Seq(Byte) /\ F[p] = low(p[1]) \o p[2]
      OBVIOUS
    <3>2. low(p[1]) \in Seq(Byte)
      BY <1>1, <3>1
    <3> HIDE DEF low, F
    <3> QED BY <3>1, <3>2
  <2> QED BY <2>1
<1>5. PICK g \in [Nat -> Seq(Byte)] : DigitFun(g, Nat, a, F)
  <2> HIDE DEF a, F
  <2> QED BY <1>3, <1>4, DigitRecursion
<1>6. ASSUME NEW v \in Nat
      PROVE  g[v] = IF v < VarintBase THEN <<v>> ELSE low(v) \o g[Rest(v)]
  <2>1. v >= VarintBase => F[<<v, g[Rest(v)]>>] = low(v) \o g[Rest(v)]
    <3> SUFFICES ASSUME v >= VarintBase PROVE F[<<v, g[Rest(v)]>>] = low(v) \o g[Rest(v)]
      OBVIOUS
    <3>1. <<v, g[Rest(v)]>> \in Nat \X Seq(Byte)
      BY Digit
    <3> QED BY <3>1
  <2>2. v < VarintBase => a[v] = <<v>>
    OBVIOUS
  <2>3. v < VarintBase <=> ~(v >= VarintBase)
    BY <1>0
  <2> HIDE DEF a, F, low
  <2>4. g[v] = IF v < VarintBase THEN a[v] ELSE F[<<v, g[Rest(v)]>>]
    BY <1>5 DEF DigitFun
  <2> QED BY <2>1, <2>2, <2>3, <2>4, Zenon
<1>7. g = [v \in Nat |-> IF v < VarintBase THEN <<v>> ELSE low(v) \o g[Rest(v)]]
  <2> HIDE DEF low
  <2> QED BY <1>6
<1>8. appendUvarint = [v \in Nat |-> IF v < VarintBase THEN <<v>> ELSE low(v) \o appendUvarint[Rest(v)]]
  BY <1>7, Zenon DEF appendUvarint, Rest
<1> HIDE DEF low
<1>9. \A v \in Nat : appendUvarint[v] = IF v < VarintBase THEN <<v>> ELSE low(v) \o appendUvarint[Rest(v)]
  BY <1>8
<1> DEFINE T == {v \in Nat : appendUvarint[v] \in Seq(Byte) /\ Len(appendUvarint[v]) = varintLen[v]}
<1>10. ASSUME NEW v \in Nat, \A u \in 0 .. v - 1 : u \in T PROVE v \in T
  <2>1. v >= VarintBase => Rest(v) \in 0 .. v - 1
    BY Digit
  <2>2. CASE v < VarintBase
    <3>1. appendUvarint[v] = <<v>> /\ varintLen[v] = 1
      BY <1>9, <2>2, VarintLen
    <3> QED BY <1>2, <2>2, <3>1
  <2>3. CASE v >= VarintBase
    <3>1. ~(v < VarintBase) /\ Rest(v) \in T
      BY <1>0, <1>10, <2>1, <2>3
    <3> DEFINE w == appendUvarint[Rest(v)]
    <3>2. w \in Seq(Byte) /\ Len(w) = varintLen[Rest(v)]
      BY <3>1
    <3>3. appendUvarint[v] = low(v) \o w /\ varintLen[v] = 1 + varintLen[Rest(v)]
      BY <1>9, <3>1, VarintLen
    <3>4. low(v) \in Seq(Byte) /\ Len(low(v)) = 1
      BY <1>1 DEF low
    <3> HIDE DEF w
    <3>5. low(v) \o w \in Seq(Byte) /\ Len(low(v) \o w) = Len(low(v)) + Len(w)
      BY <3>2, <3>4, Cat
    <3>6. appendUvarint[v] \in Seq(Byte) /\ Len(appendUvarint[v]) = varintLen[v]
      BY <3>2, <3>3, <3>4, <3>5
    <3> QED BY <3>6
  <2> QED BY <1>0, <2>2, <2>3
<1> HIDE DEF T
<1>11. Nat \subseteq T
  BY <1>10, InductBelow
<1>12. \A v \in Nat : appendUvarint[v] \in Seq(Byte) /\ Len(appendUvarint[v]) = varintLen[v]
  BY <1>11 DEF T
<1>13. appendUvarint = [v \in Nat |-> appendUvarint[v]]
  BY <1>8
<1> QED BY <1>12, <1>13

-----------------------------------------------------------------------------
(* The fold behind Regions.                                                 *)

\* The largest of a set of indices that holds n + 1 and no larger one.
LEMMA MaxLast ==
  ASSUME NEW n \in Nat, NEW S, S \subseteq 1 .. n + 1, n + 1 \in S
  PROVE  Max(S) = n + 1 /\ S \ {n + 1} \subseteq 1 .. n
<1>1. \A y \in S : n + 1 >= y
  OBVIOUS
<1>2. \A x \in S : (\A y \in S : x >= y) => x = n + 1
  OBVIOUS
<1>3. Max(S) = n + 1
  BY <1>1, <1>2 DEF Max
<1> QED BY <1>3

\* The function FoldLeft iterates over the sets of indices of the calls s.
Iterates(g, s, n) ==
  g = [S \in SUBSET (1 .. n) |->
         IF S = {} THEN << <<>> >> ELSE AfterCall(g[S \ {Max(S)}], s[Max(S)])]

\* There is such a function.
LEMMA IteratesExists ==
  ASSUME NEW s, NEW N \in Nat
  PROVE  \E g : Iterates(g, s, N)
<1> DEFINE T == {n \in Nat : \E g : Iterates(g, s, n)}
<1>1. 0 \in T
  <2>1. Iterates([S \in SUBSET (1 .. 0) |-> << <<>> >>], s, 0)
    BY DEF Iterates
  <2> QED BY <2>1
<1>2. ASSUME NEW n \in Nat, n \in T PROVE n + 1 \in T
  <2>1. PICK g : Iterates(g, s, n)
    BY <1>2
  <2> DEFINE D == SUBSET (1 .. n + 1)
             h == [S \in D |-> IF n + 1 \in S THEN AfterCall(g[S \ {n + 1}], s[n + 1]) ELSE g[S]]
             hh == [S \in D |-> IF S = {} THEN << <<>> >> ELSE AfterCall(h[S \ {Max(S)}], s[Max(S)])]
  <2>2. ASSUME NEW S \in D PROVE h[S] = hh[S]
    <3>1. CASE n + 1 \in S
      <4>1. Max(S) = n + 1 /\ S \ {n + 1} \in D /\ n + 1 \notin S \ {n + 1}
        BY <3>1, MaxLast
      <4>2. h[S \ {n + 1}] = g[S \ {n + 1}]
        BY <4>1
      <4> QED BY <3>1, <4>1, <4>2
    <3>2. CASE n + 1 \notin S
      <4>1. S \in SUBSET (1 .. n)
        <5>1. S \subseteq 1 .. n + 1
          OBVIOUS
        <5>2. \A x \in S : x \in 1 .. n
          BY <5>1, <3>2
        <5> QED BY <5>2
      <4>2. S \ {Max(S)} \in D /\ n + 1 \notin S \ {Max(S)}
        BY <3>2
      <4>3. g[S] = IF S = {} THEN << <<>> >> ELSE AfterCall(g[S \ {Max(S)}], s[Max(S)])
        BY <4>1, <2>1 DEF Iterates
      <4>4. h[S] = g[S] /\ h[S \ {Max(S)}] = g[S \ {Max(S)}]
        BY <4>1, <4>2, <3>2
      <4> QED BY <4>3, <4>4
    <3> QED BY <3>1, <3>2
  <2>3. h = hh
    BY <2>2
  <2>4. Iterates(h, s, n + 1)
    BY <2>3, Zenon DEF Iterates
  <2> HIDE DEF h
  <2> QED BY <2>4
<1> HIDE DEF T
<1>3. N \in T
  BY <1>1, <1>2, Induct
<1> QED BY <1>3 DEF T

\* A fold is the end of the chain of its intermediate values.
Chain(t, s, n) == /\ t[0] = << <<>> >>
                  /\ \A k \in 1 .. n : t[k] = AfterCall(t[k - 1], s[k])

\* Regions is the end of the chain.
LEMMA RegionsChain ==
  ASSUME NEW s, NEW n \in Nat, DOMAIN s = 1 .. n
  PROVE  \E t : Chain(t, s, n) /\ t[n] = Regions(s)
<1> DEFINE g == CHOOSE h : Iterates(h, s, n)
<1>1. Iterates(g, s, n)
  BY IteratesExists
<1>2. Regions(s) = g[1 .. n]
  BY Zenon DEF Regions, FoldLeft, MapThenFoldSet, Iterates
<1> HIDE DEF g
<1> DEFINE t == [k \in 0 .. n |-> g[1 .. k]]
<1>3. t[0] = << <<>> >>
  <2>1. g[{}] = << <<>> >>
    BY <1>1 DEF Iterates
  <2> QED BY <2>1
<1>4. ASSUME NEW k \in 1 .. n PROVE t[k] = AfterCall(t[k - 1], s[k])
  <2>1. /\ k - 1 \in Nat /\ (k - 1) + 1 = k /\ k \in 1 .. k
        /\ (1 .. k) \ {k} = 1 .. k - 1 /\ 1 .. k # {} /\ 1 .. k \in SUBSET (1 .. n)
    OBVIOUS
  <2>2. Max(1 .. k) = k
    <3>1. Max(1 .. k) = (k - 1) + 1
      BY <2>1, MaxLast
    <3> QED BY <2>1, <3>1
  <2>3. g[1 .. k] = AfterCall(g[(1 .. k) \ {Max(1 .. k)}], s[Max(1 .. k)])
    BY <1>1, <2>1 DEF Iterates
  <2>4. t[k] = g[1 .. k] /\ t[k - 1] = g[1 .. k - 1]
    OBVIOUS
  <2> QED BY <2>1, <2>2, <2>3, <2>4
<1>5. t[n] = Regions(s)
  BY <1>2
<1>6. Chain(t, s, n)
  BY <1>3, <1>4, Zenon DEF Chain
<1> HIDE DEF t
<1> QED BY <1>5, <1>6

\* There is one chain only.
LEMMA ChainUnique ==
  ASSUME NEW s, NEW t, NEW u, NEW n \in Nat, Chain(t, s, n), Chain(u, s, n)
  PROVE  \A k \in 0 .. n : t[k] = u[k]
<1> DEFINE T == {k \in Nat : k <= n => t[k] = u[k]}
<1>1. 0 \in T
  BY DEF Chain
<1>2. ASSUME NEW k \in Nat, k \in T PROVE k + 1 \in T
  BY <1>2 DEF Chain
<1> HIDE DEF T
<1>3. Nat \subseteq T
  BY <1>1, <1>2, Induct
<1> QED BY <1>3 DEF T

\* Regions of no call, and of one call more.
LEMMA RegionsNone == Regions(<<>>) = << <<>> >>
BY RegionsChain, DOMAIN <<>> = 1 .. 0 DEF Chain

\* One call more is one step of AfterCall.
LEMMA RegionsNext ==
  ASSUME NEW X, NEW s \in Seq(X), NEW e \in X
  PROVE  Regions(Append(s, e)) = AfterCall(Regions(s), e)
<1>1. PICK t : Chain(t, s, Len(s)) /\ t[Len(s)] = Regions(s)
  BY RegionsChain
<1> DEFINE n == Len(s)
           se == Append(s, e)
<1>2. n \in Nat /\ DOMAIN se = 1 .. n + 1 /\ se[n + 1] = e /\ \A k \in 1 .. n : se[k] = s[k]
  OBVIOUS
<1> HIDE DEF n, se
<1>3. PICK u : Chain(u, se, n + 1) /\ u[n + 1] = Regions(se)
  BY <1>2, RegionsChain
<1>4. Chain(u, s, n)
  BY <1>2, <1>3 DEF Chain
<1>5. u[n] = t[n]
  BY <1>1, <1>2, <1>4, ChainUnique DEF n
<1>6. Regions(se) = AfterCall(u[n], e)
  BY <1>2, <1>3 DEF Chain
<1> QED BY <1>1, <1>5, <1>6 DEF n, se

-----------------------------------------------------------------------------
(* The open regions along a sequence of calls.                              *)

Bytes == Seq(Byte)

\* Elements of a sequence.
LEMMA ElementOf ==
  ASSUME NEW X, NEW s \in Seq(X), NEW i \in 1 .. Len(s)
  PROVE  s[i] \in X
OBVIOUS

\* Byte strings under concatenation.
LEMMA BytesCat ==
  /\ <<>> \in Bytes
  /\ \A a \in Bytes : Len(a) \in Nat /\ a \o <<>> = a /\ <<>> \o a = a
  /\ \A a \in Bytes : \A b \in Bytes : a \o b \in Bytes /\ Len(a \o b) = Len(a) + Len(b)
  /\ \A a \in Bytes : \A b \in Bytes : \A c \in Bytes : (a \o b) \o c = a \o (b \o c)
<1>1. <<>> \in Bytes /\ \A a \in Bytes : Len(a) \in Nat
  BY DEF Bytes
<1> QED BY <1>1, Cat, CatAssoc DEF Bytes

\* What a call that is neither the begin nor the end of a region appends.
OpBytes(op) == IF op.op \in {"bytes", "cached"} THEN appendUvarint[Len(op.b)] \o op.b ELSE op.b

\* The open regions after the first k calls; no call ends a region that is not open.
Open(calls, k) == Regions(SubSeq(calls, 1, k))
Nested(calls) ==
  \A k \in 1 .. Len(calls) : calls[k].op = "end" => Len(Open(calls, k - 1)) >= 2

\* What the calls of a value look like.
LEMMA OpFacts ==
  ASSUME NEW op \in Ops
  PROVE  /\ op.op \in {"write", "presence", "bytes", "cached", "begin", "end"}
         /\ op.op \notin {"begin", "end"} => op.b \in Bytes /\ OpBytes(op) \in Bytes
         /\ op.op = "presence" => Len(op.b) = 1
<1>1. op.op \in {"write", "presence", "bytes", "cached", "begin", "end"}
  BY DEF Ops
<1>2. Chunks \subseteq Bytes /\ Payloads \subseteq Bytes /\ <<1>> \in Bytes
  BY MarshalAssumption, WireAssumption DEF Byte, Bytes
<1>3. op.op \notin {"begin", "end"} => op.b \in Bytes
  BY <1>2 DEF Ops
<1>4. op.op = "presence" => Len(op.b) = 1
  BY DEF Ops
<1>5. op.op \notin {"begin", "end"} => OpBytes(op) \in Bytes
  <2>1. \A b \in Bytes : Len(b) \in Nat /\ appendUvarint[Len(b)] \in Bytes
    BY Uvarint DEF Bytes
  <2>2. \A b \in Bytes : appendUvarint[Len(b)] \o b \in Bytes
    BY <2>1, Cat DEF Bytes
  <2> QED BY <1>3, <2>2 DEF OpBytes
<1> QED BY <1>1, <1>3, <1>4, <1>5

\* What a call does to the open regions R: Q is what they become.
Steps(R, op, Q) ==
  /\ Q \in Seq(Bytes) /\ Len(Q) >= 1
  /\ op.op = "begin" =>
       Len(Q) = Len(R) + 1 /\ Q[Len(R) + 1] = <<>> /\ \A i \in 1 .. Len(R) : Q[i] = R[i]
  /\ op.op = "end" =>
       /\ Len(Q) = Len(R) - 1 /\ \A i \in 1 .. Len(R) - 2 : Q[i] = R[i]
       /\ Q[Len(R) - 1] = R[Len(R) - 1] \o (appendUvarint[Len(R[Len(R)])] \o R[Len(R)])
  /\ op.op \notin {"begin", "end"} =>
       /\ Len(Q) = Len(R) /\ \A i \in 1 .. Len(R) - 1 : Q[i] = R[i]
       /\ Q[Len(R)] = R[Len(R)] \o OpBytes(op)

\* onTop extends the innermost region only.
LEMMA OnTopFacts ==
  ASSUME NEW S \in Seq(Bytes), Len(S) >= 1, NEW b \in Bytes
  PROVE  /\ onTop(S, b) \in Seq(Bytes) /\ Len(onTop(S, b)) = Len(S)
         /\ \A i \in 1 .. Len(S) - 1 : onTop(S, b)[i] = S[i]
         /\ onTop(S, b)[Len(S)] = S[Len(S)] \o b
<1> DEFINE x == S[Len(S)] \o b
           Q == [S EXCEPT ![Len(S)] = x]
<1>1. x \in Bytes
  <2>1. S[Len(S)] \in Bytes
    OBVIOUS
  <2> QED BY <2>1, Cat DEF Bytes
<1>2. onTop(S, b) = Q
  BY DEF onTop
<1> HIDE DEF x
<1>3. /\ Q \in Seq(Bytes) /\ Len(Q) = Len(S)
      /\ \A i \in 1 .. Len(S) - 1 : Q[i] = S[i]
      /\ Q[Len(S)] = x
  BY <1>1
<1> HIDE DEF Q
<1> QED BY <1>2, <1>3 DEF x

\* AfterCall takes such a step, if no region ends that is not open.
LEMMA AfterCallFacts ==
  ASSUME NEW R \in Seq(Bytes), Len(R) >= 1, NEW op \in Ops, op.op = "end" => Len(R) >= 2
  PROVE  Steps(R, op, AfterCall(R, op))
<1> DEFINE Q == AfterCall(R, op)
<1>1. CASE op.op = "begin"
  <2>1. Q = Append(R, <<>>)
    BY <1>1 DEF AfterCall
  <2>2. <<>> \in Bytes
    BY DEF Bytes
  <2> HIDE DEF Q
  <2>3. Q \in Seq(Bytes) /\ Len(Q) = Len(R) + 1 /\ Q[Len(R) + 1] = <<>> /\ \A i \in 1 .. Len(R) : Q[i] = R[i]
    BY <2>1, <2>2
  <2>4. Len(Q) >= 1
    BY <2>3
  <2>5. Steps(R, op, Q)
    BY <1>1, <2>3, <2>4 DEF Steps
  <2> QED BY <2>5 DEF Q
<1>2. CASE op.op = "end"
  <2> DEFINE S == Front(R)
             b == appendUvarint[Len(R[Len(R)])] \o R[Len(R)]
  <2>1. Q = onTop(S, b)
    BY <1>2 DEF AfterCall, Last
  <2>2. S \in Seq(Bytes) /\ Len(S) = Len(R) - 1 /\ \A i \in 1 .. Len(R) - 1 : S[i] = R[i]
    BY <1>2 DEF Front
  <2>3. b \in Bytes
    <3>1. R[Len(R)] \in Bytes
      OBVIOUS
    <3>2. Len(R[Len(R)]) \in Nat
      BY <3>1 DEF Bytes
    <3>3. appendUvarint[Len(R[Len(R)])] \in Bytes
      BY <3>2, Uvarint DEF Bytes
    <3> QED BY <3>1, <3>3, Cat DEF Bytes
  <2> HIDE DEF S, b, Q
  <2>4. Len(R) \in Nat /\ Len(R) >= 2 /\ Len(S) >= 1
    BY <1>2, <2>2
  <2>5. /\ Q \in Seq(Bytes) /\ Len(Q) = Len(S)
        /\ \A i \in 1 .. Len(S) - 1 : Q[i] = S[i]
        /\ Q[Len(S)] = S[Len(S)] \o b
    BY <2>1, <2>2, <2>3, <2>4, OnTopFacts
  <2>6. Q[Len(R) - 1] = R[Len(R) - 1] \o b
    <3>1. Len(R) - 1 \in 1 .. Len(R) - 1 /\ Len(S) = Len(R) - 1
      BY <2>2, <2>4
    <3>2. S[Len(R) - 1] = R[Len(R) - 1]
      BY <2>2, <3>1
    <3> QED BY <2>5, <3>1, <3>2, Zenon
  <2>7. /\ Q[Len(R) - 1] = R[Len(R) - 1] \o (appendUvarint[Len(R[Len(R)])] \o R[Len(R)])
        /\ \A i \in 1 .. Len(R) - 2 : Q[i] = R[i]
    <3>1. \A i \in 1 .. Len(R) - 2 : i \in 1 .. Len(S) - 1 /\ i \in 1 .. Len(R) - 1
      BY <2>2, <2>4
    <3> QED BY <2>2, <2>5, <2>6, <3>1, Zenon DEF b
  <2>8. Steps(R, op, Q)
    BY <1>2, <2>2, <2>4, <2>5, <2>7 DEF Steps
  <2> QED BY <2>8 DEF Q
<1>3. CASE op.op \notin {"begin", "end"}
  <2>1. Q = onTop(R, OpBytes(op))
    BY <1>3 DEF AfterCall, OpBytes
  <2>2. OpBytes(op) \in Bytes
    BY <1>3, OpFacts
  <2> HIDE DEF Q
  <2>3. /\ Q \in Seq(Bytes) /\ Len(Q) = Len(R)
        /\ \A i \in 1 .. Len(R) - 1 : Q[i] = R[i]
        /\ Q[Len(R)] = R[Len(R)] \o OpBytes(op)
    BY <2>1, <2>2, OnTopFacts
  <2>4. Steps(R, op, Q)
    BY <1>3, <2>3 DEF Steps
  <2> QED BY <2>4 DEF Q
<1> QED BY <1>1, <1>2, <1>3

\* The open regions, call by call.
LEMMA OpenStep ==
  ASSUME NEW X, NEW calls \in Seq(X)
  PROVE  /\ Open(calls, 0) = << <<>> >> /\ Open(calls, Len(calls)) = Regions(calls)
         /\ \A k \in 0 .. Len(calls) - 1 :
              Open(calls, k + 1) = AfterCall(Open(calls, k), calls[k + 1])
<1>1. SubSeq(calls, 1, 0) = <<>> /\ SubSeq(calls, 1, Len(calls)) = calls
  OBVIOUS
<1>2. ASSUME NEW k \in 0 .. Len(calls) - 1
      PROVE  Open(calls, k + 1) = AfterCall(Open(calls, k), calls[k + 1])
  <2>1. /\ SubSeq(calls, 1, k) \in Seq(X) /\ calls[k + 1] \in X
        /\ SubSeq(calls, 1, k + 1) = Append(SubSeq(calls, 1, k), calls[k + 1])
    OBVIOUS
  <2> QED BY <2>1, RegionsNext DEF Open
<1> QED BY <1>1, <1>2, RegionsNone DEF Open

\* One call more leaves the earlier regions as they were.
LEMMA OpenAppend ==
  ASSUME NEW X, NEW calls \in Seq(X), NEW op \in X
  PROVE  /\ \A k \in 0 .. Len(calls) : Open(Append(calls, op), k) = Open(calls, k)
         /\ Open(Append(calls, op), Len(calls) + 1) = AfterCall(Open(calls, Len(calls)), op)
<1>1. \A k \in 0 .. Len(calls) : SubSeq(Append(calls, op), 1, k) = SubSeq(calls, 1, k)
  OBVIOUS
<1>2. /\ SubSeq(Append(calls, op), 1, Len(calls) + 1) = Append(calls, op)
      /\ SubSeq(calls, 1, Len(calls)) = calls
  OBVIOUS
<1> QED BY <1>1, <1>2, RegionsNext DEF Open

\* The regions are sequences of bytes, the outermost one is always open, and
\* each call changes them as Steps says.
LEMMA OpenTyped ==
  ASSUME NEW calls \in Seq(Ops), Nested(calls)
  PROVE  /\ \A k \in 0 .. Len(calls) : Open(calls, k) \in Seq(Bytes) /\ Len(Open(calls, k)) >= 1
         /\ \A k \in 1 .. Len(calls) : Steps(Open(calls, k - 1), calls[k], Open(calls, k))
<1> DEFINE T == {k \in Nat : k <= Len(calls) => Open(calls, k) \in Seq(Bytes) /\ Len(Open(calls, k)) >= 1}
<1>1. 0 \in T
  <2>1. ASSUME NEW R, R = << <<>> >> PROVE R \in Seq(Bytes) /\ Len(R) >= 1
    <3>1. <<>> \in Bytes
      BY DEF Bytes
    <3> QED BY <2>1, <3>1
  <2>2. Open(calls, 0) = << <<>> >>
    BY OpenStep
  <2>3. Open(calls, 0) \in Seq(Bytes) /\ Len(Open(calls, 0)) >= 1
    BY <2>1, <2>2
  <2> QED BY <2>3
<1>2. ASSUME NEW k \in Nat, k + 1 <= Len(calls),
             Open(calls, k) \in Seq(Bytes), Len(Open(calls, k)) >= 1
      PROVE  Steps(Open(calls, k), calls[k + 1], Open(calls, k + 1))
  <2>1. k \in 0 .. Len(calls) - 1 /\ k + 1 \in 1 .. Len(calls) /\ calls[k + 1] \in Ops /\ (k + 1) - 1 = k
    BY <1>2
  <2>2. Open(calls, k + 1) = AfterCall(Open(calls, k), calls[k + 1])
    BY <2>1, OpenStep
  <2>3. calls[k + 1].op = "end" => Len(Open(calls, k)) >= 2
    BY <2>1 DEF Nested
  <2> QED BY <1>2, <2>1, <2>2, <2>3, AfterCallFacts
<1>3. ASSUME NEW k \in Nat, k \in T PROVE k + 1 \in T
  <2> SUFFICES ASSUME k + 1 <= Len(calls)
               PROVE  Open(calls, k + 1) \in Seq(Bytes) /\ Len(Open(calls, k + 1)) >= 1
    OBVIOUS
  <2>1. k <= Len(calls)
    OBVIOUS
  <2>2. Steps(Open(calls, k), calls[k + 1], Open(calls, k + 1))
    BY <1>2, <1>3, <2>1
  <2> QED BY <2>2 DEF Steps
<1> HIDE DEF T
<1>4. Nat \subseteq T
  BY <1>1, <1>3, Induct
<1>5. \A k \in 0 .. Len(calls) : Open(calls, k) \in Seq(Bytes) /\ Len(Open(calls, k)) >= 1
  BY <1>4 DEF T
<1>6. ASSUME NEW k \in 1 .. Len(calls) PROVE Steps(Open(calls, k - 1), calls[k], Open(calls, k))
  <2>1. /\ k - 1 \in Nat /\ (k - 1) + 1 = k /\ (k - 1) + 1 <= Len(calls)
        /\ Open(calls, k - 1) \in Seq(Bytes) /\ Len(Open(calls, k - 1)) >= 1
    BY <1>5
  <2>2. Steps(Open(calls, k - 1), calls[(k - 1) + 1], Open(calls, (k - 1) + 1))
    BY <1>2, <2>1
  <2> QED BY <2>1, <2>2
<1> QED BY <1>5, <1>6

-----------------------------------------------------------------------------
(* Which call opened a region.                                              *)

Depth(calls, k) == Len(Open(calls, k))

\* Call i opened the innermost region that is open after k calls; 0 stands for
\* the body itself.
Opener(calls, i, k) ==
  /\ i \in 0 .. k /\ (i = 0 \/ calls[i].op = "begin")
  /\ Depth(calls, i) = Depth(calls, k)
  /\ \A j \in i .. k : Depth(calls, j) >= Depth(calls, i)

\* The regions are numbered in the order in which they open.
BeginsIn(calls, n) == {i \in 1 .. n : calls[i].op = "begin"}
Slot(calls, k) == Cardinality(BeginsIn(calls, k))

\* A begin is one level deeper, an end one level up.
LEMMA DepthFacts ==
  ASSUME NEW calls \in Seq(Ops), Nested(calls)
  PROVE  /\ Depth(calls, 0) = 1
         /\ \A k \in 0 .. Len(calls) : Depth(calls, k) \in Nat /\ Depth(calls, k) >= 1
         /\ \A k \in 1 .. Len(calls) :
              /\ calls[k].op = "begin" => Depth(calls, k) = Depth(calls, k - 1) + 1
              /\ calls[k].op = "end" => Depth(calls, k) = Depth(calls, k - 1) - 1
              /\ calls[k].op \notin {"begin", "end"} => Depth(calls, k) = Depth(calls, k - 1)
<1>1. Depth(calls, 0) = 1
  <2>1. Open(calls, 0) = << <<>> >>
    BY OpenStep
  <2> QED BY <2>1 DEF Depth
<1>2. \A k \in 0 .. Len(calls) : Depth(calls, k) \in Nat /\ Depth(calls, k) >= 1
  <2>1. \A k \in 0 .. Len(calls) : Open(calls, k) \in Seq(Bytes) /\ Len(Open(calls, k)) >= 1
    BY OpenTyped
  <2> QED BY <2>1 DEF Depth
<1>3. \A k \in 1 .. Len(calls) :
        /\ calls[k].op = "begin" => Depth(calls, k) = Depth(calls, k - 1) + 1
        /\ calls[k].op = "end" => Depth(calls, k) = Depth(calls, k - 1) - 1
        /\ calls[k].op \notin {"begin", "end"} => Depth(calls, k) = Depth(calls, k - 1)
  <2>1. \A k \in 1 .. Len(calls) : Steps(Open(calls, k - 1), calls[k], Open(calls, k))
    BY OpenTyped
  <2> QED BY <2>1 DEF Steps, Depth
<1> QED BY <1>1, <1>2, <1>3

\* There is one opener only.
LEMMA OpenerUnique ==
  ASSUME NEW calls \in Seq(Ops), Nested(calls), NEW k \in 0 .. Len(calls),
         NEW i, NEW j, Opener(calls, i, k), Opener(calls, j, k)
  PROVE  i = j
<1>1. ASSUME NEW a, NEW b, Opener(calls, a, k), Opener(calls, b, k), a < b PROVE FALSE
  <2>1. a \in Nat /\ b \in 1 .. Len(calls) /\ b - 1 \in a .. k /\ calls[b].op = "begin" /\ b \in a .. k
    BY <1>1 DEF Opener
  <2>2. Depth(calls, b - 1) >= Depth(calls, a) /\ Depth(calls, a) = Depth(calls, b)
    BY <1>1, <2>1 DEF Opener
  <2>3. b - 1 \in 0 .. Len(calls) /\ Depth(calls, b) = Depth(calls, b - 1) + 1 /\ Depth(calls, b - 1) \in Nat
    BY <2>1, DepthFacts
  <2> QED BY <2>2, <2>3
<1>2. i \in Nat /\ j \in Nat
  BY DEF Opener
<1>3. ~(i < j) /\ ~(j < i)
  BY <1>1, Zenon
<1> QED BY <1>2, <1>3

\* How the opener changes with a call: at the end of a region it is the opener
\* of the place where that region began.
LEMMA OpenerStep ==
  ASSUME NEW calls \in Seq(Ops), Nested(calls), NEW k \in 1 .. Len(calls), NEW i, Opener(calls, i, k)
  PROVE  /\ calls[k].op = "begin" => i = k
         /\ calls[k].op \notin {"begin", "end"} => Opener(calls, i, k - 1)
         /\ calls[k].op = "end" =>
              \A j : Opener(calls, j, k - 1) =>
                /\ j \in 1 .. k - 1 /\ calls[j].op = "begin"
                /\ Opener(calls, i, j - 1)
<1>0. /\ i \in 0 .. k /\ Depth(calls, i) = Depth(calls, k)
      /\ \A j \in i .. k : Depth(calls, j) >= Depth(calls, i)
  BY DEF Opener
<1>a. k - 1 \in 0 .. Len(calls) /\ Depth(calls, k - 1) \in Nat /\ Depth(calls, k) \in Nat
  BY DepthFacts
<1>1. CASE calls[k].op = "begin"
  <2>1. Opener(calls, k, k)
    BY <1>1, <1>a DEF Opener
  <2>2. k \in 0 .. Len(calls)
    OBVIOUS
  <2> QED BY <1>1, <2>1, <2>2, OpenerUnique
<1>2. CASE calls[k].op \notin {"begin", "end"}
  <2>1. i # k
    BY <1>2 DEF Opener
  <2>2. Depth(calls, k) = Depth(calls, k - 1)
    BY <1>2, DepthFacts
  <2> QED BY <1>0, <1>2, <2>1, <2>2 DEF Opener
<1>3. CASE calls[k].op = "end"
  <2> SUFFICES ASSUME NEW j, Opener(calls, j, k - 1)
               PROVE  j \in 1 .. k - 1 /\ calls[j].op = "begin" /\ Opener(calls, i, j - 1)
    BY <1>3
  <2>1. Depth(calls, k) = Depth(calls, k - 1) - 1 /\ Depth(calls, k) >= 1
    BY <1>3, DepthFacts
  <2>2. /\ j \in 0 .. k - 1 /\ Depth(calls, j) = Depth(calls, k - 1)
        /\ \A m \in j .. k - 1 : Depth(calls, m) >= Depth(calls, j)
    BY DEF Opener
  <2>3. j # 0
    BY <2>1, <2>2, DepthFacts
  <2>4. j \in 1 .. k - 1 /\ calls[j].op = "begin" /\ j \in 1 .. Len(calls)
    BY <2>2, <2>3 DEF Opener
  <2>5. Depth(calls, j) = Depth(calls, j - 1) + 1 /\ Depth(calls, j - 1) \in Nat
    BY <2>4, DepthFacts
  <2>6. Depth(calls, j - 1) = Depth(calls, i)
    BY <1>0, <1>a, <2>1, <2>2, <2>5
  <2>7. i # k
    BY <1>3 DEF Opener
  <2>8. i \in 0 .. j - 1
    <3> SUFFICES ASSUME i >= j PROVE FALSE
      BY <1>0, <2>4
    <3>1. i \in j .. k - 1
      BY <1>0, <2>4, <2>7
    <3>2. Depth(calls, i) >= Depth(calls, j)
      BY <2>2, <3>1
    <3> QED BY <2>5, <2>6, <3>2
  <2>9. \A m \in i .. j - 1 : m \in i .. k
    BY <1>0, <2>4
  <2>10. Opener(calls, i, j - 1)
    BY <1>0, <2>6, <2>8, <2>9 DEF Opener
  <2> QED BY <2>4, <2>10
<1> QED BY <1>1, <1>2, <1>3

\* There always is an opener.
LEMMA OpenerExists ==
  ASSUME NEW calls \in Seq(Ops), Nested(calls)
  PROVE  \A k \in 0 .. Len(calls) : \E i \in 0 .. k : Opener(calls, i, k)
<1> DEFINE T == {k \in Nat : k <= Len(calls) => \E i \in 0 .. k : Opener(calls, i, k)}
<1>1. ASSUME NEW k \in Nat, \A m \in 0 .. k - 1 : m \in T PROVE k \in T
  <2> SUFFICES ASSUME k <= Len(calls) PROVE \E i \in 0 .. k : Opener(calls, i, k)
    OBVIOUS
  <2>0. Depth(calls, k) \in Nat
    BY DepthFacts
  <2>1. CASE k = 0 \/ calls[k].op = "begin"
    <3>1. Opener(calls, k, k)
      BY <2>0, <2>1 DEF Opener
    <3> QED BY <3>1
  <2>2. CASE k # 0 /\ calls[k].op \notin {"begin", "end"}
    <3>1. k - 1 \in 0 .. k - 1 /\ k - 1 <= Len(calls) /\ k \in 1 .. Len(calls)
      BY <2>2
    <3>2. PICK i \in 0 .. k - 1 : Opener(calls, i, k - 1)
      BY <1>1, <3>1
    <3>3. Depth(calls, k) = Depth(calls, k - 1) /\ Depth(calls, k - 1) \in Nat
      BY <2>2, <3>1, DepthFacts
    <3>4. \A j \in i .. k : j \in i .. k - 1 \/ j = k
      BY <3>1
    <3>5. Opener(calls, i, k)
      BY <2>0, <3>1, <3>2, <3>3, <3>4 DEF Opener
    <3> QED BY <3>1, <3>5
  <2>3. CASE k # 0 /\ calls[k].op = "end"
    <3>1. k - 1 \in 0 .. k - 1 /\ k - 1 <= Len(calls) /\ k \in 1 .. Len(calls)
      BY <2>3
    <3>2. PICK j \in 0 .. k - 1 : Opener(calls, j, k - 1)
      BY <1>1, <3>1
    <3>3. Depth(calls, k) = Depth(calls, k - 1) - 1 /\ Depth(calls, k) >= 1 /\ Depth(calls, k - 1) \in Nat
      BY <2>3, <3>1, DepthFacts
    <3>4. /\ Depth(calls, j) = Depth(calls, k - 1)
          /\ \A m \in j .. k - 1 : Depth(calls, m) >= Depth(calls, j)
      BY <3>2 DEF Opener
    <3>5. j # 0
      BY <3>3, <3>4, DepthFacts
    <3>6. j \in 1 .. k - 1 /\ calls[j].op = "begin" /\ j \in 1 .. Len(calls)
      BY <3>1, <3>2, <3>5 DEF Opener
    <3>7. Depth(calls, j) = Depth(calls, j - 1) + 1 /\ Depth(calls, j - 1) \in Nat
      BY <3>6, DepthFacts
    <3>8. j - 1 \in 0 .. k - 1 /\ j - 1 <= Len(calls)
      BY <3>1, <3>6
    <3>9. PICK i \in 0 .. j - 1 : Opener(calls, i, j - 1)
      BY <1>1, <3>8
    <3>10. /\ Depth(calls, i) = Depth(calls, k)
           /\ \A m \in i .. j - 1 : Depth(calls, m) >= Depth(calls, i)
      BY <3>3, <3>4, <3>7, <3>9 DEF Opener
    <3>11. ASSUME NEW m \in i .. k PROVE Depth(calls, m) >= Depth(calls, i)
      <4>1. m \in i .. j - 1 \/ m \in j .. k - 1 \/ m = k
        BY <3>6, <3>9
      <4>2. m \in 0 .. Len(calls)
        BY <3>1, <3>9
      <4>3. Depth(calls, m) \in Nat
        BY <4>2, DepthFacts
      <4> QED BY <2>0, <3>3, <3>4, <3>10, <4>1, <4>3
    <3>12. Opener(calls, i, k)
      BY <3>8, <3>9, <3>10, <3>11 DEF Opener
    <3> QED BY <3>8, <3>9, <3>12
  <2>4. k # 0 => calls[k].op \in {"write", "presence", "bytes", "cached", "begin", "end"}
    <3>1. k # 0 => calls[k] \in Ops
      OBVIOUS
    <3> QED BY <3>1, OpFacts
  <2> QED BY <2>1, <2>2, <2>3, <2>4
<1> HIDE DEF T
<1>2. Nat \subseteq T
  BY <1>1, InductBelow
<1> QED BY <1>2 DEF T

-----------------------------------------------------------------------------
(* The record of sizes, and what is streamed with it.                      *)

\* A begin is a slot of its own.
LEMMA SlotFacts ==
  ASSUME NEW calls
  PROVE  /\ Slot(calls, 0) = 0
         /\ \A n \in Nat :
              /\ Slot(calls, n) \in Nat
              /\ Slot(calls, n + 1) = IF calls[n + 1].op = "begin" THEN Slot(calls, n) + 1
                                      ELSE Slot(calls, n)
         /\ \A m \in Nat : \A n \in Nat : m <= n => Slot(calls, m) <= Slot(calls, n)
<1>1. Slot(calls, 0) = 0
  <2>1. BeginsIn(calls, 0) = {}
    BY DEF BeginsIn
  <2> QED BY <2>1, FS_EmptySet DEF Slot
<1>2. \A n \in Nat : IsFiniteSet(BeginsIn(calls, n))
  <2> SUFFICES ASSUME NEW n \in Nat PROVE IsFiniteSet(BeginsIn(calls, n))
    OBVIOUS
  <2>1. IsFiniteSet(1 .. n) /\ BeginsIn(calls, n) \subseteq 1 .. n
    BY FS_Interval DEF BeginsIn
  <2> QED BY <2>1, FS_Subset
<1>3. \A n \in Nat : Slot(calls, n) \in Nat
  BY <1>2, FS_CardinalityType DEF Slot
<1>4. ASSUME NEW n \in Nat
      PROVE  Slot(calls, n + 1) = IF calls[n + 1].op = "begin" THEN Slot(calls, n) + 1
                                  ELSE Slot(calls, n)
  <2>1. n + 1 \notin 1 .. n /\ 1 .. (n + 1) = (1 .. n) \cup {n + 1}
    OBVIOUS
  <2>2. /\ n + 1 \notin BeginsIn(calls, n)
        /\ BeginsIn(calls, n + 1) = IF calls[n + 1].op = "begin" THEN BeginsIn(calls, n) \cup {n + 1}
                                    ELSE BeginsIn(calls, n)
    BY <2>1 DEF BeginsIn
  <2>3. Cardinality(BeginsIn(calls, n) \cup {n + 1}) = Cardinality(BeginsIn(calls, n)) + 1
    BY <1>2, <2>2, FS_AddElement
  <2> QED BY <2>2, <2>3 DEF Slot
<1>5. ASSUME NEW m \in Nat, NEW n \in Nat, m <= n PROVE Slot(calls, m) <= Slot(calls, n)
  <2>1. BeginsIn(calls, m) \subseteq BeginsIn(calls, n)
    BY <1>5 DEF BeginsIn
  <2> QED BY <1>2, <2>1, FS_Subset DEF Slot
<1> QED BY <1>1, <1>3, <1>4, <1>5

\* Two begins have two slots.
LEMMA SlotsDiffer ==
  ASSUME NEW calls, NEW i \in Nat \ {0}, NEW j \in Nat \ {0}, i # j,
         calls[i].op = "begin", calls[j].op = "begin"
  PROVE  Slot(calls, i) # Slot(calls, j)
<1>1. ASSUME NEW a \in Nat \ {0}, NEW b \in Nat \ {0}, a < b, calls[b].op = "begin"
      PROVE  Slot(calls, a) < Slot(calls, b)
  <2>1. b - 1 \in Nat /\ (b - 1) + 1 = b /\ a <= b - 1 /\ a \in Nat
    BY <1>1
  <2>2. Slot(calls, (b - 1) + 1) = Slot(calls, b - 1) + 1 /\ Slot(calls, b - 1) \in Nat
    BY <1>1, <2>1, SlotFacts
  <2>3. Slot(calls, a) <= Slot(calls, b - 1) /\ Slot(calls, a) \in Nat
    BY <2>1, SlotFacts
  <2> QED BY <2>1, <2>2, <2>3
<1>2. i < j \/ j < i
  OBVIOUS
<1>3. Slot(calls, i) < Slot(calls, j) \/ Slot(calls, j) < Slot(calls, i)
  BY <1>1, <1>2
<1>4. Slot(calls, i) \in Nat /\ Slot(calls, j) \in Nat
  BY SlotFacts
<1> QED BY <1>3, <1>4

\* The calls behind the first n do not count.
LEMMA SlotSame ==
  ASSUME NEW a, NEW b, NEW n \in Nat, \A i \in 1 .. n : a[i] = b[i]
  PROVE  \A k \in 0 .. n : Slot(a, k) = Slot(b, k)
<1> SUFFICES ASSUME NEW k \in 0 .. n PROVE Slot(a, k) = Slot(b, k)
  OBVIOUS
<1>1. \A i \in 1 .. k : a[i] = b[i]
  OBVIOUS
<1>2. BeginsIn(a, k) = BeginsIn(b, k)
  BY <1>1 DEF BeginsIn
<1> QED BY <1>2 DEF Slot

-----------------------------------------------------------------------------
(* Streaming: every length is written before what it counts.                *)

\* sizes holds, by slot, the length each region has when it ends.
Sized(calls, sizes) ==
  \A e \in 1 .. Len(calls) : calls[e].op = "end" =>
    \A i \in 0 .. e - 1 : Opener(calls, i, e - 1) =>
      sizes[Slot(calls, i)] = Len(Open(calls, e - 1)[Depth(calls, e - 1)])

\* What call k streams, and what the first k calls have streamed.
Piece(calls, sizes, k) ==
  IF calls[k].op = "begin" THEN appendUvarint[sizes[Slot(calls, k)]]
  ELSE IF calls[k].op = "end" THEN <<>>
  ELSE OpBytes(calls[k])

Streams(st, calls, sizes) ==
  /\ st \in [0 .. Len(calls) -> Bytes] /\ st[0] = <<>>
  /\ \A k \in 1 .. Len(calls) : st[k] = st[k - 1] \o Piece(calls, sizes, k)

\* The innermost open region is what was streamed since it was opened, and the
\* regions around it are as they were then.
Since(st, calls, i, k) ==
  /\ st[k] = st[i] \o Open(calls, k)[Depth(calls, k)]
  /\ i # 0 => \A m \in 1 .. Depth(calls, k) - 1 : Open(calls, k)[m] = Open(calls, i - 1)[m]

\* So it is after every call.
LEMMA StreamSince ==
  ASSUME NEW calls \in Seq(Ops), Nested(calls), NEW sizes, Sized(calls, sizes),
         NEW st, Streams(st, calls, sizes)
  PROVE  \A k \in 0 .. Len(calls) : \A i \in 0 .. k : Opener(calls, i, k) => Since(st, calls, i, k)
<1> DEFINE T == {k \in Nat : k <= Len(calls) =>
                   \A i \in 0 .. k : Opener(calls, i, k) => Since(st, calls, i, k)}
           O(k) == Open(calls, k)
           D(k) == Depth(calls, k)
<1>1. ASSUME NEW k \in Nat, \A m \in 0 .. k - 1 : m \in T PROVE k \in T
  <2> SUFFICES ASSUME k <= Len(calls), NEW i \in 0 .. k, Opener(calls, i, k)
               PROVE  Since(st, calls, i, k)
    OBVIOUS
  <2>a. \A m \in 0 .. Len(calls) : st[m] \in Bytes /\ O(m) \in Seq(Bytes) /\ D(m) \in Nat /\ D(m) >= 1
                                   /\ Len(O(m)) = D(m)
    <3>1. \A m \in 0 .. Len(calls) : O(m) \in Seq(Bytes)
      BY OpenTyped
    <3>2. \A m \in 0 .. Len(calls) : D(m) \in Nat /\ D(m) >= 1
      BY DepthFacts
    <3> QED BY <3>1, <3>2 DEF Streams, Depth
  <2>b. \A m \in 0 .. Len(calls) : O(m)[D(m)] \in Bytes
    <3> SUFFICES ASSUME NEW m \in 0 .. Len(calls) PROVE O(m)[D(m)] \in Bytes
      OBVIOUS
    <3>1. O(m) \in Seq(Bytes) /\ Len(O(m)) = D(m) /\ D(m) \in Nat /\ D(m) >= 1
      BY <2>a
    <3> HIDE DEF O, D
    <3> QED BY <3>1
  <2>1. CASE k = 0
    <3>1. i = 0 /\ O(0) = << <<>> >> /\ D(0) = 1 /\ st[0] = <<>>
      BY <2>1, OpenStep, DepthFacts DEF Streams
    <3>2. O(0)[D(0)] = <<>> /\ <<>> \o <<>> = <<>>
      BY <3>1
    <3> QED BY <2>1, <3>1, <3>2 DEF Since
  <2>2. CASE k # 0
    <3>1. /\ k \in 1 .. Len(calls) /\ k - 1 \in 0 .. Len(calls) /\ k - 1 \in 0 .. k - 1 /\ k - 1 \in Nat
          /\ k \in 0 .. Len(calls) /\ calls[k] \in Ops
      BY <2>2
    <3>2. Steps(O(k - 1), calls[k], O(k)) /\ D(k) = Len(O(k)) /\ D(k - 1) = Len(O(k - 1))
      BY <3>1, OpenTyped DEF Depth
    <3>3. st[k] = st[k - 1] \o Piece(calls, sizes, k)
      BY <3>1 DEF Streams
    <3>4. CASE calls[k].op = "begin"
      <4>1. i = k
        BY <3>1, <3>4, OpenerStep
      <4>2. O(k)[D(k)] = <<>> /\ \A m \in 1 .. D(k) - 1 : O(k)[m] = O(k - 1)[m]
        BY <3>2, <3>4, <3>1, <2>a DEF Steps
      <4>3. st[k] \o <<>> = st[k]
        BY <2>a, <3>1, Cat DEF Bytes
      <4> QED BY <4>1, <4>2, <4>3 DEF Since
    <3>5. CASE calls[k].op \notin {"begin", "end"}
      <4>1. Opener(calls, i, k - 1)
        BY <3>1, <3>5, OpenerStep
      <4>2. i \in 0 .. k - 1
        BY <4>1 DEF Opener
      <4>3. Since(st, calls, i, k - 1)
        BY <1>1, <3>1, <4>1, <4>2
      <4>4. /\ D(k) = D(k - 1) /\ \A m \in 1 .. D(k) - 1 : O(k)[m] = O(k - 1)[m]
            /\ O(k)[D(k)] = O(k - 1)[D(k - 1)] \o OpBytes(calls[k])
        BY <3>2, <3>5 DEF Steps
      <4>5. st[k] = st[k - 1] \o OpBytes(calls[k]) /\ OpBytes(calls[k]) \in Bytes
        BY <3>1, <3>3, <3>5, OpFacts DEF Piece
      <4>6. i \in 0 .. Len(calls) /\ st[i] \in Bytes /\ O(k - 1)[D(k - 1)] \in Bytes
        BY <2>a, <2>b, <3>1
      <4>7. st[k - 1] = st[i] \o O(k - 1)[D(k - 1)]
        BY <4>3 DEF Since
      <4>8. (st[i] \o O(k - 1)[D(k - 1)]) \o OpBytes(calls[k]) = st[i] \o (O(k - 1)[D(k - 1)] \o OpBytes(calls[k]))
        BY <4>5, <4>6, BytesCat, Zenon
      <4>9. st[k] = st[i] \o O(k)[D(k)]
        BY <4>4, <4>5, <4>7, <4>8, Zenon
      <4>10. i # 0 => \A m \in 1 .. D(k) - 1 : O(k)[m] = O(i - 1)[m]
        BY <4>3, <4>4 DEF Since
      <4> QED BY <4>9, <4>10 DEF Since
    <3>6. CASE calls[k].op = "end"
      <4>1. PICK j \in 0 .. k - 1 : Opener(calls, j, k - 1)
        BY <3>1, OpenerExists
      <4>2. j \in 1 .. k - 1 /\ calls[j].op = "begin" /\ Opener(calls, i, j - 1)
        BY <3>1, <3>6, <4>1, OpenerStep
      <4>3. /\ j - 1 \in 0 .. k - 1 /\ j - 1 <= Len(calls) /\ i \in 0 .. j - 1 /\ j \in 1 .. Len(calls)
            /\ j \in 0 .. Len(calls) /\ j - 1 \in 0 .. Len(calls) /\ i \in 0 .. Len(calls) /\ j # 0
        BY <3>1, <4>2 DEF Opener
      <4>4. Since(st, calls, i, j - 1) /\ Since(st, calls, j, k - 1)
        BY <1>1, <3>1, <4>1, <4>2, <4>3
      <4>5. /\ D(k) = D(k - 1) - 1 /\ \A m \in 1 .. D(k) - 1 : O(k)[m] = O(k - 1)[m]
            /\ O(k)[D(k)] = O(k - 1)[D(k)] \o (appendUvarint[Len(O(k - 1)[D(k - 1)])] \o O(k - 1)[D(k - 1)])
        <5>1. /\ Len(O(k)) = Len(O(k - 1)) - 1 /\ \A m \in 1 .. Len(O(k - 1)) - 2 : O(k)[m] = O(k - 1)[m]
              /\ O(k)[Len(O(k - 1)) - 1] = O(k - 1)[Len(O(k - 1)) - 1]
                  \o (appendUvarint[Len(O(k - 1)[Len(O(k - 1))])] \o O(k - 1)[Len(O(k - 1))])
          BY <3>2, <3>6 DEF Steps
        <5>2. D(k) = D(k - 1) - 1 /\ D(k) - 1 = Len(O(k - 1)) - 2
          BY <2>a, <3>1, <3>2, <5>1
        <5> HIDE DEF O, D
        <5> QED BY <3>2, <5>1, <5>2
      <4>6. D(i) = D(k) /\ D(j - 1) = D(i)
        BY <4>2 DEF Opener
      <4> DEFINE x == O(k - 1)[D(k - 1)]
                 y == O(j - 1)[D(j - 1)]
                 u == appendUvarint[Len(x)]
      <4>7. x \in Bytes /\ y \in Bytes /\ st[i] \in Bytes
        BY <2>a, <2>b, <3>1, <4>3
      <4>8. u \in Bytes
        <5>1. Len(x) \in Nat
          BY <4>7 DEF Bytes
        <5> QED BY <5>1, Uvarint DEF Bytes
      <4>9. Piece(calls, sizes, j) = u
        <5>1. sizes[Slot(calls, j)] = Len(x)
          BY <3>1, <3>6, <4>1 DEF Sized
        <5> QED BY <4>2, <5>1 DEF Piece
      <4>10. /\ st[j] = st[j - 1] \o u /\ st[j - 1] = st[i] \o y /\ st[k - 1] = st[j] \o x
             /\ st[k] = st[k - 1]
        <5>1. st[j] = st[j - 1] \o u
          BY <4>3, <4>9 DEF Streams
        <5>2. st[j - 1] = st[i] \o y /\ st[k - 1] = st[j] \o x
          BY <4>4 DEF Since
        <5>3. Piece(calls, sizes, k) = <<>>
          BY <3>6 DEF Piece
        <5>4. st[k - 1] \o <<>> = st[k - 1]
          BY <2>a, <3>1, Cat DEF Bytes
        <5> QED BY <3>3, <5>1, <5>2, <5>3, <5>4
      <4>11. O(k - 1)[D(k)] = y /\ \A m \in 1 .. D(k - 1) - 1 : O(k - 1)[m] = O(j - 1)[m]
        <5>1. \A m \in 1 .. D(k - 1) - 1 : O(k - 1)[m] = O(j - 1)[m]
          BY <4>3, <4>4 DEF Since
        <5>2. D(k) \in 1 .. D(k - 1) - 1
          BY <2>a, <3>1, <4>5
        <5> HIDE DEF O, D
        <5> QED BY <4>6, <5>1, <5>2
      <4>12. O(k)[D(k)] = y \o (u \o x)
        BY <4>5, <4>11
      <4>13. st[k] = ((st[i] \o y) \o u) \o x
        BY <4>10
      <4>14. i # 0 => \A m \in 1 .. D(k) - 1 : O(k)[m] = O(i - 1)[m]
        <5> SUFFICES ASSUME i # 0, NEW m \in 1 .. D(k) - 1 PROVE O(k)[m] = O(i - 1)[m]
          OBVIOUS
        <5>1. D(j - 1) = D(k) /\ m \in 1 .. D(k - 1) - 1
          BY <2>a, <3>1, <4>5, <4>6
        <5>2. O(j - 1)[m] = O(i - 1)[m]
          BY <4>4, <5>1 DEF Since
        <5>3. O(k)[m] = O(k - 1)[m] /\ O(k - 1)[m] = O(j - 1)[m]
          BY <4>5, <4>11, <5>1
        <5> QED BY <5>2, <5>3
      <4> HIDE DEF x, y, u
      <4>15. ((st[i] \o y) \o u) \o x = st[i] \o (y \o (u \o x))
        <5>1. st[i] \o y \in Bytes /\ u \o x \in Bytes
          BY <4>7, <4>8, BytesCat, Zenon
        <5>2. ((st[i] \o y) \o u) \o x = (st[i] \o y) \o (u \o x)
          BY <4>7, <4>8, <5>1, BytesCat, Zenon
        <5>3. (st[i] \o y) \o (u \o x) = st[i] \o (y \o (u \o x))
          BY <4>7, <4>8, <5>1, BytesCat, Zenon
        <5> QED BY <5>2, <5>3
      <4>16. st[k] = st[i] \o O(k)[D(k)]
        BY <4>12, <4>13, <4>15
      <4> QED BY <4>14, <4>16 DEF Since
    <3>7. calls[k].op \in {"write", "presence", "bytes", "cached", "begin", "end"}
      BY <3>1, OpFacts
    <3> QED BY <3>4, <3>5, <3>6, <3>7
  <2> QED BY <2>1, <2>2
<1> HIDE DEF T
<1>2. Nat \subseteq T
  BY <1>1, InductBelow
<1> QED BY <1>2 DEF T

\* What all the calls stream is the body they stand for.
LEMMA StreamIsCanonical ==
  ASSUME NEW calls \in Seq(Ops), Nested(calls), NEW sizes, Sized(calls, sizes),
         NEW st, Streams(st, calls, sizes), Depth(calls, Len(calls)) = 1
  PROVE  st[Len(calls)] = Canonical(calls)
<1> DEFINE n == Len(calls)
<1>1. n \in Nat
  OBVIOUS
<1>2. Opener(calls, 0, n)
  <2>1. Depth(calls, 0) = 1 /\ \A k \in 0 .. n : Depth(calls, k) >= 1
    BY DepthFacts
  <2> QED BY <1>1, <2>1 DEF Opener
<1>3. Since(st, calls, 0, n)
  BY <1>1, <1>2, StreamSince
<1>4. Open(calls, n)[1] \in Bytes /\ st[0] = <<>>
  <2>1. Open(calls, n) \in Seq(Bytes) /\ Len(Open(calls, n)) = 1
    BY <1>1, OpenTyped DEF Depth
  <2>2. 1 \in 1 .. Len(Open(calls, n))
    BY <2>1
  <2>3. Open(calls, n)[1] \in Bytes
    BY <2>1, <2>2, ElementOf
  <2> QED BY <2>3 DEF Streams
<1>5. st[n] = <<>> \o Open(calls, n)[1]
  BY <1>3, <1>4 DEF Since
<1>6. <<>> \o Open(calls, n)[1] = Open(calls, n)[1]
  BY <1>4, Cat DEF Bytes
<1>7. Open(calls, n) = Regions(calls)
  BY OpenStep
<1> QED BY <1>5, <1>6, <1>7 DEF Canonical

\* There is such a stream, and what was streamed stays at its front.
LEMMA StreamExists ==
  ASSUME NEW calls \in Seq(Ops), NEW sizes,
         \A k \in 1 .. Len(calls) : Piece(calls, sizes, k) \in Bytes
  PROVE  \E st : Streams(st, calls, sizes)
<1> DEFINE P(k) == Piece(calls, sizes, k)
           Upto(g, n) == /\ g \in [0 .. n -> Bytes] /\ g[0] = <<>>
                         /\ \A k \in 1 .. n : g[k] = g[k - 1] \o P(k)
           T == {n \in Nat : n <= Len(calls) => \E g : Upto(g, n)}
<1>1. 0 \in T
  <2> DEFINE g == [k \in 0 .. 0 |-> <<>>]
  <2>1. g \in [0 .. 0 -> Bytes] /\ g[0] = <<>>
    BY BytesCat
  <2>2. Upto(g, 0)
    BY <2>1
  <2> HIDE DEF Upto, g
  <2> QED BY <2>2
<1>2. ASSUME NEW n \in Nat, n \in T PROVE n + 1 \in T
  <2> HIDE DEF P, Upto
  <2> SUFFICES ASSUME n + 1 <= Len(calls) PROVE \E g : Upto(g, n + 1)
    OBVIOUS
  <2>1. PICK g : Upto(g, n)
    BY <1>2
  <2>2. g \in [0 .. n -> Bytes] /\ g[0] = <<>> /\ \A k \in 1 .. n : g[k] = g[k - 1] \o P(k)
    BY <2>1 DEF Upto
  <2> DEFINE x == g[n] \o P(n + 1)
             h == [k \in 0 .. n + 1 |-> IF k = n + 1 THEN x ELSE g[k]]
  <2>3. x \in Bytes
    <3>1. g[n] \in Bytes
      BY <2>2
    <3>2. P(n + 1) \in Bytes
      BY DEF P
    <3> QED BY <3>1, <3>2, BytesCat
  <2> HIDE DEF x
  <2>4. h \in [0 .. n + 1 -> Bytes] /\ h[0] = <<>>
    BY <2>2, <2>3
  <2>5. ASSUME NEW k \in 1 .. n + 1 PROVE h[k] = h[k - 1] \o P(k)
    <3>1. CASE k = n + 1
      <4>1. h[k] = x /\ h[k - 1] = g[n]
        BY <3>1
      <4> QED BY <3>1, <4>1 DEF x
    <3>2. CASE k # n + 1
      <4>1. k \in 1 .. n /\ h[k] = g[k] /\ h[k - 1] = g[k - 1]
        BY <3>2
      <4> QED BY <2>2, <4>1
    <3> QED BY <3>1, <3>2
  <2> HIDE DEF h
  <2>6. Upto(h, n + 1)
    BY <2>4, <2>5 DEF Upto
  <2> QED BY <2>6
<1> HIDE DEF T, Upto
<1>3. Len(calls) \in T
  BY <1>1, <1>2, Induct
<1>4. PICK g : Upto(g, Len(calls))
  BY <1>3 DEF T
<1>5. Streams(g, calls, sizes)
  BY <1>4 DEF Streams, Upto
<1> QED BY <1>5

\* What was streamed stays at the front.
LEMMA StreamPrefix ==
  ASSUME NEW calls \in Seq(Ops), NEW sizes, NEW st, Streams(st, calls, sizes),
         \A k \in 1 .. Len(calls) : Piece(calls, sizes, k) \in Bytes, NEW k \in 0 .. Len(calls)
  PROVE  IsPrefix(st[k], st[Len(calls)])
<1> DEFINE T == {m \in Nat : k <= m /\ m <= Len(calls) => \E r \in Bytes : st[m] = st[k] \o r}
<1>0. \A m \in 0 .. Len(calls) : st[m] \in Bytes
  BY DEF Streams
<1>1. 0 \in T
  <2> SUFFICES ASSUME k = 0 PROVE \E r \in Bytes : st[0] = st[k] \o r
    OBVIOUS
  <2>1. <<>> \in Bytes /\ st[0] = st[0] \o <<>>
    BY <1>0, BytesCat
  <2> QED BY <2>1
<1>2. ASSUME NEW m \in Nat, m \in T PROVE m + 1 \in T
  <2> SUFFICES ASSUME k <= m + 1, m + 1 <= Len(calls) PROVE \E r \in Bytes : st[m + 1] = st[k] \o r
    OBVIOUS
  <2>1. CASE k = m + 1
    <3>1. <<>> \in Bytes /\ st[m + 1] = st[m + 1] \o <<>>
      BY <1>0, BytesCat
    <3> QED BY <2>1, <3>1
  <2>2. CASE k # m + 1
    <3>1. k <= m /\ m <= Len(calls) /\ m + 1 \in 1 .. Len(calls) /\ (m + 1) - 1 = m
      BY <2>2
    <3>2. PICK r \in Bytes : st[m] = st[k] \o r
      BY <1>2, <3>1
    <3>3. st[m + 1] = st[m] \o Piece(calls, sizes, m + 1) /\ Piece(calls, sizes, m + 1) \in Bytes
      BY <3>1 DEF Streams
    <3>4. st[k] \in Bytes
      BY <1>0
    <3> DEFINE p == Piece(calls, sizes, m + 1)
    <3> HIDE DEF p
    <3>5. (st[k] \o r) \o p = st[k] \o (r \o p) /\ r \o p \in Bytes
      BY <3>3, <3>4, BytesCat, Zenon DEF p
    <3>6. st[m + 1] = st[k] \o (r \o p)
      BY <3>2, <3>3, <3>5 DEF p
    <3> QED BY <3>5, <3>6
  <2> QED BY <2>1, <2>2
<1> HIDE DEF T
<1>3. Len(calls) \in T
  BY <1>1, <1>2, Induct
<1>4. PICK r \in Bytes : st[Len(calls)] = st[k] \o r
  BY <1>3 DEF T
<1>5. ASSUME NEW a \in Bytes, NEW b \in Bytes PROVE IsPrefix(a, a \o b)
  BY DEF IsPrefix, Bytes
<1> QED BY <1>0, <1>4, <1>5

-----------------------------------------------------------------------------
(* The invariant about the body.                                           *)

\* Where region i begins and where it ends in what was written so far, when the
\* markers are mk, the last byte is at end and a length takes w bytes.
From(mk, w, i) == IF i = 1 THEN 0 ELSE mk[i - 1] + w
Upto(mk, end, i) == IF i = Len(mk) + 1 THEN end ELSE mk[i]

\* The counting Writer: the distance of the markers is the length of a region.
Counted(R, mk, acc) ==
  /\ mk \in Seq(Nat) /\ acc \in Nat /\ Len(R) = Len(mk) + 1
  /\ \A i \in 1 .. Len(mk) + 1 : Len(R[i]) = Upto(mk, acc, i) - From(mk, 0, i)

\* The buffered Writer: a region is what lies between its markers.
Buffered(R, mk, b) ==
  /\ mk \in Seq(Nat) /\ b \in Bytes /\ Len(R) = Len(mk) + 1
  /\ \A i \in 1 .. Len(mk) : mk[i] <= Len(b) /\ \A j \in 1 .. i : mk[j] <= mk[i]
  /\ \A i \in 1 .. Len(mk) + 1 :
       /\ From(mk, ReservedLen, i) <= Upto(mk, Len(b), i)
       /\ R[i] = SubSeq(b, From(mk, ReservedLen, i) + 1, Upto(mk, Len(b), i))

\* The record of sizes: the stack holds the slots of the regions that are open,
\* and a region that has ended has its length in its slot.
Recorded(calls, rec, stk) ==
  /\ rec \in Seq(Nat) /\ Len(rec) = Slot(calls, Len(calls))
  /\ stk \in Seq(Nat) /\ Len(stk) = Depth(calls, Len(calls)) - 1
  /\ \A i \in 1 .. Len(calls) :
       /\ calls[i].op = "begin"
       /\ \A j \in i .. Len(calls) : Depth(calls, j) >= Depth(calls, i)
       => stk[Depth(calls, i) - 1] = Slot(calls, i)
  /\ Sized(calls, rec)

Errs == {"nil", "ErrTarget", "ErrTruncated", "ErrBodyTooLarge", "ErrZeroTag", "ErrCodec"}

\* The cache holds what the codecs produced, in the order of the calls.
CacheHolds ==
  \A i \in 1 .. Len(script) : script[i].op = "cached" =>
    scratch[script[i].slot].values[Cardinality(CachedAt(script, script[i].slot, i))]
      = script[i].b

\* What is handed over.
Delivered ==
  /\ Body = Canonical(script)
  /\ header.method = IF compresses(method) THEN method ELSE CompressionNone
  /\ IF compresses(method) THEN header.inflatedLen = Len(Body)
     ELSE header.bodyLen = Len(Body)

\* The first pass: nothing but counts, or a buffer of the caller's own.
SizePass ==
  phase = "size" =>
    /\ method # Manual /\ buf = <<>> /\ enc = <<>> /\ sizeIdx = 0
    /\ err = "nil" =>
         /\ Counted(Open(script, Len(script)), markers, sizeAcc)
         /\ compresses(method) => Recorded(script, recorded, stack)

ManualPass ==
  phase = "manual" =>
    /\ method = Manual
    /\ err = "nil" => Buffered(Open(script, Len(script)), markers, buf)

\* The second pass has written the regions of the calls it repeated.
WritePass ==
  phase = "write" =>
    /\ sizeAcc = Len(Canonical(script)) /\ Depth(script, Len(script)) = 1
    /\ method # Manual
    /\ ~compresses(method) =>
         /\ header.method = CompressionNone /\ header.bodyLen = sizeAcc
         /\ err = "nil" => Buffered(Open(script, pc), markers, buf)
    /\ compresses(method) =>
         /\ recorded \in Seq(Nat) /\ Len(recorded) = Slot(script, Len(script))
         /\ Sized(script, recorded)
         /\ err = "nil" =>
              /\ sizeIdx = Slot(script, pc) /\ enc \in Bytes /\ buf \in Bytes
              /\ \E st : Streams(st, script, recorded) /\ enc \o buf = st[pc]

BInv ==
  /\ err \in Errs
  /\ phase # "idle" => result = "none"
  /\ phase \in {"size", "manual", "write"} => Nested(script) /\ CacheHolds
  /\ SizePass /\ ManualPass /\ WritePass
  /\ phase \in {"deliver", "deliverBody"} \/ result = "ok" => Delivered

-----------------------------------------------------------------------------
(* The counting Writer.                                                    *)

\* Slices, equality and concatenation, element by element.
LEMMA Slice ==
  ASSUME NEW X, NEW s \in Seq(X), NEW a \in Nat, NEW b \in Nat, a <= b, b <= Len(s)
  PROVE  /\ SubSeq(s, a + 1, b) \in Seq(X) /\ Len(SubSeq(s, a + 1, b)) = b - a
         /\ \A i \in 1 .. b - a : SubSeq(s, a + 1, b)[i] = s[a + i]
<1>1. Len(SubSeq(s, a + 1, b)) = b - a
  OBVIOUS
<1>2. \A i \in 1 .. b - a : SubSeq(s, a + 1, b)[i] = s[a + i]
  OBVIOUS
<1>3. SubSeq(s, a + 1, b) \in Seq(X)
  OBVIOUS
<1> QED BY <1>1, <1>2, <1>3

\* Sequences with the same elements are equal.
LEMMA SameSeq ==
  ASSUME NEW X, NEW s \in Seq(X), NEW t \in Seq(X), Len(s) = Len(t), \A i \in 1 .. Len(s) : s[i] = t[i]
  PROVE  s = t
OBVIOUS

\* The elements of a concatenation.
LEMMA CatAt ==
  ASSUME NEW X, NEW s \in Seq(X), NEW t \in Seq(X)
  PROVE  \A i \in 1 .. Len(s) + Len(t) : (s \o t)[i] = IF i <= Len(s) THEN s[i] ELSE t[i - Len(s)]
OBVIOUS

\* Sequences of numbers.
LEMMA NatSeq ==
  ASSUME NEW mk \in Seq(Nat), NEW e \in Nat
  PROVE  /\ Append(mk, e) \in Seq(Nat) /\ Len(Append(mk, e)) = Len(mk) + 1
         /\ Append(mk, e)[Len(mk) + 1] = e
         /\ \A i \in 1 .. Len(mk) : Append(mk, e)[i] = mk[i] /\ mk[i] \in Nat
         /\ mk # <<>> => /\ Len(mk) >= 1 /\ Front(mk) \in Seq(Nat) /\ Len(Front(mk)) = Len(mk) - 1
                         /\ \A i \in 1 .. Len(mk) - 1 : Front(mk)[i] = mk[i]
                         /\ Last(mk) = mk[Len(mk)]
<1>1. \A i \in 1 .. Len(mk) : mk[i] \in Nat
  OBVIOUS
<1>2. /\ Append(mk, e) \in Seq(Nat) /\ Len(Append(mk, e)) = Len(mk) + 1
      /\ Append(mk, e)[Len(mk) + 1] = e
      /\ \A i \in 1 .. Len(mk) : Append(mk, e)[i] = mk[i]
  OBVIOUS
<1>3. ASSUME mk # <<>>
      PROVE  /\ Len(mk) >= 1 /\ Front(mk) \in Seq(Nat) /\ Len(Front(mk)) = Len(mk) - 1
             /\ \A i \in 1 .. Len(mk) - 1 : Front(mk)[i] = mk[i]
             /\ Last(mk) = mk[Len(mk)]
  <2>1. Len(mk) >= 1 /\ Len(mk) - 1 \in Nat /\ Last(mk) = mk[Len(mk)]
    BY <1>3 DEF Last
  <2>2. Front(mk) = SubSeq(mk, 1, Len(mk) - 1)
    BY DEF Front
  <2>3. ASSUME NEW m \in Nat, m <= Len(mk)
        PROVE  /\ SubSeq(mk, 1, m) \in Seq(Nat) /\ Len(SubSeq(mk, 1, m)) = m
               /\ \A i \in 1 .. m : SubSeq(mk, 1, m)[i] = mk[i]
    <3>1. SubSeq(mk, 1, m) \in Seq(Nat)
      BY <2>3
    <3>2. Len(SubSeq(mk, 1, m)) = m /\ \A i \in 1 .. m : SubSeq(mk, 1, m)[i] = mk[i]
      BY <2>3
    <3> QED BY <3>1, <3>2
  <2> DEFINE m == Len(mk) - 1
  <2>4. m \in Nat /\ m <= Len(mk) /\ Front(mk) = SubSeq(mk, 1, m)
    BY <2>1, <2>2
  <2> HIDE DEF m
  <2>5. /\ Front(mk) \in Seq(Nat) /\ Len(Front(mk)) = m
        /\ \A i \in 1 .. m : Front(mk)[i] = mk[i]
    BY <2>3, <2>4
  <2> QED BY <2>1, <2>5 DEF m
<1> QED BY <1>1, <1>2, <1>3

\* The bounds of the regions.
LEMMA Bounds ==
  ASSUME NEW mk \in Seq(Nat)
  PROVE  /\ \A e : Upto(mk, e, Len(mk) + 1) = e
         /\ \A e : \A i \in 1 .. Len(mk) : Upto(mk, e, i) = mk[i]
         /\ \A w \in Nat : \A i \in 1 .. Len(mk) + 1 : From(mk, w, i) \in Nat
         /\ \A w \in Nat : \A i \in 1 .. Len(mk) : From(mk, w, i + 1) = mk[i] + w
BY DEF Upto, From

\* Markers that agree on the first n give the same bounds there.
LEMMA SameBounds ==
  ASSUME NEW a \in Seq(Nat), NEW b \in Seq(Nat), NEW n \in Nat, n <= Len(a), n <= Len(b),
         \A i \in 1 .. n : a[i] = b[i]
  PROVE  /\ \A e : \A f : \A i \in 1 .. n : Upto(a, e, i) = Upto(b, f, i)
         /\ \A w : \A i \in 1 .. n + 1 : From(a, w, i) = From(b, w, i)
BY DEF Upto, From

\* The counting Writer follows every call.
LEMMA CountedBegin ==
  ASSUME NEW R \in Seq(Bytes), NEW Q, NEW op, op.op = "begin", Steps(R, op, Q),
         NEW mk, NEW acc, Counted(R, mk, acc)
  PROVE  Counted(Q, Append(mk, acc), acc)
<1> DEFINE n == Len(mk)
           m2 == Append(mk, acc)
<1>1. mk \in Seq(Nat) /\ acc \in Nat /\ Len(R) = n + 1 /\ n \in Nat
  BY DEF Counted
<1>2. m2 \in Seq(Nat) /\ Len(m2) = n + 1 /\ m2[n + 1] = acc /\ \A i \in 1 .. n : m2[i] = mk[i]
  BY <1>1, NatSeq
<1>3. Len(Q) = n + 2 /\ Q[n + 2] = <<>> /\ \A i \in 1 .. n + 1 : Q[i] = R[i]
  BY <1>1 DEF Steps
<1>4. \A i \in 1 .. n + 1 : Len(R[i]) = Upto(mk, acc, i) - From(mk, 0, i)
  BY DEF Counted
<1> HIDE DEF n, m2
<1>5. \A i \in 1 .. n + 1 : Upto(m2, acc, i) = Upto(mk, acc, i) /\ From(m2, 0, i) = From(mk, 0, i)
  <2>1. n <= Len(mk) /\ n <= Len(m2)
    BY <1>1, <1>2 DEF n
  <2>2. /\ \A e : \A f : \A i \in 1 .. n : Upto(m2, e, i) = Upto(mk, f, i)
        /\ \A w : \A i \in 1 .. n + 1 : From(m2, w, i) = From(mk, w, i)
    BY <1>1, <1>2, <2>1, SameBounds
  <2>3. Upto(mk, acc, n + 1) = acc /\ Upto(m2, acc, n + 1) = acc
    <3>1. n + 1 \in 1 .. Len(m2)
      BY <1>1, <1>2
    <3>2. Upto(m2, acc, n + 1) = m2[n + 1]
      BY <1>2, <3>1, Bounds
    <3> QED BY <1>1, <1>2, <3>2, Bounds DEF n
  <2> QED BY <1>1, <2>2, <2>3
<1>6. Upto(m2, acc, n + 2) = acc /\ From(m2, 0, n + 2) = acc
  BY <1>1, <1>2 DEF Upto, From
<1>7. Len(Q[n + 2]) = 0
  BY <1>3
<1>8. \A i \in 1 .. Len(m2) + 1 : Len(Q[i]) = Upto(m2, acc, i) - From(m2, 0, i)
  <2> SUFFICES ASSUME NEW i \in 1 .. Len(m2) + 1
               PROVE  Len(Q[i]) = Upto(m2, acc, i) - From(m2, 0, i)
    OBVIOUS
  <2>1. CASE i = n + 2
    BY <1>1, <1>6, <1>7, <2>1
  <2>2. CASE i # n + 2
    <3>1. i \in 1 .. n + 1
      BY <1>1, <1>2, <2>2
    <3> QED BY <1>3, <1>4, <1>5, <3>1
  <2> QED BY <2>1, <2>2
<1>9. Len(Q) = Len(m2) + 1
  BY <1>1, <1>2, <1>3
<1> QED BY <1>1, <1>2, <1>8, <1>9 DEF Counted, m2

\* A call that writes bytes adds their number.
LEMMA CountedBytes ==
  ASSUME NEW R \in Seq(Bytes), NEW Q, NEW op \in Ops, op.op \notin {"begin", "end"}, Steps(R, op, Q),
         NEW mk, NEW acc, Counted(R, mk, acc)
  PROVE  Counted(Q, mk, acc + Len(OpBytes(op)))
<1> DEFINE n == Len(mk)
           d == Len(OpBytes(op))
<1>1. mk \in Seq(Nat) /\ acc \in Nat /\ Len(R) = n + 1 /\ n \in Nat
  BY DEF Counted
<1>2. OpBytes(op) \in Bytes
  BY OpFacts
<1>3. Len(Q) = n + 1 /\ Q[n + 1] = R[n + 1] \o OpBytes(op) /\ \A i \in 1 .. n : Q[i] = R[i]
  BY <1>1 DEF Steps
<1>4. \A i \in 1 .. n + 1 : Len(R[i]) = Upto(mk, acc, i) - From(mk, 0, i)
  BY DEF Counted
<1>5. R[n + 1] \in Bytes
  BY <1>1, ElementOf
<1>6. Len(Q[n + 1]) = Len(R[n + 1]) + d /\ d \in Nat /\ Len(R[n + 1]) \in Nat
  BY <1>2, <1>3, <1>5, BytesCat
<1> HIDE DEF d, n
<1>7. /\ Upto(mk, acc, n + 1) = acc /\ Upto(mk, acc + d, n + 1) = acc + d
      /\ \A i \in 1 .. n : Upto(mk, acc, i) = Upto(mk, acc + d, i)
      /\ From(mk, 0, n + 1) \in Nat
  BY <1>1, NatSeq DEF Upto, From, n
<1>8. Len(Q[n + 1]) = Upto(mk, acc + d, n + 1) - From(mk, 0, n + 1)
  <2> DEFINE x == Len(R[n + 1])
             f == From(mk, 0, n + 1)
  <2>1. x = acc - f /\ x \in Nat /\ f \in Nat
    BY <1>1, <1>4, <1>6, <1>7
  <2> HIDE DEF x, f
  <2>2. x + d = (acc + d) - f
    BY <1>1, <1>6, <2>1
  <2> QED BY <1>6, <1>7, <2>2 DEF x, f
<1>9. \A i \in 1 .. n + 1 : Len(Q[i]) = Upto(mk, acc + d, i) - From(mk, 0, i)
  <2> SUFFICES ASSUME NEW i \in 1 .. n + 1
               PROVE  Len(Q[i]) = Upto(mk, acc + d, i) - From(mk, 0, i)
    OBVIOUS
  <2>1. CASE i = n + 1
    BY <1>8, <2>1
  <2>2. CASE i # n + 1
    <3>1. i \in 1 .. n
      BY <1>1, <2>2
    <3> QED BY <1>3, <1>4, <1>7, <3>1
  <2> QED BY <2>1, <2>2
<1>10. acc + d \in Nat
  BY <1>1, <1>6
<1> QED BY <1>1, <1>3, <1>9, <1>10 DEF Counted, n, d

\* The end of a region adds the length prefix of what was counted since its begin.
LEMMA CountedEnd ==
  ASSUME NEW R \in Seq(Bytes), NEW Q, NEW op, op.op = "end", Steps(R, op, Q),
         NEW mk, NEW acc, Counted(R, mk, acc), mk # <<>>
  PROVE  /\ acc - Last(mk) = Len(R[Len(R)]) /\ acc - Last(mk) \in Nat
         /\ Counted(Q, Front(mk), acc + varintLen[acc - Last(mk)])
<1> DEFINE n == Len(mk)
           m2 == Front(mk)
           d == varintLen[acc - Last(mk)]
           t == appendUvarint[Len(R[n + 1])]
<1>1. mk \in Seq(Nat) /\ acc \in Nat /\ Len(R) = n + 1 /\ n \in Nat
  BY DEF Counted
<1>2. /\ n >= 1 /\ m2 \in Seq(Nat) /\ Len(m2) = n - 1 /\ \A i \in 1 .. n - 1 : m2[i] = mk[i]
      /\ Last(mk) = mk[n] /\ \A i \in 1 .. n : mk[i] \in Nat
  BY <1>1, NatSeq
<1>3. Len(Q) = n /\ Q[n] = R[n] \o (t \o R[n + 1]) /\ \A i \in 1 .. n - 1 : Q[i] = R[i]
  <2>1. /\ Len(Q) = Len(R) - 1 /\ \A i \in 1 .. Len(R) - 2 : Q[i] = R[i]
        /\ Q[Len(R) - 1] = R[Len(R) - 1] \o (appendUvarint[Len(R[Len(R)])] \o R[Len(R)])
    BY DEF Steps
  <2>2. Len(R) = n + 1 /\ Len(R) - 1 = n /\ Len(R) - 2 = n - 1
    BY <1>1
  <2> HIDE DEF n
  <2> QED BY <2>1, <2>2, Zenon
<1>4. \A i \in 1 .. n + 1 : Len(R[i]) = Upto(mk, acc, i) - From(mk, 0, i)
  BY DEF Counted
<1>5. R[n + 1] \in Bytes /\ R[n] \in Bytes
  BY <1>1, <1>2, ElementOf
<1>6. Len(R[n + 1]) \in Nat
  BY <1>5, BytesCat
<1>7. Len(R[n + 1]) = acc - Last(mk)
  <2>1. Len(R[n + 1]) = Upto(mk, acc, n + 1) - From(mk, 0, n + 1)
    BY <1>1, <1>4
  <2> HIDE DEF n
  <2>2. Upto(mk, acc, n + 1) = acc /\ From(mk, 0, n + 1) = mk[n]
    BY <1>1, <1>2 DEF Upto, From, n
  <2> QED BY <1>2, <2>1, <2>2
<1>8. t \in Bytes /\ Len(t) = d
  BY <1>6, <1>7, Uvarint DEF Bytes
<1> HIDE DEF t
<1>9. Len(Q[n]) = Len(R[n]) + (d + Len(R[n + 1])) /\ d \in Nat
  <2>1. t \o R[n + 1] \in Bytes /\ Len(t \o R[n + 1]) = d + Len(R[n + 1])
    <3> HIDE DEF n, d
    <3> QED BY <1>5, <1>8, BytesCat, Zenon
  <2>2. Len(R[n] \o (t \o R[n + 1])) = Len(R[n]) + Len(t \o R[n + 1])
    BY <1>5, <2>1, BytesCat
  <2>3. d \in Nat
    BY <1>8, BytesCat
  <2> QED BY <1>3, <2>1, <2>2, <2>3
<1> HIDE DEF d, n, m2
<1>10. /\ Upto(m2, acc + d, n) = acc + d /\ Upto(mk, acc, n) = mk[n]
       /\ \A i \in 1 .. n - 1 : Upto(m2, acc + d, i) = Upto(mk, acc, i)
       /\ \A i \in 1 .. n : From(m2, 0, i) = From(mk, 0, i)
       /\ From(mk, 0, n) \in Nat
  <2>1. n - 1 \in Nat /\ n - 1 <= Len(mk) /\ n - 1 <= Len(m2) /\ (n - 1) + 1 = n /\ n \in 1 .. n
    BY <1>1, <1>2 DEF n
  <2>2. /\ \A e : \A f : \A i \in 1 .. n - 1 : Upto(m2, e, i) = Upto(mk, f, i)
        /\ \A w : \A i \in 1 .. (n - 1) + 1 : From(m2, w, i) = From(mk, w, i)
    BY <1>1, <1>2, <2>1, SameBounds
  <2>3. Upto(mk, acc, n) = mk[n] /\ Upto(m2, acc + d, Len(m2) + 1) = acc + d
    BY <1>1, <1>2, <2>1, Bounds DEF n
  <2>4. From(mk, 0, n) \in Nat
    <3>1. 0 \in Nat /\ n \in 1 .. Len(mk) + 1
      BY <1>1, <2>1 DEF n
    <3> QED BY <1>1, <3>1, Bounds
  <2> QED BY <1>2, <2>1, <2>2, <2>3, <2>4
<1>11. Len(R[n]) = mk[n] - From(mk, 0, n)
  BY <1>1, <1>2, <1>4, <1>10
<1>12. Len(Q[n]) = Upto(m2, acc + d, n) - From(m2, 0, n)
  <2>1. n \in 1 .. n /\ mk[n] \in Nat
    BY <1>1, <1>2
  <2> DEFINE x == Len(R[n])
             y == Len(R[n + 1])
             f == From(mk, 0, n)
             m == mk[n]
  <2>2. x = m - f /\ y = acc - m /\ f \in Nat /\ m \in Nat /\ Len(Q[n]) = x + (d + y) /\ d \in Nat
    BY <1>2, <1>7, <1>9, <1>10, <1>11, <2>1
  <2> HIDE DEF x, y, f, m
  <2>3. x + (d + y) = (acc + d) - f
    BY <1>1, <2>2
  <2> QED BY <1>10, <2>1, <2>2, <2>3 DEF f
<1>13. \A i \in 1 .. Len(m2) + 1 : Len(Q[i]) = Upto(m2, acc + d, i) - From(m2, 0, i)
  <2> SUFFICES ASSUME NEW i \in 1 .. n
               PROVE  Len(Q[i]) = Upto(m2, acc + d, i) - From(m2, 0, i)
    BY <1>1, <1>2
  <2>1. CASE i = n
    BY <1>12, <2>1
  <2>2. CASE i # n
    <3>1. i \in 1 .. n - 1 /\ i \in 1 .. n + 1
      BY <1>1, <2>2
    <3> QED BY <1>3, <1>4, <1>10, <3>1
  <2> QED BY <2>1, <2>2
<1>14. acc + d \in Nat /\ Len(Q) = Len(m2) + 1
  BY <1>1, <1>2, <1>3, <1>9
<1>15. Counted(Q, m2, acc + d)
  BY <1>2, <1>13, <1>14 DEF Counted
<1> QED BY <1>1, <1>6, <1>7, <1>15 DEF m2, d, n

-----------------------------------------------------------------------------
(* The buffered Writer.                                                    *)

\* A slice of the part two strings share, and a slice that runs to the end.
LEMMA SliceShared ==
  ASSUME NEW b \in Bytes, NEW c \in Bytes, NEW m \in Nat, m <= Len(b), m <= Len(c),
         \A i \in 1 .. m : c[i] = b[i]
  PROVE  \A x \in Nat : \A y \in Nat :
           x <= y /\ y <= m => SubSeq(c, x + 1, y) = SubSeq(b, x + 1, y)
<1> SUFFICES ASSUME NEW x \in Nat, NEW y \in Nat, x <= y, y <= m
             PROVE  SubSeq(c, x + 1, y) = SubSeq(b, x + 1, y)
  OBVIOUS
<1>0. b \in Seq(Byte) /\ c \in Seq(Byte) /\ y <= Len(b) /\ y <= Len(c)
  BY DEF Bytes
<1>1. /\ SubSeq(c, x + 1, y) \in Seq(Byte) /\ Len(SubSeq(c, x + 1, y)) = y - x
      /\ \A i \in 1 .. y - x : SubSeq(c, x + 1, y)[i] = c[x + i]
  BY <1>0, Slice
<1>2. /\ SubSeq(b, x + 1, y) \in Seq(Byte) /\ Len(SubSeq(b, x + 1, y)) = y - x
      /\ \A i \in 1 .. y - x : SubSeq(b, x + 1, y)[i] = b[x + i]
  BY <1>0, Slice
<1>3. \A i \in 1 .. y - x : x + i \in 1 .. m
  OBVIOUS
<1>4. \A i \in 1 .. y - x : SubSeq(c, x + 1, y)[i] = SubSeq(b, x + 1, y)[i]
  BY <1>1, <1>2, <1>3
<1> DEFINE p == SubSeq(c, x + 1, y)
           q == SubSeq(b, x + 1, y)
<1> HIDE DEF p, q
<1>5. p \in Seq(Byte) /\ q \in Seq(Byte) /\ Len(p) = Len(q) /\ \A i \in 1 .. Len(p) : p[i] = q[i]
  BY <1>1, <1>2, <1>4 DEF p, q
<1>6. p = q
  BY <1>5, SameSeq
<1> QED BY <1>6 DEF p, q

\* A slice that runs to the end of a concatenation.
LEMMA SliceToEnd ==
  ASSUME NEW b \in Bytes, NEW c \in Bytes, NEW x \in Nat, x <= Len(b)
  PROVE  SubSeq(b \o c, x + 1, Len(b) + Len(c)) = SubSeq(b, x + 1, Len(b)) \o c
<1> DEFINE n == Len(b)
           k == Len(c)
           a == b \o c
           p == SubSeq(a, x + 1, n + k)
           s == SubSeq(b, x + 1, n)
           q == s \o c
<1>0. b \in Seq(Byte) /\ c \in Seq(Byte) /\ n \in Nat /\ k \in Nat /\ x <= n + k /\ n + k \in Nat
  BY DEF Bytes
<1>1. a \in Seq(Byte) /\ Len(a) = n + k
  BY <1>0, Cat
<1>2. \A i \in 1 .. n + k : a[i] = IF i <= n THEN b[i] ELSE c[i - n]
  BY <1>0, CatAt
<1> HIDE DEF a
<1>3. p \in Seq(Byte) /\ Len(p) = (n + k) - x /\ \A i \in 1 .. (n + k) - x : p[i] = a[x + i]
  <2> HIDE DEF n, k
  <2> QED BY <1>0, <1>1, Slice
<1>4. s \in Seq(Byte) /\ Len(s) = n - x /\ \A i \in 1 .. n - x : s[i] = b[x + i]
  BY <1>0, Slice
<1> HIDE DEF s, p
<1>5. q \in Seq(Byte) /\ Len(q) = (n - x) + k
  BY <1>0, <1>4, Cat
<1>6. \A i \in 1 .. (n - x) + k : q[i] = IF i <= n - x THEN s[i] ELSE c[i - (n - x)]
  BY <1>0, <1>4, CatAt
<1> HIDE DEF q, n, k
<1>7. \A i \in 1 .. Len(p) : p[i] = q[i]
  <2> SUFFICES ASSUME NEW i \in 1 .. (n + k) - x PROVE p[i] = q[i]
    BY <1>3
  <2>1. x + i \in 1 .. n + k /\ i \in 1 .. (n - x) + k /\ (i <= n - x <=> x + i <= n)
    BY <1>0
  <2>2. p[i] = IF x + i <= n THEN b[x + i] ELSE c[(x + i) - n]
    BY <1>2, <1>3, <2>1
  <2>3. (x + i) - n = i - (n - x)
    BY <1>0
  <2>4. i <= n - x => s[i] = b[x + i]
    BY <1>0, <1>4
  <2> QED BY <1>6, <2>1, <2>2, <2>3, <2>4
<1>8. Len(p) = Len(q)
  BY <1>0, <1>3, <1>5
<1>9. p = q
  BY <1>3, <1>5, <1>7, <1>8, SameSeq
<1> QED BY <1>9 DEF p, q, s, a, n, k

\* The buffered Writer follows every call.
LEMMA BufferedBytes ==
  ASSUME NEW R \in Seq(Bytes), NEW Q, NEW op \in Ops, op.op \notin {"begin", "end"}, Steps(R, op, Q),
         NEW mk, NEW b, Buffered(R, mk, b)
  PROVE  Buffered(Q, mk, b \o OpBytes(op))
<1> DEFINE n == Len(mk)
           p == OpBytes(op)
           c == b \o p
           L == ReservedLen
<1>1. mk \in Seq(Nat) /\ b \in Bytes /\ Len(R) = n + 1 /\ n \in Nat /\ L \in Nat
  BY MarshalAssumption DEF Buffered
<1>2. p \in Bytes
  BY OpFacts
<1>3. Len(Q) = n + 1 /\ Q[n + 1] = R[n + 1] \o p /\ \A i \in 1 .. n : Q[i] = R[i]
  BY <1>1 DEF Steps
<1>4. /\ \A i \in 1 .. n : mk[i] <= Len(b) /\ \A j \in 1 .. i : mk[j] <= mk[i]
      /\ \A i \in 1 .. n + 1 : /\ From(mk, L, i) <= Upto(mk, Len(b), i)
                               /\ R[i] = SubSeq(b, From(mk, L, i) + 1, Upto(mk, Len(b), i))
  BY DEF Buffered
<1> HIDE DEF p
<1>5. c \in Bytes /\ Len(c) = Len(b) + Len(p) /\ Len(b) \in Nat /\ Len(p) \in Nat
  BY <1>1, <1>2, BytesCat
<1>6. \A i \in 1 .. Len(b) : c[i] = b[i]
  BY <1>1, <1>2, <1>5, CatAt DEF Bytes
<1> HIDE DEF n, L, c
<1>s. \A x \in Nat : \A y \in Nat :
        x <= y /\ y <= Len(b) => SubSeq(c, x + 1, y) = SubSeq(b, x + 1, y)
  <2>1. Len(b) \in Nat /\ Len(b) <= Len(b) /\ Len(b) <= Len(c)
    BY <1>1, <1>5
  <2> QED BY <1>1, <1>5, <1>6, <2>1, SliceShared
<1>7. /\ Upto(mk, Len(b), n + 1) = Len(b) /\ Upto(mk, Len(c), n + 1) = Len(c)
      /\ \A i \in 1 .. n : /\ Upto(mk, Len(b), i) = mk[i] /\ Upto(mk, Len(c), i) = mk[i]
                           /\ mk[i] \in Nat
      /\ \A i \in 1 .. n + 1 : From(mk, L, i) \in Nat
  BY <1>1, Bounds, ElementOf DEF n
<1>8. ASSUME NEW i \in 1 .. n + 1
      PROVE  /\ From(mk, L, i) <= Upto(mk, Len(c), i)
             /\ Q[i] = SubSeq(c, From(mk, L, i) + 1, Upto(mk, Len(c), i))
  <2>1. CASE i = n + 1
    <3>1. From(mk, L, n + 1) <= Len(b) /\ R[n + 1] = SubSeq(b, From(mk, L, n + 1) + 1, Len(b))
      BY <1>1, <1>4, <1>7
    <3>2. From(mk, L, n + 1) \in Nat
      BY <1>1, <1>7
    <3>3. SubSeq(b \o p, From(mk, L, n + 1) + 1, Len(b) + Len(p)) = SubSeq(b, From(mk, L, n + 1) + 1, Len(b)) \o p
      BY <1>1, <1>2, <3>1, <3>2, SliceToEnd
    <3>4. From(mk, L, n + 1) <= Len(c)
      BY <1>5, <3>1, <3>2
    <3> QED BY <1>3, <1>5, <1>7, <2>1, <3>1, <3>3, <3>4 DEF c
  <2>2. CASE i # n + 1
    <3>1. i \in 1 .. n
      BY <1>1, <2>2
    <3>2. /\ From(mk, L, i) \in Nat /\ mk[i] \in Nat /\ From(mk, L, i) <= mk[i] /\ mk[i] <= Len(b)
          /\ R[i] = SubSeq(b, From(mk, L, i) + 1, mk[i])
      BY <1>4, <1>7, <3>1
    <3>4. SubSeq(c, From(mk, L, i) + 1, mk[i]) = SubSeq(b, From(mk, L, i) + 1, mk[i])
      BY <1>s, <3>2, Zenon
    <3> QED BY <1>3, <1>7, <3>1, <3>2, <3>4
  <2> QED BY <2>1, <2>2
<1>9. \A i \in 1 .. n : mk[i] <= Len(c) /\ \A j \in 1 .. i : mk[j] <= mk[i]
  BY <1>4, <1>5, <1>7
<1> QED BY <1>1, <1>3, <1>5, <1>8, <1>9 DEF Buffered, n, L, c, p

\* The begin of a region leaves room for its length.
LEMMA BufferedBegin ==
  ASSUME NEW R \in Seq(Bytes), NEW Q, NEW op, op.op = "begin", Steps(R, op, Q),
         NEW mk, NEW b, Buffered(R, mk, b)
  PROVE  Buffered(Q, Append(mk, Len(b)), b \o [i \in 1 .. ReservedLen |-> 0])
<1> DEFINE n == Len(mk)
           m2 == Append(mk, Len(b))
           p == [i \in 1 .. ReservedLen |-> 0]
           c == b \o p
           L == ReservedLen
<1>1. mk \in Seq(Nat) /\ b \in Bytes /\ Len(R) = n + 1 /\ n \in Nat /\ L \in Nat /\ Len(b) \in Nat
  BY MarshalAssumption, BytesCat DEF Buffered
<1>2. p \in Bytes /\ Len(p) = L
  <2>1. 0 \in Byte
    BY WireAssumption DEF Byte
  <2> HIDE DEF L
  <2>2. [i \in 1 .. L |-> 0] \in Seq(Byte) /\ Len([i \in 1 .. L |-> 0]) = L
    BY <1>1, <2>1
  <2> QED BY <2>2 DEF Bytes, L
<1>3. Len(Q) = n + 2 /\ Q[n + 2] = <<>> /\ \A i \in 1 .. n + 1 : Q[i] = R[i]
  BY <1>1 DEF Steps
<1>4. /\ \A i \in 1 .. n : mk[i] <= Len(b) /\ \A j \in 1 .. i : mk[j] <= mk[i]
      /\ \A i \in 1 .. n + 1 : /\ From(mk, L, i) <= Upto(mk, Len(b), i)
                               /\ R[i] = SubSeq(b, From(mk, L, i) + 1, Upto(mk, Len(b), i))
  BY DEF Buffered
<1> HIDE DEF p
<1>5. c \in Bytes /\ Len(c) = Len(b) + L
  BY <1>1, <1>2, BytesCat
<1>6. \A i \in 1 .. Len(b) : c[i] = b[i]
  BY <1>1, <1>2, CatAt DEF Bytes
<1>a. /\ m2 \in Seq(Nat) /\ Len(m2) = n + 1 /\ m2[n + 1] = Len(b)
      /\ \A i \in 1 .. n : m2[i] = mk[i] /\ mk[i] \in Nat
  BY <1>1, NatSeq
<1> HIDE DEF n, L, c, m2
<1>s. \A x \in Nat : \A y \in Nat :
        x <= y /\ y <= Len(b) => SubSeq(c, x + 1, y) = SubSeq(b, x + 1, y)
  <2>1. Len(b) \in Nat /\ Len(b) <= Len(b) /\ Len(b) <= Len(c)
    BY <1>1, <1>5
  <2> QED BY <1>1, <1>5, <1>6, <2>1, SliceShared
<1>7. /\ Upto(mk, Len(b), n + 1) = Len(b) /\ \A i \in 1 .. n : Upto(mk, Len(b), i) = mk[i]
      /\ \A i \in 1 .. n + 1 : From(mk, L, i) \in Nat
  BY <1>1, Bounds DEF n
<1>8. /\ Upto(m2, Len(c), n + 2) = Len(c) /\ \A i \in 1 .. n + 1 : Upto(m2, Len(c), i) = m2[i]
      /\ From(m2, L, n + 2) = Len(b) + L
  <2>1. (n + 1) + 1 = n + 2 /\ n + 1 \in 1 .. n + 1
    BY <1>1
  <2>2. /\ Upto(m2, Len(c), (n + 1) + 1) = Len(c)
        /\ \A i \in 1 .. n + 1 : Upto(m2, Len(c), i) = m2[i]
        /\ From(m2, L, (n + 1) + 1) = m2[n + 1] + L
    <3>1. m2 \in Seq(Nat) /\ L \in Nat /\ Len(m2) = n + 1
      BY <1>1, <1>a
    <3>2. /\ \A e : Upto(m2, e, Len(m2) + 1) = e
          /\ \A e : \A i \in 1 .. Len(m2) : Upto(m2, e, i) = m2[i]
          /\ \A w \in Nat : \A i \in 1 .. Len(m2) : From(m2, w, i + 1) = m2[i] + w
      BY <3>1, Bounds
    <3> QED BY <2>1, <3>1, <3>2, Zenon
  <2> QED BY <1>a, <2>1, <2>2
<1>9. \A i \in 1 .. n + 1 : From(m2, L, i) = From(mk, L, i)
  <2>1. n <= Len(mk) /\ n <= Len(m2) /\ \A i \in 1 .. n : m2[i] = mk[i]
    BY <1>1, <1>a DEF n
  <2>2. \A w : \A i \in 1 .. n + 1 : From(m2, w, i) = From(mk, w, i)
    BY <1>1, <1>a, <2>1, SameBounds
  <2> QED BY <2>2
<1>10. \A i \in 1 .. n + 1 : m2[i] = Upto(mk, Len(b), i) /\ m2[i] \in Nat /\ m2[i] <= Len(b)
  <2> SUFFICES ASSUME NEW i \in 1 .. n + 1
               PROVE  m2[i] = Upto(mk, Len(b), i) /\ m2[i] \in Nat /\ m2[i] <= Len(b)
    OBVIOUS
  <2>1. CASE i = n + 1
    BY <1>1, <1>7, <1>a, <2>1
  <2>2. CASE i # n + 1
    <3>1. i \in 1 .. n
      BY <1>1, <2>2
    <3> QED BY <1>4, <1>7, <1>a, <3>1
  <2> QED BY <2>1, <2>2
<1>11. ASSUME NEW i \in 1 .. Len(m2) + 1
       PROVE  /\ From(m2, L, i) <= Upto(m2, Len(c), i)
              /\ Q[i] = SubSeq(c, From(m2, L, i) + 1, Upto(m2, Len(c), i))
  <2>1. CASE i = n + 2
    <3>1. From(m2, L, i) = Len(c) /\ Upto(m2, Len(c), i) = Len(c)
      BY <1>5, <1>8, <2>1
    <3>2. SubSeq(c, Len(c) + 1, Len(c)) = <<>> /\ Len(c) \in Nat
      BY <1>5 DEF Bytes
    <3>3. Len(c) <= Len(c) /\ Q[i] = <<>>
      BY <1>3, <2>1, <3>2
    <3> QED BY <3>1, <3>2, <3>3
  <2>2. CASE i # n + 2
    <3>1. i \in 1 .. n + 1
      BY <1>1, <1>a, <2>2
    <3>2. /\ From(mk, L, i) \in Nat /\ m2[i] \in Nat /\ From(mk, L, i) <= m2[i] /\ m2[i] <= Len(b)
          /\ R[i] = SubSeq(b, From(mk, L, i) + 1, m2[i])
      BY <1>4, <1>7, <1>10, <3>1
    <3>4. SubSeq(c, From(mk, L, i) + 1, m2[i]) = SubSeq(b, From(mk, L, i) + 1, m2[i])
      BY <1>s, <3>2, Zenon
    <3> QED BY <1>3, <1>8, <1>9, <3>1, <3>2, <3>4
  <2> QED BY <2>1, <2>2
<1>12. \A i \in 1 .. n + 1 : m2[i] <= Len(c) /\ \A j \in 1 .. i : m2[j] <= m2[i]
  <2> SUFFICES ASSUME NEW i \in 1 .. n + 1 PROVE m2[i] <= Len(c) /\ \A j \in 1 .. i : m2[j] <= m2[i]
    OBVIOUS
  <2>1. m2[i] <= Len(c)
    BY <1>1, <1>5, <1>10
  <2>2. ASSUME NEW j \in 1 .. i PROVE m2[j] <= m2[i]
    <3>1. CASE i = n + 1
      BY <1>1, <1>a, <1>10, <3>1
    <3>2. CASE i # n + 1
      BY <1>1, <1>4, <1>a, <3>2
    <3> QED BY <3>1, <3>2
  <2> QED BY <2>1, <2>2
<1>13. Len(Q) = Len(m2) + 1
  BY <1>1, <1>3, <1>a
<1>14. \A i \in 1 .. Len(m2) : m2[i] <= Len(c) /\ \A j \in 1 .. i : m2[j] <= m2[i]
  BY <1>12, <1>a
<1> QED BY <1>5, <1>11, <1>13, <1>14, <1>a DEF Buffered, L, c, p, m2

\* The end of a region puts its length into that room and closes the gap.
LEMMA BufferedEnd ==
  ASSUME NEW R \in Seq(Bytes), NEW Q, NEW op, op.op = "end", Steps(R, op, Q),
         NEW mk, NEW b, Buffered(R, mk, b), mk # <<>>,
         NEW len, len = Len(b) - Last(mk) - ReservedLen
  PROVE  Buffered(Q, Front(mk), SubSeq(b, 1, Last(mk)) \o appendUvarint[len]
                                  \o SubSeq(b, Last(mk) + ReservedLen + 1, Len(b)))
<1> DEFINE n == Len(mk)
           m2 == Front(mk)
           L == ReservedLen
           x == mk[n]
           pre == SubSeq(b, 1, x)
           body == R[n + 1]
           t == appendUvarint[Len(body)]
           c == pre \o (t \o body)
<1>1. mk \in Seq(Nat) /\ b \in Bytes /\ Len(R) = n + 1 /\ n \in Nat /\ L \in Nat /\ Len(b) \in Nat
  BY MarshalAssumption, BytesCat DEF Buffered
<1>2. /\ n >= 1 /\ m2 \in Seq(Nat) /\ Len(m2) = n - 1 /\ \A i \in 1 .. n - 1 : m2[i] = mk[i]
      /\ Last(mk) = x /\ \A i \in 1 .. n : mk[i] \in Nat
  BY <1>1, NatSeq
<1>3. Len(Q) = n /\ Q[n] = R[n] \o (t \o body) /\ \A i \in 1 .. n - 1 : Q[i] = R[i]
  <2>1. /\ Len(Q) = Len(R) - 1 /\ \A i \in 1 .. Len(R) - 2 : Q[i] = R[i]
        /\ Q[Len(R) - 1] = R[Len(R) - 1] \o (appendUvarint[Len(R[Len(R)])] \o R[Len(R)])
    BY DEF Steps
  <2>2. Len(R) = n + 1 /\ Len(R) - 1 = n /\ Len(R) - 2 = n - 1
    BY <1>1
  <2> HIDE DEF n
  <2> QED BY <2>1, <2>2, Zenon
<1>4. /\ \A i \in 1 .. n : mk[i] <= Len(b) /\ \A j \in 1 .. i : mk[j] <= mk[i]
      /\ \A i \in 1 .. n + 1 : /\ From(mk, L, i) <= Upto(mk, Len(b), i)
                               /\ R[i] = SubSeq(b, From(mk, L, i) + 1, Upto(mk, Len(b), i))
  BY DEF Buffered
<1> HIDE DEF n, L, m2
<1>5. x \in Nat /\ x <= Len(b) /\ \A j \in 1 .. n : mk[j] <= x
  BY <1>1, <1>2, <1>4
<1>6. /\ \A e : Upto(mk, e, n + 1) = e
      /\ \A e : \A i \in 1 .. n : Upto(mk, e, i) = mk[i]
      /\ \A i \in 1 .. n + 1 : From(mk, L, i) \in Nat
      /\ From(mk, L, n + 1) = x + L
  <2>1. n \in 1 .. n
    BY <1>1, <1>2
  <2> QED BY <1>1, <2>1, Bounds DEF n
<1>7. x + L <= Len(b) /\ body = SubSeq(b, x + L + 1, Len(b)) /\ body \in Bytes
  <2>1. n + 1 \in 1 .. n + 1 /\ n + 1 \in 1 .. Len(R)
    BY <1>1
  <2>2. From(mk, L, n + 1) <= Upto(mk, Len(b), n + 1) /\ body = SubSeq(b, From(mk, L, n + 1) + 1, Upto(mk, Len(b), n + 1))
    BY <1>4, <2>1
  <2>3. body \in Bytes
    BY <2>1, ElementOf
  <2> QED BY <1>6, <2>2, <2>3
<1>8. Len(body) = len /\ len \in Nat
  <2> DEFINE y == x + L
             z == Len(b)
  <2>1. y \in Nat /\ z \in Nat /\ y <= z /\ body = SubSeq(b, y + 1, z) /\ b \in Seq(Byte)
    <3>1. y \in Nat /\ z \in Nat
      BY <1>1, <1>5
    <3>2. body = SubSeq(b, y + 1, z) /\ y <= z
      BY <1>7, Zenon
    <3>3. b \in Seq(Byte)
      BY <1>1 DEF Bytes
    <3> QED BY <3>1, <3>2, <3>3
  <2>2. len = z - y
    BY <1>1, <1>2, <1>5 DEF L
  <2> HIDE DEF y, body
  <2>3. Len(SubSeq(b, y + 1, z)) = z - y
    BY <2>1, Slice
  <2> HIDE DEF z
  <2> QED BY <2>1, <2>2, <2>3
<1>9. t \in Bytes
  BY <1>8, Uvarint DEF Bytes
<1>10. pre \in Bytes /\ Len(pre) = x /\ \A i \in 1 .. x : pre[i] = b[i]
  <2> HIDE DEF x
  <2>1. b \in Seq(Byte) /\ x \in Nat /\ x <= Len(b)
    BY <1>1, <1>5 DEF Bytes
  <2>2. pre \in Seq(Byte)
    BY <2>1
  <2>3. Len(pre) = x /\ \A i \in 1 .. x : pre[i] = b[i]
    BY <2>1
  <2> QED BY <2>2, <2>3 DEF Bytes
<1>11. SubSeq(b, 1, Last(mk)) \o appendUvarint[len] \o SubSeq(b, Last(mk) + ReservedLen + 1, Len(b)) = c
  <2>1. (pre \o t) \o body = pre \o (t \o body)
    <3> HIDE DEF pre, t, body
    <3> QED BY <1>7, <1>9, <1>10, BytesCat, Zenon
  <2> QED BY <1>2, <1>7, <1>8, <2>1 DEF L
<1> HIDE DEF pre, body, t
<1>12. t \o body \in Bytes /\ c \in Bytes /\ Len(c) = x + Len(t \o body) /\ Len(t \o body) \in Nat
  <2>1. t \o body \in Bytes
    BY <1>7, <1>9, BytesCat, Zenon
  <2> DEFINE u == t \o body
  <2> HIDE DEF u
  <2>2. pre \o u \in Bytes /\ Len(pre \o u) = Len(pre) + Len(u) /\ Len(u) \in Nat
    BY <1>10, <2>1, BytesCat, Zenon DEF u
  <2> QED BY <1>10, <2>1, <2>2 DEF u
<1>13. \A i \in 1 .. x : c[i] = b[i]
  <2> DEFINE u == t \o body
  <2>1. u \in Seq(Byte) /\ pre \in Seq(Byte) /\ Len(u) \in Nat
    BY <1>10, <1>12 DEF Bytes
  <2> HIDE DEF u
  <2>2. \A i \in 1 .. Len(pre) + Len(u) : (pre \o u)[i] = IF i <= Len(pre) THEN pre[i] ELSE u[i - Len(pre)]
    BY <2>1, CatAt
  <2> SUFFICES ASSUME NEW i \in 1 .. x PROVE (pre \o u)[i] = b[i]
    BY DEF u
  <2>3. i \in 1 .. Len(pre) + Len(u) /\ i <= Len(pre)
    BY <1>5, <1>10, <2>1
  <2> QED BY <1>10, <2>2, <2>3
<1>14. \A y \in Nat : \A z \in Nat :
        y <= z /\ z <= x => SubSeq(c, y + 1, z) = SubSeq(b, y + 1, z)
  <2>1. x \in Nat /\ x <= Len(b) /\ x <= Len(c)
    BY <1>5, <1>12
  <2> HIDE DEF x, c
  <2> QED BY <1>1, <1>12, <1>13, <2>1, SliceShared
<1>15. \A y \in Nat : \A z \in Nat :
        y <= z /\ z <= x => SubSeq(pre, y + 1, z) = SubSeq(b, y + 1, z)
  <2>1. x \in Nat /\ x <= Len(b) /\ x <= Len(pre)
    BY <1>5, <1>10
  <2> HIDE DEF x, c
  <2> QED BY <1>1, <1>10, <2>1, SliceShared
<1>16. /\ \A e : Upto(m2, e, n) = e
       /\ \A e : \A i \in 1 .. n - 1 : Upto(m2, e, i) = mk[i]
       /\ \A i \in 1 .. n : From(m2, L, i) = From(mk, L, i)
  <2>1. n - 1 \in Nat /\ n - 1 <= Len(mk) /\ n - 1 <= Len(m2) /\ (n - 1) + 1 = n
    BY <1>1, <1>2 DEF n
  <2>2. \A w : \A i \in 1 .. (n - 1) + 1 : From(m2, w, i) = From(mk, w, i)
    BY <1>1, <1>2, <2>1, SameBounds
  <2>3. /\ \A e : Upto(m2, e, Len(m2) + 1) = e
        /\ \A e : \A i \in 1 .. Len(m2) : Upto(m2, e, i) = m2[i]
    BY <1>2, Bounds
  <2>4. Len(m2) + 1 = n
    BY <1>2, <2>1
  <2> QED BY <1>2, <2>1, <2>2, <2>3, <2>4
<1>17. ASSUME NEW i \in 1 .. n
       PROVE  /\ From(m2, L, i) <= Upto(m2, Len(c), i)
              /\ Q[i] = SubSeq(c, From(m2, L, i) + 1, Upto(m2, Len(c), i))
  <2> DEFINE f == From(mk, L, i)
  <2>0. i \in 1 .. n + 1
    BY <1>1
  <2>1. f \in Nat /\ mk[i] \in Nat /\ f <= mk[i] /\ mk[i] <= x /\ R[i] = SubSeq(b, f + 1, mk[i])
    BY <1>2, <1>4, <1>5, <1>6, <2>0
  <2>2. CASE i = n
    <3>1. f <= x /\ R[n] = SubSeq(b, f + 1, x)
      BY <2>1, <2>2
    <3> HIDE DEF x, f
    <3>2. SubSeq(pre, f + 1, x) = SubSeq(b, f + 1, x)
      <4>1. x <= x
        BY <1>5
      <4> QED BY <1>5, <1>15, <2>1, <3>1, <4>1, Zenon
    <3>3. SubSeq(pre \o (t \o body), f + 1, Len(pre) + Len(t \o body)) = SubSeq(pre, f + 1, Len(pre)) \o (t \o body)
      <4> DEFINE u == t \o body
      <4>1. u \in Bytes
        BY <1>12
      <4> HIDE DEF u
      <4>2. f <= Len(pre) /\ f \in Nat
        BY <1>10, <2>1, <3>1
      <4>3. SubSeq(pre \o u, f + 1, Len(pre) + Len(u)) = SubSeq(pre, f + 1, Len(pre)) \o u
        BY <1>10, <4>1, <4>2, SliceToEnd
      <4> QED BY <4>3 DEF u
    <3>4. SubSeq(c, f + 1, Len(c)) = Q[n]
      BY <1>3, <1>10, <1>12, <3>1, <3>2, <3>3
    <3>5. f <= Len(c)
      BY <1>5, <1>12, <2>1, <3>1
    <3>6. From(m2, L, i) = f /\ Upto(m2, Len(c), i) = Len(c)
      BY <1>16, <2>2 DEF f
    <3> HIDE DEF c
    <3> QED BY <2>2, <3>4, <3>5, <3>6
  <2>3. CASE i # n
    <3>1. i \in 1 .. n - 1
      BY <1>1, <2>3
    <3>2. SubSeq(c, f + 1, mk[i]) = SubSeq(b, f + 1, mk[i])
      <4> HIDE DEF x, c, f
      <4> QED BY <1>14, <2>1, Zenon
    <3>3. Q[i] = R[i] /\ Upto(m2, Len(c), i) = mk[i] /\ From(m2, L, i) = f
      BY <1>3, <1>16, <3>1
    <3> HIDE DEF x, c, f
    <3> QED BY <2>1, <3>2, <3>3
  <2> QED BY <2>2, <2>3
<1>18. \A i \in 1 .. Len(m2) : m2[i] <= Len(c) /\ \A j \in 1 .. i : m2[j] <= m2[i]
  <2> SUFFICES ASSUME NEW i \in 1 .. n - 1 PROVE m2[i] <= Len(c) /\ \A j \in 1 .. i : m2[j] <= m2[i]
    BY <1>2
  <2>1. i \in 1 .. n /\ \A j \in 1 .. i : j \in 1 .. n - 1
    BY <1>1
  <2>2. m2[i] = mk[i] /\ mk[i] \in Nat /\ mk[i] <= x /\ \A j \in 1 .. i : m2[j] = mk[j] /\ mk[j] <= mk[i]
    BY <1>2, <1>4, <1>5, <2>1
  <2> QED BY <1>5, <1>12, <2>2
<1>19. Len(Q) = Len(m2) + 1 /\ n = Len(m2) + 1
  BY <1>1, <1>2, <1>3
<1> HIDE DEF c
<1>20. Buffered(Q, m2, c)
  BY <1>2, <1>12, <1>17, <1>18, <1>19 DEF Buffered, L
<1> QED BY <1>11, <1>20 DEF m2

-----------------------------------------------------------------------------
(* The record of sizes, call by call.                                      *)

\* One call more changes neither the depths nor the openers nor the slots before it.
Extends(calls, op, more) ==
  /\ more \in Seq(Ops) /\ Len(more) = Len(calls) + 1 /\ more[Len(calls) + 1] = op
  /\ Len(calls) \in Nat
  /\ \A i \in 1 .. Len(calls) : more[i] = calls[i]
  /\ \A k \in 0 .. Len(calls) : /\ Open(more, k) = Open(calls, k)
                                /\ Depth(more, k) = Depth(calls, k)
                                /\ Slot(more, k) = Slot(calls, k)
                                /\ \A i \in 0 .. k : Opener(more, i, k) <=> Opener(calls, i, k)

\* Append extends.
LEMMA Longer ==
  ASSUME NEW calls \in Seq(Ops), NEW op \in Ops
  PROVE  Extends(calls, op, Append(calls, op))
<1> DEFINE n == Len(calls)
           more == Append(calls, op)
<1>1. /\ more \in Seq(Ops) /\ Len(more) = n + 1 /\ more[n + 1] = op /\ n \in Nat
      /\ \A i \in 1 .. n : more[i] = calls[i]
  OBVIOUS
<1>2. \A k \in 0 .. n : Open(more, k) = Open(calls, k)
  BY OpenAppend
<1>3. \A k \in 0 .. n : Slot(more, k) = Slot(calls, k)
  BY <1>1, SlotSame
<1>4. \A k \in 0 .. n : Depth(more, k) = Depth(calls, k)
  BY <1>2 DEF Depth
<1> HIDE DEF n, more
<1>5. ASSUME NEW k \in 0 .. n, NEW i \in 0 .. k PROVE Opener(more, i, k) <=> Opener(calls, i, k)
  <2>1. i \in 0 .. n /\ \A j \in i .. k : j \in 0 .. n
    BY <1>1
  <2>2. i # 0 => more[i] = calls[i]
    BY <1>1, <2>1
  <2>3. Depth(more, i) = Depth(calls, i) /\ Depth(more, k) = Depth(calls, k)
        /\ \A j \in i .. k : Depth(more, j) = Depth(calls, j)
    BY <1>4, <2>1
  <2> QED BY <2>2, <2>3 DEF Opener
<1> QED BY <1>1, <1>2, <1>3, <1>4, <1>5 DEF n, Extends, more

\* One call more keeps the calls nested.
LEMMA NestedAppend ==
  ASSUME NEW calls \in Seq(Ops), NEW op \in Ops, Nested(calls),
         op.op = "end" => Depth(calls, Len(calls)) >= 2
  PROVE  Nested(Append(calls, op))
<1> DEFINE n == Len(calls)
           more == Append(calls, op)
<1>1. /\ Len(more) = n + 1 /\ more[n + 1] = op /\ n \in Nat
      /\ \A i \in 1 .. n : more[i] = calls[i]
      /\ \A k \in 0 .. n : Open(more, k) = Open(calls, k)
  <2>1. Extends(calls, op, more)
    BY Longer
  <2> HIDE DEF more
  <2> QED BY <2>1, Zenon DEF Extends
<1> HIDE DEF more
<1> SUFFICES ASSUME NEW k \in 1 .. n + 1, more[k].op = "end" PROVE Len(Open(more, k - 1)) >= 2
  BY <1>1 DEF Nested, more
<1>2. k - 1 \in 0 .. n /\ Open(more, k - 1) = Open(calls, k - 1)
  BY <1>1
<1>3. CASE k = n + 1
  BY <1>1, <1>2, <1>3 DEF Depth
<1>4. CASE k # n + 1
  <2>1. k \in 1 .. n
    BY <1>1, <1>4
  <2> QED BY <1>1, <1>2, <2>1 DEF Nested
<1> QED BY <1>3, <1>4

\* An opener of a region that ends is a begin.
LEMMA OpenerBegins ==
  ASSUME NEW calls \in Seq(Ops), Nested(calls), NEW e \in 1 .. Len(calls), calls[e].op = "end",
         NEW i \in 0 .. e - 1, Opener(calls, i, e - 1)
  PROVE  i \in 1 .. e - 1 /\ calls[i].op = "begin"
<1>1. Depth(calls, 0) = 1
  BY DepthFacts
<1>2. Depth(calls, e - 1) >= 2
  BY DEF Nested, Depth
<1>3. Depth(calls, i) = Depth(calls, e - 1) /\ (i = 0 \/ calls[i].op = "begin")
  BY DEF Opener
<1>4. i # 0
  BY <1>1, <1>2, <1>3
<1> QED BY <1>3, <1>4

\* The slot of a begin is one of the slots given out.
LEMMA SlotRange ==
  ASSUME NEW calls, NEW n \in Nat, NEW i \in 1 .. n, calls[i].op = "begin"
  PROVE  Slot(calls, i) \in 1 .. Slot(calls, n)
<1>1. i - 1 \in Nat /\ (i - 1) + 1 = i /\ i \in Nat /\ i <= n
  OBVIOUS
<1>2. Slot(calls, i - 1) \in Nat /\ Slot(calls, i) = Slot(calls, i - 1) + 1
  BY <1>1, SlotFacts
<1>3. Slot(calls, i) <= Slot(calls, n) /\ Slot(calls, n) \in Nat
  BY <1>1, SlotFacts
<1> QED BY <1>2, <1>3

\* A call that writes bytes records nothing.
LEMMA RecordedBytes ==
  ASSUME NEW calls \in Seq(Ops), NEW op \in Ops, Nested(calls), op.op \notin {"begin", "end"},
         NEW rec, NEW stk, Recorded(calls, rec, stk)
  PROVE  Recorded(Append(calls, op), rec, stk)
<1> DEFINE n == Len(calls)
           more == Append(calls, op)
<1>1. /\ more \in Seq(Ops) /\ Len(more) = n + 1 /\ more[n + 1] = op /\ n \in Nat
      /\ \A i \in 1 .. n : more[i] = calls[i]
      /\ \A k \in 0 .. n : /\ Open(more, k) = Open(calls, k)
                           /\ Depth(more, k) = Depth(calls, k)
                           /\ Slot(more, k) = Slot(calls, k)
                           /\ \A i \in 0 .. k : Opener(more, i, k) <=> Opener(calls, i, k)
  <2>1. Extends(calls, op, more)
    BY Longer
  <2> HIDE DEF more
  <2> QED BY <2>1, Zenon DEF Extends
<1>2. Nested(more)
  BY NestedAppend
<1>3. Depth(more, n + 1) = Depth(more, n)
  <2>1. n + 1 \in 1 .. Len(more) /\ (n + 1) - 1 = n
    BY <1>1
  <2> HIDE DEF more
  <2> QED BY <1>1, <1>2, <2>1, DepthFacts
<1>4. Slot(more, n + 1) = Slot(more, n)
  BY <1>1, SlotFacts
<1>5. /\ rec \in Seq(Nat) /\ Len(rec) = Slot(calls, n)
      /\ stk \in Seq(Nat) /\ Len(stk) = Depth(calls, n) - 1 /\ Sized(calls, rec)
  BY DEF Recorded
<1> HIDE DEF more, n
<1>6. Slot(more, n + 1) = Slot(calls, n) /\ Depth(more, n + 1) = Depth(calls, n)
  BY <1>1, <1>3, <1>4
<1>7. ASSUME NEW i \in 1 .. n + 1, more[i].op = "begin",
             \A j \in i .. n + 1 : Depth(more, j) >= Depth(more, i)
      PROVE  stk[Depth(more, i) - 1] = Slot(more, i)
  <2>1. i \in 1 .. n /\ i \in 0 .. n /\ calls[i].op = "begin"
    BY <1>1, <1>7
  <2>2. \A j \in i .. n : j \in i .. n + 1 /\ j \in 0 .. n
    BY <1>1, <2>1
  <2>3. \A j \in i .. n : Depth(calls, j) >= Depth(calls, i)
    BY <1>1, <1>7, <2>1, <2>2
  <2> QED BY <1>1, <2>1, <2>3 DEF Recorded, n
<1>8. Sized(more, rec)
  <2> SUFFICES ASSUME NEW e \in 1 .. n + 1, more[e].op = "end", NEW i \in 0 .. e - 1, Opener(more, i, e - 1)
               PROVE  rec[Slot(more, i)] = Len(Open(more, e - 1)[Depth(more, e - 1)])
    BY <1>1 DEF Sized
  <2>1. e \in 1 .. n /\ e - 1 \in 0 .. n /\ i \in 0 .. n
    BY <1>1
  <2> QED BY <1>1, <1>5, <2>1 DEF Sized, n
<1> QED BY <1>1, <1>5, <1>6, <1>7, <1>8 DEF Recorded, more

\* The begin of a region takes the next slot.
LEMMA RecordedBegin ==
  ASSUME NEW calls \in Seq(Ops), NEW op \in Ops, Nested(calls), op.op = "begin",
         NEW rec, NEW stk, Recorded(calls, rec, stk)
  PROVE  Recorded(Append(calls, op), Append(rec, 0), Append(stk, Len(rec) + 1))
<1> DEFINE n == Len(calls)
           more == Append(calls, op)
           rec2 == Append(rec, 0)
           stk2 == Append(stk, Len(rec) + 1)
<1>1. /\ more \in Seq(Ops) /\ Len(more) = n + 1 /\ more[n + 1] = op /\ n \in Nat
      /\ \A i \in 1 .. n : more[i] = calls[i]
      /\ \A k \in 0 .. n : /\ Open(more, k) = Open(calls, k)
                           /\ Depth(more, k) = Depth(calls, k)
                           /\ Slot(more, k) = Slot(calls, k)
                           /\ \A i \in 0 .. k : Opener(more, i, k) <=> Opener(calls, i, k)
  <2>1. Extends(calls, op, more)
    BY Longer
  <2> HIDE DEF more
  <2> QED BY <2>1, Zenon DEF Extends
<1>2. Nested(more)
  BY NestedAppend
<1>5. /\ rec \in Seq(Nat) /\ Len(rec) = Slot(calls, n)
      /\ stk \in Seq(Nat) /\ Len(stk) = Depth(calls, n) - 1 /\ Sized(calls, rec)
  BY DEF Recorded
<1>6. /\ rec2 \in Seq(Nat) /\ Len(rec2) = Len(rec) + 1 /\ \A i \in 1 .. Len(rec) : rec2[i] = rec[i]
      /\ stk2 \in Seq(Nat) /\ Len(stk2) = Len(stk) + 1 /\ \A i \in 1 .. Len(stk) : stk2[i] = stk[i]
      /\ stk2[Len(stk) + 1] = Len(rec) + 1
  BY <1>5, NatSeq
<1> HIDE DEF more, n, rec2, stk2
<1>3. Depth(more, n + 1) = Depth(calls, n) + 1
  <2>1. n + 1 \in 1 .. Len(more) /\ (n + 1) - 1 = n /\ n \in 0 .. n
    BY <1>1
  <2>2. Depth(more, n + 1) = Depth(more, (n + 1) - 1) + 1
    BY <1>1, <1>2, <2>1, DepthFacts
  <2>3. Depth(more, n) = Depth(calls, n)
    BY <1>1, <2>1
  <2> QED BY <2>1, <2>2, <2>3
<1>4. Slot(more, n + 1) = Slot(calls, n) + 1
  <2>1. n \in 0 .. n
    BY <1>1
  <2> QED BY <1>1, <2>1, SlotFacts
<1>d. \A k \in 0 .. n : Depth(calls, k) \in Nat /\ Depth(calls, k) >= 1
  BY <1>1, DepthFacts DEF n
<1>7. ASSUME NEW i \in 1 .. n + 1, more[i].op = "begin",
             \A j \in i .. n + 1 : Depth(more, j) >= Depth(more, i)
      PROVE  stk2[Depth(more, i) - 1] = Slot(more, i)
  <2>1. CASE i = n + 1
    <3>1. n \in 0 .. n
      BY <1>1
    <3>2. Depth(more, i) - 1 = Len(stk) + 1
      BY <1>3, <1>5, <1>d, <2>1, <3>1
    <3> QED BY <1>4, <1>5, <1>6, <2>1, <3>2
  <2>2. CASE i # n + 1
    <3>1. i \in 1 .. n /\ i \in 0 .. n /\ n \in i .. n /\ n \in 0 .. n /\ calls[i].op = "begin"
      BY <1>1, <1>7, <2>2
    <3>2. \A j \in i .. n : j \in i .. n + 1 /\ j \in 0 .. n
      BY <1>1, <3>1
    <3>3. \A j \in i .. n : Depth(calls, j) >= Depth(calls, i)
      BY <1>1, <1>7, <3>1, <3>2
    <3>4. stk[Depth(calls, i) - 1] = Slot(calls, i)
      BY <1>1, <3>1, <3>3 DEF Recorded, n
    <3>5. Depth(calls, i) = Depth(calls, i - 1) + 1 /\ i - 1 \in 0 .. n
      BY <1>1, <3>1, DepthFacts DEF n
    <3>6. Depth(calls, i) - 1 \in 1 .. Len(stk)
      <4>1. Depth(calls, i) \in Nat /\ Depth(calls, i - 1) \in Nat /\ Depth(calls, i - 1) >= 1
        BY <1>d, <3>1, <3>5
      <4>2. Depth(calls, n) \in Nat /\ Depth(calls, n) >= Depth(calls, i)
        BY <1>d, <3>1, <3>3
      <4> QED BY <1>5, <3>5, <4>1, <4>2
    <3> QED BY <1>1, <1>6, <3>1, <3>4, <3>6
  <2> QED BY <2>1, <2>2
<1>8. Sized(more, rec2)
  <2> SUFFICES ASSUME NEW e \in 1 .. n + 1, more[e].op = "end", NEW i \in 0 .. e - 1, Opener(more, i, e - 1)
               PROVE  rec2[Slot(more, i)] = Len(Open(more, e - 1)[Depth(more, e - 1)])
    BY <1>1 DEF Sized
  <2>1. e \in 1 .. n /\ e - 1 \in 0 .. n /\ i \in 0 .. n
    BY <1>1
  <2>2. calls[e].op = "end" /\ Opener(calls, i, e - 1)
    BY <1>1, <2>1
  <2>3. rec[Slot(calls, i)] = Len(Open(calls, e - 1)[Depth(calls, e - 1)])
    BY <1>5, <2>1, <2>2 DEF Sized, n
  <2>4. i \in 1 .. e - 1 /\ calls[i].op = "begin"
    BY <2>1, <2>2, OpenerBegins DEF n
  <2>5. i \in 1 .. n
    BY <1>1, <2>1, <2>4
  <2>6. Slot(calls, i) \in 1 .. Len(rec)
    BY <1>1, <1>5, <2>4, <2>5, SlotRange
  <2> QED BY <1>1, <1>6, <2>1, <2>3, <2>6
<1>9. Len(rec2) = Slot(more, n + 1) /\ Len(stk2) = Depth(more, n + 1) - 1
  <2>1. Depth(calls, n) \in Nat
    BY <1>1, <1>d
  <2> QED BY <1>3, <1>4, <1>5, <1>6, <2>1
<1> QED BY <1>1, <1>6, <1>7, <1>8, <1>9 DEF Recorded, more, rec2, stk2

\* The end of a region fills the slot on top of the stack, which is its own.
LEMMA RecordedEnd ==
  ASSUME NEW calls \in Seq(Ops), NEW op \in Ops, Nested(calls), op.op = "end",
         Depth(calls, Len(calls)) >= 2, NEW rec, NEW stk, Recorded(calls, rec, stk),
         NEW len \in Nat, len = Len(Open(calls, Len(calls))[Depth(calls, Len(calls))])
  PROVE  Recorded(Append(calls, op), [rec EXCEPT ![Last(stk)] = len], Front(stk))
<1> DEFINE n == Len(calls)
           more == Append(calls, op)
           r == Last(stk)
           rec2 == [rec EXCEPT ![r] = len]
           stk2 == Front(stk)
<1>1. /\ more \in Seq(Ops) /\ Len(more) = n + 1 /\ more[n + 1] = op /\ n \in Nat
      /\ \A i \in 1 .. n : more[i] = calls[i]
      /\ \A k \in 0 .. n : /\ Open(more, k) = Open(calls, k)
                           /\ Depth(more, k) = Depth(calls, k)
                           /\ Slot(more, k) = Slot(calls, k)
                           /\ \A i \in 0 .. k : Opener(more, i, k) <=> Opener(calls, i, k)
  <2>1. Extends(calls, op, more)
    BY Longer
  <2> HIDE DEF more
  <2> QED BY <2>1, Zenon DEF Extends
<1>2. Nested(more)
  BY NestedAppend
<1>3. /\ rec \in Seq(Nat) /\ Len(rec) = Slot(calls, n)
      /\ stk \in Seq(Nat) /\ Len(stk) = Depth(calls, n) - 1 /\ Sized(calls, rec)
  BY DEF Recorded
<1>4. \A k \in 0 .. n : Depth(calls, k) \in Nat /\ Depth(calls, k) >= 1
  BY DepthFacts
<1>5. Len(stk) >= 1 /\ n \in 0 .. n /\ Depth(calls, n) \in Nat
  BY <1>1, <1>3, <1>4
<1>6. /\ stk2 \in Seq(Nat) /\ Len(stk2) = Len(stk) - 1 /\ \A i \in 1 .. Len(stk) - 1 : stk2[i] = stk[i]
      /\ r = stk[Len(stk)]
  <2>1. stk # <<>> /\ 0 \in Nat
    BY <1>5
  <2> QED BY <1>3, <2>1, NatSeq
<1>7. PICK o \in 0 .. n : Opener(calls, o, n)
  BY <1>5, OpenerExists
<1>8. /\ Depth(calls, o) = Depth(calls, n) /\ \A j \in o .. n : Depth(calls, j) >= Depth(calls, o)
      /\ o \in 1 .. n /\ calls[o].op = "begin"
  <2>1. /\ Depth(calls, o) = Depth(calls, n) /\ \A j \in o .. n : Depth(calls, j) >= Depth(calls, o)
        /\ (o = 0 \/ calls[o].op = "begin")
    BY <1>7 DEF Opener
  <2>2. Depth(calls, 0) = 1
    BY DepthFacts
  <2>3. o # 0
    BY <2>1, <2>2
  <2> QED BY <1>1, <2>1, <2>3
<1>9. r = Slot(calls, o) /\ r \in 1 .. Len(rec)
  <2>1. stk[Depth(calls, o) - 1] = Slot(calls, o)
    BY <1>8 DEF Recorded
  <2>2. Slot(calls, o) \in 1 .. Slot(calls, n)
    BY <1>1, <1>8, SlotRange
  <2> QED BY <1>3, <1>6, <1>8, <2>1, <2>2
<1> HIDE DEF n, more, r, stk2
<1>10. rec2 \in Seq(Nat) /\ Len(rec2) = Len(rec) /\ rec2[r] = len /\ \A i \in 1 .. Len(rec) : i # r => rec2[i] = rec[i]
  BY <1>3, <1>9
<1> HIDE DEF rec2
<1>11. Depth(more, n + 1) = Depth(calls, n) - 1
  <2>1. n + 1 \in 1 .. Len(more) /\ (n + 1) - 1 = n
    BY <1>1
  <2>2. Depth(more, n + 1) = Depth(more, (n + 1) - 1) - 1
    BY <1>1, <1>2, <2>1, DepthFacts
  <2>3. Depth(more, n) = Depth(calls, n)
    BY <1>1, <1>5
  <2> QED BY <2>1, <2>2, <2>3
<1>12. Slot(more, n + 1) = Slot(calls, n)
  BY <1>1, <1>5, SlotFacts
<1>13. ASSUME NEW i \in 1 .. n + 1, more[i].op = "begin",
             \A j \in i .. n + 1 : Depth(more, j) >= Depth(more, i)
       PROVE  stk2[Depth(more, i) - 1] = Slot(more, i)
  <2>1. i \in 1 .. n /\ i \in 0 .. n /\ calls[i].op = "begin" /\ n + 1 \in i .. n + 1
    BY <1>1, <1>13
  <2>2. \A j \in i .. n : j \in i .. n + 1 /\ j \in 0 .. n
    BY <1>1, <2>1
  <2>3. \A j \in i .. n : Depth(calls, j) >= Depth(calls, i)
    BY <1>1, <1>13, <2>1, <2>2
  <2>4. stk[Depth(calls, i) - 1] = Slot(calls, i)
    BY <1>1, <2>1, <2>3 DEF Recorded, n
  <2>5. Depth(calls, i) = Depth(calls, i - 1) + 1 /\ i - 1 \in 0 .. n
    BY <1>1, <2>1, DepthFacts DEF n
  <2>6. Depth(calls, i) - 1 \in 1 .. Len(stk) - 1
    <3>1. Depth(calls, i) \in Nat /\ Depth(calls, i - 1) \in Nat /\ Depth(calls, i - 1) >= 1
      BY <1>4, <2>1, <2>5
    <3>2. Depth(calls, n) - 1 >= Depth(calls, i)
      BY <1>1, <1>11, <1>13, <2>1
    <3> DEFINE x == Depth(calls, i)
               y == Depth(calls, i - 1)
               z == Depth(calls, n)
               l == Len(stk)
    <3>3. x = y + 1 /\ y >= 1 /\ y \in Nat /\ z - 1 >= x /\ l = z - 1 /\ z \in Nat
      BY <1>3, <1>5, <2>5, <3>1, <3>2
    <3> HIDE DEF x, y, z, l
    <3>4. x - 1 \in 1 .. l - 1
      BY <3>3
    <3> QED BY <3>4 DEF x, l
  <2> QED BY <1>1, <1>6, <2>1, <2>4, <2>6
<1>14. Sized(more, rec2)
  <2> SUFFICES ASSUME NEW e \in 1 .. n + 1, more[e].op = "end", NEW i \in 0 .. e - 1, Opener(more, i, e - 1)
               PROVE  rec2[Slot(more, i)] = Len(Open(more, e - 1)[Depth(more, e - 1)])
    BY <1>1 DEF Sized
  <2>1. e - 1 \in 0 .. n /\ i \in 0 .. n
    BY <1>1
  <2>2. Opener(calls, i, e - 1)
    BY <1>1, <2>1
  <2>3. CASE e = n + 1
    <3>1. e - 1 = n
      BY <1>1, <2>3
    <3>2. i = o
      <4>1. Opener(calls, i, n)
        BY <2>2, <3>1
      <4>2. n \in 0 .. Len(calls)
        BY <1>5 DEF n
      <4> QED BY <1>7, <4>1, <4>2, OpenerUnique
    <3>3. Slot(more, i) = r
      BY <1>1, <1>9, <2>1, <3>2
    <3>4. Open(more, n) = Open(calls, n) /\ Depth(more, n) = Depth(calls, n)
      BY <1>1, <1>5
    <3> QED BY <1>10, <3>1, <3>3, <3>4 DEF n
  <2>4. CASE e # n + 1
    <3>1. e \in 1 .. n
      BY <1>1, <2>4
    <3>2. calls[e].op = "end"
      BY <1>1, <3>1
    <3>3. rec[Slot(calls, i)] = Len(Open(calls, e - 1)[Depth(calls, e - 1)])
      BY <1>3, <2>2, <3>1, <3>2 DEF Sized, n
    <3>4. i \in 1 .. e - 1 /\ calls[i].op = "begin"
      BY <2>2, <3>1, <3>2, OpenerBegins DEF n
    <3>5. i \in 1 .. n
      BY <1>1, <3>1, <3>4
    <3>6. Slot(calls, i) \in 1 .. Len(rec)
      BY <1>1, <1>3, <3>4, <3>5, SlotRange
    <3>7. i # o
      <4> SUFFICES ASSUME i = o PROVE FALSE
        OBVIOUS
      <4>1. Depth(calls, e) = Depth(calls, e - 1) - 1
        BY <3>1, <3>2, DepthFacts DEF n
      <4>2. Depth(calls, e - 1) = Depth(calls, i)
        BY <2>2 DEF Opener
      <4>3. e \in o .. n /\ e \in 0 .. n
        BY <1>1, <3>1, <3>4
      <4>4. Depth(calls, e) >= Depth(calls, o) /\ Depth(calls, o) \in Nat /\ Depth(calls, e) \in Nat
        BY <1>4, <1>8, <3>5, <4>3
      <4> QED BY <4>1, <4>2, <4>4
    <3>8. Slot(calls, i) # r
      BY <1>8, <1>9, <3>4, <3>5, <3>7, SlotsDiffer
    <3> QED BY <1>1, <1>10, <2>1, <3>3, <3>6, <3>8
  <2> QED BY <2>3, <2>4
<1>15. Len(rec2) = Slot(more, n + 1) /\ Len(stk2) = Depth(more, n + 1) - 1
  BY <1>3, <1>5, <1>6, <1>10, <1>11, <1>12
<1> QED BY <1>1, <1>6, <1>10, <1>13, <1>14, <1>15 DEF Recorded, more, rec2, stk2, r

-----------------------------------------------------------------------------
(* The Writer's methods, mode by mode.                                     *)

\* A set of numbers below a bound has a largest element, and Max is it.
LEMMA MaxOf ==
  ASSUME NEW N \in Nat, NEW S, S \subseteq 0 .. N, S # {}
  PROVE  Max(S) \in S /\ Max(S) \in 0 .. N
<1> DEFINE T == {k \in Nat : N - k \in S}
<1>1. PICK x \in S : TRUE
  OBVIOUS
<1>2. N - x \in T
  <2>1. x \in 0 .. N /\ N - x \in Nat /\ N - (N - x) = x
    OBVIOUS
  <2> QED BY <2>1
<1>3. T \subseteq Nat /\ T # {}
  BY <1>2
<1> HIDE DEF T
<1>4. PICK k \in T : \A m \in T : k <= m
  BY <1>3, Least
<1>5. k \in Nat /\ N - k \in S
  BY <1>4 DEF T
<1>6. \A y \in S : N - k >= y
  <2> SUFFICES ASSUME NEW y \in S PROVE N - k >= y
    OBVIOUS
  <2>1. y \in 0 .. N /\ N - y \in Nat /\ N - (N - y) = y
    OBVIOUS
  <2>2. N - y \in T
    BY <2>1 DEF T
  <2>3. k <= N - y
    BY <1>4, <2>2
  <2> QED BY <1>5, <2>1, <2>3
<1>7. Max(S) \in S
  <2>1. \E z \in S : \A y \in S : z >= y
    BY <1>5, <1>6
  <2> QED BY <2>1 DEF Max
<1> QED BY <1>7

\* Which of the three modes a Writer is in.
LEMMA Modes ==
  /\ phase = "size" => mode = "size"
  /\ phase # "size" /\ ~compresses(method) => mode = "buffered"
  /\ phase # "size" /\ compresses(method) => mode = "stream"
BY DEF mode

\* The length of what a call appends.
LEMMA OpLength ==
  ASSUME NEW op \in Ops, op.op \notin {"begin", "end"}
  PROVE  /\ op.b \in Bytes /\ OpBytes(op) \in Bytes /\ Len(op.b) \in Nat /\ varintLen[Len(op.b)] \in Nat
         /\ appendUvarint[Len(op.b)] \in Bytes
         /\ Len(OpBytes(op)) = IF op.op \in {"bytes", "cached"} THEN varintLen[Len(op.b)] + Len(op.b)
                               ELSE Len(op.b)
         /\ op.op = "presence" => Len(OpBytes(op)) = 1
<1>1. /\ op.b \in Bytes /\ OpBytes(op) \in Bytes /\ (op.op = "presence" => Len(op.b) = 1)
  BY OpFacts
<1> DEFINE k == Len(op.b)
           t == appendUvarint[k]
<1>2. k \in Nat
  BY <1>1, BytesCat
<1> HIDE DEF k
<1>3. t \in Bytes /\ Len(t) = varintLen[k] /\ varintLen[k] \in Nat
  BY <1>2, Uvarint, VarintLen DEF Bytes
<1> HIDE DEF t
<1>4. Len(t \o op.b) = varintLen[k] + k
  BY <1>1, <1>3, BytesCat DEF k
<1>5. OpBytes(op) = IF op.op \in {"bytes", "cached"} THEN t \o op.b ELSE op.b
  BY DEF OpBytes, t, k
<1>6. Len(OpBytes(op)) = IF op.op \in {"bytes", "cached"} THEN varintLen[k] + k ELSE k
  BY <1>4, <1>5 DEF k
<1> QED BY <1>1, <1>2, <1>3, <1>6 DEF k, t

\* A call over the counting Writer.
LEMMA DoSize ==
  ASSUME NEW op \in Ops, NEW v, Do(op, v), phase = "size", sizeAcc \in Nat,
         op.op = "cached" => v = op.b
  PROVE  /\ UNCHANGED <<buf, enc, err, sizeIdx>> /\ err = "nil"
         /\ op.op \notin {"begin", "end"} =>
              sizeAcc' = sizeAcc + Len(OpBytes(op)) /\ UNCHANGED <<recorded, stack, markers>>
         /\ op.op = "begin" =>
              /\ sizeAcc' = sizeAcc /\ markers' = Append(markers, sizeAcc)
              /\ compresses(method) =>
                   recorded' = Append(recorded, 0) /\ stack' = Append(stack, Len(recorded) + 1)
         /\ op.op = "end" =>
              /\ sizeAcc' = sizeAcc + varintLen[sizeAcc - Last(markers)] /\ markers' = Front(markers)
              /\ compresses(method) =>
                   /\ recorded' = [recorded EXCEPT ![Last(stack)] = sizeAcc - Last(markers)]
                   /\ stack' = Front(stack)
<1>0. mode = "size" /\ err = "nil"
  BY Modes DEF Do
<1>1. op.op \in {"write", "presence", "bytes", "cached", "begin", "end"}
  BY OpFacts
<1>2. CASE op.op = "write"
  <2>1. Write(op.b) /\ UNCHANGED regionVars
    BY <1>2 DEF Do
  <2>2. sizeAcc' = sizeAcc + Len(op.b) /\ UNCHANGED <<buf, enc, err, recorded, stack, sizeIdx, markers>>
    BY <1>0, <2>1 DEF Write, regionVars
  <2>3. Len(OpBytes(op)) = Len(op.b)
    BY <1>2, OpLength
  <2> QED BY <1>0, <1>2, <2>2, <2>3
<1>3. CASE op.op = "presence"
  <2>1. WritePresence(op.b) /\ UNCHANGED regionVars
    BY <1>3 DEF Do
  <2>2. sizeAcc' = sizeAcc + 1 /\ UNCHANGED <<buf, enc, err, recorded, stack, sizeIdx, markers>>
    BY <1>0, <2>1 DEF WritePresence, regionVars
  <2>3. Len(OpBytes(op)) = 1
    BY <1>3, OpLength
  <2> QED BY <1>0, <1>3, <2>2, <2>3
<1>4. CASE op.op \in {"bytes", "cached"}
  <2>1. WriteBytes(op.b) /\ UNCHANGED regionVars
    BY <1>4 DEF Do, WriteCached
  <2>2. /\ sizeAcc' = sizeAcc + varintLen[Len(op.b)] + Len(op.b)
        /\ UNCHANGED <<buf, enc, err, recorded, stack, sizeIdx, markers>>
    BY <1>0, <2>1 DEF WriteBytes, regionVars
  <2>3. Len(OpBytes(op)) = varintLen[Len(op.b)] + Len(op.b) /\ varintLen[Len(op.b)] \in Nat /\ Len(op.b) \in Nat
    BY <1>4, OpLength
  <2>4. sizeAcc' = sizeAcc + Len(OpBytes(op))
    BY <2>2, <2>3
  <2> QED BY <1>0, <1>4, <2>2, <2>4
<1>5. CASE op.op = "begin"
  <2>1. BeginLengthDelim /\ sizeAcc' = sizeAcc
    BY <1>5 DEF Do
  <2> QED BY <1>0, <1>5, <2>1 DEF BeginLengthDelim
<1>6. CASE op.op = "end"
  <2>1. EndLengthDelim
    BY <1>6 DEF Do
  <2> QED BY <1>0, <1>6, <2>1 DEF EndLengthDelim, EndRegion
<1> QED BY <1>1, <1>2, <1>3, <1>4, <1>5, <1>6

\* A call over the buffered Writer.
LEMMA DoBuffered ==
  ASSUME NEW op \in Ops, NEW v, Do(op, v), mode = "buffered", buf \in Bytes,
         op.op = "cached" => v = op.b
  PROVE  /\ UNCHANGED <<enc, sizeAcc, recorded, stack, sizeIdx>> /\ err = "nil"
         /\ err' \in {"nil", "ErrBodyTooLarge"}
         /\ op.op \notin {"begin", "end"} => buf' = buf \o OpBytes(op) /\ markers' = markers
         /\ op.op = "begin" => /\ markers' = Append(markers, Len(buf))
                               /\ buf' = buf \o [i \in 1 .. ReservedLen |-> 0]
         /\ op.op = "end" =>
              /\ markers' = Front(markers)
              /\ err' = "nil" =>
                   buf' = SubSeq(buf, 1, Last(markers))
                            \o appendUvarint[Len(buf) - Last(markers) - ReservedLen]
                            \o SubSeq(buf, Last(markers) + ReservedLen + 1, Len(buf))
<1>0. mode = "buffered" /\ err = "nil"
  BY DEF Do
<1>1. op.op \in {"write", "presence", "bytes", "cached", "begin", "end"}
  BY OpFacts
<1>2. CASE op.op = "write"
  <2>1. Write(op.b) /\ UNCHANGED regionVars
    BY <1>2 DEF Do
  <2>2. buf' = buf \o op.b /\ UNCHANGED <<sizeAcc, enc, err, recorded, stack, sizeIdx, markers>>
    BY <1>0, <2>1 DEF Write, regionVars
  <2>3. OpBytes(op) = op.b
    BY <1>2 DEF OpBytes
  <2> QED BY <1>0, <1>2, <2>2, <2>3
<1>3. CASE op.op = "presence"
  <2>1. WritePresence(op.b) /\ UNCHANGED regionVars
    BY <1>3 DEF Do
  <2>2. buf' = buf \o op.b /\ UNCHANGED <<sizeAcc, enc, err, recorded, stack, sizeIdx, markers>>
    BY <1>0, <2>1 DEF WritePresence, regionVars
  <2>3. OpBytes(op) = op.b
    BY <1>3 DEF OpBytes
  <2> QED BY <1>0, <1>3, <2>2, <2>3
<1>4. CASE op.op \in {"bytes", "cached"}
  <2>1. WriteBytes(op.b) /\ UNCHANGED regionVars
    BY <1>4 DEF Do, WriteCached
  <2>2. /\ buf' = buf \o appendUvarint[Len(op.b)] \o op.b
        /\ UNCHANGED <<sizeAcc, enc, err, recorded, stack, sizeIdx, markers>>
    BY <1>0, <2>1 DEF WriteBytes, regionVars
  <2>3. OpBytes(op) = appendUvarint[Len(op.b)] \o op.b
    BY <1>4 DEF OpBytes
  <2>4. appendUvarint[Len(op.b)] \in Bytes /\ op.b \in Bytes
    BY <1>4, OpLength
  <2>5. buf \o appendUvarint[Len(op.b)] \o op.b = buf \o (appendUvarint[Len(op.b)] \o op.b)
    BY <2>4, BytesCat, Zenon
  <2> QED BY <1>0, <1>4, <2>2, <2>3, <2>5
<1>5. CASE op.op = "begin"
  <2>1. BeginLengthDelim /\ sizeAcc' = sizeAcc
    BY <1>5 DEF Do
  <2> QED BY <1>0, <1>5, <2>1 DEF BeginLengthDelim
<1>6. CASE op.op = "end"
  <2>1. EndLengthDelim
    BY <1>6 DEF Do
  <2> QED BY <1>0, <1>6, <2>1 DEF EndLengthDelim, EndRegion
<1> QED BY <1>1, <1>2, <1>3, <1>4, <1>5, <1>6

\* A flush moves bytes from the buffer to the compressor and changes nothing else.
Streamed(p) ==
  err' = "nil" => enc' \in Bytes /\ buf' \in Bytes /\ enc' \o buf' = (enc \o buf) \o p

\* afterWrite streams what was appended.
LEMMA AfterWriteStreams ==
  ASSUME NEW p \in Bytes, enc \in Bytes, buf \in Bytes, err = "nil", afterWrite(buf \o p)
  PROVE  Streamed(p) /\ err' \in {"nil", "ErrTarget"}
<1> DEFINE b == buf \o p
<1>1. b \in Bytes /\ enc \o b \in Bytes /\ (enc \o buf) \o p = enc \o b
  BY BytesCat, Zenon
<1>2. (enc \o b) \o <<>> = enc \o b /\ <<>> \in Bytes
  BY <1>1, BytesCat, Zenon
<1> HIDE DEF b
<1>3. \/ buf' = b /\ enc' = enc /\ err' = err
      \/ buf' = <<>> /\ enc' = enc \o b /\ err' = err
      \/ err' = "ErrTarget"
  BY DEF afterWrite, b
<1>4. CASE buf' = b /\ enc' = enc /\ err' = err
  BY <1>1, <1>4 DEF Streamed
<1>5. CASE buf' = <<>> /\ enc' = enc \o b /\ err' = err
  BY <1>1, <1>2, <1>5 DEF Streamed
<1>6. CASE err' = "ErrTarget"
  BY <1>6 DEF Streamed
<1> QED BY <1>3, <1>4, <1>5, <1>6

\* writeChunked streams the length prefix and the payload, wherever it flushes.
LEMMA ChunkedStreams ==
  ASSUME NEW t \in Bytes, NEW s \in Bytes, enc \in Bytes, buf \in Bytes, err = "nil",
         writeChunked(buf \o t, s)
  PROVE  Streamed(t \o s) /\ err' \in {"nil", "ErrTarget"}
<1> DEFINE b == buf \o t
           all == b \o s
           N == Len(all)
           S == {0} \cup {f \in FlushPoints(b, s) : f < N + 1}
           last == Max(S)
<1>1. b \in Bytes /\ all \in Bytes /\ N \in Nat
  BY BytesCat, Zenon
<1>2. (enc \o buf) \o (t \o s) = enc \o all
  <2>1. t \o s \in Bytes /\ b = buf \o t
    BY BytesCat, Zenon
  <2>2. (enc \o buf) \o (t \o s) = enc \o (buf \o (t \o s))
    BY <2>1, BytesCat, Zenon
  <2>3. buf \o (t \o s) = (buf \o t) \o s
    BY BytesCat, Zenon
  <2> QED BY <2>2, <2>3
<1>3. \/ /\ enc' = enc \o SubSeq(all, 1, last) /\ buf' = SubSeq(all, last + 1, N) /\ err' = err
      \/ err' = "ErrTarget"
  BY DEF writeChunked
<1>4. last \in 0 .. N
  <2>1. FlushPoints(b, s) \subseteq 1 .. N
    BY DEF FlushPoints
  <2> HIDE DEF N
  <2>2. S \subseteq 0 .. N /\ S # {}
    BY <1>1, <2>1
  <2> HIDE DEF S
  <2> QED BY <1>1, <2>2, MaxOf
<1> HIDE DEF last
<1>5. ASSUME NEW a \in Seq(Byte), NEW m \in 0 .. Len(a)
      PROVE  /\ SubSeq(a, 1, m) \in Seq(Byte) /\ SubSeq(a, m + 1, Len(a)) \in Seq(Byte)
             /\ SubSeq(a, 1, m) \o SubSeq(a, m + 1, Len(a)) = a
  <2> DEFINE x == SubSeq(a, 1, m)
             y == SubSeq(a, m + 1, Len(a))
  <2>1. x \in Seq(Byte) /\ Len(x) = m /\ \A i \in 1 .. m : x[i] = a[i]
    <3>1. x \in Seq(Byte)
      OBVIOUS
    <3>2. Len(x) = m /\ \A i \in 1 .. m : x[i] = a[i]
      OBVIOUS
    <3> QED BY <3>1, <3>2
  <2>2. y \in Seq(Byte) /\ Len(y) = Len(a) - m /\ \A i \in 1 .. Len(a) - m : y[i] = a[m + i]
    BY Slice
  <2> HIDE DEF x, y
  <2>3. x \o y \in Seq(Byte) /\ Len(x \o y) = Len(x) + Len(y)
    BY <2>1, <2>2, Cat
  <2>4. \A i \in 1 .. Len(x) + Len(y) : (x \o y)[i] = IF i <= Len(x) THEN x[i] ELSE y[i - Len(x)]
    BY <2>1, <2>2, CatAt
  <2> DEFINE z == x \o y
  <2> HIDE DEF z
  <2>5. Len(z) = Len(a) /\ z \in Seq(Byte)
    BY <2>1, <2>2, <2>3 DEF z
  <2>6. ASSUME NEW i \in 1 .. Len(z) PROVE z[i] = a[i]
    <3>1. i \in 1 .. Len(x) + Len(y)
      BY <2>1, <2>2, <2>5
    <3>2. z[i] = IF i <= m THEN x[i] ELSE y[i - m]
      BY <2>1, <2>4, <3>1 DEF z
    <3>3. CASE i <= m
      BY <2>1, <3>2, <3>3
    <3>4. CASE ~(i <= m)
      <4>1. i - m \in 1 .. Len(a) - m /\ m + (i - m) = i
        BY <2>5, <3>4
      <4> QED BY <2>2, <3>2, <3>4, <4>1
    <3> QED BY <3>3, <3>4
  <2>7. z = a
    BY <2>5, <2>6, SameSeq
  <2> QED BY <2>1, <2>2, <2>7 DEF x, y, z
<1> DEFINE x == SubSeq(all, 1, last)
           y == SubSeq(all, last + 1, N)
<1>6. x \in Bytes /\ y \in Bytes /\ x \o y = all
  BY <1>1, <1>4, <1>5 DEF Bytes
<1> HIDE DEF x, y
<1>7. enc \o x \in Bytes /\ (enc \o x) \o y = enc \o (x \o y)
  BY <1>6, BytesCat, Zenon
<1>8. CASE enc' = enc \o x /\ buf' = y /\ err' = err
  BY <1>2, <1>6, <1>7, <1>8 DEF Streamed
<1>9. CASE err' = "ErrTarget"
  BY <1>9 DEF Streamed
<1> QED BY <1>3, <1>8, <1>9 DEF x, y

\* A call over the streaming Writer.
LEMMA DoStream ==
  ASSUME NEW op \in Ops, NEW v, Do(op, v), mode = "stream", buf \in Bytes, enc \in Bytes,
         recorded \in Seq(Nat), sizeIdx \in Nat, op.op = "cached" => v = op.b
  PROVE  /\ UNCHANGED <<sizeAcc, recorded, stack>> /\ err = "nil"
         /\ err' \in {"nil", "ErrTarget", "ErrTruncated"}
         /\ op.op \notin {"begin", "end"} => Streamed(OpBytes(op)) /\ sizeIdx' = sizeIdx
         /\ op.op = "begin" /\ err' = "nil" =>
              /\ sizeIdx < Len(recorded) /\ sizeIdx' = sizeIdx + 1
              /\ Streamed(appendUvarint[recorded[sizeIdx + 1]])
         /\ op.op = "end" => UNCHANGED <<buf, enc, sizeIdx, err>>
<1>0. mode = "stream" /\ err = "nil"
  BY DEF Do
<1>1. op.op \in {"write", "presence", "bytes", "cached", "begin", "end"}
  BY OpFacts
<1>2. CASE op.op = "write"
  <2>1. Write(op.b) /\ UNCHANGED regionVars
    BY <1>2 DEF Do
  <2>2. afterWrite(buf \o op.b) /\ UNCHANGED <<sizeAcc, recorded, stack, sizeIdx>>
    BY <1>0, <2>1 DEF Write, regionVars
  <2>3. OpBytes(op) = op.b /\ op.b \in Bytes
    BY <1>2, OpLength DEF OpBytes
  <2>4. Streamed(op.b) /\ err' \in {"nil", "ErrTarget"}
    BY <1>0, <2>2, <2>3, AfterWriteStreams
  <2> QED BY <1>0, <1>2, <2>2, <2>3, <2>4
<1>3. CASE op.op = "presence"
  <2>1. WritePresence(op.b) /\ UNCHANGED regionVars
    BY <1>3 DEF Do
  <2>2. buf' = buf \o op.b /\ UNCHANGED <<sizeAcc, enc, err, recorded, stack, sizeIdx>>
    BY <1>0, <2>1 DEF WritePresence, regionVars
  <2>3. OpBytes(op) = op.b /\ op.b \in Bytes
    BY <1>3, OpLength DEF OpBytes
  <2>4. buf \o op.b \in Bytes /\ enc \o (buf \o op.b) = (enc \o buf) \o op.b
    BY <2>3, BytesCat, Zenon
  <2>5. Streamed(op.b)
    BY <2>2, <2>4 DEF Streamed
  <2> QED BY <1>0, <1>3, <2>2, <2>3, <2>5
<1>4. CASE op.op \in {"bytes", "cached"}
  <2> DEFINE t == appendUvarint[Len(op.b)]
  <2>1. WriteBytes(op.b) /\ UNCHANGED regionVars
    BY <1>4 DEF Do, WriteCached
  <2>2. writeChunked(buf \o t, op.b) /\ UNCHANGED <<sizeAcc, recorded, stack, sizeIdx>>
    BY <1>0, <2>1 DEF WriteBytes, regionVars
  <2>3. OpBytes(op) = t \o op.b
    BY <1>4 DEF OpBytes
  <2>4. t \in Bytes /\ op.b \in Bytes
    BY <1>4, OpLength
  <2>5. Streamed(t \o op.b) /\ err' \in {"nil", "ErrTarget"}
    BY <1>0, <2>2, <2>4, ChunkedStreams
  <2> QED BY <1>0, <1>4, <2>2, <2>3, <2>5
<1>5. CASE op.op = "begin"
  <2>1. BeginLengthDelim /\ sizeAcc' = sizeAcc
    BY <1>5 DEF Do
  <2>2. /\ UNCHANGED <<recorded, stack>>
        /\ \/ sizeIdx >= Len(recorded) /\ err' = "ErrTruncated"
           \/ /\ ~(sizeIdx >= Len(recorded)) /\ sizeIdx' = sizeIdx + 1
              /\ afterWrite(buf \o appendUvarint[recorded[sizeIdx + 1]])
    BY <1>0, <2>1 DEF BeginLengthDelim
  <2>3. CASE err' = "ErrTruncated"
    BY <1>0, <1>5, <2>1, <2>2, <2>3
  <2>4. CASE /\ ~(sizeIdx >= Len(recorded)) /\ sizeIdx' = sizeIdx + 1
             /\ afterWrite(buf \o appendUvarint[recorded[sizeIdx + 1]])
    <3>1. sizeIdx < Len(recorded) /\ sizeIdx + 1 \in 1 .. Len(recorded)
      BY <2>4
    <3>2. recorded[sizeIdx + 1] \in Nat
      BY <3>1, ElementOf
    <3>3. appendUvarint[recorded[sizeIdx + 1]] \in Bytes
      BY <3>2, Uvarint DEF Bytes
    <3>4. Streamed(appendUvarint[recorded[sizeIdx + 1]]) /\ err' \in {"nil", "ErrTarget"}
      BY <1>0, <2>4, <3>3, AfterWriteStreams
    <3> QED BY <1>0, <1>5, <2>1, <2>2, <2>4, <3>1, <3>4
  <2> QED BY <2>2, <2>3, <2>4
<1>6. CASE op.op = "end"
  <2>1. EndLengthDelim
    BY <1>6 DEF Do
  <2> QED BY <1>0, <1>6, <2>1 DEF EndLengthDelim, EndRegion
<1> QED BY <1>1, <1>2, <1>3, <1>4, <1>5, <1>6

-----------------------------------------------------------------------------
(* The cache holds what the second pass needs.                             *)

\* The place of a cached call among those of its slot.
LEMMA CachedIndex ==
  ASSUME NEW calls, NEW n \in Nat, NEW i \in 1 .. n, calls[i].op = "cached"
  PROVE  Cardinality(CachedAt(calls, calls[i].slot, i))
           \in 1 .. Cardinality(CachedAt(calls, calls[i].slot, n))
<1> DEFINE m == i - 1
           s == calls[i].slot
           x == Cardinality(CachedAt(calls, s, m))
           y == Cardinality(CachedAt(calls, s, i))
           z == Cardinality(CachedAt(calls, s, n))
<1>1. m \in Nat /\ m < n /\ m + 1 = i
  OBVIOUS
<1> HIDE DEF m
<1>2. x \in Nat /\ y = x + 1
  BY <1>1, CountNext
<1>3. x < z
  BY <1>1, CountBelow
<1>4. z \in Nat
  BY CountNext
<1> HIDE DEF x, y, z
<1>5. y \in 1 .. z
  BY <1>2, <1>3, <1>4
<1> QED BY <1>5 DEF y, z

\* A cached call finds its value under the cursor, or leaves it there.
LEMMA DoCachedValue ==
  ASSUME Types, NEW op \in Ops, op.op = "cached", NEW v \in Payloads, Do(op, v),
         NEW e, e = scratch[op.slot]
  PROVE  /\ op.slot \in Slots /\ e.values \in Seq(Payloads) /\ e.idx \in Nat
         /\ \A s \in Slots : s # op.slot => scratch'[s] = scratch[s]
         /\ IF e.idx < Len(e.values)
            THEN v = e.values[e.idx + 1] /\ scratch'[op.slot].values = e.values
            ELSE scratch'[op.slot].values = Append(e.values, v)
<1>1. WriteCached(op.slot, v) /\ op.slot \in Slots
  BY DEF Do, Ops
<1> DEFINE vs == IF e.idx < Len(e.values) THEN e.values ELSE Append(e.values, v)
           n == [values |-> vs, idx |-> e.idx + 1]
<1>2. scratch' = [scratch EXCEPT ![op.slot] = n] /\ (e.idx < Len(e.values) => v = e.values[e.idx + 1])
  BY <1>1 DEF WriteCached
<1>3. e.values \in Seq(Payloads) /\ e.idx \in Nat /\ scratch \in [Slots -> [values : Seq(Payloads), idx : Nat]]
  BY <1>1 DEF Types
<1> HIDE DEF vs
<1>4. n.values = vs
  OBVIOUS
<1> HIDE DEF n
<1>5. scratch'[op.slot] = n /\ \A s \in Slots : s # op.slot => scratch'[s] = scratch[s]
  BY <1>1, <1>2, <1>3
<1> QED BY <1>1, <1>2, <1>3, <1>4, <1>5 DEF vs

\* The first pass fills the cache in the order of the calls.
LEMMA CallFillsCache ==
  ASSUME IInv, CacheHolds, NEW op \in Ops, Call(op)
  PROVE  CacheHolds'
<1> DEFINE n == Len(script)
           v == IF op.op = "cached" THEN op.b ELSE <<>>
<1>1. /\ phase \in {"size", "manual"} /\ Do(op, v) /\ script' = Append(script, op)
  BY DEF Call
<1>2. Types /\ script \in Seq(Ops) /\ n \in Nat
  BY DEF IInv, Types
<1>3. /\ Len(script') = n + 1 /\ script'[n + 1] = op /\ \A i \in 1 .. n : script'[i] = script[i]
  BY <1>1, <1>2
<1>4. \A s \in Slots : /\ Len(scratch[s].values) = scratch[s].idx
                       /\ scratch[s].idx = Cardinality(CachedAt(script, s, n))
                       /\ scratch[s].values \in Seq(Payloads)
  BY <1>1 DEF IInv, Cursors, Types
<1>5. /\ op.op # "cached" => scratch' = scratch
      /\ op.op = "cached" =>
           /\ op.slot \in Slots /\ \A s \in Slots : s # op.slot => scratch'[s] = scratch[s]
           /\ scratch'[op.slot].values = Append(scratch[op.slot].values, op.b)
           /\ op.b \in Payloads
  <2>1. CASE op.op # "cached"
    <3>1. UNCHANGED cacheVars
      BY <1>1, <2>1 DEF Do
    <3> QED BY <2>1, <3>1 DEF cacheVars
  <2>2. CASE op.op = "cached"
    <3>1. op.b \in Payloads /\ Do(op, op.b)
      BY <1>1, <2>2 DEF Ops
    <3> DEFINE e == scratch[op.slot]
    <3>2. /\ op.slot \in Slots /\ \A s \in Slots : s # op.slot => scratch'[s] = scratch[s]
          /\ IF e.idx < Len(e.values) THEN scratch'[op.slot].values = e.values
             ELSE scratch'[op.slot].values = Append(e.values, op.b)
      BY <1>2, <2>2, <3>1, DoCachedValue
    <3>3. ~(e.idx < Len(e.values))
      BY <1>2, <1>4, <3>2 DEF Types
    <3> QED BY <2>2, <3>1, <3>2, <3>3
  <2> QED BY <2>1, <2>2
<1> HIDE DEF n, v
<1> SUFFICES ASSUME NEW i \in 1 .. n + 1, script'[i].op = "cached"
             PROVE  scratch'[script'[i].slot].values[Cardinality(CachedAt(script', script'[i].slot, i))]
                      = script'[i].b
  BY <1>3 DEF CacheHolds
<1>6. CASE i = n + 1
  <2>1. op.op = "cached" /\ script'[i] = op
    BY <1>3, <1>6
  <2>2. CachedAt(script', op.slot, n) = CachedAt(script, op.slot, n)
    BY <1>2, <1>3, CountSame
  <2> DEFINE vs == scratch[op.slot].values
  <2>3. Cardinality(CachedAt(script', op.slot, n + 1)) = Cardinality(CachedAt(script', op.slot, n)) + 1
    BY <1>2, <1>6, <2>1, CountNext
  <2>4. Cardinality(CachedAt(script', op.slot, i)) = Len(vs) + 1 /\ vs \in Seq(Payloads)
    BY <1>4, <1>5, <1>6, <2>1, <2>2, <2>3
  <2> HIDE DEF vs
  <2>5. Append(vs, op.b)[Len(vs) + 1] = op.b
    BY <2>4
  <2> QED BY <1>5, <2>1, <2>4, <2>5 DEF vs
<1>7. CASE i # n + 1
  <2>1. i \in 1 .. n /\ i \in Nat /\ script'[i] = script[i] /\ \A j \in 1 .. i : script'[j] = script[j]
    BY <1>2, <1>3, <1>7
  <2> DEFINE s == script[i].slot
             c == Cardinality(CachedAt(script, s, i))
  <2>2. CachedAt(script', s, i) = CachedAt(script, s, i)
    BY <2>1, CountSame
  <2>3. c \in 1 .. Cardinality(CachedAt(script, s, n))
    BY <1>2, <2>1, CachedIndex
  <2>4. scratch[s].values[c] = script[i].b
    BY <2>1 DEF CacheHolds, n
  <2>5. s \in Slots
    <3>1. script[i] \in Ops /\ script[i].op = "cached"
      BY <1>2, <2>1, ElementOf DEF n
    <3> QED BY <3>1 DEF Ops
  <2> HIDE DEF c, s
  <2>6. c \in 1 .. Len(scratch[s].values) /\ scratch[s].values \in Seq(Payloads)
    BY <1>4, <2>3, <2>5
  <2>7. scratch'[s].values[c] = scratch[s].values[c]
    <3>1. CASE op.op = "cached" /\ op.slot = s
      <4> DEFINE vs == scratch[s].values
      <4>1. scratch'[s].values = Append(vs, op.b)
        BY <1>5, <3>1
      <4>2. vs \in Seq(Payloads) /\ c \in 1 .. Len(vs)
        BY <2>6
      <4> HIDE DEF vs
      <4>3. Append(vs, op.b)[c] = vs[c]
        BY <4>2
      <4> QED BY <4>1, <4>3 DEF vs
    <3>2. CASE ~(op.op = "cached" /\ op.slot = s)
      BY <1>5, <2>5, <3>2
    <3> QED BY <3>1, <3>2
  <2> QED BY <2>1, <2>2, <2>4, <2>7 DEF c, s
<1> QED BY <1>6, <1>7

\* The second pass writes what the first cached, and leaves the cache as it is.
LEMMA RepeatFindsCache ==
  ASSUME IInv, CacheHolds, Repeat
  PROVE  /\ CacheHolds'
         /\ \E v : Do(script[pc + 1], v) /\ (script[pc + 1].op = "cached" => v = script[pc + 1].b)
<1> DEFINE op == script[pc + 1]
           n == Len(script)
<1>1. phase = "write" /\ pc < n /\ script' = script
  BY DEF Repeat
<1>2. PICK v \in Payloads : Do(op, v)
  BY DEF Repeat
<1>3. Types /\ n \in Nat /\ pc \in Nat /\ script \in Seq(Ops) /\ pc + 1 \in 1 .. n
  BY <1>1 DEF IInv, Types
<1>4. op \in Ops
  BY <1>3, ElementOf
<1>5. CASE op.op # "cached"
  <2>1. UNCHANGED cacheVars
    BY <1>2, <1>5 DEF Do
  <2>2. scratch' = scratch
    BY <2>1 DEF cacheVars
  <2>3. CacheHolds'
    BY <1>1, <2>2 DEF CacheHolds
  <2> QED BY <1>2, <1>5, <2>3
<1>6. CASE op.op = "cached"
  <2> DEFINE e == scratch[op.slot]
             sl == op.slot
  <2>1. Cardinality(CachedAt(script, sl, pc)) < Cardinality(CachedAt(script, sl, n))
    BY <1>1, <1>3, <1>6, CountBelow
  <2>2. Cardinality(CachedAt(script, sl, pc + 1)) = Cardinality(CachedAt(script, sl, pc)) + 1
    BY <1>3, <1>6, CountNext
  <2>3. scratch[sl].values[Cardinality(CachedAt(script, sl, pc + 1))] = op.b
    BY <1>3, <1>6 DEF CacheHolds
  <2> HIDE DEF op, n
  <2>4. /\ sl \in Slots
        /\ \A s \in Slots : s # sl => scratch'[s] = scratch[s]
        /\ IF e.idx < Len(e.values) THEN v = e.values[e.idx + 1] /\ scratch'[sl].values = e.values
           ELSE scratch'[sl].values = Append(e.values, v)
    BY <1>2, <1>3, <1>4, <1>6, DoCachedValue
  <2>5. Len(e.values) = Cardinality(CachedAt(script, sl, n)) /\ e.idx = Cardinality(CachedAt(script, sl, pc))
    BY <1>1, <2>4 DEF IInv, Cursors, n
  <2>6. v = e.values[e.idx + 1] /\ scratch'[sl].values = e.values
    BY <2>1, <2>4, <2>5
  <2>7. v = op.b
    BY <2>2, <2>3, <2>5, <2>6
  <2>8. \A s \in Slots : scratch'[s].values = scratch[s].values
    BY <2>4, <2>6
  <2>9. CacheHolds'
    <3> SUFFICES ASSUME NEW i \in 1 .. n, script[i].op = "cached"
                 PROVE  scratch'[script[i].slot].values[Cardinality(CachedAt(script, script[i].slot, i))]
                          = script[i].b
      BY <1>1 DEF CacheHolds, n
    <3>1. script[i] \in Ops
      BY <1>3, ElementOf DEF n
    <3>2. script[i].slot \in Slots
      BY <3>1 DEF Ops
    <3> QED BY <2>8, <3>2 DEF CacheHolds, n
  <2> QED BY <1>2, <2>7, <2>9 DEF op
<1> QED BY <1>5, <1>6

-----------------------------------------------------------------------------
(* Every step keeps the invariant about the body.                          *)

\* Nothing has been called.
LEMMA NoCalls ==
  /\ << <<>> >> \in Seq(Bytes)
  /\ Counted(<< <<>> >>, <<>>, 0) /\ Buffered(<< <<>> >>, <<>>, <<>>)
  /\ Open(<<>>, 0) = << <<>> >> /\ Nested(<<>>) /\ Recorded(<<>>, <<>>, <<>>)
<1>1. Open(<<>>, 0) = << <<>> >>
  <2>1. <<>> \in Seq(Ops)
    OBVIOUS
  <2> QED BY <2>1, OpenStep
<1>2. Nested(<<>>)
  BY DEF Nested
<1>3. <<>> \in Seq(Nat) /\ Len(<<>>) = 0 /\ <<>> \in Bytes
  BY BytesCat
<1>4. << <<>> >> \in Seq(Bytes) /\ Len(<< <<>> >>) = 1 /\ << <<>> >>[1] = <<>>
  BY <1>3
<1>5. /\ Upto(<<>>, 0, 1) = 0 /\ From(<<>>, 0, 1) = 0 /\ From(<<>>, ReservedLen, 1) = 0
  BY <1>3 DEF Upto, From
<1>6. Counted(<< <<>> >>, <<>>, 0)
  BY <1>3, <1>4, <1>5 DEF Counted
<1>7. Buffered(<< <<>> >>, <<>>, <<>>)
  <2>1. SubSeq(<<>>, 0 + 1, 0) = <<>>
    OBVIOUS
  <2> DEFINE R == << <<>> >>
             e == <<>>
  <2>2. /\ e \in Seq(Nat) /\ e \in Bytes /\ Len(e) = 0 /\ Len(R) = 1 /\ R[1] = SubSeq(e, 0 + 1, 0)
        /\ Upto(e, 0, 1) = 0 /\ From(e, ReservedLen, 1) = 0
    BY <1>3, <1>4, <1>5, <2>1
  <2> HIDE DEF R, e
  <2>3. ASSUME NEW i \in 1 .. 1
        PROVE  /\ From(e, ReservedLen, i) <= Upto(e, 0, i)
               /\ R[i] = SubSeq(e, From(e, ReservedLen, i) + 1, Upto(e, 0, i))
    <3>1. i = 1
      OBVIOUS
    <3>2. R[1] = SubSeq(e, From(e, ReservedLen, 1) + 1, Upto(e, 0, 1))
      BY <2>2, Zenon
    <3>3. From(e, ReservedLen, 1) <= Upto(e, 0, 1)
      BY <2>2
    <3> QED BY <3>1, <3>2, <3>3, Zenon
  <2>4. \A i \in 1 .. 0 : e[i] <= 0 /\ \A j \in 1 .. i : e[j] <= e[i]
    OBVIOUS
  <2>5. Len(R) = Len(e) + 1 /\ 1 .. Len(e) + 1 = 1 .. 1
    BY <2>2
  <2>6. Buffered(R, e, e)
    BY <2>2, <2>3, <2>4, <2>5 DEF Buffered
  <2> QED BY <2>6 DEF R, e
<1>8. Recorded(<<>>, <<>>, <<>>)
  <2>1. Slot(<<>>, 0) = 0
    BY SlotFacts
  <2>2. Depth(<<>>, 0) = 1
    BY <1>1, <1>4 DEF Depth
  <2> QED BY <1>3, <2>1, <2>2 DEF Recorded, Sized
<1> QED BY <1>1, <1>2, <1>4, <1>6, <1>7, <1>8

\* A new encode starts from nothing.
LEMMA FreshBody ==
  ASSUME FreshWriter
  PROVE  /\ err' = "nil" /\ buf' = <<>> /\ enc' = <<>> /\ sizeIdx' = 0
         /\ Nested(script') /\ CacheHolds'
         /\ Counted(Open(script', Len(script')), markers', sizeAcc')
         /\ Buffered(Open(script', Len(script')), markers', buf')
         /\ Recorded(script', recorded', stack')
<1>1. /\ err' = "nil" /\ buf' = <<>> /\ enc' = <<>> /\ sizeIdx' = 0 /\ script' = <<>> /\ markers' = <<>>
      /\ sizeAcc' = 0 /\ recorded' = <<>> /\ stack' = <<>>
  BY DEF FreshWriter
<1>2. Len(script') = 0
  BY <1>1
<1>3. CacheHolds'
  BY <1>2 DEF CacheHolds
<1> QED BY <1>1, <1>2, <1>3, NoCalls

\* Marshal, MarshalWithOptions and MarshalToWriter start a size pass.
LEMMA StartBody ==
  ASSUME NEW o \in OptionSet, Start(o) PROVE BInv'
<1>1. FreshWriter /\ method' = resolve(o)
  BY DEF Start
<1>2. method' # Manual
  <2>1. o.compression \in 0 .. 7
    BY MarshalAssumption
  <2> QED BY <1>1, <2>1 DEF resolve, Manual, defaultCompression, CompressionGzip, CompressionNone
<1>3. \/ phase' = "size" /\ result' = "none"
      \/ phase' = "idle" /\ result' = "ErrUnsupportedCompression"
  BY DEF Start
<1>4. SizePass'
  BY <1>1, <1>2, FreshBody DEF SizePass
<1>5. err' \in Errs /\ Nested(script') /\ CacheHolds'
  BY <1>1, FreshBody DEF Errs
<1> QED BY <1>3, <1>4, <1>5 DEF BInv, ManualPass, WritePass

\* Reset starts a pooled Writer.
LEMMA ResetBody ==
  ASSUME Reset PROVE BInv'
<1>1. FreshWriter /\ method' = Manual /\ phase' = "manual" /\ result' = "none"
  BY DEF Reset
<1>2. ManualPass'
  BY <1>1, FreshBody DEF ManualPass
<1>3. err' \in Errs /\ Nested(script') /\ CacheHolds'
  BY <1>1, FreshBody DEF Errs
<1> QED BY <1>1, <1>2, <1>3 DEF BInv, SizePass, WritePass

\* A call of the first pass, counted and, if the body will be compressed, recorded.
LEMMA CallCounted ==
  ASSUME IInv, BInv, NEW op \in Ops, Call(op), phase = "size"
  PROVE  Nested(script') /\ SizePass' /\ err' = "nil"
<1> DEFINE n == Len(script)
           R == Open(script, n)
           v == IF op.op = "cached" THEN op.b ELSE <<>>
<1>1. /\ Do(op, v) /\ script' = Append(script, op) /\ UNCHANGED <<phase, method>>
      /\ (op.op = "end" => markers # <<>>)
  BY DEF Call, callVars
<1>2. script \in Seq(Ops) /\ n \in Nat /\ n \in 0 .. n
  BY DEF IInv, Types
<1>3. Nested(script) /\ err = "nil" /\ method # Manual /\ buf = <<>> /\ enc = <<>> /\ sizeIdx = 0
  BY <1>1 DEF BInv, SizePass, Do
<1>4. Counted(R, markers, sizeAcc) /\ (compresses(method) => Recorded(script, recorded, stack))
  BY <1>3 DEF BInv, SizePass
<1>5. R \in Seq(Bytes) /\ Len(R) >= 1 /\ markers \in Seq(Nat) /\ sizeAcc \in Nat /\ Len(R) = Len(markers) + 1
  BY <1>2, <1>3, <1>4, OpenTyped DEF Counted
<1>6. op.op = "end" => Depth(script, n) >= 2
  BY <1>1, <1>5 DEF Depth
<1>7. Nested(script')
  BY <1>1, <1>2, <1>3, <1>6, NestedAppend
<1>8. Len(script') = n + 1 /\ Open(script', n + 1) = AfterCall(R, op)
  BY <1>1, <1>2, OpenAppend
<1> DEFINE Q == AfterCall(R, op)
<1>9. Steps(R, op, Q)
  BY <1>5, <1>6, AfterCallFacts DEF Depth
<1>10. v = op.b \/ op.op # "cached"
  OBVIOUS
<1> HIDE DEF Q, R, v
<1>11. /\ UNCHANGED <<buf, enc, err, sizeIdx>>
       /\ op.op \notin {"begin", "end"} =>
            sizeAcc' = sizeAcc + Len(OpBytes(op)) /\ UNCHANGED <<recorded, stack, markers>>
       /\ op.op = "begin" =>
            /\ sizeAcc' = sizeAcc /\ markers' = Append(markers, sizeAcc)
            /\ compresses(method) =>
                 recorded' = Append(recorded, 0) /\ stack' = Append(stack, Len(recorded) + 1)
       /\ op.op = "end" =>
            /\ sizeAcc' = sizeAcc + varintLen[sizeAcc - Last(markers)] /\ markers' = Front(markers)
            /\ compresses(method) =>
                 /\ recorded' = [recorded EXCEPT ![Last(stack)] = sizeAcc - Last(markers)]
                 /\ stack' = Front(stack)
  BY <1>1, <1>5, <1>10, DoSize
<1>12. Counted(Q, markers', sizeAcc') /\ (compresses(method) => Recorded(script', recorded', stack'))
  <2>1. CASE op.op \notin {"begin", "end"}
    <3>1. Counted(Q, markers, sizeAcc + Len(OpBytes(op)))
      BY <1>4, <1>5, <1>9, <2>1, CountedBytes
    <3>2. compresses(method) => Recorded(Append(script, op), recorded, stack)
      BY <1>2, <1>3, <1>4, <2>1, RecordedBytes
    <3> QED BY <1>1, <1>11, <2>1, <3>1, <3>2
  <2>2. CASE op.op = "begin"
    <3>1. Counted(Q, Append(markers, sizeAcc), sizeAcc)
      BY <1>4, <1>5, <1>9, <2>2, CountedBegin
    <3>2. compresses(method) =>
            Recorded(Append(script, op), Append(recorded, 0), Append(stack, Len(recorded) + 1))
      BY <1>2, <1>3, <1>4, <2>2, RecordedBegin
    <3> QED BY <1>1, <1>11, <2>2, <3>1, <3>2
  <2>3. CASE op.op = "end"
    <3>1. /\ sizeAcc - Last(markers) = Len(R[Len(R)]) /\ sizeAcc - Last(markers) \in Nat
          /\ Counted(Q, Front(markers), sizeAcc + varintLen[sizeAcc - Last(markers)])
      BY <1>1, <1>4, <1>5, <1>9, <2>3, CountedEnd
    <3>2. compresses(method) =>
            Recorded(Append(script, op), [recorded EXCEPT ![Last(stack)] = sizeAcc - Last(markers)], Front(stack))
      <4>1. sizeAcc - Last(markers) = Len(Open(script, Len(script))[Depth(script, Len(script))])
        BY <3>1 DEF R, Depth
      <4> QED BY <1>2, <1>3, <1>4, <1>6, <2>3, <3>1, <4>1, RecordedEnd
    <3> QED BY <1>1, <1>11, <2>3, <3>1, <3>2
  <2> QED BY <2>1, <2>2, <2>3
<1> HIDE DEF n
<1>13. Counted(Open(script', Len(script')), markers', sizeAcc')
  BY <1>8, <1>12 DEF Q
<1> QED BY <1>1, <1>3, <1>7, <1>11, <1>12, <1>13 DEF SizePass

\* What a call does to the buffer.
LEMMA BufferedStep ==
  ASSUME NEW op \in Ops, NEW v, Do(op, v), mode = "buffered", op.op = "cached" => v = op.b,
         NEW R \in Seq(Bytes), NEW Q, Steps(R, op, Q), Buffered(R, markers, buf),
         op.op = "end" => markers # <<>>
  PROVE  /\ UNCHANGED <<sizeAcc>> /\ err' \in Errs
         /\ err' = "nil" => Buffered(Q, markers', buf')
<1>1. buf \in Bytes
  BY DEF Buffered
<1>2. /\ UNCHANGED <<enc, sizeAcc, recorded, stack, sizeIdx>> /\ err = "nil"
      /\ err' \in {"nil", "ErrBodyTooLarge"}
      /\ op.op \notin {"begin", "end"} => buf' = buf \o OpBytes(op) /\ markers' = markers
      /\ op.op = "begin" => /\ markers' = Append(markers, Len(buf))
                            /\ buf' = buf \o [i \in 1 .. ReservedLen |-> 0]
      /\ op.op = "end" =>
           /\ markers' = Front(markers)
           /\ err' = "nil" =>
                buf' = SubSeq(buf, 1, Last(markers))
                         \o appendUvarint[Len(buf) - Last(markers) - ReservedLen]
                         \o SubSeq(buf, Last(markers) + ReservedLen + 1, Len(buf))
  BY <1>1, DoBuffered
<1>3. CASE op.op \notin {"begin", "end"}
  <2>1. Buffered(Q, markers, buf \o OpBytes(op))
    BY <1>3, BufferedBytes
  <2> QED BY <1>2, <1>3, <2>1 DEF Errs
<1>4. CASE op.op = "begin"
  <2>1. Buffered(Q, Append(markers, Len(buf)), buf \o [i \in 1 .. ReservedLen |-> 0])
    BY <1>4, BufferedBegin
  <2> QED BY <1>2, <1>4, <2>1 DEF Errs
<1>5. CASE op.op = "end"
  <2> DEFINE len == Len(buf) - Last(markers) - ReservedLen
  <2>1. Buffered(Q, Front(markers), SubSeq(buf, 1, Last(markers)) \o appendUvarint[len]
                                      \o SubSeq(buf, Last(markers) + ReservedLen + 1, Len(buf)))
    BY <1>5, BufferedEnd
  <2> QED BY <1>2, <1>5, <2>1 DEF Errs
<1> QED BY <1>3, <1>4, <1>5

\* A call on a pooled Writer.
LEMMA CallBuffered ==
  ASSUME IInv, BInv, NEW op \in Ops, Call(op), phase = "manual"
  PROVE  Nested(script') /\ ManualPass' /\ err' \in Errs
<1> DEFINE n == Len(script)
           R == Open(script, n)
           v == IF op.op = "cached" THEN op.b ELSE <<>>
<1>1. /\ Do(op, v) /\ script' = Append(script, op) /\ UNCHANGED <<phase, method>>
      /\ (op.op = "end" => markers # <<>>)
  BY DEF Call, callVars
<1>2. script \in Seq(Ops) /\ n \in Nat /\ n \in 0 .. n
  BY DEF IInv, Types
<1>3. Nested(script) /\ err = "nil" /\ method = Manual /\ Buffered(R, markers, buf)
  BY <1>1 DEF BInv, ManualPass, Do
<1>4. R \in Seq(Bytes) /\ Len(R) >= 1 /\ markers \in Seq(Nat) /\ Len(R) = Len(markers) + 1
  BY <1>2, <1>3, OpenTyped DEF Buffered
<1>5. op.op = "end" => Depth(script, n) >= 2
  BY <1>1, <1>4 DEF Depth
<1>6. Nested(script')
  BY <1>1, <1>2, <1>3, <1>5, NestedAppend
<1>7. Len(script') = n + 1 /\ Open(script', n + 1) = AfterCall(R, op)
  BY <1>1, <1>2, OpenAppend
<1> DEFINE Q == AfterCall(R, op)
<1>8. Steps(R, op, Q)
  BY <1>4, <1>5, AfterCallFacts DEF Depth
<1>9. v = op.b \/ op.op # "cached"
  OBVIOUS
<1>10. mode = "buffered"
  BY <1>3, Modes DEF compresses
<1> HIDE DEF Q, R, v
<1>11. err' \in Errs /\ (err' = "nil" => Buffered(Q, markers', buf'))
  BY <1>1, <1>3, <1>4, <1>8, <1>9, <1>10, BufferedStep
<1> HIDE DEF n
<1>12. err' = "nil" => Buffered(Open(script', Len(script')), markers', buf')
  BY <1>7, <1>11 DEF Q
<1> QED BY <1>1, <1>3, <1>6, <1>11, <1>12 DEF ManualPass

\* A call of the first pass keeps the invariant.
LEMMA CallBody ==
  ASSUME IInv, BInv, NEW op \in Ops, Call(op) PROVE BInv'
<1>1. phase \in {"size", "manual"} /\ UNCHANGED <<phase, result>> /\ result = "none" /\ CacheHolds
  BY DEF Call, callVars, BInv
<1>2. CacheHolds'
  BY <1>1, CallFillsCache
<1>3. CASE phase = "size"
  <2>1. Nested(script') /\ SizePass' /\ err' = "nil"
    BY <1>3, CallCounted
  <2> QED BY <1>1, <1>2, <1>3, <2>1 DEF BInv, ManualPass, WritePass, Errs
<1>4. CASE phase = "manual"
  <2>1. Nested(script') /\ ManualPass' /\ err' \in Errs
    BY <1>4, CallBuffered
  <2> QED BY <1>1, <1>2, <1>4, <2>1 DEF BInv, SizePass, WritePass
<1> QED BY <1>1, <1>3, <1>4

\* Everything a call streams is bytes.
LEMMA PieceBytes ==
  ASSUME NEW calls \in Seq(Ops), NEW sizes \in Seq(Nat), Len(sizes) = Slot(calls, Len(calls))
  PROVE  \A k \in 1 .. Len(calls) : Piece(calls, sizes, k) \in Bytes
<1> SUFFICES ASSUME NEW k \in 1 .. Len(calls) PROVE Piece(calls, sizes, k) \in Bytes
  OBVIOUS
<1>1. calls[k] \in Ops
  BY ElementOf
<1>2. CASE calls[k].op = "begin"
  <2>1. Len(calls) \in Nat
    OBVIOUS
  <2>2. Slot(calls, k) \in 1 .. Len(sizes)
    BY <1>2, <2>1, SlotRange
  <2>3. sizes[Slot(calls, k)] \in Nat
    BY <2>2, ElementOf
  <2>4. appendUvarint[sizes[Slot(calls, k)]] \in Bytes
    BY <2>3, Uvarint DEF Bytes
  <2> QED BY <1>2, <2>4 DEF Piece
<1>3. CASE calls[k].op = "end"
  BY <1>3, BytesCat DEF Piece
<1>4. CASE calls[k].op \notin {"begin", "end"}
  <2>1. OpBytes(calls[k]) \in Bytes
    BY <1>1, <1>4, OpLength
  <2> QED BY <1>4, <2>1 DEF Piece
<1> QED BY <1>2, <1>3, <1>4

\* The size pass is over: what it counted is the length of the body, what it
\* recorded is what the streaming Writer needs.
LEMMA SizeDoneBody ==
  ASSUME IInv, BInv, SizeDone PROVE BInv'
<1>0. phase = "size" /\ markers = <<>> /\ err = "nil" /\ result = "none"
  BY DEF SizeDone, BInv
<1>1. CASE Return("ErrBodyTooLarge")
  <2>1. phase' = "idle" /\ result' = "ErrBodyTooLarge" /\ err' = err
    BY <1>1 DEF Return
  <2> QED BY <1>0, <2>1 DEF BInv, SizePass, ManualPass, WritePass, Errs
<1>2. CASE /\ phase' = "write" /\ adoptScratch
           /\ header' = IF compresses(method) THEN NoHeader
                        ELSE [NoHeader EXCEPT !.bodyLen = sizeAcc]
           /\ UNCHANGED <<method, script, pc, buf, err, sizeAcc, regionVars, gens,
                          enc, dest, result>>
  <2> DEFINE n == Len(script)
             R == Open(script, n)
  <2>1. script \in Seq(Ops) /\ n \in Nat /\ n \in 0 .. n /\ pc = 0
    BY <1>0 DEF IInv, Types, Cursors
  <2>2. /\ Nested(script) /\ CacheHolds /\ method # Manual /\ buf = <<>> /\ enc = <<>> /\ sizeIdx = 0
        /\ Counted(R, markers, sizeAcc) /\ (compresses(method) => Recorded(script, recorded, stack))
    BY <1>0 DEF BInv, SizePass
  <2>3. /\ phase' = "write" /\ result' = "none" /\ err' = "nil" /\ script' = script /\ pc' = 0
        /\ buf' = <<>> /\ enc' = <<>> /\ sizeIdx' = 0 /\ method' = method /\ markers' = <<>>
        /\ recorded' = recorded /\ sizeAcc' = sizeAcc
    BY <1>0, <1>2, <2>1, <2>2 DEF regionVars
  <2>4. R \in Seq(Bytes) /\ Len(R) = 1 /\ sizeAcc = Len(R[1])
    <3>1. R \in Seq(Bytes)
      BY <2>1, <2>2, OpenTyped
    <3>2. <<>> \in Seq(Nat) /\ Len(<<>>) = 0
      OBVIOUS
    <3> DEFINE e == <<>>
    <3>3. Counted(R, e, sizeAcc) /\ e \in Seq(Nat) /\ Len(e) = 0
      BY <1>0, <2>2, <3>2
    <3> HIDE DEF e, R
    <3>4. Len(R) = 1 /\ Len(R[1]) = Upto(e, sizeAcc, 1) - From(e, 0, 1) /\ sizeAcc \in Nat
      BY <3>3 DEF Counted
    <3>5. Upto(e, sizeAcc, 1) = sizeAcc /\ From(e, 0, 1) = 0
      BY <3>3 DEF Upto, From
    <3> QED BY <3>1, <3>4, <3>5
  <2>5. Canonical(script) = R[1] /\ Depth(script, n) = 1
    BY <2>1, <2>4, OpenStep DEF Canonical, Depth
  <2>6. Open(script, 0) = << <<>> >>
    BY <2>1, OpenStep
  <2>7. CacheHolds'
    <3>1. scratch' = [s \in Slots |-> [scratch[s] EXCEPT !.idx = 0]]
      BY <1>2 DEF adoptScratch
    <3>2. \A s \in Slots : scratch'[s].values = scratch[s].values
      <4> SUFFICES ASSUME NEW s \in Slots PROVE scratch'[s].values = scratch[s].values
        OBVIOUS
      <4>1. scratch[s] \in [values : Seq(Payloads), idx : Nat]
        BY DEF IInv, Types
      <4> DEFINE x == scratch[s]
      <4>2. [x EXCEPT !.idx = 0].values = x.values
        BY <4>1
      <4>3. scratch'[s] = [x EXCEPT !.idx = 0]
        BY <3>1
      <4> QED BY <4>2, <4>3
    <3> SUFFICES ASSUME NEW i \in 1 .. n, script[i].op = "cached"
                 PROVE  scratch'[script[i].slot].values[Cardinality(CachedAt(script, script[i].slot, i))]
                          = script[i].b
      BY <2>3 DEF CacheHolds
    <3>3. script[i] \in Ops
      BY <2>1, ElementOf
    <3>4. script[i].slot \in Slots
      BY <3>3 DEF Ops
    <3> QED BY <2>2, <3>2, <3>4 DEF CacheHolds
  <2>8. ASSUME ~compresses(method)
        PROVE  /\ header'.method = CompressionNone /\ header'.bodyLen = sizeAcc'
               /\ Buffered(Open(script', pc'), markers', buf')
    <3>1. header' = [NoHeader EXCEPT !.bodyLen = sizeAcc]
      BY <1>2, <2>8
    <3>2. header'.method = CompressionNone /\ header'.bodyLen = sizeAcc
      BY <3>1 DEF NoHeader
    <3> QED BY <2>3, <2>6, <3>2, NoCalls
  <2>9. ASSUME compresses(method)
        PROVE  /\ recorded' \in Seq(Nat) /\ Len(recorded') = Slot(script', Len(script'))
               /\ Sized(script', recorded')
               /\ sizeIdx' = Slot(script', pc') /\ enc' \in Bytes /\ buf' \in Bytes
               /\ \E st : Streams(st, script', recorded') /\ enc' \o buf' = st[pc']
    <3>1. recorded \in Seq(Nat) /\ Len(recorded) = Slot(script, n) /\ Sized(script, recorded)
      BY <2>2, <2>9 DEF Recorded
    <3>2. \A k \in 1 .. Len(script) : Piece(script, recorded, k) \in Bytes
      BY <2>1, <3>1, PieceBytes
    <3>3. PICK st : Streams(st, script, recorded)
      BY <2>1, <3>2, StreamExists
    <3>4. st[0] = <<>>
      BY <3>3 DEF Streams
    <3>5. <<>> \in Bytes /\ <<>> \o <<>> = <<>> /\ Slot(script, 0) = 0
      BY BytesCat, SlotFacts
    <3> QED BY <2>3, <3>1, <3>3, <3>4, <3>5
  <2>10. WritePass'
    BY <2>2, <2>3, <2>4, <2>5, <2>8, <2>9 DEF WritePass
  <2> QED BY <2>2, <2>3, <2>7, <2>10 DEF BInv, SizePass, ManualPass, Errs
<1> QED BY <1>1, <1>2 DEF SizeDone

\* A call of the second pass.
LEMMA RepeatBody ==
  ASSUME IInv, BInv, Repeat PROVE BInv'
<1> DEFINE op == script[pc + 1]
           n == Len(script)
<1>1. /\ phase = "write" /\ pc < n /\ pc' = pc + 1
      /\ UNCHANGED <<script, phase, method, header, result>>
  BY DEF Repeat, callVars
<1>2. script \in Seq(Ops) /\ n \in Nat /\ pc \in Nat /\ pc + 1 \in 1 .. n /\ pc \in 0 .. n /\ (pc + 1) - 1 = pc
  BY <1>1 DEF IInv, Types
<1>3. /\ Nested(script) /\ CacheHolds /\ result = "none"
      /\ sizeAcc = Len(Canonical(script)) /\ Depth(script, n) = 1 /\ method # Manual
  BY <1>1 DEF BInv, WritePass
<1>4. CacheHolds'
  BY <1>3, RepeatFindsCache
<1>5. PICK v : Do(op, v) /\ (op.op = "cached" => v = op.b)
  BY <1>3, RepeatFindsCache
<1>6. err = "nil"
  BY <1>5 DEF Do
<1>7. op \in Ops
  BY <1>2, ElementOf
<1>8. CASE ~compresses(method)
  <2> DEFINE R == Open(script, pc)
             Q == Open(script, pc + 1)
  <2>1. R \in Seq(Bytes) /\ Len(R) >= 1
    BY <1>2, <1>3, OpenTyped
  <2>2. Steps(R, op, Q)
    <3>1. Steps(Open(script, (pc + 1) - 1), script[pc + 1], Open(script, pc + 1))
      BY <1>2, <1>3, OpenTyped
    <3> QED BY <1>2, <3>1
  <2>3. /\ Buffered(R, markers, buf) /\ header.method = CompressionNone /\ header.bodyLen = sizeAcc
    BY <1>1, <1>6, <1>8 DEF BInv, WritePass
  <2>4. op.op = "end" => Len(R) >= 2
    <3>1. op.op = "end" => Len(Open(script, (pc + 1) - 1)) >= 2
      BY <1>2, <1>3 DEF Nested
    <3> QED BY <1>2, <3>1
  <2>5. op.op = "end" => markers # <<>>
    <3>1. Len(R) = Len(markers) + 1
      BY <2>3 DEF Buffered
    <3>2. markers = <<>> => Len(markers) = 0
      OBVIOUS
    <3> QED BY <2>4, <3>1, <3>2
  <2>6. mode = "buffered"
    BY <1>1, <1>8, Modes
  <2> HIDE DEF R, Q, op
  <2>7. sizeAcc' = sizeAcc /\ err' \in Errs /\ (err' = "nil" => Buffered(Q, markers', buf'))
    BY <1>5, <1>7, <2>1, <2>2, <2>3, <2>5, <2>6, BufferedStep
  <2>8. WritePass'
    BY <1>1, <1>3, <1>8, <2>3, <2>7 DEF WritePass, Q
  <2> QED BY <1>1, <1>3, <1>4, <2>7, <2>8 DEF BInv, SizePass, ManualPass
<1>9. CASE compresses(method)
  <2>1. /\ recorded \in Seq(Nat) /\ Len(recorded) = Slot(script, n) /\ Sized(script, recorded)
        /\ sizeIdx = Slot(script, pc) /\ enc \in Bytes /\ buf \in Bytes
    BY <1>1, <1>6, <1>9 DEF BInv, WritePass
  <2>2. PICK st : Streams(st, script, recorded) /\ enc \o buf = st[pc]
    BY <1>1, <1>6, <1>9 DEF BInv, WritePass
  <2> DEFINE p == Piece(script, recorded, pc + 1)
  <2>3. st[pc + 1] = st[pc] \o p /\ st[pc] \in Bytes
    <3>1. st[pc + 1] = st[(pc + 1) - 1] \o p
      BY <1>2, <2>2 DEF Streams
    <3>2. st[pc] \in Bytes
      BY <1>2, <2>2 DEF Streams
    <3> QED BY <1>2, <3>1, <3>2
  <2>4. mode = "stream"
    BY <1>1, <1>9, Modes
  <2>5. Slot(script, pc) \in Nat /\ Slot(script, pc + 1) = IF op.op = "begin" THEN Slot(script, pc) + 1 ELSE Slot(script, pc)
    BY <1>2, SlotFacts
  <2>6. p = IF op.op = "begin" THEN appendUvarint[recorded[Slot(script, pc + 1)]]
            ELSE IF op.op = "end" THEN <<>> ELSE OpBytes(op)
    BY DEF Piece
  <2> HIDE DEF op, p
  <2>7. /\ UNCHANGED <<sizeAcc, recorded, stack>>
        /\ err' \in {"nil", "ErrTarget", "ErrTruncated"}
        /\ op.op \notin {"begin", "end"} => Streamed(OpBytes(op)) /\ sizeIdx' = sizeIdx
        /\ op.op = "begin" /\ err' = "nil" =>
             /\ sizeIdx < Len(recorded) /\ sizeIdx' = sizeIdx + 1
             /\ Streamed(appendUvarint[recorded[sizeIdx + 1]])
        /\ op.op = "end" => UNCHANGED <<buf, enc, sizeIdx, err>>
    BY <1>5, <1>7, <2>1, <2>4, <2>5, DoStream
  <2>8. ASSUME err' = "nil"
        PROVE  /\ sizeIdx' = Slot(script, pc + 1) /\ enc' \in Bytes /\ buf' \in Bytes
               /\ enc' \o buf' = st[pc + 1]
    <3>1. CASE op.op = "begin"
      <4>1. sizeIdx' = Slot(script, pc + 1) /\ sizeIdx + 1 = Slot(script, pc + 1)
        BY <2>1, <2>5, <2>7, <2>8, <3>1
      <4>2. Streamed(p)
        BY <2>6, <2>7, <2>8, <3>1, <4>1
      <4> QED BY <2>2, <2>3, <2>8, <4>1, <4>2 DEF Streamed
    <3>2. CASE op.op = "end"
      <4>1. p = <<>> /\ st[pc] \o <<>> = st[pc]
        BY <2>3, <2>6, <3>2, BytesCat
      <4> QED BY <2>1, <2>2, <2>3, <2>5, <2>7, <3>2, <4>1
    <3>3. CASE op.op \notin {"begin", "end"}
      <4>1. Streamed(p) /\ sizeIdx' = Slot(script, pc + 1)
        BY <2>1, <2>5, <2>6, <2>7, <3>3
      <4> QED BY <2>2, <2>3, <2>8, <4>1 DEF Streamed
    <3> QED BY <3>1, <3>2, <3>3
  <2>9. err' = "nil" =>
          \E s : Streams(s, script, recorded) /\ enc' \o buf' = s[pc + 1]
    BY <2>2, <2>8
  <2>10. WritePass'
    BY <1>1, <1>3, <1>9, <2>1, <2>7, <2>8, <2>9 DEF WritePass
  <2>11. err' \in Errs
    BY <2>7 DEF Errs
  <2> QED BY <1>1, <1>3, <1>4, <2>10, <2>11 DEF BInv, SizePass, ManualPass
<1> QED BY <1>8, <1>9

\* With every region closed, the buffer is the body.
LEMMA BufferIsBody ==
  ASSUME script \in Seq(Ops), Nested(script), Depth(script, Len(script)) = 1,
         Buffered(Open(script, Len(script)), markers, buf)
  PROVE  buf = Canonical(script) /\ buf \in Bytes
<1> DEFINE R == Open(script, Len(script))
<1>1. Canonical(script) = R[1] /\ Len(R) = 1
  BY OpenStep DEF Canonical, Depth
<1> HIDE DEF R
<1>2. Buffered(R, markers, buf)
  BY DEF R
<1>3. buf \in Bytes /\ markers \in Seq(Nat) /\ Len(R) = Len(markers) + 1
  BY <1>2 DEF Buffered
<1>4. Len(markers) = 0
  <2> DEFINE m == Len(markers)
  <2>1. m \in Nat /\ m + 1 = 1
    <3>1. m \in Nat
      BY <1>3
    <3>2. m + 1 = 1
      BY <1>1, <1>3, Zenon
    <3> QED BY <3>1, <3>2
  <2> HIDE DEF m
  <2>2. m = 0
    BY <2>1
  <2> QED BY <2>2 DEF m
<1>5. R[1] = SubSeq(buf, From(markers, ReservedLen, 1) + 1, Upto(markers, Len(buf), 1))
  BY <1>2, <1>4 DEF Buffered
<1>6. From(markers, ReservedLen, 1) = 0 /\ Upto(markers, Len(buf), 1) = Len(buf)
  BY <1>4 DEF From, Upto
<1>7. R[1] = SubSeq(buf, 1, Len(buf))
  BY <1>5, <1>6
<1>8. SubSeq(buf, 1, Len(buf)) = buf
  BY <1>3 DEF Bytes
<1> QED BY <1>1, <1>3, <1>7, <1>8

\* Bytes of the buffered Writer hands over the body.
LEMMA WriteDoneBody ==
  ASSUME IInv, BInv, WriteDone PROVE BInv'
<1>1. /\ phase = "write" /\ pc = Len(script) /\ err = "nil" /\ ~compresses(method) /\ phase' = "deliver"
      /\ UNCHANGED <<method, script, buf, err, enc, header, result>>
  BY DEF WriteDone
<1>2. /\ Nested(script) /\ Depth(script, Len(script)) = 1 /\ sizeAcc = Len(Canonical(script))
      /\ header.method = CompressionNone /\ header.bodyLen = sizeAcc /\ result = "none"
      /\ Buffered(Open(script, Len(script)), markers, buf)
  BY <1>1 DEF BInv, WritePass
<1>3. script \in Seq(Ops)
  BY DEF IInv, Types
<1>4. buf = Canonical(script)
  BY <1>2, <1>3, BufferIsBody
<1>5. Delivered'
  BY <1>1, <1>2, <1>4 DEF Delivered, Body
<1> QED BY <1>1, <1>2, <1>5 DEF BInv, SizePass, ManualPass, WritePass, Errs

\* FinalizeBodyLen declares the length of the buffer, which is the body.
LEMMA FinalizeBody ==
  ASSUME IInv, BInv, FinalizeBodyLen PROVE BInv'
<1>1. /\ phase = "manual" /\ markers = <<>> /\ err = "nil"
      /\ UNCHANGED <<method, script, buf, enc, markers, scratch, result>>
  BY DEF FinalizeBodyLen, regionVars, cacheVars
<1>2. /\ Nested(script) /\ CacheHolds /\ result = "none" /\ method = Manual
      /\ Buffered(Open(script, Len(script)), markers, buf)
  BY <1>1 DEF BInv, ManualPass
<1>3. script \in Seq(Ops)
  BY DEF IInv, Types
<1>4. \/ err' = "ErrBodyTooLarge" /\ UNCHANGED <<phase, header>>
      \/ phase' = "deliver" /\ err' = err /\ header' = [NoHeader EXCEPT !.bodyLen = Len(buf)]
  BY DEF FinalizeBodyLen
<1>5. CASE err' = "ErrBodyTooLarge" /\ UNCHANGED <<phase, header>>
  <2>1. CacheHolds'
    BY <1>1, <1>2 DEF CacheHolds
  <2> QED BY <1>1, <1>2, <1>5, <2>1 DEF BInv, SizePass, ManualPass, WritePass, Errs
<1>6. CASE phase' = "deliver" /\ err' = err /\ header' = [NoHeader EXCEPT !.bodyLen = Len(buf)]
  <2>1. Depth(script, Len(script)) = 1
    <3>1. Len(Open(script, Len(script))) = Len(markers) + 1
      BY <1>2 DEF Buffered
    <3>2. Len(markers) = 0
      BY <1>1
    <3> QED BY <3>1, <3>2 DEF Depth
  <2>2. buf = Canonical(script)
    BY <1>2, <1>3, <2>1, BufferIsBody
  <2>3. ~compresses(method)
    BY <1>2 DEF compresses
  <2>4. header'.method = CompressionNone /\ header'.bodyLen = Len(buf)
    BY <1>6 DEF NoHeader
  <2>5. Delivered'
    BY <1>1, <2>2, <2>3, <2>4 DEF Delivered, Body
  <2> QED BY <1>1, <1>2, <1>6, <2>5 DEF BInv, SizePass, ManualPass, WritePass, Errs
<1> QED BY <1>4, <1>5, <1>6

\* flushAll and Close give the compressor the whole body.
LEMMA FinishBody ==
  ASSUME IInv, BInv, Finish PROVE BInv'
<1>1. PICK n \in FrameLens : CloseFrame(buf, n)
  BY DEF Finish
<1>2. phase = "write" /\ pc = Len(script) /\ err = "nil" /\ compresses(method)
  BY <1>1 DEF CloseFrame
<1>3. /\ Nested(script) /\ Depth(script, Len(script)) = 1 /\ sizeAcc = Len(Canonical(script))
      /\ result = "none" /\ Sized(script, recorded) /\ script \in Seq(Ops)
      /\ \E st : Streams(st, script, recorded) /\ enc \o buf = st[Len(script)]
  BY <1>2 DEF BInv, WritePass, IInv, Types
<1>4. PICK st : Streams(st, script, recorded) /\ enc \o buf = st[Len(script)]
  BY <1>3
<1>5. enc \o buf = Canonical(script)
  BY <1>3, <1>4, StreamIsCanonical
<1>6. \/ phase' = "idle" /\ result' \in {"ErrTarget", "ErrClose", "ErrBodyTooLarge"} /\ err' = err
      \/ /\ phase' = "deliver" /\ UNCHANGED <<result, err, method, script>> /\ enc' = enc \o buf
         /\ header' = [method |-> method, bodyLen |-> n, inflatedLen |-> sizeAcc]
  BY <1>1 DEF CloseFrame, Return
<1>7. CASE phase' = "idle" /\ result' \in {"ErrTarget", "ErrClose", "ErrBodyTooLarge"} /\ err' = err
  BY <1>2, <1>7 DEF BInv, SizePass, ManualPass, WritePass, Errs
<1>8. CASE /\ phase' = "deliver" /\ UNCHANGED <<result, err, method, script>> /\ enc' = enc \o buf
           /\ header' = [method |-> method, bodyLen |-> n, inflatedLen |-> sizeAcc]
  <2>1. header'.method = method /\ header'.inflatedLen = sizeAcc
    BY <1>8
  <2>2. Delivered'
    BY <1>2, <1>3, <1>5, <1>8, <2>1 DEF Delivered, Body
  <2> QED BY <1>2, <1>3, <1>8, <2>2 DEF BInv, SizePass, ManualPass, WritePass, Errs
<1> QED BY <1>6, <1>7, <1>8

\* Delivery changes nothing that is delivered.
LEMMA DeliverKeeps ==
  ASSUME BInv, Deliver \/ DeliverBody PROVE BInv'
<1>1. /\ phase \in {"deliver", "deliverBody"}
      /\ UNCHANGED <<method, script, buf, err, enc, header>>
      /\ \/ phase' = "idle"
         \/ phase' = "deliverBody" /\ result' = result
  BY DEF Deliver, DeliverBody
<1>2. Delivered /\ result = "none" /\ err \in Errs
  BY <1>1 DEF BInv
<1>3. Delivered'
  BY <1>1, <1>2 DEF Delivered, Body
<1> QED BY <1>1, <1>2, <1>3 DEF BInv, SizePass, ManualPass, WritePass

\* A step that leaves the encode as it is, or gives it up.
LEMMA BodyGivenUp ==
  ASSUME BInv, phase' = "idle", result' = err, err # "nil", err' = err
  PROVE  BInv'
<1>1. err \in Errs /\ err # "ok"
  BY DEF BInv, Errs
<1> QED BY <1>1 DEF BInv, SizePass, ManualPass, WritePass

\* A step that changes nothing.
LEMMA BodyAlone ==
  ASSUME BInv, UNCHANGED vars
  PROVE  BInv'
<1>1. UNCHANGED <<phase, method, script, pc, buf, err, sizeAcc, recorded, stack, sizeIdx, markers,
                  scratch, enc, header, result>>
  BY DEF vars, regionVars, cacheVars
<1>2. UNCHANGED CacheHolds /\ UNCHANGED Delivered
  BY <1>1 DEF CacheHolds, Delivered, Body
<1>3. UNCHANGED SizePass /\ UNCHANGED ManualPass /\ UNCHANGED WritePass
  BY <1>1 DEF SizePass, ManualPass, WritePass
<1> QED BY <1>1, <1>2, <1>3 DEF BInv

\* A call that fails sets the sticky error.
LEMMA CallFailsBody ==
  ASSUME BInv, CallFails
  PROVE  BInv'
<1>1. /\ phase \in {"size", "manual"} /\ err' \in {"ErrZeroTag", "ErrCodec"}
      /\ UNCHANGED <<phase, method, script, buf, sizeIdx, scratch, enc, result>>
  BY DEF CallFails, regionVars, cacheVars, callVars
<1>2. Nested(script) /\ CacheHolds /\ result = "none"
  BY <1>1 DEF BInv
<1>3. CacheHolds'
  BY <1>1, <1>2 DEF CacheHolds
<1>4. SizePass' /\ ManualPass'
  BY <1>1 DEF BInv, SizePass, ManualPass
<1> QED BY <1>1, <1>2, <1>3, <1>4 DEF BInv, WritePass, Errs

\* The invariant about the body holds at first, and every step keeps it.
LEMMA BodyInit == Init => BInv
BY DEF Init, BInv, SizePass, ManualPass, WritePass, Errs

\* Every step keeps the invariant about the body.
LEMMA BodyStep == IInv /\ BInv /\ [Next]_vars => BInv'
<1> SUFFICES ASSUME IInv, BInv, [Next]_vars PROVE BInv'
  OBVIOUS
<1>1. ASSUME NEW o \in OptionSet, Start(o) PROVE BInv'
  BY <1>1, StartBody
<1>2. CASE Reset
  BY <1>2, ResetBody
<1>3. ASSUME NEW op \in Ops, Call(op) PROVE BInv'
  BY <1>3, CallBody
<1>4. CASE CallFails
  BY <1>4, CallFailsBody
<1>5. CASE Repeat
  BY <1>5, RepeatBody
<1>6. CASE Fail
  <2>1. phase' = "idle" /\ result' = err /\ err # "nil" /\ err' = err
    BY <1>6 DEF Fail, Return
  <2> QED BY <2>1, BodyGivenUp
<1>7. CASE SizeDone
  BY <1>7, SizeDoneBody
<1>8. CASE WriteDone
  BY <1>8, WriteDoneBody
<1>9. CASE FinalizeBodyLen
  BY <1>9, FinalizeBody
<1>10. CASE Finish
  BY <1>10, FinishBody
<1>11. CASE Deliver
  BY <1>11, DeliverKeeps
<1>12. CASE DeliverBody
  BY <1>12, DeliverKeeps
<1>13. CASE UNCHANGED vars
  BY <1>13, BodyAlone
<1> QED BY <1>1, <1>2, <1>3, <1>4, <1>5, <1>6, <1>7, <1>8, <1>9, <1>10, <1>11, <1>12, <1>13 DEF Next

\* For any calls: what the counting pass returns is the length of the body, the
\* length prefixes of nested regions included.
THEOREM SizeIsExact == Spec => []SizePassExact
<1>1. BInv => SizePassExact
  BY DEF BInv, WritePass, SizePassExact
<1> QED BY <1>1, MarshalInit, MarshalStep, BodyInit, BodyStep, PTL DEF Spec

\* For any calls, options, threshold, reserved room and failures: a blob that is
\* handed over holds the body the calls stand for, under a header that declares
\* its length, whichever of the three Writers produced it.
THEOREM BlobHoldsBody == Spec => []BlobIsCanonical
<1>1. BInv => BlobIsCanonical
  BY DEF BInv, Delivered, BlobIsCanonical
<1> QED BY <1>1, MarshalInit, MarshalStep, BodyInit, BodyStep, PTL DEF Spec

\* For any calls and threshold: what the streaming Writer has let go is a prefix
\* of the body, so that nothing has to be patched later.
THEOREM StreamIsPrefix == Spec => []StreamedPrefix
<1>1. ASSUME IInv, BInv PROVE StreamedPrefix
  <2> SUFFICES ASSUME phase = "write", compresses(method), err = "nil"
               PROVE  IsPrefix(enc \o buf, Canonical(script))
    BY DEF StreamedPrefix
  <2>1. /\ Nested(script) /\ Depth(script, Len(script)) = 1 /\ recorded \in Seq(Nat)
        /\ Len(recorded) = Slot(script, Len(script)) /\ Sized(script, recorded)
        /\ \E st : Streams(st, script, recorded) /\ enc \o buf = st[pc]
    BY <1>1 DEF BInv, WritePass
  <2>2. script \in Seq(Ops) /\ pc \in 0 .. Len(script)
    BY <1>1 DEF IInv, Types, Cursors
  <2>3. PICK st : Streams(st, script, recorded) /\ enc \o buf = st[pc]
    BY <2>1
  <2>4. \A k \in 1 .. Len(script) : Piece(script, recorded, k) \in Bytes
    BY <2>1, <2>2, PieceBytes
  <2>5. IsPrefix(st[pc], st[Len(script)])
    BY <2>2, <2>3, <2>4, StreamPrefix
  <2>6. st[Len(script)] = Canonical(script)
    BY <2>1, <2>2, <2>3, StreamIsCanonical
  <2> QED BY <2>3, <2>5, <2>6
<1>2. IInv /\ BInv => StreamedPrefix
  BY <1>1
<1> QED BY <1>2, MarshalInit, MarshalStep, BodyInit, BodyStep, PTL DEF Spec
=============================================================================
