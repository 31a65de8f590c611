---------------------------- MODULE ReaderProofs ----------------------------
(* Proofs about Reader, for every input and every varint radix and width,  *)
(* and about the generated decoder that drives it, for every schema.       *)
EXTENDS Decoder, SequenceTheorems, FiniteSetTheorems, TLAPS

\* The inductive invariant: the input also has to fit an int, or int(n) of an
\* accepted length could turn negative.
Inv ==
  /\ TypeOK
  /\ RegionsNested
  /\ Len(buf) <= MaxInt

\* A call of any method with any argument, to any depth.
Method ==
  \/ ReadTag
  \/ ReadUvarint
  \/ \E n \in {Fixed32Size, Fixed64Size} : ReadFixed(n)
  \/ ReadBytes
  \/ ReadLength
  \/ \E n \in Nat : MakeSlice(n)
  \/ \E z \in BOOLEAN : ReadPresenceByte(z)
  \/ BeginLengthDelim
  \/ EndLengthDelim
  \/ \E wt : SkipField(wt)

\* A successful varint read stays in the region and yields a natural number.
LEMMA ReadUvarintInRegion ==
  ASSUME NEW b, NEW p \in Nat, NEW e \in Nat, NEW r \in readUvarint(b, p, e)
  PROVE  /\ r[1] \in Nat /\ r[1] >= 1 /\ p + r[1] <= e
         /\ r[2] \in Nat
  BY WireAssumption DEF readUvarint, VarintExtends, Uint64

\* What readUvarint fails with is one of the package's errors.
LEMMA UvarintErrorType ==
  ASSUME NEW b, NEW p, NEW e
  PROVE  uvarintError(b, p, e) \in Errors
  BY DEF uvarintError, Errors

\* The largest int of the build is a number.
LEMMA MaxIntType == MaxInt \in Int
  BY WireAssumption, SMTT(20) DEF MaxInt

\* A length that fits the region survives its conversion to int.
LEMMA LengthFits ==
  ASSUME NEW len \in Nat, len <= MaxInt, NEW p \in Nat, NEW e \in Nat, e <= len,
         NEW v \in Nat, v <= e - p
  PROVE  ToInt(v) = v
  BY MaxIntType DEF ToInt

\* The region a checked length opens lies inside the current one.
LEMMA RegionFits ==
  ASSUME NEW p \in Nat, NEW n \in Nat, NEW v \in Nat, NEW e \in Nat,
         p + n <= e, v <= e - (p + n)
  PROVE  p + n \in Nat /\ p + n + v \in Nat /\ p + n <= p + n + v /\ p + n + v <= e
  OBVIOUS

\* Opening a region inside the current one keeps the bounds nested.
LEMMA NestedPush ==
  ASSUME NEW s \in Seq(Nat), NEW e \in Nat, NEW f \in Nat, NEW n \in Nat,
         Nested(s, e, n), f <= e, e <= n
  PROVE  Append(s, e) \in Seq(Nat) /\ Nested(Append(s, e), f, n)
<1> DEFINE t == Append(s, e)
<1>1. /\ t \in Seq(Nat) /\ Len(s) \in Nat /\ Len(t) = Len(s) + 1
      /\ t[Len(s) + 1] = e
      /\ \A i \in 1 .. Len(s) : t[i] = s[i]
  OBVIOUS
<1>2. \A i \in 1 .. Len(s) : s[i] \in Nat
  OBVIOUS
<1> HIDE DEF t
<1>3. \A i \in 1 .. Len(t) : t[i] \in Nat /\ e <= t[i] /\ t[i] <= n
  <2> SUFFICES ASSUME NEW i \in 1 .. Len(t)
               PROVE  t[i] \in Nat /\ e <= t[i] /\ t[i] <= n
    OBVIOUS
  <2>1. CASE i = Len(s) + 1
    BY <1>1, <2>1
  <2>2. CASE i # Len(s) + 1
    <3>1. i \in 1 .. Len(s)
      BY <1>1, <2>2
    <3> QED
      BY <1>1, <1>2, <3>1 DEF Nested
  <2> QED
    BY <2>1, <2>2
<1>4. \A i, j \in 1 .. Len(t) : i <= j => t[j] <= t[i]
  <2> SUFFICES ASSUME NEW i \in 1 .. Len(t), NEW j \in 1 .. Len(t), i <= j
               PROVE  t[j] <= t[i]
    OBVIOUS
  <2>1. CASE j = Len(s) + 1
    BY <1>1, <1>3, <2>1
  <2>2. CASE j # Len(s) + 1
    <3>1. i \in 1 .. Len(s) /\ j \in 1 .. Len(s)
      BY <1>1, <2>2
    <3> QED
      BY <1>1, <3>1 DEF Nested
  <2> QED
    BY <2>1, <2>2
<1>5. Nested(t, f, n)
  BY <1>1, <1>3, <1>4 DEF Nested
<1> QED
  BY <1>1, <1>5 DEF t

\* Closing a region, with or without restoring the outer bound, does too.
LEMMA NestedPop ==
  ASSUME NEW s \in Seq(Nat), s # <<>>, NEW e \in Nat, NEW n \in Nat,
         Nested(s, e, n), NEW f \in {e, s[Len(s)]}, e <= n
  PROVE  /\ SubSeq(s, 1, Len(s) - 1) \in Seq(Nat)
         /\ Nested(SubSeq(s, 1, Len(s) - 1), f, n)
         /\ f \in Nat /\ e <= f /\ f <= n
<1> DEFINE t == SubSeq(s, 1, Len(s) - 1)
<1>0. Len(s) \in Nat /\ Len(s) >= 1
  OBVIOUS
<1>1. /\ t \in Seq(Nat) /\ Len(t) = Len(s) - 1
      /\ \A i \in 1 .. Len(t) : t[i] = s[i]
  <2>1. ASSUME NEW k \in Int, k = Len(s) - 1
        PROVE  /\ SubSeq(s, 1, k) \in Seq(Nat) /\ Len(SubSeq(s, 1, k)) = k
               /\ \A i \in 1 .. k : SubSeq(s, 1, k)[i] = s[i]
    <3>1. \A i \in 1 .. k : s[i] \in Nat
      BY <1>0, <2>1
    <3>2. /\ SubSeq(s, 1, k) \in Seq(Nat)
          /\ Len(SubSeq(s, 1, k)) = IF 1 <= k THEN k - 1 + 1 ELSE 0
          /\ \A i \in 1 .. k - 1 + 1 : SubSeq(s, 1, k)[i] = s[1 + i - 1]
      BY <3>1, SubSeqProperties
    <3> QED
      BY <1>0, <2>1, <3>2
  <2>2. PICK k \in Int : k = Len(s) - 1
    BY <1>0
  <2> QED
    BY <2>1, <2>2
<1>2. \A i \in 1 .. Len(s) : s[i] \in Nat
  OBVIOUS
<1> HIDE DEF t
<1>3. f \in Nat /\ e <= f /\ f <= n
  BY <1>0, <1>2 DEF Nested
<1>4. \A i \in 1 .. Len(t) : i \in 1 .. Len(s) /\ i <= Len(s) /\ Len(s) \in 1 .. Len(s)
  BY <1>0, <1>1
<1>5. \A i \in 1 .. Len(t) : f <= t[i] /\ t[i] <= n
  BY <1>1, <1>4 DEF Nested
<1>6. \A i, j \in 1 .. Len(t) : i <= j => t[j] <= t[i]
  BY <1>1, <1>4 DEF Nested
<1>7. Nested(t, f, n)
  BY <1>5, <1>6 DEF Nested
<1> QED
  BY <1>1, <1>3, <1>7 DEF t

\* Every method of the Reader preserves the invariant, whatever the caller.
LEMMA MethodInv ==
  ASSUME Inv, Method
  PROVE  Inv'
<1> USE ReaderAssumption, WireAssumption DEF Inv, TypeOK, RegionsNested, Returned
<1>0. \A e \in Errors : e # "nil"
  BY DEF Errors
<1>1. ASSUME Stuck PROVE Inv'
  BY <1>1 DEF Stuck, Failure
<1>2. ASSUME VarintFails PROVE Inv'
  BY <1>2, UvarintErrorType DEF VarintFails, setErr, Failure
<1>3. ASSUME NEW e \in Errors, Fail(e) PROVE Inv'
  BY <1>3 DEF Fail, setErr, Failure
<1>4. ASSUME NEW n \in Nat, NEW v \in Nat, pos + n <= end, Advance(n, Value(v)) PROVE Inv'
  BY <1>4 DEF Advance, Value
<1>6. CASE ReadTag
  <2>1. ASSUME NEW r \in readUvarint(buf, pos, end),
               pos' = pos + r[1], setErr(KeyError(r[2])),
               ret' = IF KeyError(r[2]) = "nil"
                        THEN Tagged(KeyTag(r[2]), KeyWire(r[2]))
                        ELSE Failure(KeyError(r[2])),
               UNCHANGED <<buf, end, saved>>
        PROVE  Inv'
    <3>1. r[1] \in Nat /\ pos + r[1] <= end /\ r[2] \in Nat
      BY ReadUvarintInRegion
    <3>2. KeyTag(r[2]) \in Nat /\ KeyWire(r[2]) \in Nat
      BY <3>1 DEF KeyTag, KeyWire
    <3>3. KeyError(r[2]) \in {"nil"} \cup Errors
      BY DEF KeyError, Errors
    <3>4. err' \in {"nil"} \cup Errors /\ ret' \in Returned
      BY <2>1, <3>2, <3>3 DEF setErr, Tagged, Failure
    <3> QED
      BY <2>1, <3>1, <3>4
  <2> QED
    BY <1>1, <1>2, <1>6, <2>1 DEF ReadTag
<1>7. ASSUME ReadUvarint PROVE Inv'
  <2>1. ASSUME NEW r \in readUvarint(buf, pos, end), Advance(r[1], Value(r[2]))
        PROVE  Inv'
    BY <1>4, <2>1, ReadUvarintInRegion
  <2> QED
    BY <1>1, <1>2, <1>7, <2>1 DEF ReadUvarint
<1>8. ASSUME NEW n \in {Fixed32Size, Fixed64Size}, ReadFixed(n) PROVE Inv'
  <2>1. n \in Nat /\ "ErrTruncated" \in Errors
    BY DEF Errors
  <2> QED
    BY <1>1, <1>3, <1>4, <1>8, <2>1 DEF ReadFixed, remaining
<1>9. ASSUME ReadBytes PROVE Inv'
  <2>1. ASSUME NEW r \in readUvarint(buf, pos, end),
               end - (pos + r[1]) < r[2],
               pos' = pos + r[1], setErr("ErrTruncated"),
               ret' = Failure(IF err = "nil" THEN "ErrTruncated" ELSE err),
               UNCHANGED <<buf, end, saved>>
        PROVE  Inv'
    BY <2>1, ReadUvarintInRegion DEF setErr, Failure, Errors
  <2>2. ASSUME NEW r \in readUvarint(buf, pos, end),
               ~ (end - (pos + r[1]) < r[2]),
               Advance(r[1] + ToInt(r[2]), Value(ToInt(r[2])))
        PROVE  Inv'
    <3>1. /\ r[1] \in Nat /\ r[2] \in Nat /\ pos + r[1] <= end
      BY ReadUvarintInRegion
    <3>1a. Len(buf) \in Nat /\ pos + r[1] \in Nat /\ r[2] <= end - (pos + r[1])
      BY <2>2, <3>1
    <3>1b. ToInt(r[2]) = r[2]
      BY <3>1, <3>1a, LengthFits
    <3> QED
      BY <1>4, <2>2, <3>1, <3>1b
  <2> QED
    BY <1>2, <1>9, <2>1, <2>2 DEF ReadBytes
<1>10. CASE ReadLength
  <2>1. ASSUME NEW r \in readUvarint(buf, pos, end),
               pos' = pos + r[1],
               IF r[2] > end - (pos + r[1])
                 THEN /\ setErr("ErrTruncated")
                      /\ ret' = Failure(IF err = "nil" THEN "ErrTruncated" ELSE err)
                 ELSE ret' = Value(ToInt(r[2])) /\ UNCHANGED err,
               UNCHANGED <<buf, end, saved>>
        PROVE  Inv'
    <3>1. /\ r[1] \in Nat /\ r[2] \in Nat /\ pos + r[1] <= end
      BY ReadUvarintInRegion
    <3>1a. Len(buf) \in Nat /\ pos + r[1] \in Nat
      BY <3>1
    <3>1b. r[2] <= end - (pos + r[1]) => ToInt(r[2]) = r[2]
      BY <3>1, <3>1a, LengthFits
    <3>2. err' \in {"nil"} \cup Errors /\ ret' \in Returned
      <4>1. CASE r[2] > end - (pos + r[1])
        BY <2>1, <4>1 DEF setErr, Failure, Errors
      <4>2. CASE ~ (r[2] > end - (pos + r[1]))
        <5>1. ToInt(r[2]) \in Nat
          BY <3>1, <3>1a, <3>1b, <4>2
        <5> QED
          BY <2>1, <4>2, <5>1 DEF Value
      <4> QED
        BY <4>1, <4>2
    <3> QED
      BY <2>1, <3>1, <3>2
  <2> QED
    BY <1>2, <1>10, <2>1 DEF ReadLength
<1>11. ASSUME NEW z \in BOOLEAN, ReadPresenceByte(z) PROVE Inv'
  <2>1. ASSUME remaining >= 1, pos' = pos + 1,
               IF buf[pos + 1] \in PresenceStates(z)
                 THEN ret' = Value(buf[pos + 1]) /\ UNCHANGED err
                 ELSE setErr("ErrInvalidPresence") /\ ret' = Failure("ErrInvalidPresence"),
               UNCHANGED <<buf, end, saved>>
        PROVE  Inv'
    BY <2>1 DEF remaining, PresenceStates, Value, Failure, setErr, Errors
  <2>2. "ErrTruncated" \in Errors
    BY DEF Errors
  <2> QED
    BY <1>1, <1>3, <1>11, <2>1, <2>2 DEF ReadPresenceByte
<1>12. CASE BeginLengthDelim
  <2>1. ASSUME NEW r \in readUvarint(buf, pos, end),
               pos' = pos + r[1], UNCHANGED buf,
               end - (pos + r[1]) < r[2],
               setErr("ErrTruncated"),
               ret' = Failure(IF err = "nil" THEN "ErrTruncated" ELSE err),
               UNCHANGED <<end, saved>>
        PROVE  Inv'
    BY <2>1, ReadUvarintInRegion DEF setErr, Failure, Errors
  <2>2. ASSUME NEW r \in readUvarint(buf, pos, end),
               pos' = pos + r[1], UNCHANGED buf,
               ~ (end - (pos + r[1]) < r[2]),
               end' = pos + r[1] + ToInt(r[2]),
               saved' = Append(saved, end),
               ret' = Value(end), UNCHANGED err
        PROVE  Inv'
    <3>1. /\ r[1] \in Nat /\ r[2] \in Nat /\ pos + r[1] <= end
      BY ReadUvarintInRegion
    <3>1a. Len(buf) \in Nat /\ pos + r[1] \in Nat /\ r[2] <= end - (pos + r[1])
      <4> HIDE DEF Returned
      <4> QED BY <2>2, <3>1, Z3T(30)
    <3>1b. ToInt(r[2]) = r[2]
      BY <3>1, <3>1a, LengthFits
    <3>2. end' \in Nat /\ pos' \in Nat /\ pos' <= end' /\ end' <= end /\ end' <= Len(buf')
      <4>1. pos' = pos + r[1] /\ end' = pos + r[1] + r[2] /\ Len(buf') = Len(buf)
        BY <2>2, <3>1b
      <4>2. end <= Len(buf) /\ end \in Nat /\ pos \in Nat
        OBVIOUS
      <4>3. pos + r[1] \in Nat /\ pos + r[1] + r[2] \in Nat /\ pos + r[1] <= pos + r[1] + r[2]
            /\ pos + r[1] + r[2] <= end
        BY <3>1, <3>1a, <4>2, RegionFits
      <4> QED
        BY <4>1, <4>2, <4>3
    <3>3. saved' \in Seq(Nat) /\ Nested(saved', end', Len(buf'))
      BY <2>2, <3>2, NestedPush
    <3>4. ret' \in Returned
      BY <2>2 DEF Value
    <3> QED
      BY <2>2, <3>2, <3>3, <3>4
  <2> QED
    BY <1>2, <1>12, <2>1, <2>2 DEF BeginLengthDelim
<1>13. CASE EndLengthDelim
  <2>1. /\ pos' = pos /\ buf' = buf /\ saved # <<>>
        /\ saved' = SubSeq(saved, 1, Len(saved) - 1)
        /\ end' \in {end, saved[Len(saved)]}
    BY <1>13 DEF EndLengthDelim
  <2>2. err' \in {"nil"} \cup Errors /\ ret' \in Returned
    BY <1>13 DEF EndLengthDelim, setErr, Failure, Value, Errors
  <2>3. Len(buf) \in Nat
    OBVIOUS
  <2>4. /\ saved' \in Seq(Nat) /\ Nested(saved', end', Len(buf))
        /\ end' \in Nat /\ end <= end' /\ end' <= Len(buf)
    BY <2>1, <2>3, NestedPop
  <2> QED
    BY <2>1, <2>2, <2>4
<1>14. ASSUME NEW wt, SkipField(wt) PROVE Inv'
  <2>1. "ErrReservedWire" \in Errors
    BY DEF Errors
  <2> QED
    BY <1>1, <1>3, <1>7, <1>8, <1>9, <1>14, <2>1 DEF SkipField
<1>15. ASSUME NEW n \in Nat, MakeSlice(n) PROVE Inv'
  <2>1. n \in Nat /\ "ErrAllocTooLarge" \in Errors
    BY DEF Errors
  <2>2. CASE n > MaxSliceAlloc
    BY <1>3, <1>15, <2>1, <2>2 DEF MakeSlice
  <2>3. CASE ~ (n > MaxSliceAlloc)
    BY <1>15, <2>1, <2>3 DEF MakeSlice, Value
  <2> QED
    BY <2>2, <2>3
<1> QED
  BY <1>6, <1>7, <1>8, <1>9, <1>10, <1>11, <1>12, <1>13, <1>14, <1>15 DEF Method

\* So do Reset and a caller's own steps.
LEMMA StepInv ==
  ASSUME Inv, [Next]_vars
  PROVE  Inv'
<1>1. ASSUME NEW src \in ResetInputs, Reset(src) PROVE Inv'
  BY <1>1, ReaderAssumption DEF Reset, Value, Nested, Inv, TypeOK, RegionsNested, Returned
<1>2. CASE UNCHANGED vars
  BY <1>2 DEF vars, Inv, TypeOK, RegionsNested
<1>3. 0 .. MaxSliceAlloc + 1 \subseteq Nat
  BY ReaderAssumption
<1> QED
  BY <1>1, <1>2, <1>3, MethodInv DEF Next, Method

\* No decoder can drive the reader out of its input: for every input, radix
\* and call order, the types hold and the regions stay nested.
THEOREM ReaderSafe == Spec => [](TypeOK /\ RegionsNested)
<1>1. Init => Inv
  BY ReaderAssumption DEF Init, NewReader, Inv, TypeOK, RegionsNested, Returned, Value, Nested
<1>2. Inv /\ [Next]_vars => Inv'
  BY StepInv
<1>3. Inv => TypeOK /\ RegionsNested
  BY DEF Inv
<1> QED
  BY <1>1, <1>2, <1>3, PTL DEF Spec

\* Whatever the caller does after a failure, Err keeps naming the first one
\* until the reader is Reset.
THEOREM ErrorSticks == Spec => FirstErrorSticks
<1> DEFINE Keeps == err # "nil" => err' = err \/ (pos' = 0 /\ saved' = <<>> /\ err' = "nil")
<1>1. ASSUME [Next]_vars PROVE [Keeps]_vars
  <2>1. ASSUME NEW src \in ResetInputs, Reset(src) PROVE Keeps
    BY <2>1 DEF Reset
  <2>2. ASSUME ReadTag PROVE Keeps
    BY <2>2 DEF ReadTag, Stuck, VarintFails, setErr
  <2>3. ASSUME ReadUvarint PROVE Keeps
    BY <2>3 DEF ReadUvarint, Stuck, VarintFails, setErr, Advance
  <2>4. ASSUME NEW n, ReadFixed(n) PROVE Keeps
    BY <2>4 DEF ReadFixed, Stuck, Fail, setErr, Advance
  <2>5. ASSUME ReadBytes PROVE Keeps
    BY <2>5 DEF ReadBytes, VarintFails, setErr, Advance
  <2>6. ASSUME ReadLength PROVE Keeps
    BY <2>6 DEF ReadLength, VarintFails, setErr
  <2>7. ASSUME NEW n, MakeSlice(n) PROVE Keeps
    BY <2>7 DEF MakeSlice, Fail, setErr
  <2>8. ASSUME NEW z, ReadPresenceByte(z) PROVE Keeps
    BY <2>8 DEF ReadPresenceByte, Stuck, Fail, setErr
  <2>9. ASSUME BeginLengthDelim PROVE Keeps
    BY <2>9 DEF BeginLengthDelim, VarintFails, setErr
  <2>10. ASSUME EndLengthDelim PROVE Keeps
    BY <2>10 DEF EndLengthDelim, setErr
  <2>11. ASSUME NEW wt, SkipField(wt) PROVE Keeps
    BY <2>3, <2>4, <2>5, <2>11 DEF SkipField, Stuck, Fail, setErr
  <2>12. CASE UNCHANGED vars
    BY <2>12 DEF vars
  <2> HIDE DEF Keeps
  <2> QED
    BY <1>1, <2>1, <2>2, <2>3, <2>4, <2>5, <2>6, <2>7, <2>8, <2>9, <2>10, <2>11, <2>12 DEF Next
<1> QED
  BY <1>1, PTL DEF Spec, FirstErrorSticks

-----------------------------------------------------------------------------
(* The generated decoder.  While it runs, no error is pending, its frames   *)
(* owe the reader one EndLengthDelim for every saved bound, and the frame   *)
(* at the bottom is a tag loop, the root's; the outermost bound is the end  *)
(* of the input.                                                            *)

IsStack(s) == \E S : s \in Seq(S)

Ends(s) == Cardinality({i \in DOMAIN s : s[i].op = "end"})

Counted(s) == \A i \in DOMAIN s : s[i].op = "alloc" => s[i].n \in Nat

\* Frames that end in a tag loop and close n regions.
Owe(s, n) ==
  /\ IsStack(s) /\ Counted(s) /\ Ends(s) = n
  /\ s # <<>> /\ s[Len(s)].op = "loop"

Rooted == IF saved = <<>> THEN end = Len(buf) ELSE saved[1] = Len(buf)

Running ==
  /\ err = "nil"
  /\ Rooted
  /\ \/ Owe(todo, Len(saved))
     \/ todo = <<>> /\ saved = <<>> /\ pos = end

DInv ==
  /\ Inv
  /\ outcome = "running" => Running
  /\ AcceptsWholeInput

\* The frames of two stacks put together.
LEMMA JoinStacks ==
  ASSUME NEW s, NEW t, IsStack(s), IsStack(t)
  PROVE  /\ IsStack(s \o t) /\ Len(s) \in Nat /\ Len(t) \in Nat
         /\ Len(s \o t) = Len(s) + Len(t)
         /\ DOMAIN s = 1 .. Len(s) /\ DOMAIN t = 1 .. Len(t)
         /\ DOMAIN (s \o t) = 1 .. Len(s) + Len(t)
         /\ \A i \in 1 .. Len(s) + Len(t) :
              (s \o t)[i] = IF i <= Len(s) THEN s[i] ELSE t[i - Len(s)]
<1>1. PICK S : s \in Seq(S)
  BY DEF IsStack
<1>2. PICK T : t \in Seq(T)
  BY DEF IsStack
<1>3. s \in Seq(S \cup T) /\ t \in Seq(S \cup T)
  BY <1>1, <1>2
<1>4. /\ s \o t \in Seq(S \cup T) /\ Len(s \o t) = Len(s) + Len(t)
      /\ \A i \in 1 .. Len(s) + Len(t) :
           (s \o t)[i] = IF i <= Len(s) THEN s[i] ELSE t[i - Len(s)]
  BY <1>3, ConcatProperties
<1>5. Len(s) \in Nat /\ Len(t) \in Nat /\ DOMAIN s = 1 .. Len(s) /\ DOMAIN t = 1 .. Len(t)
  BY <1>3
<1>6. DOMAIN (s \o t) = 1 .. Len(s) + Len(t)
  BY <1>4
<1> QED BY <1>4, <1>5, <1>6 DEF IsStack

\* The regions two stacks close are those the one and the other close.
LEMMA JoinEnds ==
  ASSUME NEW s, NEW t, IsStack(s), IsStack(t)
  PROVE  Ends(s) \in Nat /\ Ends(t) \in Nat /\ Ends(s \o t) = Ends(s) + Ends(t)
<1> DEFINE A == {i \in DOMAIN s : s[i].op = "end"}
           B == {i \in DOMAIN t : t[i].op = "end"}
           C == {i \in DOMAIN (s \o t) : (s \o t)[i].op = "end"}
           D == {i \in C : i > Len(s)}
           f == [i \in B |-> i + Len(s)]
<1>1. /\ Len(s) \in Nat /\ Len(t) \in Nat
      /\ DOMAIN s = 1 .. Len(s) /\ DOMAIN t = 1 .. Len(t)
      /\ DOMAIN (s \o t) = 1 .. Len(s) + Len(t)
      /\ \A i \in 1 .. Len(s) + Len(t) :
           (s \o t)[i] = IF i <= Len(s) THEN s[i] ELSE t[i - Len(s)]
  BY JoinStacks
<1>2. IsFiniteSet(A) /\ IsFiniteSet(B) /\ IsFiniteSet(C) /\ IsFiniteSet(D)
  <2>1. /\ IsFiniteSet(1 .. Len(s)) /\ IsFiniteSet(1 .. Len(t))
        /\ IsFiniteSet(1 .. Len(s) + Len(t))
    BY <1>1, FS_Interval
  <2>2. A \subseteq 1 .. Len(s) /\ B \subseteq 1 .. Len(t) /\ C \subseteq 1 .. Len(s) + Len(t)
        /\ D \subseteq 1 .. Len(s) + Len(t)
    BY <1>1
  <2> QED BY <2>1, <2>2, FS_Subset
<1>3. C = A \cup D /\ A \cap D = {}
  BY <1>1
<1>4. f \in Bijection(B, D)
  <2>1. \A i \in B : i \in Int /\ i + Len(s) \in D
    BY <1>1
  <2>2. \A j \in D : j - Len(s) \in B /\ j = (j - Len(s)) + Len(s)
    BY <1>1
  <2>3. \A j \in D : \E i \in B : f[i] = j
    BY <2>2
  <2>4. \A i, j \in B : f[i] = f[j] => i = j
    BY <1>1, <2>1
  <2>5. f \in [B -> D]
    BY <2>1
  <2> HIDE DEF f, B, D
  <2> QED BY <2>3, <2>4, <2>5 DEF Bijection, Injection, Surjection, IsInjective
<1>5. Cardinality(D) = Cardinality(B)
  BY <1>2, <1>4, FS_Bijection DEF ExistsBijection
<1>6. Cardinality(A) \in Nat /\ Cardinality(B) \in Nat
  BY <1>2, FS_CardinalityType
<1>7. Cardinality(C) = Cardinality(A) + Cardinality(D)
  <2>1. Cardinality(A \cup D) = Cardinality(A) + Cardinality(D) - Cardinality(A \cap D)
    BY <1>2, FS_Union
  <2>2. Cardinality(A \cap D) = 0
    BY <1>3, FS_EmptySet
  <2> HIDE DEF A, B, C, D
  <2> QED BY <1>3, <1>5, <1>6, <2>1, <2>2
<1> QED BY <1>5, <1>6, <1>7 DEF Ends

\* Frames pushed on a stack add what they close.
LEMMA Push ==
  ASSUME NEW s, NEW n, Owe(s, n), NEW k, IsStack(k), Counted(k), NEW m, Ends(k) = m
  PROVE  Owe(k \o s, m + n)
<1>1. IsStack(s) /\ Ends(k \o s) = m + n
  BY JoinEnds DEF Owe
<1>2. /\ IsStack(k \o s) /\ Len(k) \in Nat /\ Len(s) \in Nat
      /\ Len(k \o s) = Len(k) + Len(s)
      /\ DOMAIN k = 1 .. Len(k) /\ DOMAIN s = 1 .. Len(s)
      /\ DOMAIN (k \o s) = 1 .. Len(k) + Len(s)
      /\ \A i \in 1 .. Len(k) + Len(s) :
           (k \o s)[i] = IF i <= Len(k) THEN k[i] ELSE s[i - Len(k)]
  BY <1>1, JoinStacks
<1>3. Len(s) >= 1
  <2>1. PICK S : s \in Seq(S)
    BY <1>1 DEF IsStack
  <2> QED BY <2>1 DEF Owe
<1> DEFINE j == k \o s
           a == Len(k)
           b == Len(s)
<1> HIDE DEF j, a, b
<1>4. /\ a \in Nat /\ b \in Nat /\ b >= 1 /\ DOMAIN k = 1 .. a /\ DOMAIN s = 1 .. b
      /\ Len(j) = a + b /\ DOMAIN j = 1 .. a + b
      /\ \A i \in 1 .. a + b : j[i] = IF i <= a THEN k[i] ELSE s[i - a]
  BY <1>2, <1>3 DEF j, a, b
<1>5. j # <<>> /\ j[Len(j)] = s[b]
  <2>1. a + b \in 1 .. a + b /\ ~ (a + b <= a) /\ (a + b) - a = b
    BY <1>4
  <2>2. j[Len(j)] = s[b]
    BY <1>4, <2>1
  <2>3. j # <<>>
    <3>1. Len(<<>>) = 0 /\ a + b # 0
      BY <1>4
    <3> QED BY <1>4, <3>1
  <2> QED BY <2>2, <2>3
<1>6. Counted(j)
  <2> SUFFICES ASSUME NEW i \in 1 .. a + b, j[i].op = "alloc" PROVE j[i].n \in Nat
    BY <1>4 DEF Counted
  <2>1. CASE i <= a
    BY <1>4, <2>1 DEF Counted
  <2>2. CASE ~ (i <= a)
    <3>1. i - a \in 1 .. b
      BY <1>4, <2>2
    <3> QED BY <1>4, <2>2, <3>1 DEF Counted, Owe
  <2> QED BY <2>1, <2>2
<1>7. j[Len(j)].op = "loop"
  BY <1>5 DEF Owe, b
<1> QED BY <1>1, <1>2, <1>5, <1>6, <1>7 DEF Owe, j

\* What a stack of one or two frames, or none, closes.
LEMMA Short ==
  /\ IsStack(<<>>) /\ Ends(<<>>) = 0 /\ Counted(<<>>)
  /\ \A x : /\ IsStack(<<x>>)
            /\ (x.op = "alloc" => x.n \in Nat) => Counted(<<x>>)
            /\ Ends(<<x>>) = IF x.op = "end" THEN 1 ELSE 0
  /\ \A x, y : x.op \notin {"end", "alloc"} /\ y.op \notin {"end", "alloc"} =>
                 IsStack(<<x, y>>) /\ Counted(<<x, y>>) /\ Ends(<<x, y>>) = 0
<1>1. IsStack(<<>>) /\ Ends(<<>>) = 0 /\ Counted(<<>>)
  <2>1. <<>> \in Seq({}) /\ {i \in DOMAIN <<>> : <<>>[i].op = "end"} = {}
    OBVIOUS
  <2> QED BY <2>1, FS_EmptySet DEF IsStack, Ends, Counted
<1>2. ASSUME NEW x
      PROVE  /\ IsStack(<<x>>)
             /\ (x.op = "alloc" => x.n \in Nat) => Counted(<<x>>)
             /\ Ends(<<x>>) = IF x.op = "end" THEN 1 ELSE 0
  <2>1. <<x>> \in Seq({x}) /\ DOMAIN <<x>> = {1} /\ <<x>>[1] = x
    OBVIOUS
  <2>2. {i \in DOMAIN <<x>> : <<x>>[i].op = "end"} = IF x.op = "end" THEN {1} ELSE {}
    BY <2>1
  <2>3. Ends(<<x>>) = IF x.op = "end" THEN 1 ELSE 0
    BY <2>2, FS_EmptySet, FS_Singleton DEF Ends
  <2>4. IsStack(<<x>>)
    BY <2>1 DEF IsStack
  <2> QED BY <2>1, <2>3, <2>4 DEF Counted
<1>3. ASSUME NEW x, NEW y, x.op \notin {"end", "alloc"}, y.op \notin {"end", "alloc"}
      PROVE  IsStack(<<x, y>>) /\ Counted(<<x, y>>) /\ Ends(<<x, y>>) = 0
  <2>1. /\ <<x, y>> \in Seq({x, y}) /\ DOMAIN <<x, y>> = {1, 2}
        /\ <<x, y>>[1] = x /\ <<x, y>>[2] = y
    OBVIOUS
  <2>2. {i \in DOMAIN <<x, y>> : <<x, y>>[i].op = "end"} = {}
    BY <1>3, <2>1
  <2>3. Ends(<<x, y>>) = 0
    BY <2>2, FS_EmptySet DEF Ends
  <2>4. IsStack(<<x, y>>)
    BY <2>1 DEF IsStack
  <2> QED BY <1>3, <2>1, <2>3, <2>4 DEF Counted
<1> QED BY <1>1, <1>2, <1>3

\* The frame on top is popped; a loop may be the last.
LEMMA Pop ==
  ASSUME NEW s, NEW n, Owe(s, n)
  PROVE  /\ n \in Nat
         /\ Head(s).op = "end" => n >= 1
         /\ Head(s).op = "alloc" => Head(s).n \in Nat
         /\ \/ Tail(s) = <<>> /\ Head(s).op = "loop" /\ n = 0
            \/ Owe(Tail(s), IF Head(s).op = "end" THEN n - 1 ELSE n)
<1>1. PICK S : s \in Seq(S)
  BY DEF Owe, IsStack
<1> DEFINE h == Head(s)
           t == Tail(s)
<1>2. /\ Len(s) \in Nat /\ Len(s) >= 1 /\ s[1] = h /\ DOMAIN s = 1 .. Len(s)
      /\ t \in Seq(S) /\ Len(t) = Len(s) - 1 /\ \A i \in 1 .. Len(t) : t[i] = s[i + 1]
  <2>1. s # <<>>
    BY DEF Owe
  <2>2. /\ t \in Seq(S) /\ Len(t) = Len(s) - 1 /\ \A i \in 1 .. Len(t) : t[i] = s[i + 1]
    BY <1>1, <2>1, HeadTailProperties
  <2>3. Len(s) \in Nat /\ Len(s) >= 1 /\ s[1] = h /\ DOMAIN s = 1 .. Len(s)
    BY <1>1, <2>1
  <2> QED BY <2>2, <2>3
<1>3. s = <<h>> \o t
  <2>1. h \in S /\ t \in Seq(S) /\ <<h>> \in Seq(S) /\ Len(<<h>>) = 1 /\ <<h>>[1] = h
    BY <1>1, <1>2 DEF Owe
  <2> DEFINE u == <<h>>
  <2> HIDE DEF u, t, h
  <2>2. /\ u \o t \in Seq(S) /\ Len(u \o t) = Len(s)
        /\ \A i \in 1 .. Len(s) : (u \o t)[i] = IF i <= 1 THEN u[i] ELSE t[i - 1]
    <3>1. u \in Seq(S) /\ t \in Seq(S) /\ Len(u) = 1
      BY <2>1 DEF u
    <3>2. /\ u \o t \in Seq(S) /\ Len(u \o t) = Len(u) + Len(t)
          /\ \A i \in 1 .. Len(u) + Len(t) :
               (u \o t)[i] = IF i <= Len(u) THEN u[i] ELSE t[i - Len(u)]
      BY <3>1, ConcatProperties
    <3>3. Len(u) + Len(t) = Len(s)
      BY <1>2, <3>1
    <3> QED BY <3>1, <3>2, <3>3
  <2>3. \A i \in 1 .. Len(s) : (u \o t)[i] = s[i]
    <3> SUFFICES ASSUME NEW i \in 1 .. Len(s) PROVE (u \o t)[i] = s[i]
      OBVIOUS
    <3>1. CASE i = 1
      BY <1>2, <2>1, <2>2, <3>1 DEF u
    <3>2. CASE i # 1
      <4>1. i - 1 \in 1 .. Len(t) /\ (i - 1) + 1 = i /\ ~ (i <= 1)
        BY <1>2, <3>2
      <4> QED BY <1>2, <2>2, <4>1
    <3> QED BY <3>1, <3>2
  <2>4. \A a, b \in Seq(S) : Len(a) = Len(b) /\ (\A i \in 1 .. Len(b) : a[i] = b[i]) => a = b
    OBVIOUS
  <2>5. s = u \o t
    BY <1>1, <2>2, <2>3, <2>4
  <2> QED BY <2>5 DEF u
<1>4. IsStack(t) /\ IsStack(<<h>>) /\ Ends(<<h>>) = IF h.op = "end" THEN 1 ELSE 0
  BY <1>2, Short DEF IsStack
<1>5. Ends(t) \in Nat /\ n = Ends(<<h>>) + Ends(t)
  <2>1. Ends(<<h>>) \in Nat /\ Ends(t) \in Nat /\ Ends(<<h>> \o t) = Ends(<<h>>) + Ends(t)
    BY <1>4, JoinEnds
  <2>2. Ends(s) = n
    BY DEF Owe
  <2> HIDE DEF t, h
  <2> QED BY <1>3, <2>1, <2>2
<1>6. h.op = "alloc" => h.n \in Nat
  BY <1>2 DEF Owe, Counted
<1> HIDE DEF h, t
<1>7. CASE Len(s) = 1
  <2>1. t = <<>> /\ h.op = "loop"
    BY <1>2, <1>7 DEF Owe
  <2>2. Ends(t) = 0 /\ Ends(<<h>>) = 0
    BY <1>4, <2>1, Short
  <2>3. n = 0 /\ n \in Nat /\ h.op # "end"
    BY <1>5, <2>1, <2>2
  <2> QED BY <1>6, <2>1, <2>3 DEF h, t
<1>8. CASE Len(s) # 1
  <2>1. t # <<>> /\ Len(t) \in 1 .. Len(t) /\ Len(t) + 1 = Len(s)
    BY <1>2, <1>8
  <2>2. t[Len(t)].op = "loop"
    BY <1>2, <2>1 DEF Owe
  <2>3. Counted(t)
    <3>1. \A i \in 1 .. Len(t) : i + 1 \in 1 .. Len(s)
      BY <1>2
    <3>2. DOMAIN t = 1 .. Len(t)
      BY <1>2
    <3> QED BY <1>2, <3>1, <3>2 DEF Owe, Counted
  <2>4. Ends(t) = IF h.op = "end" THEN n - 1 ELSE n
    BY <1>4, <1>5
  <2>5. n \in Nat /\ (h.op = "end" => n >= 1)
    BY <1>4, <1>5
  <2> QED BY <1>4, <1>6, <2>1, <2>2, <2>3, <2>4, <2>5 DEF Owe, h, t
<1> QED BY <1>2, <1>7, <1>8


-----------------------------------------------------------------------------
(* The steps of the decoder.                                                *)

\* What a method leaves alone that opens and closes no region.
Quiet == UNCHANGED <<buf, end, saved>> /\ (ret'.err = "nil" => err' = "nil")

\* All methods but two are such, and none of them reports an error as success.
LEMMA QuietMethods ==
  ASSUME err = "nil"
  PROVE  /\ ReadTag \/ ReadUvarint \/ ReadBytes \/ ReadLength => Quiet
         /\ \A x : ReadFixed(x) \/ MakeSlice(x) \/ ReadPresenceByte(x) \/ SkipField(x) => Quiet
<1>1. ASSUME VarintFails PROVE Quiet
  <2>1. uvarintError(buf, pos, end) # "nil"
    BY UvarintErrorType DEF Errors
  <2> QED BY <1>1, <2>1 DEF VarintFails, Failure, Quiet
<1>2. ASSUME NEW e, e # "nil", Fail(e) PROVE Quiet
  BY <1>2 DEF Fail, Failure, Quiet
<1>3. ASSUME NEW n, NEW x, Advance(n, x) PROVE Quiet
  BY <1>3 DEF Advance, Quiet
<1>4. ~ Stuck
  BY DEF Stuck
<1>5. ASSUME ReadTag PROVE Quiet
  <2>1. ASSUME NEW x \in readUvarint(buf, pos, end),
               setErr(KeyError(x[2])),
               ret' = IF KeyError(x[2]) = "nil"
                        THEN Tagged(KeyTag(x[2]), KeyWire(x[2]))
                        ELSE Failure(KeyError(x[2])),
               UNCHANGED <<buf, end, saved>>
        PROVE  Quiet
    BY <2>1 DEF setErr, Failure, Quiet
  <2> QED BY <1>1, <1>4, <1>5, <2>1 DEF ReadTag
<1>6. ASSUME ReadUvarint PROVE Quiet
  BY <1>1, <1>3, <1>4, <1>6 DEF ReadUvarint
<1>7. ASSUME ReadBytes PROVE Quiet
  <2>1. ASSUME ret' = Failure(IF err = "nil" THEN "ErrTruncated" ELSE err),
               UNCHANGED <<buf, end, saved>>
        PROVE  Quiet
    BY <2>1 DEF Failure, Quiet
  <2> QED BY <1>1, <1>3, <1>7, <2>1 DEF ReadBytes
<1>8. ASSUME ReadLength PROVE Quiet
  <2>1. ASSUME UNCHANGED <<buf, end, saved>>,
               \/ ret' = Failure(IF err = "nil" THEN "ErrTruncated" ELSE err)
               \/ UNCHANGED err
        PROVE  Quiet
    BY <2>1 DEF Failure, Quiet
  <2> QED BY <1>1, <1>8, <2>1 DEF ReadLength
<1>9. ASSUME NEW n, ReadFixed(n) PROVE Quiet
  BY <1>2, <1>3, <1>4, <1>9 DEF ReadFixed
<1>10. ASSUME NEW n, MakeSlice(n) PROVE Quiet
  <2>1. CASE n > MaxSliceAlloc
    BY <1>2, <1>10, <2>1 DEF MakeSlice
  <2>2. CASE ~ (n > MaxSliceAlloc)
    BY <1>10, <2>2 DEF MakeSlice, Quiet
  <2> QED BY <2>1, <2>2
<1>11. ASSUME NEW z, ReadPresenceByte(z) PROVE Quiet
  <2>1. ASSUME UNCHANGED <<buf, end, saved>>,
               \/ ret' = Failure("ErrInvalidPresence")
               \/ UNCHANGED err
        PROVE  Quiet
    BY <2>1 DEF Failure, Quiet
  <2> QED BY <1>2, <1>4, <1>11, <2>1 DEF ReadPresenceByte
<1>12. ASSUME NEW wt, SkipField(wt) PROVE Quiet
  BY <1>2, <1>4, <1>6, <1>7, <1>9, <1>12 DEF SkipField
<1> QED BY <1>5, <1>6, <1>7, <1>8, <1>9, <1>10, <1>11, <1>12

\* An error ends the decode, whoever met it.
LEMMA ReturnKeeps ==
  ASSUME Inv', NEW e, e \notin {"running", "ok"}, Return(e)
  PROVE  DInv'
BY DEF Return, DInv, AcceptsWholeInput

\* The decode goes on with k, which closes what is open.
LEMMA ThenKeeps ==
  ASSUME outcome = "running", Inv', NEW k, NEW stores, Then(k, stores),
         ret'.err = "nil" => err' = "nil" /\ Rooted' /\ Owe(k, Len(saved'))
  PROVE  DInv'
<1>1. CASE ret'.err = "nil"
  <2>1. todo' = k /\ outcome' = "running" /\ err' = "nil" /\ Rooted' /\ Owe(k, Len(saved'))
    BY <1>1 DEF Then
  <2>2. Owe(todo', Len(saved'))
    BY <2>1
  <2>3. Running'
    BY <2>1, <2>2 DEF Running
  <2> QED BY <2>1, <2>3 DEF DInv, AcceptsWholeInput
<1>2. CASE ret'.err # "nil"
  <2>1. ret'.err \in Errors
    BY <1>2 DEF Inv, TypeOK, Returned
  <2>2. outcome' \notin {"running", "ok"}
    BY <1>2, <2>1 DEF Then, Errors
  <2> QED BY <2>2 DEF DInv, AcceptsWholeInput
<1> QED BY <1>1, <1>2

\* The frame on top and the frames below it.
LEMMA Top ==
  ASSUME DInv, outcome = "running", todo # <<>>
  PROVE  /\ Inv /\ err = "nil" /\ Rooted
         /\ Len(saved) \in Nat /\ Owe(todo, Len(saved))
         /\ Now.op \notin {"loop", "end"} => Owe(Rest, Len(saved))
         /\ Now.op = "alloc" => Now.n \in Nat
         /\ Now.op = "end" => Len(saved) >= 1 /\ Owe(Rest, Len(saved) - 1)
         /\ Now.op = "loop" => (Rest = <<>> /\ saved = <<>>) \/ Owe(Rest, Len(saved))
<1>1. Inv /\ err = "nil" /\ Rooted /\ Owe(todo, Len(saved)) /\ saved \in Seq(Nat)
  BY DEF DInv, Running, Inv, TypeOK
<1> DEFINE n == Len(saved)
<1>2. n = 0 => saved = <<>>
  BY <1>1
<1> HIDE DEF n
<1>3. /\ n \in Nat
      /\ Now.op = "end" => n >= 1
      /\ Now.op = "alloc" => Now.n \in Nat
      /\ \/ Rest = <<>> /\ Now.op = "loop" /\ n = 0
         \/ Owe(Rest, IF Now.op = "end" THEN n - 1 ELSE n)
  <2>1. Owe(todo, n)
    BY <1>1 DEF n
  <2> QED BY <2>1, Pop, Zenon DEF Now, Rest
<1> QED BY <1>1, <1>2, <1>3 DEF n

\* The frame on top makes one quiet call and is replaced by frames that close
\* nothing, or put on the stack again below them.
LEMMA QuietThen ==
  ASSUME DInv, outcome = "running", todo # <<>>, Inv', Quiet,
         NEW k, NEW stores, IsStack(k), Counted(k), Ends(k) = 0,
         \/ Then(k \o todo, stores)
         \/ Now.op \notin {"loop", "end"} /\ Then(k \o Rest, stores)
         \/ Now.op \notin {"loop", "end"} /\ Then(Rest, stores)
  PROVE  DInv'
<1>1. /\ Rooted /\ Len(saved) \in Nat /\ Owe(todo, Len(saved))
      /\ Now.op \notin {"loop", "end"} => Owe(Rest, Len(saved))
  BY Top
<1>2. Rooted' /\ saved' = saved /\ (ret'.err = "nil" => err' = "nil")
  BY <1>1 DEF Quiet, Rooted
<1>3. \A s : Owe(s, Len(saved)) => Owe(k \o s, Len(saved))
  <2> SUFFICES ASSUME NEW s, Owe(s, Len(saved)) PROVE Owe(k \o s, Len(saved))
    OBVIOUS
  <2>1. Owe(k \o s, 0 + Len(saved))
    BY Push
  <2> QED BY <1>1, <2>1
<1>4. CASE Then(k \o todo, stores)
  BY <1>1, <1>2, <1>3, <1>4, ThenKeeps
<1>5. CASE Now.op \notin {"loop", "end"} /\ Then(k \o Rest, stores)
  BY <1>1, <1>2, <1>3, <1>5, ThenKeeps
<1>6. CASE Now.op \notin {"loop", "end"} /\ Then(Rest, stores)
  BY <1>1, <1>2, <1>6, ThenKeeps
<1> QED BY <1>4, <1>5, <1>6


LEMMA NextFieldKeeps == ASSUME DInv, NextField PROVE DInv'
<1>1. outcome = "running" /\ todo # <<>> /\ ReadTag
  BY DEF NextField, At
<1>2. Inv' /\ Quiet
  BY <1>1, Top, MethodInv, QuietMethods DEF Method
<1>3. ASSUME NEW x, NEW stores, x.op \notin {"end", "alloc"}, Then(<<x>> \o todo, stores)
      PROVE  DInv'
  <2>1. IsStack(<<x>>) /\ Counted(<<x>>) /\ Ends(<<x>>) = 0
    BY <1>3, Short
  <2> QED BY <1>1, <1>2, <1>3, <2>1, QuietThen
<1>4. ASSUME NEW t, NEW stores, Then(<<Val(t)>> \o todo, stores) PROVE DInv'
  BY <1>3, <1>4 DEF Val
<1>5. ASSUME NEW wt, NEW stores, Then(<<Skip(wt)>> \o todo, stores) PROVE DInv'
  BY <1>3, <1>5 DEF Skip
<1>6. ASSUME Return("ErrWrongWireType") PROVE DInv'
  BY <1>2, <1>6, ReturnKeeps
<1> QED BY <1>4, <1>5, <1>6 DEF NextField

LEMMA LoopDoneKeeps == ASSUME DInv, LoopDone PROVE DInv'
<1>1. /\ outcome = "running" /\ todo # <<>> /\ Now.op = "loop" /\ ~ HasMore
      /\ UNCHANGED vars
  BY DEF LoopDone, At
<1>2. /\ Inv /\ err = "nil" /\ Rooted
      /\ (Rest = <<>> /\ saved = <<>>) \/ Owe(Rest, Len(saved))
  BY <1>1, Top
<1>3. todo' = Rest /\ outcome' = "running"
  BY <1>1, <1>2 DEF LoopDone
<1>4. pos = end
  BY <1>1, <1>2 DEF HasMore, Inv, TypeOK, RegionsNested
<1>5. Inv' /\ err' = "nil" /\ Rooted' /\ pos' = end' /\ saved' = saved
  BY <1>1, <1>2, <1>4 DEF vars, Inv, TypeOK, RegionsNested, Rooted
<1>6. Running'
  BY <1>2, <1>3, <1>5 DEF Running
<1> QED BY <1>3, <1>5, <1>6 DEF DInv, AcceptsWholeInput

\* A call that opens nothing, after which the frame on top is done with.
LEMMA QuietDone ==
  ASSUME DInv, outcome = "running", todo # <<>>, Now.op \notin {"loop", "end"},
         \/ ReadUvarint \/ ReadBytes
         \/ ReadFixed(Fixed32Size)
         \/ \E wt : SkipField(wt),
         \/ \E e \in {"ErrIntegerOverflow", "ErrCodec"} : Return(e)
         \/ \E stores : Then(Rest, stores)
  PROVE  DInv'
<1>1. Inv' /\ Quiet
  <2>1. Method
    BY DEF Method
  <2> QED BY <2>1, Top, MethodInv, QuietMethods
<1>2. ASSUME NEW e \in {"ErrIntegerOverflow", "ErrCodec"}, Return(e) PROVE DInv'
  BY <1>1, <1>2, ReturnKeeps
<1>3. ASSUME NEW stores, Then(Rest, stores) PROVE DInv'
  BY <1>1, <1>3, Short, QuietThen
<1> QED BY <1>2, <1>3

LEMMA DecodePrimitiveKeeps == ASSUME DInv, DecodePrimitive PROVE DInv'
<1>1. outcome = "running" /\ todo # <<>> /\ Now.op \notin {"loop", "end"}
  BY DEF DecodePrimitive, At
<1>2. ASSUME NEW x, NEW lo, NEW hi, ReadUvarint, StoreInt(x, lo, hi) PROVE DInv'
  BY <1>1, <1>2, QuietDone DEF StoreInt
<1>3. ASSUME NEW stores, ReadFixed(Fixed32Size) \/ ReadBytes, Then(Rest, stores) PROVE DInv'
  BY <1>1, <1>3, QuietDone
<1> QED BY <1>2, <1>3 DEF DecodePrimitive

LEMMA DecodeCodecKeeps ==
  ASSUME DInv, DecodeSelfFraming \/ DecodeCodecTail \/ SkipUnknown
  PROVE  DInv'
<1>1. outcome = "running" /\ todo # <<>> /\ Now.op \notin {"loop", "end"}
  BY DEF DecodeSelfFraming, DecodeCodecTail, SkipUnknown, At
<1>2. CASE DecodeSelfFraming
  <2>1. ReadBytes /\ (Return("ErrCodec") \/ \E stores : Then(Rest, stores))
    BY <1>2, Zenon DEF DecodeSelfFraming
  <2> QED BY <1>1, <2>1, QuietDone
<1>3. CASE DecodeCodecTail
  <2>1. ReadUvarint /\ (Return("ErrCodec") \/ \E stores : Then(Rest, stores))
    BY <1>3, Zenon DEF DecodeCodecTail
  <2> QED BY <1>1, <2>1, QuietDone
<1>4. CASE SkipUnknown
  BY <1>1, <1>4, QuietDone DEF SkipUnknown
<1> QED BY <1>2, <1>3, <1>4

LEMMA ReadCountKeeps == ASSUME DInv, ReadCount PROVE DInv'
<1>1. outcome = "running" /\ todo # <<>> /\ Now.op = "count" /\ ReadLength
  BY DEF ReadCount, At
<1>2. Inv' /\ Quiet
  BY <1>1, Top, MethodInv, QuietMethods DEF Method
<1> DEFINE x == IF Now.t.kind = "slice" THEN Alloc(Now.t, ret'.v) ELSE Elems(Now.t, ret'.v)
           stores == <<Stored("count", <<ret'.v>>)>>
<1>3. Then(<<x>> \o Rest, stores)
  BY DEF ReadCount
<1>4. x.op # "end" /\ (x.op = "alloc" => x.n \in Nat)
  BY <1>2 DEF Inv, TypeOK, Returned, Alloc, Elems
<1> HIDE DEF x, stores
<1>5. IsStack(<<x>>) /\ Counted(<<x>>) /\ Ends(<<x>>) = 0
  BY <1>4, Short
<1> QED BY <1>1, <1>2, <1>3, <1>5, QuietThen

LEMMA AllocSliceKeeps == ASSUME DInv, AllocSlice PROVE DInv'
<1>1. outcome = "running" /\ todo # <<>> /\ Now.op = "alloc" /\ MakeSlice(Now.n)
  BY DEF AllocSlice, At
<1>2. Inv' /\ Quiet
  BY <1>1, Top, MethodInv, QuietMethods DEF Method
<1> DEFINE x == Elems(Now.t, Now.n)
<1>3. Then(<<x>> \o Rest, <<>>)
  BY DEF AllocSlice
<1>4. x.op \notin {"end", "alloc"}
  BY DEF Elems
<1> HIDE DEF x
<1>5. IsStack(<<x>>) /\ Counted(<<x>>) /\ Ends(<<x>>) = 0
  BY <1>4, Short
<1> QED BY <1>1, <1>2, <1>3, <1>5, QuietThen

LEMMA NextElemKeeps == ASSUME DInv, NextElem PROVE DInv'
<1>1. /\ outcome = "running" /\ todo # <<>> /\ Now.op = "elems"
      /\ UNCHANGED <<vars, got, outcome>>
  BY DEF NextElem, At
<1>2. Inv /\ err = "nil" /\ Rooted /\ Len(saved) \in Nat /\ Owe(Rest, Len(saved))
  BY <1>1, Top
<1> DEFINE a == IF Now.t.kind = "map" THEN <<Val(Now.t.key)>> ELSE <<>>
           b == <<Val(Now.t.elem), Elems(Now.t, Now.n - 1)>>
<1>3. todo' = Rest \/ todo' = (a \o b) \o Rest
  BY DEF NextElem
<1>4. IsStack(a) /\ Ends(a) = 0 /\ Counted(a)
  BY Short DEF Val
<1>5. IsStack(b) /\ Ends(b) = 0 /\ Counted(b)
  <2>1. Val(Now.t.elem).op \notin {"end", "alloc"} /\ Elems(Now.t, Now.n - 1).op \notin {"end", "alloc"}
    BY DEF Val, Elems
  <2> QED BY <2>1, Short
<1> HIDE DEF a, b
<1>6. Owe((a \o b) \o Rest, Len(saved))
  <2>1. IsStack(a \o b) /\ Ends(a \o b) = 0
    BY <1>4, <1>5, JoinStacks, JoinEnds
  <2>2. Counted(a \o b)
    <3>1. /\ Len(a) \in Nat /\ Len(b) \in Nat /\ DOMAIN a = 1 .. Len(a) /\ DOMAIN b = 1 .. Len(b)
          /\ DOMAIN (a \o b) = 1 .. Len(a) + Len(b)
          /\ \A i \in 1 .. Len(a) + Len(b) :
               (a \o b)[i] = IF i <= Len(a) THEN a[i] ELSE b[i - Len(a)]
      BY <1>4, <1>5, JoinStacks
    <3> QED BY <1>4, <1>5, <3>1 DEF Counted
  <2>3. Owe((a \o b) \o Rest, 0 + Len(saved))
    BY <1>2, <2>1, <2>2, Push
  <2> QED BY <1>2, <2>3
<1>7. Owe(todo', Len(saved))
  BY <1>2, <1>3, <1>6
<1>8. Inv' /\ err' = "nil" /\ Rooted' /\ saved' = saved
  BY <1>1, <1>2 DEF vars, Inv, TypeOK, RegionsNested, Rooted
<1>9. Running'
  BY <1>7, <1>8 DEF Running
<1> QED BY <1>1, <1>8, <1>9 DEF DInv, AcceptsWholeInput

LEMMA ReadPresenceKeeps == ASSUME DInv, ReadPresence PROVE DInv'
<1>1. /\ outcome = "running" /\ todo # <<>> /\ Now.op = "presence"
      /\ \E z \in BOOLEAN : ReadPresenceByte(z)
  <2>1. isBuiltinPrimitive(Now.t) \in BOOLEAN
    BY DEF isBuiltinPrimitive
  <2> QED BY <2>1 DEF ReadPresence, At
<1>2. Inv' /\ Quiet
  BY <1>1, Top, MethodInv, QuietMethods DEF Method
<1>3. ASSUME NEW stores, Then(Rest, stores) PROVE DInv'
  BY <1>1, <1>2, <1>3, Short, QuietThen
<1>4. ASSUME NEW x, NEW stores, x.op \notin {"end", "alloc"}, Then(<<x>> \o Rest, stores)
      PROVE  DInv'
  <2>1. IsStack(<<x>>) /\ Counted(<<x>>) /\ Ends(<<x>>) = 0
    BY <1>4, Short
  <2> QED BY <1>1, <1>2, <1>4, <2>1, QuietThen
<1>5. ASSUME NEW p, NEW t, AfterPresence(p, t) PROVE DInv'
  <2>1. \/ \E stores : Then(Rest, stores)
        \/ \E stores : Then(<<Loop(t.name)>> \o Rest, stores)
        \/ \E stores : Then(<<Val(t)>> \o Rest, stores)
    BY <1>5, Zenon DEF AfterPresence
  <2>2. Loop(t.name).op \notin {"end", "alloc"} /\ Val(t).op \notin {"end", "alloc"}
    BY DEF Loop, Val
  <2> QED BY <1>3, <1>4, <2>1, <2>2
<1> QED BY <1>5 DEF ReadPresence


LEMMA OpenRegionKeeps == ASSUME DInv, OpenRegion PROVE DInv'
<1>1. outcome = "running" /\ todo # <<>> /\ Now.op = "value" /\ BeginLengthDelim
  BY DEF OpenRegion, At
<1>2. /\ Inv /\ err = "nil" /\ Rooted /\ Len(saved) \in Nat /\ Owe(Rest, Len(saved))
  BY <1>1, Top
<1>3. Inv'
  BY <1>1, <1>2, MethodInv DEF Method
<1>4. PICK k : /\ Then((k \o <<EndRegion>>) \o Rest, <<>>)
               /\ IsStack(k) /\ Counted(k) /\ Ends(k) = 0
  <2>1. \/ \E x : Then((<<x>> \o <<EndRegion>>) \o Rest, <<>>) /\ x.op \notin {"end", "alloc"}
        \/ \E x, y : /\ Then((<<x, y>> \o <<EndRegion>>) \o Rest, <<>>)
                     /\ x.op \notin {"end", "alloc"} /\ y.op \notin {"end", "alloc"}
    <3>1. /\ \A x : Loop(x).op \notin {"end", "alloc"} /\ Presence(x).op \notin {"end", "alloc"}
          /\ \A x : Count(x).op \notin {"end", "alloc"} /\ Val(x).op \notin {"end", "alloc"}
          /\ \A x : CodecTail(x).op \notin {"end", "alloc"}
      BY DEF Loop, Presence, Count, Val, CodecTail
    <3>2. \/ Then((<<Loop(Now.t.name)>> \o <<EndRegion>>) \o Rest, <<>>)
          \/ Then((<<Presence(Now.t.elem)>> \o <<EndRegion>>) \o Rest, <<>>)
          \/ \E t : Then((<<Val(t), CodecTail(Now.t.codec)>> \o <<EndRegion>>) \o Rest, <<>>)
          \/ Then((<<Count(Now.t)>> \o <<EndRegion>>) \o Rest, <<>>)
      BY Zenon DEF OpenRegion
    <3> QED BY <3>1, <3>2, Zenon
  <2>2. \A x : x.op \notin {"end", "alloc"} => IsStack(<<x>>) /\ Counted(<<x>>) /\ Ends(<<x>>) = 0
    BY Short
  <2>3. \A x, y : x.op \notin {"end", "alloc"} /\ y.op \notin {"end", "alloc"} =>
                    IsStack(<<x, y>>) /\ Counted(<<x, y>>) /\ Ends(<<x, y>>) = 0
    BY Short
  <2> QED BY <2>1, <2>2, <2>3, Zenon
<1>5. Owe((k \o <<EndRegion>>) \o Rest, 1 + Len(saved))
  <2> DEFINE b == <<EndRegion>>
  <2>1. IsStack(b) /\ Counted(b) /\ Ends(b) = 1
    <3>1. EndRegion.op = "end"
      BY DEF EndRegion
    <3> QED BY <3>1, Short
  <2> HIDE DEF b
  <2>2. IsStack(k \o b) /\ Ends(k \o b) = 1
    BY <1>4, <2>1, JoinStacks, JoinEnds
  <2>3. Counted(k \o b)
    <3>1. /\ Len(k) \in Nat /\ Len(b) \in Nat /\ DOMAIN k = 1 .. Len(k) /\ DOMAIN b = 1 .. Len(b)
          /\ DOMAIN (k \o b) = 1 .. Len(k) + Len(b)
          /\ \A i \in 1 .. Len(k) + Len(b) :
               (k \o b)[i] = IF i <= Len(k) THEN k[i] ELSE b[i - Len(k)]
      BY <1>4, <2>1, JoinStacks
    <3> QED BY <1>4, <2>1, <3>1 DEF Counted
  <2>4. Owe((k \o b) \o Rest, 1 + Len(saved))
    BY <1>2, <2>2, <2>3, Push
  <2> QED BY <2>4 DEF b
<1>6. ret'.err = "nil" => saved' = Append(saved, end) /\ err' = "nil" /\ buf' = buf
  <2>1. ASSUME VarintFails PROVE ret'.err # "nil"
    <3>1. uvarintError(buf, pos, end) # "nil"
      BY UvarintErrorType DEF Errors
    <3> QED BY <2>1, <3>1 DEF VarintFails, Failure
  <2> QED BY <1>1, <1>2, <2>1 DEF BeginLengthDelim, Failure
<1>7. ret'.err = "nil" => Rooted' /\ Len(saved') = 1 + Len(saved)
  <2>1. ASSUME NEW s \in Seq(Nat), NEW e \in Nat
        PROVE  /\ Len(Append(s, e)) = 1 + Len(s) /\ Append(s, e) # <<>>
               /\ Append(s, e)[1] = IF s = <<>> THEN e ELSE s[1]
    <3>1. Len(Append(s, e)) = 1 + Len(s) /\ Append(s, e) # <<>> /\ Len(s) \in Nat
      OBVIOUS
    <3>2. CASE s = <<>>
      BY <3>1, <3>2
    <3>3. CASE s # <<>>
      BY <3>1, <3>3
    <3> QED BY <3>1, <3>2, <3>3
  <2>2. saved \in Seq(Nat) /\ end \in Nat
    BY <1>2 DEF Inv, TypeOK
  <2>3. /\ Len(Append(saved, end)) = 1 + Len(saved) /\ Append(saved, end) # <<>>
        /\ Append(saved, end)[1] = IF saved = <<>> THEN end ELSE saved[1]
    BY <2>1, <2>2
  <2> QED BY <1>2, <1>6, <2>3, Zenon DEF Rooted
<1> QED BY <1>1, <1>3, <1>4, <1>5, <1>6, <1>7, ThenKeeps

LEMMA CloseRegionKeeps == ASSUME DInv, CloseRegion PROVE DInv'
<1>1. outcome = "running" /\ todo # <<>> /\ Now.op = "end" /\ EndLengthDelim /\ Then(Rest, <<>>)
  BY DEF CloseRegion, At
<1>2. /\ Inv /\ err = "nil" /\ Rooted /\ Len(saved) \in Nat
      /\ Len(saved) >= 1 /\ Owe(Rest, Len(saved) - 1)
  BY <1>1, Top
<1>3. Inv'
  BY <1>1, <1>2, MethodInv DEF Method
<1>4. /\ saved' = SubSeq(saved, 1, Len(saved) - 1) /\ buf' = buf /\ saved # <<>>
      /\ ret'.err = "nil" => end' = saved[Len(saved)] /\ err' = "nil"
  BY <1>1, <1>2 DEF EndLengthDelim, Failure
<1>5. Len(saved') = Len(saved) - 1 /\ (Len(saved) > 1 => saved' # <<>> /\ saved'[1] = saved[1])
      /\ (Len(saved) = 1 => saved' = <<>>)
  <2>1. ASSUME NEW s \in Seq(Nat), NEW n \in Nat, Len(s) = n + 1
        PROVE  /\ Len(SubSeq(s, 1, n)) = n
               /\ n > 0 => SubSeq(s, 1, n) # <<>> /\ SubSeq(s, 1, n)[1] = s[1]
               /\ n = 0 => SubSeq(s, 1, n) = <<>>
    <3>1. \A i \in 1 .. n : s[i] \in Nat
      BY <2>1
    <3>2. /\ SubSeq(s, 1, n) \in Seq(Nat)
          /\ Len(SubSeq(s, 1, n)) = IF 1 <= n THEN n - 1 + 1 ELSE 0
          /\ \A i \in 1 .. n - 1 + 1 : SubSeq(s, 1, n)[i] = s[1 + i - 1]
      BY <3>1, SubSeqProperties
    <3> DEFINE t == SubSeq(s, 1, n)
    <3> HIDE DEF t
    <3>3. t \in Seq(Nat) /\ Len(t) = n /\ (n > 0 => t[1] = s[1])
      BY <3>2 DEF t
    <3>4. (n > 0 => t # <<>>) /\ (n = 0 => t = <<>>)
      BY <3>3
    <3> QED BY <3>3, <3>4 DEF t
  <2>2. saved \in Seq(Nat)
    BY <1>2 DEF Inv, TypeOK
  <2>3. PICK n \in Nat : Len(saved) = n + 1 /\ n = Len(saved) - 1
    <3>1. \A l \in Nat : l >= 1 => l - 1 \in Nat /\ l = (l - 1) + 1
      OBVIOUS
    <3> QED BY <1>2, <3>1
  <2>4. /\ Len(SubSeq(saved, 1, n)) = n
        /\ n > 0 => SubSeq(saved, 1, n) # <<>> /\ SubSeq(saved, 1, n)[1] = saved[1]
        /\ n = 0 => SubSeq(saved, 1, n) = <<>>
    BY <2>1, <2>2, <2>3
  <2>5. saved' = SubSeq(saved, 1, n)
    BY <1>4, <2>3
  <2>6. /\ Len(saved') = n
        /\ n > 0 => saved' # <<>> /\ saved'[1] = saved[1]
        /\ n = 0 => saved' = <<>>
    BY <2>4, <2>5
  <2>7. (Len(saved) > 1 <=> n > 0) /\ (Len(saved) = 1 <=> n = 0)
    BY <2>3
  <2> QED BY <2>3, <2>6, <2>7
<1>6. ret'.err = "nil" => Rooted'
  <2>1. saved[1] = Len(buf)
    BY <1>2, <1>4 DEF Rooted
  <2>2. CASE Len(saved) = 1
    BY <1>4, <1>5, <2>1, <2>2 DEF Rooted
  <2>3. CASE Len(saved) > 1
    BY <1>4, <1>5, <2>1, <2>3 DEF Rooted
  <2>4. \A l \in Nat : l >= 1 => l = 1 \/ l > 1
    OBVIOUS
  <2> QED BY <1>2, <2>2, <2>3, <2>4
<1>7. Owe(Rest, Len(saved'))
  BY <1>2, <1>5
<1> QED BY <1>1, <1>3, <1>4, <1>6, <1>7, ThenKeeps

LEMMA FinishKeeps == ASSUME DInv, Finish PROVE DInv'
<1>1. outcome = "running" /\ todo = <<>> /\ UNCHANGED vars
  BY DEF Finish
<1>2. Inv /\ err = "nil" /\ saved = <<>> /\ pos = end /\ end = Len(buf)
  BY <1>1 DEF DInv, Running, Rooted, Owe
<1>3. outcome' = "ok"
  BY <1>2 DEF Finish
<1>4. Inv' /\ err' = "nil" /\ saved' = <<>> /\ pos' = Len(buf')
  BY <1>1, <1>2 DEF vars, Inv, TypeOK, RegionsNested
<1> QED BY <1>3, <1>4 DEF DInv, AcceptsWholeInput

LEMMA DecoderStep == DInv /\ [DNext]_dvars => DInv'
<1> SUFFICES ASSUME DInv, [DNext]_dvars PROVE DInv'
  OBVIOUS
<1>1. CASE UNCHANGED dvars
  <2>1. UNCHANGED <<buf, pos, end, err, saved, ret, todo, outcome>>
    BY <1>1 DEF dvars, vars
  <2> QED BY <2>1 DEF DInv, Inv, TypeOK, RegionsNested, Running, Rooted, AcceptsWholeInput
<1> QED
  BY <1>1, NextFieldKeeps, LoopDoneKeeps, DecodePrimitiveKeeps, DecodeCodecKeeps,
     OpenRegionKeeps, CloseRegionKeeps, ReadCountKeeps, AllocSliceKeeps, NextElemKeeps,
     ReadPresenceKeeps, FinishKeeps, Zenon DEF DNext

LEMMA DecoderInit == DInit => DInv
<1> SUFFICES ASSUME DInit PROVE DInv
  OBVIOUS
<1>1. PICK src \in Inputs : NewReader(src)
  BY DEF DInit, Init
<1>2. Inv
  BY <1>1, ReaderAssumption
     DEF NewReader, Inv, TypeOK, RegionsNested, Returned, Value, Nested
<1>3. err = "nil" /\ saved = <<>> /\ Len(saved) = 0 /\ Rooted
  BY <1>1 DEF NewReader, Rooted
<1>4. Owe(todo, 0)
  <2> DEFINE x == Loop(root)
  <2>1. todo = <<x>> /\ x.op = "loop"
    BY DEF DInit, Loop
  <2> HIDE DEF x
  <2>2. IsStack(<<x>>) /\ Counted(<<x>>) /\ Ends(<<x>>) = 0
    BY <2>1, Short
  <2>3. <<x>> # <<>> /\ <<x>>[Len(<<x>>)] = x
    OBVIOUS
  <2> QED BY <2>1, <2>2, <2>3 DEF Owe
<1>5. Owe(todo, Len(saved))
  BY <1>3, <1>4
<1> QED BY <1>2, <1>3, <1>5 DEF DInit, DInv, Running, AcceptsWholeInput

\* The generated decoder, of any schema and over any input, opens and closes
\* regions in step with its frames.
THEOREM DecoderFramesMatch == DSpec => []RegionsMatchFrames
<1>1. DInv => RegionsMatchFrames
  <2> SUFFICES ASSUME DInv, outcome = "running" PROVE Len(saved) = Ends(todo)
    BY DEF RegionsMatchFrames, Ends
  <2>1. CASE Owe(todo, Len(saved))
    BY <2>1 DEF Owe
  <2>2. CASE todo = <<>> /\ saved = <<>>
    BY <2>2, Short
  <2> QED BY <2>1, <2>2 DEF DInv, Running
<1> QED BY <1>1, DecoderInit, DecoderStep, PTL DEF DSpec

\* A body is accepted only when all of it was read.
THEOREM DecoderReadsAll == DSpec => []AcceptsWholeInput
<1>1. DInv => AcceptsWholeInput
  BY DEF DInv
<1> QED BY <1>1, DecoderInit, DecoderStep, PTL DEF DSpec

\* Its calls keep the reader inside its input however deep the regions nest:
\* the bound on the depth in Reader's own specification plays no part.
THEOREM DecoderInRegions == DSpec => [](TypeOK /\ RegionsNested)
<1>1. DInv => TypeOK /\ RegionsNested
  BY DEF DInv, Inv
<1> QED BY <1>1, DecoderInit, DecoderStep, PTL DEF DSpec

=============================================================================
