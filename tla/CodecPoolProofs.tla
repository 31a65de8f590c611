--------------------------- MODULE CodecPoolProofs --------------------------
(***************************************************************************)
(* CodecPool is safe for any number of goroutines and codecs.  The three   *)
(* safety properties are proved together with what each goroutine knows of *)
(* the codec it holds at each of its steps (Local).                        *)
(***************************************************************************)
EXTENDS CodecPool, TLAPS

\* What goroutine p knows of its codec: it holds one exactly while it is at
\* work; a codec about to go back is unbound and an encoder about to go back
\* has not failed; a codec it has bound carries its bytes only.
Local(p) ==
  /\ cod[p] = None <=> pc[p] \in {"idle", "done", "err"}
  /\ cod[p] # None => KindOf[cod[p]] = Kind(job[p])
  /\ pc[p] \in {"got", "put"} /\ job[p] # "gzipDec" => bound[cod[p]] = None
  /\ pc[p] \in {"unbind", "put"} /\ job[p] \in Encoders => cod[p] \notin broken
  /\ pc[p] = "unbind" => job[p] \in Encoders \cup {"stream"}
  /\ pc[p] = "bound" => bound[cod[p]] = p /\ stream[cod[p]] \subseteq {p}

IInv ==
  /\ TypeOK
  /\ Exclusive
  /\ PooledClean
  /\ OwnOutput
  /\ \A p \in Procs : Local(p)

\* The inductive invariant holds of the empty pools the process starts with.
LEMMA InitInv == Init => IInv
  BY CodecPoolAssumption
  DEF Init, IInv, TypeOK, Exclusive, PooledClean, OwnOutput, Local, Jobs, Kinds,
      Encoders, Decoders, Locations, Kind

USE DEF Jobs, Kinds, Encoders, Decoders, Locations, Kind, Goto

\* Every call on a codec or a pool keeps it: a goroutine changes the pools and
\* the fields of its own codec only.
LEMMA StepInv == IInv /\ [Next]_vars => IInv'
<1> SUFFICES ASSUME IInv, [Next]_vars PROVE IInv'
  OBVIOUS
<1> USE CodecPoolAssumption
<1>1. CASE UNCHANGED vars
  BY <1>1 DEF vars, IInv, TypeOK, Exclusive, PooledClean, OwnOutput, Local
<1>2. ASSUME NEW c \in Codecs, Collect(c) PROVE IInv'
  BY <1>2 DEF Collect, IInv, TypeOK, Exclusive, PooledClean, OwnOutput, Local
<1>3. ASSUME NEW p \in Procs, NEW j \in Jobs, Get(p, j) PROVE IInv'
  <2>1. PICK c \in Codecs :
          /\ KindOf[c] = Kind(j)
          /\ cod' = [cod EXCEPT ![p] = c]
          /\ \/ c \in pool /\ pool' = pool \ {c} /\ UNCHANGED <<bound, broken, stream>>
             \/ /\ c \notin pool /\ c \notin Held /\ UNCHANGED pool
                /\ broken' = broken \ {c}
                /\ bound' = [bound EXCEPT ![c] = None]
                /\ stream' = [stream EXCEPT ![c] = {}]
    BY <1>3 DEF Get
  <2>2. c # None /\ \A q \in Procs : cod[q] # c
    BY <2>1 DEF IInv, Exclusive, Held
  <2>3. TypeOK'
    BY <1>3, <2>1 DEF Get, IInv, TypeOK
  <2>4. Exclusive'
    BY <1>3, <2>1, <2>2 DEF Get, IInv, Exclusive, TypeOK
  <2>5. PooledClean' /\ OwnOutput'
    BY <1>3, <2>1, <2>2 DEF Get, IInv, PooledClean, OwnOutput, TypeOK
  <2>6. ASSUME NEW q \in Procs PROVE Local(q)'
    BY <1>3, <2>1, <2>2 DEF Get, IInv, PooledClean, TypeOK, Local
  <2> QED BY <2>3, <2>4, <2>5, <2>6 DEF IInv
<1>4. ASSUME NEW p \in Procs, BindEncoder(p) PROVE IInv'
  BY <1>4 DEF BindEncoder, IInv, TypeOK, Exclusive, PooledClean, OwnOutput, Local
<1>5. ASSUME NEW p \in Procs, WriteEncoder(p) PROVE IInv'
  BY <1>5 DEF WriteEncoder, IInv, TypeOK, Exclusive, PooledClean, OwnOutput, Local
<1>6. ASSUME NEW p \in Procs, MarshalFails(p) PROVE IInv'
  BY <1>6 DEF MarshalFails, IInv, TypeOK, Exclusive, PooledClean, OwnOutput, Local
<1>7. ASSUME NEW p \in Procs, MarshalPanics(p) PROVE IInv'
  BY <1>7 DEF MarshalPanics, Drop, IInv, TypeOK, Exclusive, PooledClean, OwnOutput, Local
<1>8. ASSUME NEW p \in Procs, CloseFailed(p) PROVE IInv'
  BY <1>8 DEF CloseFailed, Drop, IInv, TypeOK, Exclusive, PooledClean, OwnOutput, Local
<1>9. ASSUME NEW p \in Procs, CloseEncoder(p) PROVE IInv'
  BY <1>9 DEF CloseEncoder, Drop, IInv, TypeOK, Exclusive, PooledClean, OwnOutput, Local
<1>10. ASSUME NEW p \in Procs, BindDecoder(p) PROVE IInv'
  BY <1>10 DEF BindDecoder, IInv, TypeOK, Exclusive, PooledClean, OwnOutput, Local
<1>11. ASSUME NEW p \in Procs, ReadDecoder(p) PROVE IInv'
  BY <1>11 DEF ReadDecoder, IInv, TypeOK, Exclusive, PooledClean, OwnOutput, Local
<1>12. ASSUME NEW p \in Procs, DecodeAll(p) PROVE IInv'
  BY <1>12 DEF DecodeAll, IInv, TypeOK, Exclusive, PooledClean, OwnOutput, Local
<1>13. ASSUME NEW p \in Procs, Unbind(p) PROVE IInv'
  BY <1>13 DEF Unbind, IInv, TypeOK, Exclusive, PooledClean, OwnOutput, Local
<1>14. ASSUME NEW p \in Procs, Put(p) PROVE IInv'
  BY <1>14 DEF Put, IInv, TypeOK, Exclusive, PooledClean, OwnOutput, Local
<1>15. ASSUME NEW p \in Procs, Return(p) PROVE IInv'
  BY <1>15 DEF Return, IInv, TypeOK, Exclusive, PooledClean, OwnOutput, Local
<1> QED
  BY <1>1, <1>2, <1>3, <1>4, <1>5, <1>6, <1>7, <1>8, <1>9, <1>10, <1>11, <1>12,
     <1>13, <1>14, <1>15 DEF Next, Step

\* The pools hold codecs only and every goroutine is at a place the code has.
THEOREM CodecPoolTypes == Spec => []TypeOK
<1>1. IInv => TypeOK
  BY DEF IInv
<1> QED BY InitInv, StepInv, <1>1, PTL DEF Spec

\* For every set of goroutines and of codecs, a codec is used by one goroutine
\* at a time and by none after sync.Pool.Put.
THEOREM CodecExclusive == Spec => []Exclusive
<1>1. IInv => Exclusive
  BY DEF IInv
<1> QED BY InitInv, StepInv, <1>1, PTL DEF Spec

\* For every set of goroutines and of codecs, what putCompressor and the deferred
\* Puts give back is unbound, and an encoder among it has not failed.
THEOREM CodecPooledClean == Spec => []PooledClean
<1>1. IInv => PooledClean
  BY DEF IInv
<1> QED BY InitInv, StepInv, <1>1, PTL DEF Spec

\* For every set of goroutines and of codecs, the result of an encode or decode
\* holds the bytes of its own call only.
THEOREM CodecOwnOutput == Spec => []OwnOutput
<1>1. IInv => OwnOutput
  BY DEF IInv
<1> QED BY InitInv, StepInv, <1>1, PTL DEF Spec
=============================================================================
