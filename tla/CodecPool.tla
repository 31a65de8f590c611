------------------------------ MODULE CodecPool -----------------------------
(***************************************************************************)
(* The compression codecs shared by all goroutines through sync.Pools      *)
(* (storage/gsbm/compress.go) and their life in an encode                  *)
(* (marshalCompressedStreaming, gsbm.go) or a decode (decompressBody).     *)
(* Each step below is one call on a codec or on a pool: any number of      *)
(* goroutines interleave between them.                                     *)
(*                                                                         *)
(* The bytes are abstracted to whose they are.  The codecs themselves, and *)
(* sync.Pool, are external: a codec has a stream, bound by Reset to the    *)
(* caller's output or input; a pool gives back any codec put into it, at   *)
(* most once, and may lose some at a garbage collection.                   *)
(***************************************************************************)
EXTENDS Naturals

CONSTANTS
  Procs,      \* goroutines
  Codecs,     \* codec objects
  KindOf,     \* the pool each codec belongs to
  None        \* no goroutine, no codec

Encoders == {"zstdEnc", "gzipEnc"}            \* encoderPool, gzipEncoderPool
Decoders == {"zstdDec", "capDec", "gzipDec"}  \* decoderPool, capLimited-, gzip-
Kinds    == Encoders \cup Decoders

ASSUME CodecPoolAssumption ==
  /\ KindOf \in [Codecs -> Kinds]
  /\ None \notin Procs /\ None \notin Codecs

VARIABLES
  pool,     \* the codecs in the pools
  bound,    \* bound[c]: whose output or input the codec refers to
  broken,   \* the codecs whose last stream failed
  stream,   \* stream[c]: whose bytes are in the codec's stream
  pc,       \* where each goroutine is
  job,      \* the codec kind it asked for, "stream" for a bound zstd decode
  cod,      \* the codec it holds
  out       \* out[p]: whose bytes its result holds

vars == <<pool, bound, broken, stream, pc, job, cod, out>>

Jobs == Kinds \cup {"stream"}
Kind(j) == IF j = "stream" THEN "zstdDec" ELSE j
Locations == {"idle", "got", "bound", "failed", "unbind", "put", "done", "err"}

Held == {cod[p] : p \in Procs}

Init ==
  /\ pool = {} /\ broken = {}
  /\ bound = [c \in Codecs |-> None] /\ stream = [c \in Codecs |-> {}]
  /\ pc = [p \in Procs |-> "idle"] /\ job = [p \in Procs |-> "zstdEnc"]
  /\ cod = [p \in Procs |-> None] /\ out = [p \in Procs |-> {}]

Goto(p, l) == pc' = [pc EXCEPT ![p] = l]

\* sync.Pool.Get, behind getCompressor, getDecoder and getCapLimitedDecoder:
\* a codec of the pool, or a new one.
Get(p, j) ==
  /\ pc[p] = "idle" /\ Goto(p, "got")
  /\ \E c \in Codecs :
       /\ KindOf[c] = Kind(j)
       /\ cod' = [cod EXCEPT ![p] = c]
       /\ \/ c \in pool /\ pool' = pool \ {c} /\ UNCHANGED <<bound, broken, stream>>
          \/ /\ c \notin pool /\ c \notin Held /\ UNCHANGED pool
             /\ broken' = broken \ {c}
             /\ bound' = [bound EXCEPT ![c] = None]
             /\ stream' = [stream EXCEPT ![c] = {}]
  /\ job' = [job EXCEPT ![p] = j]
  /\ out' = [out EXCEPT ![p] = {}]

\* The codec leaves the goroutine and is not put back.
Drop(p, l) ==
  /\ Goto(p, l) /\ cod' = [cod EXCEPT ![p] = None]
  /\ UNCHANGED <<pool, bound, stream, job, out>>

-----------------------------------------------------------------------------
(* marshalCompressedStreaming *)

\* enc.Reset(&compressed).
BindEncoder(p) ==
  /\ pc[p] = "got" /\ job[p] \in Encoders /\ Goto(p, "bound")
  /\ bound' = [bound EXCEPT ![cod[p]] = p]
  /\ stream' = [stream EXCEPT ![cod[p]] = {}]
  /\ UNCHANGED <<pool, broken, job, cod, out>>

\* The write pass flushes a piece of the body; a broken codec refuses it, and
\* any codec may fail.
WriteEncoder(p) ==
  /\ pc[p] = "bound" /\ job[p] \in Encoders
  /\ \/ /\ cod[p] \notin broken
        /\ stream' = [stream EXCEPT ![cod[p]] = @ \cup {p}]
        /\ UNCHANGED <<pc, broken>>
     \/ /\ broken' = broken \cup {cod[p]} /\ Goto(p, "failed")
        /\ UNCHANGED stream
  /\ UNCHANGED <<pool, bound, job, cod, out>>

\* MarshalGSBM returns an error: the codec's stream stays unfinished.
MarshalFails(p) ==
  /\ pc[p] = "bound" /\ job[p] \in Encoders
  /\ broken' = broken \cup {cod[p]} /\ Goto(p, "failed")
  /\ UNCHANGED <<pool, bound, stream, job, cod, out>>

\* A panic of MarshalGSBM unwinds: encUsable is still false.
MarshalPanics(p) ==
  /\ pc[p] = "bound" /\ job[p] \in Encoders
  /\ broken' = broken \cup {cod[p]} /\ Drop(p, "err")

\* Mutant: the error path gives the codec back.
CloseFailedPuts(p) ==
  /\ pc[p] = "failed" /\ Goto(p, "unbind")
  /\ UNCHANGED <<pool, bound, broken, stream, job, cod, out>>

\* The error path closes the codec and drops it.
CloseFailed(p) ==
  /\ pc[p] = "failed" /\ Drop(p, "err") /\ UNCHANGED broken

\* enc.Close: the last of the stream reaches the output it is bound to.
CloseEncoder(p) ==
  /\ pc[p] = "bound" /\ job[p] \in Encoders
  /\ \/ /\ cod[p] \notin broken /\ Goto(p, "unbind")
        /\ out' = [q \in Procs |->
                     IF q = bound[cod[p]] THEN out[q] \cup stream[cod[p]] ELSE out[q]]
        /\ UNCHANGED <<pool, bound, broken, stream, job, cod>>
     \/ broken' = broken \cup {cod[p]} /\ Drop(p, "err")

-----------------------------------------------------------------------------
(* decompressBody *)

\* Mutant: a decoder that was used before is not bound again.
BindDecoderOnce(p) ==
  /\ pc[p] = "got" /\ job[p] \in {"gzipDec", "stream"} /\ Goto(p, "bound")
  /\ bound' = [bound EXCEPT ![cod[p]] = p]
  /\ stream' = [stream EXCEPT ![cod[p]] = IF @ = {} THEN {p} ELSE @]
  /\ UNCHANGED <<pool, broken, job, cod, out>>

\* gr.Reset or dec.Reset to the source: the gzip one reads the frame's header
\* and may fail, bound all the same.
BindDecoder(p) ==
  /\ pc[p] = "got" /\ job[p] \in {"gzipDec", "stream"}
  /\ bound' = [bound EXCEPT ![cod[p]] = p]
  /\ stream' = [stream EXCEPT ![cod[p]] = {p}]
  /\ broken' = broken \ {cod[p]}
  /\ \/ Goto(p, "bound")
     \/ job[p] = "gzipDec" /\ Goto(p, "put")
  /\ UNCHANGED <<pool, job, cod, out>>

\* buf.ReadFrom or io.ReadAll: all of the stream, or an error on the way.  The
\* deferred calls then run, last one first: dec.Reset(nil) only for zstd.
ReadDecoder(p) ==
  /\ pc[p] = "bound" /\ job[p] \in {"gzipDec", "stream"}
  /\ Goto(p, IF job[p] = "stream" THEN "unbind" ELSE "put")
  /\ \/ /\ out' = [out EXCEPT ![p] = @ \cup stream[cod[p]]] /\ UNCHANGED broken
     \/ broken' = broken \cup {cod[p]} /\ UNCHANGED out
  /\ UNCHANGED <<pool, bound, stream, job, cod>>

\* DecodeAll: one call on the source, which the decoder does not keep.
DecodeAll(p) ==
  /\ pc[p] = "got" /\ job[p] \in {"zstdDec", "capDec"} /\ Goto(p, "put")
  /\ out' \in {out, [out EXCEPT ![p] = {p}]}
  /\ UNCHANGED <<pool, bound, broken, stream, job, cod>>

-----------------------------------------------------------------------------
\* c.Reset(nil) of putCompressor and of decompressZstdKnown.
Unbind(p) ==
  /\ pc[p] = "unbind" /\ Goto(p, "put")
  /\ bound' = [bound EXCEPT ![cod[p]] = None]
  /\ stream' = [stream EXCEPT ![cod[p]] = {}]
  /\ broken' = IF job[p] = "stream" THEN broken \ {cod[p]} ELSE broken
  /\ UNCHANGED <<pool, job, cod, out>>

\* Mutant: the codec is put back and still used.
PutEarly(p) ==
  /\ pc[p] \in {"unbind", "put"} /\ Goto(p, IF pc[p] = "put" THEN "done" ELSE "unbind")
  /\ pool' = pool \cup {cod[p]}
  /\ cod' = IF pc[p] = "put" THEN [cod EXCEPT ![p] = None] ELSE cod
  /\ UNCHANGED <<bound, broken, stream, job, out>>

\* sync.Pool.Put.
Put(p) ==
  /\ pc[p] = "put" /\ Goto(p, "done")
  /\ pool' = pool \cup {cod[p]} /\ cod' = [cod EXCEPT ![p] = None]
  /\ UNCHANGED <<bound, broken, stream, job, out>>

\* Mutant: a deferred call puts back what the goroutine no longer holds.
ReturnPuts(p) ==
  /\ pc[p] \in {"done", "err"} /\ Goto(p, "idle") /\ pool' = pool \cup {cod[p]}
  /\ UNCHANGED <<bound, broken, stream, job, cod, out>>

\* The call returns to its caller.
Return(p) ==
  /\ pc[p] \in {"done", "err"} /\ Goto(p, "idle")
  /\ UNCHANGED <<pool, bound, broken, stream, job, cod, out>>

\* A garbage collection empties a pool slot.
Collect(c) ==
  /\ c \in pool /\ pool' = pool \ {c}
  /\ UNCHANGED <<bound, broken, stream, pc, job, cod, out>>

Step(p) ==
  \/ \E j \in Jobs : Get(p, j)
  \/ BindEncoder(p) \/ WriteEncoder(p) \/ MarshalFails(p) \/ MarshalPanics(p)
  \/ CloseFailed(p) \/ CloseEncoder(p)
  \/ BindDecoder(p) \/ ReadDecoder(p) \/ DecodeAll(p)
  \/ Unbind(p) \/ Put(p) \/ Return(p)

Next == (\E p \in Procs : Step(p)) \/ (\E c \in Codecs : Collect(c))

Spec == Init /\ [][Next]_vars

-----------------------------------------------------------------------------
(* Properties. *)

\* Types; in particular only codecs are in the pools.
TypeOK ==
  /\ pool \in SUBSET Codecs /\ broken \in SUBSET Codecs
  /\ bound \in [Codecs -> Procs \cup {None}]
  /\ stream \in [Codecs -> SUBSET Procs]
  /\ pc \in [Procs -> Locations] /\ job \in [Procs -> Jobs]
  /\ cod \in [Procs -> Codecs \cup {None}] /\ out \in [Procs -> SUBSET Procs]

\* A codec is used by one goroutine at a time, and by none once it is back in
\* its pool: nothing is called on it after Put.
Exclusive ==
  /\ \A p, q \in Procs : p # q /\ cod[p] # None => cod[p] # cod[q]
  /\ \A p \in Procs : cod[p] \notin pool

\* An encoder in the pool has no unfinished or failed stream behind it, and no
\* pooled codec but a gzip decoder still refers to a caller's bytes.
PooledClean ==
  \A c \in pool :
    /\ KindOf[c] \in Encoders => c \notin broken
    /\ KindOf[c] # "gzipDec" => bound[c] = None

\* What a call returns holds its own bytes only, whatever the codec did before
\* for another goroutine.
OwnOutput == \A p \in Procs : out[p] \subseteq {p}
=============================================================================
