----------------------------- MODULE MCCodecPool ----------------------------
(***************************************************************************)
(* Two goroutines over the pools; the gzip encoder stands for the zstd one *)
(* too, which goes through the same calls.  Two encoders let one goroutine *)
(* drop or put back a codec while the other uses its own.                  *)
(***************************************************************************)
EXTENDS CodecPool, TLC

CONSTANTS e1, e2, d1, d2, g1

MCKindOf == e1 :> "gzipEnc" @@ e2 :> "gzipEnc" @@ d1 :> "zstdDec" @@ d2 :> "capDec"
              @@ g1 :> "gzipDec"
ProcSymmetry == Permutations(Procs)
=============================================================================
