---------------------------- MODULE MCAllocation -----------------------------
(***************************************************************************)
(* Chunks that several requests share (strings, U), and chunks that one    *)
(* request fills or exceeds (T); n * sizeof(U) can wrap.                   *)
(***************************************************************************)
EXTENDS Allocation

MCSizeof == [t \in Types |-> IF t = "T" THEN 1 ELSE 2]
MCChunk  == [p \in Pools |-> CASE p = Bytes -> 3 [] p = "T" -> 1 [] p = "U" -> 2]
=============================================================================
