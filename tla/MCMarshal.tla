------------------------------ MODULE MCMarshal ------------------------------
(***************************************************************************)
(* Instances of Marshal.  Radix 4 and two reserved bytes put every size    *)
(* boundary (varints of one and two bytes, the reserved slot, the largest  *)
(* body, the flush threshold) within a few calls.                          *)
(***************************************************************************)
EXTENDS Marshal

MCChunks   == {<<1, 2>>}
MCPayloads == {<<3>>, <<5, 4, 3, 2, 1, 0>>}
MCOptions  == {[compress |-> TRUE, compression |-> 0],
               [compress |-> FALSE, compression |-> 0],
               [compress |-> TRUE, compression |-> 1],
               [compress |-> FALSE, compression |-> 5]}
MCFrames   == {3, 20}
SlotSymmetry == Permutations(Slots)
=============================================================================
