------------------------------ MODULE MCPresence ----------------------------
(***************************************************************************)
(* Two goroutines, a struct and the struct at its offset 0: two types at   *)
(* one address.  Masks have two words of one tag each; tags 0 and 3 lie    *)
(* just outside.  The inner struct has one field, enough to see its marks  *)
(* mixed up with the outer one's.                                          *)
(***************************************************************************)
EXTENDS Presence, TLC

CONSTANTS Parent, Nested

MCTagsOf == Parent :> 0 .. 3 @@ Nested :> {1}
Symmetry == Permutations(Procs) \cup Permutations(Masks)
=============================================================================
