------------------------------ MODULE MCReceiver -----------------------------
(***************************************************************************)
(* Instances of Receiver: one struct type per kind of field, since the     *)
(* cases of different tags share no state.                                 *)
(***************************************************************************)
EXTENDS Receiver

MCItemMsgs ==
  {<<>>, <<[f |-> "x", v |-> <<1>>]>>, <<[f |-> "t", v |-> <<1>>]>>,
   <<[f |-> "t", v |-> <<1, 1>>], [f |-> "t", v |-> <<>>]>>}
MCFieldSets == {{f} : f \in {"p", "n", "s", "q", "l", "m", "o"}}
=============================================================================
