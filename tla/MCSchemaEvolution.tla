-------------------------- MODULE MCSchemaEvolution --------------------------
(***************************************************************************)
(* A struct with up to two fields over the shapes an integer field goes    *)
(* through, a string, a nested struct against its id_ref form, and two     *)
(* codecs, one sharing the plain integer's wire type.                      *)
(***************************************************************************)
EXTENDS SchemaEvolution, TLC

Plain(type, wire) ==
  [type |-> type, wire |-> wire, optional |-> FALSE, cycleBreak |-> FALSE,
   override |-> 0, custom |-> None]

MCShapes ==
  {Plain("int", "varint"),
   [Plain("int", "varint") EXCEPT !.override = 64],
   [Plain("int", "varint") EXCEPT !.optional = TRUE],
   Plain("string", "length"),
   Plain("T", "length"),
   [Plain("T/id:int", "varint") EXCEPT !.cycleBreak = TRUE],
   [Plain("int", "none") EXCEPT !.custom = "Packed"],
   [Plain("int", "none") EXCEPT !.custom = "Text"]}
MCCodecWire == [Packed |-> "varint", Text |-> "length"]
Symmetry == Permutations(Tags) \union Permutations(Names)
=============================================================================
