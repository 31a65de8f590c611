------------------------------ MODULE FieldTypes -----------------------------
(***************************************************************************)
(* The field types of a schema, as the code generator sees them, and what  *)
(* its encode, size and decode halves derive from a type in the same way   *)
(* (tools/gsbmcodegen/emit.go, tools/gsbmcodegen/codecs).  A type is one of*)
(*   [kind |-> "uint", max |-> m]       an unsigned integer up to m        *)
(*   [kind |-> "int", max |-> m]        a signed one, -m-1 .. m            *)
(*   [kind |-> "fixed32"]               a float32                          *)
(*   [kind |-> "bytes"]                 a string or a []byte               *)
(*   [kind |-> "named", elem |-> t]     a defined type over a primitive t  *)
(*   [kind |-> "struct", name |-> s]    a named struct                     *)
(*   [kind |-> "slice", elem |-> t]                                        *)
(*   [kind |-> "map", key |-> t, elem |-> t]                               *)
(*   [kind |-> "optional", elem |-> t]  a pointer                          *)
(*   [kind |-> "idref", elem |-> t]     a pointer to a struct, tagged      *)
(*                                      id_ref, whose field 1 has type t   *)
(*   [kind |-> "custom", codec |-> c]   a field with custom=c              *)
(***************************************************************************)
EXTENDS Wire

CONSTANTS
  Schema,      \* [struct name -> [its tags -> the type of the field]]
  MaxNanos,    \* largest nanosecond Time accepts; 999_999_999 in the code
  MaxScale     \* scales DecimalBinary accepts are below it; 2^30 in the code

ASSUME FieldTypesAssumption ==
  MaxNanos \in Nat /\ MaxScale \in Nat

\* The built-in codecs, which are the three kinds a registry accepts.
codecKind(c) ==
  CASE c \in {"Time", "DecimalBinary"} -> "analytic"
    [] c = "DecimalString"             -> "materializing"
    [] c = "StreamingJSON"             -> "streaming"

\* What the generated code reads and writes for a defined type or an id_ref.
Underlying(t) == IF t.kind \in {"named", "idref"} THEN t.elem ELSE t

\* The wire type of a field's key; every built-in codec is length-delimited.
wireType(t) ==
  CASE Underlying(t).kind \in {"uint", "int"} -> WireVarint
    [] Underlying(t).kind = "fixed32"         -> WireFixed32
    [] OTHER                                  -> WireLengthDelim

\* The types whose zero value a pointer may elide; a defined type is not one.
isBuiltinPrimitive(t) == t.kind \in {"uint", "int", "fixed32", "bytes"}

zeroValue(t) ==
  CASE t.kind \in {"uint", "int"} -> 0
    [] t.kind = "bytes"           -> <<>>
    [] t.kind = "fixed32"         -> [i \in 1 .. Fixed32Size |-> 0]

\* -0.0: the sign is the top bit of the last byte.
NegativeZero == [i \in 1 .. Fixed32Size |-> IF i = Fixed32Size THEN VarintBase ELSE 0]

\* The test `*p == 0' of the generated code, which is Go's: -0.0 is a zero.
isZero(t, x) == x = zeroValue(t) \/ (t.kind = "fixed32" /\ x = NegativeZero)
=============================================================================
