----------------------------- MODULE MCDiscover ------------------------------
(***************************************************************************)
(* Discover on families of small programs: structs that mention each other *)
(* in every way a field can, structs that embed each other, and one field  *)
(* of every Go type up to a depth, with every combination of options.      *)
(***************************************************************************)
EXTENDS Discover

Basic      == [kind |-> "basic"]
Byte       == [kind |-> "byte"]
Bool       == [kind |-> "bool"]
Float      == [kind |-> "float"]
Complex    == [kind |-> "complex"]
Interface  == [kind |-> "interface"]
Named(t)   == [kind |-> "named", elem |-> t]
Struct(n)  == [kind |-> "struct", name |-> n]
Pointer(t) == [kind |-> "pointer", elem |-> t]
Slice(t)   == [kind |-> "slice", elem |-> t]
Array(t)   == [kind |-> "array", elem |-> t]
Map(k, t)  == [kind |-> "map", key |-> k, elem |-> t]

Field(tag, t)           == [tag |-> tag, type |-> t, custom |-> "", opts |-> {}, embed |-> FALSE]
With(f, opts)           == [f EXCEPT !.opts = opts]
MCRegistry == [materializing |-> [kind |-> "materializing", goType |-> {}],
               analytic      |-> [kind |-> "analytic", goType |-> {Struct("O")}]]
Unregistered == "unregistered"

Coded(tag, codec)       == [Field(tag, Struct("O")) EXCEPT !.custom = codec]
Embed(t)                == [Field(0, t) EXCEPT !.embed = TRUE]

Plainly(fields)         == [fields |-> fields, opaque |-> FALSE, generic |-> FALSE, reserved |-> {}]
Opaque                  == [Plainly(<<Field(1, Basic)>>) EXCEPT !.opaque = TRUE]
Program(roots, structs) == [roots |-> roots, structs |-> structs]

-----------------------------------------------------------------------------
(* Structs that mention each other; 1 is the id.                           *)

Id == Field(1, Basic)

\* The ways to mention struct n under tag.
Refs(tag, n) ==
  {Field(tag, t) : t \in {Pointer(Struct(n)), Slice(Struct(n)), Slice(Pointer(Struct(n))),
                          Named(Slice(Struct(n))), Map(Basic, Struct(n)),
                          Slice(Map(Basic, Struct(n)))}}
  \cup {With(Field(tag, Pointer(Struct(n))), {"id_ref"}),
        With(Field(tag, Pointer(Struct(n))), {"skip"}),
        With(Field(tag, Slice(Struct(n))), {"deprecated"})}

SomeRefs(tag, n) ==
  {Field(tag, Pointer(Struct(n))), Field(tag, Named(Slice(Struct(n)))),
   With(Field(tag, Pointer(Struct(n))), {"id_ref"}),
   With(Field(tag, Slice(Struct(n))), {"deprecated"})}

Ends(tag) == {Field(tag, Basic), Coded(tag, "materializing"), Coded(tag, "analytic"),
              With(Coded(tag, "materializing"), {"deprecated"}),
              With(Coded(tag, "materializing"), {"deprecated", "compat_write"}),
              Coded(tag, Unregistered),
              Field(tag, Struct("O"))}

\* R mentions A and B, A mentions B, B mentions any of them.
Graph ==
  {Program(roots, [n \in {"R", "A", "B", "O"} |->
             CASE n = "R" -> Plainly(<<Id, r1, r2>>) [] n = "A" -> Plainly(<<Id, a, e>>)
               [] n = "B" -> Plainly(<<Id, b>>)      [] n = "O" -> Opaque]) :
     roots \in {<<"R">>, <<"B", "R">>},
     r1 \in Refs(2, "A"), r2 \in SomeRefs(3, "B"),
     a \in SomeRefs(2, "B"), e \in {Field(3, Basic), Coded(3, "materializing")},
     b \in Ends(2) \cup SomeRefs(2, "A") \cup {Field(2, Pointer(Struct("B")))}}

-----------------------------------------------------------------------------
(* Structs that embed each other.                                          *)

EmbedOf(n) == {Embed(Struct(n)), Embed(Pointer(Struct(n)))}

Embedding ==
  {Program(<<"R">>, [n \in {"R", "A", "B", "G", "O"} |->
             CASE n = "R" -> [Plainly(<<x, y, Field(t, Basic)>>) EXCEPT !.reserved = res[1]]
               [] n = "A" -> Plainly(<<Field(u, Basic), z>>)
               [] n = "B" -> [Plainly(<<b>>) EXCEPT !.reserved = res[2]]
               [] n = "G" -> [Plainly(<<Field(5, Basic)>>) EXCEPT !.generic = TRUE]
               [] n = "O" -> Opaque]) :
     x \in EmbedOf("A"),
     y \in EmbedOf("B") \cup {Field(3, Struct("B")), Embed(Struct("O")), Embed(Struct("G")),
                              Embed(Named(Basic)), With(Embed(Struct("B")), {"misplaced"})},
     t \in {1, 4}, u \in {1, 2},
     z \in EmbedOf("B") \cup {Embed(Pointer(Struct("A"))), Field(3, Basic), Field(3, Slice(Struct("B")))},
     b \in {Field(4, Basic), Embed(Pointer(Struct("A"))), Field(4, Pointer(Struct("A"))),
            Coded(4, "materializing"), Coded(4, Unregistered)},
     res \in {<<{}, {}>>, <<{4}, {}>>, <<{}, {2}>>}}

-----------------------------------------------------------------------------
(* Fields of any type and with any options.                                *)

LeafTypes == {Basic, Byte, Bool, Float, Complex, Interface, Struct("O"), Struct("S"), Struct("G")}
Around(T) ==
  T \cup {Named(t) : t \in {x \in T : x.kind \notin {"struct", "named", "pointer"}}}
    \cup {Pointer(t) : t \in T} \cup {Slice(t) : t \in T} \cup {Array(t) : t \in T}
    \cup {Map(k, t) : k \in {Basic, Named(Bool), Float, Struct("S")}, t \in T}
Types == Around(Around(LeafTypes)) \cup {Slice(t) : t \in Around(Around({Basic, Byte, Struct("S")}))}
                                \cup {Map(Basic, t) : t \in Around(Around({Byte, Struct("S")}))}

Options == SUBSET {"untagged", "skip", "deprecated", "compat_write", "id_ref", "misplaced"}

OneField(f) ==
  Program(<<"R">>, [n \in {"R", "S", "B", "G", "O"} |->
            CASE n = "R" -> Plainly(<<f>>)
              [] n = "B" -> Plainly(<<Field(1, Bool)>>)
              [] n = "S" -> Plainly(<<Field(1, Slice(Byte))>>)
              [] n = "G" -> [Opaque EXCEPT !.generic = TRUE]
              [] n = "O" -> Plainly(<<Field(1, Float)>>)])

Shapes ==
  {OneField(Field(1, t)) : t \in Types}
  \cup {OneField([With(Field(1, t), o) EXCEPT !.custom = c]) :
          t \in {Basic, Named(Slice(Basic)), Pointer(Struct("S")), Pointer(Struct("O")),
                 Pointer(Struct("B")), Pointer(Struct("G")), Slice(Struct("S"))},
          o \in Options, c \in {"", "analytic", Unregistered}}

MCPrograms == Graph \cup Embedding \cup Shapes
=============================================================================
