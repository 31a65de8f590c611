------------------------------ MODULE Discover -------------------------------
(***************************************************************************)
(* From Go declarations to a schema and from there to generated code:      *)
(* BuildSchema (tools/gsbmschema/discover.go) closes the roots under the   *)
(* structs their fields mention and flattens embedded structs, Validate    *)
(* (validate.go) judges the result, and the generator                      *)
(* (tools/gsbmcodegen) emits a file for every struct of an accepted schema.*)
(*                                                                         *)
(* A program is [roots |-> a sequence of names, structs |-> a function     *)
(* from names to [fields, opaque, generic, reserved]].  A field is         *)
(*   [tag, type, custom, opts, embed]                                      *)
(* with custom the name of its codec or "", opts among "untagged", "skip", *)
(* "deprecated", "compat_write", "id_ref" and "misplaced" (a marker that   *)
(* belongs on a struct).  A Go type is a record whose kind is one of       *)
(*   basic              an integer or a string                            *)
(*   byte, bool, float, complex, interface                                 *)
(*   named (elem)       a defined type that is not a struct                *)
(*   struct (name), pointer (elem), slice (elem), array (elem),            *)
(*   map (key, elem)                                                       *)
(* Packages, names and positions, and the wire width of integers, are left *)
(* out; a diagnostic is its code and the struct it is about.               *)
(***************************************************************************)
EXTENDS Integers, Sequences, FiniteSets, SequencesExt, Graphs

CONSTANTS
  Programs,
  Registry,         \* codec name -> [kind, goType]: {the Go type it is for}, or
                    \* {} where the registration leaves it out
  MaxNestingDepth   \* 3 in the code

VARIABLES
  program,   \* the declarations that are read
  phase,     \* "build", "accepted", "emit", or how it ended: "rejected", "failed"
  queue,     \* builder.queue
  seen,      \* builder.seen: a StructDecl, or NoDecl while it is queued
  issues,    \* the diagnostics so far
  answers    \* [emitted struct -> <<struct, what the emitter took it for>>]

vars == <<program, phase, queue, seen, issues, answers>>

NoDecl == [fields |-> <<>>, reserved |-> {}, opaque |-> FALSE, placeholder |-> TRUE]

Decl(s) == program.structs[s]

-----------------------------------------------------------------------------
(* Go types. *)

IsStruct(t)      == t.kind = "struct"
IsComposite(t)   == t.kind \in {"slice", "map"}
IsByteSlice(t)   == t.kind = "slice" /\ t.elem.kind = "byte"
IsGeneric(t)     == IsStruct(t) /\ Decl(t.name).generic
PointerElem(t)   == IF t.kind = "pointer" THEN t.elem ELSE t
Defined(t)       == IF t.kind = "named" THEN t.elem ELSE t

isSupportedBasicKind(t) == t.kind \in {"basic", "byte", "bool", "float"}

isPointerToStruct(t) == t.kind = "pointer" /\ IsStruct(t.elem)

\* A defined type over a slice that is not of bytes.
IsSliceAlias(t) == t.kind = "named" /\ t.elem.kind = "slice" /\ ~ IsByteSlice(t.elem)

isLeafElementType(t) ==
  \/ isSupportedBasicKind(t) \/ IsStruct(t)
  \/ t.kind = "named" /\ isSupportedBasicKind(t.elem)

isSliceElementType(t) == isLeafElementType(t) \/ isPointerToStruct(t)

isAcceptableMapKey(t) == Defined(t).kind \in {"basic", "byte", "bool"}

RECURSIVE checkSupportedType(_, _, _)

\* The element of a slice, or of a defined slice type.
checkSliceElem(t, depth, composite) ==
  IF IsComposite(t) THEN checkSupportedType(t, depth + 1, composite + 1)
  ELSE IF isSliceElementType(t)
       THEN checkSupportedType(PointerElem(t), depth + 1, composite + 1)
  ELSE {"type/unsupported"}

\* Mutant: a defined type is judged by its elements alone.
checkSupportedTypeAliases(t, depth, composite) ==
  IF t.kind = "named" THEN {} ELSE
  CASE t.kind = "pointer" -> checkSupportedType(t.elem, depth + 1, composite)
    [] t.kind \in {"slice", "map"} -> checkSupportedType(t.elem, depth + 1, composite + 1)
    [] OTHER -> {}

\* The diagnostics for a field of type t.
checkSupportedType(t, depth, composite) ==
  CASE isSupportedBasicKind(t) -> {}
    [] IsStruct(t)  -> IF IsGeneric(t) /\ depth > 0 THEN {"type/generic"} ELSE {}
    [] t.kind = "named" ->
         IF isSupportedBasicKind(t.elem) \/ IsByteSlice(t.elem) THEN {}
         ELSE IF IsSliceAlias(t) /\ depth = 0 THEN checkSliceElem(t.elem.elem, depth, composite)
         ELSE {"type/unsupported"}
    [] t.kind = "pointer" ->
         IF depth > 0 THEN {"type/nested-pointer"}
         ELSE checkSupportedType(t.elem, depth + 1, composite)
    [] IsComposite(t) ->
         IF composite + 1 > MaxNestingDepth THEN {"type/nesting-too-deep"}
         ELSE IF IsByteSlice(t) THEN {}
         ELSE IF t.kind = "slice" THEN checkSliceElem(t.elem, depth, composite)
         ELSE IF IsComposite(t.elem) \/ isLeafElementType(t.elem)
              THEN checkSupportedType(t.elem, depth + 1, composite + 1)
         ELSE {"type/unsupported"}
    [] OTHER -> {"type/unsupported"}

RECURSIVE collectRefs(_)

\* The structs found again in a rendered shape, where a defined type is a name.
collectRefs(t) ==
  CASE IsStruct(t) -> <<t.name>>
    [] t.kind = "map" -> collectRefs(t.key) \o collectRefs(t.elem)
    [] t.kind \in {"pointer", "slice", "array"} -> collectRefs(t.elem)
    [] OTHER -> <<>>

\* Mutant: a defined type is not looked into.
shapeOfNamed(t) == collectRefs(t)

RECURSIVE shapeOf(_)

\* The structs that rendering the shape of t enqueues.
shapeOf(t) ==
  CASE IsStruct(t) -> <<t.name>>
    [] t.kind = "map" -> shapeOf(t.key) \o shapeOf(t.elem)
    [] t.kind \in {"named", "pointer", "slice", "array"} -> shapeOf(t.elem)
    [] OTHER -> <<>>

\* fillTypeShape renders a field of a defined slice type as the slice.
Shape(t) == IF IsSliceAlias(PointerElem(t)) THEN PointerElem(t).elem ELSE PointerElem(t)

\* Mutant: one layer of a composite is looked through.
referencedKeysShallow(fd) ==
  LET t == Shape(fd.type)
  IN IF IsComposite(t) THEN (IF IsStruct(PointerElem(t.elem)) THEN collectRefs(t.elem) ELSE <<>>)
     ELSE collectRefs(t)

referencedKeys(fd) == collectRefs(Shape(fd.type))

-----------------------------------------------------------------------------
(* BuildSchema. *)

\* What the walk over the fields of a struct has collected.
Nothing == [fields |-> <<>>, refs |-> <<>>, codes |-> {}, reserved |-> {}]

Refuse(acc, code) == [acc EXCEPT !.codes = @ \cup {code}]

\* ParseFieldTag: the combinations of options it refuses.
ParseFieldTagFails(f) ==
  \/ "compat_write" \in f.opts /\ "deprecated" \notin f.opts
  \/ "id_ref" \in f.opts /\ f.custom # ""

\* The first tag-1 field of an id_ref's target must have the type of an id: an
\* integer, a string or bytes.
LookupIDRefField(s) ==
  LET fs  == Decl(s).fields
      ids == {i \in DOMAIN fs : /\ ~ fs[i].embed /\ ~ ParseFieldTagFails(fs[i])
                                /\ fs[i].tag = 1 /\ fs[i].opts \cap {"untagged", "skip"} = {}}
  IN /\ ids # {}
     /\ LET t == Defined(fs[Min(ids)].type)
        IN t.kind \in {"basic", "byte"} \/ IsByteSlice(t)

\* One named field, behind the embeds of chain.
buildFieldDecl(f, chain, acc) ==
  LET fd == [tag |-> f.tag, type |-> f.type, chain |-> chain, custom |-> f.custom,
             cycleBreak |-> "id_ref" \in f.opts,
             written |-> "deprecated" \notin f.opts \/ "compat_write" \in f.opts]
      add == [acc EXCEPT !.fields = Append(@, fd)]
  IN IF ParseFieldTagFails(f)      THEN Refuse(acc, "tag/parse")
     ELSE IF "misplaced" \in f.opts THEN Refuse(acc, "marker/misplaced")
     ELSE IF "untagged" \in f.opts  THEN Refuse(acc, "tag/missing")
     ELSE IF "skip" \in f.opts      THEN acc
     ELSE IF fd.cycleBreak /\ ~ isPointerToStruct(f.type) THEN Refuse(acc, "tag/bad-id-ref")
     ELSE IF f.custom # "" THEN
       IF Defined(PointerElem(f.type)).kind \in {"slice", "map", "array"}
       THEN Refuse(acc, "field/custom-composite") ELSE add
     ELSE [add EXCEPT
            !.refs = @ \o shapeOf(f.type),
            !.codes = @ \cup checkSupportedType(f.type, 0, 0) \cup
                      (IF fd.cycleBreak /\ ~ LookupIDRefField(f.type.elem.name)
                       THEN {"idref/missing-id-tag"} ELSE {})]

RECURSIVE collectStructFields(_, _, _, _)

\* Mutant: the reserved tags of an embedded struct stay its own.
flattenAnonymousReserved(f, chain, visited, acc) ==
  LET t == PointerElem(f.type)
  IN IF ~ IsStruct(t) THEN Refuse(acc, "field/anonymous-non-struct")
     ELSE IF t.name \in visited THEN Refuse(acc, "field/embed-cycle")
     ELSE collectStructFields(t.name, Append(chain, t.name), visited \cup {t.name}, acc)

\* An embedded struct: its fields are promoted.
flattenAnonymous(f, chain, visited, acc) ==
  LET t == PointerElem(f.type)
  IN IF "misplaced" \in f.opts       THEN Refuse(acc, "marker/misplaced")
     ELSE IF ~ IsStruct(t)           THEN Refuse(acc, "field/anonymous-non-struct")
     ELSE IF Decl(t.name).generic    THEN Refuse(acc, "field/anonymous-generic")
     ELSE IF t.name \in visited      THEN Refuse(acc, "field/embed-cycle")
     ELSE IF Decl(t.name).opaque     THEN Refuse(acc, "field/anonymous-opaque")
     ELSE collectStructFields(t.name, Append(chain, t.name), visited \cup {t.name},
                              [acc EXCEPT !.reserved = @ \cup Decl(t.name).reserved])

collectStructFields(s, chain, visited, acc) ==
  FoldLeft(LAMBDA a, f : IF f.embed THEN flattenAnonymous(f, chain, visited, a)
                                    ELSE buildFieldDecl(f, chain, a),
           acc, Decl(s).fields)

\* The field that has i's tag first.
First(fields, i) == Min({j \in DOMAIN fields : fields[j].tag = fields[i].tag})

\* The fields whose tag an earlier field has, one of the two being promoted.
Collisions(fields) ==
  {i \in DOMAIN fields : LET j == First(fields, i)
                         IN j < i /\ (fields[i].chain # <<>> \/ fields[j].chain # <<>>)}

\* A collision is reported and its promoted side leaves the schema.
checkFlattenedTagCollisions(c) ==
  LET hit  == Collisions(c.fields)
      drop == {IF c.fields[i].chain # <<>> THEN i ELSE First(c.fields, i) : i \in hit}
      keep == SetToSortSeq(DOMAIN c.fields \ drop, <)
  IN [c EXCEPT !.fields = [k \in DOMAIN keep |-> c.fields[keep[k]]],
               !.codes = @ \cup (IF hit = {} THEN {} ELSE {"field/tag-collision"})]

\* enqueue, for each of refs in turn: what the queue gains.
Enqueued(refs) ==
  FoldLeft(LAMBDA q, r : IF r \in DOMAIN seen \cup ToSet(q) THEN q ELSE Append(q, r), <<>>, refs)

Issue(code, s) == [code |-> code, about |-> <<s>>]

Init ==
  /\ program \in Programs
  /\ phase = "build"
  /\ seen = [s \in ToSet(program.roots) |-> NoDecl]
  /\ queue = program.roots
  /\ issues = {}
  /\ answers = <<>>

\* One turn of BuildSchema's loop.
flatten ==
  /\ phase = "build" /\ queue # <<>>
  /\ LET s    == Head(queue)
         walk == IF Decl(s).opaque THEN Nothing
                 ELSE checkFlattenedTagCollisions(collectStructFields(s, <<>>, {}, Nothing))
         new  == Enqueued(walk.refs)
         sd   == [fields |-> SortSeq(walk.fields, LAMBDA a, b : a.tag < b.tag),
                  reserved |-> Decl(s).reserved \cup walk.reserved,
                  opaque |-> Decl(s).opaque, placeholder |-> FALSE]
     IN /\ queue' = Tail(queue) \o new
        /\ seen' = [k \in DOMAIN seen \cup ToSet(new) |->
                      IF k = s THEN sd ELSE IF k \in DOMAIN seen THEN seen[k] ELSE NoDecl]
        /\ issues' = issues \cup {Issue(c, s) : c \in walk.codes}
  /\ UNCHANGED <<program, phase, answers>>

-----------------------------------------------------------------------------
(* Validate. *)

\* The diagnostics of one struct; nothing is asked of an opaque one.
validateStruct(s) ==
  LET sd     == seen[s]
      fields == ToSet(sd.fields)
  IN IF sd.opaque THEN {} ELSE
     (IF Decl(s).generic THEN {"type/generic"} ELSE {})
     \cup (IF IsInjective([i \in DOMAIN sd.fields |-> sd.fields[i].tag])
           THEN {} ELSE {"tag/duplicate"})
     \cup {"tag/reserved" : fd \in {x \in fields : x.tag \in sd.reserved}}
     \cup {"map/bad-key" : fd \in {x \in fields : x.custom = "" /\ Shape(x.type).kind = "map"
                                                 /\ ~ isAcceptableMapKey(Shape(x.type).key)}}
     \cup {"field/optional-composite" :
             fd \in {x \in fields : /\ x.custom = "" /\ x.type.kind = "pointer"
                                   /\ Shape(x.type).kind \in {"slice", "array", "map"}
                                   /\ ~ IsByteSlice(Shape(x.type))}}

RECURSIVE dfs(_, _, _)

\* An edge from the end of path to n.
followRef(path, n, acc) ==
  CASE acc.state[n] = "unseen"  -> dfs(n, path, acc)
    [] acc.state[n] = "onStack" ->
         [acc EXCEPT !.cycles = @ \cup {SubSeq(path, SelectInSeq(path, LAMBDA p : p = n), Len(path))}]
    [] acc.state[n] = "done"    -> acc

\* The search below key, with the path that leads to it.
dfs(key, above, acc) ==
  LET path == Append(above, key)
      edges == FlattenSeq([i \in DOMAIN seen[key].fields |->
                 LET fd == seen[key].fields[i]
                 IN IF fd.cycleBreak \/ fd.custom # "" THEN <<>>
                    ELSE SelectSeq(referencedKeys(fd), LAMBDA n : n \in DOMAIN seen)])
      below == FoldLeft(LAMBDA a, n : followRef(path, n, a),
                        [acc EXCEPT !.state[key] = "onStack"], edges)
  IN [below EXCEPT !.state[key] = "done"]

\* The cycles found from the roots, each searched in turn.
validateNoCycles ==
  FoldLeft(LAMBDA a, r : dfs(r, <<>>, a),
           [state |-> [s \in DOMAIN seen |-> "unseen"], cycles |-> {}], program.roots).cycles

\* The end of BuildSchema and the whole of Validate.
Validate ==
  /\ phase = "build" /\ queue = <<>>
  /\ issues' = issues \cup UNION {{Issue(c, s) : c \in validateStruct(s)} : s \in DOMAIN seen}
                      \cup {[code |-> "type/cycle", about |-> c] : c \in validateNoCycles}
  /\ phase' = IF issues' = {} THEN "accepted" ELSE "rejected"
  /\ UNCHANGED <<program, queue, seen, answers>>

-----------------------------------------------------------------------------
(* GenerateWithCodecs. *)

\* A struct's fields that MarshalGSBM writes.
Written(s) == SelectSeq(seen[s].fields, LAMBDA fd : fd.written)

\* A name that is not registered is passed over here.
IsMaterializing(name) == name \in DOMAIN Registry /\ Registry[name].kind = "materializing"

\* A codec can be called: it is registered, for the field's type or for any.
resolveCodec(name, t) ==
  name \in DOMAIN Registry /\ Registry[name].goType \in {{}, {PointerElem(t)}}

RECURSIVE typeContainsRec(_, _)

\* The written fields in turn, up to the first that contains one.
FieldsContain(s, st) ==
  FoldLeft(LAMBDA a, fd : CASE a.found -> a
                            [] ~ a.found /\ fd.custom # "" -> [a EXCEPT !.found = IsMaterializing(fd.custom)]
                            [] ~ a.found /\ fd.custom = "" /\ fd.cycleBreak -> a
                            [] ~ a.found /\ fd.custom = "" /\ ~ fd.cycleBreak -> typeContainsRec(fd.type, a),
           [st EXCEPT !.found = FALSE], Written(s))

\* Mutant: an opaque struct has no fields, hence no codec.
structContainsWalked(s, st) == FieldsContain(s, st)

\* What is inside an opaque struct is not known.
structContains(s, st) ==
  IF seen[s].opaque THEN [st EXCEPT !.found = TRUE] ELSE FieldsContain(s, st)

\* st: the structs visited by this query, the emitter's materializeCache, and
\* the answer.
typeContainsRec(t, st) ==
  CASE t.kind \in {"pointer", "slice", "array", "map", "named"} -> typeContainsRec(t.elem, st)
    [] IsStruct(t) ->
         IF t.name \in st.visited THEN [st EXCEPT !.found = FALSE]
         ELSE IF t.name \in DOMAIN st.cache THEN [st EXCEPT !.found = st.cache[t.name]]
         ELSE LET r == structContains(t.name, [st EXCEPT !.visited = @ \cup {t.name}])
              IN [r EXCEPT !.cache = (t.name :> r.found) @@ @]
    [] OTHER -> [st EXCEPT !.found = FALSE]

\* The type whose envelope a field's encoder has to choose, if it is a struct.
RECURSIVE EnvelopeOf(_)
EnvelopeOf(t) ==
  CASE IsStruct(t) -> <<t>>
    [] t.kind \in {"slice", "map"} -> EnvelopeOf(PointerElem(t.elem))
    [] t.kind = "named" -> EnvelopeOf(t.elem)
    [] OTHER -> <<>>

\* The queries of emitMarshal, with the emitter's cache empty at first.
emitMarshal(s) ==
  LET types == FlattenSeq([i \in DOMAIN Written(s) |->
                 LET fd == Written(s)[i]
                 IN IF fd.cycleBreak \/ fd.custom # "" THEN <<>> ELSE EnvelopeOf(fd.type)])
  IN FoldLeft(LAMBDA a, t :
                LET r == typeContainsRec(t, [visited |-> {}, cache |-> a.cache, found |-> FALSE])
                IN [cache |-> r.cache, said |-> a.said \cup {<<t.name, r.found>>}],
              [cache |-> <<>>, said |-> {}], types).said

\* A decoder can be emitted for a leaf; for a value; for a field.
emitPrimitiveDecodes(t) == isSupportedBasicKind(t)

RECURSIVE emitValueDecodes(_)
emitValueDecodes(t) ==
  CASE t.kind = "named" -> IF IsSliceAlias(t) THEN emitValueDecodes(t.elem)
                           ELSE IsByteSlice(t.elem) \/ emitPrimitiveDecodes(t.elem)
    [] t.kind = "slice" ->
         \/ IsByteSlice(t) \/ isPointerToStruct(t.elem) \/ IsStruct(t.elem)
         \/ IF IsComposite(t.elem) THEN emitValueDecodes(t.elem)
                                   ELSE emitPrimitiveDecodes(Defined(t.elem))
    [] t.kind = "map" ->
         /\ isAcceptableMapKey(t.key)
         /\ \/ IsStruct(t.elem)
            \/ IF IsComposite(t.elem) THEN emitValueDecodes(t.elem)
                                      ELSE emitPrimitiveDecodes(Defined(t.elem))
    [] OTHER -> IsStruct(t) \/ emitPrimitiveDecodes(t)

emitFieldDecodes(fd) ==
  \/ fd.cycleBreak
  \/ IF fd.custom # "" THEN resolveCodec(fd.custom, fd.type)
     ELSE IF fd.type.kind = "pointer"
     THEN LET t == fd.type.elem
          IN IsStruct(t) \/ IsByteSlice(Defined(t)) \/ emitPrimitiveDecodes(Defined(t))
     ELSE emitValueDecodes(fd.type)

RECURSIVE walkRejectGeneric(_, _)
walkRejectGeneric(t, depth) ==
  CASE IsStruct(t) -> IsGeneric(t) /\ depth > 0
    [] t.kind \in {"pointer", "slice", "array"} -> walkRejectGeneric(t.elem, depth + 1)
    [] t.kind = "map" -> walkRejectGeneric(t.key, depth + 1) \/ walkRejectGeneric(t.elem, depth + 1)
    [] OTHER -> FALSE

\* A field of the struct itself, tagged or not, has a generic type inside its own.
rejectIndirectGenerics(s) == \E f \in ToSet(Decl(s).fields) : walkRejectGeneric(f.type, 0)

\* The checks made before any file is emitted.
GenerateWithCodecs ==
  /\ phase = "accepted"
  /\ phase' = IF \E s \in DOMAIN seen : ~ seen[s].opaque /\ (Decl(s).generic \/ rejectIndirectGenerics(s))
              THEN "failed" ELSE "emit"
  /\ UNCHANGED <<program, queue, seen, issues, answers>>

\* The file of one struct, with an emitter of its own.  An error ends the
\* generation.
emitFile(s) ==
  /\ phase = "emit"
  /\ s \in DOMAIN seen \ DOMAIN answers /\ ~ seen[s].opaque
  /\ answers' = (s :> emitMarshal(s)) @@ answers
  /\ phase' = IF \A fd \in ToSet(seen[s].fields) : emitFieldDecodes(fd) THEN "emit" ELSE "failed"
  /\ UNCHANGED <<program, queue, seen, issues>>

Next ==
  \/ flatten \/ Validate \/ GenerateWithCodecs
  \/ \E s \in DOMAIN program.structs : emitFile(s)

Spec == Init /\ [][Next]_vars

-----------------------------------------------------------------------------
(* Properties, in terms of the declarations alone.                         *)

Structs == DOMAIN program.structs

\* t and every type inside it.
RECURSIVE Parts(_)
Parts(t) ==
  {t} \cup (CASE t.kind = "map" -> Parts(t.key) \cup Parts(t.elem)
              [] t.kind \in {"named", "pointer", "slice", "array"} -> Parts(t.elem)
              [] OTHER -> {})

StructsIn(t) == {p.name : p \in {x \in Parts(t) : IsStruct(x)}}

\* What can be reached from S, and what in one step or more from n.
RECURSIVE From(_, _)
From(G, S) ==
  LET next == AllSuccessors(G, S) IN IF next \subseteq S THEN S ELSE From(G, S \cup next)
Below(G, n) == From(G, Successors(G, n))

\* The structs whose fields a struct has: itself and what it embeds.
Embeds == [node |-> Structs,
           edge |-> {<<a, b>> \in Structs \X Structs :
                       \E f \in ToSet(Decl(a).fields) : f.embed /\ b \in StructsIn(f.type)}]
HasFieldsOf(s) == From(Embeds, {s})

\* The fields of s that have a tag, promoted ones included.
Promoted(s) ==
  {f \in UNION {ToSet(Decl(e).fields) : e \in HasFieldsOf(s)} : ~ f.embed /\ "skip" \notin f.opts}

\* The fields that are on the wire as the shape of their Go type; none of an
\* opaque struct.
Plain(s) ==
  IF Decl(s).opaque THEN {} ELSE
  {f \in Promoted(s) : f.custom = ""}

IsWritten(f) == "deprecated" \notin f.opts \/ "compat_write" \in f.opts

GraphOf(pick(_)) ==
  [node |-> Structs,
   edge |-> UNION {{<<a, b>> : b \in UNION {StructsIn(f.type) : f \in {x \in Plain(a) : pick(x)}}} :
                     a \in Structs}]

\* Which structs a struct mentions; which its decoder calls; which its encoder.
Mentions == GraphOf(LAMBDA f : TRUE)
Descent  == GraphOf(LAMBDA f : "id_ref" \notin f.opts)
Encodes  == GraphOf(LAMBDA f : "id_ref" \notin f.opts /\ IsWritten(f))

\* The closure is exact: an accepted schema has a declaration of every struct
\* the roots lead to, through embedded structs, defined types, map keys and
\* id_refs, and of no other, and no placeholder is left for the emitter to
\* dereference (BuildSchema, enqueue).
ClosureExact ==
  phase = "accepted" =>
              /\ DOMAIN seen = From(Mentions, ToSet(program.roots))
              /\ \A s \in DOMAIN seen : ~ seen[s].placeholder

\* The structs a root's generated methods call are never on a cycle, whatever
\* the composites, defined types and embedded structs it would run through, and
\* a type/cycle diagnostic shows a cycle there is (validateNoCycles).
NoInfiniteDescent ==
  phase \in {"accepted", "rejected"} =>
    LET D == Descent
    IN /\ phase = "accepted" => \A s \in From(D, ToSet(program.roots)) : s \notin Below(D, s)
       /\ \A i \in issues : i.code = "type/cycle" =>
            \A k \in DOMAIN i.about :
              <<i.about[k], i.about[(k % Len(i.about)) + 1]>> \in D.edge

\* The tags of s's fields and of all it embeds, once for each path to them.
RECURSIVE TagsOf(_)
TagsOf(s) ==
  FlattenSeq([i \in DOMAIN Decl(s).fields |->
    LET f == Decl(s).fields[i]
    IN IF f.embed THEN TagsOf(PointerElem(f.type).name)
       ELSE IF "skip" \in f.opts THEN <<>> ELSE <<f.tag>>])

\* In an accepted schema a tag of a struct is one field's, whichever of the two
\* is promoted from an embedded struct and by how many paths, and never one
\* that the struct or one it embeds has reserved; and the schema has all of
\* them (flattenAnonymous, checkFlattenedTagCollisions, validateStruct).
TagSpaceSound ==
  phase = "accepted" => \A s \in {x \in DOMAIN seen : ~ Decl(x).opaque} :
    /\ IsInjective(TagsOf(s))
    /\ ToSet(TagsOf(s)) = {fd.tag : fd \in ToSet(seen[s].fields)}
    /\ ToSet(TagsOf(s)) \cap UNION {Decl(e).reserved : e \in HasFieldsOf(s)} = {}

\* A materializing codec is among the fields s writes, or may be.
Materializes(s) ==
  \/ Decl(s).opaque
  \/ \E f \in Promoted(s) : IsMaterializing(f.custom) /\ IsWritten(f)

\* The emitter's memoized answer, on which the choice between a measured and a
\* patched length rests, is right for every struct from which no cycle can be
\* reached, whatever was asked before (typeContainsMaterializingCodec).
MemoExact ==
  \A s \in DOMAIN answers : \A a \in answers[s] :
    LET G == Encodes
        reached == From(G, {a[1]})
    IN (\A x \in reached : x \notin Below(G, x)) => (a[2] <=> \E x \in reached : Materializes(x))

\* A map inside another type whose key cannot be written.
InnerBadKey(t) ==
  \E p \in Parts(t) \ {t} : p.kind = "map" /\ Defined(p.key).kind \notin {"basic", "byte", "bool"}

\* A codec that nobody registered, or registered for another Go type.
NoCodec(f) ==
  /\ f.custom # ""
  /\ f.custom \in DOMAIN Registry => \E t \in Registry[f.custom].goType : t # PointerElem(f.type)

\* What only the generator refuses in a struct.
RefusedLate(s) ==
  \/ \E f \in Promoted(s) : NoCodec(f)
  \/ \E f \in Plain(s) : InnerBadKey(f.type)
  \/ \E f \in ToSet(Decl(s).fields) :
       /\ "skip" \in f.opts \/ f.custom # ""
       /\ \E p \in Parts(f.type) \ {f.type} : IsGeneric(p)

\* What lint is worth: of a schema without diagnostics the generator emits every
\* file, unless a struct of it, or one that it embeds, has a codec that cannot be
\* called, an inner map whose key cannot be written, or a generic type inside a
\* field that lint does not walk; and then it does refuse (checkSupportedType,
\* resolveCodec, rejectIndirectGenerics).
LateFailuresExact ==
  LET owned == {s \in DOMAIN seen : ~ Decl(s).opaque}
      late  == \E s \in owned : RefusedLate(s)
  IN /\ phase = "failed" => late
     /\ phase = "emit" /\ owned \subseteq DOMAIN answers => ~ late
=============================================================================
