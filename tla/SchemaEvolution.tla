--------------------------- MODULE SchemaEvolution ---------------------------
(***************************************************************************)
(* A struct's schema over its life: authors edit the Go struct, the schema *)
(* tool snapshots it, `gsbmschema diff` classifies the edit against the    *)
(* committed snapshot and the CI gate admits or blocks it                  *)
(* (tools/gsbmschema/classifier.go, runner.go).  Meanwhile the generated   *)
(* encoder of the committed schema writes blobs that every later schema's  *)
(* generated decoder is expected to read (tools/gsbmcodegen/emit.go).      *)
(*                                                                         *)
(* One struct is modelled: the classifier compares structs one by one.  A  *)
(* stored blob is represented by one of its fields, since the decoder      *)
(* takes tags one by one and a blob is readable iff every field is.        *)
(* Alias, embedding and opaque transitions are left out (they do not touch *)
(* a field's own bytes), and so is the map-key row, which only repeats a   *)
(* type change.                                                            *)
(***************************************************************************)
EXTENDS Integers, FiniteSets, Functions

CONSTANTS
  Tags,        \* field tags
  Names,       \* Go field names
  Shapes,      \* the shapes a declaration may have, as the snapshot holds them:
               \*   [type, wire, optional, cycleBreak, override, custom]
  CodecWire    \* codec name -> wire type of its registration

None == "none"

\* The lifecycle of a declared field (FieldDecl's Deprecated and CompatWrite).
Lives == {"active", "compat", "deprecated"}
Field == [name : Names, life : Lives, shape : Shapes]

VARIABLES
  schema,     \* tag -> declaration, for the declared tags (committed snapshot)
  reserved,   \* the struct's //gsbm:reserved tags
  blob,       \* {a stored field}, or {} when none is or it was disclaimed
  frozen,     \* its tag's shape was edited while the classifier held it frozen
  window      \* [tag with an open compat_write window -> the shape the
              \*  release before the window reads it as]

vars == <<schema, reserved, blob, frozen, window>>

-----------------------------------------------------------------------------
(* What the generated code writes and reads.                               *)

\* emitMarshal skips a deprecated field unless it is compat_write.
Emits(sch, t) == t \in DOMAIN sch /\ sch[t].life # "deprecated"

\* Width in bits the generated code bounds an integer to (0: not an integer):
\* the override's, or the Go kind's with the platform-sized kinds at 32.
WireOverrideCompat(s) ==
  IF s.override # 0 THEN s.override
  ELSE CASE s.type \in {"int", "uint", "uintptr", "T/id:int"} -> 32
         [] s.type \in {"int8", "uint8"}   -> 8
         [] s.type \in {"int16", "uint16"} -> 16
         [] s.type \in {"int32", "uint32"} -> 32
         [] s.type \in {"int64", "uint64"} -> 64
         [] OTHER                          -> 0

\* The wire type in the field's key.
wireType(s) ==
  IF s.cycleBreak         THEN s.wire
  ELSE IF s.optional      THEN "length"
  ELSE IF s.custom # None THEN CodecWire[s.custom]
  ELSE s.wire

\* What the bytes after the key are: who writes them, behind a presence byte
\* or not.
Body(s) == <<IF s.custom # None THEN s.custom ELSE s.type, s.optional>>

\* An integer field may hold a value that needs 64 bits; the encoder refuses it
\* (ErrIntegerOverflow) on a narrower wire.
Holds(s, big) == big => s.custom = None /\ ~s.optional /\ WireOverrideCompat(s) = 64

\* The generated decoder of sch on a stored field.
Outcome(sch, b) ==
  IF b.tag \notin DOMAIN sch THEN "skipped"
  ELSE LET s == sch[b.tag].shape IN
       IF wireType(s) # wireType(b.shape)          THEN "ErrWrongWireType"
       ELSE IF Body(s) # Body(b.shape)             THEN "misread"
       ELSE IF b.big /\ WireOverrideCompat(s) < 64 THEN "ErrIntegerOverflow"
       ELSE "ok"

-----------------------------------------------------------------------------
(* The classifier.                                                         *)

Change(sev, code) == [sev |-> sev, code |-> code]
If(c, change) == IF c THEN {change} ELSE {}

\* Mutant: compat_write taken for off the wire.
shapeFrozenAnyDeprecated(pf, cf) == pf.life # "active" /\ cf.life # "active"

\* Off the wire in both snapshots: the shape is not compared.
shapeFrozen(pf, cf) == pf.life = "deprecated" /\ cf.life = "deprecated"

\* The lifecycle row of the table: one change per transition.
LifecycleChange(p, c) ==
  IF p = c THEN {}
  ELSE CASE c = "compat"                     -> {Change("safe", "field/compat-write-added")}
         [] p = "active" /\ c = "deprecated" -> {Change("warning", "field/deprecated")}
         [] p = "compat" /\ c = "deprecated" -> {Change("breaking", "field/compat-write-removed")}
         [] c = "active"                     -> {Change("warning", "field/resurrected")}

\* Mutant: the platform-sized kinds at their host width.
DefaultIntWidthPlatform(type) ==
  CASE type \in {"int", "int64", "uint", "uint64", "uintptr", "T/id:int"} -> 64
    [] OTHER -> 0

\* The classifier's own reading of the width, from the type as the snapshot
\* spells it.
DefaultIntWidth(type) ==
  CASE type = "int" -> 32 [] type = "int8" -> 8 [] type = "int16" -> 16
    [] type = "int32" -> 32 [] type = "int64" -> 64
    [] type \in {"uint", "uintptr"} -> 32 [] type = "uint8" -> 8 [] type = "uint16" -> 16
    [] type = "uint32" -> 32 [] type = "uint64" -> 64
    [] type = "T/id:int" -> 32
    [] OTHER -> 0

effectiveWireWidth(s) == IF s.override # 0 THEN s.override ELSE DefaultIntWidth(s.type)

\* buildFieldDecl refuses id_ref with a codec, and a type= override on a field
\* (or on the id of an id_ref's target) that is no integer.
ASSUME ShapesAssumption ==
  \A s \in Shapes : /\ s.cycleBreak => s.custom = None
                    /\ s.override \in Nat
                    /\ s.override # 0 => DefaultIntWidth(s.type) # 0

\* Width transitions; silent when a side has no integer width.
WidthChange(p, c) ==
  LET pb == effectiveWireWidth(p)
      cb == effectiveWireWidth(c)
  IN IF pb = 0 \/ cb = 0 THEN {}
     ELSE CASE cb > pb -> {Change("safe", "field/wire-widened")}
            [] cb < pb -> {Change("breaking", "field/wire-narrowed")}
            [] OTHER   -> {Change("safe", "field/wire-intent-changed")}

CustomChange(p, c) ==
  IF p = c THEN {}
  ELSE CASE p = None -> {Change("warning", "field/custom-added")}
         [] c = None -> {Change("breaking", "field/custom-removed")}
         [] OTHER    -> {Change("breaking", "field/custom-changed")}

ShapeChanges(p, c) ==
  LET plain == p.custom = None /\ c.custom = None
  IN If(p.type # c.type, Change("breaking", "field/type-changed"))
     \union If(plain /\ p.wire # c.wire, Change("breaking", "field/wire-changed"))
     \union If(p.optional # c.optional, Change("breaking", "field/optional-changed"))
     \union If(p.cycleBreak # c.cycleBreak, Change("breaking", "field/cycle-break-toggled"))
     \union (IF plain /\ p.override # c.override THEN WidthChange(p, c) ELSE {})
     \union CustomChange(p.custom, c.custom)

\* A tag declared on both sides.
FieldChanges(pf, cf) ==
  LifecycleChange(pf.life, cf.life)
  \union If(pf.name # cf.name, Change("safe", "field/renamed"))
  \union (IF shapeFrozen(pf, cf) THEN {} ELSE ShapeChanges(pf.shape, cf.shape))

RemovedCode(pf) ==
  CASE pf.life = "compat"     -> "field/removed-compat-write"
    [] pf.life = "deprecated" -> "field/removed-deprecated"
    [] OTHER                  -> "field/removed"

AddedChange(prev, cf) ==
  IF \E u \in DOMAIN prev : prev[u].name = cf.name
  THEN Change("breaking", "field/tag-changed")
  ELSE Change("safe", "field/added")

\* classifyStruct, tag by tag.
ClassifyTag(t, prev, prevR, curr, currR) ==
  (CASE t \in DOMAIN prev \ DOMAIN curr -> {Change("breaking", RemovedCode(prev[t]))}
     [] t \in DOMAIN curr \ DOMAIN prev -> {AddedChange(prev, curr[t])}
     [] t \in DOMAIN prev \cap DOMAIN curr -> FieldChanges(prev[t], curr[t])
     [] OTHER -> {})
  \union If(t \in prevR \ currR, Change("breaking", "reserved/removed"))
  \union If(t \in currR \ prevR, Change("safe", "reserved/added"))

\* Mutant: the source annotation covers the dual-write stops too.
AcknowledgedAll(code, allow, stop) ==
  allow \/ (stop /\ code = "field/compat-write-removed")

\* //gsbm:allow-breaking on the struct acknowledges every breaking change but
\* the ones that stop a dual-write; the operator's --allow-stop-compat-write
\* acknowledges the orderly stop alone.
Acknowledged(code, allow, stop) ==
  \/ allow /\ code \notin {"field/compat-write-removed", "field/removed-compat-write"}
  \/ stop /\ code = "field/compat-write-removed"

\* CIDiffWithOptions.
GateBlocks(changes, allow, stop) ==
  \E c \in changes : c.sev = "breaking" /\ ~Acknowledged(c.code, allow, stop)

\* validateStruct, and the Go compiler, on the proposed struct.
Valid(curr, currR) ==
  /\ DOMAIN curr \cap currR = {}
  /\ IsInjective([t \in DOMAIN curr |-> curr[t].name])

-----------------------------------------------------------------------------
(* What an acknowledgement gives up: a stored field under a tag with an     *)
(* acknowledged breaking change, or a codec put on it (documented as        *)
(* wire-affecting, though only a warning).  Stopping the writes, and a      *)
(* removal that reserves the tag, give up nothing of what is stored.        *)
Disclaims(t, changes, currR) ==
  \E c \in changes :
    \/ /\ c.sev = "breaking"
       /\ c.code # "field/compat-write-removed"
       /\ ~(c.code \in {"field/removed", "field/removed-deprecated"} /\ t \in currR)
    \/ c.code = "field/custom-added"

\* A window is open from the edit that makes a field compat_write until an
\* operator acknowledges the stop, or an edit makes the field active again.  A
\* change that disclaims what is stored disclaims the older readers too.
Windows(curr, currR, changes, stop) ==
  LET opened   == {t \in DOMAIN curr : curr[t].life = "compat"}
      stopped  == {t \in Tags :
                     stop /\ Change("breaking", "field/compat-write-removed") \in changes[t]}
      active   == {t \in DOMAIN curr : curr[t].life = "active"}
      fresh    == {t \in DOMAIN curr :
                     t \notin DOMAIN schema \/ Disclaims(t, changes[t], currR)}
      readers(t) == IF t \in fresh THEN curr[t].shape
                    ELSE IF t \in DOMAIN window THEN window[t] ELSE schema[t].shape
  IN [t \in opened \union (DOMAIN window \ (stopped \union active)) |-> readers(t)]

Init ==
  /\ schema = <<>>
  /\ reserved = {}
  /\ blob = {}
  /\ frozen = FALSE
  /\ window = <<>>

\* The encoder of the committed schema stores a blob with field t in it.
WriteBlob(t, big) ==
  /\ Emits(schema, t)
  /\ Holds(schema[t].shape, big)
  /\ blob' = {[tag |-> t, shape |-> schema[t].shape, big |-> big]}
  /\ frozen' = FALSE
  /\ UNCHANGED <<schema, reserved, window>>

\* A pull request turns the committed snapshot into curr: the gate is run with
\* what the author annotated (allow) and the operator passed (stop).
Merge(curr, currR, allow, stop) ==
  LET changes == [t \in Tags |-> ClassifyTag(t, schema, reserved, curr, currR)]
  IN /\ Valid(curr, currR)
     /\ ~GateBlocks(UNION Range(changes), allow, stop)
     /\ schema' = curr
     /\ reserved' = currR
     /\ window' = Windows(curr, currR, changes, stop)
     /\ blob' = {b \in blob : ~Disclaims(b.tag, changes[b.tag], currR)}
     /\ frozen' = \E b \in blob' :
          \/ frozen
          \/ /\ b.tag \in DOMAIN schema \cap DOMAIN curr
             /\ shapeFrozen(schema[b.tag], curr[b.tag])
             /\ schema[b.tag].shape # curr[b.tag].shape

Without(t) == Restrict(schema, DOMAIN schema \ {t})
With(t, f) == [u \in DOMAIN schema \union {t} |-> IF u = t THEN f ELSE schema[u]]

\* Declare a field, or edit the declaration of one.
Declare(t, f, allow, stop) ==
  /\ t \in DOMAIN schema => schema[t] # f
  /\ Merge(With(t, f), reserved, allow, stop)

\* Delete a field, with or without reserving its tag.
Delete(t, reserve, allow, stop) ==
  /\ t \in DOMAIN schema
  /\ Merge(Without(t), reserved \union reserve, allow, stop)

\* Give a field another tag.
Retag(t, u, allow, stop) ==
  /\ t \in DOMAIN schema /\ u \notin DOMAIN schema
  /\ Merge([v \in (DOMAIN schema \ {t}) \union {u} |->
              IF v = u THEN schema[t] ELSE schema[v]], reserved, allow, stop)

\* Take a tag out of //gsbm:reserved.
Unreserve(t, allow, stop) ==
  /\ t \in reserved
  /\ Merge(schema, reserved \ {t}, allow, stop)

Next ==
  \/ \E t \in Tags, big \in BOOLEAN : WriteBlob(t, big)
  \/ \E t \in Tags, allow, stop \in BOOLEAN :
       \/ \E f \in Field : Declare(t, f, allow, stop)
       \/ \E reserve \in {{}, {t}} : Delete(t, reserve, allow, stop)
       \/ \E u \in Tags \ {t} : Retag(t, u, allow, stop)
       \/ Unreserve(t, allow, stop)

Spec == Init /\ [][Next]_vars

-----------------------------------------------------------------------------
(* Properties.                                                             *)

\* However many edits the gate has let through, a stored field that no
\* acknowledgement disclaimed is decoded correctly, or skipped, by the current
\* schema's generated decoder: never rejected, never misread.  A tag removed
\* and reserved stays safe for good.  Shape edits of a deprecated field are set
\* apart here: see DeprecatedShapeHarmless.
StoredBlobsReadable ==
  ~frozen => \A b \in blob : Outcome(schema, b) \in {"ok", "skipped"}

\* Rolling back one edit that is not breaking (and puts no codec on): the previous schema's
\* decoder takes every field the new encoder can write, or refuses a value
\* that is too wide for it; it never misreads one or meets a wrong wire type.
RollbackReads ==
  [][\A t \in Tags, big \in BOOLEAN :
       LET b == [tag |-> t, shape |-> schema'[t].shape, big |-> big]
           changes == UNION {ClassifyTag(u, schema, reserved, schema', reserved') : u \in Tags}
       IN /\ Emits(schema', t)
          /\ Holds(schema'[t].shape, big)
          /\ \A c \in changes : c.sev # "breaking" /\ c.code # "field/custom-added"
          => Outcome(schema, b) \in {"ok", "skipped", "ErrIntegerOverflow"}]_vars

\* The window protects the rollback it is for, however many edits it lasts: as
\* long as no operator has stopped it and the field has not gone back to active,
\* every new blob still has the field, and the release before the window takes
\* it, or refuses a value that has been widened beyond it.  (A field that goes
\* back to active first may then be deprecated with warnings only.)
WindowKeepsRollback ==
  \A t \in DOMAIN window :
    /\ Emits(schema, t)
    /\ \A big \in BOOLEAN : Holds(schema[t].shape, big) =>
         Outcome([u \in {t} |-> [shape |-> window[t]]],
                 [tag |-> t, shape |-> schema[t].shape, big |-> big])
           \in {"ok", "ErrIntegerOverflow"}

\* The classifier's comment on shapeFrozen: a deprecated field is off the wire,
\* so changing its declared shape is harmless.
DeprecatedShapeHarmless ==
  \A b \in blob : Outcome(schema, b) \in {"ok", "skipped"}
=============================================================================
