------------------------ MODULE SchemaEvolutionProofs ------------------------
(***************************************************************************)
(* The CI gate keeps stored blobs readable for every set of tags, names,   *)
(* shapes and codecs and however many edits it lets through.  A tag that   *)
(* left the schema says nothing of what is stored under it: the inductive  *)
(* invariant keeps it reserved, and compares every declared tag with what  *)
(* its stored bytes were written as.                                       *)
(***************************************************************************)
EXTENDS SchemaEvolution, TLAPS

StoredField == [tag : Tags, shape : Shapes, big : BOOLEAN]

\* Declarations, reservations and stored fields are what their names say.
Declared(sch) == DOMAIN sch \subseteq Tags /\ \A t \in DOMAIN sch : sch[t] \in Field
Types == Declared(schema) /\ blob \subseteq StoredField /\ frozen \in BOOLEAN

\* A decoder of shape s takes what was written with shape w.
Takes(s, w, big) ==
  /\ wireType(s) = wireType(w) /\ Body(s) = Body(w)
  /\ big => s.custom = None /\ WireOverrideCompat(s) >= 64

\* The stored bytes under a tag fit its declaration, or the tag is reserved.
Fits(sch, res, b) ==
  IF b.tag \in DOMAIN sch THEN Takes(sch[b.tag].shape, b.shape, b.big) ELSE b.tag \in res

IInv ==
  /\ Types
  /\ ~frozen => \A b \in blob : Fits(schema, reserved, b)

-----------------------------------------------------------------------------
\* The classifier's reading of a width from the snapshot is the generator's.
LEMMA WidthsAgree ==
  ASSUME NEW s \in Shapes
  PROVE  /\ WireOverrideCompat(s) = effectiveWireWidth(s)
         /\ WireOverrideCompat(s) \in Nat
         /\ s.override # 0 => DefaultIntWidth(s.type) # 0
BY ShapesAssumption DEF WireOverrideCompat, effectiveWireWidth, DefaultIntWidth

\* A change the classifier reports is known by its severity and its code.
LEMMA ChangeParts ==
  ASSUME NEW sev, NEW code
  PROVE  Change(sev, code).sev = sev /\ Change(sev, code).code = code
BY DEF Change

\* A shape edit with no breaking change, and with no codec put on, changes nothing
\* of the bytes, and an integer is not narrowed.
Harmless(changes) == \A c \in changes : c.sev # "breaking" /\ c.code # "field/custom-added"
LEMMA HarmlessShape ==
  ASSUME NEW p \in Shapes, NEW c \in Shapes, Harmless(ShapeChanges(p, c))
  PROVE  /\ wireType(c) = wireType(p) /\ Body(c) = Body(p) /\ c.custom = p.custom
         /\ p.custom = None /\ WireOverrideCompat(p) >= 64 => WireOverrideCompat(c) >= 64
<1>0. \A code : Change("breaking", code) \notin ShapeChanges(p, c)
  BY ChangeParts DEF Harmless
<1>1. p.type = c.type /\ p.optional = c.optional /\ p.cycleBreak = c.cycleBreak
  BY <1>0 DEF ShapeChanges, If
<1>2. p.custom = c.custom
  <2>1. Change("warning", "field/custom-added") \notin ShapeChanges(p, c)
    BY ChangeParts DEF Harmless
  <2> QED BY <1>0, <2>1 DEF ShapeChanges, CustomChange
<1>3. p.custom = None => p.wire = c.wire
  BY <1>0, <1>2 DEF ShapeChanges, If
<1>4. wireType(c) = wireType(p) /\ Body(c) = Body(p)
  BY <1>1, <1>2, <1>3, ShapesAssumption DEF wireType, Body
<1>5. ASSUME p.custom = None, WireOverrideCompat(p) >= 64
      PROVE  WireOverrideCompat(c) >= 64
  <2>1. CASE p.override = c.override
    BY <2>1, <1>1, <1>5 DEF WireOverrideCompat
  <2>2. CASE p.override # c.override
    <3>1. WidthChange(p, c) \subseteq ShapeChanges(p, c)
      BY <2>2, <1>2, <1>5 DEF ShapeChanges
    <3>2. Change("breaking", "field/wire-narrowed") \notin WidthChange(p, c)
      BY <3>1, <1>0
    <3>3. effectiveWireWidth(p) >= 64 /\ effectiveWireWidth(p) \in Nat /\ effectiveWireWidth(c) \in Nat
      BY <1>5, WidthsAgree
    <3>4. effectiveWireWidth(c) # 0
      BY <1>1, <2>2, WidthsAgree DEF effectiveWireWidth
    <3>5. ~(effectiveWireWidth(c) < effectiveWireWidth(p))
      BY <3>2, <3>3, <3>4 DEF WidthChange
    <3> QED BY <3>3, <3>5, WidthsAgree
  <2> QED BY <2>1, <2>2
<1> QED BY <1>2, <1>4, <1>5

\* What a merged edit says tag by tag, when it disclaims nothing stored under t:
\* the tag is reserved where its declaration goes away and never taken out of the
\* reserved ones, and a shape that is compared fits the one before.
LEMMA KeptTag ==
  ASSUME NEW t, NEW prev, NEW prevR, NEW curr, NEW currR, Declared(prev), Declared(curr),
         Valid(curr, currR),
         ~Disclaims(t, ClassifyTag(t, prev, prevR, curr, currR), currR)
  PROVE  /\ t \in DOMAIN prev \ DOMAIN curr => t \in currR
         /\ t \in prevR => t \in currR /\ t \notin DOMAIN curr
         /\ t \in DOMAIN prev \cap DOMAIN curr =>
              \/ shapeFrozen(prev[t], curr[t])
              \/ Harmless(ShapeChanges(prev[t].shape, curr[t].shape))
<1> DEFINE changes == ClassifyTag(t, prev, prevR, curr, currR)
<1>0. \A code : Change("breaking", code) \in changes =>
        \/ code = "field/compat-write-removed"
        \/ code \in {"field/removed", "field/removed-deprecated"} /\ t \in currR
  BY ChangeParts DEF Disclaims
<1>1. ASSUME t \in DOMAIN prev \ DOMAIN curr PROVE t \in currR
  <2>1. Change("breaking", RemovedCode(prev[t])) \in changes
    BY <1>1 DEF ClassifyTag
  <2>2. RemovedCode(prev[t]) # "field/compat-write-removed"
    BY DEF RemovedCode
  <2> QED BY <1>0, <2>1, <2>2
<1>2. ASSUME t \in prevR PROVE t \in currR /\ t \notin DOMAIN curr
  <2>1. t \notin currR => Change("breaking", "reserved/removed") \in changes
    BY <1>2 DEF ClassifyTag, If
  <2> QED BY <1>0, <2>1 DEF Valid
<1>3. ASSUME t \in DOMAIN prev \cap DOMAIN curr, ~shapeFrozen(prev[t], curr[t])
      PROVE  Harmless(ShapeChanges(prev[t].shape, curr[t].shape))
  <2> DEFINE sc == ShapeChanges(prev[t].shape, curr[t].shape)
  <2>1. sc \subseteq changes
    BY <1>3 DEF ClassifyTag, FieldChanges
  <2>2. \A c \in sc : c.sev = "breaking" =>
          c.code \notin {"field/compat-write-removed", "field/removed", "field/removed-deprecated"}
    BY ChangeParts DEF ShapeChanges, WidthChange, CustomChange, If
  <2> HIDE DEF sc, changes
  <2>3. \A c \in changes : /\ c.code # "field/custom-added"
                           /\ c.sev = "breaking" =>
                                c.code \in {"field/compat-write-removed", "field/removed", "field/removed-deprecated"}
    BY DEF Disclaims, changes
  <2> QED BY <2>1, <2>2, <2>3 DEF Harmless, sc
<1> QED BY <1>1, <1>2, <1>3

\* A merged edit keeps every stored field it does not disclaim readable.
LEMMA MergeInv ==
  ASSUME IInv, NEW curr, NEW currR, NEW allow \in BOOLEAN, NEW stop \in BOOLEAN,
         Declared(curr), Merge(curr, currR, allow, stop)
  PROVE  IInv'
<1>1. /\ Valid(curr, currR) /\ schema' = curr /\ reserved' = currR
      /\ Declared(schema) /\ blob \subseteq StoredField
  BY DEF Merge, IInv, Types
<1>2. /\ blob' \subseteq blob
      /\ \A b \in blob' : ~Disclaims(b.tag, ClassifyTag(b.tag, schema, reserved, curr, currR), currR)
  BY <1>1 DEF Merge, StoredField
<1>3. /\ frozen' \in BOOLEAN
      /\ ~frozen' => \A b \in blob' :
           /\ ~frozen
           /\ b.tag \in DOMAIN schema \cap DOMAIN curr /\ shapeFrozen(schema[b.tag], curr[b.tag])
                => schema[b.tag].shape = curr[b.tag].shape
  BY <1>1 DEF Merge
<1>4. Types'
  BY <1>1, <1>2, <1>3 DEF Types, Declared
<1>5. ASSUME ~frozen', NEW b \in blob' PROVE Fits(curr, currR, b)
  <2>1. /\ b \in blob /\ ~frozen /\ Fits(schema, reserved, b)
        /\ ~Disclaims(b.tag, ClassifyTag(b.tag, schema, reserved, curr, currR), currR)
    BY <1>2, <1>3, <1>5 DEF IInv
  <2> DEFINE t == b.tag
  <2>2. /\ t \in DOMAIN schema \ DOMAIN curr => t \in currR
        /\ t \in reserved => t \in currR /\ t \notin DOMAIN curr
        /\ t \in DOMAIN schema \cap DOMAIN curr =>
              \/ shapeFrozen(schema[t], curr[t])
              \/ Harmless(ShapeChanges(schema[t].shape, curr[t].shape))
    BY <1>1, <2>1, KeptTag
  <2>3. CASE t \notin DOMAIN curr
    BY <2>1, <2>2, <2>3 DEF Fits
  <2>4. CASE t \in DOMAIN curr
    <3>1. t \in DOMAIN schema /\ Takes(schema[t].shape, b.shape, b.big)
      BY <2>1, <2>2, <2>4 DEF Fits
    <3>2. schema[t].shape \in Shapes /\ curr[t].shape \in Shapes
      BY <1>1, <2>4, <3>1 DEF Declared, Field
    <3>3. Takes(curr[t].shape, b.shape, b.big)
      <4>1. CASE schema[t].shape = curr[t].shape
        BY <3>1, <4>1
      <4>2. CASE Harmless(ShapeChanges(schema[t].shape, curr[t].shape))
        BY <3>1, <3>2, <4>2, HarmlessShape DEF Takes
      <4> QED BY <1>3, <1>5, <2>2, <2>4, <3>1, <4>1, <4>2
    <3> QED BY <2>4, <3>3 DEF Fits
  <2> QED BY <2>3, <2>4
<1> QED BY <1>1, <1>4, <1>5 DEF IInv

-----------------------------------------------------------------------------
\* Every pull request proposes declarations.
LEMMA EditsDeclare ==
  ASSUME Declared(schema), NEW t \in Tags, NEW u \in Tags, NEW f \in Field
  PROVE  /\ Declared(With(t, f)) /\ Declared(Without(t))
         /\ t \in DOMAIN schema =>
              Declared([v \in (DOMAIN schema \ {t}) \union {u} |->
                          IF v = u THEN schema[t] ELSE schema[v]])
BY DEF Declared, With, Without, Restrict

\* A step is a blob stored or an edit merged.
Edit == \E curr, currR : \E allow, stop \in BOOLEAN :
          Declared(curr) /\ Merge(curr, currR, allow, stop)
LEMMA StepKinds ==
  ASSUME Declared(schema), Next
  PROVE  (\E t \in Tags, big \in BOOLEAN : WriteBlob(t, big)) \/ Edit
<1> SUFFICES ASSUME ~ \E t \in Tags, big \in BOOLEAN : WriteBlob(t, big)
             PROVE  Edit
  OBVIOUS
<1>1. PICK t \in Tags, allow \in BOOLEAN, stop \in BOOLEAN :
        \/ \E f \in Field : Declare(t, f, allow, stop)
        \/ \E reserve \in {{}, {t}} : Delete(t, reserve, allow, stop)
        \/ \E u \in Tags \ {t} : Retag(t, u, allow, stop)
        \/ Unreserve(t, allow, stop)
  BY DEF Next
<1>2. CASE \E f \in Field : Declare(t, f, allow, stop)
  <2>1. PICK f \in Field : Merge(With(t, f), reserved, allow, stop)
    BY <1>2 DEF Declare
  <2>2. Declared(With(t, f))
    BY EditsDeclare
  <2> QED BY <2>1, <2>2 DEF Edit
<1>3. CASE \E reserve \in {{}, {t}} : Delete(t, reserve, allow, stop)
  <2>1. PICK reserve \in {{}, {t}} : Merge(Without(t), reserved \union reserve, allow, stop)
    BY <1>3 DEF Delete
  <2>2. Declared(Without(t))
    BY DEF Declared, Without, Restrict
  <2> QED BY <2>1, <2>2 DEF Edit
<1>4. CASE \E u \in Tags \ {t} : Retag(t, u, allow, stop)
  <2>1. PICK u \in Tags \ {t} : Retag(t, u, allow, stop)
    BY <1>4
  <2> DEFINE moved == [v \in (DOMAIN schema \ {t}) \union {u} |->
                         IF v = u THEN schema[t] ELSE schema[v]]
  <2>2. Declared(moved)
    BY <2>1 DEF Retag, Declared
  <2>3. Merge(moved, reserved, allow, stop)
    BY <2>1 DEF Retag
  <2> HIDE DEF moved
  <2> QED BY <2>2, <2>3 DEF Edit
<1>5. CASE Unreserve(t, allow, stop)
  <2>1. Merge(schema, reserved \ {t}, allow, stop)
    BY <1>5 DEF Unreserve
  <2> QED BY <2>1 DEF Edit
<1> QED BY <1>1, <1>2, <1>3, <1>4, <1>5

\* At first nothing is declared and nothing stored.
LEMMA InitInv == Init => IInv
<1>1. Declared(<<>>)
  <2>1. DOMAIN <<>> = {}
    OBVIOUS
  <2> QED BY <2>1 DEF Declared
<1> QED BY <1>1 DEF Init, IInv, Types

\* The encoder stores what the committed schema declares, and the gate lets
\* nothing through that would take it away unsaid.
LEMMA StepInv == IInv /\ [Next]_vars => IInv'
<1> SUFFICES ASSUME IInv, [Next]_vars PROVE IInv'
  OBVIOUS
<1>1. CASE UNCHANGED vars
  BY <1>1 DEF vars, IInv, Types, Declared, Fits, Takes, wireType, Body, WireOverrideCompat
<1>2. ASSUME NEW t \in Tags, NEW big \in BOOLEAN, WriteBlob(t, big) PROVE IInv'
  <2>1. /\ t \in DOMAIN schema /\ schema[t].shape \in Shapes
        /\ schema' = schema /\ reserved' = reserved /\ frozen' = FALSE
        /\ blob' = {[tag |-> t, shape |-> schema[t].shape, big |-> big]}
        /\ Holds(schema[t].shape, big)
    BY <1>2 DEF WriteBlob, Emits, IInv, Types, Declared, Field
  <2>2. Types'
    <3>1. Declared(schema)'
      BY <2>1 DEF IInv, Types, Declared
    <3>2. [tag |-> t, shape |-> schema[t].shape, big |-> big] \in StoredField
      BY <2>1 DEF StoredField
    <3> QED BY <2>1, <3>1, <3>2 DEF Types
  <2>3. Takes(schema[t].shape, schema[t].shape, big)
    BY <2>1 DEF Takes, Holds
  <2> QED BY <2>1, <2>2, <2>3 DEF IInv, Fits
<1>3. CASE Edit
  BY <1>3, MergeInv DEF Edit
<1> QED BY <1>1, <1>2, <1>3, StepKinds DEF IInv, Types

\* For every set of tags, names, shapes and codecs: however many edits CIDiff
\* admits, a stored field decodes or is skipped, unless an edit of its tag was
\* acknowledged as breaking, put a codec on it, or changed its shape while it was
\* deprecated.
THEOREM StoredDataReadable == Spec => []StoredBlobsReadable
<1>1. IInv => StoredBlobsReadable
  <2> SUFFICES ASSUME IInv, ~frozen, NEW b \in blob
               PROVE  Outcome(schema, b) \in {"ok", "skipped"}
    BY DEF StoredBlobsReadable
  <2>1. CASE b.tag \notin DOMAIN schema
    BY <2>1 DEF Outcome
  <2>2. CASE b.tag \in DOMAIN schema
    <3>1. Takes(schema[b.tag].shape, b.shape, b.big)
      BY <2>2 DEF IInv, Fits
    <3>2. schema[b.tag].shape \in Shapes
      BY <2>2 DEF IInv, Types, Declared, Field
    <3>3. WireOverrideCompat(schema[b.tag].shape) \in Nat
      BY <3>2, WidthsAgree
    <3> QED BY <2>2, <3>1, <3>3 DEF Outcome, Takes
  <2> QED BY <2>1, <2>2
<1> QED BY <1>1, InitInv, StepInv, PTL DEF Spec

\* Declarations are always declarations of this struct's tags.
LEMMA DeclaredAlways == IInv => Declared(schema)
BY DEF IInv, Types

\* For every set of tags, names, shapes and codecs: the decoder generated before an
\* edit that breaks nothing reads what the one generated after it writes.
THEOREM RollbackIsSafe == Spec => RollbackReads
<1> DEFINE Reads(t, big) ==
      LET b == [tag |-> t, shape |-> schema'[t].shape, big |-> big]
          changes == UNION {ClassifyTag(u, schema, reserved, schema', reserved') : u \in Tags}
      IN /\ Emits(schema', t)
         /\ Holds(schema'[t].shape, big)
         /\ \A c \in changes : c.sev # "breaking" /\ c.code # "field/custom-added"
         => Outcome(schema, b) \in {"ok", "skipped", "ErrIntegerOverflow"}
<1>1. ASSUME Declared(schema), Declared(schema'), NEW t \in Tags, NEW big \in BOOLEAN
      PROVE  Reads(t, big)
  <2> DEFINE b == [tag |-> t, shape |-> schema'[t].shape, big |-> big]
             here == ClassifyTag(t, schema, reserved, schema', reserved')
  <2> SUFFICES ASSUME Emits(schema', t), Harmless(here), t \in DOMAIN schema
               PROVE  Outcome(schema, b) \in {"ok", "skipped", "ErrIntegerOverflow"}
    BY DEF Harmless, Outcome
  <2>1. t \in DOMAIN schema' /\ schema'[t].life # "deprecated"
    BY DEF Emits
  <2>2. schema[t].shape \in Shapes /\ schema'[t].shape \in Shapes
    BY <1>1, <2>1 DEF Declared, Field
  <2>3. ShapeChanges(schema[t].shape, schema'[t].shape) \subseteq here
    BY <2>1 DEF ClassifyTag, FieldChanges, shapeFrozen
  <2> HIDE DEF here
  <2>4. Harmless(ShapeChanges(schema[t].shape, schema'[t].shape))
    BY <2>3 DEF Harmless
  <2>5. wireType(schema[t].shape) = wireType(schema'[t].shape) /\ Body(schema[t].shape) = Body(schema'[t].shape)
    BY <2>2, <2>4, HarmlessShape
  <2> QED BY <2>5 DEF Outcome
<1>2. IInv /\ IInv' => [\A t \in Tags, big \in BOOLEAN : Reads(t, big)]_vars
  <2>1. IInv /\ IInv' => Declared(schema) /\ Declared(schema')
    BY DEF IInv, Types, Declared
  <2> HIDE DEF Reads
  <2> QED BY <1>1, <2>1
<1> QED BY <1>2, InitInv, StepInv, PTL DEF Spec, RollbackReads

-----------------------------------------------------------------------------
\* A field in an open window is dual-written, in the bytes the release before the
\* window expects.
DualWritten(sch, t, w) ==
  /\ t \in DOMAIN sch /\ sch[t].life = "compat"
  /\ wireType(w) = wireType(sch[t].shape) /\ Body(w) = Body(sch[t].shape)
WInv == \A t \in DOMAIN window : DualWritten(schema, t, window[t])

\* What the gate let through is acknowledged, tag by tag.
LEMMA Admitted ==
  ASSUME NEW curr, NEW currR, NEW allow \in BOOLEAN, NEW stop \in BOOLEAN,
         Merge(curr, currR, allow, stop), NEW t \in Tags, NEW code,
         Change("breaking", code) \in ClassifyTag(t, schema, reserved, curr, currR)
  PROVE  Acknowledged(code, allow, stop)
<1> DEFINE changes == [u \in Tags |-> ClassifyTag(u, schema, reserved, curr, currR)]
<1>1. Change("breaking", code) \in UNION Range(changes)
  BY DEF Range
<1>2. ~GateBlocks(UNION Range(changes), allow, stop)
  BY DEF Merge
<1> HIDE DEF changes
<1> QED BY <1>1, <1>2, ChangeParts DEF GateBlocks

\* An edit of a dual-written field either keeps it dual-written, makes it active
\* again, or is the stop that the operator acknowledged.
LEMMA WindowEdit ==
  ASSUME NEW curr, NEW currR, NEW allow \in BOOLEAN, NEW stop \in BOOLEAN,
         Declared(curr), Merge(curr, currR, allow, stop),
         NEW t \in Tags, t \in DOMAIN schema, schema[t].life = "compat"
  PROVE  /\ t \in DOMAIN curr
         /\ \/ curr[t].life \in {"compat", "active"}
            \/ /\ stop
               /\ Change("breaking", "field/compat-write-removed")
                    \in ClassifyTag(t, schema, reserved, curr, currR)
<1> DEFINE here == ClassifyTag(t, schema, reserved, curr, currR)
<1>1. t \in DOMAIN curr
  <2>1. SUFFICES ASSUME t \notin DOMAIN curr PROVE FALSE
    OBVIOUS
  <2>2. Change("breaking", "field/removed-compat-write") \in here
    BY <2>1 DEF ClassifyTag, RemovedCode
  <2> QED BY <2>2, Admitted DEF Acknowledged
<1>2. ASSUME curr[t].life \notin {"compat", "active"}
      PROVE  stop /\ Change("breaking", "field/compat-write-removed") \in here
  <2>1. curr[t].life = "deprecated"
    BY <1>1, <1>2 DEF Declared, Field, Lives
  <2>2. Change("breaking", "field/compat-write-removed") \in here
    BY <1>1, <2>1 DEF ClassifyTag, FieldChanges, LifecycleChange
  <2> QED BY <2>2, Admitted DEF Acknowledged
<1> QED BY <1>1, <1>2

\* A merged edit keeps the windows it leaves open.
LEMMA MergeWindows ==
  ASSUME IInv, WInv, NEW curr, NEW currR, NEW allow \in BOOLEAN, NEW stop \in BOOLEAN,
         Declared(curr), Merge(curr, currR, allow, stop)
  PROVE  WInv'
<1> DEFINE changes  == [t \in Tags |-> ClassifyTag(t, schema, reserved, curr, currR)]
           opened   == {t \in DOMAIN curr : curr[t].life = "compat"}
           stopped  == {t \in Tags :
                          stop /\ Change("breaking", "field/compat-write-removed") \in changes[t]}
           active   == {t \in DOMAIN curr : curr[t].life = "active"}
           fresh    == {t \in DOMAIN curr :
                          t \notin DOMAIN schema \/ Disclaims(t, changes[t], currR)}
           readers(t) == IF t \in fresh THEN curr[t].shape
                         ELSE IF t \in DOMAIN window THEN window[t] ELSE schema[t].shape
<1>1. /\ Valid(curr, currR) /\ schema' = curr
      /\ window' = [t \in opened \union (DOMAIN window \ (stopped \union active)) |-> readers(t)]
  BY DEF Merge, Windows
<1>2. Declared(schema)
  BY DeclaredAlways
<1> DEFINE open == opened \union (DOMAIN window \ (stopped \union active))
<1> SUFFICES ASSUME NEW t \in open
             PROVE  DualWritten(curr, t, readers(t))
  <2> HIDE DEF open, readers
  <2> QED BY <1>1 DEF WInv, open
<1>3. t \in opened
  <2>1. SUFFICES ASSUME t \notin opened PROVE FALSE
    OBVIOUS
  <2>2. t \in DOMAIN window /\ t \notin stopped /\ t \notin active
    BY <2>1
  <2>3. t \in Tags /\ t \in DOMAIN schema /\ schema[t].life = "compat"
    BY <1>2, <2>2 DEF WInv, DualWritten, Declared
  <2> QED BY <2>1, <2>2, <2>3, WindowEdit
<1>4. t \in DOMAIN curr /\ curr[t].life = "compat" /\ t \in Tags
  BY <1>3 DEF Declared
<1>5. CASE t \notin DOMAIN schema \/ Disclaims(t, changes[t], currR)
  <2>1. readers(t) = curr[t].shape
    BY <1>4, <1>5
  <2> HIDE DEF readers
  <2> QED BY <1>4, <2>1 DEF DualWritten
<1>6. CASE t \in DOMAIN schema /\ ~Disclaims(t, changes[t], currR)
  <2>1. Harmless(ShapeChanges(schema[t].shape, curr[t].shape))
    BY <1>1, <1>2, <1>4, <1>6, KeptTag DEF shapeFrozen
  <2>2. schema[t].shape \in Shapes /\ curr[t].shape \in Shapes
    BY <1>2, <1>4, <1>6 DEF Declared, Field
  <2>3. /\ wireType(curr[t].shape) = wireType(schema[t].shape)
        /\ Body(curr[t].shape) = Body(schema[t].shape)
    BY <2>1, <2>2, HarmlessShape
  <2>4. readers(t) = IF t \in DOMAIN window THEN window[t] ELSE schema[t].shape
    BY <1>6
  <2> HIDE DEF readers
  <2> QED BY <1>4, <2>3, <2>4 DEF WInv, DualWritten
<1> QED BY <1>5, <1>6

\* Windows stay open through every step until they are closed.
LEMMA StepWindows == IInv /\ WInv /\ [Next]_vars => WInv'
<1> SUFFICES ASSUME IInv, WInv, [Next]_vars PROVE WInv'
  OBVIOUS
<1>1. CASE UNCHANGED vars
  BY <1>1 DEF vars, WInv
<1>2. ASSUME NEW t \in Tags, NEW big \in BOOLEAN, WriteBlob(t, big) PROVE WInv'
  BY <1>2 DEF WriteBlob, WInv
<1>3. CASE Edit
  BY <1>3, MergeWindows DEF Edit
<1> QED BY <1>1, <1>2, <1>3, StepKinds, DeclaredAlways

\* For every set of tags, names, shapes and codecs and any number of edits: while
\* a compat_write window is open, new blobs have the field and the release before
\* the window takes it.  //gsbm:allow-breaking alone never ends the dual-write; the
\* operator's flag does, or a return to active.
THEOREM WindowsHold == Spec => []WindowKeepsRollback
<1>1. Init => WInv
  <2>1. DOMAIN <<>> = {}
    OBVIOUS
  <2> QED BY <2>1 DEF Init, WInv
<1>2. WInv => WindowKeepsRollback
  <2> SUFFICES ASSUME WInv, NEW t \in DOMAIN window
               PROVE  /\ Emits(schema, t)
                      /\ \A big \in BOOLEAN :
                           Outcome([u \in {t} |-> [shape |-> window[t]]],
                                   [tag |-> t, shape |-> schema[t].shape, big |-> big])
                             \in {"ok", "ErrIntegerOverflow"}
    BY DEF WindowKeepsRollback
  <2>1. Emits(schema, t)
    BY DEF WInv, DualWritten, Emits
  <2>2. ASSUME NEW big \in BOOLEAN
        PROVE  Outcome([u \in {t} |-> [shape |-> window[t]]],
                       [tag |-> t, shape |-> schema[t].shape, big |-> big])
                 \in {"ok", "ErrIntegerOverflow"}
    <3>1. wireType(window[t]) = wireType(schema[t].shape) /\ Body(window[t]) = Body(schema[t].shape)
      BY DEF WInv, DualWritten
    <3> QED BY <3>1 DEF Outcome
  <2> QED BY <2>1, <2>2
<1> QED BY <1>1, <1>2, InitInv, StepInv, StepWindows, PTL DEF Spec
=============================================================================
