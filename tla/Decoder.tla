------------------------------ MODULE Decoder -------------------------------
(***************************************************************************)
(* The UnmarshalGSBM that gsbmcodegen emits for a schema, driving a Reader *)
(* over an arbitrary input (tools/gsbmcodegen/emit.go, the decode half).   *)
(* The generated code is recursive; its call stack is `todo', the pieces   *)
(* of generated code still to run, innermost first.  Every step is one     *)
(* call of a Reader method together with the `if err != nil { return err }'*)
(* behind it.                                                              *)
(***************************************************************************)
EXTENDS Reader, FieldTypes, FiniteSets

CONSTANTS
  CodecOutputs, \* the texts the parse function of a codec accepts
  Roots         \* the structs a blob may be decoded into

VARIABLES
  root,      \* the struct this blob is decoded into
  todo,      \* continuation stack
  got,       \* what it has stored so far, in order
  outcome    \* "running", "ok" or the error UnmarshalGSBM returned

dvars == <<vars, root, todo, got, outcome>>

\* An entry of `got': the tag of a field, nil or a pointer, a count, a value.
Stored(what, v) == [what |-> what, v |-> v]

Loop(name)     == [op |-> "loop", name |-> name]
Val(t)         == [op |-> "value", t |-> Underlying(t)]
CodecTail(c)   == [op |-> "codec", c |-> c]
Skip(wt)       == [op |-> "skip", wt |-> wt]
Count(t)       == [op |-> "count", t |-> t]
Alloc(t, n)    == [op |-> "alloc", t |-> t, n |-> n]
Elems(t, n)    == [op |-> "elems", t |-> t, n |-> n]
Presence(t)    == [op |-> "presence", t |-> t]
EndRegion      == [op |-> "end"]

Now  == Head(todo)
Rest == Tail(todo)
At(op) == outcome = "running" /\ todo # <<>> /\ Now.op = op

\* The call succeeded: the code stores what it read and goes on with k.  Or it
\* failed and every frame returns the error.
Then(k, stores) ==
  IF ret'.err = "nil"
    THEN todo' = k /\ got' = got \o stores /\ UNCHANGED outcome
    ELSE todo' = <<>> /\ outcome' = ret'.err /\ UNCHANGED got

\* The generated code itself returns an error; the reader is not told.
Return(e) == todo' = <<>> /\ outcome' = e /\ UNCHANGED got

\* The bytes the last call consumed, and the payload of a string among them.
Consumed == SubSeq(buf, pos + 1, pos')
Payload  == SubSeq(buf, pos' - ret'.v + 1, pos')

-----------------------------------------------------------------------------
\* The loop head `for r.HasMore() { tag, wt, err := r.ReadTag(); ...'.
NextField ==
  /\ At("loop") /\ HasMore
  /\ ReadTag
  /\ LET known == ret'.err = "nil" /\ ret'.v \in DOMAIN Schema[Now.name]
     IN IF known /\ ret'.wt # wireType(Schema[Now.name][ret'.v])
          THEN Return("ErrWrongWireType")
          ELSE IF known
            THEN Then(<<Val(Schema[Now.name][ret'.v])>> \o todo,
                      <<Stored("tag", <<ret'.v>>)>>)
            ELSE Then(<<Skip(ret'.wt)>> \o todo, <<>>)

\* The loop ends and UnmarshalGSBM returns r.Err().
LoopDone ==
  /\ At("loop") /\ ~ HasMore
  /\ IF err # "nil" THEN Return(err) ELSE todo' = Rest /\ UNCHANGED <<got, outcome>>
  /\ UNCHANGED vars

\* Mutant: an unknown tag is skipped as if it were a varint.
SkipUnknownAsVarint == At("skip") /\ SkipField(WireVarint) /\ Then(Rest, <<>>)

\* Mutant: an unknown tag (of one byte) is put back, for a caller that may know
\* it, instead of being skipped.
SkipUnknownPutBack ==
  /\ At("skip")
  /\ pos' = pos - 1 /\ ret' = Value(0)
  /\ UNCHANGED <<buf, end, err, saved>>
  /\ Then(Rest, <<>>)

SkipUnknown == At("skip") /\ SkipField(Now.wt) /\ Then(Rest, <<>>)

\* An integer beyond the Go type, or beyond the wire width of its tag, is
\* refused after it was read.
StoreInt(x, lo, hi) ==
  IF ret'.err = "nil" /\ x \notin lo .. hi
    THEN Return("ErrIntegerOverflow") ELSE Then(Rest, <<Stored("value", <<x>>)>>)

\* emitPrimitiveDecodeAssign and emitIntDecodeAssign.
DecodePrimitive ==
  /\ At("value")
  /\ \/ Now.t.kind = "uint" /\ ReadUvarint /\ StoreInt(ret'.v, 0, Now.t.max)
     \/ /\ Now.t.kind = "int" /\ ReadUvarint
        /\ StoreInt(zigzagDecode64(ret'.v), -Now.t.max - 1, Now.t.max)
     \/ /\ Now.t.kind = "fixed32" /\ ReadFixed(Fixed32Size)
        /\ Then(Rest, <<Stored("value", Consumed)>>)
     \/ /\ Now.t.kind = "bytes" /\ ReadBytes
        /\ Then(Rest, <<Stored("value", Payload)>>)

\* A codec that frames itself reads a string and parses it.
DecodeSelfFraming ==
  /\ At("value") /\ Now.t.kind = "custom" /\ codecKind(Now.t.codec) # "analytic"
  /\ ReadBytes
  /\ IF ret'.err = "nil" /\ Payload \notin CodecOutputs
       THEN Return("ErrCodec") ELSE Then(Rest, <<Stored("value", Payload)>>)

\* DecodeTime and DecodeDecimalBinary read two numbers; this is the second, and
\* the check behind it.  The first is an integer of full width.
DecodeCodecTail ==
  /\ At("codec")
  /\ ReadUvarint
  /\ LET ok == CASE Now.c = "Time"          -> ret'.v <= MaxNanos
                 [] Now.c = "DecimalBinary" -> ret'.v \div 2 < MaxScale
         v  == CASE Now.c = "Time"          -> <<ret'.v>>
                 [] Now.c = "DecimalBinary" -> <<ret'.v \div 2, ret'.v % 2>>
     IN IF ret'.err = "nil" /\ ~ ok
          THEN Return("ErrCodec") ELSE Then(Rest, <<Stored("value", v)>>)

\* Structs, slices, maps, pointers and the fields of analytic codecs all open
\* a length-delimited region.
OpensRegion(t) ==
  \/ t.kind \in {"struct", "slice", "map", "optional"}
  \/ t.kind = "custom" /\ codecKind(t.codec) = "analytic"

OpenRegion ==
  /\ At("value") /\ OpensRegion(Now.t)
  /\ BeginLengthDelim
  /\ LET inside == CASE Now.t.kind = "struct"   -> <<Loop(Now.t.name)>>
                     [] Now.t.kind = "optional" -> <<Presence(Now.t.elem)>>
                     [] Now.t.kind = "custom"   ->
                          <<Val([kind |-> IF Now.t.codec = "Time" THEN "int" ELSE "uint",
                                 max |-> 2 * MaxInt + 1]),
                            CodecTail(Now.t.codec)>>
                     [] OTHER                   -> <<Count(Now.t)>>
     IN Then(inside \o <<EndRegion>> \o Rest, <<>>)

ReadCount ==
  /\ At("count")
  /\ ReadLength
  /\ Then(<<IF Now.t.kind = "slice" THEN Alloc(Now.t, ret'.v)
                                    ELSE Elems(Now.t, ret'.v)>> \o Rest,
          <<Stored("count", <<ret'.v>>)>>)

\* A slice is allocated, or refused, before its elements are read; the
\* generated code tests r.Err() right after MakeSlice.
AllocSlice ==
  /\ At("alloc")
  /\ MakeSlice(Now.n)
  /\ Then(<<Elems(Now.t, Now.n)>> \o Rest, <<>>)

\* Mutant: the code returns after the last element, its region still open.
NextElemReturns ==
  /\ At("elems")
  /\ todo' = IF Now.n = 0 THEN Tail(Rest)
             ELSE (IF Now.t.kind = "map" THEN <<Val(Now.t.key)>> ELSE <<>>)
                  \o <<Val(Now.t.elem), Elems(Now.t, Now.n - 1)>> \o Rest
  /\ UNCHANGED <<vars, got, outcome>>

\* One element of a slice, or one key and value of a map.
NextElem ==
  /\ At("elems")
  /\ todo' = IF Now.n = 0 THEN Rest
             ELSE (IF Now.t.kind = "map" THEN <<Val(Now.t.key)>> ELSE <<>>)
                  \o <<Val(Now.t.elem), Elems(Now.t, Now.n - 1)>> \o Rest
  /\ UNCHANGED <<vars, got, outcome>>

\* A pointer whose presence byte was p: nil and zero-elided values have no
\* payload, and the payload of a struct is its body without a length.
AfterPresence(p, t) ==
  CASE p = 0 -> Then(Rest, <<Stored("nil", <<>>)>>)
    [] p = 3 -> Then(Rest, <<Stored("ptr", <<>>),
                             Stored("value", IF t.kind \in {"uint", "int"}
                                             THEN <<0>> ELSE zeroValue(t))>>)
    [] OTHER -> Then((IF t.kind = "struct" THEN <<Loop(t.name)>> ELSE <<Val(t)>>) \o Rest,
                     <<Stored("ptr", <<>>)>>)

\* Mutant: a nil pointer returns before its region is closed.
ReadPresenceNilReturns ==
  /\ At("presence")
  /\ ReadPresenceByte(isBuiltinPrimitive(Now.t))
  /\ IF ret'.err = "nil" /\ ret'.v = 0
       THEN Then(Tail(Rest), <<Stored("nil", <<>>)>>)
       ELSE AfterPresence(ret'.v, Now.t)

ReadPresence ==
  /\ At("presence")
  /\ ReadPresenceByte(isBuiltinPrimitive(Now.t))
  /\ AfterPresence(ret'.v, Now.t)

CloseRegion == At("end") /\ EndLengthDelim /\ Then(Rest, <<>>)

\* UnmarshalGSBM of the root returned nil: DecodeBodyInto reports r.Err().
Finish ==
  /\ outcome = "running" /\ todo = <<>>
  /\ outcome' = IF err = "nil" THEN "ok" ELSE err
  /\ UNCHANGED <<vars, todo, got>>

-----------------------------------------------------------------------------
DInit ==
  /\ Init
  /\ root \in Roots
  /\ todo = <<Loop(root)>>
  /\ got = <<>>
  /\ outcome = "running"

DNext ==
  /\ \/ NextField \/ LoopDone \/ SkipUnknown
     \/ DecodePrimitive \/ DecodeSelfFraming \/ DecodeCodecTail
     \/ OpenRegion \/ CloseRegion
     \/ ReadCount \/ AllocSlice \/ NextElem \/ ReadPresence
     \/ Finish
  /\ UNCHANGED root

DSpec == DInit /\ [][DNext]_dvars /\ WF_dvars(DNext)

-----------------------------------------------------------------------------
\* The bounds saved in the reader are exactly those the frames still owe an
\* EndLengthDelim for, as long as nothing failed: no generated path leaves a
\* region open or closes one twice.
RegionsMatchFrames ==
  outcome = "running" =>
    Len(saved) = Cardinality({i \in DOMAIN todo : todo[i].op = "end"})

\* A body is accepted only when all of it was read: no error is pending, every
\* region was closed, and the cursor is at the end of the input.
AcceptsWholeInput ==
  outcome = "ok" => err = "nil" /\ saved = <<>> /\ pos = Len(buf)

\* Decoding ends, whatever the input: no loop of the generated code can turn
\* without consuming input.
DecodeTerminates == <>(outcome # "running")
=============================================================================
