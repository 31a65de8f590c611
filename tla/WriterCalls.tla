----------------------------- MODULE WriterCalls -----------------------------
(***************************************************************************)
(* The calls a MarshalGSBM makes on a Writer, as data, and the body they   *)
(* stand for (storage/gsbm/writer.go, storage/gsbm/presence.go).  Module   *)
(* Marshal shows that every kind of Writer produces that body; module      *)
(* Encode produces the calls of a value.                                   *)
(***************************************************************************)
EXTENDS Wire, SequencesExt

\* WriteTag, WriteUvarint, WriteVarint, WriteLength, WriteFixed32 and 64: the
\* methods that append a few bytes and nothing else.
CallWrite(b)     == [op |-> "write", b |-> b]
CallUvarint(n)   == CallWrite(appendUvarint[n])
CallVarint(i)    == CallUvarint(zigzagEncode64(i))
CallTag(tag, wt) == CallUvarint(Key(tag, wt))

\* WriteString and WriteBytes, and their cached forms.
CallBytes(b)  == [op |-> "bytes", b |-> b]
CallCached(b) == [op |-> "cached", b |-> b]

PresenceNil     == 0
PresenceNonZero == 1
PresenceZero    == 3
CallPresence(p) == [op |-> "presence", b |-> <<p>>]

CallBegin == [op |-> "begin"]
CallEnd   == [op |-> "end"]

\* MarshalGSBM returns an error of its own.
CallReturn(e) == [op |-> "return", err |-> e]
Returns(calls) == {op.err : op \in {c \in ToSet(calls) : c.op = "return"}}

\* The contents of the open regions, the outermost first, after one call more:
\* a region that ends becomes the varint of its length followed by its content.
onTop(open, b) == [open EXCEPT ![Len(open)] = @ \o b]
AfterCall(open, op) ==
  CASE op.op = "begin" -> Append(open, <<>>)
    [] op.op = "end" ->
         onTop(Front(open), appendUvarint[Len(Last(open))] \o Last(open))
    [] op.op \in {"bytes", "cached"} ->
         onTop(open, appendUvarint[Len(op.b)] \o op.b)
    [] OTHER -> onTop(open, op.b)

\* The body a sequence of calls stands for.
Regions(calls)   == FoldLeft(AfterCall, << <<>> >>, calls)
Canonical(calls) == Regions(calls)[1]
=============================================================================
