----------------------------- MODULE BlobQueue ------------------------------
(***************************************************************************)
(* What a stream of blobs promises its reader: a queue.  Bodies arrive     *)
(* whole, once and in the order in which they were sent; a writer that     *)
(* dies loses at most the blob it was writing; the reader stops only at    *)
(* the end or at a body over its limit.  Nothing is promised once the      *)
(* medium has damaged the stream.                                          *)
(***************************************************************************)
EXTENDS Integers, Sequences

CONSTANTS
  Bodies,     \* what may be sent
  Limit,      \* the longest body the reader takes, -1 for any
  MaxBlobs    \* bound: blobs sent

VARIABLES
  queue,      \* the bodies sent, the last one perhaps in part
  complete,   \* how many of them were written to the end
  received,   \* the bodies the reader took
  closed,     \* the writer is gone
  status      \* of the reader: "open", "ended", "refused"; or "damaged"

qvars == <<queue, complete, received, closed, status>>

QInit ==
  /\ queue = <<>> /\ complete = 0 /\ received = <<>>
  /\ closed = FALSE /\ status = "open"

Announce(b) ==
  /\ ~ closed /\ complete = Len(queue)
  /\ queue' = Append(queue, b)
  /\ UNCHANGED <<complete, received, closed, status>>

Complete ==
  /\ ~ closed /\ complete < Len(queue)
  /\ complete' = complete + 1
  /\ UNCHANGED <<queue, received, closed, status>>

Leave ==
  /\ closed' = TRUE
  /\ UNCHANGED <<queue, complete, received, status>>

Receive ==
  /\ status = "open" /\ Len(received) < complete
  /\ received' = Append(received, queue[Len(received) + 1])
  /\ UNCHANGED <<queue, complete, closed, status>>

End ==
  /\ status = "open" /\ closed /\ Len(received) = complete
  /\ status' = "ended"
  /\ UNCHANGED <<queue, complete, received, closed>>

\* An oversized body is refused by its header, written to the end or not.
Refuse ==
  /\ status = "open" /\ Len(received) < Len(queue)
  /\ Limit >= 0 /\ Len(queue[Len(received) + 1]) > Limit
  /\ status' = "refused"
  /\ UNCHANGED <<queue, complete, received, closed>>

\* From here on anything may be read.
Break == status' = "damaged"

QNext ==
  \/ \E b \in Bodies : Announce(b)
  \/ Complete \/ Leave \/ Receive \/ End \/ Refuse \/ Break

\* Every complete body is received, and a reader whose writer is gone comes to
\* an end.
QLive ==
  /\ \A n \in 1..MaxBlobs : complete >= n ~> Len(received) >= n \/ status \in {"refused", "damaged"}
  /\ closed ~> status # "open"

QSpec == QInit /\ [][QNext]_qvars /\ QLive
=============================================================================
