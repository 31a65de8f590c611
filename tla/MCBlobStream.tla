---------------------------- MODULE MCBlobStream ----------------------------
(***************************************************************************)
(* Blobs with and without a body, frames shorter and longer than what they *)
(* inflate to, and one over the reader's limit.                            *)
(***************************************************************************)
EXTENDS BlobStream

Kind(m, raw, stored) == [method |-> m, raw |-> raw, stored |-> stored]
MCKinds ==
  {Kind("none", 0, 0), Kind("zstd", 0, 0), Kind("none", 2, 2), Kind("zstd", 2, 1), Kind("gzip", 1, 2),
   Kind("none", 3, 3)}
=============================================================================
