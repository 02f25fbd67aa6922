---------------------------- MODULE MCChunkUpload ---------------------------
(* ChunkUpload as TLC checks it. *)
EXTENDS ChunkUpload, TLC

\* Uploads are alike, and so are requests and drawers.
Symmetry == Permutations(Uploads) \cup Permutations(Requests) \cup Permutations(Pages)
=============================================================================
