------------------------- MODULE MCChunkedArtifact -------------------------
(***************************************************************************)
(* Two chunked artifacts with different chunk sizes and a one-shot one, a  *)
(* foreign header for each kind of header a reader accepts or refuses.     *)
(***************************************************************************)
EXTENDS ChunkedArtifact, TLC

CONSTANTS a, b, w, f, g

MCChunkSize == (a :> 2 @@ b :> 3 @@ w :> 0 @@ f :> 2 @@ g :> 1)
=============================================================================
