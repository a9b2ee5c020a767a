---------------------------- MODULE MCBatchQueue ----------------------------
(* Two requests whose prompts take three chunks.                           *)
EXTENDS BatchQueue

CONSTANTS r1, r2

Chunked == r1 :> 11 @@ r2 :> 9
Output  == r1 :> 3 @@ r2 :> 1
=============================================================================
