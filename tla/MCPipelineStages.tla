-------------------------- MODULE MCPipelineStages --------------------------
(* Two requests with prompts shorter and longer than a chunk.              *)
EXTENDS PipelineStages

CONSTANTS r1, r2

Short == r1 :> 2 @@ r2 :> 3
Long  == r1 :> 5 @@ r2 :> 3

UpTo3 == r1 :> 3 @@ r2 :> 3
UpTo4 == r1 :> 4 @@ r2 :> 4
=============================================================================
