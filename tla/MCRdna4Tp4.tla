----------------------------- MODULE MCRdna4Tp4 -----------------------------
(* Instances of Rdna4Tp4 with the default masks 1 and 3, thresholds scaled *)
(* to a few chunks, and sequences that mix the kernels.                    *)
EXTENDS Rdna4Tp4

MCPair  == [r \in Rank |-> CASE r = 0 -> 1 [] r = 1 -> 0 [] r = 2 -> 3 [] r = 3 -> 2]
MCCross == [r \in Rank |-> 3 - r]

MCAdd(a, b) == <<a, b>>
MCInput(c, r, i) == <<c, r, i, 0>>
MCZero == <<>>

MCOneBlock == [n \in 1 .. NChunks |-> 1]

(* Each kernel runs just after each other one, and takes the buffer half   *)
(* of a one-shot, pairwise or ring call before it.                         *)
MCMixed == {<<2, 1, NChunks>>, <<NChunks, 1, 2>>, <<NChunks, 2, NChunks>>, <<1, NChunks, 1>>}
=============================================================================
