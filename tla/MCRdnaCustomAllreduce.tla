----------------------- MODULE MCRdnaCustomAllreduce -----------------------
(* Instances of RdnaCustomAllreduce: the four ranks of one node.           *)
EXTENDS RdnaCustomAllreduce

MCFour  == 0 .. 3

(* rdna3_tp4, its pair first: rank ^ 1 and rank ^ 3.                       *)
MCFourPeers == [r \in MCFour |-> <<r + 1 - 2 * (r % 2), 3 - r>>]

MCArch == [r \in Rank |-> "gfx1100"]
MCGpu  == [r \in Rank |-> r]
MCSupported == {"gfx1100", "gfx1201"}
=============================================================================
