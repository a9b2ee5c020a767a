--------------------------- MODULE MCPairExchange ---------------------------
(* Instances of PairExchange with two and four ranks and small grids.      *)
EXTENDS PairExchangeInv

Bit(r, m) == (r \div m) % 2

(* r ^ mask for ranks and masks below 4.                                   *)
Xor(r, mask) == LET Flip(m) == (Bit(r, m) + Bit(mask, m)) % 2
                IN  Flip(1) + 2 * Flip(2)

MCTp2Rank == {0, 1}
MCTp2Peer == <<[r \in MCTp2Rank |-> Xor(r, 1)]>>

MCTp4Rank == 0 .. 3

(* butterfly: rank ^ (1 << round).                                         *)
MCFlyPeer == <<[r \in MCTp4Rank |-> Xor(r, 1)], [r \in MCTp4Rank |-> Xor(r, 2)]>>

(* RDNA3's limit never depends on the size; RDNA4 gives medium messages    *)
(* fewer CTAs than small and large ones.                                   *)
MCFixedLimit  == [n \in 1 .. NChunks |-> NBlocks]
MCVaryLimit   == [n \in 1 .. NChunks |-> IF n = 2 THEN 1 ELSE NBlocks]

(* Rounded addition keeps the operands: two sums are the same value only   *)
(* if they were added in the same order.                                   *)
MCOrderedAdd(a, b) == <<a, b>>
MCOrderedInput(c, r) == <<c, r, 0>>
MCOrderedZero == <<>>

(* Commutative but not associative addition: a value is the family of the  *)
(* operand sets of all additions that led to it.                           *)
MCCommAdd(a, b) == a \union b \union {UNION a \union UNION b}
MCCommInput(c, r) == {{<<c, r>>}}
MCCommZero == {}

MCPartial ==
    [c \in Calls |->
        LET P[k \in 0 .. Rounds] ==
                [r \in Rank |->
                    IF k = 0 THEN Input(c, r)
                    ELSE Combine(r, k, P[k - 1][r], P[k - 1][Peer[k][r]])]
        IN  P]
=============================================================================
