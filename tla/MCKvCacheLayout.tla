-------------------------- MODULE MCKvCacheLayout --------------------------
(* Every model of up to five layers cut into up to three stages, and the   *)
(* real model with the splits the documents name.                          *)
EXTENDS KvCacheLayout

Cuts(n) == {c \in UNION {[1 .. k -> 1 .. n] : k \in 1 .. 3} : FoldSeq(+, 0, c) = n}

Kinds(n) == {k \in [0 .. n - 1 -> {"kda", "dsa"}] :
                "kda" \in Range(k) /\ "dsa" \in Range(k)}

MCSmall == UNION {[kind : Kinds(n), cut : Cuts(n), drafts : {0, 1}, tails : BOOLEAN] :
                     n \in 2 .. 5}

(* 45 layers, a sparse one after every three linear ones.                  *)
MCFlash == [l \in 0 .. 44 |-> IF l % 4 = 3 THEN "dsa" ELSE "kda"]

MCDocumented ==
    {[kind |-> MCFlash, cut |-> <<16, 16, 13>>, drafts |-> 1, tails |-> TRUE],
     [kind |-> MCFlash, cut |-> <<8, 8, 8, 8, 8, 5>>, drafts |-> 1, tails |-> TRUE],
     [kind |-> MCFlash, cut |-> <<10, 9, 9, 9, 8>>, drafts |-> 0, tails |-> TRUE]}

(* Some stages have more memory than others, or not enough.                *)
MCMemories(m) == IF m \in MCDocumented THEN [DOMAIN m.cut -> {240}]
                 ELSE [DOMAIN m.cut -> {15, 80}]

MCModels == MCSmall \cup MCDocumented

=============================================================================
