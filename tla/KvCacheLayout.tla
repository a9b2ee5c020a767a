--------------------------- MODULE KvCacheLayout ---------------------------
(***************************************************************************)
(* How the KV cache of a hybrid model is laid out over pipeline stages:    *)
(* get_kv_cache_configs of v1/core/kv_cache_utils.py, and the check of the *)
(* worker that allocates what it returned.                                 *)
(*                                                                         *)
(* A linear-attention (KDA) layer keeps one state page.  A sparse (DSA)    *)
(* layer keeps three caches: the MLA page, the indexer page, and the tail  *)
(* of the indexer.  Layers of one group use one block table; layers of     *)
(* different groups never hold the same block, so they may share a tensor. *)
(* The groups are computed once for the whole model, and each stage then   *)
(* lays out its own part of every group: a KDA layer lives inside the      *)
(* tensor of an MLA layer of its own stage, a tail inside that of an       *)
(* indexer.  Nothing of the second step looks back at the first.           *)
(*                                                                         *)
(* Pages are units of memory.  The tensors of the packed layout alias one  *)
(* allocation, each with a page of every block; here each has its own.     *)
(***************************************************************************)
EXTENDS Increasing, FiniteSetsExt, SequencesExt

CONSTANTS
    Models,     \* records [kind, cut, drafts, tails]: kind[l] of layer l (from
                \*   0), cut[s] layers on stage s (VLLM_PP_LAYER_PARTITION),
                \*   draft layers, whether the indexers keep tails
    Memories(_),\* Memories(m): the available_memory its stages may have
    Overrides,  \* num_gpu_blocks_override; 0: None
    MlaPage, IndexPage,      \* bytes of a page of an MLA layer, of an indexer
    MlaBlocks, StateBlocks   \* blocks of a request of max_model_len in the
                             \*   attention group, in a KDA group

ASSUME PageAssumption ==
    /\ IndexPage \in Nat \ {0} /\ MlaPage \in Nat /\ IndexPage < MlaPage
    /\ MlaBlocks \in Nat \ {0} /\ StateBlocks \in Nat \ {0}
    /\ Overrides \subseteq Nat

ASSUME ModelAssumption ==
    \A m \in Models :
        LET n == Cardinality(DOMAIN m.kind)
        IN  /\ n \in Nat /\ DOMAIN m.kind = 0 .. n - 1
            /\ \E l \in DOMAIN m.kind : m.kind[l] = "dsa"
            /\ \E l \in DOMAIN m.kind : m.kind[l] = "kda"
            /\ m.drafts \in Nat /\ m.tails \in BOOLEAN
            /\ m.cut \in Seq(0 .. n) /\ m.cut # <<>>
            /\ Memories(m) \subseteq [DOMAIN m.cut -> Nat]

VARIABLES
    model,      \* the model and its split
    override,   \* num_gpu_blocks_override
    memory,     \* memory[s]: available_memory of stage s
    pc,         \* how far start-up is
    groups,     \* global_kv_cache_groups: sequence of [kind, layers]
    blocks,     \* blocks[s]: num_blocks of stage s's KVCacheConfig
    tensors     \* tensors[s]: its kv_cache_tensors, as [page, shared, blocks]

vars == <<model, override, memory, pc, groups, blocks, tensors>>

-----------------------------------------------------------------------------
(* The model's layers and stages.                                          *)

Stages == 1 .. Len(model.cut)
Total  == Cardinality(DOMAIN model.kind)
Layers == 0 .. Total + model.drafts - 1

(* A draft layer is a DSA layer behind the model's own.                    *)
Sparse(l) == IF l < Total THEN model.kind[l] = "dsa" ELSE TRUE

(* get_pp_indices: as many layers as the stages up to s have.              *)
EndOf(s) == Cardinality({x \in (1 .. s) \X (1 .. Total) : x[2] <= model.cut[x[1]]})

(* _stage_of: behind the stages that end before l; drafts are on the last. *)
StageOf(l) == IF l >= Total THEN Len(model.cut)
              ELSE 1 + Cardinality({s \in 1 .. Len(model.cut) - 1 : EndOf(s) <= l})

SparseLayers == {l \in Layers : Sparse(l)}
LinearLayers == Layers \ SparseLayers

(* KDA layers of a stage that has a DSA layer share its tensors.           *)
Sharing == {l \in LinearLayers : \E d \in SparseLayers : StageOf(d) = StageOf(l)}
Solo    == LinearLayers \ Sharing

CeilDiv(a, b) == (a + b - 1) \div b

(* num_groups: over the whole model, whatever the stages.                  *)
GroupCount == IF Sharing = {} THEN 0
              ELSE CeilDiv(Cardinality(Sharing), Cardinality(SparseLayers))

(* Bug: runs of consecutive layers instead of every num_groups-th.         *)
MemberConsecutive(n) ==
    LET size == CeilDiv(Cardinality(Sharing), GroupCount)
    IN  SubSeq(InOrder(Sharing), (n - 1) * size + 1,
               Min({n * size, Cardinality(Sharing)}))

(* Group n takes every num_groups-th sharing layer.                        *)
Member(n) ==
    LET all == InOrder(Sharing)
    IN  [i \in 1 .. CeilDiv(Len(all) - n + 1, GroupCount) |->
            all[n + (i - 1) * GroupCount]]

(* _get_kv_cache_groups_glm5_next                                          *)
Groups ==
    <<[kind |-> "attn", layers |-> InOrder(SparseLayers)]>>
    \o (IF model.tails THEN <<[kind |-> "tail", layers |-> InOrder(SparseLayers)]>> ELSE <<>>)
    \o [n \in 1 .. GroupCount |-> [kind |-> "kda", layers |-> Member(n)]]
    \o [n \in 1 .. Cardinality(Solo) |->
            [kind |-> "kda", layers |-> <<InOrder(Solo)[n]>>]]

(* _project_kv_cache_groups_to_worker and _active_kv_cache_groups          *)
Projected(s) == [g \in DOMAIN groups |->
    [groups[g] EXCEPT !.layers = At(@, {i \in DOMAIN @ : StageOf(@[i]) = s})]]

Active(s) == {g \in DOMAIN groups : Projected(s)[g].layers # <<>>}

OfKind(s, k) == {g \in Active(s) : groups[g].kind = k}

LayersOf(s, k) == IF OfKind(s, k) = {} THEN <<>>
                  ELSE Projected(s)[CHOOSE g \in OfKind(s, k) : TRUE].layers

-----------------------------------------------------------------------------
(* get_kv_cache_config_from_groups: a stage with DSA layers has a tensor   *)
(* for each of their MLA and indexer caches, which KDA layers and tails    *)
(* share; one without gives each row of its groups a tensor.               *)

(* The tail that shares the i-th indexer tensor of the stage.              *)
Mates(s, i) ==
    LET tails == LayersOf(s, "tail")
    IN  IF tails = <<>> THEN {} ELSE {<<"tail", tails[i]>>}

(* Bug: layers beyond the last sparse layer start again at the first.      *)
RowWraps(s, i) ==
    UNION {LET L == Projected(s)[g].layers IN
           {<<"kda", L[j]>> : j \in {k \in DOMAIN L : (k - i) % Max({1, Len(LayersOf(s, "attn"))}) = 0}} :
              g \in OfKind(s, "kda")}

(* The i-th layer of each KDA group of the stage.                          *)
Row(s, i) == {<<"kda", Projected(s)[g].layers[i]>> :
                  g \in {h \in OfKind(s, "kda") : i <= Len(Projected(s)[h].layers)}}

SharedTensors(s) ==
    LET sparse == LayersOf(s, "attn") IN
    {[page |-> MlaPage, shared |-> {<<"mla", sparse[i]>>} \cup Row(s, i)] :
        i \in DOMAIN sparse}
    \cup
    {[page |-> IndexPage, shared |-> {<<"idx", sparse[i]>>} \cup Mates(s, i)] :
        i \in DOMAIN sparse}

GroupSize(s) == Max({Len(Projected(s)[g].layers) : g \in Active(s)})

RowTensors(s) == {[page |-> MlaPage, shared |-> Row(s, i)] : i \in 1 .. GroupSize(s)}

Tensors(s) == IF OfKind(s, "attn") # {} THEN SharedTensors(s) ELSE RowTensors(s)

(* _pool_bytes_per_block, also the divisor of num_blocks.                  *)
PoolBytesPerBlock(s) ==
    IF OfKind(s, "attn") # {} THEN Len(LayersOf(s, "attn")) * (MlaPage + IndexPage)
    ELSE GroupSize(s) * MlaPage

(* Blocks in the groups of S of one request, n of them in each that grows  *)
(* with its length; of one of max_model_len.                               *)
BlocksOf(S, n) ==
    LET Kind(k) == Cardinality({g \in S : groups[g].kind = k})
    IN  n * Kind("attn") + Kind("tail") + StateBlocks * Kind("kda")

BlocksNeeded(S) == BlocksOf(S, MlaBlocks)

(* Bug: a stage's KDA groups are charged for one block each.               *)
MaxMemoryUsageOneEach(s) ==
    PoolBytesPerBlock(s) *
    (MlaBlocks * Cardinality(OfKind(s, "attn")) + Cardinality(OfKind(s, "tail"))
     + Cardinality(OfKind(s, "kda")))

(* _max_memory_usage_bytes_from_groups                                     *)
MaxMemoryUsage(s) == PoolBytesPerBlock(s) * BlocksNeeded(Active(s))

Available(s) == IF override > 0 THEN override * PoolBytesPerBlock(s) ELSE memory[s]

-----------------------------------------------------------------------------
Init ==
    /\ model \in Models
    /\ override \in Overrides
    /\ memory \in Memories(model)
    /\ pc = "group"
    /\ groups = <<>>
    /\ blocks = <<>>
    /\ tensors = <<>>

MakeGroups ==
    /\ pc = "group"
    /\ groups' = Groups
    /\ pc' = "check"
    /\ UNCHANGED <<model, override, memory, blocks, tensors>>

(* _check_enough_kv_cache_memory of every stage.                           *)
CheckMemory ==
    /\ pc = "check"
    /\ pc' = IF \A s \in Stages : /\ Available(s) > 0
                                  /\ MaxMemoryUsage(s) <= Available(s)
             THEN "build" ELSE "refused"
    /\ UNCHANGED <<model, override, memory, groups, blocks, tensors>>

Build ==
    /\ pc = "build"
    /\ blocks' = [s \in Stages |-> IF override > 0 THEN override
                                   ELSE Available(s) \div PoolBytesPerBlock(s)]
    /\ tensors' = [s \in Stages |-> {[page |-> t.page, shared |-> t.shared,
                                      blocks |-> blocks'[s]] : t \in Tensors(s)}]
    /\ pc' = "shrink"
    /\ UNCHANGED <<model, override, memory, groups>>

(* Every stage gets the num_blocks of the smallest.                        *)
Shrink ==
    /\ pc = "shrink"
    /\ blocks' = [s \in Stages |-> Min({blocks[q] : q \in Stages})]
    /\ tensors' = [s \in Stages |-> {[t EXCEPT !.blocks = blocks'[s]] : t \in tensors[s]}]
    /\ pc' = "allocate"
    /\ UNCHANGED <<model, override, memory, groups>>

(* The caches a stage's groups give it.                                    *)
Caches(s) ==
    UNION {LET L == Range(Projected(s)[g].layers) IN
           CASE groups[g].kind = "attn" -> {"mla", "idx"} \X L
             [] groups[g].kind = "tail" -> {"tail"} \X L
             [] groups[g].kind = "kda"  -> {"kda"} \X L : g \in Active(s)}

Held(s) == UNION {t.shared : t \in tensors[s]}

(* _allocate_kv_cache_tensors: a layer no tensor names stops the worker.   *)
Allocate ==
    /\ pc = "allocate"
    /\ pc' = IF \A s \in Stages : Caches(s) = Held(s) THEN "serving" ELSE "failed"
    /\ UNCHANGED <<model, override, memory, groups, blocks, tensors>>

Ended == pc \in {"refused", "serving", "failed"} /\ UNCHANGED vars

Next == MakeGroups \/ CheckMemory \/ Build \/ Shrink \/ Allocate \/ Ended

Spec == Init /\ [][Next]_vars

-----------------------------------------------------------------------------
(* Properties.                                                             *)

(* The documented rule for a split: a stage carries at most one linear     *)
(* layer per group for each sparse layer it holds (or no sparse layer).    *)
RuleHolds ==
    \A s \in Stages :
        LET linear == {l \in LinearLayers : StageOf(l) = s}
            sparse == {l \in SparseLayers : StageOf(l) = s}
        IN  sparse = {} \/ Cardinality(linear) <= GroupCount * Cardinality(sparse)

(* The documented rule is exactly when the workers start: the round robin  *)
(* over the whole model leaves each stage rows no longer than its sparse   *)
(* layers if and only if the stage keeps the rule, wherever it is cut.     *)
StartsByRule == /\ pc = "serving" => RuleHolds
                /\ pc = "failed" => ~ RuleHolds

(* No two caches of a tensor are of the same group, whose block table      *)
(* would give both layers the same block.                                  *)
GroupOf(x) == CHOOSE g \in DOMAIN groups :
    /\ x[2] \in Range(groups[g].layers)
    /\ groups[g].kind = IF x[1] \in {"mla", "idx"} THEN "attn" ELSE x[1]

SharersDisjoint ==
    pc = "serving" =>
        \A s \in Stages : \A t \in tensors[s] : \A x, y \in t.shared :
            x # y => GroupOf(x) # GroupOf(y)

(* What requests can hold: the pool keeps one block as its null block.     *)
Usable(s) == blocks[s] - 1

(* The start-up check is made stage by stage, with the groups that have    *)
(* layers there, before the pools shrink, and counts the null block as one *)
(* to use; the scheduler draws every group's blocks from one pool.  When   *)
(* every stage has layers of every group, what passed the check fits all   *)
(* the same, if it ends a block before max_model_len.  A request of just   *)
(* that length may be a block short.                                       *)
EveryGroupEverywhere == \A s \in Stages : Active(s) = DOMAIN groups

CheckedRequestFits ==
    pc = "serving" /\ EveryGroupEverywhere =>
        \A s \in Stages, n \in 0 .. MlaBlocks - 1 : BlocksOf(DOMAIN groups, n) <= Usable(s)
=============================================================================
