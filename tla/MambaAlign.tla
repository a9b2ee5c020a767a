----------------------------- MODULE MambaAlign -----------------------------
(***************************************************************************)
(* Scheduler._mamba_block_aligned_split of                                 *)
(* patches/glm5next/serving-2026-10-25/vllm/v1/core/sched/scheduler.py:    *)
(* how a prompt is cut into chunks for a model with recurrent (Mamba, KDA) *)
(* layers.  The recurrent state can be reused only where a chunk ended, so *)
(* chunks end at block boundaries and at a few mandatory positions.        *)
(***************************************************************************)
EXTENDS Integers

CONSTANTS
    BlockSize,   \* cache_config.block_size
    HashBlock,   \* hash_block_size, a divisor of it
    MaxPrefill,  \* max_num_scheduled_tokens, cut by the long-prefill threshold
    UseEagle     \* the drafter looks one token ahead: MTP

ASSUME SplitAssumption ==
    /\ BlockSize \in Nat \ {0}
    /\ HashBlock \in Nat \ {0}
    /\ BlockSize % HashBlock = 0
    /\ MaxPrefill \in Nat \ {0}
    /\ UseEagle \in BOOLEAN

Smaller(m, n) == IF m < n THEN m ELSE n
Larger(m, n)  == IF m > n THEN m ELSE n

Floor(x) == (x \div BlockSize) * BlockSize

(* Where prefill ends: a resumed request replays its outputs too.          *)
PrefillEnd(prompt, tokens) == Larger(prompt, tokens - 1)

(* The last block boundary whose state a later request can start from.     *)
LastCachePosition(tokens) ==
    IF UseEagle THEN Larger(Floor(tokens) - BlockSize, 0) ELSE Floor(tokens)

(* The prompt's last hash boundary, when it lies past that.                *)
TailBoundary(prompt, tokens) ==
    LET tail == (prompt \div HashBlock) * HashBlock
    IN  IF HashBlock < BlockSize /\ LastCachePosition(tokens) < tail /\ tail < prompt
        THEN tail ELSE 0

(* Bug: does not stop at the prompt's last hash boundary.                  *)
StopsWithoutTail(start, end, prompt, tokens, junction) ==
    { IF start % BlockSize # 0 THEN Floor(start) + BlockSize ELSE 0,
      LastCachePosition(tokens),
      IF start < junction /\ junction < end THEN start + Floor(junction - start) ELSE 0 }

(* The positions a chunk from start to end must not run past.  junction is *)
(* request.shared_prefix_boundary, 0 if there is none.                     *)
Stops(start, end, prompt, tokens, junction) ==
    { IF start % BlockSize # 0 THEN Floor(start) + BlockSize ELSE 0,
      LastCachePosition(tokens),
      TailBoundary(prompt, tokens),
      IF start < junction /\ junction < end THEN start + Floor(junction - start) ELSE 0 }

(* Bug: takes the whole budget.                                            *)
AlignedNever(start, end, prompt, tokens) == end

(* A chunk that is not the last ends at a block boundary, unless a block   *)
(* is wider than any chunk.                                                *)
Aligned(start, end, prompt, tokens) ==
    IF end < PrefillEnd(prompt, tokens) /\ (Floor(end) > start \/ BlockSize <= MaxPrefill)
    THEN Floor(end) ELSE end

(* Bug: a stop the request already stands on ends the chunk, too.          *)
SplitStays(start, n, prompt, tokens, junction) ==
    LET whole  == Aligned(start, start + n, prompt, tokens)
        inside == {s \in Stops(start, whole, prompt, tokens, junction) : start <= s /\ s < whole}
        end    == IF inside = {} THEN whole ELSE CHOOSE s \in inside : \A t \in inside : s <= t
    IN  IF start >= PrefillEnd(prompt, tokens) THEN n ELSE Larger(end - start, 0)

(* _mamba_block_aligned_split: how many of the n tokens after start the    *)
(* next chunk takes.                                                       *)
Split(start, n, prompt, tokens, junction) ==
    LET whole  == Aligned(start, start + n, prompt, tokens)
        inside == {s \in Stops(start, whole, prompt, tokens, junction) : start < s /\ s < whole}
        end    == IF inside = {} THEN whole ELSE CHOOSE s \in inside : \A t \in inside : s <= t
    IN  IF start >= PrefillEnd(prompt, tokens) THEN n ELSE Larger(end - start, 0)
=============================================================================
