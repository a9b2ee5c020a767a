----------------------------- MODULE MambaSplit -----------------------------
(***************************************************************************)
(* The prefill of one request with recurrent layers: each scheduler step   *)
(* cuts it with MambaAlign's Split, with whatever budget the step has      *)
(* left.                                                                   *)
(***************************************************************************)
EXTENDS MambaAlign

CONSTANT MaxTokens  \* bound: longest request explored

ASSUME MaxTokensAssumption == MaxTokens \in Nat \ {0}

VARIABLES
    prompt,    \* request.num_prompt_tokens
    tokens,    \* request.num_tokens: more than prompt when it is replayed
    junction,  \* request.shared_prefix_boundary
    pos,       \* request.num_computed_tokens
    ends       \* history: where its chunks ended, the prefix hit included

vars == <<prompt, tokens, junction, pos, ends>>

(* Bounds: prompts and outputs up to MaxTokens; a prefix hit is a whole    *)
(* number of hash blocks and leaves at least one token to compute.         *)
Init ==
    /\ prompt \in 1 .. MaxTokens
    /\ tokens \in prompt .. MaxTokens
    /\ junction \in {0} \cup {x \in 1 .. prompt - 1 : x % HashBlock = 0}
    /\ pos \in {x \in 0 .. tokens - 1 : x % HashBlock = 0}
    /\ ends = {pos}

(* A scheduler step that has budget tokens left for this request.          *)
Step(budget) ==
    LET n == Split(pos, Smaller(tokens - pos, budget), prompt, tokens, junction)
    IN  /\ pos < tokens
        /\ n > 0
        /\ pos' = pos + n
        /\ ends' = ends \cup {pos + n}
        /\ UNCHANGED <<prompt, tokens, junction>>

(* The request is prefilled, or the step's budget is too small for it.     *)
Stay == UNCHANGED vars

Next == (\E budget \in 1 .. MaxPrefill : Step(budget)) \/ Stay

(* A step that serves only this request comes again and again: the other   *)
(* requests finish or wait.                                                *)
Spec == Init /\ [][Next]_vars
FairSpec == Spec /\ WF_vars(Step(MaxPrefill))

-----------------------------------------------------------------------------
(* Properties.                                                             *)

(* "State is written at chunk ends, so chunk ends must be block aligned":  *)
(* every chunk end before the end of the prefill is a block boundary or a  *)
(* position the code stops at on purpose, unless a block is wider than any *)
(* chunk; so no slot ever holds the state of the middle of a block.        *)
EndsAligned ==
    BlockSize <= MaxPrefill =>
        \A e \in ends :
            \/ e % BlockSize = 0
            \/ e >= PrefillEnd(prompt, tokens)
            \/ e = TailBoundary(prompt, tokens)
            \/ \A x \in ends : e <= x

(* The state later requests look for is always there: a prefill that went  *)
(* past the last cacheable boundary, the prompt's last hash boundary, or   *)
(* the block boundary under the shared-prefix junction stopped at it.      *)
CacheStopsVisited ==
    \A s \in {LastCachePosition(tokens), TailBoundary(prompt, tokens), Floor(junction)} :
        (pos > s /\ s > 0 /\ \E e \in ends : e < s) => s \in ends

(* A prefill whose steps keep coming is completed: no position is left     *)
(* from which every chunk is cut to nothing, a block wider than the budget *)
(* included.                                                               *)
PrefillEnds == <>(pos = tokens)
=============================================================================
