--------------------------- MODULE PipelineStages ---------------------------
(***************************************************************************)
(* BatchQueue with its first pipeline stage: the stage that embeds the     *)
(* input tokens keeps a copy of every request's text of its own.  Without  *)
(* async scheduling the scheduler sends it the tokens of each chunk; with  *)
(* drafts ([claude-mtp-07]) the last stage also broadcasts, after each     *)
(* step, what it sampled.  Both stages decide for themselves whether a     *)
(* step has such a broadcast (vllm/v1/worker/gpu_model_runner.py).         *)
(*                                                                         *)
(* A token is named by its position in the request's text; 0 stands for    *)
(* what was never written.                                                 *)
(***************************************************************************)
EXTENDS BatchQueue

VARIABLES
    text,   \* the first stage's CachedRequestState: prompt and output tokens
    row,    \* its InputBatch rows: token_ids_cpu up to num_tokens_no_spec
    seen,   \* how many of the queued batches it has run
    wants,  \* it waits for the last stage's broadcast
    sent    \* broadcasts sent and not received

stage     == <<text, row, seen, wants, sent>>
stageVars == <<vars, stage>>

-----------------------------------------------------------------------------
Positions(from, to) == [i \in 1 .. Larger(to - from + 1, 0) |-> from + i - 1]

Ending(s, n) == SubSeq(s, Larger(Len(s) - n, 0) + 1, Len(s))

(* new_token_ids of _make_cached_request_data: the chunk without drafts.   *)
NewTokens(e) == Positions(e.start + 1, Smaller(e.start + e.n - e.spec, e.total))

(* Bug: takes the chunk's first tokens for its last ones.                  *)
TextAfterFirst(e, r) ==
    LET T    == NewTokens(e)
        more == e.start + Len(T) - Len(text[r])
    IN  CASE e.kind = "new" -> Positions(1, Prompt[r])
          [] OTHER          -> text[r] \o SubSeq(T, 1, Larger(Smaller(more, Len(T)), 0))

(* The cached text after _update_states.                                   *)
TextAfter(e, r) ==
    LET T    == NewTokens(e)
        more == e.start + Len(T) - Len(text[r])
    IN  CASE e.kind = "new" -> Positions(1, Prompt[r])
          [] OTHER          -> text[r] \o Ending(T, Larger(more, 0))

(* Bug: counts the scheduled drafts among the new tokens.                  *)
RowAfterDrafts(e, r) ==
    IF e.kind # "cached" \/ r \notin DOMAIN row THEN TextAfter(e, r)
    ELSE LET T    == NewTokens(e)
             more == Larger(e.start + e.n - Len(row[r]), 0)
             last == Ending(T, more)
         IN  row[r] \o [i \in 1 .. more |-> IF Len(last) = more THEN last[i]
                                            ELSE IF Len(last) = 1 THEN last[1] ELSE 0]

(* The batch row after it: a request that was not in the last batch, or    *)
(* was preempted, gets its row from the cached text; else the chunk's      *)
(* tokens are assigned to the new positions, one token to all of them if   *)
(* there is only one.                                                      *)
RowAfter(e, r) ==
    IF e.kind # "cached" \/ r \notin DOMAIN row THEN TextAfter(e, r)
    ELSE LET T    == NewTokens(e)
             more == Larger(e.start + Len(T) - Len(row[r]), 0)
             last == Ending(T, more)
         IN  row[r] \o [i \in 1 .. more |-> IF Len(last) = more THEN last[i]
                                            ELSE IF Len(last) = 1 THEN last[1] ELSE 0]

(* Bug: only the last stage discards.                                      *)
DiscardsNever(e, r) == FALSE

(* discard_request_mask on the first stage.                                *)
Discards(e, r) == e.start + e.n < Len(TextAfter(e, r))

StageInit ==
    /\ Init
    /\ text = [r \in Requests |-> Positions(1, Prompt[r])]
    /\ row = <<>>
    /\ seen = 0
    /\ wants = FALSE
    /\ sent = 0

(* execute_model on the first stage, up to the wait in sample_tokens.      *)
FirstRun ==
    /\ pc \in {"input", "wait"}
    /\ ~wants
    /\ seen < Len(queue)
    /\ seen' = seen + 1
    /\ LET E == queue[seen + 1].entries
       IN  /\ text' = [r \in Requests |-> IF r \in DOMAIN E THEN TextAfter(E[r], r) ELSE text[r]]
           /\ row' = [r \in DOMAIN E |-> RowAfter(E[r], r)]
           /\ wants' = (NumSpec > 0 /\ \E r \in DOMAIN E : ~Discards(E[r], r))
    /\ UNCHANGED <<vars, sent>>

(* The last stage runs a batch whose hidden states have reached it.        *)
LastRun(accepted) ==
    /\ Work(accepted)
    /\ Due <= seen
    /\ LET E == queue[Due].entries
       IN  sent' = IF NumSpec > 0 /\ \E r \in DOMAIN E : Sampled(E[r], r)
                   THEN sent + 1 ELSE sent
    /\ UNCHANGED <<text, row, seen, wants>>

(* _glm5_pp_receive_spec *)
Receive ==
    /\ wants /\ sent > 0
    /\ wants' = FALSE
    /\ sent' = sent - 1
    /\ UNCHANGED <<vars, text, row, seen>>

StageUpdate(A) ==
    /\ Update(A)
    /\ seen' = seen - 1
    /\ UNCHANGED <<text, row, wants, sent>>

-----------------------------------------------------------------------------
First == FirstRun \/ Receive

LastStage ==
    \E S \in SUBSET Requests : \E accepted \in [S -> 0 .. NumSpec] : LastRun(accepted)

StageEngine ==
    \/ (Begin \/ Block \/ Schedule) /\ UNCHANGED stage
    \/ \E A \in SUBSET Requests : StageUpdate(A)

StageNext ==
    \/ (Client \/ Resume \/ Idle) /\ UNCHANGED stage
    \/ StageEngine
    \/ First
    \/ LastStage

StageSpec == StageInit /\ [][StageNext]_stageVars

StageFairSpec ==
    /\ StageSpec
    /\ WF_stageVars(StageEngine)
    /\ WF_stageVars(First)
    /\ WF_stageVars(LastStage)
    /\ WF_stageVars(Resume /\ UNCHANGED stage)

-----------------------------------------------------------------------------
(* Properties.                                                             *)

(* The first stage computes from the request's own text: in the batch it   *)
(* runs next, every position that is not a draft holds the token the       *)
(* scheduler has there.                                                    *)
FirstInputs ==
    seen < Len(queue) =>
        LET E == queue[seen + 1].entries
        IN  \A r \in DOMAIN E :
                \A p \in E[r].start + 1 .. Smaller(E[r].start + E[r].n - E[r].spec, E[r].total) :
                    p <= Len(RowAfter(E[r], r)) /\ RowAfter(E[r], r)[p] = p

(* Once the last stage has caught up with the first, it has sent a         *)
(* broadcast exactly if the first stage waits for one: neither is ever     *)
(* left alone in the collective.                                           *)
BroadcastsMatch ==
    (\A i \in 1 .. seen : queue[i].ran) => sent = IF wants THEN 1 ELSE 0
=============================================================================
