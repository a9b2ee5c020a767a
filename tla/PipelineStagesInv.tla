------------------------- MODULE PipelineStagesInv -------------------------
(***************************************************************************)
(* The invariants of the pipeline stages.  Without drafts the first        *)
(* stage's copy of every text is a prefix of the request's, and reaches    *)
(* far enough for the chunks it has still to run.  With drafts, while no   *)
(* request is preempted, both stages know which batches sample.            *)
(***************************************************************************)
EXTENDS PipelineStages, BatchQueueInv

(* The first stage is ahead of the last.                                   *)
Ahead ==
    /\ seen \in 0 .. Len(queue)
    /\ \A i \in DOMAIN queue : Ran(i) => i <= seen

(* Its batch rows are its copies of the texts.                              *)
Rows ==
    /\ text \in [Requests -> Seq(Nat)]
    /\ DOMAIN row \subseteq Requests
    /\ row = [r \in DOMAIN row |-> text[r]]

(* A copy is the first positions of the request's text.                    *)
Copied(r) ==
    /\ Len(text[r]) >= Prompt[r]
    /\ \A p \in 1 .. Len(text[r]) : text[r][p] = p

(* Nothing is computed from before the text's first position.              *)
Forward(r) ==
    /\ req[r].computed >= 0
    /\ \A i \in InQueue(r) : Of(i, r).start >= 0

(* The copy has every position that was sent; what it lacks of the text is *)
(* the last token sampled, at most.                                        *)
Received(r) ==
    /\ req[r].tokens <= Len(text[r]) + 1
    /\ \A i \in InQueue(r) : i <= seen => End(Of(i, r)) <= Len(text[r])

(* A chunk still to run begins where the copy ends by then, or before.     *)
Adjoins(r) ==
    \A j \in InQueue(r) :
        j > seen =>
            \/ Of(j, r).start <= Len(text[r])
            \/ \E i \in InQueue(r) : seen < i /\ i < j /\ Of(j, r).start <= End(Of(i, r))

(* Of a request that is new to it, it has the prompt.                      *)
Untold(r) ==
    \/ req[r].status \in {"absent", "waiting"}
    \/ Entering(r) /\ step.entries[r].kind = "new"
    \/ \E j \in InQueue(r) : seen < j /\ Of(j, r).kind = "new"
    => Len(text[r]) = Prompt[r]

(* What the first stage has of a request.                                  *)
Fed(r) == Copied(r) /\ Forward(r) /\ Received(r) /\ Adjoins(r) /\ Untold(r)

StageInvariant == Ahead /\ Rows /\ \A r \in Requests : Fed(r)

-----------------------------------------------------------------------------
(* With drafts, while no request is preempted.                             *)

NonePreempted == \A r \in Requests : req[r].status # "preempted"

(* A chunk that is not of the prompt is of the last token and its drafts.  *)
Regular(e, r) ==
    /\ e.kind # "resumed" /\ ~e.old
    /\ e.start < e.total
    /\ e.total = Prompt[r] \/ (Prompt[r] < e.total /\ e.start + 1 = e.total)
    /\ Samples(e) => End(e) = e.total + e.spec

Regulars(r) ==
    /\ \A i \in InQueue(r) : Regular(Of(i, r), r)
    /\ InSchedule /\ r \in DOMAIN step.entries => Regular(step.entries[r], r)

(* What is left to compute of a text that has grown is its last token.     *)
OnTime(r) ==
    req[r].status = "running" /\ Prompt[r] < req[r].tokens =>
        \/ Fresh(r) = {} /\ req[r].computed + 1 = req[r].tokens
        \/ \E i \in Fresh(r) : Samples(Of(i, r))

(* A text only grows.                                                      *)
Grows(r) ==
    /\ \A i \in InQueue(r) : Of(i, r).total <= req[r].tokens
    /\ \A i, j \in InQueue(r) : i < j => Of(i, r).total <= Of(j, r).total

(* The first stage's copy has the prompt, and is never ahead.              *)
Follows(r) ==
    /\ Prompt[r] <= Len(text[r]) /\ Len(text[r]) <= req[r].tokens
    /\ \A j \in InQueue(r) : j > seen => Len(text[r]) <= Of(j, r).total

(* The last stage has the prompt when it comes to a later chunk.           *)
Told(r) ==
    \A j \in InQueue(r) :
        ~Ran(j) /\ Of(j, r).kind = "cached" =>
            \/ Prompt[r] <= known[r]
            \/ \E i \in InQueue(r) : i < j /\ ~Ran(i) /\ Of(i, r).kind = "new"

Orderly(r) == Regulars(r) /\ OnTime(r) /\ Grows(r) /\ Follows(r) /\ Told(r)

(* Batches the first stage has run and the last has not, that sample.      *)
Asked ==
    {i \in 1 .. seen : NumSpec > 0 /\ ~Ran(i) /\ \E r \in DOMAIN queue[i].entries : Samples(Of(i, r))}

(* The first stage waits for one of these, or for what has been sent.      *)
Matched ==
    /\ wants \in BOOLEAN /\ sent \in {0, 1}
    /\ \A i, j \in Asked : i = j
    /\ wants <=> Asked # {} \/ sent = 1
    /\ Asked # {} => sent = 0

BroadcastInvariant ==
    /\ Ahead
    /\ text \in [Requests -> Seq(Int)]
    /\ \A r \in Requests : Orderly(r)
    /\ Matched
=============================================================================
