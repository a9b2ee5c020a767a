----------------------------- MODULE BatchQueue -----------------------------
(***************************************************************************)
(* The engine core of patches/glm5next/serving-2026-10-25 with pipeline    *)
(* parallelism and no async scheduling: EngineCoreProc's busy loop and     *)
(* batch queue (vllm/v1/engine/core.py), the scheduler it calls            *)
(* (vllm/v1/core/sched/scheduler.py), and what the last pipeline stage     *)
(* does with a batch (vllm/v1/worker/gpu_model_runner.py).                 *)
(*                                                                         *)
(* The engine thread is cut into one action per loop iteration of          *)
(* Scheduler.schedule and one per step of step_with_batch_queue; pc says   *)
(* where it is.  The workers run the queued batches in order, meanwhile;   *)
(* clients add, abort, pause and reset between two engine steps.  Tokens   *)
(* are counted, not spelled: a request's text is a number of positions.    *)
(***************************************************************************)
EXTENDS MambaAlign, Sequences, SequencesExt, FiniteSets

CONSTANTS
    Requests,    \* requests clients may send
    Prompt,      \* their num_prompt_tokens
    MaxOut,      \* bound: their longest output, by max_tokens or by an end token
    NumSpec,     \* num_spec_tokens: draft tokens per step
    QueueSize,   \* batch_queue_size, max_concurrent_batches
    MaxRunning,  \* max_num_running_reqs
    Blocks,      \* KV cache blocks
    ModelLen,    \* max_model_len
    Aborts,      \* bound: aborts by clients
    Controls     \* bound: one call of these, "reset" (reset_prefix_cache with
                 \* reset_running_requests) and "pause" (pause_scheduler)

ASSUME QueueAssumption ==
    /\ Prompt \in [Requests -> Nat \ {0}]
    /\ MaxOut \in [Requests -> Nat \ {0}]
    /\ {MaxRunning, ModelLen} \subseteq Nat \ {0}
    /\ {NumSpec, Aborts} \subseteq Nat /\ Controls \subseteq {"reset", "pause"}
    /\ QueueSize \in Nat \ {0, 1}
    /\ \A r \in Requests : Prompt[r] + MaxOut[r] <= ModelLen
    /\ Blocks * BlockSize >= ModelLen

VARIABLES
    pc,        \* where the engine thread is
    limit,     \* number of tokens after which each request is finished
    req,       \* Scheduler.requests: what the scheduler knows of each
    waiting,   \* Scheduler.waiting
    skipped,   \* Scheduler.skipped_waiting
    running,   \* Scheduler.running
    finished,  \* Scheduler.finished_req_ids
    paused,    \* Scheduler._pause_state
    step,      \* local state of Scheduler.schedule
    queue,     \* EngineCore.batch_queue, oldest first
    known,     \* the last stage's CachedRequestState.num_tokens
    cached,    \* how many positions of each request have a valid KV entry
    drafts,    \* the last stage's _draft_token_ids: what each of them follows
    calls      \* bound: calls clients may still make

engine == <<limit, req, waiting, skipped, running, finished, paused, step>>
worker == <<known, cached, drafts>>
vars   == <<pc, engine, queue, worker, calls>>

-----------------------------------------------------------------------------
Ids(q) == {q[i] : i \in 1 .. Len(q)}

Sum(f) == FoldFunction(LAMBDA x, y : x + y, 0, f)

(* q without the elements of S.                                            *)
Without(q, S) ==
    LET kept   == {i \in DOMAIN q : q[i] \notin S}
        Nth(k) == CHOOSE i \in kept : Cardinality({j \in kept : j <= i}) = k
    IN  [k \in 1 .. Cardinality(kept) |-> q[Nth(k)]]

Live(r) == req[r].status \in {"waiting", "running", "preempted"}

BlocksFor(x) == (Smaller(x, ModelLen) + BlockSize - 1) \div BlockSize

Free == Blocks - Sum([r \in Requests |-> req[r].blocks])

(* KVCacheManager.allocate_slots for positions up to upto and the drafter's *)
(* look-ahead.                                                             *)
Fits(r, upto) == BlocksFor(upto + NumSpec) - req[r].blocks <= Free

Unfinished ==
    CASE paused = "all" -> 0
      [] paused = "new" -> Len(running)
      [] OTHER          -> Len(waiting) + Len(skipped) + Len(running)

HasRequests == Unfinished > 0 \/ finished # {}

(* Bug: [claude-mtp-08] is missing.                                        *)
HoldNever == FALSE

(* [claude-mtp-08]: a decode step must run alone.                          *)
Hold ==
    /\ NumSpec > 0
    /\ queue # <<>>
    /\ \E r \in Ids(running) : req[r].computed >= Prompt[r]

(* Bug: the output in flight counts as the resumed request's.              *)
PreemptedFresh(q, drop) ==
    [q EXCEPT !.status = "preempted", !.computed = 0, !.spec = 0, !.blocks = 0]

(* What _preempt_request does to a request.                                *)
Preempted(q, drop) ==
    [q EXCEPT !.status = "preempted", !.computed = 0, !.spec = 0, !.blocks = 0,
              !.drop = drop \/ (q.drop /\ q.stale > 0),
              !.stale = q.inflight]

(* History: the entries of requests R in the queue are of a life that has  *)
(* ended.                                                                  *)
Outdated(R) ==
    LET Aged(E) == [r \in DOMAIN E |-> [E[r] EXCEPT !.old = @ \/ r \in R]]
    IN  [i \in DOMAIN queue |-> [queue[i] EXCEPT !.entries = Aged(@)]]

-----------------------------------------------------------------------------
Init ==
    /\ pc = "input"
    /\ limit \in {f \in [Requests -> 1 .. ModelLen] : \A r \in Requests : f[r] <= MaxOut[r]}
    /\ req = [r \in Requests |->
                [status |-> "absent", tokens |-> Prompt[r], computed |-> 0, spec |-> 0,
                 follows |-> 0, inflight |-> 0, stale |-> 0, drop |-> FALSE,
                 chunk |-> FALSE, blocks |-> 0]]
    /\ waiting = <<>> /\ skipped = <<>> /\ running = <<>>
    /\ finished = {}
    /\ paused = "no"
    /\ step = [at |-> 0]
    /\ queue = <<>>
    /\ known = [r \in Requests |-> 0]
    /\ cached = [r \in Requests |-> 0]
    /\ drafts = <<>>
    /\ calls = [abort |-> Aborts, control |-> 1]

(* Client calls, handled between two engine steps.                         *)

(* add_request *)
Add(r) ==
    /\ pc = "input"
    /\ req[r].status = "absent"
    /\ req' = [req EXCEPT ![r].status = "waiting"]
    /\ waiting' = Append(waiting, r)
    /\ UNCHANGED <<pc, limit, skipped, running, finished, paused, step, queue, worker, calls>>

(* finish_requests: the requests of R leave every queue.                   *)
Finished(R) ==
    /\ req' = [r \in Requests |->
                 IF r \in R THEN [req[r] EXCEPT !.status = "finished", !.blocks = 0] ELSE req[r]]
    /\ waiting' = Without(waiting, R)
    /\ skipped' = Without(skipped, R)
    /\ running' = Without(running, R)
    /\ finished' = finished \cup R

(* abort_requests *)
Abort(r) ==
    /\ pc = "input"
    /\ Live(r)
    /\ calls.abort > 0
    /\ calls' = [calls EXCEPT !.abort = @ - 1]
    /\ Finished({r})
    /\ UNCHANGED <<pc, limit, paused, step, queue, worker>>

(* reset_prefix_cache(reset_running_requests=True) *)
Reset ==
    /\ pc = "input"
    /\ "reset" \in Controls /\ calls.control > 0
    /\ calls' = [calls EXCEPT !.control = @ - 1]
    /\ req' = [r \in Requests |-> IF r \in Ids(running) THEN Preempted(req[r], TRUE) ELSE req[r]]
    /\ queue' = Outdated(Ids(running))
    /\ waiting' = running \o waiting
    /\ running' = <<>>
    /\ UNCHANGED <<pc, limit, skipped, finished, paused, step, worker>>

(* pause_scheduler, which aborts everything in its default mode, and       *)
(* resume_scheduler.                                                       *)
Pause(mode) ==
    /\ pc = "input"
    /\ paused = "no"
    /\ "pause" \in Controls /\ calls.control > 0
    /\ calls' = [calls EXCEPT !.control = @ - 1]
    /\ paused' = IF mode = "keep" THEN "all" ELSE "new"
    /\ Finished(IF mode = "abort" THEN {r \in Requests : Live(r)} ELSE {})
    /\ UNCHANGED <<pc, limit, step, queue, worker>>

Resume ==
    /\ pc = "input"
    /\ paused # "no"
    /\ paused' = "no"
    /\ UNCHANGED <<pc, limit, req, waiting, skipped, running, finished, step, queue, worker, calls>>

-----------------------------------------------------------------------------
(* step_with_batch_queue: schedule another batch, or wait for the oldest.  *)
Begin ==
    /\ pc = "input"
    /\ HasRequests /\ ~Hold
    /\ pc' = "running"
    /\ step' = [at |-> 1, budget |-> IF paused = "all" THEN 0 ELSE MaxPrefill,
                entries |-> <<>>, preempted |-> FALSE, prefill |-> FALSE, skip |-> <<>>]
    /\ UNCHANGED <<limit, req, waiting, skipped, running, finished, paused, queue, worker, calls>>

Block ==
    /\ pc = "input"
    /\ ~HasRequests \/ Hold
    /\ queue # <<>>
    /\ pc' = "wait"
    /\ UNCHANGED <<engine, queue, worker, calls>>

(* schedule, first loop: the running requests.                             *)

(* How many tokens running request r gets in this step.                    *)
Wanted(r) ==
    LET q == req[r]
        n == Smaller(Smaller(q.tokens + q.spec - q.computed, step.budget),
                     ModelLen - q.computed - 1)
    IN  Split(q.computed, n, Prompt[r], q.tokens, 0)

Entry(r, kind, start, n, spec, real) ==
    [kind |-> kind, start |-> start, n |-> n, spec |-> spec, real |-> real,
     total |-> req[r].tokens, follows |-> req[r].follows, old |-> FALSE]

(* The entries of a step with one for r.                                   *)
With(E, r, e) == [x \in DOMAIN E \cup {r} |-> IF x = r THEN e ELSE E[x]]

(* Its drafts, as many as fit in the n tokens.                             *)
Drafted(q, n) == IF q.spec = 0 THEN 0 ELSE Smaller(q.spec, Larger(n + q.computed - q.tokens, 0))

Scheduling == pc = "running" /\ step.at <= Len(running) /\ step.budget > 0

SkipRunning ==
    /\ Scheduling
    /\ Wanted(running[step.at]) = 0
    /\ step' = [step EXCEPT !.at = @ + 1]
    /\ UNCHANGED <<pc, limit, req, waiting, skipped, running, finished, paused, queue, worker, calls>>

ScheduleRunning ==
    /\ Scheduling
    /\ LET r == running[step.at]
           n == Wanted(r)
           q == req[r]
       IN  /\ n # 0
           /\ Fits(r, q.computed + n)
           /\ step' = [step EXCEPT
                 !.at = @ + 1,
                 !.budget = @ - n,
                 !.prefill = @ \/ q.chunk,
                 !.entries = With(@, r, Entry(r, "cached", q.computed, n, Drafted(q, n), TRUE))]
           /\ req' = [req EXCEPT
                 ![r].spec = 0,
                 ![r].blocks = Larger(@, BlocksFor(q.computed + n + NumSpec))]
    /\ UNCHANGED <<pc, limit, waiting, skipped, running, finished, paused, queue, worker, calls>>

(* No room: the last of the running requests gives up its blocks.          *)
PreemptLast ==
    /\ Scheduling
    /\ LET r == running[step.at]
           v == Last(running)
       IN  /\ Wanted(r) # 0
           /\ ~Fits(r, req[r].computed + Wanted(r))
           /\ req' = [req EXCEPT ![v] = Preempted(@, FALSE)]
           /\ queue' = Outdated({v})
           /\ running' = Front(running)
           /\ waiting' = <<v>> \o waiting
           /\ step' = [step EXCEPT !.preempted = TRUE]
           /\ pc' = IF v = r THEN "close" ELSE pc
    /\ UNCHANGED <<limit, skipped, finished, paused, worker, calls>>

EndRunning ==
    /\ pc = "running"
    /\ step.at > Len(running) \/ step.budget = 0
    /\ pc' = IF ~step.preempted /\ paused = "no" THEN "waiting" ELSE "close"
    /\ UNCHANGED <<engine, queue, worker, calls>>

(* schedule, second loop: the waiting requests.                            *)

Queued == IF skipped # <<>> THEN skipped ELSE waiting

Popped ==
    IF skipped # <<>> THEN skipped' = Tail(skipped) /\ UNCHANGED waiting
                      ELSE waiting' = Tail(waiting) /\ UNCHANGED skipped

Admitting == pc = "waiting" /\ Queued # <<>> /\ step.budget > 0 /\ Len(running) < MaxRunning

(* Bug: resumes while output that will be delivered is in flight.          *)
MustDrainNever(r) == FALSE

MustDrain(r) == req[r].stale > 0 /\ ~req[r].drop

SkipStale ==
    /\ Admitting
    /\ MustDrain(Head(Queued))
    /\ Popped
    /\ step' = [step EXCEPT !.skip = Append(@, Head(Queued))]
    /\ UNCHANGED <<pc, limit, req, running, finished, paused, queue, worker, calls>>

(* External: the prefix-cache hits get_computed_blocks may answer.         *)
Hits(r) == {h \in 0 .. req[r].tokens - 1 : h % BlockSize = 0}

(* A resumed decode is padded with drafts that cannot be accepted, so that *)
(* a step of decodes keeps its shape.                                      *)
Padded(r, h) ==
    /\ NumSpec > 0
    /\ req[r].tokens - h = 1
    /\ \E x \in DOMAIN step.entries : step.entries[x].kind = "cached"
    /\ ~step.prefill

Chunk(r, h) ==
    LET rest == IF Padded(r, h) THEN 1 + NumSpec ELSE req[r].tokens - h
    IN  Split(h, Smaller(rest, step.budget), Prompt[r], req[r].tokens, 0)

Admissible(r, h) ==
    /\ Padded(r, h) => 1 + NumSpec <= step.budget /\ h + 1 + NumSpec <= ModelLen
    /\ Chunk(r, h) # 0
    /\ Fits(r, h + Chunk(r, h))
    /\ BlocksFor(req[r].tokens) <= Free

Admit(h) ==
    /\ Admitting
    /\ LET r == Head(Queued)
           n == Chunk(r, h)
       IN  /\ ~MustDrain(r)
           /\ h \in Hits(r)
           /\ Admissible(r, h)
           /\ Popped
           /\ running' = Append(running, r)
           /\ req' = [req EXCEPT ![r].status = "running", ![r].computed = h,
                                 ![r].blocks = BlocksFor(h + n + NumSpec)]
           /\ step' = [step EXCEPT
                 !.budget = @ - n,
                 !.entries = With(@, r, Entry(r, IF req[r].status = "waiting" THEN "new" ELSE "resumed", h, n,
                                          IF Padded(r, h) THEN NumSpec ELSE 0, FALSE))]
    /\ UNCHANGED <<pc, limit, finished, paused, queue, worker, calls>>

(* Nothing waits, the step is full, or the first in line does not fit.     *)
EndWaiting ==
    /\ pc = "waiting"
    /\ \/ ~Admitting
       \/ /\ Admitting
          /\ ~MustDrain(Head(Queued))
          /\ \E h \in Hits(Head(Queued)) : ~Admissible(Head(Queued), h)
    /\ pc' = "close"
    /\ skipped' = step.skip \o skipped
    /\ UNCHANGED <<limit, req, waiting, running, finished, paused, step, queue, worker, calls>>

(* The end of schedule (_update_after_schedule) and the dispatch of its    *)
(* batch.                                                                  *)
Close ==
    /\ pc = "close"
    /\ LET E == step.entries
       IN  /\ req' = [r \in Requests |->
                 IF r \in DOMAIN E
                 THEN [req[r] EXCEPT !.computed = @ + E[r].n, !.inflight = @ + E[r].n,
                                     !.chunk = req[r].computed + E[r].n < req[r].tokens]
                 ELSE req[r]]
           /\ queue' = Append(queue, [entries |-> E, ran |-> FALSE, out |-> <<>>])
           /\ finished' = {}
           /\ pc' = IF Len(queue') < QueueSize /\ (E # <<>> \/ Unfinished > 0)
                    THEN "input" ELSE "wait"
    /\ step' = [at |-> 0]
    /\ UNCHANGED <<limit, waiting, skipped, running, paused, worker, calls>>

-----------------------------------------------------------------------------
(* The workers: the oldest batch that has not run, through all stages.     *)

Due == CHOOSE i \in DOMAIN queue : ~queue[i].ran /\ \A j \in 1 .. i - 1 : queue[j].ran

(* num_tokens of the last stage's CachedRequestState, after _update_states *)
(* has aligned it with the scheduler.                                      *)
Known(e, r) == IF e.kind = "new" THEN Prompt[r] ELSE Smaller(known[r], e.total)

(* ~discard_request_mask                                                   *)
Sampled(e, r) == e.start + e.n >= Known(e, r)

(* execute_model and sample_tokens on the last stage: accepted[r] of the   *)
(* drafts are accepted, one more token is sampled, new drafts follow.      *)
Work(accepted) ==
    /\ pc \in {"input", "wait"}
    /\ \E i \in DOMAIN queue : ~queue[i].ran
    /\ LET E     == queue[Due].entries
           count == [r \in DOMAIN E |-> IF Sampled(E[r], r) THEN 1 + accepted[r] ELSE 0]
       IN  /\ accepted \in [DOMAIN E -> 0 .. NumSpec]
           /\ \A r \in DOMAIN E :
                 accepted[r] <= IF E[r].real /\ Sampled(E[r], r) THEN E[r].spec ELSE 0
           /\ queue' = [queue EXCEPT ![Due].ran = TRUE,
                 ![Due].out = [r \in DOMAIN E |-> [follows |-> Known(E[r], r), count |-> count[r]]]]
           /\ known' = [r \in Requests |->
                 IF r \in DOMAIN E THEN Known(E[r], r) + count[r] ELSE known[r]]
           /\ cached' = [r \in Requests |->
                 IF r \notin DOMAIN E THEN cached[r]
                 ELSE E[r].start + E[r].n
                      - IF Sampled(E[r], r) THEN E[r].spec - accepted[r] ELSE 0]
           /\ drafts' = IF E = <<>> THEN drafts
                        ELSE [r \in DOMAIN E |-> IF Sampled(E[r], r) THEN known'[r] ELSE 0]
    /\ UNCHANGED <<pc, engine, calls>>

-----------------------------------------------------------------------------
(* update_from_output on the oldest batch, after the aborts that came      *)
(* meanwhile.                                                              *)

(* Bug: rejected drafts stay computed.                                     *)
RejectedNone(q, e, o) == 0

(* Bug: a stale rejection rolls back too.                                  *)
Rejected(q, e, o) ==
    IF e.spec > 0 /\ o.count > 0 /\ q.stale = 0 /\ q.computed > 0
    THEN e.spec - (o.count - 1) ELSE 0

Dropped(q) == q.stale > 0 /\ q.drop

(* Request r after entry e of the batch produced o.                        *)
Updated(r, q, e, o) ==
    LET counted == [q EXCEPT !.inflight = @ - e.n, !.stale = IF @ > 0 THEN @ - e.n ELSE 0]
        tokens  == Smaller(q.tokens + o.count, Prompt[r] + limit[r])
    IN  IF Dropped(q) THEN counted
        ELSE [counted EXCEPT !.computed = @ - Rejected(q, e, o),
                             !.tokens = tokens,
                             !.status = IF o.count > 0 /\ tokens = Prompt[r] + limit[r]
                                        THEN "finished" ELSE @,
                             !.blocks = IF o.count > 0 /\ tokens = Prompt[r] + limit[r]
                                        THEN 0 ELSE @]

(* Bug: drafts are taken after every batch.                                *)
DraftsDueAlways == NumSpec > 0

(* [claude-mtp-08]: only when nothing else is in flight.                   *)
DraftsDue == NumSpec > 0 /\ Tail(queue) = <<>>

(* take_draft_token_ids and update_draft_token_ids.                        *)
WithDrafts(r, q) ==
    IF r \notin DOMAIN drafts \/ ~DraftsDue THEN q
    ELSE IF q.chunk THEN [q EXCEPT !.spec = 0]
    ELSE [q EXCEPT !.spec = NumSpec, !.follows = drafts[r]]

Update(A) ==
    /\ pc = "wait"
    /\ Head(queue).ran
    /\ \A r \in A : Live(r)
    /\ Cardinality(A) <= calls.abort
    /\ calls' = [calls EXCEPT !.abort = @ - Cardinality(A)]
    /\ LET b     == Head(queue)
           after == [r \in Requests |->
                       IF Live(r) /\ r \notin A /\ r \in DOMAIN b.entries
                       THEN Updated(r, req[r], b.entries[r], b.out[r]) ELSE req[r]]
           done  == A \cup {r \in Requests : Live(r) /\ after[r].status = "finished"}
       IN  /\ req' = [r \in Requests |->
                 IF r \in A THEN [req[r] EXCEPT !.status = "finished", !.blocks = 0]
                 ELSE IF Live(r) /\ r \notin done THEN WithDrafts(r, after[r])
                 ELSE after[r]]
           /\ running' = Without(running, done)
           /\ waiting' = Without(waiting, done)
           /\ skipped' = Without(skipped, done)
           /\ finished' = finished \cup done
    /\ queue' = Tail(queue)
    /\ pc' = "input"
    /\ UNCHANGED <<limit, paused, step, worker>>

-----------------------------------------------------------------------------
Client ==
    \/ \E r \in Requests : Add(r) \/ Abort(r)
    \/ Reset
    \/ \E mode \in {"abort", "wait", "keep"} : Pause(mode)

Schedule ==
    \/ SkipRunning \/ ScheduleRunning \/ PreemptLast \/ EndRunning
    \/ SkipStale \/ (\E h \in 0 .. ModelLen : Admit(h)) \/ EndWaiting
    \/ Close

Engine == Begin \/ Block \/ Schedule \/ (\E A \in SUBSET Requests : Update(A))

Worker ==
    \E S \in SUBSET Requests : \E accepted \in [S -> 0 .. NumSpec] : Work(accepted)

(* Every request is answered and nothing is left to do.                    *)
Idle == pc = "input" /\ queue = <<>> /\ ~HasRequests /\ UNCHANGED vars

Next == Client \/ Resume \/ Engine \/ Worker \/ Idle

Spec == Init /\ [][Next]_vars

(* The engine's loop and the workers never stop, and a paused scheduler is *)
(* resumed; clients need not call.                                         *)
FairSpec == Spec /\ WF_vars(Engine) /\ WF_vars(Worker) /\ WF_vars(Resume)

-----------------------------------------------------------------------------
(* Properties.                                                             *)

InQueue(r) == {i \in DOMAIN queue : r \in DOMAIN queue[i].entries}

(* The tokens of request r in the queue, each a batch and a place in it;   *)
(* with old, only those of lives that have ended.                          *)
Tokens(r, old) ==
    UNION {{i} \X (1 .. queue[i].entries[r].n) :
              i \in {j \in InQueue(r) : old => queue[j].entries[r].old}}

InFlight(r, old) == Cardinality(Tokens(r, old))

(* What the next update delivers of request r.                             *)
Delivers(r) ==
    /\ queue # <<>> /\ Head(queue).ran
    /\ r \in DOMAIN Head(queue).entries
    /\ Live(r) /\ ~Dropped(req[r])
    /\ Head(queue).out[r].count > 0

(* Every token reaches its request once and in order: the tokens the next  *)
(* update appends are the ones that follow what the request has, however   *)
(* it was preempted, reset or aborted while they were computed.            *)
InOrder ==
    pc = "wait" =>
        \A r \in Requests :
            Delivers(r) => Head(queue).out[r].follows = req[r].tokens

(* "decode steps run one at a time": while a step that samples for a live  *)
(* request is in flight, no later batch is (claude-mtp-08).                *)
OneDecodeStep ==
    NumSpec > 0 =>
        \A i \in DOMAIN queue : \A r \in DOMAIN queue[i].entries :
            LET e == queue[i].entries[r]
            IN  e.start + e.n >= e.total /\ Live(r) /\ ~e.old => i = Len(queue)

(* The counters of in-flight and of stale tokens are exactly the tokens in *)
(* the queue, and those of lives that ended: each late batch drains its    *)
(* own share, and the last one clears it.                                  *)
InFlightExact ==
    \A r \in Requests :
        Live(r) =>
            /\ req[r].inflight = InFlight(r, FALSE)
            /\ req[r].stale = InFlight(r, TRUE)

(* A batch that is about to run finds the positions before its chunk in    *)
(* the KV cache, and the last stage knows the same tokens as the           *)
(* scheduler: rejected drafts were rolled back before the next chunk, and  *)
(* dropped output is forgotten on both sides.                              *)
WorkerReady ==
    (\E i \in DOMAIN queue : ~queue[i].ran) =>
        \A r \in DOMAIN queue[Due].entries :
            LET e == queue[Due].entries[r]
            IN  Live(r) /\ ~e.old /\ e.kind # "new" =>
                    /\ known[r] >= e.total
                    /\ e.kind = "cached" => e.start <= cached[r] /\ known[r] = e.total

(* Scheduled drafts follow the request's last token.                       *)
DraftsFollow ==
    \A i \in DOMAIN queue : \A r \in DOMAIN queue[i].entries :
        LET e == queue[i].entries[r]
        IN  e.real /\ e.spec > 0 => e.follows = e.total

(* Every request that was sent ends, whatever else is sent, aborted, reset *)
(* or paused and resumed.                                                  *)
EveryRequestEnds ==
    \A r \in Requests : req[r].status = "waiting" ~> req[r].status = "finished"
=============================================================================
