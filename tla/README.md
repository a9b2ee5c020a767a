# Verification of the serving stack

TLA+ models of the parts of this repository whose correctness depends on the
order in which things happen: the custom all-reduce of the RDNA cards, the
patched vLLM engine core and scheduler that serve GLM-5-next over pipeline
stages, and the KV-cache bookkeeping under them. TLC checks small instances;
TLAPS proves the all-reduce handshake, the communicator's life cycle, the
free-block queue, the engine process, the batch queue with its scheduler, the
block-aligned split and the layout of the KV cache for every size.

Paths: `CU`, `PY`, `CC` are `rdna_custom_all_reduce_tp8.cu`,
`rdna_custom_all_reduce.py` and `cuda_communicator.py` in
`src/patches/rc3/allreduce/`. `ENG`, `SCH`, `KV`, `W` are `v1/engine/core.py`,
`v1/core/sched/scheduler.py`, `v1/core/kv_cache_utils.py` and
`v1/worker/gpu_model_runner.py` in
`src/patches/glm5next/serving-2026-10-25/vllm/`. `PROJECT.json` maps every
definition to its lines.

## The system

The deployed configuration (`serve/glm-serve-54.sh`) is tensor parallel 4 by
pipeline parallel 3, without async scheduling, with one or two draft tokens,
prefix caching, two sequences and 2048 batched tokens.

| Component | State | Operations | What is hard |
|---|---|---|---|
| All-reduce kernels (CU) | per rank: epochs and counters in a Signal block, payload halves in memory the peers write | launch, store, release, wait, reduce, retire | no acknowledgement of reads; posted stores; grids that change from call to call; kernels that mix on one Signal block |
| Communicator (PY, CC) | mappings, exported buffer, closed/disabled, collectives made | construct, use, close | any step fails on one rank; collectives matched by order only; frees under kernels and peers |
| Engine process (ENG) | input and abort queues, shutdown state, idle callbacks, sleep | busy loop, add, abort, pause, resume, sleep, wake_up, signal | two queues, blocking while idle, pauses answered later, shutdown at any moment |
| Batch queue (ENG) | batches in flight, drafts | schedule, hold, pop, update, draft hand-over | results of batches scheduled before a preemption, an abort or a reset |
| Scheduler (SCH) | running, waiting, skipped; counters of each request | schedule, preempt, update, finish, reset, pause, split | stale output, blocks running out, block-aligned chunks |
| Model runner (W) | first stage: its own copy of each text; last stage: tokens it sampled | run a batch, broadcast accepted tokens | two stages decide independently whether a collective takes place |
| KV layout (KV, W) | groups, tensors, block counts | group, check memory, build, shrink, allocate | one rule over the whole model, applied per stage |
| Free block queue (KV) | doubly linked list | pop, popn, remove, append, prepend | loops over pointers that are inconsistent in the middle |

How they meet: the process calls the batch queue's step, which asks the
scheduler for a batch and hands it to the workers; the scheduler draws blocks
from the pool whose layout start-up computed and whose free list the queue is;
the first and last stage run each batch one after the other and talk through a
broadcast; inside a stage the ranks meet in all-reduce kernels replayed from
graphs, through a communicator that the ranks open and close together.

What makes each correct: one all-reduce, in order, with the same sum on every
rank; a group on together or not at all and nothing freed early; every request
answered once, nothing run while paused or asleep; tokens delivered once and
in order, counters exact, batches that find what they build on; stages that
compute from the request's own text and never wait alone; no two caches in one
block and every admitted request fits; and a free list that is a list.

## Modules

* `AllReduce` - what an all-reduce promises (abstract). `PairExchange` - the
  push kernels with one or more rounds between fixed partners (RDNA3 pairwise
  and butterfly, RDNA4 TP2), stores one by one. `PairExchangeInv` - its
  inductive invariant; `PairExchangeProofs`, `MCPairExchange`. `Rdna4Tp4`,
  `MCRdna4Tp4` - the four-rank RDNA4 oneshot, pairwise and bulk-ring kernels,
  mixed; `Rdna4Tp4Inv`, `Rdna4Tp4Proofs`. Both refine `AllReduce`.
* `GroupSwitch` - on together or not at all (abstract);
  `RdnaCustomAllreduce`, `MCRdnaCustomAllreduce` - the communicator, which
  refines it; `RdnaCustomAllreduceInv` - its inductive invariant;
  `RdnaCustomAllreduceProofs`.
* `EngineCoreProc`, `MCEngineCoreProc` - the process: input thread, busy loop,
  utility calls, shutdown. It abstracts a request to a number of steps.
  `EngineCoreProcInv` - its inductive invariant; `EngineCoreProcProofs`.
* `BatchQueue`, `MCBatchQueue` - the step with its batch queue and the
  scheduler, token by token. `BatchQueueInv` - its inductive invariant;
  `BatchQueueProofs`. `MambaAlign` - the block-aligned split, a pure
  operator `BatchQueue` and `MambaSplit`, `MCMambaSplit` (a prefill alone) use;
  `MambaSplitProofs`.
* `PipelineStages`, `MCPipelineStages` - composes `BatchQueue` with the first
  and last stage of the pipeline. `PipelineStagesInv` - the invariants of the
  stages, of the texts without drafts and of the broadcasts with them; their
  proofs are in `BatchQueueProofs`, whose lemmas they need.
* `KvCacheLayout`, `MCKvCacheLayout` - start-up of the KV cache;
  `KvCacheLayoutProofs`. `Increasing` - sets of numbers as increasing sequences
  and parts of sequences, which it uses.
* `FreeList` - the free list as a sequence (abstract); `FreeBlockQueue` - the
  linked list, iteration by iteration; `FreeBlockQueueProofs`.

Operators whose comment begins `Bug:` are plausible mistakes; each property is
known to fail under one of them.

### How state and actions correspond

**PairExchange / Rdna4Tp4.** `epoch`, `flag`, `start` are the fields of the
Signal block; `buf` is the exported payload memory, by half, round and chunk.
A chunk is the 256 packs a CTA takes per pass; chunk *i* belongs to block
*i mod grid*. A CTA pushes its chunks (posted stores land in any order), then
publishes its counter (release), waits for its partner's, and reduces. The
fused reduce-and-push loop is one reduction followed by stores. Memory is
sequentially consistent apart from the posted stores. Payloads are terms that
remember the operands, so sums in different orders differ. `Rdna4Tp4`
delivers the stores of one step with the counter they precede; `NoOverwrite`
is what justifies it. In `tp4_mixed` the second block never works, but its
counters must advance with the first's (`Lockstep`).

**RdnaCustomAllreduce.** `log[r]` is the sequence of collectives rank *r* has
entered; the *n*-th completes when all have entered an *n*-th, whatever the
call site. Each `try` block may fail. `hooked` says whether `CudaCommunicator`
constructs the communicator, only where its rank's environment says so;
`eligible`, whether the group has 2, 4 or 8 ranks of one node, which the code
asks with a collective that cannot fail differently on two ranks. Closing a
mapping and freeing the buffer may raise (`CloseMayFail`); what raises leaves
`_closed` unset, and a second `destroy()` closes again from the first barrier.
A rank that dies and the process group's timeouts are not modelled.

**EngineCoreProc.** The input thread is the action that sends a message (an
abort is two steps, one per queue); the engine's `pc` follows `run_busy_loop`:
`top` (`_handle_shutdown`), `input`/`clear`/`get` (the idle loop), `more`
(draining the queue), the step, `wait` (blocked on a future). A request is the
number of results it still needs; which running request a decode holds back is
a free choice (`Hold`), since `BatchQueue` has the tokens. The calls of clients
(`Utilities`) are `pause_scheduler` in its three modes with `clear_cache`
(`pause_*`) and without (`hold_*`, which is also sleep at level 0), sleep at
level 1 or more (`sleep_*`), `resume_scheduler`, and `wake_up` of everything
(`wake`) or of some tags (`wake_part`: whether the executor is awake then is
left open, and as in the code it resumes only if so). A call that waits for an
idle engine resets the caches, when it is one that does, only once the engine
is idle; so requests that `hold_keep` keeps stay running, and a later pause that
waits lets them go on. `Sensible` is what `ResidentToRun` asks of the clients,
and the code does not: to wake up or resume only when every sleep has been
answered, and to call `resume_scheduler` only when the executor is awake.
`answers` counts the final outputs of each request; `gone` and `calm` are
history.

**BatchQueue.** One action per iteration of the scheduling loops, so that a
client's call may only come where the engine looks for one. Requests are
lengths and counters; end tokens are a length limit chosen by the client;
blocks are counted without sharing, and prefix hits are any multiple of the
block size. FCFS, without connectors, encoder, LoRA, structured output and
async scheduling. `old` marks entries of a life of the request that a
preemption or reset ended.

**PipelineStages.** A token is named by its position; the first stage holds
`text` (`req_state`) and `row` (the input batch). `sent` and `wants` count the
two sides of the broadcast. Middle stages do what the first does.

**KvCacheLayout.** Pages are units of memory; splits of a model over stages,
memory of each stage, the block override and drafts vary. Every sparse layer
has an indexer. Lists the code builds by filtering another list are the part of
it at a set of indices (`At`), and a stage ends where the layers of the stages
up to it end (`EndOf`). **FreeBlockQueue.** Loop iterations are steps; `free` is a
ghost of the sequence; a pop of nothing and an invalid remove raise and change
nothing.

## Runs

| Run | Bounds | Shows |
|---|---|---|
| `tp2_rdna4` | 2 ranks, 2 blocks, 3 chunks, 4 calls of any size | a chunk changes its block and half when the CTA limit shrinks: nothing overwritten, nothing stale, epochs in step |
| `butterfly` | 4 ranks, 2 rounds, 3 calls | partners stay within one call; refines `AllReduce`, additions in one order; every call returns |
| `tp4_mixed` | 4 ranks, 3 calls, every kernel after every other | the mixture is still one all-reduce |
| `lifecycle` | 4 ranks of a group that may be eligible or not, any failure (of an unmap or a free too), differing environments, closes repeated up to 9 collectives | collectives match, group switch, no leak, no free under a kernel or peer, everybody gets out |
| `engine_loop` | 2 requests of one step, one abort, 2 calls (a pause without `clear_cache` that keeps, a sleep that waits, resume, a partial wake_up), 2 messages in the queue, a signal or failure | aborts hold, pauses hold, nothing runs asleep, nobody forgotten, calls answered, the engine ends |
| `queue_drafts` | 2 requests of 3 prefill chunks, 1 draft, 3 batches, 5 blocks, one abort, one reset or pause | exact counters, one decode step, ready batches, matching drafts |
| `stage_plain` | no drafts, 3 batches, blocks for one request, one reset or pause | output in order and the first stage's text right through preemption, reset, pause and replay |
| `stage_live` | drafts, room for both in every step, outputs of up to 4 tokens | right tokens, matched broadcasts, every request ends |
| `stage_skips` | drafts, preemption | *expected violation*, see Findings |
| `split` | all prompts, hits, junctions and budgets to 14 tokens | chunks end where state may be kept; no kept position is skipped; prefill ends |
| `kv_layout` | all models to 5 layers in 3 stages, and the real 45-layer splits | workers start exactly by the documented rule; no shared block; the memory check is enough for a request that ends a block early |
| `free_queue` | 4 blocks | pointers spell the list, the guard is exact, refines `FreeList` |

Why the bounds are enough. The all-reduce alternates two halves and keeps
partners within a call, so three calls reuse a half while a partner may still
read it and a fourth does it after a change of grid; four ranks give partners
that never synchronise directly. The life cycle has one collective of each
kind per rank and failures at each; nine let a rank repeat a close whose free
or unmap has raised while the others are still in theirs, or behind it.
`MaxInputs = 2` has an abort put in `aborts_queue` while the message that adds
its request is still in `input_queue`, where the eager abort finds nothing
(ENG:1798), and calls queue behind each other; a signal, a failure and the
second half of an abort are not bounded by it. The pauses and sleeps that abort
requests, and the other mixtures of calls, are not in the run but in the model,
and under the theorems, which have no bound on calls, messages or requests. Two requests are one that runs and one that waits, is
admitted, preempted or rejected. Three batches in flight are more than one
result can be late by. 14 tokens exceed three blocks plus a draft's tail. The
small models of `kv_layout` are all of them, balanced and unbalanced; the real
splits 16,16,13 and 8,8,8,8,8,5
(`src/patches/glm5next/serving-2026-10-25/README.md:72`, and `:140` and `:98` of
`serve/glm-serve-54.sh` there) and 10,9,9,9,8
(`src/patches/glm5next/README.md:59`) are added. TP8 is out of TLC's reach and
covered by the theorems, which hold for any ranks and rounds.

Bounds beyond the constants: in `engine_loop` (`Late = FALSE`), clients only
abort after the signal, and the signal and the failure exclude each other one
way (a failing engine may still be signalled); a request is aborted once.

### Fairness

The all-reduce: some CTA that can go on does (kernels of a graph replay are
resident; spinning CTAs do not block others, since the grid fits the device).
The communicator: some rank that can go on does. The engine's runs: the
engine's thread and the workers do not stop (`BatchQueue`, with a paused
scheduler eventually resumed); in `EngineCoreProc` only that *some* thread of
the process, or the executor, goes on while one can. Stages: engine, first and
last stage each go on, and a pause is resumed. Clients need never do anything.

### Deadlock

Checked in every run but `lifecycle`: where some ranks skip the communicator,
the others do wait for ever, and where an unmap raises on one rank the others
wait in the second barrier. `EveryoneEnds` says that nothing else stops a
group.

## Proofs

All from `ConstantAssumption` (numbered ranks paired off in each round, limits
within the Signal block, and RDNA4's advance of idle blocks wherever the limit
depends on the size), `MaskAssumption` (the partners of different rounds
commute, as ranks xor masks do, and together reach every rank),
`PartialAssumption` and `SumAssumption` (a pair agrees on the order of its
addition, or the order does not matter); for the mixed kernels from `MaskAssumption` (two distinct
masks that pair the ranks off), `SizeAssumption` and `SumAssumption` (the pairs' sums
are added in one order everywhere, as with the default masks, or the order does not
matter); for the communicator, from `GroupAssumption` (a finite
group; a rank's peers are other ranks); for the queue, from `N \in Nat`; for
the process, from `ProcAssumption` (requests and calls are numbers, a request
takes at least one step, the batch queue has two places or more); for the batch
queue, from `QueueAssumption` (prompt and output of a request fit the model
length, the model length fits the blocks) and `SplitAssumption`; for the split,
from `SplitAssumption` (the cache's blocks are whole numbers of hash blocks) and
`MaxTokensAssumption`;
for the layout, from `PageAssumption` and `ModelAssumption` (an indexer's page
is smaller than an MLA page; a model has layers of both kinds, numbered from 0,
and a stage at least).

*PairExchangeProofs* - `TypeCorrect`, `ControlCorrect`, `PartnersAdjacent`,
`BlocksShareEpoch`, `NothingOverwritten`, `Invariance`, `NothingStale`,
`NobodyAhead`, `Refinement`. Neither `NoOverwrite` nor `FreshPayload` is
inductive: that a half is free depends on how far the partner can be, which
depends on counters. `PairExchangeInv` therefore states, in this order: what a
rank finds in its start array never exceeds what the peer published
(`StartBound`); counters of partners agree at the same point of the same call
(`FlagSync`); so passing a wait means that the partner has published that
round of that call (`Handshake`), and a rank that has finished a call knows
its partners have begun it (`PeersAdjacent`); epochs advance once per call on
both sides (`EpochSync`), so halves alternate between the two calls partners
can be in, and what was landed for a call survives the next (`Payload`,
`OldPayload`). For `Refinement` (the kernels implement `AllReduce`) partners are
not enough: a kernel may only end when every rank has begun it (`Everyone`).
Who has passed the last round has a partner who has passed the round before,
and so on back to the first; since partners commute, the ranks met on the way
are all that can be reached at all (`OrbitDoubles`, `ReachesAll`). That
everybody then holds the same sum (`OneSum`) is an induction over the rounds:
after round *k* the sums of *r* and of its partner of each round so far agree.
Both inductions are by least counterexample (`LeastNumber`). All of it has the
hypothesis `NoWrap`: the 32-bit counters have not wrapped.

*Rdna4Tp4Proofs* - `Invariant`, `LockstepAlways`, `NoOverwriteAlways`,
`DataInvariant`, `Refinement`, for any thresholds, grids and mixture of calls. The same argument where a rank waits
for other ranks in each call. Ranks in one call began it with the same
counters, and a rank one call ahead with those the others will end on
(`FlagSync`, over the kernels' 1, 2 or 6 waits), so a counter that lets a wait
pass was published in this very call (`Handshake`). Each kernel's waits, put
together, reach all four ranks (`AllBegun`: at once, through two partners, or
three ranks back along the ring), so calls differ by at most one (`Adjacent`).
The halves then tell apart two calls (`HalvesTell`) and the slots the steps of
one (`SlotsTell`). For `Refinement` the data come in (`DataInv`): `Value` says what
each algorithm has made of a chunk after each step; a counter is not there before
its payload (`OwingUnsent`, `CounterTells`), a cell has one writer (`OneWriter`)
and keeps the sender's value until it has been read (`Payload`), so the next step
makes the next `Value` of it (`ReducedValue`), and after the last one all ranks
hold the same sum (`ValueEnds`; for the pairwise kernel `PairsAgree`).

*FreeBlockQueueProofs* - `Invariant`, `TypeCorrect`, `PointersSpell`,
`RemoveGuard`, `Refinement`. The invariant says, at each point of each loop,
that the pointers are those of the list before the operation with the part
already unlinked or linked, in terms of concatenation and subsequence lemmas;
the refinement to `FreeList` follows action by action.

*EngineCoreProcProofs* - `Invariant`, `AbortsAlwaysHold`, `PausesAlwaysHold`,
`NobodyForgotten`, `AlwaysResidentToRun`, for every mixture of the calls, also
those `engine_loop` does not make. `AbortsHold` is not inductive: the
engine may clear the abort queue before it has read the message that adds the
request, and is then saved only by the copy of the abort in the input queue.
`EngineCoreProcInv` says so: behind the message that adds a request its client
has given up comes the message that aborts it, or the client is about to send
it (`AddsFollowed`), and a request given up and still kept has that
message in the input queue or about to join it (`AbortsEnd`). A request has
been told its end exactly when it has one and its client still waits
(`ToldOnce`), one sent and not yet known is in the input queue (`SentUnread`),
and none starts once the engine has ended (`NothingStarts`); `NoneForgotten`
follows: who is untold at an exit is still unread, or was to be drained under a
pause. `PauseHolds` is inductive with what `calm` means; a pause in another mode
may take an answer back, nothing else but a resume or a wake_up does. For sleep,
a call is one message or one callback but never both (`CallsOnce`, whatever
clients do), and with patient clients a wake_up or resume on its way is ahead of
every sleep not yet answered, and no resume waits for an executor asleep
(`WakesFirst`), so an executor asleep is one whose pause is in force
(`SleepersPaused`). `Patient` is a hypothesis of `AlwaysResidentToRun` alone.

*BatchQueueProofs* - `Invariance`, `TypeCorrect`, `CountersExact`,
`DecodesAlone`, `DeliveredInOrder`, `StageIsReady`. No bound on aborts or calls
is used. None of these is inductive, and together they are not either: what the
engine schedules rests on what the last stage will have made of batches that
have not run. A preemption or a reset ends a *life* of a request.
`BatchQueueInv` says of each request by itself (`Life`): entries of ended lives
are ahead of those of this one (`OldFirst`); output of an ended life is
delivered only if the request waits for it, so text and entries agree
(`Totals`), and an entry that samples is the request's last (`SamplesLast`);
the chunks of a life follow each other up to `num_computed_tokens` (`Chained`,
`Reaches`); and what the last stage knows and has cached at each point of the
queue is what the next entry needs (`Knows`, `Ready`, `Caught`, `Delivery`).
While a step is built, `Planned` says that its entries continue their requests,
and `Alone` that with drafts nothing in flight samples, which the hold
establishes. Each action is then shown to keep the life of the request it
concerns and to leave the others alone (`KeptLife`). That `InFlightExact` counts
tokens of a set, not a sum, keeps it within reach of the prover. The last entry
of a request is found by well-founded induction on places (`Topmost`).

The same module proves `FirstStageFed`: `FirstInputs` when `NumSpec = 0`. With
drafts it is false once a request with accepted ones leaves the batch
(`stage_skips`, and see Findings), and otherwise only TLC checks it
(`stage_live`). Without drafts the first stage's copy of a text is a prefix
of it (`Copied`) that lacks at most the token sampled last (`Received`); a
chunk it has still to run begins where its copy will end by then, or before
(`Adjoins`); and of a request that is new to it, it has the prompt and no more
(`Untold`), also after a preemption or a reset has started another life.
That the scheduler sends the tokens that close the gap follows from the chunks
of a life (`Chained`, `Reaches`) and from where the last stage is (`Ready`), so
`StageInvariant` is inductive relative to the batch queue's.

And `BroadcastsInStep`: `BroadcastsMatch` for as long as nobody is preempted,
by a lack of blocks or by a reset, whatever is aborted, paused or finished
meanwhile. Each stage decides from its own copy of the texts whether a batch
samples: the first from the tokens it was sent (`Discards`), the last from what
it has sampled (`Sampled`). Both decide as the scheduler would (`DiscardsIs`,
`SampledIs`) because a chunk is of the prompt, or of the last token and its
drafts (`Regular`, which needs `OnTime`: as nothing is scheduled behind a batch
that samples, nothing else is ever left to compute of a text that has grown),
the first stage is never ahead of the scheduler (`Follows`), and the last has
the prompt when it comes to a decode (`Told`). As the first stage waits before
it runs another batch, at most one is asked for (`Matched`). The theorem has two hypotheses. `UseEagle` when there are drafts: the
drafter is the model's MTP layer, and `SpeculativeConfig.use_eagle()` makes the
scheduler keep state one block earlier (SCH:256-257); without it a padded
prompt could be cut before its drafts. And `[]NonePreempted`: a request that is
preempted is computed again in chunks that are neither of its prompt nor its
last token, which `Regular` excludes.

*RdnaCustomAllreduceProofs* - `Invariant`, `MatchAlways`, `FreeLastAlways`,
`LiveAlways`, `NoLeakAlways`, and `Refinement`: the life cycle implements
`GroupSwitch`. That nothing is freed under a kernel or a peer follows from the
order of one rank's own steps only together with what the others have entered:
a rank leaves a collective only when everybody has entered as many (`InStep`),
so the decisions after the fourth and the sixth are taken on the same reports
everywhere (`Decided`, `Enabled`). The reports say what a rank holds
(`Holdings`): a rank that runs kernels has its peers mapped and has not entered
its seventh collective, so nobody is past that one and nobody has unmapped or
freed. Closes that raise and are repeated are in the invariant, any number of
them: a second barrier is only entered behind a first one (`Itinerary`), and a
rank whose last collective is a second barrier has nothing mapped.

*MambaSplitProofs* - `Invariant`, `AlignedAlways`, `CacheAlways`,
`AdvancesAlways`, for any block size, prompt, hit, junctions and sequence of
budgets. Both properties are inductive together with where the prefill is
(`Passed`) and where it began (`Began`); the rest is arithmetic: what the
formulas of `_mamba_block_aligned_split` return is the first kept position
ahead or the largest multiple of a block within the budget (`EndAligned`,
`NoJump`).

*KvCacheLayoutProofs* - `Invariant`, `RuleAlways`, `DisjointAlways`,
`FitsAlways`. The invariant says that start-up has computed, at each point,
what its functions say from inputs that do not change. What has to be proved is
about those functions. Dealing layers round robin is a bijection between the
sharing layers and places in groups (`Deal`, `MemberAll`, `MemberOnce`), so no
cache is in two groups (`Disjoint`). For the rule, the tensors of a stage hold
all its caches exactly when no linear group has more layers there than there
are sparse ones (`SharedShort`). If so, group and place give each of the
stage's linear layers a pair of its own (`ShortFew`); conversely the layers of
a stage are consecutive in the deal (`Convex`, because stages follow each
other), and so many consecutive cards give nobody more than one in `GroupCount`
of them (`DealSpan`, `FewShort`).

Only model-checked: liveness (out of the prover's reach, like ENABLED),
`DraftsFollow` (it holds only up to the one call of
a control operation, see Findings), and of the stages `BroadcastsMatch` when
requests are preempted and, with drafts and nobody preempted, `FirstInputs`.

## Findings

`stage_skips`: without async scheduling the first stage learns tokens only
from `new_token_ids`, one per decode even when drafts were accepted
(SCH:1433-1448). Its cached list falls behind, and when the request is
preempted its row is rebuilt from that list: it embeds tokens that are not the
request's (W:1435). A pause that keeps requests does the same, because an empty
step also drops the rows (W:1258-1275); `stage_live` therefore keeps every
request in every step, and `stage_plain` has the pauses.

Other behaviour met while modelling, kept as hazards in `PROJECT.json`:

* The 32-bit counters wrap after 2^32 rounds of one block (CU:364).
* `FENSTONE_RDNA_AR` set on some ranks only makes the others' group wait for
  ever (CC:64 before PY:76).
* After `close_mem_handle` or `free_shared_buffer` raises, a second `destroy()`
  enters the first barrier again while the others are in the second or gone
  (PY:244, PY:249): exporters may then be freed while mapped.
  `CollectivesMatch` and `ExportersFreeLast` stop at the retry.
* A `sleep()` waiting for the engine to become idle is not cancelled by a
  `wake_up()` that overtakes it (ENG:951-962): the late callback puts the
  executor to sleep under a scheduler that has been resumed. And
  `resume_scheduler` does not ask whether the executor sleeps (ENG:920-922;
  `wake_up` does, ENG:981), so a client that resumes a sleeping engine has it
  run requests. `Patient` clients do neither; with `Patient = FALSE`
  `ResidentToRun` fails.
* A pause that keeps requests, answered without `clear_cache`, followed by one
  that waits for them, lets them go on: the pause state that counts is the last
  (ENG:1899-1934). `PauseHolds` counts the first answer as taken back then.
* `has_work` does not count waiting requests of a paused scheduler: a shutdown
  that drains exits with them unanswered, and a "wait" pause completes while
  a preempted request still waits. Pause and sleep calls pending at shutdown
  are never answered, nor is a request whose message is still in `input_queue`
  when `_handle_shutdown` finds no work (ENG:1558): nobody reads it any more.
* A reset during a pause may schedule drafts of a token that was dropped; they
  are rejected. `queue_drafts` therefore makes one such call.
* Replayed chunks after a preemption with accepted drafts are discarded by
  different rules on the two stages, and the broadcast may then be unmatched
  (W:4242, W:4273).
* The number of KDA groups is a property of the whole model, so an unbalanced
  split fails in the workers' assertion (KV:1531, W:7670); and the memory check
  is per stage against one pool (KV:2557), enough only when each stage has
  layers of every group (a hypothesis of `CheckedRequestFits`). Nor does it
  count the null block the pool keeps for itself: a request of exactly
  `max_model_len` may pass it and be a block short, so the property is about
  requests that end a block before.

## Not modelled

The models cover the control of the files above; the repository has some 79
thousand lines of implementation, three quarters of them tensor code or other
versions of the same files. Not modelled, and why:

* RDNA3 chunked push, tagged ring and bulk ring: `should_custom_ar` keeps
  gfx1100 below their sizes. Dispatch by shape; arithmetic of packed types.
* Sockets and encoding, data-parallel engines, which tags a partial wake-up
  names, the in-process engine, profiling and other calls without effect on requests.
* Connectors, encoder inputs, LoRA, priorities, async scheduling, streaming
  input and structured output, which this server does not configure.
* Attention backends, the indexer, the model, quantised layers and GEMM
  kernels: arithmetic of one step.
* Break-point CUDA graphs: what is hard there, streams and allocator pools, is
  in torch and HIP.
* Block hashing and the prefix-cache map (`block_pool.py` is not among the
  sources; the queue's use of it is), auto-fit of `max_model_len`.
* Worker start-up, diagnostics, serving scripts, tools, benches and the older
  and vision copies of the files.

## Plan

In order of what matters: the all-reduce kernels (proved), their communicator (proved),
the batch queue and scheduler (proved), the stages (the first without drafts and
the broadcasts without preemptions proved), the layout (proved), the free list (proved), the process around the engine (proved), the split (proved).
What comes next: the broadcasts and drafts across preemptions; then a
rank that dies during a collective, and connectors if the server comes to use
one.

## Running

`tlc -workers 2 -config <cfg> <module>` for a run, `tlapm <module>` for a
proof. Constants of a run are in its `.cfg` and the `MC` module it names.
