--------------------------- MODULE BatchQueueInv ---------------------------
(***************************************************************************)
(* The inductive invariant of BatchQueue, the ground on which its          *)
(* properties stand.                                                       *)
(*                                                                         *)
(* A preemption or a reset ends a life of a request.  Its entries in the   *)
(* queue are fresh, of the life it has now, or stale, of an earlier one.   *)
(* Their output is still delivered (valid), or dropped if the request was  *)
(* reset.  Most of the invariant says, of each request by itself, how its  *)
(* entries follow each other and what the last stage has when it comes to  *)
(* them.                                                                   *)
(***************************************************************************)
EXTENDS BatchQueue

EntryType ==
    [kind : {"new", "cached", "resumed"}, start : Int, n : Int, spec : 0 .. NumSpec,
     real : BOOLEAN, total : Nat, follows : Nat, old : BOOLEAN]

PlanType == UNION {[D -> EntryType] : D \in SUBSET Requests}

OutType == UNION {[D -> [follows : Nat, count : Nat]] : D \in SUBSET Requests}

BatchType == [entries : PlanType, ran : BOOLEAN, out : OutType]

RequestType ==
    [status : {"absent", "waiting", "running", "preempted", "finished"}, tokens : Nat,
     computed : Int, spec : 0 .. NumSpec, follows : Nat, inflight : Int, stale : Int,
     drop : BOOLEAN, chunk : BOOLEAN, blocks : Int]

StepType ==
    [at : Nat \ {0}, budget : Int, entries : PlanType, preempted : BOOLEAN,
     prefill : BOOLEAN, skip : Seq(Requests)]

InSchedule == pc \in {"running", "waiting", "close"}

TypeOK ==
    /\ pc \in {"input", "running", "waiting", "close", "wait"}
    /\ limit \in [Requests -> Nat \ {0}]
    /\ \A r \in Requests : limit[r] <= MaxOut[r]
    /\ req \in [Requests -> RequestType]
    /\ waiting \in Seq(Requests) /\ skipped \in Seq(Requests) /\ running \in Seq(Requests)
    /\ queue \in Seq(BatchType)
    /\ known \in [Requests -> Nat]
    /\ cached \in [Requests -> Int]
    /\ drafts \in [DOMAIN drafts -> Nat]
    /\ InSchedule => step \in StepType

-----------------------------------------------------------------------------
(* The scheduler's lists.                                                  *)

Once(s) == \A i, j \in DOMAIN s : s[i] = s[j] => i = j

(* Requests passed over in this step, until it ends.                       *)
Passed == IF pc \in {"running", "waiting"} THEN step.skip ELSE <<>>

(* No request is in two places, and its status says where it is.           *)
Members ==
    /\ Once(running) /\ Once(waiting) /\ Once(skipped) /\ Once(Passed)
    /\ Ids(waiting) \cap Ids(skipped) = {}
    /\ Ids(Passed) \cap (Ids(waiting) \cup Ids(skipped)) = {}
    /\ \A r \in Requests :
          /\ req[r].status = "running" <=> r \in Ids(running)
          /\ r \in Ids(waiting) \cup Ids(skipped) \cup Ids(Passed)
                => req[r].status \in {"waiting", "preempted"}

-----------------------------------------------------------------------------
(* The queue, batch by batch.                                              *)

(* The batches run in order.                                               *)
Progress == \E m \in 0 .. Len(queue) : \A i \in DOMAIN queue : queue[i].ran <=> i <= m

(* A batch that has run has an output for each of its entries.             *)
Outs == \A i \in DOMAIN queue : queue[i].ran => DOMAIN queue[i].out = DOMAIN queue[i].entries

-----------------------------------------------------------------------------
(* A request and its entries.                                              *)

Of(i, r)  == queue[i].entries[r]
Out(i, r) == queue[i].out[r]
Ran(i)    == queue[i].ran

End(e)     == e.start + e.n
Samples(e) == End(e) >= e.total

Fresh(r) == {i \in InQueue(r) : ~Of(i, r).old}
Stale(r) == {i \in InQueue(r) : Of(i, r).old}

(* Those whose output is delivered.                                        *)
Valid(r) == {i \in InQueue(r) : req[r].drop => ~Of(i, r).old}

(* It is admitted in this step.                                            *)
Entering(r) == InSchedule /\ r \in DOMAIN step.entries /\ step.entries[r].kind # "cached"

OldFirst(r) == \A i \in Stale(r), j \in Fresh(r) : i < j

(* A request that has not been scheduled.                                  *)
Unsent(r) ==
    req[r].status \in {"absent", "waiting"} =>
        /\ InQueue(r) = {}
        /\ req[r].tokens = Prompt[r]
        /\ req[r].inflight = 0 /\ req[r].stale = 0

(* A chunk ends in the text or its drafts; with drafts it samples.         *)
Sane(e, r) ==
    /\ e.n > 0
    /\ End(e) <= e.total + e.spec
    /\ e.spec > 0 => Samples(e)
    /\ e.kind = "new" => e.total = Prompt[r]

SaneEntries(r) == \A i \in InQueue(r) : Sane(Of(i, r), r)

(* The counters of in-flight and of stale tokens.                          *)
Exact(r) ==
    Live(r) => req[r].inflight = InFlight(r, FALSE) /\ req[r].stale = InFlight(r, TRUE)

Living(r) ==
    Live(r) =>
        /\ Fresh(r) # {} => req[r].status = "running"
        /\ req[r].status = "running" => Stale(r) = {} \/ req[r].drop
        /\ Prompt[r] <= req[r].tokens /\ req[r].tokens < Prompt[r] + limit[r]

(* Its text does not grow while it has entries in the queue ...            *)
Totals(r) == Live(r) => \A i \in InQueue(r) : Of(i, r).total = req[r].tokens

(* ... since the one that makes it grow is its last.                       *)
SamplesLast(r) ==
    Live(r) => \A i \in Valid(r) : Samples(Of(i, r)) => \A k \in InQueue(r) : k <= i

(* The chunks of a life follow each other ...                              *)
Chained(r) ==
    Live(r) =>
        \A i, j \in Fresh(r) :
            i < j /\ (\A k \in Fresh(r) : k <= i \/ j <= k) => Of(j, r).start = End(Of(i, r))

(* ... up to num_computed_tokens.                                          *)
Reaches(r) ==
    Live(r) =>
        \A i \in Fresh(r) : (\A k \in Fresh(r) : k <= i) => req[r].computed = End(Of(i, r))

(* What is left to compute when nothing is in flight.                      *)
Behind(r) ==
    req[r].status = "running" /\ Fresh(r) = {} => req[r].computed < req[r].tokens

(* A new request's first entry is its first.                               *)
NewFirst(r) ==
    \A i, j \in InQueue(r) : Of(j, r).kind = "new" => j <= i

(* The first entry of a later life is not of kind cached.                  *)
FirstKind(r) ==
    \A j \in Fresh(r) : Of(j, r).kind = "cached" /\ Stale(r) # {} => \E l \in Fresh(r) : l < j

Grown(r) ==
    req[r].status = "running" /\ ~Entering(r) /\ Stale(r) # {} => Fresh(r) # {}

-----------------------------------------------------------------------------
(* A request and what the last stage has of it.                            *)

(* Once its first batch has run, at least the scheduler's text.            *)
Knows(r) ==
    Live(r) =>
        \/ req[r].status = "waiting"
        \/ Entering(r) /\ step.entries[r].kind = "new"
        \/ \E j \in InQueue(r) : ~Ran(j) /\ Of(j, r).kind = "new"
        \/ req[r].tokens <= known[r]

(* When it comes to an entry, what WorkerReady says.                       *)
Ready(r) ==
    Live(r) =>
        \A j \in Valid(r) :
            ~Ran(j) /\ Of(j, r).kind = "cached" /\ (\A i \in Valid(r) : i < j => Ran(i)) =>
                /\ known[r] = req[r].tokens
                /\ ~Of(j, r).old => Of(j, r).start <= cached[r]

(* When it has run them all and has sampled nothing that is not delivered, *)
(* what it will be asked for next.                                         *)
Caught(r) ==
    /\ req[r].status = "running" /\ ~Entering(r)
    /\ \A i \in Fresh(r) : Ran(i) /\ ~Samples(Of(i, r))
    => known[r] = req[r].tokens /\ req[r].computed <= cached[r]

(* What an output still to be delivered follows, and what it left behind.  *)
Delivery(r) ==
    Live(r) =>
        \A j \in Valid(r) :
            Ran(j) =>
                /\ Out(j, r).follows = Of(j, r).total
                /\ Out(j, r).count > 0 <=> Samples(Of(j, r))
                /\ Samples(Of(j, r)) =>
                      /\ known[r] = Of(j, r).total + Out(j, r).count
                      /\ Out(j, r).count <= 1 + Of(j, r).spec
                      /\ ~Of(j, r).old =>
                            cached[r] = End(Of(j, r)) - (Of(j, r).spec - (Out(j, r).count - 1))

(* All of it.                                                              *)
Life(r) ==
    /\ OldFirst(r) /\ Unsent(r) /\ SaneEntries(r) /\ Exact(r) /\ Living(r)
    /\ Totals(r) /\ SamplesLast(r) /\ Chained(r) /\ Reaches(r) /\ Behind(r)
    /\ NewFirst(r) /\ FirstKind(r) /\ Grown(r)
    /\ Knows(r) /\ Ready(r) /\ Caught(r) /\ Delivery(r)

-----------------------------------------------------------------------------
(* The step that schedule is building.                                     *)

(* With drafts, nothing that samples is in flight meanwhile.               *)
Alone ==
    NumSpec > 0 /\ InSchedule =>
        \A r \in Requests : Live(r) => \A i \in Fresh(r) : ~Samples(Of(i, r))

(* An entry continues its request, and nothing in flight of it samples.    *)
Continues(e, r) ==
    /\ req[r].status = "running" /\ ~e.old
    /\ e.start = req[r].computed /\ e.total = req[r].tokens
    /\ Sane(e, r)
    /\ \A i \in Fresh(r) : ~Samples(Of(i, r))
    /\ e.kind # "cached" => Fresh(r) = {}
    /\ e.kind = "new" => InQueue(r) = {}

Planned ==
    InSchedule =>
        \A r \in DOMAIN step.entries :
            /\ Continues(step.entries[r], r)
            /\ pc = "running" =>
                  /\ step.entries[r].kind = "cached"
                  /\ \E j \in DOMAIN running : j < step.at /\ running[j] = r

(* The engine never waits for a batch that is not there.                   *)
Waits == pc = "wait" => queue # <<>>

-----------------------------------------------------------------------------
Invariant ==
    /\ TypeOK
    /\ Members
    /\ Progress /\ Outs
    /\ \A r \in Requests : Life(r)
    /\ Alone /\ Planned
    /\ OneDecodeStep
=============================================================================
