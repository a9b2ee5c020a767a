------------------------------ MODULE Rdna4Tp4 ------------------------------
(***************************************************************************)
(* rdna4_tp4 of patches/rc3/allreduce/rdna_custom_all_reduce_tp8.cu: the   *)
(* three four-rank kernels launch() chooses between by message size.       *)
(*                                                                         *)
(*   oneshot_all_reduce    1 step   push to all, wait for all              *)
(*   pairwise_all_reduce   2 steps  exchange with rank ^ pair_mask, then   *)
(*                                  with rank ^ cross_mask                 *)
(*   bulk_ring_all_reduce  6 steps  push to the successor, wait for the    *)
(*                                  predecessor                            *)
(*                                                                         *)
(* PairExchange has one kernel repeated; here successive calls mix the     *)
(* three, on the same Signal block and the same two buffer halves.  The    *)
(* counters, the epochs and the owner of each payload address must stay in *)
(* agreement across kernels that synchronise different ranks, use          *)
(* different grids and take 1, 2 or 6 handshakes.                          *)
(*                                                                         *)
(* Deliver is the release store of one counter together with the payload   *)
(* stores it is ordered after: nobody may read those cells before the      *)
(* counter arrives, which is what NoOverwrite says of every cell a CTA has *)
(* still to deliver.  PairExchange has the stores one by one.  Counters    *)
(* are unbounded here; PairExchange has their width.                       *)
(***************************************************************************)
EXTENDS Integers

CONSTANTS
    Pair,          \* Pair[r]  = r ^ pair_mask
    Cross,         \* Cross[r] = r ^ cross_mask
    NBlocks,       \* kMaxBlocks: CTAs the Signal block has room for
    NChunks,       \* chunks of the largest message
    OneshotMax,    \* kOneshotMaxNumel in chunks
    BulkThreshold, \* kBulkRingThreshold in chunks
    BlockLimit,    \* BlockLimit[n]: block_limit for a message of n chunks
    Plans,         \* the call sequences explored: sizes of the calls, in chunks
    MaxCalls,      \* bound: calls explored
    Add(_, _),     \* packed_add of two packs, rounded back to 16 bits
    Input(_, _, _),\* Input(c, r, i): chunk i of rank r's input to call c
    Zero           \* the bytes hipMemsetAsync leaves in a payload cell

Rank   == 0 .. 3
Blocks == 0 .. NBlocks - 1
Chunks == 0 .. NChunks - 1
Calls  == 1 .. MaxCalls
Cells  == {0, 1} \X (0 .. 5) \X Chunks

(* pair_masks(): distinct masks in [1, 3], so each pairs the ranks off.    *)
ASSUME MaskAssumption ==
    \A r \in Rank : /\ Pair[r] \in Rank /\ Pair[Pair[r]] = r
                    /\ Cross[r] \in Rank /\ Cross[Cross[r]] = r
                    /\ r # Pair[r] /\ r # Cross[r] /\ Pair[r] # Cross[r]

ASSUME SizeAssumption ==
    /\ NBlocks \in Nat \ {0} /\ NChunks \in Nat \ {0} /\ MaxCalls \in Nat
    /\ BlockLimit \in [1 .. NChunks -> 1 .. NBlocks]
    /\ Plans \subseteq [Calls -> 1 .. NChunks]

(* What a rank and its pair partner make of their inputs to chunk i.       *)
PairTotal(c, r, i) ==
    IF r < Pair[r] THEN Add(Input(c, r, i), Input(c, Pair[r], i))
                   ELSE Add(Input(c, Pair[r], i), Input(c, r, i))

(* The pairs add their sums with the lower rank's first.  With the default *)
(* masks 1 and 3 the four ranks then agree on the order; with others (3    *)
(* and 1) they need packed_add to commute, as the sum of two floats does.  *)
ASSUME SumAssumption ==
    \/ Pair[0] < Cross[Pair[0]]
    \/ \A c \in Calls, i \in Chunks :
          Add(PairTotal(c, 0, i), PairTotal(c, Cross[0], i))
            = Add(PairTotal(c, Cross[0], i), PairTotal(c, 0, i))

VARIABLES
    plan,   \* plan[c]: chunks of call c, the same on every rank
    call,   \* call[r]: calls launched so far on rank r's stream
    pc,     \* pc[r][b]: where CTA b of rank r's kernel is
    step,   \* step[r][b]: the CTA's step
    owing,  \* owing[r][b]: ranks this step's payload and counter have not reached
    acc,    \* acc[r][i]: the kernel's own value of chunk i (input, then output)
    buf,    \* buf[r][<<half, slot, i>>]: payload memory of rank r
    start,  \* start[r][b][q]: Signal.start of rank r, written by rank q
    flag,   \* flag[r][b]: Signal.flag
    epoch   \* epoch[r][b]: Signal.epoch

vars == <<plan, call, pc, step, owing, acc, buf, start, flag, epoch>>

-----------------------------------------------------------------------------
(* launch(): the kernel and the grid of a call.                            *)

Alg(c) == IF plan[c] > BulkThreshold THEN "ring"
          ELSE IF plan[c] > OneshotMax THEN "pairwise" ELSE "oneshot"

Steps(c) == CASE Alg(c) = "oneshot"  -> 1
              [] Alg(c) = "pairwise" -> 2
              [] Alg(c) = "ring"     -> 6

Least(m, n) == IF m < n THEN m ELSE n

Grid(c) == CASE Alg(c) = "oneshot"  -> 1
             [] Alg(c) = "pairwise" -> Least(BlockLimit[plan[c]], plan[c])
             [] Alg(c) = "ring"     -> BlockLimit[plan[c]]

(* The CTA that handles chunk i.  A ring tile is four chunks, one for each *)
(* position of the ring.                                                   *)
Owner(c, i) == (IF Alg(c) = "ring" THEN i \div 4 ELSE i) % Grid(c)

Owned(c, b) == {i \in 0 .. plan[c] - 1 : Owner(c, i) = b}

(* The ring: position 0 is rank 0; even positions reach the next one by    *)
(* the pair mask, odd ones by the cross mask.                              *)
Position(r) == IF r = 0 THEN 0
               ELSE IF r = Pair[0] THEN 1
               ELSE IF r = Cross[0] THEN 3 ELSE 2

RingNext(r)     == IF Position(r) % 2 = 0 THEN Pair[r] ELSE Cross[r]
RingPrevious(r) == IF Position(r) % 2 = 0 THEN Cross[r] ELSE Pair[r]

Exchange(r, k) == IF k = 1 THEN Pair[r] ELSE Cross[r]

(* Whom rank r delivers step k of call c to, and whom it waits for.        *)
Targets(r, c, k) ==
    CASE Alg(c) = "oneshot"  -> Rank \ {r}
      [] Alg(c) = "pairwise" -> {Exchange(r, k)}
      [] Alg(c) = "ring"     -> {RingNext(r)}

(* Bug: the ring barrier waits for the rank it has just notified.          *)
SourcesNext(r, c, k) == Targets(r, c, k)

Sources(r, c, k) ==
    CASE Alg(c) = "oneshot"  -> Rank \ {r}
      [] Alg(c) = "pairwise" -> {Exchange(r, k)}
      [] Alg(c) = "ring"     -> {RingPrevious(r)}

(* Bug: every ring step uses slot 4.                                       *)
SlotRingShared(r, c, k) ==
    CASE Alg(c) = "oneshot"  -> r
      [] Alg(c) = "pairwise" -> k - 1
      [] Alg(c) = "ring"     -> 4

(* The slot of its targets' memory rank r writes in step k.                *)
Slot(r, c, k) == CASE Alg(c) = "oneshot"  -> r
                   [] Alg(c) = "pairwise" -> k - 1
                   [] Alg(c) = "ring"     -> 4 + (k - 1) \div 4

(* The chunks rank r sends in step k: in the ring, the quarter of its      *)
(* position first, and then at each step the one just received.            *)
Quarter(r, c, k) ==
    IF Alg(c) = "ring"
    THEN {i \in 0 .. plan[c] - 1 : i % 4 = (Position(r) + 8 - (k - 1)) % 4}
    ELSE 0 .. plan[c] - 1

Half(r, b) == epoch[r][b] % 2

Expected(r, b) == flag[r][b] + 1

(* Bug: only the blocks of this grid advance.                              *)
AdvanceEpochLocal(e, b, g) == [e EXCEPT ![b] = @ + 1]

AdvanceEpoch(e, b, g) ==
    [x \in Blocks |-> IF x = b \/ (b = 0 /\ x >= g) THEN e[b] + 1 ELSE e[x]]

Idle(r) == \A b \in Blocks : pc[r][b] = "idle"

-----------------------------------------------------------------------------
Init ==
    /\ plan \in Plans
    /\ call = [r \in Rank |-> 0]
    /\ pc = [r \in Rank |-> [b \in Blocks |-> "idle"]]
    /\ step = [r \in Rank |-> [b \in Blocks |-> 1]]
    /\ owing = [r \in Rank |-> [b \in Blocks |-> {}]]
    /\ acc = [r \in Rank |-> [i \in Chunks |-> Zero]]
    /\ buf = [r \in Rank |-> [x \in Cells |-> Zero]]
    /\ start = [r \in Rank |-> [b \in Blocks |-> [q \in Rank |-> 0]]]
    /\ flag = [r \in Rank |-> [b \in Blocks |-> 0]]
    /\ epoch = [r \in Rank |-> [b \in Blocks |-> 0]]

(* The next kernel of rank r's stream starts.                              *)
Launch(r) ==
    /\ Idle(r)
    /\ call[r] < MaxCalls
    /\ call' = [call EXCEPT ![r] = @ + 1]
    /\ LET c == call[r] + 1 IN
       /\ pc' = [pc EXCEPT ![r] =
                   [b \in Blocks |-> IF b < Grid(c) THEN "push" ELSE "idle"]]
       /\ owing' = [owing EXCEPT ![r] =
                   [b \in Blocks |-> IF b < Grid(c) THEN Targets(r, c, 1) ELSE {}]]
       /\ acc' = [acc EXCEPT ![r] =
                   [i \in Chunks |-> IF i < plan[c] THEN Input(c, r, i) ELSE @[i]]]
    /\ step' = [step EXCEPT ![r] = [b \in Blocks |-> 1]]
    /\ UNCHANGED <<plan, buf, start, flag, epoch>>

(* CTA b's payload for rank q, and then its counter, arrive at q.  The     *)
(* one-shot barrier has a thread per rank, in any order.  (The thread that *)
(* would notify its own rank waits for what it has just stored.)           *)
Deliver(r, b, q) ==
    LET c == call[r]
        k == step[r][b]
    IN
    /\ pc[r][b] = "push"
    /\ q \in owing[r][b]
    /\ buf' = [buf EXCEPT ![q] =
          [x \in Cells |->
             IF /\ x[1] = Half(r, b) /\ x[2] = Slot(r, c, k)
                /\ x[3] \in Owned(c, b) \cap Quarter(r, c, k)
             THEN acc[r][x[3]] ELSE @[x]]]
    /\ start' = [start EXCEPT ![q][b][r] = Expected(r, b)]
    /\ owing' = [owing EXCEPT ![r][b] = @ \ {q}]
    /\ pc' = [pc EXCEPT ![r][b] = IF owing[r][b] = {q} THEN "wait" ELSE "push"]
    /\ UNCHANGED <<plan, call, step, acc, flag, epoch>>

(* The acquire loops end, and the new counter is published to the CTA.     *)
Wait(r, b) ==
    /\ pc[r][b] = "wait"
    /\ \A q \in Sources(r, call[r], step[r][b]) : ~ (start[r][b][q] < Expected(r, b))
    /\ flag' = [flag EXCEPT ![r][b] = Expected(r, b)]
    /\ pc' = [pc EXCEPT ![r][b] = "reduce"]
    /\ UNCHANGED <<plan, call, step, owing, acc, buf, start, epoch>>

(* Bug: a rank's own input comes first.                                    *)
OneshotSumOwnFirst(r, h, i) ==
    LET From(q) == buf[r][<<h, (r + q) % 4, i>>]
    IN  Add(Add(Add(acc[r][i], From(1)), From(2)), From(3))

(* What a step makes of chunk i.  One-shot adds the four inputs in rank    *)
(* order, its own included.  A ring step takes the received quarter: it    *)
(* adds its own input to the first three and passes the rest on.           *)
OneshotSum(r, h, i) ==
    LET From(q) == IF q = r THEN acc[r][i] ELSE buf[r][<<h, q, i>>]
    IN  Add(Add(Add(From(0), From(1)), From(2)), From(3))

PairSum(r, h, k, i) ==
    LET theirs == buf[r][<<h, k - 1, i>>]
    IN  IF r < Exchange(r, k) THEN Add(acc[r][i], theirs) ELSE Add(theirs, acc[r][i])

RingValue(r, h, k, i) ==
    LET received == buf[r][<<h, 4 + (k - 1) \div 4, i>>]
    IN  IF k <= 3 THEN Add(received, acc[r][i]) ELSE received

Received(r, c, k) == IF Alg(c) = "ring" THEN Quarter(r, c, k + 1)
                     ELSE 0 .. plan[c] - 1

Reduced(r, b) ==
    LET c == call[r]
        k == step[r][b]
        h == Half(r, b)
    IN  [i \in Chunks |->
            IF i \in Owned(c, b) \cap Received(r, c, k)
            THEN CASE Alg(c) = "oneshot"  -> OneshotSum(r, h, i)
                   [] Alg(c) = "pairwise" -> PairSum(r, h, k, i)
                   [] Alg(c) = "ring"     -> RingValue(r, h, k, i)
            ELSE acc[r][i]]

(* A step that is not the last: reduce, then push to the next target.      *)
Reduce(r, b) ==
    /\ pc[r][b] = "reduce"
    /\ step[r][b] < Steps(call[r])
    /\ acc' = [acc EXCEPT ![r] = Reduced(r, b)]
    /\ step' = [step EXCEPT ![r][b] = @ + 1]
    /\ owing' = [owing EXCEPT ![r][b] = Targets(r, call[r], step[r][b] + 1)]
    /\ pc' = [pc EXCEPT ![r][b] = "push"]
    /\ UNCHANGED <<plan, call, buf, start, flag, epoch>>

(* The last step: reduce, advance the epoch, and the CTA exits.            *)
Retire(r, b) ==
    /\ pc[r][b] = "reduce"
    /\ step[r][b] = Steps(call[r])
    /\ acc' = [acc EXCEPT ![r] = Reduced(r, b)]
    /\ epoch' = [epoch EXCEPT ![r] = AdvanceEpoch(@, b, Grid(call[r]))]
    /\ pc' = [pc EXCEPT ![r][b] = "idle"]
    /\ UNCHANGED <<plan, call, step, owing, buf, start, flag>>

Cta(r, b) == \/ \E q \in Rank : Deliver(r, b, q)
             \/ Wait(r, b)
             \/ Reduce(r, b)
             \/ Retire(r, b)

Finished(r) == call[r] = MaxCalls /\ Idle(r)
Terminated == (\A r \in Rank : Finished(r)) /\ UNCHANGED vars

Step == \E r \in Rank : Launch(r) \/ \E b \in Blocks : Cta(r, b)

Next == Step \/ Terminated

(* Some stream or resident CTA that can go on does: less than the GPUs     *)
(* give, which run each of them.                                           *)
Fairness == WF_vars(Step)

Spec == Init /\ [][Next]_vars
FairSpec == Spec /\ Fairness

-----------------------------------------------------------------------------
(* Properties.                                                             *)

(* Rank p has still to read cell <<h, s, i>> at step k of its current call. *)
Awaits(p, k, h, s, i) ==
    LET o == Owner(call[p], i) IN
    /\ pc[p][o] # "idle" /\ step[p][o] <= k /\ Half(p, o) = h
    /\ i \in Received(p, call[p], k)
    /\ \E q \in Sources(p, call[p], k) : s = Slot(q, call[p], k)

(* A delivery under way only writes cells its target reads next for this   *)
(* very step: it never hits a payload of an earlier call, of another       *)
(* kernel, or of another ring step that is still to be read, although      *)
(* nobody acknowledges a read and not all ranks synchronise.               *)
NoOverwrite ==
    \A r \in Rank, b \in Blocks : \A q \in owing[r][b] :
        ~ Idle(q) =>
        \A i \in Owned(call[r], b) \cap Quarter(r, call[r], step[r][b]) :
            \A k \in 1 .. Steps(call[q]) :
                Awaits(q, k, Half(r, b), Slot(r, call[r], step[r][b]), i)
                    => call[q] = call[r] /\ k = step[r][b]

(* The sum of chunk i of call c: in rank order, by pairs, or along the     *)
(* ring from the position the chunk starts at (the first n of its links).  *)
At(p) == CHOOSE r \in Rank : Position(r) = p % 4

RingTotal(c, i, n) ==
    LET Link(m) == Input(c, At(i + m), i)
        Two     == Add(Link(0), Link(1))
        Three   == Add(Two, Link(2))
    IN  CASE n = 1 -> Link(0)
          [] n = 2 -> Two
          [] n = 3 -> Three
          [] n = 4 -> Add(Three, Link(3))

TotalOf(c, i) ==
    CASE Alg(c) = "oneshot" ->
           Add(Add(Add(Input(c, 0, i), Input(c, 1, i)), Input(c, 2, i)), Input(c, 3, i))
      [] Alg(c) = "pairwise" -> Add(PairTotal(c, 0, i), PairTotal(c, Cross[0], i))
      [] Alg(c) = "ring" -> RingTotal(c, i, 4)

(* Two ranks between the same two calls agree on every counter and every   *)
(* epoch, although the calls gave their blocks different numbers of        *)
(* handshakes: what makes the next kernel's comparisons meaningful.        *)
Lockstep ==
    \A r, q \in Rank : call[r] = call[q] /\ Idle(r) /\ Idle(q) =>
        /\ flag[r] = flag[q]
        /\ \A b \in Blocks : epoch[r][b] = call[r]

(* The three kernels, in any order, implement one in-order all-reduce: a   *)
(* call returns on a rank only when every rank has entered it, and every   *)
(* rank obtains the sum of that call, added in the same order.  The sum of *)
(* call c is named by c: an output that is not TotalOf(c) names no call.   *)
Output(r) ==
    IF call[r] = 0 \/ ~ Idle(r) THEN {}
    ELSE {IF acc[r][i] = TotalOf(call[r], i) THEN call[r] ELSE 0 :
             i \in 0 .. plan[call[r]] - 1}

AR == INSTANCE AllReduce WITH
        entered  <- call,
        returned <- [r \in Rank |-> IF Idle(r) THEN call[r] ELSE call[r] - 1],
        result   <- [r \in Rank |-> Output(r)],
        Total    <- [c \in Calls |-> {c}],
        NoResult <- {}

Implements == AR!Spec

(* Every rank gets through every call of a mixed sequence.                 *)
AllCallsReturn == <>(\A r \in Rank : Finished(r))
=============================================================================
