---------------------------- MODULE PairExchange ----------------------------
(***************************************************************************)
(* The pair-exchange all-reduce kernels of                                 *)
(* patches/rc3/allreduce/rdna_custom_all_reduce_tp8.cu:                    *)
(*                                                                         *)
(*   rdna3_tp2::push_all_reduce       1 round,  fixed CTA limit            *)
(*   rdna4_tp2::push_all_reduce       1 round,  CTA limit varies with size *)
(*   rdna3_tp4::pairwise_all_reduce   2 rounds, fixed CTA limit            *)
(*   rdna4_tp4::pairwise_all_reduce   2 rounds, CTA limit varies with size *)
(*   rdna3_tp8::butterfly_all_reduce  3 rounds, fixed CTA limit            *)
(*                                                                         *)
(* They share one protocol.  In round k the CTA (block) b of rank r stores *)
(* its partial sums into slot k of its round-k peer's uncached buffer,     *)
(* publishes a counter in the peer's start[b][r] with a release store,     *)
(* spins until the peer has published as much in its own start[b][peer],   *)
(* and adds what the peer stored.  Nothing ever acknowledges that a        *)
(* payload has been read: each call takes one half of the buffer, chosen   *)
(* by the parity of a per-block epoch, and the protocol relies on a peer   *)
(* being at most one call away.                                            *)
(*                                                                         *)
(* A call is one kernel launch.  Its CTAs run concurrently; a rank's next  *)
(* kernel starts when every CTA of the previous one has finished (stream   *)
(* order).  A chunk is the 256 packs one CTA handles in one pass of its    *)
(* grid-stride loop: chunk i belongs to block i % gridDim.x.               *)
(***************************************************************************)
EXTENDS Integers

CONSTANTS
    Rank,        \* ranks 0 .. n-1 of the tensor-parallel group
    Rounds,      \* handshakes per call
    Peer,        \* Peer[k][r]: partner of rank r in round k
    NBlocks,     \* kMaxBlocks: CTAs the Signal block has room for
    NChunks,     \* chunks of the largest message
    GridLimit,   \* GridLimit[n]: block_limit for a message of n chunks
    AdvanceAll,  \* TRUE: advance_epoch also moves the inactive blocks (RDNA4)
    LowerFirst,  \* TRUE: the lower rank's value is the first operand
    MaxCalls,    \* bound: calls explored
    FlagMod,     \* 2^32 for FlagType = uint32_t
    Add(_, _),   \* packed_add of two packs, rounded back to 16 bits
    Input(_, _), \* Input(c, r): what rank r contributes to call c
    Partial,     \* Partial[c][k][r]: the sum r must hold after k rounds
    Zero         \* the bytes hipMemsetAsync leaves in a payload cell

(* Ranks are numbered.  In every round the ranks are paired off, the limit *)
(* is within [1, kMaxBlocks], and where the limit changes with the size    *)
(* (RDNA4) the kernels advance the inactive blocks too.                    *)
ASSUME ConstantAssumption ==
    /\ Rank \subseteq Nat
    /\ Rounds \in Nat \ {0}
    /\ NBlocks \in Nat \ {0}
    /\ NChunks \in Nat \ {0}
    /\ MaxCalls \in Nat
    /\ FlagMod \in Nat \ {0}
    /\ Peer \in [1 .. Rounds -> [Rank -> Rank]]
    /\ \A k \in 1 .. Rounds, r \in Rank : Peer[k][Peer[k][r]] = r
    /\ GridLimit \in [1 .. NChunks -> 1 .. NBlocks]
    /\ AdvanceAll \/ \A m, n \in 1 .. NChunks : GridLimit[m] = GridLimit[n]

VARIABLES
    plan,    \* plan[c]: chunks of call c, the same on every rank
    call,    \* call[r]: calls launched so far on rank r's stream
    pc,      \* pc[r][b]: where CTA b of rank r's kernel is
    round,   \* round[r][b]: the CTA's round
    posted,  \* posted[r][b]: chunks of this round whose stores have not landed
    acc,     \* acc[r][i]: the kernel's own value of chunk i (input, then output)
    buf,     \* buf[r][<<half, slot, i>>]: payload memory of rank r
    start,   \* start[r][b][q]: Signal.start of rank r, written by rank q
    flag,    \* flag[r][b]: Signal.flag
    epoch    \* epoch[r][b]: Signal.epoch

vars == <<plan, call, pc, round, posted, acc, buf, start, flag, epoch>>

Blocks == 0 .. NBlocks - 1
Chunks == 0 .. NChunks - 1
Calls  == 1 .. MaxCalls
Cells  == {0, 1} \X (1 .. Rounds) \X Chunks

-----------------------------------------------------------------------------
(* The message a call carries: its grid, and the chunks of each block.     *)

Least(m, n) == IF m < n THEN m ELSE n

Grid(c)     == Least(GridLimit[plan[c]], plan[c])
Owner(c, i) == i % Grid(c)
Owned(c, b) == {i \in 0 .. plan[c] - 1 : Owner(c, i) = b}

(* Bug: every rank adds its own value first, whoever is lower.             *)
CombineOwnFirst(r, k, own, theirs) == Add(own, theirs)

(* The operand order of packed_add.  The two-rank push kernels add the     *)
(* peer's value to their own; the other kernels order by rank.             *)
Combine(r, k, own, theirs) ==
    IF LowerFirst /\ Peer[k][r] < r THEN Add(theirs, own) ELSE Add(own, theirs)

(* Bug: only the blocks of this grid advance.                              *)
AdvanceEpochLocal(e, b, g) == [e EXCEPT ![b] = @ + 1]

(* Partial is the sum this operand order gives: the input before round 1,  *)
(* and one addition per round.                                             *)
ASSUME PartialAssumption ==
    \A c \in Calls, r \in Rank :
        /\ Partial[c][0][r] = Input(c, r)
        /\ \A k \in 1 .. Rounds :
             Partial[c][k][r] =
                 Combine(r, k, Partial[c][k - 1][r], Partial[c][k - 1][Peer[k][r]])

(* The partners are rank ^ mask: the masks commute, and together reach     *)
(* every rank.                                                             *)
ASSUME MaskAssumption ==
    /\ 0 \in Rank
    /\ \A j, k \in 1 .. Rounds, r \in Rank : Peer[j][Peer[k][r]] = Peer[k][Peer[j][r]]
    /\ \A S \in SUBSET Rank :
          S # {} /\ (\A k \in 1 .. Rounds, r \in S : Peer[k][r] \in S) => S = Rank

(* A pair of ranks obtains one sum: both add the lower rank's value first, *)
(* and so do the ranks that hold the same values as they, or the order     *)
(* does not matter.                                                        *)
LowersAgree ==
    /\ LowerFirst
    /\ \A k \in 1 .. Rounds : \A j \in 1 .. k - 1, r \in Rank :
          Peer[k][r] < r <=> Peer[k][Peer[j][r]] < Peer[j][r]

Commutes ==
    \A c \in Calls, k \in 1 .. Rounds, r \in Rank :
        LET own    == Partial[c][k - 1][r]
            theirs == Partial[c][k - 1][Peer[k][r]]
        IN  Add(own, theirs) = Add(theirs, own)

ASSUME SumAssumption == LowersAgree \/ Commutes

(* The epochs rank r's memory holds after block b retires from a call with *)
(* grid g.                                                                 *)
AdvanceEpoch(e, b, g) ==
    [x \in Blocks |->
        IF x = b \/ (AdvanceAll /\ b = 0 /\ x >= g) THEN e[b] + 1 ELSE e[x]]

PeerOf(r, b) == Peer[round[r][b]][r]
Half(r, b)   == epoch[r][b] % 2

(* The counter the handshake publishes and waits for.                      *)
Expected(r, b) == (flag[r][b] + 1) % FlagMod

-----------------------------------------------------------------------------

Init ==
    /\ plan \in [Calls -> 1 .. NChunks]
    /\ call = [r \in Rank |-> 0]
    /\ pc = [r \in Rank |-> [b \in Blocks |-> "idle"]]
    /\ round = [r \in Rank |-> [b \in Blocks |-> 1]]
    /\ posted = [r \in Rank |-> [b \in Blocks |-> {}]]
    /\ acc = [r \in Rank |-> [i \in Chunks |-> Zero]]
    /\ buf = [r \in Rank |-> [x \in Cells |-> Zero]]
    /\ start = [r \in Rank |-> [b \in Blocks |-> [q \in Rank |-> 0]]]
    /\ flag = [r \in Rank |-> [b \in Blocks |-> 0]]
    /\ epoch = [r \in Rank |-> [b \in Blocks |-> 0]]

(* The next kernel of rank r's stream starts: gridDim.x CTAs begin round 1 *)
(* with the input as their partial sum.                                    *)
Launch(r) ==
    /\ \A b \in Blocks : pc[r][b] = "idle"
    /\ call[r] < MaxCalls
    /\ call' = [call EXCEPT ![r] = @ + 1]
    /\ LET c == call[r] + 1 IN
       /\ pc' = [pc EXCEPT ![r] =
                   [b \in Blocks |-> IF b < Grid(c) THEN "push" ELSE "idle"]]
       /\ posted' = [posted EXCEPT ![r] = [b \in Blocks |-> Owned(c, b)]]
       /\ acc' = [acc EXCEPT ![r] =
                   [i \in Chunks |-> IF i < plan[c] THEN Input(c, r) ELSE @[i]]]
    /\ round' = [round EXCEPT ![r] = [b \in Blocks |-> 1]]
    /\ UNCHANGED <<plan, buf, start, flag, epoch>>

(* One posted non-temporal store of the push loop lands in the peer's      *)
(* memory; the stores of a CTA land in any order.                          *)
Store(r, b, i) ==
    /\ pc[r][b] = "push"
    /\ i \in posted[r][b]
    /\ buf' = [buf EXCEPT ![PeerOf(r, b)][<<Half(r, b), round[r][b], i>>] =
                 acc[r][i]]
    /\ posted' = [posted EXCEPT ![r][b] = @ \ {i}]
    /\ UNCHANGED <<plan, call, pc, round, acc, start, flag, epoch>>

(* Bug: a relaxed store, not ordered after the CTA's payload stores.       *)
SignalRelaxed(r, b) ==
    /\ pc[r][b] = "push"
    /\ start' = [start EXCEPT ![PeerOf(r, b)][b][r] = Expected(r, b)]
    /\ pc' = [pc EXCEPT ![r][b] = "wait"]
    /\ UNCHANGED <<plan, call, round, posted, acc, buf, flag, epoch>>

(* Bug: the counter goes to the rank's own start array.                    *)
SignalOwn(r, b) ==
    /\ pc[r][b] = "push"
    /\ posted[r][b] = {}
    /\ start' = [start EXCEPT ![r][b][r] = Expected(r, b)]
    /\ pc' = [pc EXCEPT ![r][b] = "wait"]
    /\ UNCHANGED <<plan, call, round, posted, acc, buf, flag, epoch>>

(* Thread 0's release store: ordered after every store of the CTA.         *)
Signal(r, b) ==
    /\ pc[r][b] = "push"
    /\ posted[r][b] = {}
    /\ start' = [start EXCEPT ![PeerOf(r, b)][b][r] = Expected(r, b)]
    /\ pc' = [pc EXCEPT ![r][b] = "wait"]
    /\ UNCHANGED <<plan, call, round, posted, acc, buf, flag, epoch>>

(* Bug: the loop compares with the counter already reached.                *)
WaitOffByOne(r, b) ==
    /\ pc[r][b] = "wait"
    /\ ~ (start[r][b][PeerOf(r, b)] < flag[r][b])
    /\ flag' = [flag EXCEPT ![r][b] = Expected(r, b)]
    /\ pc' = [pc EXCEPT ![r][b] = "reduce"]
    /\ UNCHANGED <<plan, call, round, posted, acc, buf, start, epoch>>

(* The acquire loop ends, and the new counter is published to the CTA.     *)
Wait(r, b) ==
    /\ pc[r][b] = "wait"
    /\ ~ (start[r][b][PeerOf(r, b)] < Expected(r, b))
    /\ flag' = [flag EXCEPT ![r][b] = Expected(r, b)]
    /\ pc' = [pc EXCEPT ![r][b] = "reduce"]
    /\ UNCHANGED <<plan, call, round, posted, acc, buf, start, epoch>>

(* acc with the peer's payload added in the chunks CTA b owns.             *)
Reduced(r, b) ==
    [i \in Chunks |->
        IF i \in Owned(call[r], b)
        THEN Combine(r, round[r][b], acc[r][i],
                     buf[r][<<Half(r, b), round[r][b], i>>])
        ELSE acc[r][i]]

(* A round that is not the last: reduce, then push to the next peer.       *)
Reduce(r, b) ==
    /\ pc[r][b] = "reduce"
    /\ round[r][b] < Rounds
    /\ acc' = [acc EXCEPT ![r] = Reduced(r, b)]
    /\ round' = [round EXCEPT ![r][b] = @ + 1]
    /\ posted' = [posted EXCEPT ![r][b] = Owned(call[r], b)]
    /\ pc' = [pc EXCEPT ![r][b] = "push"]
    /\ UNCHANGED <<plan, call, buf, start, flag, epoch>>

(* The last round: reduce, advance the epoch, and the CTA exits.           *)
Retire(r, b) ==
    /\ pc[r][b] = "reduce"
    /\ round[r][b] = Rounds
    /\ acc' = [acc EXCEPT ![r] = Reduced(r, b)]
    /\ epoch' = [epoch EXCEPT ![r] = AdvanceEpoch(@, b, Grid(call[r]))]
    /\ pc' = [pc EXCEPT ![r][b] = "idle"]
    /\ UNCHANGED <<plan, call, round, posted, buf, start, flag>>

Cta(r, b) == \/ \E i \in Chunks : Store(r, b, i)
             \/ Signal(r, b)
             \/ Wait(r, b)
             \/ Reduce(r, b)
             \/ Retire(r, b)

Finished(r) == call[r] = MaxCalls /\ \A b \in Blocks : pc[r][b] = "idle"

(* Every call of the plan has completed everywhere.                        *)
Terminated == (\A r \in Rank : Finished(r)) /\ UNCHANGED vars

Next == \/ \E r \in Rank : Launch(r) \/ \E b \in Blocks : Cta(r, b)
        \/ Terminated

(* A stream starts its next kernel, and a resident CTA keeps running: every *)
(* CTA of a grid of at most 24 fits the GPU at once, so each is scheduled. *)
Fairness == \A r \in Rank : /\ WF_vars(Launch(r))
                            /\ \A b \in Blocks : WF_vars(Cta(r, b))

Spec == Init /\ [][Next]_vars
FairSpec == Spec /\ Fairness

-----------------------------------------------------------------------------
(* Properties.                                                             *)

TypeOK ==
    /\ plan \in [Calls -> 1 .. NChunks]
    /\ call \in [Rank -> 0 .. MaxCalls]
    /\ pc \in [Rank -> [Blocks -> {"idle", "push", "wait", "reduce"}]]
    /\ round \in [Rank -> [Blocks -> 1 .. Rounds]]
    /\ posted \in [Rank -> [Blocks -> SUBSET Chunks]]
    /\ DOMAIN acc = Rank /\ \A r \in Rank : DOMAIN acc[r] = Chunks
    /\ DOMAIN buf = Rank /\ \A r \in Rank : DOMAIN buf[r] = Cells
    /\ start \in [Rank -> [Blocks -> [Rank -> Nat]]]
    /\ flag \in [Rank -> [Blocks -> Nat]]
    /\ epoch \in [Rank -> [Blocks -> Nat]]

(* Rank p has still to read, in its current call, chunk i of slot k.       *)
Awaits(p, k, i) ==
    /\ call[p] > 0
    /\ i < plan[call[p]]
    /\ LET o == Owner(call[p], i) IN pc[p][o] # "idle" /\ round[p][o] <= k

(* A store about to land never hits a payload of another call that its     *)
(* owner has still to read: the two buffer halves are enough, although     *)
(* nobody acknowledges a read.                                             *)
NoOverwrite ==
    \A r \in Rank, b \in Blocks : pc[r][b] = "push" =>
        \A i \in posted[r][b] :
            LET p == PeerOf(r, b)
                k == round[r][b]
            IN  /\ Awaits(p, k, i)
                /\ Half(p, Owner(call[p], i)) = Half(r, b)
                => call[p] = call[r]

(* When the handshake lets a CTA reduce, each of its chunks holds the      *)
(* partner's partial sum of this very call and round: no stale payload, no *)
(* payload of a later call, nothing still in flight.                       *)
FreshPayload ==
    \A r \in Rank, b \in Blocks : pc[r][b] = "reduce" =>
        \A i \in Owned(call[r], b) :
            buf[r][<<Half(r, b), round[r][b], i>>] =
                Partial[call[r]][round[r][b] - 1][PeerOf(r, b)]

(* Partners are never more than one kernel apart: what two buffer halves   *)
(* rest on.                                                                *)
PeersAdjacent ==
    \A r \in Rank, k \in 1 .. Rounds : call[r] <= call[Peer[k][r]] + 1

(* "Keep every CTA on the same invocation epoch even when shape tuning     *)
(* changes the grid size": between kernels of an RDNA4 rank every block's  *)
(* epoch counts the calls, the blocks that sat calls out included.         *)
UniformEpoch ==
    AdvanceAll =>
        \A r \in Rank : (\A b \in Blocks : pc[r][b] = "idle") =>
            \A b \in Blocks : epoch[r][b] = call[r]

(* The kernels implement the in-order all-reduce: a kernel finishes on a   *)
(* rank only when every rank has launched it, and then every chunk of the  *)
(* output is the one value all ranks obtain.                               *)
Idle(r) == \A b \in Blocks : pc[r][b] = "idle"

Output(r) == IF call[r] > 0 /\ Idle(r)
             THEN {acc[r][i] : i \in 0 .. plan[call[r]] - 1}
             ELSE {}

AR == INSTANCE AllReduce WITH
        entered  <- call,
        returned <- [r \in Rank |-> IF Idle(r) THEN call[r] ELSE call[r] - 1],
        result   <- [r \in Rank |-> Output(r)],
        Total    <- [c \in Calls |-> {Partial[c][Rounds][0]}],
        NoResult <- {}

Implements == AR!Spec

(* Every rank gets through every call: no handshake waits for ever.        *)
AllCallsReturn == <>(\A r \in Rank : Finished(r))
=============================================================================
