---------------------------- MODULE Rdna4Tp4Inv ----------------------------
(***************************************************************************)
(* The inductive invariant of Rdna4Tp4.                                    *)
(*                                                                         *)
(* The argument.  Ranks in the same call began it with the same counters,  *)
(* block by block, whatever kernels came before, and a rank one call ahead *)
(* began with the counters the others will end theirs with (FlagSync).  So *)
(* a counter that lets a rank pass a wait was published in this very call, *)
(* by a rank that had begun that step (Handshake).  Every kernel ties all  *)
(* four ranks together by such waits, so a rank that ends a call knows     *)
(* that everybody has begun it: calls differ by one at most (Adjacent),    *)
(* and then halves chosen by the parity of the epoch are enough (Epochs).  *)
(*                                                                         *)
(* The data (DataInv).  A counter leaves with its payload, so whoever has  *)
(* passed a wait has been delivered what it reads (Arrived), the cell it   *)
(* reads holds what the sender had after the step before, until it has     *)
(* read it (Payload), and so each step makes of a chunk what the algorithm *)
(* says (Sums).                                                            *)
(***************************************************************************)
EXTENDS Rdna4Tp4

TypeOK ==
    /\ plan \in [Calls -> 1 .. NChunks]
    /\ call \in [Rank -> 0 .. MaxCalls]
    /\ pc \in [Rank -> [Blocks -> {"idle", "push", "wait", "reduce"}]]
    /\ step \in [Rank -> [Blocks -> 1 .. 6]]
    /\ owing \in [Rank -> [Blocks -> SUBSET Rank]]
    /\ start \in [Rank -> [Blocks -> [Rank -> Nat]]]
    /\ flag \in [Rank -> [Blocks -> Nat]]
    /\ epoch \in [Rank -> [Blocks -> Nat]]

(* Block b takes part in the call rank r launched last.                    *)
Active(r, b) == call[r] > 0 /\ b < Grid(call[r])

(* Where a CTA may be.                                                     *)
Shape ==
    \A r \in Rank, b \in Blocks :
        pc[r][b] # "idle" =>
            /\ Active(r, b) /\ step[r][b] <= Steps(call[r])
            /\ owing[r][b] \subseteq Targets(r, call[r], step[r][b])

(* Only a CTA that is pushing owes anything.                               *)
Quiet == \A r \in Rank, b \in Blocks : pc[r][b] # "push" => owing[r][b] = {}

(* The waits it has passed in this call, and those there are.              *)
Passed(r, b) ==
    IF ~ Active(r, b) THEN 0
    ELSE IF pc[r][b] = "idle" THEN Steps(call[r])
    ELSE IF pc[r][b] = "reduce" THEN step[r][b] ELSE step[r][b] - 1

Waits(r, b) == IF Active(r, b) THEN Steps(call[r]) ELSE 0

(* It publishes a counter before it keeps it.                              *)
Publishing(r, b) == IF pc[r][b] \in {"push", "wait"} THEN 1 ELSE 0

StartBound ==
    \A r, q \in Rank, b \in Blocks :
        start[q][b][r] <= flag[r][b] + Publishing(r, b)

(* The counters a call began and will end with.                            *)
Began(r, b) == flag[r][b] - Passed(r, b)
Ends(r, b)  == Began(r, b) + Waits(r, b)

FlagSync ==
    \A r, q \in Rank, b \in Blocks :
        /\ call[r] = call[q] => Began(r, b) = Began(q, b)
        /\ call[r] = call[q] + 1 => Began(r, b) = Ends(q, b)

(* Behind each wait is a rank that has begun that step of that call.       *)
Handshake ==
    \A r \in Rank, b \in Blocks : \A k \in 1 .. Passed(r, b) :
        \A q \in Sources(r, call[r], k) :
            \/ call[q] > call[r]
            \/ call[q] = call[r] /\ Passed(q, b) >= k - 1

Adjacent == \A r, q \in Rank : call[r] <= call[q] + 1

(* The CTA that advances the epoch of block b in this call, and the epoch. *)
Lead(r, b) == IF Active(r, b) THEN b ELSE 0

Epochs ==
    \A r \in Rank, b \in Blocks :
        epoch[r][b] = IF pc[r][Lead(r, b)] = "idle" THEN call[r] ELSE call[r] - 1

IInv == /\ TypeOK /\ Shape /\ Quiet /\ StartBound /\ FlagSync
        /\ Handshake /\ Adjacent /\ Epochs

-----------------------------------------------------------------------------
(* Chunk i of rank r after k steps of call c.  In the ring, Distance is    *)
(* how far rank r is from the position the chunk starts at.                *)
Distance(r, i) == (Position(r) + 4 - (i % 4)) % 4

RingAfter(c, r, i, k) ==
    LET d == Distance(r, i) IN
    IF k >= d + 4 THEN RingTotal(c, i, 4)
    ELSE IF k >= d THEN RingTotal(c, i, d + 1) ELSE Input(c, r, i)

CrossTotal(c, r, i) ==
    IF r < Cross[r] THEN Add(PairTotal(c, r, i), PairTotal(c, Cross[r], i))
                    ELSE Add(PairTotal(c, Cross[r], i), PairTotal(c, r, i))

Value(c, r, i, k) ==
    CASE Alg(c) = "oneshot"  -> IF k = 0 THEN Input(c, r, i) ELSE TotalOf(c, i)
      [] Alg(c) = "pairwise" -> IF k = 0 THEN Input(c, r, i)
                                ELSE IF k = 1 THEN PairTotal(c, r, i)
                                ELSE CrossTotal(c, r, i)
      [] Alg(c) = "ring"     -> RingAfter(c, r, i, k)

DataTypes == /\ DOMAIN acc = Rank /\ DOMAIN buf = Rank
             /\ \A r \in Rank : DOMAIN acc[r] = Chunks /\ DOMAIN buf[r] = Cells

(* Rank s has delivered step k of block b of call c to rank q, and rank q  *)
(* has not gone past that step.                                            *)
Delivered(s, c, b, k, q) ==
    \/ call[s] > c
    \/ /\ call[s] = c
       /\ \/ pc[s][b] = "idle"
          \/ step[s][b] > k
          \/ step[s][b] = k /\ q \notin owing[s][b]

Unread(q, c, b, k) ==
    \/ call[q] < c
    \/ call[q] = c /\ pc[q][b] # "idle" /\ step[q][b] <= k

(* A counter is not there before its payload.                              *)
OwingUnsent ==
    \A r \in Rank, b \in Blocks : \A q \in owing[r][b] : start[q][b][r] <= flag[r][b]

Arrived ==
    \A r \in Rank, b \in Blocks :
        pc[r][b] = "reduce" =>
            \A s \in Sources(r, call[r], step[r][b]) :
                Delivered(s, call[r], b, step[r][b], r)

Sums ==
    \A r \in Rank :
        call[r] > 0 =>
            \A i \in 0 .. plan[call[r]] - 1 :
                LET b == Owner(call[r], i) IN
                acc[r][i] = Value(call[r], r, i,
                                  IF pc[r][b] = "idle" THEN Steps(call[r])
                                                       ELSE step[r][b] - 1)

Payload ==
    \A c \in Calls, s \in Rank : \A k \in 1 .. Steps(c) :
        \A q \in Targets(s, c, k), i \in Quarter(s, c, k) :
            Delivered(s, c, Owner(c, i), k, q) /\ Unread(q, c, Owner(c, i), k) =>
                buf[q][<<(c - 1) % 2, Slot(s, c, k), i>>] = Value(c, s, i, k - 1)

DataInv == DataTypes /\ OwingUnsent /\ Arrived /\ Sums /\ Payload
=============================================================================
