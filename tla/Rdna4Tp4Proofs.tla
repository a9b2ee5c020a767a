--------------------------- MODULE Rdna4Tp4Proofs ---------------------------
(***************************************************************************)
(* The three kernels of Rdna4Tp4 keep their counters and their buffer      *)
(* halves apart for any masks, thresholds, grids, sizes and sequence of    *)
(* calls (IInv of Rdna4Tp4Inv is inductive), every step reads the payload  *)
(* it waited for and makes of it what its algorithm says (so is DataInv),  *)
(* and hence they implement the in-order all-reduce of AllReduce.          *)
(***************************************************************************)
EXTENDS Rdna4Tp4Inv, TLAPS

-----------------------------------------------------------------------------
(* The kernel of a call.                                                   *)

LEMMA Kernel ==
  ASSUME NEW c
  PROVE  /\ Alg(c) \in {"oneshot", "pairwise", "ring"}
         /\ Steps(c) \in 1 .. 6
         /\ Alg(c) = "oneshot" => Steps(c) = 1
         /\ Alg(c) = "pairwise" => Steps(c) = 2
         /\ Alg(c) = "ring" => Steps(c) = 6
  <1>1. Alg(c) \in {"oneshot", "pairwise", "ring"}
    BY DEF Alg
  <1> QED
    BY <1>1 DEF Steps

LEMMA GridType ==
  ASSUME TypeOK, NEW c \in Calls
  PROVE  Grid(c) \in 1 .. NBlocks
  <1>1. plan[c] \in 1 .. NChunks /\ NBlocks \in Nat \ {0} /\ NChunks \in Nat
    BY SizeAssumption DEF TypeOK
  <1>2. BlockLimit[plan[c]] \in 1 .. NBlocks
    BY <1>1, SizeAssumption
  <1>3. Least(BlockLimit[plan[c]], plan[c]) \in 1 .. NBlocks
    BY <1>1, <1>2 DEF Least
  <1>4. Alg(c) \in {"oneshot", "pairwise", "ring"}
    BY Kernel
  <1> QED
    BY <1>1, <1>2, <1>3, <1>4 DEF Grid

(* The ranks.                                                              *)
LEMMA Partners ==
  ASSUME NEW r \in Rank
  PROVE  /\ Pair[r] \in Rank /\ Pair[Pair[r]] = r /\ Pair[r] # r
         /\ Cross[r] \in Rank /\ Cross[Cross[r]] = r /\ Cross[r] # r
         /\ Pair[r] # Cross[r]
         /\ Rank = {r, Pair[r], Cross[r], Pair[Cross[r]]}
  <1>1. \A q \in Rank : /\ Pair[q] \in Rank /\ Pair[Pair[q]] = q /\ Pair[q] # q
                        /\ Cross[q] \in Rank /\ Cross[Cross[q]] = q /\ Cross[q] # q
                        /\ Pair[q] # Cross[q]
    BY MaskAssumption
  <1> DEFINE x == Pair[r]
             y == Cross[r]
             z == Pair[Cross[r]]
  <1>2. x \in Rank /\ y \in Rank /\ z \in Rank
    BY <1>1
  <1>3. x # r /\ y # r /\ x # y /\ z # y
    BY <1>1
  <1>4. z # r
    BY <1>1
  <1>5. z # x
    BY <1>1
  <1> HIDE DEF x, y, z
  <1>6. Rank = {r, x, y, z}
    BY <1>2, <1>3, <1>4, <1>5 DEF Rank
  <1> QED
    BY <1>1, <1>6 DEF x, y, z

(* The ring goes through all four ranks.                                   *)
LEMMA Ring ==
  /\ \A r \in Rank : /\ Position(r) \in 0 .. 3
                     /\ RingNext(r) \in Rank /\ RingPrevious(r) \in Rank
                     /\ RingPrevious(RingNext(r)) = r /\ RingNext(RingPrevious(r)) = r
                     /\ Position(RingNext(r)) = (Position(r) + 1) % 4
  /\ \A r \in Rank :
        Rank = {r, RingPrevious(r), RingPrevious(RingPrevious(r)),
                RingPrevious(RingPrevious(RingPrevious(r)))}
  <1> DEFINE a == 0
             b == Pair[0]
             d == Cross[0]
             c == Pair[Cross[0]]
  <1>0. 0 \in Rank
    BY DEF Rank
  <1>1. \A q \in Rank : /\ Pair[q] \in Rank /\ Pair[Pair[q]] = q /\ Pair[q] # q
                        /\ Cross[q] \in Rank /\ Cross[Cross[q]] = q /\ Cross[q] # q
                        /\ Pair[q] # Cross[q]
    BY MaskAssumption
  <1>2. Rank = {a, b, c, d} /\ a \in Rank /\ b \in Rank /\ c \in Rank /\ d \in Rank
    BY <1>0, <1>1, Partners
  <1>3. a # b /\ a # c /\ a # d /\ b # c /\ b # d /\ c # d
    BY <1>0, <1>1
  <1>4. Pair[a] = b /\ Pair[b] = a /\ Pair[c] = d /\ Pair[d] = c /\ Cross[a] = d /\ Cross[d] = a
    BY <1>0, <1>1
  <1>5. Cross[b] = c /\ Cross[c] = b
    <2> HIDE DEF a, b, c, d
    <2>1. Cross[b] \in {a, b, c, d}
      BY <1>1, <1>2
    <2>2. Cross[b] # b /\ Cross[b] # a
      BY <1>1, <1>2, <1>4
    <2>3. Cross[b] # d
      BY <1>1, <1>2, <1>3, <1>4
    <2>4. Cross[b] = c
      BY <2>1, <2>2, <2>3
    <2> QED
      BY <1>1, <1>2, <2>4
  <1>6. Position(a) = 0 /\ Position(b) = 1 /\ Position(c) = 2 /\ Position(d) = 3
    BY <1>3 DEF Position
  <1> HIDE DEF a, b, c, d
  <1>7. RingNext(a) = b /\ RingNext(b) = c /\ RingNext(c) = d /\ RingNext(d) = a
    BY <1>4, <1>5, <1>6 DEF RingNext
  <1>8. RingPrevious(a) = d /\ RingPrevious(b) = a /\ RingPrevious(c) = b /\ RingPrevious(d) = c
    BY <1>4, <1>5, <1>6 DEF RingPrevious
  <1>9. ASSUME NEW r \in Rank
        PROVE  /\ Position(r) \in 0 .. 3
               /\ RingNext(r) \in Rank /\ RingPrevious(r) \in Rank
               /\ RingPrevious(RingNext(r)) = r /\ RingNext(RingPrevious(r)) = r
               /\ Position(RingNext(r)) = (Position(r) + 1) % 4
               /\ Rank = {r, RingPrevious(r), RingPrevious(RingPrevious(r)),
                          RingPrevious(RingPrevious(RingPrevious(r)))}
    <2>1. CASE r = a
      BY <1>2, <1>6, <1>7, <1>8, <2>1
    <2>2. CASE r = b
      BY <1>2, <1>6, <1>7, <1>8, <2>2
    <2>3. CASE r = c
      BY <1>2, <1>6, <1>7, <1>8, <2>3
    <2>4. CASE r = d
      BY <1>2, <1>6, <1>7, <1>8, <2>4
    <2> QED
      BY <1>2, <2>1, <2>2, <2>3, <2>4
  <1> QED
    BY <1>9

(* Whoever is waited for delivers to the one who waits.                    *)
LEMMA Routes ==
  ASSUME NEW r \in Rank, NEW c, NEW k
  PROVE  /\ Targets(r, c, k) \in SUBSET Rank /\ Sources(r, c, k) \in SUBSET Rank
         /\ Targets(r, c, k) # {}
         /\ r \notin Targets(r, c, k)
  <1>1. Alg(c) \in {"oneshot", "pairwise", "ring"}
    BY Kernel
  <1>2. Exchange(r, k) \in Rank /\ Exchange(r, k) # r
    BY Partners DEF Exchange
  <1>3. RingNext(r) \in Rank /\ RingPrevious(r) \in Rank
    BY Ring
  <1>4. RingNext(r) # r
    BY Partners DEF RingNext
  <1>5. Rank \ {r} # {}
    BY DEF Rank
  <1> QED
    BY <1>1, <1>2, <1>3, <1>4, <1>5 DEF Targets, Sources

-----------------------------------------------------------------------------
(* Types.                                                                  *)

LEMMA StateTypes ==
  ASSUME TypeOK, NEW r \in Rank, NEW b \in Blocks
  PROVE  /\ call[r] \in Nat /\ call[r] <= MaxCalls /\ MaxCalls \in Nat
         /\ call[r] > 0 => call[r] \in Calls
         /\ pc[r][b] \in {"idle", "push", "wait", "reduce"}
         /\ step[r][b] \in 1 .. 6 /\ owing[r][b] \in SUBSET Rank
         /\ flag[r][b] \in Nat /\ epoch[r][b] \in Nat
         /\ \A q \in Rank : start[r][b][q] \in Nat
         /\ b \in Nat /\ 0 \in Blocks
  <1>1. MaxCalls \in Nat /\ NBlocks \in Nat \ {0}
    BY SizeAssumption
  <1>2. b \in Nat /\ 0 \in Blocks
    BY <1>1 DEF Blocks
  <1>3. call[r] \in 0 .. MaxCalls
    BY DEF TypeOK
  <1>4. call[r] \in Nat /\ call[r] <= MaxCalls /\ (call[r] > 0 => call[r] \in Calls)
    BY <1>1, <1>3 DEF Calls
  <1>5. /\ pc[r][b] \in {"idle", "push", "wait", "reduce"}
        /\ step[r][b] \in 1 .. 6 /\ owing[r][b] \in SUBSET Rank
        /\ flag[r][b] \in Nat /\ epoch[r][b] \in Nat
        /\ \A q \in Rank : start[r][b][q] \in Nat
    BY DEF TypeOK
  <1> QED
    BY <1>1, <1>2, <1>4, <1>5

LEMMA CounterTypes ==
  ASSUME TypeOK, Shape, NEW r \in Rank, NEW b \in Blocks
  PROVE  /\ Passed(r, b) \in Nat /\ Waits(r, b) \in 0 .. 6
         /\ Publishing(r, b) \in 0 .. 1
         /\ Passed(r, b) + Publishing(r, b) <= Waits(r, b)
         /\ Began(r, b) \in Int /\ Ends(r, b) \in Int
         /\ Active(r, b) \in BOOLEAN
         /\ pc[r][b] = "idle" => Passed(r, b) = Waits(r, b) /\ Ends(r, b) = flag[r][b]
  <1>1. /\ pc[r][b] \in {"idle", "push", "wait", "reduce"}
        /\ step[r][b] \in 1 .. 6 /\ flag[r][b] \in Nat
    BY StateTypes
  <1>2. Steps(call[r]) \in 1 .. 6
    BY Kernel
  <1>3. pc[r][b] # "idle" => Active(r, b) /\ step[r][b] <= Steps(call[r])
    BY DEF Shape
  <1>4. Active(r, b) \in BOOLEAN
    BY DEF Active
  <1>5. Passed(r, b) \in Nat /\ Waits(r, b) \in 0 .. 6 /\ Publishing(r, b) \in 0 .. 1
    BY <1>1, <1>2 DEF Passed, Waits, Publishing
  <1>6. Passed(r, b) + Publishing(r, b) <= Waits(r, b)
    BY <1>1, <1>2, <1>3 DEF Passed, Waits, Publishing
  <1>7. pc[r][b] = "idle" => Passed(r, b) = Waits(r, b)
    BY DEF Passed, Waits
  <1>8. Began(r, b) \in Int /\ Ends(r, b) \in Int
    BY <1>1, <1>5 DEF Began, Ends
  <1>9. pc[r][b] = "idle" => Ends(r, b) = flag[r][b]
    BY <1>1, <1>5, <1>7 DEF Began, Ends
  <1> QED
    BY <1>4, <1>5, <1>6, <1>7, <1>8, <1>9

(* Ranks in one call have the same blocks at work.                         *)
LEMMA SameCall ==
  ASSUME NEW r \in Rank, NEW q \in Rank, NEW b \in Blocks, call[r] = call[q]
  PROVE  Active(r, b) = Active(q, b) /\ Waits(r, b) = Waits(q, b)
  BY DEF Active, Waits

-----------------------------------------------------------------------------
(* A rank that has ended a call knows that everybody has begun it.         *)
LEMMA AllBegun ==
  ASSUME TypeOK, Shape, Handshake, Adjacent, NEW r \in Rank, Idle(r), NEW q \in Rank
  PROVE  call[r] <= call[q]
  <1> DEFINE c == call[r]
  <1>2. 0 \in Blocks
    BY SizeAssumption DEF Blocks
  <1>1. \A p \in Rank : call[p] \in Nat /\ (call[p] > 0 => call[p] \in Calls)
    <2>1. ASSUME NEW p \in Rank
          PROVE  call[p] \in Nat /\ (call[p] > 0 => call[p] \in Calls)
      BY <1>2, StateTypes
    <2> QED
      BY <2>1
  <1> SUFFICES ASSUME call[q] < c PROVE FALSE
    BY <1>1
  <1>3. c > 0 /\ c \in Calls
    BY <1>1
  <1>4. \A p \in Rank : call[p] <= c
    BY <1>1 DEF Adjacent
  <1>5. Grid(c) \in 1 .. NBlocks /\ NBlocks \in Nat
    BY <1>3, GridType, SizeAssumption
  <1>6. \A p \in Rank : call[p] = c => Active(p, 0)
    BY <1>3, <1>5 DEF Active
  <1>7. Passed(r, 0) = Steps(c)
    BY <1>2, <1>6 DEF Passed, Idle
  <1>8. \A p \in Rank : Passed(p, 0) \in Nat
    BY <1>2, CounterTypes
  <1>9. ASSUME NEW p \in Rank, call[p] = c, NEW k \in 1 .. Passed(p, 0),
               NEW s \in Sources(p, c, k)
        PROVE  call[s] = c /\ Passed(s, 0) >= k - 1
    <2>1. call[s] > c \/ (call[s] = c /\ Passed(s, 0) >= k - 1)
      BY <1>2, <1>9 DEF Handshake
    <2>2. s \in Rank /\ call[s] <= c /\ call[s] \in Nat /\ c \in Nat
      BY <1>1, <1>4, <1>9, Routes
    <2> QED
      BY <2>1, <2>2
  <1> HIDE DEF c
  <1>10. \A p \in Rank : call[p] = c => p # q
    BY <1>1
  <1>11. call[r] = c
    BY DEF c
  <1>12. CASE Alg(c) = "oneshot"
    <2>1. Steps(c) = 1 /\ q \in Sources(r, c, 1)
      BY <1>10, <1>11, <1>12, Kernel DEF Sources
    <2>2. 1 \in 1 .. Passed(r, 0)
      BY <1>7, <2>1
    <2>3. call[q] = c
      BY <1>9, <1>11, <2>1, <2>2
    <2> QED
      BY <1>10, <2>3
  <1>13. CASE Alg(c) = "pairwise"
    <2> DEFINE x == Pair[r]
               y == Cross[r]
               z == Pair[y]
    <2>1. Steps(c) = 2
      BY <1>13, Kernel
    <2>2. x \in Rank /\ y \in Rank /\ z \in Rank /\ Rank = {r, x, y, z}
      BY Partners
    <2>3. x \in Sources(r, c, 1) /\ y \in Sources(r, c, 2) /\ z \in Sources(y, c, 1)
      BY <1>13 DEF Sources, Exchange
    <2> HIDE DEF x, y, z
    <2>4. 1 \in 1 .. Passed(r, 0) /\ 2 \in 1 .. Passed(r, 0)
      BY <1>7, <2>1
    <2>5. call[x] = c
      BY <1>9, <1>11, <2>3, <2>4
    <2>6. call[y] = c /\ Passed(y, 0) >= 1
      BY <1>9, <1>11, <2>3, <2>4
    <2>7. 1 \in 1 .. Passed(y, 0)
      BY <1>8, <2>2, <2>6
    <2>8. call[z] = c
      BY <1>9, <2>2, <2>3, <2>6, <2>7
    <2> QED
      BY <1>10, <1>11, <2>2, <2>5, <2>6, <2>8
  <1>14. CASE Alg(c) = "ring"
    <2> DEFINE x == RingPrevious(r)
               y == RingPrevious(x)
               z == RingPrevious(y)
    <2>1. Steps(c) = 6
      BY <1>14, Kernel
    <2>2. x \in Rank /\ y \in Rank /\ z \in Rank
      BY Ring
    <2>3. Rank = {r, x, y, z}
      BY Ring
    <2>4. x \in Sources(r, c, 6) /\ y \in Sources(x, c, 5) /\ z \in Sources(y, c, 4)
      BY <1>14 DEF Sources
    <2> HIDE DEF x, y, z
    <2>5. call[x] = c /\ Passed(x, 0) >= 5
      <3>1. 6 \in 1 .. Passed(r, 0)
        BY <1>7, <2>1
      <3> QED
        BY <1>9, <1>11, <2>4, <3>1
    <2>6. call[y] = c /\ Passed(y, 0) >= 4
      <3>1. 5 \in 1 .. Passed(x, 0)
        BY <1>8, <2>2, <2>5
      <3> QED
        BY <1>9, <2>2, <2>4, <2>5, <3>1
    <2>7. call[z] = c
      <3>1. 4 \in 1 .. Passed(y, 0)
        BY <1>8, <2>2, <2>6
      <3> QED
        BY <1>9, <2>2, <2>4, <2>6, <3>1
    <2> QED
      BY <1>10, <1>11, <2>3, <2>5, <2>6, <2>7
  <1> QED
    BY <1>12, <1>13, <1>14, Kernel

-----------------------------------------------------------------------------
(* The initial state.                                                      *)
LEMMA InvInit ==
  ASSUME Init
  PROVE  IInv
  <1>1. /\ \A r \in Rank : call[r] = 0
        /\ \A r \in Rank, b \in Blocks :
              /\ pc[r][b] = "idle" /\ flag[r][b] = 0 /\ epoch[r][b] = 0
              /\ \A q \in Rank : start[r][b][q] = 0
    BY DEF Init
  <1>2. 0 \in Blocks /\ \A b \in Blocks : b \in Nat
    BY SizeAssumption DEF Blocks
  <1>3. TypeOK
    BY SizeAssumption DEF Init, TypeOK
  <1>4. Shape /\ Quiet /\ Adjacent
    BY <1>1 DEF Shape, Quiet, Adjacent, Init
  <1>5. \A r \in Rank, b \in Blocks :
           /\ ~ Active(r, b) /\ Passed(r, b) = 0 /\ Waits(r, b) = 0
           /\ Publishing(r, b) = 0 /\ Lead(r, b) = 0
    BY <1>1 DEF Active, Passed, Waits, Publishing, Lead
  <1>6. StartBound
    BY <1>1, <1>5 DEF StartBound
  <1>7. FlagSync
    BY <1>1, <1>5 DEF FlagSync, Began, Ends
  <1>8. Handshake
    BY <1>5 DEF Handshake
  <1>9. Epochs
    BY <1>1, <1>2, <1>5 DEF Epochs
  <1> QED
    BY <1>3, <1>4, <1>6, <1>7, <1>8, <1>9 DEF IInv

-----------------------------------------------------------------------------
(* A new kernel starts.  Its counters go on from where the rank's last     *)
(* call left them.                                                         *)
LEMMA LaunchKeeps ==
  ASSUME IInv, NEW r \in Rank, Launch(r)
  PROVE  IInv'
  <1> DEFINE c == call[r] + 1
  <1>0. TypeOK /\ Shape /\ StartBound /\ FlagSync /\ Handshake /\ Adjacent /\ Epochs /\ Quiet
    BY DEF IInv
  <1>1. 0 \in Blocks /\ \A b \in Blocks : b \in Nat
    BY SizeAssumption DEF Blocks
  <1>2. \A p \in Rank : call[p] \in Nat
    <2>1. ASSUME NEW p \in Rank
          PROVE  call[p] \in Nat
      BY <1>0, <1>1, StateTypes
    <2> QED
      BY <2>1
  <1>3. Idle(r) /\ c \in Calls /\ c \in Nat /\ c > 0
    BY <1>2, SizeAssumption DEF Launch, Calls
  <1>4. Grid(c) \in 1 .. NBlocks
    BY <1>0, <1>3, GridType
  <1>5. /\ plan' = plan /\ start' = start /\ flag' = flag /\ epoch' = epoch
        /\ call' = [call EXCEPT ![r] = c]
    BY DEF Launch
  <1>6. /\ pc' = [pc EXCEPT ![r] =
                    [b \in Blocks |-> IF b < Grid(c) THEN "push" ELSE "idle"]]
        /\ owing' = [owing EXCEPT ![r] =
                    [b \in Blocks |-> IF b < Grid(c) THEN Targets(r, c, 1) ELSE {}]]
        /\ step' = [step EXCEPT ![r] = [b \in Blocks |-> 1]]
    BY DEF Launch
  <1>7. Targets(r, c, 1) \in SUBSET Rank
    BY Routes
  <1> HIDE DEF c
  <1>8. TypeOK'
    <2>1. call' \in [Rank -> 0 .. MaxCalls]
      BY <1>0, <1>3, <1>5, SizeAssumption DEF TypeOK, Calls
    <2>2. pc' \in [Rank -> [Blocks -> {"idle", "push", "wait", "reduce"}]]
      BY <1>0, <1>6 DEF TypeOK
    <2>3. owing' \in [Rank -> [Blocks -> SUBSET Rank]]
      BY <1>0, <1>6, <1>7 DEF TypeOK
    <2>4. step' \in [Rank -> [Blocks -> 1 .. 6]]
      BY <1>0, <1>6 DEF TypeOK
    <2> QED
      BY <1>0, <1>5, <2>1, <2>2, <2>3, <2>4 DEF TypeOK
  <1>9. /\ call'[r] = c
        /\ \A q \in Rank \ {r} : call'[q] = call[q]
        /\ \A b \in Blocks : /\ pc'[r][b] = IF b < Grid(c) THEN "push" ELSE "idle"
                             /\ owing'[r][b] = IF b < Grid(c) THEN Targets(r, c, 1) ELSE {}
                             /\ step'[r][b] = 1
        /\ \A q \in Rank \ {r} : /\ pc'[q] = pc[q]
                                 /\ owing'[q] = owing[q] /\ step'[q] = step[q]
    BY <1>0, <1>5, <1>6 DEF TypeOK
  <1>10. /\ \A k : Steps(k)' = Steps(k) /\ Grid(k)' = Grid(k)
         /\ \A q, k, n : /\ Targets(q, k, n)' = Targets(q, k, n)
                         /\ Sources(q, k, n)' = Sources(q, k, n)
    BY <1>5 DEF Steps, Grid, Targets, Sources, Alg
  <1>11. \A b \in Blocks : /\ Active(r, b)' <=> b < Grid(c)
                           /\ Passed(r, b)' = 0
                           /\ Publishing(r, b)' \in 0 .. 1
    BY <1>3, <1>9, <1>10 DEF Active, Passed, Publishing
  <1>12. \A q \in Rank \ {r}, b \in Blocks :
            /\ Active(q, b)' <=> Active(q, b)
            /\ Passed(q, b)' = Passed(q, b) /\ Waits(q, b)' = Waits(q, b)
            /\ Publishing(q, b)' = Publishing(q, b) /\ Lead(q, b)' = Lead(q, b)
    BY <1>9, <1>10 DEF Active, Passed, Waits, Publishing, Lead
  <1>13. Shape'
    <2>1. ASSUME NEW p \in Rank, NEW b \in Blocks, pc'[p][b] # "idle"
          PROVE  /\ Active(p, b)' /\ step'[p][b] <= Steps(call[p])'
                 /\ owing'[p][b] \subseteq Targets(p, call[p], step[p][b])'
      <3>1. CASE p = r
        <4>1. b < Grid(c)
          BY <1>9, <2>1, <3>1
        <4>2. Steps(c) \in 1 .. 6
          BY Kernel
        <4> QED
          BY <1>9, <1>10, <1>11, <3>1, <4>1, <4>2
      <3>2. CASE p # r
        BY <1>0, <1>9, <1>10, <1>12, <2>1, <3>2 DEF Shape
      <3> QED
        BY <3>1, <3>2
    <2> QED
      BY <2>1 DEF Shape
  <1>14. \A p \in Rank, b \in Blocks :
            /\ flag[p][b] \in Nat /\ Passed(p, b) \in Nat
            /\ Publishing(p, b) \in 0 .. 1 /\ Waits(p, b) \in 0 .. 6
            /\ Began(p, b) \in Int /\ Ends(p, b) \in Int
    BY <1>0, StateTypes, CounterTypes
  <1>15. \A b \in Blocks : /\ Began(r, b)' = flag[r][b] /\ Ends(r, b) = flag[r][b]
                           /\ Publishing(r, b) = 0
    <2>1. \A b \in Blocks : Ends(r, b) = flag[r][b] /\ Publishing(r, b) = 0
      BY <1>0, <1>3, CounterTypes DEF Idle, Publishing
    <2>2. \A b \in Blocks : Began(r, b)' = flag[r][b]
      BY <1>5, <1>11, <1>14 DEF Began
    <2> QED
      BY <2>1, <2>2
  <1>16. \A q \in Rank \ {r}, b \in Blocks :
            Began(q, b)' = Began(q, b) /\ Ends(q, b)' = Ends(q, b)
    BY <1>5, <1>12 DEF Began, Ends
  <1>17. StartBound'
    <2>1. ASSUME NEW p \in Rank, NEW q \in Rank, NEW b \in Blocks
          PROVE  start'[q][b][p] <= flag'[p][b] + Publishing(p, b)'
      <3>1. start[q][b][p] <= flag[p][b] + Publishing(p, b) /\ start[q][b][p] \in Nat
        BY <1>0, StateTypes DEF StartBound
      <3>2. CASE p = r
        BY <1>5, <1>11, <1>14, <1>15, <3>1, <3>2
      <3>3. CASE p # r
        BY <1>5, <1>12, <3>1, <3>3
      <3> QED
        BY <3>2, <3>3
    <2> QED
      BY <2>1 DEF StartBound
  <1>18. \A q \in Rank : call[r] <= call[q] /\ call[q] <= c
    <2>1. \A q \in Rank : call[r] <= call[q]
      BY <1>0, <1>3, AllBegun
    <2>2. \A q \in Rank : call[q] <= call[r] + 1
      BY <1>0 DEF Adjacent
    <2> QED
      BY <2>1, <2>2 DEF c
  <1>19. FlagSync'
    <2>1. ASSUME NEW p \in Rank, NEW q \in Rank, NEW b \in Blocks
          PROVE  /\ call'[p] = call'[q] => Began(p, b)' = Began(q, b)'
                 /\ call'[p] = call'[q] + 1 => Began(p, b)' = Ends(q, b)'
      <3>1. /\ call[p] = call[q] => Began(p, b) = Began(q, b)
            /\ call[p] = call[q] + 1 => Began(p, b) = Ends(q, b)
            /\ call[q] = call[p] + 1 => Began(q, b) = Ends(p, b)
        BY <1>0 DEF FlagSync
      <3>2. CASE p = r /\ q = r
        BY <1>2, <1>3, <1>9, <3>2
      <3>3. CASE p = r /\ q # r
        <4>1. call[q] = c => Began(q, b) = Ends(r, b)
          BY <3>1, <3>3 DEF c
        <4>2. call[q] = call[r] => Ends(r, b) = Ends(q, b)
          BY <3>1, <3>3, SameCall DEF Ends
        <4>3. c = call[q] + 1 => call[q] = call[r]
          BY <1>2 DEF c
        <4> QED
          BY <1>9, <1>15, <1>16, <3>3, <4>1, <4>2, <4>3
      <3>4. CASE p # r /\ q = r
        <4>1. call[p] = c => Began(p, b) = Ends(r, b)
          BY <3>1, <3>4 DEF c
        <4>2. ~ (call[p] = c + 1)
          BY <1>2, <1>3, <1>18
        <4> QED
          BY <1>9, <1>15, <1>16, <3>4, <4>1, <4>2
      <3>5. CASE p # r /\ q # r
        BY <1>9, <1>16, <3>1, <3>5
      <3> QED
        BY <3>2, <3>3, <3>4, <3>5
    <2> QED
      BY <2>1 DEF FlagSync
  <1>20. Handshake'
    <2>1. ASSUME NEW p \in Rank, NEW b \in Blocks, NEW k \in 1 .. Passed(p, b)',
                 NEW q \in Sources(p, call[p], k)'
          PROVE  \/ call'[q] > call'[p]
                 \/ call'[q] = call'[p] /\ Passed(q, b)' >= k - 1
      <3>1. p # r
        BY <1>11, <2>1
      <3>2. k \in 1 .. Passed(p, b) /\ q \in Sources(p, call[p], k)
        BY <1>9, <1>10, <1>12, <2>1, <3>1
      <3>3. call[q] > call[p] \/ (call[q] = call[p] /\ Passed(q, b) >= k - 1)
        BY <1>0, <3>2 DEF Handshake
      <3>4. q \in Rank
        BY <3>2, Routes
      <3>5. CASE q = r
        BY <1>2, <1>9, <3>1, <3>3, <3>5 DEF c
      <3>6. CASE q # r
        BY <1>9, <1>12, <3>1, <3>3, <3>4, <3>6
      <3> QED
        BY <3>5, <3>6
    <2> QED
      BY <2>1 DEF Handshake
  <1>21. Adjacent'
    <2>1. ASSUME NEW p \in Rank, NEW q \in Rank
          PROVE  call'[p] <= call'[q] + 1
      <3>1. call[p] <= call[q] + 1
        BY <1>0 DEF Adjacent
      <3>2. /\ call'[p] = IF p = r THEN c ELSE call[p]
            /\ call'[q] = IF q = r THEN c ELSE call[q]
        BY <1>9
      <3> QED
        BY <1>2, <1>3, <1>18, <3>1, <3>2 DEF c
    <2> QED
      BY <2>1 DEF Adjacent
  <1>22. Epochs'
    <2>1. ASSUME NEW p \in Rank, NEW b \in Blocks
          PROVE  epoch'[p][b] = IF pc'[p][Lead(p, b)'] = "idle" THEN call'[p] ELSE call'[p] - 1
      <3>1. epoch[p][b] = IF pc[p][Lead(p, b)] = "idle" THEN call[p] ELSE call[p] - 1
        BY <1>0 DEF Epochs
      <3>2. Lead(p, b) \in Blocks
        BY <1>1 DEF Lead
      <3>3. CASE p = r
        <4>1. epoch[p][b] = call[r]
          BY <1>3, <3>1, <3>2, <3>3 DEF Idle
        <4>2. Lead(p, b)' \in Blocks /\ Lead(p, b)' < Grid(c)
          BY <1>1, <1>4, <1>11, <3>3 DEF Lead
        <4>3. pc'[p][Lead(p, b)'] = "push"
          BY <1>9, <3>3, <4>2
        <4> QED
          BY <1>2, <1>5, <1>9, <3>3, <4>1, <4>3 DEF c
      <3>4. CASE p # r
        BY <1>5, <1>9, <1>12, <3>1, <3>4
      <3> QED
        BY <3>3, <3>4
    <2> QED
      BY <2>1 DEF Epochs
  <1>23. Quiet'
    <2>1. ASSUME NEW p \in Rank, NEW b \in Blocks
          PROVE  pc'[p][b] # "push" => owing'[p][b] = {}
      <3>1. pc[p][b] # "push" => owing[p][b] = {}
        BY <1>0 DEF Quiet
      <3> QED
        BY <1>9, <3>1
    <2> QED
      BY <2>1 DEF Quiet
  <1> QED
    BY <1>8, <1>13, <1>23, <1>17, <1>19, <1>20, <1>21, <1>22 DEF IInv

-----------------------------------------------------------------------------
(* What a step within the calls leaves alone: the kernels, and the state   *)
(* of every other CTA.                                                     *)
LEMMA SameKernels ==
  ASSUME plan' = plan, call' = call
  PROVE  /\ \A k : Steps(k)' = Steps(k) /\ Grid(k)' = Grid(k)
         /\ \A q, k, n : /\ Targets(q, k, n)' = Targets(q, k, n)
                         /\ Sources(q, k, n)' = Sources(q, k, n)
         /\ \A q \in Rank, b \in Blocks :
               /\ Active(q, b)' <=> Active(q, b)
               /\ Waits(q, b)' = Waits(q, b) /\ Lead(q, b)' = Lead(q, b)
  <1>1. /\ \A k : Steps(k)' = Steps(k) /\ Grid(k)' = Grid(k)
        /\ \A q, k, n : /\ Targets(q, k, n)' = Targets(q, k, n)
                        /\ Sources(q, k, n)' = Sources(q, k, n)
    BY DEF Steps, Grid, Targets, Sources, Alg
  <1>2. \A q \in Rank, b \in Blocks : Active(q, b)' <=> Active(q, b)
    BY <1>1 DEF Active
  <1>3. \A q \in Rank, b \in Blocks : Waits(q, b)' = Waits(q, b) /\ Lead(q, b)' = Lead(q, b)
    BY <1>1, <1>2 DEF Waits, Lead
  <1> QED
    BY <1>1, <1>2, <1>3

LEMMA SameCta ==
  ASSUME plan' = plan, call' = call, NEW q \in Rank, NEW b \in Blocks,
         pc'[q][b] = pc[q][b], step'[q][b] = step[q][b]
  PROVE  Passed(q, b)' = Passed(q, b) /\ Publishing(q, b)' = Publishing(q, b)
  <1>1. /\ Active(q, b)' <=> Active(q, b)
        /\ \A k : Steps(k)' = Steps(k)
    BY SameKernels
  <1> QED
    BY <1>1 DEF Passed, Publishing

(* While no rank begins a call, FlagSync and Adjacent stay, and only a     *)
(* wait that is passed asks for a new handshake.                           *)
LEMMA WithinCall ==
  ASSUME IInv, plan' = plan, call' = call, TypeOK', Shape', Quiet', StartBound', Epochs',
         \A p \in Rank, b \in Blocks :
            /\ Began(p, b)' = Began(p, b)
            /\ Passed(p, b)' \in Nat /\ Passed(p, b)' >= Passed(p, b)
            /\ \A k \in 1 .. Passed(p, b)' : k > Passed(p, b) =>
                  \A q \in Sources(p, call[p], k) :
                     \/ call[q] > call[p]
                     \/ call[q] = call[p] /\ Passed(q, b) >= k - 1
  PROVE  IInv'
  <1>1. FlagSync /\ Handshake /\ Adjacent /\ TypeOK /\ Shape
    BY DEF IInv
  <1>2. \A p \in Rank, b \in Blocks : Ends(p, b)' = Ends(p, b)
    BY SameKernels DEF Ends
  <1>3. FlagSync' /\ Adjacent'
    BY <1>1, <1>2 DEF FlagSync, Adjacent
  <1>4. Handshake'
    <2>1. ASSUME NEW p \in Rank, NEW b \in Blocks, NEW k \in 1 .. Passed(p, b)',
                 NEW q \in Sources(p, call[p], k)'
          PROVE  \/ call'[q] > call'[p]
                 \/ call'[q] = call'[p] /\ Passed(q, b)' >= k - 1
      <3>1. q \in Sources(p, call[p], k)
        BY SameKernels, <2>1
      <3>2. q \in Rank
        BY <3>1, Routes
      <3>3. Passed(p, b) \in Nat /\ Passed(q, b) \in Nat
        BY <1>1, <3>2, CounterTypes
      <3>4. call[q] > call[p] \/ (call[q] = call[p] /\ Passed(q, b) >= k - 1)
        <4>1. CASE k > Passed(p, b)
          BY <3>1, <4>1
        <4>2. CASE ~ (k > Passed(p, b))
          <5>1. k \in 1 .. Passed(p, b)
            BY <3>3, <4>2
          <5> QED
            BY <1>1, <3>1, <5>1 DEF Handshake
        <4> QED
          BY <4>1, <4>2
      <3>5. Passed(q, b)' \in Nat /\ Passed(q, b)' >= Passed(q, b) /\ k \in Int
        BY <3>2
      <3> QED
        BY <3>3, <3>4, <3>5
    <2> QED
      BY <2>1 DEF Handshake
  <1> QED
    BY <1>3, <1>4 DEF IInv

-----------------------------------------------------------------------------
(* A counter arrives.                                                      *)
LEMMA DeliverKeeps ==
  ASSUME IInv, NEW r \in Rank, NEW b \in Blocks, NEW q \in Rank, Deliver(r, b, q)
  PROVE  IInv'
  <1>1. TypeOK /\ Shape /\ Quiet /\ StartBound /\ Epochs
    BY DEF IInv
  <1>2. /\ plan' = plan /\ call' = call /\ step' = step /\ flag' = flag /\ epoch' = epoch
        /\ pc[r][b] = "push" /\ q \in owing[r][b]
        /\ start' = [start EXCEPT ![q][b][r] = Expected(r, b)]
        /\ owing' = [owing EXCEPT ![r][b] = @ \ {q}]
        /\ pc' = [pc EXCEPT ![r][b] = IF owing[r][b] = {q} THEN "wait" ELSE "push"]
    BY DEF Deliver
  <1>3. Expected(r, b) = flag[r][b] + 1 /\ Expected(r, b) \in Nat
    BY <1>1, StateTypes DEF Expected
  <1>4. TypeOK'
    <2>1. pc' \in [Rank -> [Blocks -> {"idle", "push", "wait", "reduce"}]]
      BY <1>1, <1>2 DEF TypeOK
    <2>2. owing' \in [Rank -> [Blocks -> SUBSET Rank]]
      BY <1>1, <1>2 DEF TypeOK
    <2>3. start' \in [Rank -> [Blocks -> [Rank -> Nat]]]
      BY <1>1, <1>2, <1>3 DEF TypeOK
    <2> QED
      BY <1>1, <1>2, <2>1, <2>2, <2>3 DEF TypeOK
  <1>5. /\ pc'[r][b] = IF owing[r][b] = {q} THEN "wait" ELSE "push"
        /\ owing'[r][b] = owing[r][b] \ {q}
        /\ \A p \in Rank, d \in Blocks : (p # r \/ d # b) =>
              pc'[p][d] = pc[p][d] /\ owing'[p][d] = owing[p][d]
    BY <1>1, <1>2 DEF TypeOK
  <1>6. \A p \in Rank, d \in Blocks :
           Passed(p, d)' = Passed(p, d) /\ Publishing(p, d)' = Publishing(p, d)
    <2>1. ASSUME NEW p \in Rank, NEW d \in Blocks
          PROVE  Passed(p, d)' = Passed(p, d) /\ Publishing(p, d)' = Publishing(p, d)
      <3>1. CASE p = r /\ d = b
        <4>1. Active(p, d)' <=> Active(p, d)
          BY <1>2, SameKernels
        <4> QED
          BY <1>2, <1>5, <3>1, <4>1 DEF Passed, Publishing
      <3>2. CASE ~ (p = r /\ d = b)
        BY <1>2, <1>5, <3>2, SameCta
      <3> QED
        BY <3>1, <3>2
    <2> QED
      BY <2>1
  <1>7. Shape'
    <2>1. ASSUME NEW p \in Rank, NEW d \in Blocks, pc'[p][d] # "idle"
          PROVE  /\ Active(p, d)' /\ step'[p][d] <= Steps(call[p])'
                 /\ owing'[p][d] \subseteq Targets(p, call[p], step[p][d])'
      <3>1. pc[p][d] # "idle"
        BY <1>2, <1>5, <2>1
      <3>2. /\ Active(p, d)' /\ step'[p][d] <= Steps(call[p])'
            /\ owing[p][d] \subseteq Targets(p, call[p], step[p][d])'
        BY <1>1, <1>2, <3>1, SameKernels DEF Shape
      <3>3. owing'[p][d] \subseteq owing[p][d]
        BY <1>5
      <3> QED
        BY <3>2, <3>3
    <2> QED
      BY <2>1 DEF Shape
  <1>8. StartBound'
    <2>1. ASSUME NEW p \in Rank, NEW x \in Rank, NEW d \in Blocks
          PROVE  start'[x][d][p] <= flag'[p][d] + Publishing(p, d)'
      <3>1. start[x][d][p] <= flag[p][d] + Publishing(p, d)
        BY <1>1 DEF StartBound
      <3>2. CASE x = q /\ d = b /\ p = r
        <4>1. start'[x][d][p] = flag[r][b] + 1
          BY <1>1, <1>2, <1>3, <3>2 DEF TypeOK
        <4>2. Publishing(r, b) = 1
          BY <1>2 DEF Publishing
        <4>3. flag[r][b] \in Nat
          BY <1>1, StateTypes
        <4> QED
          BY <1>2, <1>6, <3>2, <4>1, <4>2, <4>3
      <3>3. CASE ~ (x = q /\ d = b /\ p = r)
        <4>1. start'[x][d][p] = start[x][d][p]
          BY <1>1, <1>2, <3>3 DEF TypeOK
        <4> QED
          BY <1>2, <1>6, <3>1, <4>1
      <3> QED
        BY <3>2, <3>3
    <2> QED
      BY <2>1 DEF StartBound
  <1>9. Epochs'
    <2>1. \A p \in Rank, d \in Blocks : pc'[p][d] = "idle" <=> pc[p][d] = "idle"
      BY <1>2, <1>5
    <2>2. \A p \in Rank, d \in Blocks : Lead(p, d)' = Lead(p, d) /\ Lead(p, d) \in Blocks
      BY <1>2, SameKernels, SizeAssumption DEF Lead, Blocks
    <2> QED
      BY <1>1, <1>2, <2>1, <2>2 DEF Epochs
  <1>10. \A p \in Rank, d \in Blocks : Passed(p, d) \in Nat /\ Began(p, d)' = Began(p, d)
    BY <1>1, <1>2, <1>6, CounterTypes DEF Began
  <1>11. Quiet'
    BY <1>1, <1>5 DEF Quiet
  <1> QED
    BY <1>2, <1>4, <1>6, <1>7, <1>8, <1>9, <1>10, <1>11, WithinCall

-----------------------------------------------------------------------------
(* A wait is passed.  The counters it read are those of this very step:    *)
(* a rank still in the call before has not published as much.              *)
LEMMA WaitHandshake ==
  ASSUME IInv, NEW r \in Rank, NEW b \in Blocks, Wait(r, b),
         NEW q \in Sources(r, call[r], step[r][b])
  PROVE  \/ call[q] > call[r]
         \/ call[q] = call[r] /\ Passed(q, b) >= step[r][b] - 1
  <1>0. TypeOK /\ Shape /\ StartBound /\ FlagSync /\ Adjacent
    BY DEF IInv
  <1>1. q \in Rank
    BY Routes
  <1>2. pc[r][b] = "wait" /\ ~ (start[r][b][q] < Expected(r, b))
    BY DEF Wait
  <1>3. /\ flag[r][b] \in Nat /\ flag[q][b] \in Nat /\ step[r][b] \in 1 .. 6
        /\ start[r][b][q] \in Nat /\ call[r] \in Nat /\ call[q] \in Nat
    BY <1>0, <1>1, StateTypes
  <1>4. flag[q][b] + Publishing(q, b) >= flag[r][b] + 1
    <2>1. start[r][b][q] <= flag[q][b] + Publishing(q, b)
      BY <1>0, <1>1 DEF StartBound
    <2>2. Publishing(q, b) \in 0 .. 1
      BY <1>0, <1>1, CounterTypes
    <2> QED
      BY <1>2, <1>3, <2>1, <2>2 DEF Expected
  <1>5. Passed(r, b) = step[r][b] - 1
    BY <1>0, <1>2 DEF Passed, Shape
  <1>6. /\ Passed(q, b) \in Nat /\ Publishing(q, b) \in 0 .. 1 /\ Waits(q, b) \in 0 .. 6
        /\ Passed(q, b) + Publishing(q, b) <= Waits(q, b)
    BY <1>0, <1>1, CounterTypes
  <1>7. CASE call[q] = call[r]
    <2>1. flag[r][b] - Passed(r, b) = flag[q][b] - Passed(q, b)
      BY <1>0, <1>1, <1>7 DEF FlagSync, Began
    <2>2. Passed(q, b) >= step[r][b] - 1
      BY <1>3, <1>4, <1>5, <1>6, <2>1
    <2> QED
      BY <1>7, <2>2
  <1>8. ASSUME call[r] = call[q] + 1
        PROVE  FALSE
    <2>1. flag[r][b] - Passed(r, b) = flag[q][b] - Passed(q, b) + Waits(q, b)
      BY <1>0, <1>1, <1>8 DEF FlagSync, Began, Ends
    <2>2. /\ Waits(q, b) \in Int /\ Passed(q, b) \in Int /\ Publishing(q, b) \in Int
          /\ flag[r][b] \in Int /\ flag[q][b] \in Int /\ Passed(r, b) \in Nat
      BY <1>3, <1>5, <1>6
    <2>3. Publishing(q, b) + Passed(q, b) >= Waits(q, b) + Passed(r, b) + 1
      BY <1>4, <2>1, <2>2
    <2> QED
      BY <1>6, <2>2, <2>3
  <1>9. call[r] <= call[q] + 1
    BY <1>0, <1>1 DEF Adjacent
  <1> QED
    BY <1>3, <1>7, <1>8, <1>9

LEMMA WaitKeeps ==
  ASSUME IInv, NEW r \in Rank, NEW b \in Blocks, Wait(r, b)
  PROVE  IInv'
  <1>1. TypeOK /\ Shape /\ Quiet /\ StartBound /\ Epochs
    BY DEF IInv
  <1>2. /\ plan' = plan /\ call' = call /\ step' = step /\ epoch' = epoch
        /\ owing' = owing /\ start' = start /\ pc[r][b] = "wait"
        /\ flag' = [flag EXCEPT ![r][b] = Expected(r, b)]
        /\ pc' = [pc EXCEPT ![r][b] = "reduce"]
    BY DEF Wait
  <1>3. Expected(r, b) = flag[r][b] + 1 /\ flag[r][b] \in Nat
    BY <1>1, StateTypes DEF Expected
  <1>4. TypeOK'
    <2>1. pc' \in [Rank -> [Blocks -> {"idle", "push", "wait", "reduce"}]]
      BY <1>1, <1>2 DEF TypeOK
    <2>2. flag' \in [Rank -> [Blocks -> Nat]]
      BY <1>1, <1>2, <1>3 DEF TypeOK
    <2> QED
      BY <1>1, <1>2, <2>1, <2>2 DEF TypeOK
  <1>5. /\ pc'[r][b] = "reduce" /\ flag'[r][b] = flag[r][b] + 1
        /\ \A p \in Rank, d \in Blocks : (p # r \/ d # b) =>
              pc'[p][d] = pc[p][d] /\ flag'[p][d] = flag[p][d]
    BY <1>1, <1>2, <1>3 DEF TypeOK
  <1>6. Active(r, b) /\ step[r][b] <= Steps(call[r]) /\ step[r][b] \in 1 .. 6
    BY <1>1, <1>2, StateTypes DEF Shape
  <1>7. /\ Passed(r, b) = step[r][b] - 1 /\ Passed(r, b)' = step[r][b]
        /\ Publishing(r, b) = 1 /\ Publishing(r, b)' = 0
    <2>1. Active(r, b)'
      BY <1>2, <1>6, SameKernels
    <2> QED
      BY <1>2, <1>5, <1>6, <2>1 DEF Passed, Publishing
  <1>8. \A p \in Rank, d \in Blocks : (p # r \/ d # b) =>
           Passed(p, d)' = Passed(p, d) /\ Publishing(p, d)' = Publishing(p, d)
    <2>1. ASSUME NEW p \in Rank, NEW d \in Blocks, p # r \/ d # b
          PROVE  Passed(p, d)' = Passed(p, d) /\ Publishing(p, d)' = Publishing(p, d)
      BY <1>2, <1>5, <2>1, SameCta
    <2> QED
      BY <2>1
  <1>9. Shape'
    <2>1. ASSUME NEW p \in Rank, NEW d \in Blocks, pc'[p][d] # "idle"
          PROVE  /\ Active(p, d)' /\ step'[p][d] <= Steps(call[p])'
                 /\ owing'[p][d] \subseteq Targets(p, call[p], step[p][d])'
      <3>1. pc[p][d] # "idle"
        BY <1>2, <1>5, <2>1
      <3>2. /\ Active(p, d)' /\ step'[p][d] <= Steps(call[p])'
            /\ owing'[p][d] \subseteq Targets(p, call[p], step[p][d])'
        BY <1>1, <1>2, <3>1, SameKernels DEF Shape
      <3> QED
        BY <3>2
    <2> QED
      BY <2>1 DEF Shape
  <1>10. StartBound'
    <2>1. ASSUME NEW p \in Rank, NEW x \in Rank, NEW d \in Blocks
          PROVE  start'[x][d][p] <= flag'[p][d] + Publishing(p, d)'
      <3>1. start[x][d][p] <= flag[p][d] + Publishing(p, d)
        BY <1>1 DEF StartBound
      <3> QED
        BY <1>2, <1>3, <1>5, <1>7, <1>8, <3>1
    <2> QED
      BY <2>1 DEF StartBound
  <1>11. Epochs'
    <2>1. \A p \in Rank, d \in Blocks : pc'[p][d] = "idle" <=> pc[p][d] = "idle"
      BY <1>2, <1>5
    <2>2. \A p \in Rank, d \in Blocks : Lead(p, d)' = Lead(p, d) /\ Lead(p, d) \in Blocks
      BY <1>2, SameKernels, SizeAssumption DEF Lead, Blocks
    <2> QED
      BY <1>1, <1>2, <2>1, <2>2 DEF Epochs
  <1>12. ASSUME NEW p \in Rank, NEW d \in Blocks
         PROVE  /\ Began(p, d)' = Began(p, d)
                /\ Passed(p, d)' \in Nat /\ Passed(p, d)' >= Passed(p, d)
                /\ \A k \in 1 .. Passed(p, d)' : k > Passed(p, d) =>
                     \A q \in Sources(p, call[p], k) :
                        \/ call[q] > call[p]
                        \/ call[q] = call[p] /\ Passed(q, d) >= k - 1
    <2>1. Passed(p, d) \in Nat /\ flag[p][d] \in Nat
      BY <1>1, StateTypes, CounterTypes
    <2>2. CASE p = r /\ d = b
      <3>1. Began(p, d)' = Began(p, d)
        BY <1>3, <1>5, <1>6, <1>7, <2>2 DEF Began
      <3>2. \A k \in 1 .. Passed(p, d)' : k > Passed(p, d) => k = step[r][b]
        BY <1>6, <1>7, <2>2
      <3>3. \A q \in Sources(r, call[r], step[r][b]) :
               \/ call[q] > call[r]
               \/ call[q] = call[r] /\ Passed(q, b) >= step[r][b] - 1
        BY WaitHandshake
      <3>4. Passed(p, d)' \in Nat /\ Passed(p, d)' >= Passed(p, d)
        BY <1>6, <1>7, <2>2
      <3> QED
        BY <2>2, <3>1, <3>2, <3>3, <3>4
    <2>3. CASE ~ (p = r /\ d = b)
      <3>1. Passed(p, d)' = Passed(p, d)
        BY <1>8, <2>3
      <3>2. Began(p, d)' = Began(p, d)
        BY <1>5, <2>3, <3>1 DEF Began
      <3> QED
        BY <2>1, <3>1, <3>2
    <2> QED
      BY <2>2, <2>3
  <1>13. Quiet'
    BY <1>1, <1>2, <1>5 DEF Quiet
  <1> QED
    BY <1>2, <1>4, <1>9, <1>10, <1>11, <1>12, <1>13, WithinCall

-----------------------------------------------------------------------------
(* The next step of the kernel.                                            *)
LEMMA ReduceKeeps ==
  ASSUME IInv, NEW r \in Rank, NEW b \in Blocks, Reduce(r, b)
  PROVE  IInv'
  <1>1. TypeOK /\ Shape /\ Quiet /\ StartBound /\ Epochs
    BY DEF IInv
  <1>2. /\ plan' = plan /\ call' = call /\ epoch' = epoch
        /\ start' = start /\ flag' = flag /\ pc[r][b] = "reduce"
        /\ step[r][b] < Steps(call[r])
        /\ step' = [step EXCEPT ![r][b] = @ + 1]
        /\ owing' = [owing EXCEPT ![r][b] = Targets(r, call[r], step[r][b] + 1)]
        /\ pc' = [pc EXCEPT ![r][b] = "push"]
    BY DEF Reduce
  <1>3. /\ Active(r, b) /\ step[r][b] \in 1 .. 6 /\ Steps(call[r]) \in 1 .. 6
        /\ step[r][b] + 1 \in 1 .. 6
    BY <1>1, <1>2, StateTypes, Kernel DEF Shape
  <1>4. Targets(r, call[r], step[r][b] + 1) \in SUBSET Rank
    BY Routes
  <1>5. TypeOK'
    <2>1. pc' \in [Rank -> [Blocks -> {"idle", "push", "wait", "reduce"}]]
      BY <1>1, <1>2 DEF TypeOK
    <2>2. step' \in [Rank -> [Blocks -> 1 .. 6]]
      BY <1>1, <1>2, <1>3 DEF TypeOK
    <2>3. owing' \in [Rank -> [Blocks -> SUBSET Rank]]
      BY <1>1, <1>2, <1>4 DEF TypeOK
    <2> QED
      BY <1>1, <1>2, <2>1, <2>2, <2>3 DEF TypeOK
  <1>6. /\ pc'[r][b] = "push" /\ step'[r][b] = step[r][b] + 1
        /\ owing'[r][b] = Targets(r, call[r], step[r][b] + 1)
        /\ \A p \in Rank, d \in Blocks : (p # r \/ d # b) =>
              /\ pc'[p][d] = pc[p][d] /\ step'[p][d] = step[p][d]
              /\ owing'[p][d] = owing[p][d]
    BY <1>1, <1>2 DEF TypeOK
  <1>7. /\ Passed(r, b) = step[r][b] /\ Passed(r, b)' = step[r][b]
        /\ Publishing(r, b) = 0 /\ Publishing(r, b)' = 1
    <2>1. Active(r, b)'
      BY <1>2, <1>3, SameKernels
    <2> QED
      BY <1>2, <1>3, <1>6, <2>1 DEF Passed, Publishing
  <1>8. \A p \in Rank, d \in Blocks : (p # r \/ d # b) =>
           Passed(p, d)' = Passed(p, d) /\ Publishing(p, d)' = Publishing(p, d)
    <2>1. ASSUME NEW p \in Rank, NEW d \in Blocks, p # r \/ d # b
          PROVE  Passed(p, d)' = Passed(p, d) /\ Publishing(p, d)' = Publishing(p, d)
      BY <1>2, <1>6, <2>1, SameCta
    <2> QED
      BY <2>1
  <1>9. Shape'
    <2>1. ASSUME NEW p \in Rank, NEW d \in Blocks, pc'[p][d] # "idle"
          PROVE  /\ Active(p, d)' /\ step'[p][d] <= Steps(call[p])'
                 /\ owing'[p][d] \subseteq Targets(p, call[p], step[p][d])'
      <3>1. CASE p = r /\ d = b
        <4>1. Active(p, d)' /\ Steps(call[p])' = Steps(call[r])
          BY <1>2, <1>3, <3>1, SameKernels
        <4>2. step'[p][d] <= Steps(call[p])'
          BY <1>2, <1>3, <1>6, <3>1, <4>1
        <4>3. Targets(p, call[p], step[p][d])' = owing'[p][d]
          BY <1>2, <1>6, <3>1, SameKernels
        <4> QED
          BY <1>6, <3>1, <4>1, <4>2, <4>3
      <3>2. CASE ~ (p = r /\ d = b)
        <4>1. pc'[p][d] = pc[p][d] /\ step'[p][d] = step[p][d] /\ owing'[p][d] = owing[p][d]
          BY <1>6, <3>2
        <4> QED
          BY <1>1, <1>2, <2>1, <4>1, SameKernels DEF Shape
      <3> QED
        BY <3>1, <3>2
    <2> QED
      BY <2>1 DEF Shape
  <1>10. StartBound'
    <2>1. ASSUME NEW p \in Rank, NEW x \in Rank, NEW d \in Blocks
          PROVE  start'[x][d][p] <= flag'[p][d] + Publishing(p, d)'
      <3>1. start[x][d][p] <= flag[p][d] + Publishing(p, d)
        BY <1>1 DEF StartBound
      <3>2. flag[p][d] \in Nat /\ start[x][d][p] \in Nat
        BY <1>1, StateTypes
      <3> QED
        BY <1>2, <1>7, <1>8, <3>1, <3>2
    <2> QED
      BY <2>1 DEF StartBound
  <1>11. Epochs'
    <2>1. \A p \in Rank, d \in Blocks : pc'[p][d] = "idle" <=> pc[p][d] = "idle"
      BY <1>2, <1>6
    <2>2. \A p \in Rank, d \in Blocks : Lead(p, d)' = Lead(p, d) /\ Lead(p, d) \in Blocks
      BY <1>2, SameKernels, SizeAssumption DEF Lead, Blocks
    <2> QED
      BY <1>1, <1>2, <2>1, <2>2 DEF Epochs
  <1>12. \A p \in Rank, d \in Blocks :
            /\ Passed(p, d) \in Nat /\ Passed(p, d)' = Passed(p, d)
            /\ Began(p, d)' = Began(p, d)
    <2>1. \A p \in Rank, d \in Blocks : Passed(p, d) \in Nat /\ Passed(p, d)' = Passed(p, d)
      BY <1>1, <1>7, <1>8, CounterTypes
    <2> QED
      BY <1>2, <2>1 DEF Began
  <1>13. Quiet'
    BY <1>1, <1>6 DEF Quiet
  <1> QED
    BY <1>2, <1>5, <1>9, <1>10, <1>11, <1>12, <1>13, WithinCall

-----------------------------------------------------------------------------
(* A CTA ends.  CTA 0 also advances the epochs of the blocks that have no  *)
(* CTA in this grid.                                                       *)
LEMMA RetireKeeps ==
  ASSUME IInv, NEW r \in Rank, NEW b \in Blocks, Retire(r, b)
  PROVE  IInv'
  <1>1. TypeOK /\ Shape /\ Quiet /\ StartBound /\ Epochs
    BY DEF IInv
  <1>2. /\ plan' = plan /\ call' = call /\ step' = step /\ owing' = owing
        /\ start' = start /\ flag' = flag /\ pc[r][b] = "reduce"
        /\ step[r][b] = Steps(call[r])
        /\ epoch' = [epoch EXCEPT ![r] = AdvanceEpoch(@, b, Grid(call[r]))]
        /\ pc' = [pc EXCEPT ![r][b] = "idle"]
    BY DEF Retire
  <1>3. /\ Active(r, b) /\ Steps(call[r]) \in 1 .. 6 /\ call[r] \in Nat
        /\ call[r] > 0 /\ b < Grid(call[r]) /\ call[r] \in Calls
    BY <1>1, <1>2, StateTypes, Kernel DEF Shape, Active
  <1>4. Grid(call[r]) \in 1 .. NBlocks /\ 0 \in Blocks /\ \A x \in Blocks : x \in Nat
    BY <1>1, <1>3, GridType, SizeAssumption DEF Blocks
  <1>5. \A x \in Blocks : epoch[r][x] \in Nat
    BY <1>1 DEF TypeOK
  <1>6. AdvanceEpoch(epoch[r], b, Grid(call[r])) \in [Blocks -> Nat]
    BY <1>5 DEF AdvanceEpoch
  <1>7. TypeOK'
    <2>1. pc' \in [Rank -> [Blocks -> {"idle", "push", "wait", "reduce"}]]
      BY <1>1, <1>2 DEF TypeOK
    <2>2. epoch' \in [Rank -> [Blocks -> Nat]]
      BY <1>1, <1>2, <1>6 DEF TypeOK
    <2> QED
      BY <1>1, <1>2, <2>1, <2>2 DEF TypeOK
  <1>8. /\ pc'[r][b] = "idle"
        /\ \A p \in Rank, d \in Blocks : (p # r \/ d # b) => pc'[p][d] = pc[p][d]
    BY <1>1, <1>2 DEF TypeOK
  <1>9. \A p \in Rank, d \in Blocks :
           Passed(p, d)' = Passed(p, d) /\ Publishing(p, d)' = Publishing(p, d)
    <2>1. ASSUME NEW p \in Rank, NEW d \in Blocks
          PROVE  Passed(p, d)' = Passed(p, d) /\ Publishing(p, d)' = Publishing(p, d)
      <3>1. CASE p = r /\ d = b
        <4>1. (Active(p, d)' <=> Active(p, d)) /\ Steps(call[p])' = Steps(call[p])
          BY <1>2, SameKernels
        <4> QED
          BY <1>2, <1>3, <1>8, <3>1, <4>1 DEF Passed, Publishing
      <3>2. CASE ~ (p = r /\ d = b)
        BY <1>2, <1>8, <3>2, SameCta
      <3> QED
        BY <3>1, <3>2
    <2> QED
      BY <2>1
  <1>10. Shape'
    <2>1. ASSUME NEW p \in Rank, NEW d \in Blocks, pc'[p][d] # "idle"
          PROVE  /\ Active(p, d)' /\ step'[p][d] <= Steps(call[p])'
                 /\ owing'[p][d] \subseteq Targets(p, call[p], step[p][d])'
      <3>1. pc'[p][d] = pc[p][d]
        BY <1>8, <2>1
      <3> QED
        BY <1>1, <1>2, <2>1, <3>1, SameKernels DEF Shape
    <2> QED
      BY <2>1 DEF Shape
  <1>11. StartBound'
    BY <1>1, <1>2, <1>9 DEF StartBound
  <1>12. Epochs'
    <2>1. ASSUME NEW p \in Rank, NEW d \in Blocks
          PROVE  epoch'[p][d] = IF pc'[p][Lead(p, d)'] = "idle" THEN call'[p] ELSE call'[p] - 1
      <3>1. epoch[p][d] = IF pc[p][Lead(p, d)] = "idle" THEN call[p] ELSE call[p] - 1
        BY <1>1 DEF Epochs
      <3>2. Lead(p, d)' = Lead(p, d) /\ Lead(p, d) \in Blocks
        BY <1>2, <1>4, SameKernels DEF Lead
      <3>3. CASE p # r
        <4>1. epoch'[p][d] = epoch[p][d]
          BY <1>2, <3>3
        <4> QED
          BY <1>2, <1>8, <3>1, <3>2, <3>3, <4>1
      <3>4. CASE p = r
        <4>1. epoch'[r][d] = IF d = b \/ (b = 0 /\ d >= Grid(call[r]))
                             THEN epoch[r][b] + 1 ELSE epoch[r][d]
          BY <1>1, <1>2 DEF AdvanceEpoch, TypeOK
        <4>2. Lead(r, b) = b /\ epoch[r][b] = call[r] - 1
          BY <1>1, <1>2, <1>3 DEF Lead, Epochs
        <4>3. Active(r, d) <=> d < Grid(call[r])
          BY <1>3 DEF Active
        <4>4. CASE d = b \/ (b = 0 /\ d >= Grid(call[r]))
          <5>1. Lead(r, d) = b
            BY <1>3, <1>4, <4>2, <4>3, <4>4 DEF Lead
          <5> QED
            BY <1>2, <1>3, <1>8, <3>2, <3>4, <4>1, <4>2, <4>4, <5>1
        <4>5. CASE ~ (d = b \/ (b = 0 /\ d >= Grid(call[r])))
          <5>1. Lead(r, d) # b
            BY <1>4, <4>3, <4>5 DEF Lead
          <5> QED
            BY <1>2, <1>8, <3>1, <3>2, <3>4, <4>1, <4>5, <5>1
        <4> QED
          BY <4>4, <4>5
      <3> QED
        BY <3>3, <3>4
    <2> QED
      BY <2>1 DEF Epochs
  <1>13. \A p \in Rank, d \in Blocks : Passed(p, d) \in Nat /\ Began(p, d)' = Began(p, d)
    BY <1>1, <1>2, <1>9, CounterTypes DEF Began
  <1>14. Quiet'
    BY <1>1, <1>2, <1>8 DEF Quiet
  <1> QED
    BY <1>2, <1>7, <1>9, <1>10, <1>11, <1>12, <1>13, <1>14, WithinCall

-----------------------------------------------------------------------------
LEMMA Unchanged ==
  ASSUME IInv, UNCHANGED vars
  PROVE  IInv'
  <1>1. /\ plan' = plan /\ call' = call /\ pc' = pc /\ step' = step /\ owing' = owing
        /\ start' = start /\ flag' = flag /\ epoch' = epoch
    BY DEF vars
  <1>2. TypeOK /\ Shape /\ Quiet /\ StartBound /\ Epochs
    BY DEF IInv
  <1>3. \A p \in Rank, d \in Blocks :
           Passed(p, d)' = Passed(p, d) /\ Publishing(p, d)' = Publishing(p, d)
    BY <1>1, SameCta
  <1>4. TypeOK'
    BY <1>1, <1>2 DEF TypeOK
  <1>9. Quiet'
    BY <1>1, <1>2 DEF Quiet
  <1>5. Shape'
    BY <1>1, <1>2, SameKernels DEF Shape
  <1>6. StartBound'
    BY <1>1, <1>2, <1>3 DEF StartBound
  <1>7. Epochs'
    BY <1>1, <1>2, SameKernels DEF Epochs
  <1>8. \A p \in Rank, d \in Blocks : Passed(p, d) \in Nat /\ Began(p, d)' = Began(p, d)
    BY <1>1, <1>2, <1>3, CounterTypes DEF Began
  <1> QED
    BY <1>1, <1>3, <1>4, <1>5, <1>6, <1>7, <1>8, <1>9, WithinCall

(* The counters, epochs and places of the kernels of launch(), whatever    *)
(* sizes the calls have and however the ranks and their CTAs interleave.   *)
THEOREM Invariant == Spec => []IInv
  <1>1. Init => IInv
    BY InvInit
  <1>2. IInv /\ [Next]_vars => IInv'
    <2> SUFFICES ASSUME IInv, [Next]_vars PROVE IInv'
      OBVIOUS
    <2>1. CASE UNCHANGED vars
      BY <2>1, Unchanged
    <2>2. ASSUME NEW r \in Rank, Launch(r)
          PROVE  IInv'
      BY <2>2, LaunchKeeps
    <2>3. ASSUME NEW r \in Rank, NEW b \in Blocks, Cta(r, b)
          PROVE  IInv'
      <3>1. ASSUME NEW q \in Rank, Deliver(r, b, q)
            PROVE  IInv'
        BY <3>1, DeliverKeeps
      <3>2. CASE Wait(r, b)
        BY <3>2, WaitKeeps
      <3>3. CASE Reduce(r, b)
        BY <3>3, ReduceKeeps
      <3>4. CASE Retire(r, b)
        BY <3>4, RetireKeeps
      <3> QED
        BY <2>3, <3>1, <3>2, <3>3, <3>4 DEF Cta
    <2> QED
      BY <2>1, <2>2, <2>3 DEF Next, Step, Terminated
  <1> QED
    BY <1>1, <1>2, PTL DEF Spec

-----------------------------------------------------------------------------
(* What follows from the invariant.                                        *)

(* Two ranks between the same two calls have equal counters and epochs:    *)
(* what the next call compares means the same on both sides.               *)
THEOREM LockstepAlways == Spec => []Lockstep
  <1>1. IInv => Lockstep
    <2> SUFFICES ASSUME IInv, NEW r \in Rank, NEW q \in Rank,
                        call[r] = call[q], Idle(r), Idle(q)
                 PROVE  flag[r] = flag[q] /\ \A b \in Blocks : epoch[r][b] = call[r]
      BY DEF Lockstep
    <2>1. TypeOK /\ Shape /\ FlagSync /\ Epochs
      BY DEF IInv
    <2>2. \A b \in Blocks : flag[r][b] = flag[q][b]
      <3>1. ASSUME NEW b \in Blocks
            PROVE  flag[r][b] = flag[q][b]
        <4>1. Ends(r, b) = flag[r][b] /\ Ends(q, b) = flag[q][b]
          BY <2>1, CounterTypes DEF Idle
        <4>2. Began(r, b) = Began(q, b) /\ Waits(r, b) = Waits(q, b)
          BY <2>1, SameCall DEF FlagSync
        <4> QED
          BY <4>1, <4>2 DEF Ends
      <3> QED
        BY <3>1
    <2>3. flag[r] = flag[q]
      BY <2>1, <2>2 DEF TypeOK
    <2>4. \A b \in Blocks : Lead(r, b) \in Blocks
      BY SizeAssumption DEF Lead, Blocks
    <2> QED
      BY <2>1, <2>3, <2>4 DEF Epochs, Idle
  <1> QED
    BY <1>1, Invariant, PTL

(* Of the ranks at work on one block, those that use the same half are in  *)
(* the same call.                                                          *)
LEMMA HalvesTell ==
  ASSUME IInv, NEW r \in Rank, NEW q \in Rank, NEW b \in Blocks, NEW o \in Blocks,
         pc[r][b] # "idle", pc[q][o] # "idle", Half(r, b) = Half(q, o)
  PROVE  call[r] = call[q]
  <1>1. TypeOK /\ Shape /\ Adjacent /\ Epochs
    BY DEF IInv
  <1>2. call[r] \in Nat /\ call[q] \in Nat
    BY <1>1, StateTypes
  <1>3. epoch[r][b] = call[r] - 1 /\ epoch[q][o] = call[q] - 1
    BY <1>1 DEF Shape, Epochs, Lead
  <1>4. (call[r] - 1) % 2 = (call[q] - 1) % 2
    BY <1>3 DEF Half
  <1>5. call[r] <= call[q] + 1 /\ call[q] <= call[r] + 1
    BY <1>1 DEF Adjacent
  <1> QED
    BY <1>2, <1>4, <1>5

(* Within a call a rank receives each chunk at most once in each slot.     *)
LEMMA SlotsTell ==
  ASSUME NEW r \in Rank, NEW c, NEW j \in 1 .. Steps(c), NEW q \in Targets(r, c, j),
         NEW k \in 1 .. Steps(c), NEW s \in Sources(q, c, k),
         Slot(r, c, j) = Slot(s, c, k), NEW i \in Nat,
         i \in Quarter(r, c, j), i \in Received(q, c, k)
  PROVE  k = j
  <1>1. CASE Alg(c) = "oneshot"
    BY <1>1, Kernel
  <1>2. CASE Alg(c) = "pairwise"
    BY <1>2, Kernel DEF Slot
  <1>3. CASE Alg(c) = "ring"
    <2>1. q = RingNext(r)
      BY <1>3 DEF Targets
    <2>2. Position(r) \in 0 .. 3 /\ Position(q) = (Position(r) + 1) % 4
      BY <2>1, Ring
    <2>3. j \in 1 .. 6 /\ k \in 1 .. 6
      BY <1>3, Kernel
    <2>4. (j - 1) \div 4 = (k - 1) \div 4
      <3>1. \A n \in 0 .. 5 : n \div 4 = IF n < 4 THEN 0 ELSE 1
        OBVIOUS
      <3>2. j - 1 \in 0 .. 5 /\ k - 1 \in 0 .. 5
        BY <2>3
      <3>3. (j - 1) \div 4 \in Int /\ (k - 1) \div 4 \in Int
        BY <3>1, <3>2
      <3>4. 4 + ((j - 1) \div 4) = 4 + ((k - 1) \div 4)
        BY <1>3 DEF Slot
      <3> QED
        BY <3>3, <3>4
    <2>5. (Position(r) + 8 - (j - 1)) % 4 = (Position(q) + 8 - (k + 1 - 1)) % 4
      BY <1>3 DEF Quarter, Received
    <2>6. j <= 4 <=> k <= 4
      <3>1. \A n \in 0 .. 5 : n \div 4 = IF n < 4 THEN 0 ELSE 1
        OBVIOUS
      <3>2. j - 1 \in 0 .. 5 /\ k - 1 \in 0 .. 5
        BY <2>3
      <3>3. (j - 1 < 4) <=> (k - 1 < 4)
        BY <2>4, <3>1, <3>2
      <3> QED
        BY <2>3, <3>3
    <2>7. (Position(r) + 9 - j) % 4 = (((Position(r) + 1) % 4) + 8 - k) % 4
      BY <2>2, <2>3, <2>5
    <2>8. ASSUME NEW n \in 0 .. 3, NEW x \in 1 .. 6, NEW y \in 1 .. 6,
                 (n + 9 - x) % 4 = (((n + 1) % 4) + 8 - y) % 4
          PROVE  x = y \/ x = y + 4 \/ y = x + 4
      <3>1. \A m \in 0 .. 12 : m % 4 = IF m < 4 THEN m ELSE IF m < 8 THEN m - 4
                                       ELSE IF m < 12 THEN m - 8 ELSE 0
        OBVIOUS
      <3>2. (n + 1) % 4 = IF n = 3 THEN 0 ELSE n + 1
        BY <3>1
      <3> DEFINE u == n + 9 - x
                 v == ((n + 1) % 4) + 8 - y
      <3>3. u \in 0 .. 12 /\ v \in 0 .. 12 /\ u % 4 = v % 4
        BY <2>8, <3>2
      <3>4. u = v \/ u = v + 4 \/ v = u + 4 \/ u = v + 8 \/ v = u + 8
               \/ u = v + 12 \/ v = u + 12
        <4> HIDE DEF u, v
        <4> QED
          BY <3>1, <3>3
      <3> QED
        BY <3>2, <3>4
    <2>9. k = j \/ k = j + 4 \/ j = k + 4
      <3> DEFINE n == Position(r)
      <3>1. n \in 0 .. 3 /\ (n + 9 - j) % 4 = (((n + 1) % 4) + 8 - k) % 4
        BY <2>2, <2>7
      <3> HIDE DEF n
      <3> QED
        BY <2>3, <2>8, <3>1
    <2> QED
      BY <2>3, <2>6, <2>9
  <1> QED
    BY <1>1, <1>2, <1>3, Kernel

(* A delivery never hits a payload its target has still to read, although  *)
(* no read is acknowledged: the halves keep apart what the epochs tell     *)
(* apart, and the slots the steps of a call.                               *)
THEOREM NoOverwriteAlways == Spec => []NoOverwrite
  <1>1. IInv => NoOverwrite
    <2> SUFFICES ASSUME IInv, NEW r \in Rank, NEW b \in Blocks, NEW q \in owing[r][b],
                        ~ Idle(q),
                        NEW i \in Owned(call[r], b) \cap Quarter(r, call[r], step[r][b]),
                        NEW k \in 1 .. Steps(call[q]),
                        Awaits(q, k, Half(r, b), Slot(r, call[r], step[r][b]), i)
                 PROVE  call[q] = call[r] /\ k = step[r][b]
      BY DEF NoOverwrite
    <2>1. TypeOK /\ Shape /\ Quiet
      BY DEF IInv
    <2>2. pc[r][b] = "push" /\ q \in Targets(r, call[r], step[r][b])
      BY <2>1 DEF Quiet, Shape
    <2>3. q \in Rank
      BY <2>2, Routes
    <2>4. call[q] \in Calls
      <3>1. PICK x \in Blocks : pc[q][x] # "idle"
        BY DEF Idle
      <3> QED
        BY <2>1, <2>3, <3>1, StateTypes DEF Shape, Active
    <2>5. i \in Nat
      <3>1. call[r] \in Calls
        BY <2>1, <2>2, StateTypes DEF Shape, Active
      <3>2. plan[call[r]] \in Nat /\ i \in 0 .. plan[call[r]] - 1
        BY <2>1, <3>1 DEF Owned, TypeOK
      <3> QED
        BY <3>2
    <2> DEFINE o == Owner(call[q], i)
    <2>6. o \in Blocks
      <3>1. Grid(call[q]) \in 1 .. NBlocks /\ NBlocks \in Nat
        BY <2>1, <2>4, GridType, SizeAssumption
      <3>2. i \div 4 \in Nat
        BY <2>5
      <3>3. \A n \in Nat : n % Grid(call[q]) \in 0 .. Grid(call[q]) - 1
        BY <3>1
      <3>4. o \in 0 .. Grid(call[q]) - 1
        BY <2>5, <3>2, <3>3 DEF Owner
      <3> QED
        BY <3>1, <3>4 DEF Blocks
    <2>7. /\ pc[q][o] # "idle" /\ Half(q, o) = Half(r, b)
          /\ i \in Received(q, call[q], k)
      BY DEF Awaits
    <2>8. PICK s \in Sources(q, call[q], k) :
             Slot(r, call[r], step[r][b]) = Slot(s, call[q], k)
      BY DEF Awaits
    <2> HIDE DEF o
    <2>9. call[r] = call[q]
      BY <2>2, <2>3, <2>6, <2>7, HalvesTell
    <2>10. step[r][b] \in 1 .. Steps(call[r])
      BY <2>1, <2>2, StateTypes, Kernel DEF Shape
    <2>11. k = step[r][b]
      BY <2>2, <2>5, <2>7, <2>8, <2>9, <2>10, SlotsTell
    <2> QED
      BY <2>9, <2>11
  <1> QED
    BY <1>1, Invariant, PTL

-----------------------------------------------------------------------------
(* The sums.                                                               *)

(* Each position of the ring has one rank.                                 *)
LEMMA OnePosition ==
  /\ \A r \in Rank, q \in Rank : Position(r) = Position(q) => r = q
  /\ \A p \in Nat : At(p) \in Rank /\ Position(At(p)) = p % 4
  <1> DEFINE b == Pair[0]
             d == Cross[0]
             c == Pair[Cross[0]]
  <1>1. 0 \in Rank
    BY DEF Rank
  <1>2. /\ b \in Rank /\ d \in Rank /\ c \in Rank /\ Rank = {0, b, d, c}
        /\ b # 0 /\ d # 0 /\ b # d
    BY <1>1, Partners
  <1>3. c # d /\ c # b /\ c # 0
    BY <1>1, <1>2, Partners
  <1> HIDE DEF b, c, d
  <1>4. Position(0) = 0 /\ Position(b) = 1 /\ Position(c) = 2 /\ Position(d) = 3
    BY <1>2, <1>3 DEF Position, b, d
  <1>5. \A r \in Rank, q \in Rank : Position(r) = Position(q) => r = q
    BY <1>2, <1>4
  <1>6. ASSUME NEW p \in Nat
        PROVE  At(p) \in Rank /\ Position(At(p)) = p % 4
    <2>1. p % 4 \in {0, 1, 2, 3}
      OBVIOUS
    <2>2. \E r \in Rank : Position(r) = p % 4
      BY <1>1, <1>2, <1>4, <2>1
    <2> QED
      BY <2>2 DEF At
  <1> QED
    BY <1>5, <1>6

(* How far a rank is from a chunk's first link, and what that says of the  *)
(* steps in which it sends the chunk.                                      *)
LEMMA Distances ==
  ASSUME NEW r \in Rank, NEW i \in Nat
  PROVE  /\ Distance(r, i) \in 0 .. 3
         /\ At(i + Distance(r, i)) = r
         /\ \A j \in 0 .. 6 :
               i % 4 = (Position(r) + 8 - j) % 4
                 <=> j = Distance(r, i) \/ j = Distance(r, i) + 4
         /\ Distance(RingNext(r), i) = IF Distance(r, i) = 3 THEN 0 ELSE Distance(r, i) + 1
  <1> DEFINE p == Position(r)
             m == i % 4
             d == Distance(r, i)
  <1>1. p \in 0 .. 3 /\ m \in 0 .. 3
    BY Ring
  <1>2. \A n \in 0 .. 15 : n % 4 = IF n < 4 THEN n ELSE IF n < 8 THEN n - 4
                                   ELSE IF n < 12 THEN n - 8 ELSE n - 12
    OBVIOUS
  <1>3. d = (p + 4 - m) % 4
    BY DEF Distance
  <1>4. Position(RingNext(r)) = (p + 1) % 4
    BY Ring
  <1>5. Distance(RingNext(r), i) = (((p + 1) % 4) + 4 - m) % 4
    BY <1>4 DEF Distance
  <1>6. (i + d) % 4 = p
    <2>1. d \in 0 .. 3 /\ (m + d) % 4 = p
      <3> HIDE DEF p, m, d
      <3>1. d = IF p >= m THEN p - m ELSE p + 4 - m
        BY <1>1, <1>2, <1>3
      <3> QED
        BY <1>1, <1>2, <3>1
    <2>2. \A x \in 0 .. 3 : (i + x) % 4 = ((i % 4) + x) % 4
      OBVIOUS
    <2> QED
      BY <2>1, <2>2
  <1> HIDE DEF p, m, d
  <1>7. d = IF p >= m THEN p - m ELSE p + 4 - m
    BY <1>1, <1>2, <1>3
  <1>8. d \in 0 .. 3
    BY <1>1, <1>7
  <1>9. At(i + d) = r
    <2>1. i + d \in Nat
      BY <1>8
    <2>2. At(i + d) \in Rank /\ Position(At(i + d)) = p
      BY <1>6, <2>1, OnePosition
    <2> QED
      BY <2>2, OnePosition DEF p
  <1>10. ASSUME NEW j \in 0 .. 6
         PROVE  m = (p + 8 - j) % 4 <=> j = d \/ j = d + 4
    <2>1. p + 8 - j \in 0 .. 15
      BY <1>1
    <2>2. (p + 8 - j) % 4 = IF p + 8 - j < 4 THEN p + 8 - j
                            ELSE IF p + 8 - j < 8 THEN p + 4 - j
                            ELSE p - j
      BY <1>1, <1>2, <2>1
    <2> QED
      BY <1>1, <1>7, <2>2
  <1>11. Distance(RingNext(r), i) = IF d = 3 THEN 0 ELSE d + 1
    <2>1. (p + 1) % 4 = IF p = 3 THEN 0 ELSE p + 1
      BY <1>1, <1>2
    <2>2. Distance(RingNext(r), i) = IF p = 3 THEN (4 - m) % 4 ELSE (p + 5 - m) % 4
      BY <1>1, <1>5, <2>1
    <2> QED
      BY <1>1, <1>2, <1>7, <2>2
  <1> QED
    BY <1>8, <1>9, <1>10, <1>11 DEF p, m, d

(* A ring step adds a link, or passes the total on.                        *)
LEMMA RingReceives ==
  ASSUME NEW c, NEW s \in Rank, NEW i \in Nat, NEW k \in 1 .. 6,
         i % 4 = (Position(s) + 8 - (k - 1)) % 4
  PROVE  LET r == RingNext(s) IN
         RingAfter(c, r, i, k) =
            IF k <= 3 THEN Add(RingAfter(c, s, i, k - 1), RingAfter(c, r, i, k - 1))
                      ELSE RingAfter(c, s, i, k - 1)
  <1> DEFINE r == RingNext(s)
             d == Distance(s, i)
             e == Distance(r, i)
  <1>1. r \in Rank
    BY Ring
  <1>2. d \in 0 .. 3 /\ (k - 1 = d \/ k - 1 = d + 4) /\ e = IF d = 3 THEN 0 ELSE d + 1
    BY Distances
  <1>3. At(i + e) = r /\ e \in 0 .. 3
    BY <1>1, Distances
  <1>4. RingAfter(c, r, i, k) = IF k >= e + 4 THEN RingTotal(c, i, 4)
                                ELSE IF k >= e THEN RingTotal(c, i, e + 1) ELSE Input(c, r, i)
    BY DEF RingAfter
  <1>5. RingAfter(c, r, i, k - 1) = IF k - 1 >= e + 4 THEN RingTotal(c, i, 4)
                                    ELSE IF k - 1 >= e THEN RingTotal(c, i, e + 1)
                                    ELSE Input(c, r, i)
    BY DEF RingAfter
  <1>6. RingAfter(c, s, i, k - 1) = IF k - 1 >= d + 4 THEN RingTotal(c, i, 4)
                                    ELSE IF k - 1 >= d THEN RingTotal(c, i, d + 1)
                                    ELSE Input(c, s, i)
    BY DEF RingAfter
  <1> HIDE DEF r, d, e
  <1>7. RingTotal(c, i, 2) = Add(RingTotal(c, i, 1), Input(c, At(i + 1), i))
    BY DEF RingTotal
  <1>8. RingTotal(c, i, 3) = Add(RingTotal(c, i, 2), Input(c, At(i + 2), i))
    BY DEF RingTotal
  <1>9. RingTotal(c, i, 4) = Add(RingTotal(c, i, 3), Input(c, At(i + 3), i))
    BY DEF RingTotal
  <1>10. CASE k <= 3
    <2>1. k = d + 1 /\ e = k /\ d < 3
      BY <1>2, <1>10
    <2>2. RingAfter(c, s, i, k - 1) = RingTotal(c, i, k)
      BY <1>2, <1>6, <2>1
    <2>3. RingAfter(c, r, i, k - 1) = Input(c, r, i)
      BY <1>5, <2>1
    <2>4. RingAfter(c, r, i, k) = RingTotal(c, i, k + 1)
      BY <1>4, <2>1
    <2>5. RingTotal(c, i, k + 1) = Add(RingTotal(c, i, k), Input(c, At(i + k), i))
      <3>1. k = 1 \/ k = 2 \/ k = 3
        BY <1>10
      <3> QED
        BY <1>7, <1>8, <1>9, <3>1
    <2>6. At(i + k) = r
      BY <1>3, <2>1
    <2> QED
      BY <1>10, <2>2, <2>3, <2>4, <2>5, <2>6 DEF r
  <1>11. CASE k > 3
    <2>1. d = 3 \/ k - 1 = d + 4
      BY <1>2, <1>11
    <2>2. RingAfter(c, s, i, k - 1) = RingTotal(c, i, 4)
      <3>1. CASE k - 1 = d + 4
        BY <1>2, <1>6, <3>1
      <3>2. CASE d = 3
        BY <1>2, <1>6, <1>11, <3>2
      <3> QED
        BY <2>1, <3>1, <3>2
    <2>3. k >= e + 4
      BY <1>2, <1>11
    <2> QED
      BY <1>4, <1>11, <2>2, <2>3 DEF r
  <1> QED
    BY <1>10, <1>11

(* A ring step leaves the other chunks alone, and the last one leaves the  *)
(* total everywhere.                                                       *)
LEMMA RingKeeps ==
  ASSUME NEW c, NEW r \in Rank, NEW i \in Nat
  PROVE  /\ RingAfter(c, r, i, 0) = Input(c, r, i)
         /\ RingAfter(c, r, i, 6) = RingTotal(c, i, 4)
         /\ \A k \in 1 .. 6 : i % 4 # (Position(r) + 8 - k) % 4
              => RingAfter(c, r, i, k) = RingAfter(c, r, i, k - 1)
  <1> DEFINE d == Distance(r, i)
  <1>1. /\ d \in 0 .. 3 /\ At(i + d) = r
        /\ \A j \in 0 .. 6 : i % 4 = (Position(r) + 8 - j) % 4 <=> j = d \/ j = d + 4
    BY Distances
  <1>2. \A k : RingAfter(c, r, i, k) = IF k >= d + 4 THEN RingTotal(c, i, 4)
                                       ELSE IF k >= d THEN RingTotal(c, i, d + 1)
                                       ELSE Input(c, r, i)
    BY DEF RingAfter
  <1> HIDE DEF d
  <1>3. RingAfter(c, r, i, 0) = Input(c, r, i)
    <2>1. CASE d = 0
      <3>1. RingAfter(c, r, i, 0) = RingTotal(c, i, 1)
        BY <1>2, <2>1
      <3>2. RingTotal(c, i, 1) = Input(c, At(i + 0), i)
        BY DEF RingTotal
      <3> QED
        BY <1>1, <2>1, <3>1, <3>2
    <2>2. CASE d > 0
      BY <1>1, <1>2, <2>2
    <2> QED
      BY <1>1, <2>1, <2>2
  <1>4. RingAfter(c, r, i, 6) = RingTotal(c, i, 4)
    <2>1. CASE d = 3
      BY <1>2, <2>1
    <2>2. CASE d < 3
      BY <1>1, <1>2, <2>2
    <2> QED
      BY <1>1, <2>1, <2>2
  <1>5. ASSUME NEW k \in 1 .. 6, i % 4 # (Position(r) + 8 - k) % 4
        PROVE  RingAfter(c, r, i, k) = RingAfter(c, r, i, k - 1)
    <2>1. k # d /\ k # d + 4
      BY <1>1, <1>5
    <2>2. (k >= d + 4 <=> k - 1 >= d + 4) /\ (k >= d <=> k - 1 >= d)
      BY <1>1, <2>1
    <2> QED
      BY <1>2, <2>2
  <1> QED
    BY <1>3, <1>4, <1>5

(* The two pairs' sums added up, the same on every rank.                   *)
LEMMA PairsAgree ==
  ASSUME NEW c \in Calls, NEW r \in Rank, NEW i \in Chunks
  PROVE  CrossTotal(c, r, i) = Add(PairTotal(c, 0, i), PairTotal(c, Cross[0], i))
  <1> DEFINE b == Pair[0]
             d == Cross[0]
             e == Cross[Pair[0]]
             P(q) == PairTotal(c, q, i)
  <1>1. 0 \in Rank /\ Rank \subseteq Nat
    BY DEF Rank
  <1>2. /\ b \in Rank /\ d \in Rank /\ Rank = {0, b, d, Pair[d]}
        /\ Pair[b] = 0 /\ Cross[d] = 0 /\ d # 0
    BY <1>1, Partners
  <1>3. e = Pair[d] /\ Pair[e] = d /\ Cross[e] = b /\ e \in Rank /\ e # b
    <2>1. e \in Rank /\ e # b /\ Cross[e] = b /\ Pair[b] # e
      BY <1>2, Partners
    <2>2. e # 0
      BY <1>2, <2>1
    <2>3. e # d
      BY <1>1, <1>2, <2>1, Partners
    <2>4. e = Pair[d]
      BY <1>2, <2>1, <2>2, <2>3
    <2> QED
      BY <1>2, <2>1, <2>4, Partners
  <1>4. ASSUME NEW q \in Rank
        PROVE  P(Pair[q]) = P(q)
    <2>1. Pair[q] \in Rank /\ Pair[Pair[q]] = q /\ Pair[q] # q
      BY Partners
    <2>2. (Pair[q] < q) <=> ~ (q < Pair[q])
      <3>1. \A x \in Nat, y \in Nat : x # y => ((x < y) <=> ~ (y < x))
        OBVIOUS
      <3>2. q \in Nat /\ Pair[q] \in Nat
        BY <1>1, <2>1
      <3> QED
        BY <2>1, <3>1, <3>2
    <2> QED
      BY <2>1, <2>2 DEF PairTotal
  <1>5. P(b) = P(0) /\ P(e) = P(d)
    BY <1>1, <1>2, <1>3, <1>4
  <1>6. Cross[b] = e /\ Cross[0] = d /\ Cross[d] = 0 /\ Cross[e] = b
    BY <1>2, <1>3
  <1>7. 0 < d
    BY <1>1, <1>2
  <1>8. b < e \/ (e < b /\ Add(P(0), P(d)) = Add(P(d), P(0)))
    <2>1. b < e \/ e < b
      BY <1>1, <1>2, <1>3
    <2> QED
      BY <2>1, SumAssumption
  <1>9. \A q \in Rank : CrossTotal(c, q, i) = IF q < Cross[q] THEN Add(P(q), P(Cross[q]))
                                              ELSE Add(P(Cross[q]), P(q))
    BY DEF CrossTotal
  <1>10. r = 0 \/ r = b \/ r = d \/ r = e
    BY <1>2, <1>3
  <1> HIDE DEF b, d, e, P
  <1>11. CASE r = 0
    BY <1>1, <1>6, <1>7, <1>9, <1>11 DEF P, d
  <1>12. CASE r = d
    <2>1. ~ (d < 0)
      BY <1>1, <1>2
    <2>2. CrossTotal(c, d, i) = Add(P(0), P(d))
      BY <1>2, <1>6, <1>9, <2>1
    <2> QED
      BY <1>12, <2>2 DEF P, d
  <1>13. CASE r = b
    <2>1. CrossTotal(c, b, i) = IF b < e THEN Add(P(0), P(d)) ELSE Add(P(d), P(0))
      BY <1>2, <1>5, <1>6, <1>9
    <2>2. CrossTotal(c, b, i) = Add(P(0), P(d))
      BY <1>8, <2>1
    <2> QED
      BY <1>13, <2>2 DEF P, d
  <1>14. CASE r = e
    <2>1. CrossTotal(c, e, i) = IF e < b THEN Add(P(d), P(0)) ELSE Add(P(0), P(d))
      BY <1>3, <1>5, <1>6, <1>9
    <2>2. CrossTotal(c, e, i) = Add(P(0), P(d))
      <3>1. b < e => ~ (e < b)
        BY <1>1, <1>2, <1>3
      <3> QED
        BY <1>8, <2>1, <3>1
    <2> QED
      BY <1>14, <2>2 DEF P, d
  <1> QED
    BY <1>10, <1>11, <1>12, <1>13, <1>14

(* Every kernel starts from the input and ends with the total.             *)
LEMMA ValueEnds ==
  ASSUME TypeOK, NEW c \in Calls, NEW r \in Rank, NEW i \in 0 .. plan[c] - 1
  PROVE  /\ i \in Nat /\ i \in Chunks
         /\ Value(c, r, i, 0) = Input(c, r, i)
         /\ Value(c, r, i, Steps(c)) = TotalOf(c, i)
  <1>1. plan[c] \in 1 .. NChunks /\ NChunks \in Nat
    BY SizeAssumption DEF TypeOK
  <1>2. i \in Nat /\ i \in Chunks
    BY <1>1 DEF Chunks
  <1>3. CASE Alg(c) = "oneshot"
    BY <1>2, <1>3, Kernel DEF Value
  <1>4. CASE Alg(c) = "pairwise"
    <2>1. Steps(c) = 2 /\ Value(c, r, i, 2) = CrossTotal(c, r, i)
      BY <1>4, Kernel DEF Value
    <2>2. Value(c, r, i, 0) = Input(c, r, i)
      BY <1>4 DEF Value
    <2>3. TotalOf(c, i) = Add(PairTotal(c, 0, i), PairTotal(c, Cross[0], i))
      BY <1>4 DEF TotalOf
    <2> QED
      BY <1>2, <2>1, <2>2, <2>3, PairsAgree
  <1>5. CASE Alg(c) = "ring"
    <2>1. Steps(c) = 6 /\ \A k : Value(c, r, i, k) = RingAfter(c, r, i, k)
      BY <1>5, Kernel DEF Value
    <2>2. TotalOf(c, i) = RingTotal(c, i, 4)
      BY <1>5 DEF TotalOf
    <2> QED
      BY <1>2, <2>1, <2>2, RingKeeps
  <1> QED
    BY <1>3, <1>4, <1>5, Kernel

-----------------------------------------------------------------------------
(* Deliveries.                                                             *)

LEMMA OwnerType ==
  ASSUME TypeOK, NEW c \in Calls, NEW i \in 0 .. plan[c] - 1
  PROVE  /\ Owner(c, i) \in Blocks /\ Owner(c, i) < Grid(c)
         /\ i \in Owned(c, Owner(c, i)) /\ i \in Nat
  <1>1. Grid(c) \in 1 .. NBlocks /\ NBlocks \in Nat /\ plan[c] \in Nat
    BY GridType, SizeAssumption DEF TypeOK
  <1>2. i \in Nat /\ i \div 4 \in Nat
    BY <1>1
  <1>3. \A n \in Nat : n % Grid(c) \in 0 .. Grid(c) - 1
    BY <1>1
  <1>4. Owner(c, i) \in 0 .. Grid(c) - 1
    BY <1>2, <1>3 DEF Owner
  <1> QED
    BY <1>1, <1>2, <1>4 DEF Blocks, Owned

(* Whoever is waited for has the waiter among its targets, and what it     *)
(* sends is what the waiter receives.                                      *)
LEMMA Meets ==
  ASSUME NEW r \in Rank, NEW c, NEW k \in 1 .. Steps(c), NEW s \in Sources(r, c, k)
  PROVE  /\ s \in Rank /\ r \in Targets(s, c, k) /\ s # r
         /\ Received(r, c, k) = Quarter(s, c, k)
  <1>1. CASE Alg(c) = "oneshot"
    BY <1>1 DEF Sources, Targets, Received, Quarter
  <1>2. CASE Alg(c) = "pairwise"
    <2>1. s = Exchange(r, k)
      BY <1>2 DEF Sources
    <2>2. s \in Rank /\ Exchange(s, k) = r /\ s # r
      BY <2>1, Partners DEF Exchange
    <2> QED
      BY <1>2, <2>2 DEF Targets, Received, Quarter
  <1>3. CASE Alg(c) = "ring"
    <2>1. s = RingPrevious(r)
      BY <1>3 DEF Sources
    <2>2. s \in Rank /\ RingNext(s) = r /\ Position(r) = (Position(s) + 1) % 4
          /\ Position(s) \in 0 .. 3
      BY <2>1, Ring
    <2>3. s # r
      BY <2>2
    <2>4. k \in 1 .. 6
      BY <1>3, Kernel
    <2>5. (Position(r) + 8 - (k + 1 - 1)) % 4 = (Position(s) + 8 - (k - 1)) % 4
      <3> DEFINE p == Position(s)
                 q == Position(r)
      <3>1. p \in 0 .. 3 /\ q = IF p = 3 THEN 0 ELSE p + 1
        BY <2>2
      <3> HIDE DEF p, q
      <3>2. \A n \in 0 .. 15 : n % 4 = IF n < 4 THEN n ELSE IF n < 8 THEN n - 4
                                       ELSE IF n < 12 THEN n - 8 ELSE n - 12
        OBVIOUS
      <3>3. q + 8 - (k + 1 - 1) \in 0 .. 15 /\ p + 8 - (k - 1) \in 0 .. 15
        BY <2>4, <3>1
      <3>4. (q + 8 - (k + 1 - 1)) % 4 = (p + 8 - (k - 1)) % 4
        BY <2>4, <3>1, <3>2, <3>3
      <3> QED
        BY <3>4 DEF p, q
    <2> QED
      BY <1>3, <2>2, <2>3, <2>5 DEF Targets, Received, Quarter
  <1> QED
    BY <1>1, <1>2, <1>3, Kernel

LEMMA SourceOf ==
  ASSUME NEW s \in Rank, NEW c, NEW k, NEW q \in Targets(s, c, k)
  PROVE  q \in Rank /\ s \in Sources(q, c, k)
  <1>1. CASE Alg(c) = "oneshot"
    BY <1>1 DEF Sources, Targets
  <1>2. CASE Alg(c) = "pairwise"
    <2>1. q = Exchange(s, k)
      BY <1>2 DEF Targets
    <2>2. q \in Rank /\ Exchange(q, k) = s
      BY <2>1, Partners DEF Exchange
    <2> QED
      BY <1>2, <2>2 DEF Sources
  <1>3. CASE Alg(c) = "ring"
    <2>1. q = RingNext(s)
      BY <1>3 DEF Targets
    <2>2. q \in Rank /\ RingPrevious(q) = s
      BY <2>1, Ring
    <2> QED
      BY <1>3, <2>2 DEF Sources
  <1> QED
    BY <1>1, <1>2, <1>3, Kernel

(* A cell tells who writes it, and in which step of the call.              *)
LEMMA OneWriter ==
  ASSUME NEW s \in Rank, NEW r \in Rank, NEW c, NEW k \in 1 .. Steps(c), NEW j \in 1 .. Steps(c),
         NEW q \in Targets(s, c, k), q \in Targets(r, c, j),
         Slot(s, c, k) = Slot(r, c, j), NEW i \in Nat,
         i \in Quarter(s, c, k), i \in Quarter(r, c, j)
  PROVE  s = r /\ k = j
  <1>1. q \in Rank /\ r \in Sources(q, c, j) /\ s \in Sources(q, c, k)
    BY SourceOf
  <1>2. i \in Received(q, c, j)
    BY <1>1, Meets
  <1>3. j = k
    BY <1>1, <1>2, SlotsTell
  <1>4. CASE Alg(c) = "oneshot"
    BY <1>3, <1>4 DEF Slot
  <1>5. CASE Alg(c) = "pairwise"
    BY <1>1, <1>3, <1>5 DEF Sources
  <1>6. CASE Alg(c) = "ring"
    BY <1>1, <1>3, <1>6 DEF Sources
  <1> QED
    BY <1>3, <1>4, <1>5, <1>6, Kernel

(* The half a CTA at work uses.                                            *)
LEMMA HalfOf ==
  ASSUME IInv, NEW r \in Rank, NEW b \in Blocks, pc[r][b] # "idle"
  PROVE  Half(r, b) = (call[r] - 1) % 2 /\ call[r] \in Calls /\ Active(r, b)
  <1>1. TypeOK /\ Shape /\ Epochs
    BY DEF IInv
  <1>2. Active(r, b)
    BY <1>1 DEF Shape
  <1>3. epoch[r][b] = call[r] - 1
    BY <1>1, <1>2 DEF Epochs, Lead
  <1>4. call[r] \in Calls
    BY <1>1, <1>2, StateTypes DEF Active
  <1> QED
    BY <1>2, <1>3, <1>4 DEF Half

(* A counter that has reached the expected value came with its payload.    *)
LEMMA CounterTells ==
  ASSUME IInv, OwingUnsent, NEW r \in Rank, NEW b \in Blocks, pc[r][b] = "wait",
         NEW s \in Sources(r, call[r], step[r][b]),
         ~ (start[r][b][s] < Expected(r, b))
  PROVE  Delivered(s, call[r], b, step[r][b], r)
  <1> DEFINE c == call[r]
             k == step[r][b]
  <1>1. TypeOK /\ Shape /\ Quiet /\ StartBound /\ FlagSync /\ Adjacent
    BY DEF IInv
  <1>2. s \in Rank
    BY Routes
  <1>3. /\ call[s] \in Nat /\ c \in Nat /\ flag[s][b] \in Nat /\ flag[r][b] \in Nat
        /\ start[r][b][s] \in Nat /\ k \in 1 .. 6 /\ step[s][b] \in 1 .. 6
        /\ pc[s][b] \in {"idle", "push", "wait", "reduce"}
    BY <1>1, <1>2, StateTypes
  <1>4. /\ Passed(s, b) \in Nat /\ Publishing(s, b) \in 0 .. 1 /\ Waits(s, b) \in 0 .. 6
        /\ Passed(s, b) + Publishing(s, b) <= Waits(s, b)
        /\ Passed(r, b) \in Nat
    BY <1>1, <1>2, CounterTypes
  <1>5. Active(r, b) /\ Passed(r, b) = k - 1
    <2>1. Active(r, b)
      BY <1>1 DEF Shape
    <2> QED
      BY <2>1 DEF Passed
  <1>6. start[r][b][s] >= flag[r][b] + 1
    BY <1>3 DEF Expected
  <1>7. start[r][b][s] <= flag[s][b] + Publishing(s, b)
    BY <1>1, <1>2 DEF StartBound
  <1>8. call[s] > c \/ call[s] = c \/ c = call[s] + 1
    BY <1>1, <1>2, <1>3 DEF Adjacent
  <1>9. CASE c = call[s] + 1
    <2>1. flag[r][b] - Passed(r, b) = flag[s][b] - Passed(s, b) + Waits(s, b)
      BY <1>1, <1>2, <1>9 DEF FlagSync, Began, Ends
    <2> HIDE DEF c, k
    <2> QED
      BY <1>3, <1>4, <1>6, <1>7, <2>1
  <1>10. CASE call[s] = c
    <2>1. flag[r][b] - Passed(r, b) = flag[s][b] - Passed(s, b)
      BY <1>1, <1>2, <1>10 DEF FlagSync, Began
    <2>2. Passed(s, b) + Publishing(s, b) >= k
      <3> HIDE DEF c, k
      <3> QED
        BY <1>3, <1>4, <1>5, <1>6, <1>7, <2>1
    <2>3. Active(s, b)
      BY <1>5, <1>10 DEF Active
    <2>4. SUFFICES ASSUME pc[s][b] # "idle", ~ (step[s][b] > k)
                   PROVE  step[s][b] = k /\ r \notin owing[s][b]
      BY <1>10 DEF Delivered
    <2>5. Passed(s, b) + Publishing(s, b) = step[s][b]
      BY <1>3, <2>3, <2>4 DEF Passed, Publishing
    <2>6. step[s][b] = k
      BY <1>3, <2>2, <2>4, <2>5
    <2>7. ASSUME r \in owing[s][b]
          PROVE  FALSE
      <3>1. pc[s][b] = "push"
        BY <1>1, <1>2, <2>7 DEF Quiet
      <3>2. Passed(s, b) = k - 1
        BY <2>3, <2>6, <3>1 DEF Passed
      <3>3. start[r][b][s] <= flag[s][b]
        BY <1>2, <2>7 DEF OwingUnsent
      <3> HIDE DEF c, k
      <3> QED
        BY <1>3, <1>5, <1>6, <2>1, <3>2, <3>3
    <2> QED
      BY <2>6, <2>7
  <1>11. CASE call[s] > c
    BY <1>11 DEF Delivered
  <1> QED
    BY <1>8, <1>9, <1>10, <1>11

-----------------------------------------------------------------------------
(* What the steps do to the data.                                          *)

LEMMA SameSums ==
  ASSUME plan' = plan
  PROVE  /\ \A c : Alg(c)' = Alg(c) /\ Steps(c)' = Steps(c) /\ Grid(c)' = Grid(c)
         /\ \A c, i : Owner(c, i)' = Owner(c, i) /\ TotalOf(c, i)' = TotalOf(c, i)
         /\ \A c, b : Owned(c, b)' = Owned(c, b)
         /\ \A r, c, k : /\ Targets(r, c, k)' = Targets(r, c, k)
                         /\ Sources(r, c, k)' = Sources(r, c, k)
                         /\ Slot(r, c, k)' = Slot(r, c, k)
                         /\ Quarter(r, c, k)' = Quarter(r, c, k)
         /\ \A c, r, i, k : Value(c, r, i, k)' = Value(c, r, i, k)
  <1>1. \A c : Alg(c)' = Alg(c)
    BY DEF Alg
  <1>2. \A c : Steps(c)' = Steps(c) /\ Grid(c)' = Grid(c)
    BY <1>1 DEF Steps, Grid
  <1>3. \A c, i : Owner(c, i)' = Owner(c, i) /\ TotalOf(c, i)' = TotalOf(c, i)
    <2>1. ASSUME NEW c, NEW i
          PROVE  Owner(c, i)' = Owner(c, i)
      <3>1. Alg(c)' = Alg(c) /\ Grid(c)' = Grid(c)
        BY <1>1, <1>2
      <3> QED
        BY <3>1 DEF Owner
    <2>2. ASSUME NEW c, NEW i
          PROVE  TotalOf(c, i)' = TotalOf(c, i)
      <3>1. Alg(c)' = Alg(c)
        BY <1>1
      <3> QED
        BY <3>1 DEF TotalOf
    <2> QED
      BY <2>1, <2>2
  <1>4. \A c, b : Owned(c, b)' = Owned(c, b)
    BY <1>3 DEF Owned
  <1>5. ASSUME NEW r, NEW c, NEW k
        PROVE  /\ Targets(r, c, k)' = Targets(r, c, k) /\ Sources(r, c, k)' = Sources(r, c, k)
               /\ Slot(r, c, k)' = Slot(r, c, k) /\ Quarter(r, c, k)' = Quarter(r, c, k)
    <2>1. Alg(c)' = Alg(c)
      BY <1>1
    <2>2. Targets(r, c, k)' = Targets(r, c, k) /\ Sources(r, c, k)' = Sources(r, c, k)
      BY <2>1 DEF Targets, Sources
    <2>3. Slot(r, c, k)' = Slot(r, c, k)
      BY <2>1 DEF Slot
    <2>4. Quarter(r, c, k)' = Quarter(r, c, k)
      BY <2>1 DEF Quarter
    <2> QED
      BY <2>2, <2>3, <2>4
  <1>6. ASSUME NEW c, NEW r, NEW i, NEW k
        PROVE  Value(c, r, i, k)' = Value(c, r, i, k)
    <2>1. Alg(c)' = Alg(c) /\ TotalOf(c, i)' = TotalOf(c, i)
      BY <1>1, <1>3
    <2>2. Alg(c) \in {"oneshot", "pairwise", "ring"}
      BY Kernel
    <2> QED
      BY <2>1, <2>2 DEF Value
  <1> QED
    BY <1>1, <1>2, <1>3, <1>4, <1>5, <1>6

(* A payload stays what it is while its memory does, unless it is newly    *)
(* delivered.                                                              *)
LEMMA PayloadStays ==
  ASSUME TypeOK, Payload, plan' = plan, buf' = buf,
         \A c \in Calls, s \in Rank : \A k \in 1 .. Steps(c) : \A q \in Targets(s, c, k) :
            \A b \in Blocks : b < Grid(c) =>
               /\ Delivered(s, c, b, k, q)' => Delivered(s, c, b, k, q)
               /\ Unread(q, c, b, k)' => Unread(q, c, b, k)
  PROVE  Payload'
  <1>1. ASSUME NEW c \in Calls, NEW s \in Rank, NEW k \in 1 .. Steps(c),
               NEW q \in Targets(s, c, k), NEW i \in Quarter(s, c, k),
               Delivered(s, c, Owner(c, i), k, q)', Unread(q, c, Owner(c, i), k)'
        PROVE  buf'[q][<<(c - 1) % 2, Slot(s, c, k), i>>] = Value(c, s, i, k - 1)
    <2>1. i \in 0 .. plan[c] - 1
      BY DEF Quarter
    <2>2. Owner(c, i) \in Blocks /\ Owner(c, i) < Grid(c)
      BY <2>1, OwnerType
    <2>3. Owner(c, i)' = Owner(c, i)
      BY SameSums
    <2>4. Delivered(s, c, Owner(c, i), k, q) /\ Unread(q, c, Owner(c, i), k)
      BY <1>1, <2>2, <2>3 DEF Delivered, Unread
    <2> QED
      BY <2>4 DEF Payload
  <1>2. \A c, s, k : /\ Steps(c)' = Steps(c) /\ Targets(s, c, k)' = Targets(s, c, k)
                     /\ Quarter(s, c, k)' = Quarter(s, c, k)
                     /\ Slot(s, c, k)' = Slot(s, c, k)
    BY SameSums
  <1>3. \A c, r, i, k : Value(c, r, i, k)' = Value(c, r, i, k) /\ Owner(c, i)' = Owner(c, i)
    BY SameSums
  <1> QED
    BY <1>1, <1>2, <1>3 DEF Payload

(* Whoever has arrived stays delivered to.                                 *)
LEMMA ArrivedStays ==
  ASSUME TypeOK, Arrived, plan' = plan,
         \A s \in Rank, q \in Rank, b \in Blocks, c \in Nat, k \in Nat :
            Delivered(s, c, b, k, q) => Delivered(s, c, b, k, q)',
         \A x \in Rank, b \in Blocks : pc'[x][b] = "reduce" =>
            pc[x][b] = "reduce" /\ call'[x] = call[x] /\ step'[x][b] = step[x][b]
  PROVE  Arrived'
  <1>1. ASSUME NEW x \in Rank, NEW b \in Blocks, NEW c, NEW k, NEW s \in Sources(x, c, k),
               pc'[x][b] = "reduce", c = call'[x], k = step'[x][b]
        PROVE  Delivered(s, c, b, k, x)'
    <2>1. pc[x][b] = "reduce" /\ c = call[x] /\ k = step[x][b]
      BY <1>1
    <2>2. Delivered(s, c, b, k, x) /\ s \in Rank
      BY <2>1, Routes DEF Arrived
    <2>3. c \in Nat /\ k \in Nat
      BY <2>1, StateTypes
    <2> QED
      BY <2>2, <2>3
  <1>2. \A x, c, k : Sources(x, c, k)' = Sources(x, c, k)
    BY SameSums
  <1>3. ASSUME NEW x \in Rank, NEW b \in Blocks, pc'[x][b] = "reduce",
               NEW s \in Sources(x, call'[x], step'[x][b])
        PROVE  Delivered(s, call[x], b, step[x][b], x)'
    <2>1. PICK c, k : s \in Sources(x, c, k) /\ c = call'[x] /\ k = step'[x][b]
      OBVIOUS
    <2>2. Delivered(s, c, b, k, x)'
      BY <1>1, <1>3, <2>1
    <2> QED
      BY <2>1, <2>2 DEF Delivered
  <1> QED
    BY <1>2, <1>3 DEF Arrived

-----------------------------------------------------------------------------
(* The data of a launch: the inputs are in place, and nothing is delivered *)
(* or read.                                                                *)
LEMMA LaunchEffect ==
  ASSUME IInv, NEW r \in Rank, Launch(r)
  PROVE  /\ Idle(r) /\ call[r] + 1 \in Calls /\ call[r] \in Nat
         /\ plan' = plan /\ start' = start /\ flag' = flag /\ buf' = buf
         /\ call'[r] = call[r] + 1
         /\ \A q \in Rank \ {r} : call'[q] = call[q] /\ acc'[q] = acc[q] /\ pc'[q] = pc[q]
                                  /\ owing'[q] = owing[q] /\ step'[q] = step[q]
         /\ \A b \in Blocks :
               LET g == b < Grid(call[r] + 1) IN
               /\ pc'[r][b] = IF g THEN "push" ELSE "idle"
               /\ owing'[r][b] = IF g THEN Targets(r, call[r] + 1, 1) ELSE {}
               /\ step'[r][b] = 1
  <1>0. TypeOK
    BY DEF IInv
  <1>1. call \in [Rank -> 0 .. MaxCalls] /\ MaxCalls \in Nat
    BY <1>0, SizeAssumption DEF TypeOK
  <1>2. call[r] \in Nat /\ Idle(r) /\ call[r] + 1 \in Calls
    BY <1>1 DEF Launch, Calls
  <1>3. call'[r] = call[r] + 1 /\ \A q \in Rank \ {r} : call'[q] = call[q]
    BY <1>1 DEF Launch
  <1>4. \A q \in Rank \ {r} : acc'[q] = acc[q] /\ pc'[q] = pc[q]
                              /\ owing'[q] = owing[q] /\ step'[q] = step[q]
    BY DEF Launch
  <1>5. \A b \in Blocks : step'[r][b] = 1
    BY <1>0 DEF Launch, TypeOK
  <1>6. \A b \in Blocks : pc'[r][b] = IF b < Grid(call[r] + 1) THEN "push" ELSE "idle"
    BY <1>0 DEF Launch, TypeOK
  <1>7. \A b \in Blocks : owing'[r][b] = IF b < Grid(call[r] + 1)
                                         THEN Targets(r, call[r] + 1, 1) ELSE {}
    BY <1>0 DEF Launch, TypeOK
  <1> QED
    BY <1>2, <1>3, <1>4, <1>5, <1>6, <1>7 DEF Launch

LEMMA LaunchData ==
  ASSUME IInv, DataInv, NEW r \in Rank, Launch(r)
  PROVE  DataInv'
  <1> DEFINE n == call[r] + 1
  <1>0. /\ TypeOK /\ Shape /\ Quiet /\ StartBound
        /\ DataTypes /\ OwingUnsent /\ Arrived /\ Sums /\ Payload
    BY DEF IInv, DataInv
  <1>1. /\ Idle(r) /\ n \in Calls /\ call[r] \in Nat
        /\ plan' = plan /\ start' = start /\ flag' = flag /\ buf' = buf
        /\ call'[r] = n
        /\ \A q \in Rank \ {r} : call'[q] = call[q] /\ acc'[q] = acc[q] /\ pc'[q] = pc[q]
                                 /\ owing'[q] = owing[q] /\ step'[q] = step[q]
        /\ \A b \in Blocks : /\ pc'[r][b] = IF b < Grid(n) THEN "push" ELSE "idle"
                             /\ owing'[r][b] = IF b < Grid(n) THEN Targets(r, n, 1) ELSE {}
                             /\ step'[r][b] = 1
    BY LaunchEffect
  <1>2. acc' = [acc EXCEPT ![r] =
                  [i \in Chunks |-> IF i < plan[n] THEN Input(n, r, i) ELSE @[i]]]
    BY DEF Launch
  <1> HIDE DEF n
  <1>3. DataTypes'
    BY <1>0, <1>1, <1>2 DEF DataTypes
  <1>4. OwingUnsent'
    <2>1. ASSUME NEW x \in Rank, NEW b \in Blocks, NEW q \in owing'[x][b]
          PROVE  start'[q][b][x] <= flag'[x][b]
      <3>1. CASE x = r
        <4>1. q \in Rank
          BY <1>1, <3>1, Routes
        <4>2. start[q][b][r] <= flag[r][b] + Publishing(r, b) /\ pc[r][b] = "idle"
          BY <1>0, <1>1, <4>1 DEF StartBound, Idle
        <4>3. Publishing(r, b) = 0 /\ flag[r][b] \in Nat
          BY <1>0, <4>2, StateTypes DEF Publishing
        <4> QED
          BY <1>1, <3>1, <4>2, <4>3
      <3>2. CASE x # r
        BY <1>0, <1>1, <3>2 DEF OwingUnsent
      <3> QED
        BY <3>1, <3>2
    <2> QED
      BY <2>1 DEF OwingUnsent
  <1>5. Arrived'
    <2>1. ASSUME NEW s \in Rank, NEW q \in Rank, NEW b \in Blocks,
                 NEW c \in Nat, NEW k \in Nat, Delivered(s, c, b, k, q)
          PROVE  Delivered(s, c, b, k, q)'
      <3>1. CASE s = r
        <4>1. call[r] > c \/ call[r] = c
          BY <2>1, <3>1 DEF Delivered
        <4>2. call[r] + 1 > c
          <5>1. CASE call[r] = c
            BY <1>1, <5>1
          <5>2. CASE call[r] > c
            BY <1>1, <5>2
          <5> QED
            BY <4>1, <5>1, <5>2
        <4> QED
          BY <1>1, <3>1, <4>2 DEF Delivered, n
      <3>2. CASE s # r
        BY <1>1, <2>1, <3>2 DEF Delivered
      <3> QED
        BY <3>1, <3>2
    <2>2. ASSUME NEW x \in Rank, NEW b \in Blocks, pc'[x][b] = "reduce"
          PROVE  pc[x][b] = "reduce" /\ call'[x] = call[x] /\ step'[x][b] = step[x][b]
      BY <1>1, <2>2
    <2> QED
      BY <1>0, <1>1, <2>1, <2>2, ArrivedStays
  <1>6. Sums'
    <2>1. ASSUME NEW x \in Rank, call'[x] > 0, NEW i \in 0 .. plan[call'[x]] - 1
          PROVE  acc'[x][i] = Value(call'[x], x, i,
                    IF pc'[x][Owner(call'[x], i)] = "idle" THEN Steps(call'[x])
                    ELSE step'[x][Owner(call'[x], i)] - 1)
      <3>1. CASE x = r
        <4>1. i \in Chunks /\ i \in Nat /\ Value(n, r, i, 0) = Input(n, r, i)
          BY <1>0, <1>1, <2>1, <3>1, ValueEnds
        <4>2. Owner(n, i) \in Blocks /\ Owner(n, i) < Grid(n)
          BY <1>0, <1>1, <2>1, <3>1, OwnerType
        <4>3. pc'[r][Owner(n, i)] = "push" /\ step'[r][Owner(n, i)] = 1
          BY <1>1, <4>2
        <4>4. i < plan[n]
          BY <1>0, <1>1, <2>1, <3>1, SizeAssumption DEF TypeOK
        <4>5. acc'[r][i] = Input(n, r, i)
          BY <1>0, <1>2, <4>1, <4>4 DEF DataTypes
        <4> QED
          BY <1>1, <3>1, <4>1, <4>3, <4>5
      <3>2. CASE x # r
        BY <1>0, <1>1, <2>1, <3>2 DEF Sums
      <3> QED
        BY <3>1, <3>2
    <2>2. \A c : Steps(c)' = Steps(c)
      BY <1>1, SameSums
    <2>3. \A c, x, i, k : Value(c, x, i, k)' = Value(c, x, i, k) /\ Owner(c, i)' = Owner(c, i)
      BY <1>1, SameSums
    <2> QED
      BY <1>1, <2>1, <2>2, <2>3 DEF Sums
  <1>7. Payload'
    <2>1. ASSUME NEW c \in Calls, NEW s \in Rank, NEW k \in 1 .. Steps(c),
                 NEW q \in Targets(s, c, k), NEW b \in Blocks, b < Grid(c)
          PROVE  /\ Delivered(s, c, b, k, q)' => Delivered(s, c, b, k, q)
                 /\ Unread(q, c, b, k)' => Unread(q, c, b, k)
      <3>1. c \in Nat /\ k >= 1 /\ q \in Rank
        BY Routes, SizeAssumption, Kernel DEF Calls
      <3>2. ASSUME Delivered(s, c, b, k, q)'
            PROVE  Delivered(s, c, b, k, q)
        <4>1. CASE s # r
          BY <1>1, <3>2, <4>1 DEF Delivered
        <4>2. CASE s = r /\ c = n
          <5>1. pc'[r][b] = "push" /\ owing'[r][b] = Targets(r, c, 1) /\ step'[r][b] = 1
            BY <1>1, <2>1, <4>2
          <5>2. ~ (call'[r] > c)
            BY <1>1, <3>1, <4>2
          <5>3. k = 1 /\ q \notin Targets(r, c, 1)
            BY <3>1, <3>2, <4>2, <5>1, <5>2 DEF Delivered
          <5> QED
            BY <4>2, <5>3
        <4>3. CASE s = r /\ c # n
          <5>1. call'[r] > c \/ call'[r] = c
            BY <3>2, <4>3 DEF Delivered
          <5>2. call[r] > c \/ call[r] = c
            BY <1>1, <3>1, <4>3, <5>1 DEF n
          <5> QED
            BY <1>1, <4>3, <5>2 DEF Delivered, Idle
        <4> QED
          BY <4>1, <4>2, <4>3
      <3>3. ASSUME Unread(q, c, b, k)'
            PROVE  Unread(q, c, b, k)
        <4>1. CASE q # r
          BY <1>1, <3>1, <3>3, <4>1 DEF Unread
        <4>2. CASE q = r
          <5>1. call'[r] <= c
            BY <1>1, <3>1, <3>3, <4>2 DEF Unread, Calls
          <5>2. call[r] < c
            BY <1>1, <3>1, <5>1 DEF n
          <5> QED
            BY <4>2, <5>2 DEF Unread
        <4> QED
          BY <4>1, <4>2
      <3> QED
        BY <3>2, <3>3
    <2> QED
      BY <1>0, <1>1, <2>1, PayloadStays
  <1> QED
    BY <1>3, <1>4, <1>5, <1>6, <1>7 DEF DataInv

-----------------------------------------------------------------------------
(* The data of a delivery.                                                 *)
LEMMA DeliverEffect ==
  ASSUME IInv, NEW r \in Rank, NEW b \in Blocks, NEW t \in Rank, Deliver(r, b, t)
  PROVE  /\ plan' = plan /\ call' = call /\ step' = step /\ acc' = acc /\ flag' = flag
         /\ pc[r][b] = "push" /\ t \in owing[r][b]
         /\ pc'[r][b] \in {"push", "wait"} /\ owing'[r][b] = owing[r][b] \ {t}
         /\ start'[t][b][r] = flag[r][b] + 1
         /\ \A x \in Rank, d \in Blocks : (x # r \/ d # b) =>
               /\ pc'[x][d] = pc[x][d] /\ owing'[x][d] = owing[x][d]
               /\ \A q \in Rank : start'[q][d][x] = start[q][d][x]
         /\ \A q \in Rank : q # t => start'[q][b][r] = start[q][b][r]
  <1>0. TypeOK
    BY DEF IInv
  <1>1. /\ pc[r][b] = "push" /\ t \in owing[r][b]
        /\ start' = [start EXCEPT ![t][b][r] = flag[r][b] + 1]
        /\ owing' = [owing EXCEPT ![r][b] = @ \ {t}]
        /\ pc' = [pc EXCEPT ![r][b] = IF owing[r][b] = {t} THEN "wait" ELSE "push"]
    BY DEF Deliver, Expected
  <1>2. pc'[r][b] \in {"push", "wait"} /\ owing'[r][b] = owing[r][b] \ {t}
    BY <1>0, <1>1 DEF TypeOK
  <1>3. \A x \in Rank, d \in Blocks : (x # r \/ d # b) =>
           pc'[x][d] = pc[x][d] /\ owing'[x][d] = owing[x][d]
    BY <1>0, <1>1 DEF TypeOK
  <1>4. \A q \in Rank, x \in Rank, d \in Blocks :
           start'[q][d][x] = IF q = t /\ d = b /\ x = r THEN flag[r][b] + 1
                             ELSE start[q][d][x]
    BY <1>0, <1>1 DEF TypeOK
  <1> QED
    BY <1>1, <1>2, <1>3, <1>4 DEF Deliver

(* What a delivery writes.                                                 *)
LEMMA DeliverCell ==
  ASSUME DataTypes, NEW r \in Rank, NEW b \in Blocks, NEW t \in Rank, Deliver(r, b, t)
  PROVE  /\ DataTypes'
         /\ \A q \in Rank : q # t => buf'[q] = buf[q]
         /\ \A x \in Cells :
               buf'[t][x] = IF /\ x[1] = Half(r, b) /\ x[2] = Slot(r, call[r], step[r][b])
                               /\ x[3] \in Owned(call[r], b)
                                             \cap Quarter(r, call[r], step[r][b])
                            THEN acc[r][x[3]] ELSE buf[t][x]
  <1> DEFINE New == [x \in Cells |->
                       IF /\ x[1] = Half(r, b) /\ x[2] = Slot(r, call[r], step[r][b])
                          /\ x[3] \in Owned(call[r], b) \cap Quarter(r, call[r], step[r][b])
                       THEN acc[r][x[3]] ELSE buf[t][x]]
  <1>1. buf' = [buf EXCEPT ![t] = New] /\ acc' = acc
    BY DEF Deliver
  <1>2. DOMAIN buf = Rank /\ DOMAIN acc = Rank
        /\ \A q \in Rank : DOMAIN buf[q] = Cells /\ DOMAIN acc[q] = Chunks
    BY DEF DataTypes
  <1>3. DOMAIN New = Cells
    OBVIOUS
  <1>4. \A x \in Cells : New[x] = IF /\ x[1] = Half(r, b)
                                     /\ x[2] = Slot(r, call[r], step[r][b])
                                     /\ x[3] \in Owned(call[r], b)
                                                   \cap Quarter(r, call[r], step[r][b])
                                  THEN acc[r][x[3]] ELSE buf[t][x]
    OBVIOUS
  <1> HIDE DEF New
  <1>5. buf'[t] = New /\ DOMAIN buf' = Rank /\ \A q \in Rank : q # t => buf'[q] = buf[q]
    BY <1>1, <1>2
  <1>6. DataTypes'
    BY <1>1, <1>2, <1>3, <1>5 DEF DataTypes
  <1> QED
    BY <1>4, <1>5, <1>6

(* Two calls under way in one half are the same call.                      *)
LEMMA SameHalf ==
  ASSUME IInv, NEW r \in Rank, NEW s \in Rank, NEW q \in Rank, NEW c \in Calls,
         call[s] >= c, call[q] <= c, (call[r] - 1) % 2 = (c - 1) % 2
  PROVE  call[r] = c
  <1>1. call \in [Rank -> 0 .. MaxCalls] /\ MaxCalls \in Nat
    BY SizeAssumption DEF IInv, TypeOK
  <1>2. call[r] \in Nat /\ call[s] \in Nat /\ call[q] \in Nat /\ c \in Nat
    BY <1>1 DEF Calls
  <1>3. call[r] <= call[q] + 1 /\ call[s] <= call[r] + 1
    BY DEF IInv, Adjacent
  <1>4. c - 1 <= call[r] /\ call[r] <= c + 1
    BY <1>2, <1>3
  <1> QED
    BY <1>2, <1>4

LEMMA DeliverData ==
  ASSUME IInv, DataInv, NEW r \in Rank, NEW b \in Blocks, NEW t \in Rank, Deliver(r, b, t)
  PROVE  DataInv'
  <1>0. /\ TypeOK /\ Shape /\ Quiet /\ StartBound
        /\ DataTypes /\ OwingUnsent /\ Arrived /\ Sums /\ Payload
    BY DEF IInv, DataInv
  <1>1. /\ plan' = plan /\ call' = call /\ step' = step /\ acc' = acc /\ flag' = flag
        /\ pc[r][b] = "push" /\ t \in owing[r][b]
        /\ pc'[r][b] \in {"push", "wait"} /\ owing'[r][b] = owing[r][b] \ {t}
        /\ start'[t][b][r] = flag[r][b] + 1
        /\ \A x \in Rank, d \in Blocks : (x # r \/ d # b) =>
              /\ pc'[x][d] = pc[x][d] /\ owing'[x][d] = owing[x][d]
              /\ \A q \in Rank : start'[q][d][x] = start[q][d][x]
        /\ \A q \in Rank : q # t => start'[q][b][r] = start[q][b][r]
    BY DeliverEffect
  <1>2. DataTypes'
    BY <1>0, DeliverCell
  <1>3. OwingUnsent'
    <2>1. ASSUME NEW x \in Rank, NEW d \in Blocks, NEW q \in owing'[x][d]
          PROVE  start'[q][d][x] <= flag'[x][d]
      <3>1. q \in owing[x][d] /\ (x = r /\ d = b => q # t)
        BY <1>1
      <3>2. q \in Rank
        BY <1>0, <3>1, StateTypes
      <3>3. start'[q][d][x] = start[q][d][x]
        BY <1>1, <3>1, <3>2
      <3> QED
        BY <1>0, <1>1, <3>1, <3>3 DEF OwingUnsent
    <2> QED
      BY <2>1 DEF OwingUnsent
  <1>4. \A x \in Rank, d \in Blocks : pc'[x][d] = "idle" <=> pc[x][d] = "idle"
    BY <1>1
  <1>5. ASSUME NEW s \in Rank, NEW q, NEW d \in Blocks, NEW c, NEW k
        PROVE  /\ Delivered(s, c, d, k, q) => Delivered(s, c, d, k, q)'
               /\ Delivered(s, c, d, k, q)' =>
                     \/ Delivered(s, c, d, k, q)
                     \/ s = r /\ d = b /\ c = call[r] /\ k = step[r][b] /\ q = t
               /\ \A x \in Rank : Unread(x, c, d, k)' => Unread(x, c, d, k)
    <2>1. owing'[s][d] = IF s = r /\ d = b THEN owing[s][d] \ {t} ELSE owing[s][d]
      BY <1>1
    <2>2. \A x \in Rank : Unread(x, c, d, k)' => Unread(x, c, d, k)
      BY <1>1, <1>4 DEF Unread
    <2>3. Delivered(s, c, d, k, q) => Delivered(s, c, d, k, q)'
      BY <1>1, <1>4, <2>1 DEF Delivered
    <2>4. Delivered(s, c, d, k, q)' =>
                     \/ Delivered(s, c, d, k, q)
                     \/ s = r /\ d = b /\ c = call[r] /\ k = step[r][b] /\ q = t
      BY <1>1, <1>4, <2>1 DEF Delivered
    <2> QED
      BY <2>2, <2>3, <2>4
  <1>6. Arrived'
    <2>1. ASSUME NEW x \in Rank, NEW d \in Blocks, pc'[x][d] = "reduce"
          PROVE  pc[x][d] = "reduce" /\ call'[x] = call[x] /\ step'[x][d] = step[x][d]
      BY <1>1, <2>1
    <2> QED
      BY <1>0, <1>1, <1>5, <2>1, ArrivedStays
  <1>7. Sums'
    <2>1. ASSUME NEW x \in Rank, call[x] > 0, NEW i \in 0 .. plan[call[x]] - 1
          PROVE  acc[x][i] = Value(call[x], x, i,
                    IF pc'[x][Owner(call[x], i)] = "idle" THEN Steps(call[x])
                    ELSE step[x][Owner(call[x], i)] - 1)
      <3>1. call[x] \in Calls
        BY <1>0, <2>1, StateTypes, SizeAssumption DEF Blocks
      <3>2. Owner(call[x], i) \in Blocks
        BY <1>0, <2>1, <3>1, OwnerType
      <3> QED
        BY <1>0, <1>4, <2>1, <3>2 DEF Sums
    <2>2. \A c : Steps(c)' = Steps(c)
      BY <1>1, SameSums
    <2>3. \A c, x, i, k : Value(c, x, i, k)' = Value(c, x, i, k) /\ Owner(c, i)' = Owner(c, i)
      BY <1>1, SameSums
    <2> QED
      BY <1>1, <2>1, <2>2, <2>3 DEF Sums
  <1>8. Payload'
    <2>1. ASSUME NEW c \in Calls, NEW s \in Rank, NEW k \in 1 .. Steps(c),
                 NEW q \in Targets(s, c, k), NEW i \in Quarter(s, c, k),
                 Delivered(s, c, Owner(c, i), k, q)', Unread(q, c, Owner(c, i), k)'
          PROVE  buf'[q][<<(c - 1) % 2, Slot(s, c, k), i>>] = Value(c, s, i, k - 1)
      <3> DEFINE x == <<(c - 1) % 2, Slot(s, c, k), i>>
                 m == call[r]
                 j == step[r][b]
      <3>1. i \in 0 .. plan[c] - 1
        BY DEF Quarter
      <3>2. /\ Owner(c, i) \in Blocks /\ i \in Nat /\ i \in Owned(c, Owner(c, i))
            /\ i \in Chunks
        BY <1>0, <3>1, OwnerType, ValueEnds
      <3>3. PICK o \in Blocks : o = Owner(c, i) /\ o = Owner(c, i)'
        BY <1>1, <3>2, SameSums
      <3>4. q \in Rank /\ k - 1 \in 0 .. 5 /\ Slot(s, c, k) \in 0 .. 5
        <4>1. q \in Rank /\ k \in 1 .. 6
          BY Routes, Kernel
        <4>2. \A n \in 0 .. 5 : n \div 4 \in 0 .. 1
          OBVIOUS
        <4>3. s \in 0 .. 3
          BY DEF Rank
        <4> QED
          BY <4>1, <4>2, <4>3, Kernel DEF Slot
      <3>5. x \in Cells /\ x[1] = (c - 1) % 2 /\ x[2] = Slot(s, c, k) /\ x[3] = i
        <4>1. (c - 1) % 2 \in {0, 1}
          BY SizeAssumption DEF Calls
        <4> QED
          BY <3>2, <3>4, <4>1 DEF Cells
      <3>6. Half(r, b) = (m - 1) % 2 /\ m \in Calls /\ Active(r, b)
        BY <1>1, HalfOf
      <3>7. j \in 1 .. Steps(m) /\ t \in Targets(r, m, j)
        BY <1>0, <1>1, StateTypes, Kernel DEF Shape
      <3>8. Unread(q, c, o, k)
        <4>1. Unread(q, c, o, k)'
          BY <2>1, <3>3 DEF Unread
        <4> QED
          BY <1>5, <3>4, <4>1
      <3>9. \/ Delivered(s, c, o, k, q)
            \/ s = r /\ o = b /\ c = m /\ k = j /\ q = t
        <4>1. Delivered(s, c, o, k, q)'
          BY <2>1, <3>3 DEF Delivered
        <4> QED
          BY <1>5, <3>4, <4>1
      <3>10. CASE s = r /\ o = b /\ c = m /\ k = j /\ q = t
        <4>1. buf'[t][x] = acc[r][i]
          BY <1>0, <3>2, <3>3, <3>5, <3>6, <3>10, DeliverCell
        <4>2. acc[r][i] = Value(m, r, i, j - 1)
          <5>1. m > 0
            BY <3>6 DEF Active
          <5>2. i \in 0 .. plan[m] - 1 /\ Owner(m, i) = b
            BY <3>1, <3>3, <3>10
          <5> QED
            BY <1>0, <1>1, <5>1, <5>2 DEF Sums
        <4> QED
          BY <3>10, <4>1, <4>2
      <3>11. CASE Delivered(s, c, o, k, q)
        <4>1. buf[q][x] = Value(c, s, i, k - 1)
          BY <1>0, <3>3, <3>8, <3>11 DEF Payload
        <4>2. CASE buf'[q][x] = buf[q][x]
          BY <4>1, <4>2
        <4>3. CASE buf'[q][x] # buf[q][x]
          <5>1. q = t
            BY <1>0, <3>4, <4>3, DeliverCell
          <5>2. /\ (c - 1) % 2 = Half(r, b) /\ Slot(s, c, k) = Slot(r, m, j)
                /\ i \in Owned(m, b) /\ i \in Quarter(r, m, j) /\ buf'[t][x] = acc[r][i]
            BY <1>0, <3>5, <4>3, <5>1, DeliverCell
          <5>3. m = c
            <6>1. call[s] >= c
              BY <1>0, <3>2, <3>11, StateTypes, SizeAssumption DEF Delivered, Calls
            <6>2. call[q] <= c
              BY <1>0, <3>2, <3>4, <3>8, StateTypes, SizeAssumption DEF Unread, Calls
            <6> QED
              BY <3>4, <3>6, <5>2, <6>1, <6>2, SameHalf
          <5>4. s = r /\ k = j
            BY <3>2, <3>7, <5>1, <5>2, <5>3, OneWriter
          <5>5. o = b
            BY <3>3, <5>2, <5>3 DEF Owned
          <5> QED
            BY <3>10, <5>1, <5>3, <5>4, <5>5
        <4> QED
          BY <4>2, <4>3
      <3> QED
        BY <3>9, <3>10, <3>11
    <2>2. \A c, s, k : /\ Steps(c)' = Steps(c) /\ Targets(s, c, k)' = Targets(s, c, k)
                       /\ Quarter(s, c, k)' = Quarter(s, c, k)
                       /\ Slot(s, c, k)' = Slot(s, c, k)
      BY <1>1, SameSums
    <2>3. \A c, x, i, k : Value(c, x, i, k)' = Value(c, x, i, k) /\ Owner(c, i)' = Owner(c, i)
      BY <1>1, SameSums
    <2> QED
      BY <2>1, <2>2, <2>3 DEF Payload
  <1> QED
    BY <1>2, <1>3, <1>6, <1>7, <1>8 DEF DataInv

-----------------------------------------------------------------------------
(* The data of a wait: nothing moves, and the counters say that what the   *)
(* step reads is there.                                                    *)
LEMMA WaitData ==
  ASSUME IInv, DataInv, NEW r \in Rank, NEW b \in Blocks, Wait(r, b)
  PROVE  DataInv'
  <1>0. /\ TypeOK /\ Shape /\ Quiet /\ StartBound
        /\ DataTypes /\ OwingUnsent /\ Arrived /\ Sums /\ Payload
    BY DEF IInv, DataInv
  <1>1. /\ plan' = plan /\ call' = call /\ step' = step /\ owing' = owing
        /\ acc' = acc /\ buf' = buf /\ start' = start
        /\ pc[r][b] = "wait" /\ pc' = [pc EXCEPT ![r][b] = "reduce"]
        /\ flag' = [flag EXCEPT ![r][b] = flag[r][b] + 1]
        /\ \A s \in Sources(r, call[r], step[r][b]) : ~ (start[r][b][s] < Expected(r, b))
    BY DEF Wait, Expected
  <1>2. \A x \in Rank, d \in Blocks :
           /\ pc'[x][d] = "idle" <=> pc[x][d] = "idle"
           /\ (x # r \/ d # b) => pc'[x][d] = pc[x][d] /\ flag'[x][d] = flag[x][d]
           /\ flag'[x][d] >= flag[x][d] /\ flag'[x][d] \in Nat /\ flag[x][d] \in Nat
    BY <1>0, <1>1 DEF TypeOK
  <1>3. DataTypes'
    BY <1>0, <1>1 DEF DataTypes
  <1>4. OwingUnsent'
    <2>1. ASSUME NEW x \in Rank, NEW d \in Blocks, NEW q \in owing[x][d]
          PROVE  start[q][d][x] <= flag'[x][d]
      <3>1. start[q][d][x] <= flag[x][d] /\ q \in Rank
        BY <1>0, StateTypes DEF OwingUnsent
      <3>2. start[q][d][x] \in Nat
        BY <1>0, <3>1, StateTypes
      <3> QED
        BY <1>2, <3>1, <3>2
    <2> QED
      BY <1>1, <2>1 DEF OwingUnsent
  <1>5. \A s \in Rank, d \in Blocks : \A q, c, k :
           /\ Delivered(s, c, d, k, q)' <=> Delivered(s, c, d, k, q)
           /\ Unread(s, c, d, k)' <=> Unread(s, c, d, k)
    BY <1>1, <1>2 DEF Delivered, Unread
  <1>6. Arrived'
    <2>1. ASSUME NEW x \in Rank, NEW d \in Blocks, pc'[x][d] = "reduce",
                 NEW s \in Sources(x, call[x], step[x][d])
          PROVE  Delivered(s, call[x], d, step[x][d], x)
      <3>1. CASE x = r /\ d = b
        BY <1>0, <1>1, <3>1, CounterTells
      <3>2. CASE ~ (x = r /\ d = b)
        <4>1. pc[x][d] = "reduce"
          BY <1>2, <2>1, <3>2
        <4> QED
          BY <1>0, <4>1 DEF Arrived
      <3> QED
        BY <3>1, <3>2
    <2>2. ASSUME NEW x \in Rank, NEW d \in Blocks, pc'[x][d] = "reduce",
                 NEW s \in Sources(x, call'[x], step'[x][d])
          PROVE  Delivered(s, call[x], d, step[x][d], x)'
      <3>1. Delivered(s, call[x], d, step[x][d], x) /\ s \in Rank
        BY <1>1, <2>1, <2>2, Routes
      <3> QED
        BY <1>1, <1>2, <3>1 DEF Delivered
    <2>3. \A x, c, k : Sources(x, c, k)' = Sources(x, c, k)
      BY <1>1, SameSums
    <2> QED
      BY <2>2, <2>3 DEF Arrived
  <1>7. Sums'
    <2>1. ASSUME NEW x \in Rank, call[x] > 0, NEW i \in 0 .. plan[call[x]] - 1
          PROVE  acc[x][i] = Value(call[x], x, i,
                    IF pc'[x][Owner(call[x], i)] = "idle" THEN Steps(call[x])
                    ELSE step[x][Owner(call[x], i)] - 1)
      <3>1. call[x] \in Calls
        BY <1>0, <2>1, StateTypes, SizeAssumption DEF Blocks
      <3>2. Owner(call[x], i) \in Blocks
        BY <1>0, <2>1, <3>1, OwnerType
      <3> QED
        BY <1>0, <1>2, <2>1, <3>2 DEF Sums
    <2>2. \A c : Steps(c)' = Steps(c)
      BY <1>1, SameSums
    <2>3. \A c, x, i, k : Value(c, x, i, k)' = Value(c, x, i, k) /\ Owner(c, i)' = Owner(c, i)
      BY <1>1, SameSums
    <2> QED
      BY <1>1, <2>1, <2>2, <2>3 DEF Sums
  <1>8. Payload'
    <2>1. \A c \in Calls, s \in Rank : \A k \in 1 .. Steps(c) : \A q \in Targets(s, c, k) :
             q \in Rank
      BY Routes
    <2> QED
      BY <1>0, <1>1, <1>5, <2>1, PayloadStays
  <1> QED
    BY <1>3, <1>4, <1>6, <1>7, <1>8 DEF DataInv

-----------------------------------------------------------------------------
(* A step makes of a chunk what the algorithm says.                        *)
LEMMA ReducedValue ==
  ASSUME IInv, DataInv, NEW r \in Rank, NEW b \in Blocks, pc[r][b] = "reduce",
         NEW i \in Owned(call[r], b)
  PROVE  Reduced(r, b)[i] = Value(call[r], r, i, step[r][b])
  <1> DEFINE c == call[r]
             k == step[r][b]
             h == Half(r, b)
             Mine == Value(c, r, i, k - 1)
             From(s) == Value(c, s, i, k - 1)
  <1>0. /\ TypeOK /\ Shape /\ Quiet
        /\ DataTypes /\ Arrived /\ Sums /\ Payload
    BY DEF IInv, DataInv
  <1>1. h = (c - 1) % 2 /\ c \in Calls /\ c > 0
    BY HalfOf DEF Active
  <1>2. i \in 0 .. plan[c] - 1 /\ Owner(c, i) = b
    BY DEF Owned
  <1>3. i \in Chunks /\ i \in Nat
    BY <1>0, <1>1, <1>2, ValueEnds
  <1>4. k \in 1 .. Steps(c) /\ k \in 1 .. 6
    BY <1>0, StateTypes, Kernel DEF Shape
  <1>5. acc[r][i] = Mine
    BY <1>0, <1>1, <1>2 DEF Sums
  <1>6. ASSUME NEW s \in Sources(r, c, k), i \in Received(r, c, k)
        PROVE  buf[r][<<h, Slot(s, c, k), i>>] = From(s)
    <2>1. /\ s \in Rank /\ r \in Targets(s, c, k) /\ i \in Quarter(s, c, k)
      BY <1>4, <1>6, Meets
    <2>2. Delivered(s, c, b, k, r)
      BY <1>0 DEF Arrived
    <2>3. Unread(r, c, b, k)
      BY <1>4 DEF Unread
    <2> QED
      BY <1>0, <1>1, <1>2, <1>4, <2>1, <2>2, <2>3 DEF Payload
  <1>7. Reduced(r, b)[i] = IF i \in Received(r, c, k)
                           THEN CASE Alg(c) = "oneshot"  -> OneshotSum(r, h, i)
                                  [] Alg(c) = "pairwise" -> PairSum(r, h, k, i)
                                  [] Alg(c) = "ring"     -> RingValue(r, h, k, i)
                           ELSE acc[r][i]
    <2> DEFINE New(x) == CASE Alg(c) = "oneshot"  -> OneshotSum(r, h, x)
                           [] Alg(c) = "pairwise" -> PairSum(r, h, k, x)
                           [] Alg(c) = "ring"     -> RingValue(r, h, k, x)
    <2>1. Reduced(r, b) = [x \in Chunks |-> IF x \in Owned(c, b) \cap Received(r, c, k)
                                            THEN New(x) ELSE acc[r][x]]
      BY DEF Reduced
    <2>2. Reduced(r, b)[i] = IF i \in Received(r, c, k) THEN New(i) ELSE acc[r][i]
      <3> HIDE DEF New
      <3> QED
        BY <1>3, <2>1
    <2> QED
      BY <2>2
  <1>8. CASE Alg(c) = "oneshot"
    <2>1. k = 1 /\ i \in Received(r, c, k)
      BY <1>2, <1>4, <1>8, Kernel DEF Received
    <2>2. ASSUME NEW q \in Rank
          PROVE  (IF q = r THEN acc[r][i] ELSE buf[r][<<h, q, i>>]) = Input(c, q, i)
      <3>1. Value(c, q, i, 0) = Input(c, q, i)
        BY <1>0, <1>1, <1>2, ValueEnds
      <3>2. CASE q = r
        BY <1>5, <2>1, <3>1, <3>2
      <3>3. CASE q # r
        <4>1. q \in Sources(r, c, k) /\ Slot(q, c, k) = q
          BY <1>8, <3>3 DEF Sources, Slot
        <4> QED
          BY <1>6, <2>1, <3>1, <3>3, <4>1
      <3> QED
        BY <3>2, <3>3
    <2>3. OneshotSum(r, h, i) = Add(Add(Add(Input(c, 0, i), Input(c, 1, i)), Input(c, 2, i)),
                                    Input(c, 3, i))
      BY <2>2 DEF OneshotSum, Rank
    <2>4. Value(c, r, i, k) = Value(c, r, i, Steps(c))
      BY <1>8, <2>1, Kernel
    <2>5. Value(c, r, i, Steps(c)) = TotalOf(c, i)
      BY <1>0, <1>1, <1>2, ValueEnds
    <2>6. TotalOf(c, i) = Add(Add(Add(Input(c, 0, i), Input(c, 1, i)), Input(c, 2, i)),
                              Input(c, 3, i))
      BY <1>8 DEF TotalOf
    <2>7. Reduced(r, b)[i] = OneshotSum(r, h, i)
      BY <1>7, <1>8, <2>1
    <2> HIDE DEF c, k, h
    <2> QED
      BY <2>3, <2>4, <2>5, <2>6, <2>7 DEF c, k
  <1>9. CASE Alg(c) = "pairwise"
    <2> DEFINE s == Exchange(r, k)
    <2>1. i \in Received(r, c, k)
      BY <1>2, <1>9 DEF Received
    <2>2. s \in Sources(r, c, k) /\ Slot(s, c, k) = k - 1
      BY <1>9 DEF Sources, Slot
    <2>3. buf[r][<<h, k - 1, i>>] = From(s)
      BY <1>6, <2>1, <2>2
    <2>4. Reduced(r, b)[i] = IF r < s THEN Add(Mine, From(s)) ELSE Add(From(s), Mine)
      BY <1>5, <1>7, <1>9, <2>1, <2>3 DEF PairSum
    <2>5. k = 1 \/ k = 2
      BY <1>4, <1>9, Kernel
    <2>6. CASE k = 1
      <3>1. s = Pair[r]
        BY <2>6 DEF Exchange
      <3>2. Mine = Input(c, r, i) /\ From(s) = Input(c, Pair[r], i)
        BY <1>9, <2>6, <3>1 DEF Value
      <3>3. Value(c, r, i, k) = PairTotal(c, r, i)
        BY <1>9, <2>6 DEF Value
      <3> HIDE DEF c, k, s, Mine, From
      <3> QED
        BY <2>4, <3>1, <3>2, <3>3 DEF PairTotal, c, k
    <2>7. CASE k = 2
      <3>1. s = Cross[r]
        BY <2>7 DEF Exchange
      <3>2. Mine = PairTotal(c, r, i) /\ From(s) = PairTotal(c, Cross[r], i)
        BY <1>9, <2>7, <3>1 DEF Value
      <3>3. Value(c, r, i, k) = CrossTotal(c, r, i)
        BY <1>9, <2>7 DEF Value
      <3> HIDE DEF c, k, s, Mine, From
      <3> QED
        BY <2>4, <3>1, <3>2, <3>3 DEF CrossTotal, c, k
    <2> QED
      BY <2>5, <2>6, <2>7
  <1>10. CASE Alg(c) = "ring"
    <2> DEFINE s == RingPrevious(r)
    <2>1. s \in Rank /\ RingNext(s) = r
      BY Ring
    <2>2. \A x \in Rank : \A n : Value(c, x, i, n) = RingAfter(c, x, i, n)
      BY <1>10 DEF Value
    <2>3. s \in Sources(r, c, k) /\ Slot(s, c, k) = 4 + (k - 1) \div 4
      BY <1>10 DEF Sources, Slot
    <2>4. CASE i \in Received(r, c, k)
      <3>1. buf[r][<<h, 4 + (k - 1) \div 4, i>>] = From(s)
        BY <1>6, <2>3, <2>4
      <3>2. Reduced(r, b)[i] = IF k <= 3 THEN Add(From(s), Mine) ELSE From(s)
        BY <1>5, <1>7, <1>10, <2>4, <3>1 DEF RingValue
      <3>3. i % 4 = (Position(s) + 8 - (k - 1)) % 4
        <4>1. i \in Quarter(s, c, k)
          BY <1>4, <2>3, <2>4, Meets
        <4> QED
          BY <1>10, <4>1 DEF Quarter
      <3>4. RingAfter(c, r, i, k) = IF k <= 3
                                    THEN Add(RingAfter(c, s, i, k - 1), RingAfter(c, r, i, k - 1))
                                    ELSE RingAfter(c, s, i, k - 1)
        BY <1>3, <1>4, <2>1, <3>3, RingReceives
      <3>5. Mine = RingAfter(c, r, i, k - 1) /\ From(s) = RingAfter(c, s, i, k - 1)
            /\ Value(c, r, i, k) = RingAfter(c, r, i, k)
        BY <2>1, <2>2
      <3> HIDE DEF c, k, s, Mine, From
      <3> QED
        BY <3>2, <3>4, <3>5 DEF c, k
    <2>5. CASE i \notin Received(r, c, k)
      <3>1. Reduced(r, b)[i] = Mine
        BY <1>5, <1>7, <2>5
      <3>2. i % 4 # (Position(r) + 8 - k) % 4
        <4>1. PICK n \in Nat : n = k + 1 /\ n - 1 = k
          BY <1>4
        <4>2. i \notin Quarter(r, c, n)
          BY <1>10, <2>5, <4>1 DEF Received
        <4>3. i % 4 # (Position(r) + 8 - (n - 1)) % 4
          BY <1>2, <1>10, <4>2 DEF Quarter
        <4> QED
          BY <4>1, <4>3
      <3>3. RingAfter(c, r, i, k) = RingAfter(c, r, i, k - 1)
        BY <1>3, <1>4, <3>2, RingKeeps
      <3> QED
        BY <2>2, <3>1, <3>3
    <2> QED
      BY <2>4, <2>5
  <1> QED
    BY <1>8, <1>9, <1>10, Kernel

-----------------------------------------------------------------------------
(* The data of a step: the CTA has read what was delivered to it, and its  *)
(* chunks are one step further.                                            *)
LEMMA WorkEffect ==
  ASSUME IInv, NEW r \in Rank, NEW b \in Blocks, Reduce(r, b) \/ Retire(r, b)
  PROVE  /\ plan' = plan /\ call' = call /\ buf' = buf /\ start' = start /\ flag' = flag
         /\ acc' = [acc EXCEPT ![r] = Reduced(r, b)]
         /\ pc[r][b] = "reduce" /\ owing[r][b] = {} /\ call[r] \in Calls
         /\ \/ /\ pc'[r][b] = "push" /\ step'[r][b] = step[r][b] + 1
               /\ owing'[r][b] = Targets(r, call[r], step[r][b] + 1)
            \/ /\ pc'[r][b] = "idle" /\ step'[r][b] = step[r][b] /\ owing'[r][b] = {}
               /\ step[r][b] = Steps(call[r])
         /\ \A x \in Rank, d \in Blocks : (x # r \/ d # b) =>
               pc'[x][d] = pc[x][d] /\ owing'[x][d] = owing[x][d] /\ step'[x][d] = step[x][d]
  <1>0. TypeOK /\ Quiet
    BY DEF IInv
  <1>1. pc[r][b] = "reduce" /\ acc' = [acc EXCEPT ![r] = Reduced(r, b)]
        /\ plan' = plan /\ call' = call /\ buf' = buf /\ start' = start /\ flag' = flag
    BY DEF Reduce, Retire
  <1>2. owing[r][b] = {} /\ call[r] \in Calls
    BY <1>0, <1>1, HalfOf DEF Quiet
  <1>3. CASE Reduce(r, b)
    <2>1. /\ pc'[r][b] = "push" /\ step'[r][b] = step[r][b] + 1
          /\ owing'[r][b] = Targets(r, call[r], step[r][b] + 1)
      BY <1>0, <1>3 DEF Reduce, TypeOK
    <2>2. \A x \in Rank, d \in Blocks : (x # r \/ d # b) =>
             pc'[x][d] = pc[x][d] /\ owing'[x][d] = owing[x][d] /\ step'[x][d] = step[x][d]
      BY <1>0, <1>3 DEF Reduce, TypeOK
    <2> QED
      BY <1>1, <1>2, <2>1, <2>2
  <1>4. CASE Retire(r, b)
    <2>1. /\ pc'[r][b] = "idle" /\ step' = step /\ owing' = owing
          /\ step[r][b] = Steps(call[r])
      BY <1>0, <1>4 DEF Retire, TypeOK
    <2>2. \A x \in Rank, d \in Blocks : (x # r \/ d # b) => pc'[x][d] = pc[x][d]
      BY <1>0, <1>4 DEF Retire, TypeOK
    <2> QED
      BY <1>1, <1>2, <2>1, <2>2
  <1> QED
    BY <1>3, <1>4

LEMMA WorkData ==
  ASSUME IInv, DataInv, NEW r \in Rank, NEW b \in Blocks, Reduce(r, b) \/ Retire(r, b)
  PROVE  DataInv'
  <1>0. /\ TypeOK /\ Shape /\ Quiet /\ StartBound
        /\ DataTypes /\ OwingUnsent /\ Arrived /\ Sums /\ Payload
    BY DEF IInv, DataInv
  <1>1. /\ plan' = plan /\ call' = call /\ buf' = buf /\ start' = start /\ flag' = flag
        /\ acc' = [acc EXCEPT ![r] = Reduced(r, b)]
        /\ pc[r][b] = "reduce" /\ owing[r][b] = {} /\ call[r] \in Calls
        /\ \/ /\ pc'[r][b] = "push" /\ step'[r][b] = step[r][b] + 1
              /\ owing'[r][b] = Targets(r, call[r], step[r][b] + 1)
           \/ /\ pc'[r][b] = "idle" /\ step'[r][b] = step[r][b] /\ owing'[r][b] = {}
              /\ step[r][b] = Steps(call[r])
        /\ \A x \in Rank, d \in Blocks : (x # r \/ d # b) =>
              pc'[x][d] = pc[x][d] /\ owing'[x][d] = owing[x][d] /\ step'[x][d] = step[x][d]
    BY WorkEffect
  <1>2. step[r][b] \in 1 .. 6
    BY <1>0, StateTypes
  <1>3. DataTypes'
    <2>1. DOMAIN Reduced(r, b) = Chunks
      BY DEF Reduced
    <2> QED
      BY <1>0, <1>1, <2>1 DEF DataTypes
  <1>4. OwingUnsent'
    <2>1. ASSUME NEW x \in Rank, NEW d \in Blocks, NEW q \in owing'[x][d]
          PROVE  start[q][d][x] <= flag[x][d]
      <3>1. CASE x = r /\ d = b
        <4>1. q \in Rank
          BY <1>1, <2>1, <3>1, Routes
        <4>2. start[q][b][r] <= flag[r][b] + Publishing(r, b) /\ flag[r][b] \in Nat
          BY <1>0, <4>1, StateTypes DEF StartBound
        <4>3. Publishing(r, b) = 0
          BY <1>1 DEF Publishing
        <4> QED
          BY <3>1, <4>2, <4>3
      <3>2. CASE ~ (x = r /\ d = b)
        BY <1>0, <1>1, <2>1, <3>2 DEF OwingUnsent
      <3> QED
        BY <3>1, <3>2
    <2> QED
      BY <1>1, <2>1 DEF OwingUnsent
  <1>5. ASSUME NEW s \in Rank, NEW d \in Blocks, NEW c \in Nat, NEW k \in Nat, NEW q
        PROVE  /\ Delivered(s, c, d, k, q) => Delivered(s, c, d, k, q)'
               /\ q \in Targets(s, c, k) /\ k <= Steps(c) =>
                    (Delivered(s, c, d, k, q)' => Delivered(s, c, d, k, q))
               /\ Unread(s, c, d, k)' => Unread(s, c, d, k)
    <2>1. CASE s = r /\ d = b
      <3>1. \/ pc'[r][b] = "push" /\ step'[r][b] = step[r][b] + 1
               /\ owing'[r][b] = Targets(r, call[r], step[r][b] + 1)
            \/ pc'[r][b] = "idle" /\ step[r][b] = Steps(call[r])
        BY <1>1
      <3>2. Delivered(s, c, d, k, q) <=> call[r] > c \/ (call[r] = c /\ step[r][b] >= k)
        BY <1>1, <1>2, <2>1 DEF Delivered
      <3>3. Unread(s, c, d, k) <=> call[r] < c \/ (call[r] = c /\ step[r][b] <= k)
        BY <1>1, <2>1 DEF Unread
      <3>4. CASE pc'[r][b] = "push"
        <4>1. step'[r][b] = step[r][b] + 1 /\ owing'[r][b] = Targets(r, call[r], step[r][b] + 1)
          BY <3>1, <3>4
        <4>2. Delivered(s, c, d, k, q)' <=>
                \/ call[r] > c
                \/ call[r] = c /\ \/ step[r][b] + 1 > k
                                  \/ step[r][b] + 1 = k
                                       /\ q \notin Targets(r, call[r], step[r][b] + 1)
          BY <1>1, <2>1, <3>4, <4>1 DEF Delivered
        <4>3. Unread(s, c, d, k)' <=> call[r] < c \/ (call[r] = c /\ step[r][b] + 1 <= k)
          BY <1>1, <2>1, <3>4, <4>1 DEF Unread
        <4>4. (step[r][b] + 1 > k <=> step[r][b] >= k)
              /\ (step[r][b] + 1 <= k => step[r][b] <= k)
          BY <1>2
        <4> QED
          BY <2>1, <3>2, <3>3, <4>2, <4>3, <4>4
      <3>5. CASE pc'[r][b] = "idle"
        <4>1. step[r][b] = Steps(call[r])
          BY <3>1, <3>5
        <4>2. Delivered(s, c, d, k, q)' <=> call[r] > c \/ call[r] = c
          BY <1>1, <2>1, <3>5 DEF Delivered
        <4>3. Unread(s, c, d, k)' <=> call[r] < c
          BY <1>1, <2>1, <3>5 DEF Unread
        <4>4. k <= Steps(c) /\ call[r] = c => step[r][b] >= k
          BY <1>2, <4>1
        <4> QED
          BY <3>2, <3>3, <4>2, <4>3, <4>4
      <3> QED
        BY <3>1, <3>4, <3>5
    <2>2. CASE ~ (s = r /\ d = b)
      BY <1>1, <2>2 DEF Delivered, Unread
    <2> QED
      BY <2>1, <2>2
  <1>6. Arrived'
    <2>1. ASSUME NEW x \in Rank, NEW d \in Blocks, pc'[x][d] = "reduce"
          PROVE  pc[x][d] = "reduce" /\ call'[x] = call[x] /\ step'[x][d] = step[x][d]
      BY <1>1, <2>1
    <2> QED
      BY <1>0, <1>1, <1>5, <2>1, ArrivedStays
  <1>7. Sums'
    <2>1. ASSUME NEW x \in Rank, call[x] > 0, NEW i \in 0 .. plan[call[x]] - 1
          PROVE  acc'[x][i] = Value(call[x], x, i,
                    IF pc'[x][Owner(call[x], i)] = "idle" THEN Steps(call[x])
                    ELSE step'[x][Owner(call[x], i)] - 1)
      <3>1. call[x] \in Calls
        BY <1>0, <2>1, StateTypes, SizeAssumption DEF Blocks
      <3>2. Owner(call[x], i) \in Blocks /\ i \in Owned(call[x], Owner(call[x], i))
            /\ i \in Chunks
        BY <1>0, <2>1, <3>1, OwnerType, ValueEnds
      <3>3. acc[x][i] = Value(call[x], x, i,
                    IF pc[x][Owner(call[x], i)] = "idle" THEN Steps(call[x])
                    ELSE step[x][Owner(call[x], i)] - 1)
        BY <1>0, <2>1 DEF Sums
      <3>4. acc'[r] = Reduced(r, b) /\ \A y \in Rank : y # r => acc'[y] = acc[y]
        BY <1>0, <1>1 DEF DataTypes
      <3>5. CASE x # r
        BY <1>1, <3>2, <3>3, <3>4, <3>5
      <3>6. CASE x = r /\ Owner(call[r], i) # b
        <4>1. Reduced(r, b)[i] = acc[r][i]
          <5>1. i \notin Owned(call[r], b)
            BY <3>6 DEF Owned
          <5> QED
            BY <3>2, <5>1 DEF Reduced
        <4> QED
          BY <1>1, <3>2, <3>3, <3>4, <3>6, <4>1
      <3>7. CASE x = r /\ Owner(call[r], i) = b
        <4>1. Reduced(r, b)[i] = Value(call[r], r, i, step[r][b])
          BY <1>1, <3>2, <3>7, ReducedValue
        <4>2. (IF pc'[r][b] = "idle" THEN Steps(call[r]) ELSE step'[r][b] - 1) = step[r][b]
          BY <1>1, <1>2
        <4> QED
          BY <3>4, <3>7, <4>1, <4>2
      <3> QED
        BY <3>5, <3>6, <3>7
    <2>2. \A c : Steps(c)' = Steps(c)
      BY <1>1, SameSums
    <2>3. \A c, x, i, k : Value(c, x, i, k)' = Value(c, x, i, k) /\ Owner(c, i)' = Owner(c, i)
      BY <1>1, SameSums
    <2> QED
      BY <1>1, <2>1, <2>2, <2>3 DEF Sums
  <1>8. Payload'
    <2>1. ASSUME NEW c \in Calls, NEW s \in Rank, NEW k \in 1 .. Steps(c),
                 NEW q \in Targets(s, c, k), NEW d \in Blocks, d < Grid(c)
          PROVE  /\ Delivered(s, c, d, k, q)' => Delivered(s, c, d, k, q)
                 /\ Unread(q, c, d, k)' => Unread(q, c, d, k)
      <3>1. q \in Rank
        BY Routes
      <3>2. c \in Nat /\ k \in Nat /\ k <= Steps(c)
        BY Kernel, SizeAssumption DEF Calls
      <3> QED
        BY <1>5, <3>1, <3>2
    <2> QED
      BY <1>0, <1>1, <2>1, PayloadStays
  <1> QED
    BY <1>3, <1>4, <1>6, <1>7, <1>8 DEF DataInv

LEMMA DataInit ==
  ASSUME Init
  PROVE  DataInv
  <1>1. \A r \in Rank : call[r] = 0 /\ \A b \in Blocks : pc[r][b] = "idle" /\ owing[r][b] = {}
    BY DEF Init
  <1>2. DataTypes
    BY DEF Init, DataTypes
  <1>3. OwingUnsent /\ Arrived
    BY <1>1 DEF OwingUnsent, Arrived
  <1>4. Sums
    BY <1>1 DEF Sums
  <1>5. Payload
    <2>1. ASSUME NEW c \in Calls, NEW s \in Rank, NEW b, NEW k, NEW q
          PROVE  ~ Delivered(s, c, b, k, q)
      <3>1. call[s] = 0 /\ c \in Nat /\ c > 0
        BY <1>1, SizeAssumption DEF Calls
      <3> QED
        BY <3>1 DEF Delivered
    <2> QED
      BY <2>1 DEF Payload
  <1> QED
    BY <1>2, <1>3, <1>4, <1>5 DEF DataInv

LEMMA DataStutter ==
  ASSUME IInv, DataInv, UNCHANGED vars
  PROVE  DataInv'
  <1>0. /\ TypeOK /\ DataTypes /\ OwingUnsent /\ Arrived /\ Sums /\ Payload
    BY DEF IInv, DataInv
  <1>1. /\ plan' = plan /\ call' = call /\ pc' = pc /\ step' = step /\ owing' = owing
        /\ acc' = acc /\ buf' = buf /\ start' = start /\ flag' = flag
    BY DEF vars
  <1>2. \A s, c, d, k, q : /\ Delivered(s, c, d, k, q)' <=> Delivered(s, c, d, k, q)
                           /\ Unread(s, c, d, k)' <=> Unread(s, c, d, k)
    BY <1>1 DEF Delivered, Unread
  <1>3. DataTypes' /\ OwingUnsent'
    BY <1>0, <1>1 DEF DataTypes, OwingUnsent
  <1>4. Arrived'
    BY <1>0, <1>1, <1>2, ArrivedStays
  <1>5. Payload'
    BY <1>0, <1>1, <1>2, PayloadStays
  <1>6. Sums'
    <2>1. \A c : Steps(c)' = Steps(c)
      BY <1>1, SameSums
    <2>2. \A c, x, i, k : Value(c, x, i, k)' = Value(c, x, i, k) /\ Owner(c, i)' = Owner(c, i)
      BY <1>1, SameSums
    <2> QED
      BY <1>0, <1>1, <2>1, <2>2 DEF Sums
  <1> QED
    BY <1>3, <1>4, <1>5, <1>6 DEF DataInv

(* Every payload is there when its counter is, is still the sender's value *)
(* of that step when it is read, and every step of every kernel makes of a *)
(* chunk what the algorithm says, whatever calls came before.              *)
THEOREM DataInvariant == Spec => []DataInv
  <1>1. IInv /\ DataInv /\ [Next]_vars => DataInv'
    <2> SUFFICES ASSUME IInv, DataInv, [Next]_vars PROVE DataInv'
      OBVIOUS
    <2>1. CASE UNCHANGED vars
      BY <2>1, DataStutter
    <2>2. ASSUME NEW r \in Rank, Launch(r)
          PROVE  DataInv'
      BY <2>2, LaunchData
    <2>3. ASSUME NEW r \in Rank, NEW b \in Blocks, Cta(r, b)
          PROVE  DataInv'
      <3>1. ASSUME NEW q \in Rank, Deliver(r, b, q)
            PROVE  DataInv'
        BY <3>1, DeliverData
      <3>2. CASE Wait(r, b)
        BY <3>2, WaitData
      <3>3. CASE Reduce(r, b) \/ Retire(r, b)
        BY <3>3, WorkData
      <3> QED
        BY <2>3, <3>1, <3>2, <3>3 DEF Cta
    <2> QED
      BY <2>1, <2>2, <2>3 DEF Next, Step, Terminated
  <1> QED
    BY <1>1, DataInit, Invariant, PTL DEF Spec

-----------------------------------------------------------------------------
(* The kernels implement AllReduce.                                        *)

(* Only a launch, and the end of a rank's last CTA, change whether a rank  *)
(* is idle.                                                                *)
LEMMA IdleCta ==
  ASSUME IInv, NEW r \in Rank, NEW b \in Blocks, Cta(r, b)
  PROVE  /\ call' = call /\ plan' = plan /\ ~ Idle(r)
         /\ \A x \in Rank : x # r => Idle(x)' = Idle(x) /\ acc'[x] = acc[x]
  <1>0. TypeOK
    BY DEF IInv
  <1>1. ASSUME NEW t \in Rank, Deliver(r, b, t)
        PROVE  /\ call' = call /\ plan' = plan /\ pc[r][b] # "idle" /\ acc' = acc
               /\ \A x \in Rank : x # r => \A d \in Blocks : pc'[x][d] = pc[x][d]
    BY <1>1, DeliverEffect
  <1>2. CASE Wait(r, b)
    <2>1. \A x \in Rank : x # r => \A d \in Blocks : pc'[x][d] = pc[x][d]
      BY <1>0, <1>2 DEF Wait, TypeOK
    <2> QED
      BY <1>2, <2>1 DEF Wait, Idle
  <1>3. CASE Reduce(r, b) \/ Retire(r, b)
    <2>1. /\ call' = call /\ plan' = plan /\ pc[r][b] = "reduce"
          /\ acc' = [acc EXCEPT ![r] = Reduced(r, b)]
          /\ \A x \in Rank, d \in Blocks : (x # r \/ d # b) => pc'[x][d] = pc[x][d]
      BY <1>3, WorkEffect
    <2>2. \A x \in Rank : x # r => acc'[x] = acc[x]
      BY <2>1
    <2> QED
      BY <2>1, <2>2 DEF Idle
  <1>4. ASSUME NEW t \in Rank, Deliver(r, b, t)
        PROVE  /\ call' = call /\ plan' = plan /\ ~ Idle(r)
               /\ \A x \in Rank : x # r => Idle(x)' = Idle(x) /\ acc'[x] = acc[x]
    BY <1>1, <1>4 DEF Idle
  <1> QED
    BY <1>2, <1>3, <1>4 DEF Cta

(* A launched kernel is not idle: CTA 0 is in every grid.                  *)
LEMMA LaunchBusy ==
  ASSUME IInv, NEW r \in Rank, Launch(r)
  PROVE  ~ Idle(r)'
  <1>1. call[r] + 1 \in Calls /\ \A b \in Blocks :
           pc'[r][b] = IF b < Grid(call[r] + 1) THEN "push" ELSE "idle"
    BY LaunchEffect
  <1>2. Grid(call[r] + 1) \in 1 .. NBlocks /\ 0 \in Blocks
    BY <1>1, GridType, SizeAssumption DEF IInv, Blocks
  <1>3. 0 < Grid(call[r] + 1)
    BY <1>2, SizeAssumption
  <1>4. pc'[r][0] = "push"
    BY <1>1, <1>2, <1>3
  <1> QED
    BY <1>2, <1>4 DEF Idle

(* What an idle rank holds is the sum of its last call.                    *)
LEMMA OutputIsSum ==
  ASSUME TypeOK, Sums, NEW r \in Rank, Idle(r), call[r] > 0
  PROVE  Output(r) = {call[r]}
  <1> DEFINE c == call[r]
  <1>1. 0 \in Blocks
    BY SizeAssumption DEF Blocks
  <1>2. c \in Calls /\ c # 0 /\ plan[c] \in 1 .. NChunks /\ NChunks \in Nat
    <2>1. c \in Calls /\ c # 0
      BY <1>1, StateTypes
    <2> QED
      BY <2>1, SizeAssumption DEF TypeOK
  <1>3. ASSUME NEW i \in 0 .. plan[c] - 1
        PROVE  acc[r][i] = TotalOf(c, i)
    <2>1. Owner(c, i) \in Blocks /\ Value(c, r, i, Steps(c)) = TotalOf(c, i)
      BY <1>2, OwnerType, ValueEnds
    <2>2. pc[r][Owner(c, i)] = "idle"
      BY <2>1 DEF Idle
    <2> QED
      BY <2>1, <2>2 DEF Sums
  <1>4. 0 \in 0 .. plan[c] - 1
    BY <1>2
  <1>5. Output(r) = {IF acc[r][i] = TotalOf(c, i) THEN c ELSE 0 : i \in 0 .. plan[c] - 1}
    BY <1>2 DEF Output
  <1> HIDE DEF c
  <1>6. {IF acc[r][i] = TotalOf(c, i) THEN c ELSE 0 : i \in 0 .. plan[c] - 1} = {c}
    BY <1>3, <1>4
  <1> QED
    BY <1>5, <1>6 DEF c

(* A call ends on a rank only when every rank has begun it.                *)
Begun == \A r, q \in Rank : Idle(r) => call[r] <= call[q]

(* What AllReduce sees of an output that holds the sum of its call.        *)
Fresh == \A r \in Rank : Idle(r) /\ call[r] > 0 => Output(r) = {call[r]}

LEMMA BegunAndFresh ==
  ASSUME IInv, DataInv
  PROVE  Begun /\ Fresh
  <1>1. TypeOK /\ Shape /\ Handshake /\ Adjacent /\ Sums
    BY DEF IInv, DataInv
  <1>2. Begun
    BY <1>1, AllBegun DEF Begun
  <1>3. Fresh
    BY <1>1, OutputIsSum DEF Fresh
  <1> QED
    BY <1>2, <1>3

Returned == [r \in Rank |-> IF Idle(r) THEN call[r] ELSE call[r] - 1]
Results  == [r \in Rank |-> Output(r)]

(* A launch enters the call.                                               *)
LEMMA LaunchEnters ==
  ASSUME IInv, NEW r \in Rank, Launch(r)
  PROVE  AR!Enter(r)
  <1>0. TypeOK
    BY DEF IInv
  <1>1. /\ Idle(r) /\ call[r] < MaxCalls /\ call' = [call EXCEPT ![r] = @ + 1]
        /\ plan' = plan /\ call[r] \in Nat /\ call'[r] = call[r] + 1
    BY LaunchEffect DEF Launch
  <1>2. ~ Idle(r)'
    BY LaunchBusy
  <1>3. ASSUME NEW x \in Rank, x # r
        PROVE  call'[x] = call[x] /\ acc'[x] = acc[x] /\ Idle(x)' = Idle(x)
    BY <1>3, LaunchEffect DEF Idle
  <1>5. Returned' = Returned
    <2>1. ASSUME NEW x \in Rank
          PROVE  (IF Idle(x)' THEN call'[x] ELSE call'[x] - 1)
                   = (IF Idle(x) THEN call[x] ELSE call[x] - 1)
      <3>1. CASE x = r
        BY <1>1, <1>2, <3>1
      <3>2. CASE x # r
        BY <1>3, <3>2
      <3> QED
        BY <3>1, <3>2
    <2> QED
      BY <2>1 DEF Returned
  <1>6. Results' = [Results EXCEPT ![r] = {}]
    <2>1. Output(r)' = {}
      BY <1>2 DEF Output
    <2>2. ASSUME NEW x \in Rank, x # r
          PROVE  Output(x)' = Output(x)
      <3>1. call'[x] = call[x] /\ acc'[x] = acc[x] /\ Idle(x)' = Idle(x) /\ plan' = plan
        BY <1>1, <1>3, <2>2
      <3>2. \A c, i : TotalOf(c, i)' = TotalOf(c, i)
        BY <1>1, SameSums
      <3> QED
        BY <3>1, <3>2 DEF Output
    <2>3. ASSUME NEW x \in Rank
          PROVE  Output(x)' = [Results EXCEPT ![r] = {}][x]
      BY <2>1, <2>2 DEF Results
    <2>4. Results' = [x \in Rank |-> Output(x)']
      BY DEF Results
    <2> HIDE DEF Results
    <2>5. Results = [x \in Rank |-> Output(x)]
      BY DEF Results
    <2> QED
      BY <2>1, <2>2, <2>4, <2>5
  <1>7. Returned[r] = call[r]
    BY <1>1 DEF Returned
  <1> QED
    BY <1>1, <1>5, <1>6, <1>7 DEF AR!Enter, Returned, Results

(* A CTA's step returns from the call, if it makes its rank idle, or does  *)
(* nothing that AllReduce speaks of.                                       *)
LEMMA CtaReturns ==
  ASSUME IInv, Begun', Fresh', NEW r \in Rank, NEW b \in Blocks, Cta(r, b)
  PROVE  AR!Return(r) \/ UNCHANGED <<call, Returned, Results>>
  <1>0. TypeOK /\ Shape
    BY DEF IInv
  <1>1. /\ call' = call /\ plan' = plan /\ ~ Idle(r)
        /\ \A x \in Rank : x # r => Idle(x)' = Idle(x) /\ acc'[x] = acc[x]
    BY IdleCta
  <1>2. ASSUME NEW x \in Rank, x # r
        PROVE  Output(x)' = Output(x)
    <2>1. call'[x] = call[x] /\ acc'[x] = acc[x] /\ Idle(x)' = Idle(x) /\ plan' = plan
      BY <1>1, <1>2
    <2>2. \A c, i : TotalOf(c, i)' = TotalOf(c, i)
      BY <1>1, SameSums
    <2> QED
      BY <2>1, <2>2 DEF Output
  <1>3. /\ Returned = [x \in Rank |-> IF Idle(x) THEN call[x] ELSE call[x] - 1]
        /\ Returned' = [x \in Rank |-> IF Idle(x)' THEN call[x] ELSE call[x] - 1]
        /\ Results = [x \in Rank |-> Output(x)]
        /\ Results' = [x \in Rank |-> Output(x)']
    BY <1>1 DEF Returned, Results
  <1>4. CASE ~ Idle(r)'
    <2>1. Output(r)' = Output(r)
      BY <1>1, <1>4 DEF Output
    <2>2. \A x \in Rank : Output(x)' = Output(x) /\ Idle(x)' = Idle(x)
      BY <1>1, <1>2, <1>4, <2>1 DEF Idle
    <2>3. Results' = Results /\ Returned' = Returned
      BY <1>3, <2>2
    <2> QED
      BY <1>1, <2>3
  <1>5. CASE Idle(r)'
    <2>1. call[r] \in Calls /\ call[r] > 0
      <3>1. PICK d \in Blocks : pc[r][d] # "idle"
        BY <1>1 DEF Idle
      <3> QED
        BY <1>0, <3>1, StateTypes DEF Shape, Active
    <2>2. \A q \in Rank : call[q] >= call[r]
      <3>1. \A q \in Rank : call[q] \in Nat /\ call[r] \in Nat
        BY <1>0, SizeAssumption DEF TypeOK
      <3>2. \A q \in Rank : call[r] <= call[q]
        BY <1>1, <1>5 DEF Begun
      <3> QED
        BY <3>1, <3>2
    <2>3. Output(r)' = {call[r]}
      BY <1>1, <1>5, <2>1 DEF Fresh
    <2>4. Returned' = [Returned EXCEPT ![r] = call[r]]
      BY <1>1, <1>3, <1>5
    <2>5. Results' = [Results EXCEPT ![r] = {call[r]}]
      BY <1>2, <1>3, <2>3
    <2>6. Returned[r] < call[r]
      BY <1>1, <1>3, <2>1 DEF Calls
    <2> QED
      BY <1>1, <2>1, <2>2, <2>4, <2>5, <2>6 DEF AR!Return, Returned, Results
  <1> QED
    BY <1>4, <1>5

(* The three kernels, in any order the sizes of the calls give and for any *)
(* masks, implement one in-order all-reduce: a call returns on a rank only *)
(* when every rank has entered it, and every rank then holds the sum of    *)
(* that very call, added in the same order.                                *)
THEOREM Refinement == Spec => Implements
  <1>1. Init => AR!Init
    <2> SUFFICES ASSUME Init PROVE AR!Init
      OBVIOUS
    <2>1. \A r \in Rank : call[r] = 0 /\ Idle(r)
      BY DEF Init, Idle
    <2>2. \A r \in Rank : Output(r) = {}
      BY <2>1 DEF Output
    <2>3. call = [r \in Rank |-> 0]
      BY DEF Init
    <2> QED
      BY <2>1, <2>2, <2>3 DEF AR!Init
  <1>2. IInv /\ Begun' /\ Fresh' /\ [Next]_vars => [AR!Next]_(AR!vars)
    <2> SUFFICES ASSUME IInv, Begun', Fresh', [Next]_vars
                 PROVE  AR!Next \/ UNCHANGED <<call, Returned, Results>>
      BY DEF AR!vars, Returned, Results
    <2>1. ASSUME NEW r \in Rank, Launch(r)
          PROVE  AR!Next
      BY <2>1, LaunchEnters DEF AR!Next
    <2>2. ASSUME NEW r \in Rank, NEW b \in Blocks, Cta(r, b)
          PROVE  AR!Next \/ UNCHANGED <<call, Returned, Results>>
      BY <2>2, CtaReturns DEF AR!Next
    <2>3. CASE UNCHANGED vars
      <3>1. /\ call' = call /\ plan' = plan /\ pc' = pc /\ acc' = acc
            /\ \A c, i : TotalOf(c, i)' = TotalOf(c, i)
        BY <2>3, SameSums DEF vars
      <3>2. \A r : Idle(r)' = Idle(r)
        BY <3>1 DEF Idle
      <3>3. \A r : Output(r)' = Output(r)
        BY <3>1, <3>2 DEF Output
      <3> QED
        BY <3>1, <3>2, <3>3 DEF Returned, Results
    <2> QED
      BY <2>1, <2>2, <2>3 DEF Next, Step, Terminated
  <1>3. IInv /\ DataInv => Begun /\ Fresh
    BY BegunAndFresh
  <1> QED
    BY <1>1, <1>2, <1>3, Invariant, DataInvariant, PTL DEF Spec, Implements, AR!Spec
=============================================================================
