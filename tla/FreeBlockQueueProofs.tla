------------------------ MODULE FreeBlockQueueProofs ------------------------
(***************************************************************************)
(* FreeBlockQueue keeps IInv, and implements FreeList, for any number of   *)
(* blocks.                                                                 *)
(*                                                                         *)
(* A list with its two fakes is Node(s, 0), Node(s, 1), ...: distinct      *)
(* nodes, so that a step which rewrites the links of some of them leaves   *)
(* the others, and what a step does to the list it does to the nodes.      *)
(***************************************************************************)
EXTENDS FreeBlockQueue, FiniteSetTheorems, SequenceTheorems, TLAPS

-----------------------------------------------------------------------------
(* Nodes of a list.                                                        *)

(* The nodes of a list are its blocks and the fakes; none is None.         *)
LEMMA NodeType ==
  ASSUME NEW s \in Seq(Blocks)
  PROVE  /\ Len(s) \in Nat
         /\ \A k \in 1 .. Len(s) : Node(s, k) = s[k] /\ Node(s, k) \in Blocks
         /\ \A k \in 0 .. Len(s) + 1 : Node(s, k) \in Nodes /\ Node(s, k) # None
         /\ Node(s, 0) = FakeHead /\ Node(s, Len(s) + 1) = FakeTail
  <1>1. Len(s) \in Nat /\ \A k \in 1 .. Len(s) : s[k] \in Blocks
    BY LenProperties, ElementOfSeq
  <1> QED  BY <1>1, NAssumption, SMT DEF Node, Blocks, Nodes, FakeHead, FakeTail, None

(* The nodes of a list of distinct blocks are distinct.                    *)
LEMMA NodeInjective ==
  ASSUME NEW s \in Seq(Blocks), Distinct(s),
         NEW j \in 0 .. Len(s) + 1, NEW k \in 0 .. Len(s) + 1,
         Node(s, j) = Node(s, k)
  PROVE  j = k
  <1>1. Len(s) \in Nat /\ \A m \in 1 .. Len(s) : s[m] \in Blocks
    BY LenProperties, ElementOfSeq
  <1> QED  BY <1>1, NAssumption, SMT DEF Node, Blocks, FakeHead, FakeTail, Distinct

(* A list of distinct blocks is no longer than the pool.                   *)
LEMMA DistinctShort ==
  ASSUME NEW s \in Seq(Blocks), Distinct(s)
  PROVE  Len(s) \in 0 .. N
  <1>1. Len(s) \in Nat /\ s \in [1 .. Len(s) -> Blocks]
    BY LenProperties
  <1>2. s \in Injection(1 .. Len(s), Blocks)
    BY <1>1 DEF Distinct, Injection, IsInjective
  <1>3. IsFiniteSet(Blocks) /\ Cardinality(Blocks) = N
    <2>1. 0 \in Int /\ N - 1 \in Int
      BY NAssumption
    <2> QED  BY <2>1, FS_Interval, NAssumption DEF Blocks
  <1>4. Cardinality(1 .. Len(s)) = Len(s)
    BY <1>1, FS_Interval
  <1>5. Cardinality(1 .. Len(s)) <= Cardinality(Blocks)
    BY <1>2, <1>3, FS_Injection
  <1> QED  BY <1>1, <1>3, <1>4, <1>5, NAssumption

(* The nodes of s \o t are those of s up to its last block, and then those *)
(* of t from its first.                                                    *)
LEMMA JoinNode ==
  ASSUME NEW s \in Seq(Blocks), NEW t \in Seq(Blocks)
  PROVE  /\ s \o t \in Seq(Blocks)
         /\ Len(s \o t) = Len(s) + Len(t)
         /\ \A k \in 0 .. Len(s) : Node(s \o t, k) = Node(s, k)
         /\ \A k \in 1 .. Len(t) + 1 : Node(s \o t, Len(s) + k) = Node(t, k)
  <1>1. Len(s) \in Nat /\ Len(t) \in Nat
    BY LenProperties
  <1>2. /\ s \o t \in Seq(Blocks)
        /\ Len(s \o t) = Len(s) + Len(t)
        /\ \A k \in 1 .. Len(s) + Len(t) :
              (s \o t)[k] = IF k <= Len(s) THEN s[k] ELSE t[k - Len(s)]
    BY ConcatProperties
  <1>3. ASSUME NEW k \in 0 .. Len(s)
        PROVE  Node(s \o t, k) = Node(s, k)
    <2>1. k # 0 => (s \o t)[k] = s[k] /\ k # Len(s) + 1 /\ k # Len(s \o t) + 1
      BY <1>1, <1>2, SMT
    <2> QED  BY <2>1 DEF Node
  <1>4. ASSUME NEW k \in 1 .. Len(t) + 1
        PROVE  Node(s \o t, Len(s) + k) = Node(t, k)
    <2>1. Len(s) + k # 0 /\ k # 0
      BY <1>1, SMT
    <2>2. Len(s) + k = Len(s \o t) + 1 <=> k = Len(t) + 1
      BY <1>1, <1>2, SMT
    <2>3. k # Len(t) + 1 => (s \o t)[Len(s) + k] = t[k]
      BY <1>1, <1>2, SMT
    <2> QED  BY <2>1, <2>2, <2>3 DEF Node
  <1> QED  BY <1>2, <1>3, <1>4

(* Two lists of distinct blocks that have none in common.                  *)
LEMMA JoinDistinct ==
  ASSUME NEW s \in Seq(Blocks), NEW t \in Seq(Blocks), Distinct(s), Distinct(t),
         \A j \in 1 .. Len(s), k \in 1 .. Len(t) : s[j] # t[k]
  PROVE  Distinct(s \o t)
  <1>1. Len(s) \in Nat /\ Len(t) \in Nat
    BY LenProperties
  <1>2. /\ Len(s \o t) = Len(s) + Len(t)
        /\ \A k \in 1 .. Len(s) + Len(t) :
              (s \o t)[k] = IF k <= Len(s) THEN s[k] ELSE t[k - Len(s)]
    BY ConcatProperties
  <1>3. SUFFICES ASSUME NEW j \in 1 .. Len(s \o t), NEW k \in 1 .. Len(s \o t),
                        (s \o t)[j] = (s \o t)[k]
                 PROVE  j = k
    BY DEF Distinct
  <1>4. j \in 1 .. Len(s) + Len(t) /\ k \in 1 .. Len(s) + Len(t)
    BY <1>2, <1>3
  <1>5. CASE j <= Len(s) /\ k <= Len(s)
    <2>1. j \in 1 .. Len(s) /\ k \in 1 .. Len(s)
      BY <1>1, <1>4, <1>5, SMT
    <2>2. s[j] = s[k]
      BY <1>2, <1>3, <1>4, <1>5
    <2> QED  BY <2>1, <2>2 DEF Distinct
  <1>6. CASE ~ (j <= Len(s)) /\ ~ (k <= Len(s))
    <2>1. j - Len(s) \in 1 .. Len(t) /\ k - Len(s) \in 1 .. Len(t)
      BY <1>1, <1>4, <1>6, SMT
    <2>2. t[j - Len(s)] = t[k - Len(s)]
      BY <1>2, <1>3, <1>4, <1>6
    <2>3. j - Len(s) = k - Len(s)
      BY <2>1, <2>2 DEF Distinct
    <2> QED  BY <1>1, <1>4, <2>3, SMT
  <1>7. CASE j <= Len(s) /\ ~ (k <= Len(s))
    <2>1. j \in 1 .. Len(s) /\ k - Len(s) \in 1 .. Len(t)
      BY <1>1, <1>4, <1>7, SMT
    <2>2. s[j] = t[k - Len(s)]
      BY <1>2, <1>3, <1>4, <1>7
    <2> QED  BY <2>1, <2>2
  <1>8. CASE ~ (j <= Len(s)) /\ k <= Len(s)
    <2>1. k \in 1 .. Len(s) /\ j - Len(s) \in 1 .. Len(t)
      BY <1>1, <1>4, <1>8, SMT
    <2>2. s[k] = t[j - Len(s)]
      BY <1>2, <1>3, <1>4, <1>8
    <2> QED  BY <2>1, <2>2
  <1> QED  BY <1>5, <1>6, <1>7, <1>8

(* What is left of a list without its first m blocks.                      *)
LEMMA RestNode ==
  ASSUME NEW s \in Seq(Blocks), NEW m \in 1 .. Len(s), Distinct(s)
  PROVE  LET r == SubSeq(s, m + 1, Len(s)) IN
         /\ r \in Seq(Blocks) /\ Len(r) = Len(s) - m /\ Distinct(r)
         /\ \A k \in 1 .. Len(r) + 1 : Node(r, k) = Node(s, k + m)
         /\ \A k \in 1 .. Len(r) : r[k] = s[k + m]
  <1> DEFINE r == SubSeq(s, m + 1, Len(s))
  <1>1. Len(s) \in Nat /\ \A k \in 1 .. Len(s) : s[k] \in Blocks
    BY LenProperties, ElementOfSeq
  <1>2. /\ r \in Seq(Blocks)
        /\ Len(r) = Len(s) - m
        /\ \A k \in 1 .. Len(r) : r[k] = s[k + m]
    <2>1. m + 1 \in Int /\ Len(s) \in Int /\ \A k \in m + 1 .. Len(s) : s[k] \in Blocks
      BY <1>1, SMT
    <2>2. /\ r \in Seq(Blocks)
          /\ Len(r) = IF m + 1 <= Len(s) THEN Len(s) - (m + 1) + 1 ELSE 0
          /\ \A k \in 1 .. Len(s) - (m + 1) + 1 : r[k] = s[(m + 1) + k - 1]
      BY <2>1, SubSeqProperties
    <2> HIDE DEF r
    <2>3. Len(r) = Len(s) - m
      BY <1>1, <2>2, SMT
    <2>4. ASSUME NEW k \in 1 .. Len(r)  PROVE r[k] = s[k + m]
      <3>1. (m + 1) + k - 1 = k + m /\ k \in 1 .. Len(s) - (m + 1) + 1
        BY <1>1, <2>3, SMT
      <3> QED  BY <3>1, <2>2
    <2> QED  BY <2>2, <2>3, <2>4
  <1> HIDE DEF r
  <1>3. ASSUME NEW j \in 1 .. Len(r), NEW k \in 1 .. Len(r), r[j] = r[k]
        PROVE  j = k
    <2>1. j + m \in 1 .. Len(s) /\ k + m \in 1 .. Len(s)
      BY <1>1, <1>2, SMT
    <2>2. s[j + m] = s[k + m]
      BY <1>2, <1>3
    <2>3. j + m = k + m
      BY <2>1, <2>2 DEF Distinct
    <2> QED  BY <2>3, <1>1, <1>2, SMT
  <1>4. Distinct(r)
    BY <1>3 DEF Distinct
  <1>5. ASSUME NEW k \in 1 .. Len(r) + 1
        PROVE  Node(r, k) = Node(s, k + m)
    <2>1. /\ k # 0 /\ k + m # 0 /\ (k = Len(r) + 1 <=> k + m = Len(s) + 1)
          /\ k # Len(r) + 1 => k \in 1 .. Len(r)
      <3>1. Len(s) \in Nat /\ Len(r) = Len(s) - m
        BY <1>1, <1>2
      <3> QED  BY <3>1, SMT
    <2>2. k # Len(r) + 1 => r[k] = s[k + m]
      BY <2>1, <1>2
    <2> QED  BY <2>1, <2>2 DEF Node
  <1> QED  BY <1>2, <1>4, <1>5 DEF r

(* A list without its k-th block.                                          *)
LEMMA WithoutNode ==
  ASSUME NEW s \in Seq(Blocks), NEW k \in 1 .. Len(s), Distinct(s)
  PROVE  LET r == [j \in 1 .. Len(s) - 1 |-> IF j < k THEN s[j] ELSE s[j + 1]] IN
         /\ r \in Seq(Blocks) /\ Len(r) = Len(s) - 1 /\ Distinct(r)
         /\ \A j \in 0 .. Len(r) + 1 : Node(r, j) = IF j < k THEN Node(s, j) ELSE Node(s, j + 1)
         /\ \A j \in 1 .. Len(r) : r[j] = IF j < k THEN s[j] ELSE s[j + 1]
  <1> DEFINE r == [j \in 1 .. Len(s) - 1 |-> IF j < k THEN s[j] ELSE s[j + 1]]
  <1>1. Len(s) \in Nat /\ \A j \in 1 .. Len(s) : s[j] \in Blocks
    BY LenProperties, ElementOfSeq
  <1>2. \A j \in 1 .. Len(s) - 1 : r[j] = (IF j < k THEN s[j] ELSE s[j + 1]) /\ r[j] \in Blocks
    BY <1>1, SMT
  <1>3. r \in [1 .. Len(s) - 1 -> Blocks] /\ Len(s) - 1 \in Nat
    BY <1>1, <1>2, SMT
  <1>4. r \in Seq(Blocks) /\ Len(r) = Len(s) - 1
    BY <1>3, SMT
  <1> HIDE DEF r
  <1>5. Distinct(r)
    BY <1>1, <1>2, <1>4, SMT DEF Distinct
  <1>6. \A j \in 0 .. Len(r) + 1 : Node(r, j) = IF j < k THEN Node(s, j) ELSE Node(s, j + 1)
    BY <1>1, <1>2, <1>4, SMT DEF Node, FakeHead
  <1> QED  BY <1>2, <1>4, <1>5, <1>6 DEF r

(* What the pops have taken, one block later.                              *)
LEMMA TakenOne ==
  ASSUME NEW s \in Seq(Blocks), NEW k \in 0 .. Len(s) - 1
  PROVE  Append(SubSeq(s, 1, k), s[k + 1]) = SubSeq(s, 1, k + 1)
  <1>1. Len(s) \in Nat /\ \A m \in 1 .. Len(s) : s[m] \in Blocks
    BY LenProperties, ElementOfSeq
  <1>2. /\ 1 \in 1 .. Len(s) /\ k + 1 \in 1 .. Len(s) /\ (k + 1) - 1 = k
        /\ \A m \in 1 .. k : m \in 1 .. Len(s)
    BY <1>1, SMT
  <1>3. SubSeq(s, 1, k + 1) = SubSeq(s, 1, k) \o <<s[k + 1]>>
    BY <1>2, SubSeqRecursiveSecond
  <1>4. SubSeq(s, 1, k) \in Seq(Blocks)
    BY <1>1, <1>2, SubSeqProperties
  <1> QED  BY <1>1, <1>2, <1>3, <1>4, AppendIsConcat

-----------------------------------------------------------------------------
(* IInv holds at first and in every step.                                  *)

(* What every step needs of the list it starts from.                       *)
LEMMA ListFacts ==
  ASSUME NEW s \in Seq(Blocks), Distinct(s)
  PROVE  /\ Len(s) \in 0 .. N
         /\ \A k \in 1 .. Len(s) : Node(s, k) = s[k] /\ Node(s, k) \in Blocks
         /\ \A k \in 0 .. Len(s) + 1 : Node(s, k) \in Nodes /\ Node(s, k) # None
         /\ Node(s, 0) = FakeHead /\ Node(s, Len(s) + 1) = FakeTail
         /\ \A j, k \in 0 .. Len(s) + 1 : Node(s, j) = Node(s, k) => j = k
  BY NodeType, NodeInjective, DistinctShort

LEMMA NodeSets ==
  /\ Blocks \subseteq Nodes /\ Nodes \subseteq Links
  /\ FakeHead \in Nodes /\ FakeTail \in Nodes /\ FakeHead # FakeTail
  /\ FakeHead \notin Blocks /\ FakeTail \notin Blocks
  /\ None \in Links /\ None \notin Nodes
  /\ N \in Nat
  BY NAssumption, SMT DEF Blocks, Nodes, Links, FakeHead, FakeTail, None

LEMMA InitIInv == Init => IInv
  <1> SUFFICES ASSUME Init PROVE IInv
    OBVIOUS
  <1>1. free \in [1 .. N -> Blocks] /\ \A j \in 1 .. N : free[j] = j - 1
    BY NAssumption, SMT DEF Init, Blocks
  <1>2. free \in Seq(Blocks) /\ Len(free) = N
    BY <1>1, NAssumption, SMT
  <1>3. Distinct(free)
    BY <1>1, <1>2, NAssumption, SMT DEF Distinct
  <1>4. TypeOK
    <2>1. next \in [Nodes -> Links] /\ prev \in [Nodes -> Links]
      BY NAssumption, SMT DEF Init, Nodes, Links, FakeHead, FakeTail, None
    <2>2. <<>> \in Seq(Blocks)
      BY EmptySeq
    <2> QED  BY <1>2, <2>1, <2>2, NAssumption, NodeSets, SMT DEF TypeOK, Init
  <1>5. \A k \in 0 .. N + 1 : Node(free, k) = k - 1
    BY <1>1, <1>2, NAssumption, SMT DEF Node, FakeHead, FakeTail
  <1>6. Chain(free, 0, Len(free))
    <2>1. ASSUME NEW k \in 0 .. N
          PROVE  next[k - 1] = k /\ prev[k] = k - 1 /\ (k + 1) - 1 = k
      BY NAssumption, SMT DEF Init, Nodes, FakeHead, FakeTail
    <2>2. \A k \in 0 .. N : k + 1 \in 0 .. N + 1 /\ k \in 0 .. N + 1
      BY NAssumption, SMT
    <2> QED  BY <1>2, <1>5, <2>1, <2>2 DEF Chain
  <1>7. \A b \in Blocks : IsFree(b)
    <2> TAKE b \in Blocks
    <2>1. b + 1 \in 1 .. Len(free) /\ free[b + 1] = b
      BY <1>1, <1>2, NAssumption, SMT DEF Blocks
    <2> QED  BY <2>1 DEF IsFree
  <1>8. op = "idle" /\ num = N
    BY DEF Init
  <1>9. prev[FakeHead] = None /\ next[FakeTail] = None
    BY NodeSets DEF Init
  <1> QED  BY <1>2, <1>3, <1>4, <1>6, <1>7, <1>8, <1>9
           DEF IInv, Whole, Linked, UnlinkedInv, IdleInv, PopInv, AppendInv, PrependInv

(* popleft.                                                                *)
LEMMA PopleftIInv ==
  ASSUME IInv, Popleft
  PROVE  IInv' /\ got' = SubSeq(free, 1, 1) /\ Len(free) \in Nat \ {0}
  <1> DEFINE b == next[FakeHead]
             r == SubSeq(free, 2, Len(free))
  <1>1. /\ op = "idle" /\ TypeOK /\ UnlinkedInv
        /\ free \in Seq(Blocks) /\ Distinct(free)
        /\ Chain(free, 0, Len(free)) /\ num = Len(free)
        /\ next \in [Nodes -> Links] /\ prev \in [Nodes -> Links]
    BY DEF IInv, Popleft, Whole, IdleInv, TypeOK
  <1>2. /\ Len(free) \in 0 .. N
        /\ \A k \in 1 .. Len(free) : Node(free, k) = free[k] /\ Node(free, k) \in Blocks
        /\ \A k \in 0 .. Len(free) + 1 : Node(free, k) \in Nodes /\ Node(free, k) # None
        /\ Node(free, 0) = FakeHead /\ Node(free, Len(free) + 1) = FakeTail
        /\ \A j, k \in 0 .. Len(free) + 1 : Node(free, j) = Node(free, k) => j = k
    BY <1>1, ListFacts
  <1>3. b = Node(free, 1)
    BY <1>1, <1>2, NodeSets, SMT DEF Chain
  <1>4. 1 \in 1 .. Len(free) /\ Len(free) \in Nat \ {0}
    BY <1>2, <1>3, NodeSets, SMT DEF Popleft
  <1>5. b = free[1] /\ b \in Blocks /\ next[b] = Node(free, 2)
    BY <1>1, <1>2, <1>3, <1>4, NodeSets, SMT DEF Chain
  <1>6. /\ r \in Seq(Blocks) /\ Len(r) = Len(free) - 1 /\ Distinct(r)
        /\ \A k \in 1 .. Len(r) + 1 : Node(r, k) = Node(free, k + 1)
        /\ \A k \in 1 .. Len(r) : r[k] = free[k + 1]
    BY <1>1, <1>4, RestNode, 1 + 1 = 2
  <1>7. /\ op' = "idle" /\ free' = r /\ num' = num - 1 /\ got' = <<b>>
        /\ list' = list /\ n' = n /\ i' = i /\ cursor' = cursor
        /\ first' = first /\ ret' = ret
        /\ next' = [next EXCEPT ![FakeHead] = next[b], ![b] = None]
        /\ prev' = [prev EXCEPT ![next[b]] = FakeHead, ![b] = None]
    BY <1>1 DEF Popleft, args
  <1> HIDE DEF b, r
  <1>8. /\ \A x \in Nodes : next'[x] = IF x = b THEN None
                           ELSE IF x = FakeHead THEN Node(free, 2) ELSE next[x]
        /\ \A x \in Nodes : prev'[x] = IF x = b THEN None
                           ELSE IF x = Node(free, 2) THEN FakeHead ELSE prev[x]
        /\ next' \in [Nodes -> Links] /\ prev' \in [Nodes -> Links]
    BY <1>1, <1>2, <1>4, <1>5, <1>7, NodeSets, SMT
  <1>9. Node(r, 0) = FakeHead
    BY <1>6, NodeType
  <1>10. ASSUME NEW k \in 0 .. Len(r)
         PROVE  /\ next'[Node(r, k)] = Node(r, k + 1)
                /\ prev'[Node(r, k + 1)] = Node(r, k)
    <2>1. CASE k = 0
      BY <2>1, <1>2, <1>3, <1>4, <1>5, <1>6, <1>8, <1>9, NodeSets, SMT
    <2>2. CASE k > 0
      <3>1. Node(r, k) = Node(free, k + 1) /\ Node(r, k + 1) = Node(free, (k + 1) + 1)
        BY <2>2, <1>2, <1>6, SMT
      <3>2. /\ next[Node(free, k + 1)] = Node(free, (k + 1) + 1)
            /\ prev[Node(free, (k + 1) + 1)] = Node(free, k + 1)
        BY <2>2, <1>1, <1>2, <1>6, SMT DEF Chain
      <3>3. /\ Node(free, k + 1) \in Nodes \ {b, FakeHead}
            /\ Node(free, (k + 1) + 1) \in Nodes \ {b, Node(free, 2)}
        BY <2>2, <1>2, <1>3, <1>4, <1>6, SMT
      <3> QED  BY <3>1, <3>2, <3>3, <1>8
    <2> QED  BY <2>1, <2>2, <1>2, <1>6, SMT
  <1>11. UnlinkedInv'
    <2>1. prev'[FakeHead] = None /\ next'[FakeTail] = None
      BY <1>1, <1>2, <1>4, <1>5, <1>8, NodeSets, SMT DEF UnlinkedInv
    <2>2. ASSUME NEW x \in Blocks, ~ (\E j \in 1 .. Len(r) : r[j] = x)
          PROVE  next'[x] = None /\ prev'[x] = None
      <3>1. x = b \/ ~ IsFree(x)
        <4> SUFFICES ASSUME NEW j \in 1 .. Len(free), free[j] = x PROVE x = b
          BY DEF IsFree
        <4>1. j = 1 \/ (j - 1 \in 1 .. Len(r) /\ r[j - 1] = free[j])
          BY <1>2, <1>6, SMT
        <4> QED  BY <4>1, <2>2, <1>5
      <3>2. CASE x = b
        BY <3>2, <1>8, NodeSets
      <3>3. CASE x # b
        <4>1. next[x] = None /\ prev[x] = None
          BY <3>1, <3>3, <1>1 DEF UnlinkedInv, Linked
        <4>2. x # Node(free, 2)
          BY <3>1, <3>3, <1>2, <1>4, NodeSets, SMT DEF IsFree
        <4> QED  BY <3>3, <4>1, <4>2, <1>8, NodeSets
      <3> QED  BY <3>2, <3>3
    <2> QED  BY <2>1, <2>2, <1>7 DEF UnlinkedInv, Linked, IsFree
  <1>12. TypeOK'
    <2>1. <<b>> \in Seq(Blocks)
      BY <1>5, SMT
    <2>2. num - 1 \in 0 .. N
      <3>1. num = Len(free) /\ Len(free) \in 0 .. N /\ Len(free) \in Nat \ {0}
        BY <1>1, <1>2, <1>4
      <3> QED  BY <3>1, NAssumption, SMT
    <2> QED  BY <2>1, <2>2, <1>1, <1>6, <1>7, <1>8 DEF TypeOK
  <1>13. IdleInv' /\ Distinct(Whole)'
    <2>1. num' = Len(r) /\ op' = "idle" /\ free' = r
      BY <1>1, <1>6, <1>7
    <2>2. Whole' = r
      BY <2>1 DEF Whole
    <2>3. Distinct(Whole)'
      BY <2>2, <1>6 DEF Distinct
    <2>4. Chain(free, 0, Len(free))'
      BY <2>1, <1>10 DEF Chain, Node
    <2> QED  BY <2>1, <2>3, <2>4 DEF IdleInv
  <1>14. got' = SubSeq(free, 1, 1)
    <2>1. SubSeq(free, 1, 0) = <<>> /\ 0 \in 0 .. Len(free) - 1 /\ 0 + 1 = 1
      BY <1>2, <1>4, SubSeqEmpty, SMT
    <2>2. Append(<<>>, free[1]) = SubSeq(free, 1, 1)
      BY <2>1, <1>1, TakenOne
    <2> QED  BY <2>2, <1>5, <1>7, SMT
  <1> QED  BY <1>4, <1>7, <1>11, <1>12, <1>13, <1>14
           DEF IInv, PopInv, AppendInv, PrependInv

(* popleft_n starts.                                                       *)
LEMMA PopleftNIInv ==
  ASSUME IInv, NEW k \in 1 .. N, PopleftN(k)
  PROVE  IInv'
  <1>1. /\ op = "idle" /\ TypeOK /\ UnlinkedInv
        /\ free \in Seq(Blocks) /\ Distinct(free)
        /\ Chain(free, 0, Len(free)) /\ num = Len(free) /\ num >= k
    BY DEF IInv, PopleftN, Whole, IdleInv, TypeOK
  <1>2. /\ Len(free) \in 0 .. N /\ Node(free, 0) = FakeHead
        /\ \A j \in 0 .. Len(free) + 1 : Node(free, j) \in Nodes
    BY <1>1, ListFacts
  <1>3. /\ op' = "pop" /\ n' = k /\ i' = 0 /\ ret' = <<>> /\ num' = num - k
        /\ cursor' = next[FakeHead]
        /\ next' = next /\ prev' = prev /\ list' = list /\ first' = first
        /\ got' = got /\ free' = free
    BY DEF PopleftN
  <1>4. next[FakeHead] = Node(free, 0 + 1)
    <2>1. 0 \in 0 .. Len(free)
      BY <1>2, NodeSets, SMT
    <2> QED  BY <2>1, <1>1, <1>2 DEF Chain
  <1>5. k \in 1 .. Len(free) /\ k \in 0 .. N /\ num - k = Len(free) - k /\ num - k \in 0 .. N
    BY <1>1, <1>2, NodeSets, SMT
  <1>6. TypeOK'
    <2>1. Node(free, 0 + 1) \in Links /\ 0 \in 0 .. N
      BY <1>2, NodeSets, SMT
    <2>2. <<>> \in Seq(Blocks)
      BY EmptySeq
    <2> QED  BY <2>1, <2>2, <1>1, <1>3, <1>4, <1>5 DEF TypeOK
  <1>7. Chain(free, 1, Len(free))
    BY <1>1, <1>2, SMT DEF Chain
  <1>8. PopInv'
    <2>1. SubSeq(free, 1, 0) = <<>>
      BY SubSeqEmpty
    <2>2. 0 \in 0 .. k /\ 0 + 1 = 1
      BY <1>5, SMT
    <2>3. Chain(free, i + 1, Len(free))'
      BY <1>3, <1>7, <2>2 DEF Chain, Node
    <2>4. Node(free, i + 1)' = Node(free, 0 + 1)
      BY <1>3 DEF Node
    <2> QED  BY <2>1, <2>2, <2>3, <2>4, <1>1, <1>3, <1>4, <1>5 DEF PopInv
  <1>9. UnlinkedInv'
    <2>1. \A x \in Blocks : Linked(x)' <=> Linked(x)
      BY <1>1, <1>3 DEF Linked, IsFree
    <2> QED  BY <2>1, <1>1, <1>3 DEF UnlinkedInv
  <1>10. Distinct(Whole)'
    BY <1>1, <1>3 DEF Whole, Distinct
  <1> QED  BY <1>3, <1>6, <1>8, <1>9, <1>10 DEF IInv, IdleInv, AppendInv, PrependInv

(* popleft_n pops one block.                                               *)
LEMMA PopOneIInv ==
  ASSUME IInv, PopOne
  PROVE  IInv'
  <1>1. /\ op = "pop" /\ TypeOK /\ UnlinkedInv
        /\ free \in Seq(Blocks) /\ Distinct(free)
        /\ n \in 1 .. Len(free) /\ i \in 0 .. n /\ num = Len(free) - n
        /\ ret = SubSeq(free, 1, i) /\ cursor = Node(free, i + 1)
        /\ Chain(free, i + 1, Len(free)) /\ i < n
        /\ next \in [Nodes -> Links] /\ prev \in [Nodes -> Links]
    BY DEF IInv, PopOne, Whole, PopInv, TypeOK
  <1>2. /\ Len(free) \in 0 .. N
        /\ \A k \in 1 .. Len(free) : Node(free, k) = free[k] /\ Node(free, k) \in Blocks
        /\ \A k \in 0 .. Len(free) + 1 : Node(free, k) \in Nodes /\ Node(free, k) # None
        /\ Node(free, 0) = FakeHead /\ Node(free, Len(free) + 1) = FakeTail
        /\ \A j, k \in 0 .. Len(free) + 1 : Node(free, j) = Node(free, k) => j = k
    BY <1>1, ListFacts
  <1>3. /\ op' = op /\ n' = n /\ i' = i + 1 /\ ret' = Append(ret, cursor) /\ num' = num
        /\ cursor' = next[cursor]
        /\ next' = [next EXCEPT ![cursor] = None]
        /\ prev' = [prev EXCEPT ![cursor] = None]
        /\ list' = list /\ first' = first /\ got' = got /\ free' = free
    BY DEF PopOne
  <1>4. /\ i + 1 \in 1 .. Len(free) /\ i + 1 \in 0 .. n /\ i \in 0 .. Len(free) - 1
        /\ i + 1 \in 0 .. N /\ i + 1 \in 0 .. Len(free) + 1
        /\ (i + 1) + 1 \in 0 .. Len(free) + 1
    <2>1. Len(free) \in 0 .. N /\ n \in 1 .. Len(free) /\ i \in 0 .. n /\ i < n
      BY <1>1, <1>2
    <2> QED  BY <2>1, NAssumption, SMT
  <1>5. cursor = free[i + 1] /\ cursor \in Blocks /\ next[cursor] = Node(free, (i + 1) + 1)
    <2>1. i + 1 \in i + 1 .. Len(free)
      BY <1>4, SMT
    <2> QED  BY <2>1, <1>1, <1>2, <1>4 DEF Chain
  <1>6. /\ \A x \in Nodes : next'[x] = IF x = cursor THEN None ELSE next[x]
        /\ \A x \in Nodes : prev'[x] = IF x = cursor THEN None ELSE prev[x]
        /\ next' \in [Nodes -> Links] /\ prev' \in [Nodes -> Links]
    BY <1>1, <1>3, <1>5, NodeSets
  <1>7. ret' = SubSeq(free, 1, i + 1)
    BY <1>1, <1>3, <1>4, <1>5, TakenOne
  <1>8. ASSUME NEW k \in (i + 1) + 1 .. Len(free)
        PROVE  next'[Node(free, k)] = Node(free, k + 1) /\ prev'[Node(free, k + 1)] = Node(free, k)
    <2>1. next[Node(free, k)] = Node(free, k + 1) /\ prev[Node(free, k + 1)] = Node(free, k)
      BY <1>1, <1>4, SMT DEF Chain
    <2>2. Node(free, k) \in Nodes \ {cursor} /\ Node(free, k + 1) \in Nodes \ {cursor}
      BY <1>1, <1>2, <1>4, SMT
    <2> QED  BY <2>1, <2>2, <1>6
  <1>9. UnlinkedInv'
    <2>1. prev'[FakeHead] = None /\ next'[FakeTail] = None
      BY <1>1, <1>5, <1>6, NodeSets DEF UnlinkedInv
    <2>2. ASSUME NEW x \in Blocks, ~ (\E k \in (i + 1) + 1 .. Len(free) : free[k] = x)
          PROVE  next'[x] = None /\ prev'[x] = None
      <3>1. x = cursor \/ ~ (\E k \in i + 1 .. Len(free) : free[k] = x)
        <4> SUFFICES ASSUME NEW k \in i + 1 .. Len(free), free[k] = x PROVE x = cursor
          OBVIOUS
        <4>1. k = i + 1 \/ k \in (i + 1) + 1 .. Len(free)
          BY <1>4, SMT
        <4> QED  BY <4>1, <2>2, <1>5
      <3> QED  BY <3>1, <1>1, <1>6, NodeSets DEF UnlinkedInv, Linked
    <2> QED  BY <2>1, <2>2, <1>1, <1>3 DEF UnlinkedInv, Linked
  <1>10. TypeOK'
    <2>1. ret' \in Seq(Blocks)
      BY <1>1, <1>3, <1>5, AppendProperties DEF TypeOK
    <2>2. Node(free, (i + 1) + 1) \in Links
      BY <1>2, <1>4, NodeSets
    <2> QED  BY <2>1, <2>2, <1>1, <1>3, <1>4, <1>5, <1>6 DEF TypeOK
  <1>11. PopInv'
    <2>1. Chain(free, i + 1, Len(free))'
      BY <1>3, <1>8 DEF Chain, Node
    <2>2. Node(free, i + 1)' = Node(free, (i + 1) + 1)
      BY <1>3 DEF Node
    <2> QED  BY <2>1, <2>2, <1>1, <1>3, <1>4, <1>5, <1>7 DEF PopInv
  <1>12. Distinct(Whole)'
    BY <1>1, <1>3 DEF Whole, Distinct
  <1> QED  BY <1>1, <1>3, <1>9, <1>10, <1>11, <1>12
           DEF IInv, IdleInv, AppendInv, PrependInv

(* popleft_n returns.                                                      *)
LEMMA PopEndIInv ==
  ASSUME IInv, PopEnd
  PROVE  IInv' /\ n \in 1 .. Len(free) /\ got' = SubSeq(free, 1, n)
  <1> DEFINE r == SubSeq(free, n + 1, Len(free))
  <1>1. /\ op = "pop" /\ TypeOK /\ UnlinkedInv
        /\ free \in Seq(Blocks) /\ Distinct(free)
        /\ n \in 1 .. Len(free) /\ i = n /\ num = Len(free) - n
        /\ ret = SubSeq(free, 1, n) /\ cursor = Node(free, n + 1)
        /\ Chain(free, n + 1, Len(free))
        /\ next \in [Nodes -> Links] /\ prev \in [Nodes -> Links] /\ ret \in Seq(Blocks)
    BY DEF IInv, PopEnd, Whole, PopInv, TypeOK
  <1>2. /\ Len(free) \in 0 .. N
        /\ \A k \in 1 .. Len(free) : Node(free, k) = free[k] /\ Node(free, k) \in Blocks
        /\ \A k \in 0 .. Len(free) + 1 : Node(free, k) \in Nodes /\ Node(free, k) # None
        /\ Node(free, 0) = FakeHead /\ Node(free, Len(free) + 1) = FakeTail
        /\ \A j, k \in 0 .. Len(free) + 1 : Node(free, j) = Node(free, k) => j = k
    BY <1>1, ListFacts
  <1>3. n + 1 \in 0 .. Len(free) + 1 /\ n + 1 # 0 /\ 0 \in 0 .. Len(free) + 1
    BY <1>1, <1>2, SMT
  <1>4. cursor # None /\ cursor \in Nodes /\ cursor # FakeHead
    BY <1>1, <1>2, <1>3
  <1>5. /\ r \in Seq(Blocks) /\ Len(r) = Len(free) - n /\ Distinct(r)
        /\ \A k \in 1 .. Len(r) + 1 : Node(r, k) = Node(free, k + n)
        /\ \A k \in 1 .. Len(r) : r[k] = free[k + n]
    BY <1>1, RestNode
  <1>6. /\ op' = "idle" /\ free' = r /\ num' = num /\ got' = ret
        /\ list' = <<>> /\ n' = 0 /\ i' = 0 /\ cursor' = None /\ first' = None /\ ret' = <<>>
        /\ next' = [next EXCEPT ![FakeHead] = cursor]
        /\ prev' = [prev EXCEPT ![cursor] = FakeHead]
    BY <1>4 DEF PopEnd, LocalsEnd
  <1> HIDE DEF r
  <1>7. /\ \A x \in Nodes : next'[x] = IF x = FakeHead THEN cursor ELSE next[x]
        /\ \A x \in Nodes : prev'[x] = IF x = cursor THEN FakeHead ELSE prev[x]
        /\ next' \in [Nodes -> Links] /\ prev' \in [Nodes -> Links]
    BY <1>1, <1>4, <1>6, NodeSets
  <1>8. Node(r, 0) = FakeHead
    BY <1>5, NodeType
  <1>9. ASSUME NEW k \in 0 .. Len(r)
        PROVE  /\ next'[Node(r, k)] = Node(r, k + 1)
               /\ prev'[Node(r, k + 1)] = Node(r, k)
    <2>1. CASE k = 0
      <3>1. Node(r, k + 1) = cursor
        BY <2>1, <1>1, <1>2, <1>5, SMT
      <3> QED  BY <3>1, <2>1, <1>4, <1>7, <1>8, NodeSets
    <2>2. CASE k > 0
      <3>1. Node(r, k) = Node(free, k + n) /\ Node(r, k + 1) = Node(free, (k + n) + 1)
        BY <2>2, <1>1, <1>2, <1>5, SMT
      <3>2. /\ next[Node(free, k + n)] = Node(free, (k + n) + 1)
            /\ prev[Node(free, (k + n) + 1)] = Node(free, k + n)
        BY <2>2, <1>1, <1>2, <1>5, SMT DEF Chain
      <3>3. /\ Node(free, k + n) \in Nodes \ {FakeHead}
            /\ Node(free, (k + n) + 1) \in Nodes \ {cursor}
        BY <2>2, <1>1, <1>2, <1>3, <1>5, SMT
      <3> QED  BY <3>1, <3>2, <3>3, <1>7
    <2> QED  BY <2>1, <2>2, <1>2, <1>5, SMT
  <1>10. UnlinkedInv'
    <2>1. prev'[FakeHead] = None /\ next'[FakeTail] = None
      BY <1>1, <1>4, <1>7, NodeSets DEF UnlinkedInv
    <2>2. ASSUME NEW x \in Blocks, ~ (\E k \in 1 .. Len(r) : r[k] = x)
          PROVE  next'[x] = None /\ prev'[x] = None
      <3>1. ~ (\E k \in n + 1 .. Len(free) : free[k] = x)
        <4> SUFFICES ASSUME NEW k \in n + 1 .. Len(free), free[k] = x PROVE FALSE
          OBVIOUS
        <4>1. k - n \in 1 .. Len(r) /\ (k - n) + n = k
          BY <1>1, <1>2, <1>5, SMT
        <4>2. r[k - n] = x
          BY <4>1, <1>5
        <4> QED  BY <4>1, <4>2, <2>2
      <3>2. next[x] = None /\ prev[x] = None
        BY <3>1, <1>1 DEF UnlinkedInv, Linked
      <3>3. x # cursor
        <4>1. n + 1 = Len(free) + 1 \/ n + 1 \in n + 1 .. Len(free)
          BY <1>1, <1>2, SMT
        <4>2. n + 1 \in n + 1 .. Len(free) => n + 1 \in 1 .. Len(free)
          BY <1>1, SMT
        <4> QED  BY <3>1, <4>1, <4>2, <1>1, <1>2, NodeSets
      <3> QED  BY <3>2, <3>3, <1>7, NodeSets
    <2> QED  BY <2>1, <2>2, <1>6 DEF UnlinkedInv, Linked, IsFree
  <1>11. TypeOK'
    <2>1. <<>> \in Seq(Blocks)
      BY EmptySeq
    <2>2. 0 \in 0 .. N
      BY NodeSets, SMT
    <2> QED  BY <2>1, <2>2, <1>1, <1>5, <1>6, <1>7, NodeSets DEF TypeOK
  <1>12. IdleInv' /\ Distinct(Whole)'
    <2>1. num' = Len(r) /\ op' = "idle" /\ free' = r
      BY <1>1, <1>5, <1>6
    <2>2. Whole' = r
      BY <2>1 DEF Whole
    <2>3. Distinct(Whole)'
      BY <2>2, <1>5 DEF Distinct
    <2>4. Chain(free, 0, Len(free))'
      BY <2>1, <1>9 DEF Chain, Node
    <2> QED  BY <2>1, <2>3, <2>4 DEF IdleInv
  <1> QED  BY <1>1, <1>6, <1>10, <1>11, <1>12 DEF IInv, PopInv, AppendInv, PrependInv

(* remove.                                                                 *)
LEMMA RemoveIInv ==
  ASSUME IInv, NEW b \in Blocks, Remove(b)
  PROVE  IInv' /\ \E k \in 1 .. Len(free) :
                    free' = [j \in 1 .. Len(free) - 1 |-> IF j < k THEN free[j] ELSE free[j + 1]]
  <1>1. /\ op = "idle" /\ TypeOK /\ UnlinkedInv
        /\ free \in Seq(Blocks) /\ Distinct(free)
        /\ Chain(free, 0, Len(free)) /\ num = Len(free)
        /\ next \in [Nodes -> Links] /\ prev \in [Nodes -> Links]
    BY DEF IInv, Remove, Whole, IdleInv, TypeOK
  <1>2. /\ Len(free) \in 0 .. N
        /\ \A k \in 1 .. Len(free) : Node(free, k) = free[k] /\ Node(free, k) \in Blocks
        /\ \A k \in 0 .. Len(free) + 1 : Node(free, k) \in Nodes /\ Node(free, k) # None
        /\ Node(free, 0) = FakeHead /\ Node(free, Len(free) + 1) = FakeTail
        /\ \A j, k \in 0 .. Len(free) + 1 : Node(free, j) = Node(free, k) => j = k
    BY <1>1, ListFacts
  <1>3. PICK k \in 1 .. Len(free) :
          /\ free[k] = b
          /\ free' = [j \in 1 .. Len(free) - 1 |-> IF j < k THEN free[j] ELSE free[j + 1]]
    BY DEF Remove
  <1> DEFINE r == [j \in 1 .. Len(free) - 1 |-> IF j < k THEN free[j] ELSE free[j + 1]]
  <1>4. /\ r \in Seq(Blocks) /\ Len(r) = Len(free) - 1 /\ Distinct(r)
        /\ \A j \in 0 .. Len(r) + 1 :
              Node(r, j) = IF j < k THEN Node(free, j) ELSE Node(free, j + 1)
        /\ \A j \in 1 .. Len(r) : r[j] = IF j < k THEN free[j] ELSE free[j + 1]
    BY <1>1, WithoutNode
  <1>5. /\ op' = "idle" /\ free' = r /\ num' = num - 1 /\ got' = got
        /\ list' = list /\ n' = n /\ i' = i /\ cursor' = cursor
        /\ first' = first /\ ret' = ret
        /\ next' = [next EXCEPT ![prev[b]] = next[b], ![b] = None]
        /\ prev' = [prev EXCEPT ![next[b]] = prev[b], ![b] = None]
    BY <1>1, <1>3 DEF Remove, args
  <1> HIDE DEF r
  <1>6. /\ k - 1 \in 0 .. Len(free) /\ k \in 0 .. Len(free) /\ (k - 1) + 1 = k
        /\ k \in 0 .. Len(free) + 1 /\ k + 1 \in 0 .. Len(free) + 1 /\ k - 1 \in 0 .. Len(free) + 1
        /\ k # k + 1 /\ k # k - 1 /\ Len(free) \in Nat /\ k \in Nat
    <2>1. Len(free) \in 0 .. N
      BY <1>2
    <2> QED  BY <2>1, NAssumption, SMT
  <1>7. b = Node(free, k) /\ next[b] = Node(free, k + 1) /\ prev[b] = Node(free, k - 1)
    BY <1>1, <1>2, <1>3, <1>6 DEF Chain
  <1>8. /\ \A x \in Nodes : next'[x] = IF x = b THEN None
                           ELSE IF x = Node(free, k - 1) THEN Node(free, k + 1) ELSE next[x]
        /\ \A x \in Nodes : prev'[x] = IF x = b THEN None
                           ELSE IF x = Node(free, k + 1) THEN Node(free, k - 1) ELSE prev[x]
        /\ next' \in [Nodes -> Links] /\ prev' \in [Nodes -> Links]
    BY <1>1, <1>2, <1>5, <1>6, <1>7, NodeSets
  <1>9. ASSUME NEW j \in 0 .. Len(r)
        PROVE  next'[Node(r, j)] = Node(r, j + 1) /\ prev'[Node(r, j + 1)] = Node(r, j)
    <2>0. /\ j \in Nat /\ j \in 0 .. Len(r) + 1 /\ j + 1 \in 0 .. Len(r) + 1
          /\ j \in 0 .. Len(free) /\ j + 1 \in 0 .. Len(free)
          /\ j \in 0 .. Len(free) + 1 /\ j + 1 \in 0 .. Len(free) + 1
          /\ (j + 1) + 1 \in 0 .. Len(free) + 1 /\ j # j + 1 /\ j + 1 # (j + 1) + 1
      <3>1. Len(r) = Len(free) - 1
        BY <1>4
      <3> QED  BY <3>1, <1>6, SMT
    <2>1. CASE j + 1 < k
      <3>0. j < k /\ j # k /\ j # k - 1 /\ j + 1 # k /\ j + 1 # k + 1
        BY <2>0, <2>1, <1>6, SMT
      <3>1. Node(r, j) = Node(free, j) /\ Node(r, j + 1) = Node(free, j + 1)
        BY <3>0, <2>0, <2>1, <1>4
      <3>2. next[Node(free, j)] = Node(free, j + 1) /\ prev[Node(free, j + 1)] = Node(free, j)
        BY <2>0, <1>1 DEF Chain
      <3>3. /\ Node(free, j) \in Nodes \ {b, Node(free, k - 1)}
            /\ Node(free, j + 1) \in Nodes \ {b, Node(free, k + 1)}
        BY <3>0, <2>0, <1>2, <1>6, <1>7
      <3> QED  BY <3>1, <3>2, <3>3, <1>8
    <2>2. CASE j + 1 = k
      <3>0. j < k /\ j = k - 1 /\ (j + 1) + 1 = k + 1 /\ ~ (j + 1 < k)
        BY <2>0, <2>2, <1>6, SMT
      <3>1. Node(r, j) = Node(free, k - 1) /\ Node(r, j + 1) = Node(free, k + 1)
        BY <3>0, <2>0, <1>4
      <3>2. Node(free, k - 1) \in Nodes \ {b} /\ Node(free, k + 1) \in Nodes \ {b}
        BY <1>2, <1>6, <1>7
      <3> QED  BY <3>1, <3>2, <1>8
    <2>3. CASE j + 1 > k
      <3>0. /\ ~ (j < k) /\ ~ (j + 1 < k) /\ j + 1 # k /\ j + 1 # k - 1
            /\ (j + 1) + 1 # k /\ (j + 1) + 1 # k + 1
        BY <2>0, <2>3, <1>6, SMT
      <3>1. Node(r, j) = Node(free, j + 1) /\ Node(r, j + 1) = Node(free, (j + 1) + 1)
        BY <3>0, <2>0, <1>4
      <3>2. /\ next[Node(free, j + 1)] = Node(free, (j + 1) + 1)
            /\ prev[Node(free, (j + 1) + 1)] = Node(free, j + 1)
        BY <2>0, <1>1 DEF Chain
      <3>3. /\ Node(free, j + 1) \in Nodes \ {b, Node(free, k - 1)}
            /\ Node(free, (j + 1) + 1) \in Nodes \ {b, Node(free, k + 1)}
        BY <3>0, <2>0, <1>2, <1>6, <1>7
      <3> QED  BY <3>1, <3>2, <3>3, <1>8
    <2> QED  BY <2>0, <2>1, <2>2, <2>3, <1>6, SMT
  <1>10. UnlinkedInv'
    <2>1. prev'[FakeHead] = None /\ next'[FakeTail] = None
      <3>1. FakeHead # Node(free, k + 1) /\ FakeTail # Node(free, k - 1)
        <4>1. /\ 0 # k + 1 /\ Len(free) + 1 # k - 1
              /\ 0 \in 0 .. Len(free) + 1 /\ Len(free) + 1 \in 0 .. Len(free) + 1
          BY <1>6, SMT
        <4> QED  BY <4>1, <1>2, <1>6
      <3> QED  BY <3>1, <1>1, <1>8, NodeSets DEF UnlinkedInv
    <2>2. ASSUME NEW x \in Blocks, ~ (\E j \in 1 .. Len(r) : r[j] = x)
          PROVE  next'[x] = None /\ prev'[x] = None
      <3>1. x = b \/ ~ IsFree(x)
        <4> SUFFICES ASSUME NEW j \in 1 .. Len(free), free[j] = x, j # k PROVE FALSE
          BY <1>3 DEF IsFree
        <4>0. Len(r) = Len(free) - 1
          BY <1>4
        <4>1. CASE j < k
          <5>1. j \in 1 .. Len(r)
            BY <4>0, <4>1, <1>6, SMT
          <5> QED  BY <5>1, <4>1, <1>4, <2>2
        <4>2. CASE j > k
          <5>1. j - 1 \in 1 .. Len(r) /\ ~ (j - 1 < k) /\ (j - 1) + 1 = j
            BY <4>0, <4>2, <1>6, SMT
          <5> QED  BY <5>1, <1>4, <2>2
        <4> QED  BY <4>1, <4>2, <1>6, SMT
      <3>2. CASE x = b
        BY <3>2, <1>8, NodeSets
      <3>3. CASE x # b
        <4>1. next[x] = None /\ prev[x] = None /\ ~ IsFree(x)
          BY <3>1, <3>3, <1>1 DEF UnlinkedInv, Linked
        <4>2. \A m \in 0 .. Len(free) + 1 : x # Node(free, m)
          <5> TAKE m \in 0 .. Len(free) + 1
          <5>1. m = 0 \/ m = Len(free) + 1 \/ m \in 1 .. Len(free)
            BY <1>6, SMT
          <5> QED  BY <5>1, <4>1, <1>2, NodeSets DEF IsFree
        <4> QED  BY <3>3, <4>1, <4>2, <1>6, <1>8, NodeSets
      <3> QED  BY <3>2, <3>3
    <2> QED  BY <2>1, <2>2, <1>5 DEF UnlinkedInv, Linked, IsFree
  <1>11. TypeOK'
    <2>1. num - 1 \in 0 .. N
      <3>1. num = Len(free) /\ Len(free) \in 0 .. N
        BY <1>1, <1>2
      <3> QED  BY <3>1, NAssumption, SMT
    <2> QED  BY <2>1, <1>1, <1>4, <1>5, <1>8 DEF TypeOK
  <1>12. IdleInv' /\ Distinct(Whole)'
    <2>1. num' = Len(r) /\ op' = "idle" /\ free' = r
      BY <1>1, <1>4, <1>5
    <2>2. Whole' = r
      BY <2>1 DEF Whole
    <2>3. Distinct(Whole)'
      BY <2>2, <1>4 DEF Distinct
    <2>4. Chain(free, 0, Len(free))'
      BY <2>1, <1>9 DEF Chain, Node
    <2> QED  BY <2>1, <2>3, <2>4 DEF IdleInv
  <1> QED  BY <1>3, <1>5, <1>10, <1>11, <1>12 DEF IInv, PopInv, AppendInv, PrependInv

-----------------------------------------------------------------------------
(* The operations that put blocks back.                                    *)

(* A block that is not on a list is none of its nodes.                     *)
LEMMA NotANode ==
  ASSUME NEW s \in Seq(Blocks), NEW x \in Blocks, ~ \E k \in 1 .. Len(s) : s[k] = x
  PROVE  \A k \in 0 .. Len(s) + 1 : x # Node(s, k)
  <1> TAKE k \in 0 .. Len(s) + 1
  <1>1. /\ Len(s) \in Nat /\ Node(s, 0) = FakeHead /\ Node(s, Len(s) + 1) = FakeTail
        /\ \A m \in 1 .. Len(s) : Node(s, m) = s[m]
    BY NodeType
  <1>2. k = 0 \/ k = Len(s) + 1 \/ k \in 1 .. Len(s)
    <2>1. Len(s) \in Nat
      BY <1>1
    <2> QED  BY <2>1, SMT
  <1> QED  BY <1>1, <1>2, NodeSets

(* The blocks of s \o t are those of s and those of t.                     *)
LEMMA JoinElement ==
  ASSUME NEW s \in Seq(Blocks), NEW t \in Seq(Blocks)
  PROVE  \A x : (\E k \in 1 .. Len(s \o t) : (s \o t)[k] = x)
            <=> (\E k \in 1 .. Len(s) : s[k] = x) \/ (\E k \in 1 .. Len(t) : t[k] = x)
  <1>1. Len(s) \in Nat /\ Len(t) \in Nat
    BY LenProperties
  <1>2. /\ Len(s \o t) = Len(s) + Len(t)
        /\ \A k \in 1 .. Len(s) + Len(t) :
              (s \o t)[k] = IF k <= Len(s) THEN s[k] ELSE t[k - Len(s)]
    BY ConcatProperties
  <1>3. ASSUME NEW k \in 1 .. Len(s \o t)
        PROVE  \/ k \in 1 .. Len(s) /\ (s \o t)[k] = s[k]
               \/ k - Len(s) \in 1 .. Len(t) /\ (s \o t)[k] = t[k - Len(s)]
    BY <1>1, <1>2, SMT
  <1>4. ASSUME NEW k \in 1 .. Len(s)
        PROVE  k \in 1 .. Len(s \o t) /\ (s \o t)[k] = s[k]
    BY <1>1, <1>2, SMT
  <1>5. ASSUME NEW k \in 1 .. Len(t)
        PROVE  Len(s) + k \in 1 .. Len(s \o t) /\ (s \o t)[Len(s) + k] = t[k]
    BY <1>1, <1>2, SMT
  <1> QED  BY <1>3, <1>4, <1>5

(* What the pool gives back.                                               *)
LEMMA GivenList ==
  ASSUME free \in Seq(Blocks), Distinct(free), NEW s \in Given
  PROVE  /\ s \in Seq(Blocks) /\ s # <<>> /\ Distinct(s) /\ Len(s) \in Nat \ {0}
         /\ \A j \in 1 .. Len(s), k \in 1 .. Len(free) : s[j] # free[k]
         /\ free \o s \in Seq(Blocks) /\ Distinct(free \o s)
         /\ s \o free \in Seq(Blocks) /\ Distinct(s \o free)
  <1>1. PICK m \in 1 .. N : s \in [1 .. m -> InUse]
    BY DEF Given
  <1>2. Distinct(s) /\ m \in Nat \ {0}
    BY NAssumption, SMT DEF Given
  <1>3. s \in [1 .. m -> Blocks]
    BY <1>1 DEF InUse
  <1>4. s \in Seq(Blocks) /\ Len(s) = m
    BY <1>2, <1>3, SMT
  <1>5. \A j \in 1 .. Len(s), k \in 1 .. Len(free) : s[j] # free[k]
    BY <1>1, <1>4 DEF InUse, IsFree
  <1>6. s # <<>>
    BY <1>2, <1>4, SMT
  <1> QED  BY <1>2, <1>4, <1>5, <1>6, JoinNode, JoinDistinct

(* append.                                                                 *)
LEMMA Append1IInv ==
  ASSUME IInv, NEW b \in InUse, Append1(b)
  PROVE  IInv'
  <1>1. /\ op = "idle" /\ TypeOK /\ UnlinkedInv
        /\ free \in Seq(Blocks) /\ Distinct(free)
        /\ Chain(free, 0, Len(free)) /\ num = Len(free)
        /\ next \in [Nodes -> Links] /\ prev \in [Nodes -> Links]
    BY DEF IInv, Append1, Whole, IdleInv, TypeOK
  <1>2. b \in Blocks /\ \A k \in 1 .. Len(free) : free[k] # b
    BY DEF InUse, IsFree
  <1>3. PICK t : t = <<b>> /\ t \in Seq(Blocks) /\ Len(t) = 1 /\ t[1] = b
    <2>1. <<b>> \in Seq(Blocks) /\ Len(<<b>>) = 1 /\ <<b>>[1] = b
      BY <1>2, SMT
    <2> QED  BY <2>1
  <1> DEFINE w == free \o t
  <1>4. /\ w \in Seq(Blocks) /\ Len(w) = Len(free) + 1
        /\ \A k \in 0 .. Len(free) : Node(w, k) = Node(free, k)
        /\ \A k \in 1 .. 1 + 1 : Node(w, Len(free) + k) = Node(t, k)
    BY <1>1, <1>3, JoinNode
  <1>5. Distinct(t)
    BY <1>3, SMT DEF Distinct
  <1>6. Distinct(w)
    <2>1. \A j \in 1 .. Len(free), k \in 1 .. Len(t) : free[j] # t[k]
      BY <1>2, <1>3, SMT
    <2> QED  BY <2>1, <1>1, <1>3, <1>5, JoinDistinct
  <1>7. /\ Len(w) \in 0 .. N
        /\ \A k \in 0 .. Len(w) + 1 : Node(w, k) \in Nodes /\ Node(w, k) # None
        /\ Node(w, 0) = FakeHead /\ Node(w, Len(w) + 1) = FakeTail
        /\ \A j, k \in 0 .. Len(w) + 1 : Node(w, j) = Node(w, k) => j = k
    BY <1>4, <1>6, ListFacts
  <1>8. \A x : (\E k \in 1 .. Len(w) : w[k] = x) <=> IsFree(x) \/ x = b
    <2> TAKE x
    <2>1. (\E k \in 1 .. Len(t) : t[k] = x) <=> x = b
      BY <1>3, SMT
    <2>2. (\E k \in 1 .. Len(w) : w[k] = x)
             <=> (\E k \in 1 .. Len(free) : free[k] = x) \/ (\E k \in 1 .. Len(t) : t[k] = x)
      <3>1. free \in Seq(Blocks) /\ t \in Seq(Blocks)
        BY <1>1, <1>3
      <3>2. \A y : (\E k \in 1 .. Len(free \o t) : (free \o t)[k] = y)
               <=> (\E k \in 1 .. Len(free) : free[k] = y) \/ (\E k \in 1 .. Len(t) : t[k] = y)
        BY <3>1, JoinElement, Zenon
      <3> QED  BY <3>2, Zenon
    <2> HIDE DEF w
    <2> QED  BY <2>1, <2>2 DEF IsFree
  <1>9. /\ op' = "idle" /\ free' = w /\ num' = num + 1 /\ got' = got
        /\ list' = list /\ n' = n /\ i' = i /\ cursor' = cursor
        /\ first' = first /\ ret' = ret
        /\ next' = [next EXCEPT ![prev[FakeTail]] = b, ![b] = FakeTail]
        /\ prev' = [prev EXCEPT ![b] = prev[FakeTail], ![FakeTail] = b]
    BY <1>1, <1>3 DEF Append1, args
  <1> HIDE DEF w
  <1>10. /\ Len(free) \in Nat /\ Len(free) \in 0 .. Len(free) /\ 1 \in 1 .. 1 + 1
         /\ Len(w) = Len(free) + 1 /\ Len(free) \in 0 .. Len(w) + 1
         /\ Len(w) \in 0 .. Len(w) + 1 /\ Len(w) + 1 \in 0 .. Len(w) + 1
         /\ Len(free) # Len(w) /\ Len(w) + 1 # Len(w) /\ 0 \in 0 .. Len(w) + 1
         /\ 0 # Len(w) /\ 0 # Len(w) + 1 /\ Len(free) # Len(w) + 1
    <2>1. Len(free) \in Nat /\ Len(w) = Len(free) + 1
      BY <1>1, <1>4, LenProperties
    <2> QED  BY <2>1, SMT
  <1>11. Node(w, Len(w)) = b
    <2>1. Node(t, 1) = b
      <3>1. 1 \in 1 .. Len(t)
        BY <1>3, SMT
      <3> QED  BY <3>1, <1>3, NodeType
    <2> QED  BY <2>1, <1>4, <1>10
  <1>12. prev[FakeTail] = Node(w, Len(free))
    <2>1. Node(free, Len(free) + 1) = FakeTail
      BY <1>1, NodeType
    <2> QED  BY <2>1, <1>1, <1>4, <1>10 DEF Chain
  <1>13. /\ \A x \in Nodes : next'[x] = IF x = b THEN FakeTail
                           ELSE IF x = Node(w, Len(free)) THEN b ELSE next[x]
         /\ \A x \in Nodes : prev'[x] = IF x = FakeTail THEN b
                           ELSE IF x = b THEN Node(w, Len(free)) ELSE prev[x]
         /\ next' \in [Nodes -> Links] /\ prev' \in [Nodes -> Links]
    <2>1. Node(w, Len(free)) \in Nodes /\ b \in Nodes
      BY <1>2, <1>7, <1>10, NodeSets
    <2> QED  BY <2>1, <1>1, <1>9, <1>12, NodeSets
  <1>14. ASSUME NEW k \in 0 .. Len(w)
         PROVE  next'[Node(w, k)] = Node(w, k + 1) /\ prev'[Node(w, k + 1)] = Node(w, k)
    <2>1. CASE k = Len(w)
      BY <2>1, <1>7, <1>10, <1>11, <1>13, NodeSets
    <2>2. CASE k = Len(free)
      <3>1. Node(w, k) # b /\ b # FakeTail
        BY <2>2, <1>2, <1>7, <1>10, <1>11, NodeSets
      <3> QED  BY <3>1, <2>2, <1>2, <1>7, <1>10, <1>11, <1>13, NodeSets
    <2>3. CASE k < Len(free)
      <3>1. /\ k \in 0 .. Len(free) /\ k + 1 \in 0 .. Len(free)
            /\ k \in 0 .. Len(w) + 1 /\ k + 1 \in 0 .. Len(w) + 1
            /\ k # Len(free) /\ k # Len(w) /\ k + 1 # Len(w) /\ k + 1 # Len(w) + 1
        BY <2>3, <1>10, SMT
      <3>2. next[Node(w, k)] = Node(w, k + 1) /\ prev[Node(w, k + 1)] = Node(w, k)
        BY <3>1, <1>1, <1>4 DEF Chain
      <3>3. /\ Node(w, k) \in Nodes \ {b, Node(w, Len(free))}
            /\ Node(w, k + 1) \in Nodes \ {b, FakeTail}
        BY <3>1, <1>7, <1>10, <1>11
      <3> QED  BY <3>2, <3>3, <1>13
    <2> QED  BY <2>1, <2>2, <2>3, <1>10, SMT
  <1>15. UnlinkedInv'
    <2>1. prev'[FakeHead] = None /\ next'[FakeTail] = None
      <3>1. FakeTail # Node(w, Len(free))
        BY <1>7, <1>10
      <3> QED  BY <3>1, <1>1, <1>2, <1>13, NodeSets DEF UnlinkedInv
    <2>2. ASSUME NEW x \in Blocks, ~ (\E k \in 1 .. Len(w) : w[k] = x)
          PROVE  next'[x] = None /\ prev'[x] = None
      <3>1. next[x] = None /\ prev[x] = None /\ x # b
        BY <2>2, <1>1, <1>8 DEF UnlinkedInv, Linked
      <3>2. x # Node(w, Len(free))
        BY <2>2, <1>4, <1>10, NotANode
      <3> QED  BY <3>1, <3>2, <1>13, NodeSets
    <2> QED  BY <2>1, <2>2, <1>9 DEF UnlinkedInv, Linked, IsFree
  <1>16. TypeOK'
    <2>1. num' \in 0 .. N
      BY <1>1, <1>7, <1>9, <1>10
    <2> QED  BY <2>1, <1>1, <1>4, <1>9, <1>13 DEF TypeOK
  <1>17. IdleInv' /\ Distinct(Whole)'
    <2>1. num' = Len(w) /\ op' = "idle" /\ free' = w
      BY <1>1, <1>9, <1>10
    <2>2. Whole' = w
      BY <2>1 DEF Whole
    <2>3. Distinct(Whole)'
      BY <2>2, <1>6 DEF Distinct
    <2>4. Chain(free, 0, Len(free))'
      BY <2>1, <1>14 DEF Chain, Node
    <2> QED  BY <2>1, <2>3, <2>4 DEF IdleInv
  <1> QED  BY <1>9, <1>15, <1>16, <1>17 DEF IInv, PopInv, AppendInv, PrependInv

(* append_n starts.                                                        *)
LEMMA AppendNIInv ==
  ASSUME IInv, NEW s \in Given, AppendN(s)
  PROVE  IInv'
  <1>1. /\ op = "idle" /\ TypeOK /\ UnlinkedInv
        /\ free \in Seq(Blocks) /\ Distinct(free)
        /\ Chain(free, 0, Len(free)) /\ num = Len(free)
    BY DEF IInv, AppendN, Whole, IdleInv, TypeOK
  <1>2. /\ op' = "append" /\ list' = s /\ i' = 0 /\ cursor' = prev[FakeTail]
        /\ next' = next /\ prev' = prev /\ num' = num /\ n' = n /\ first' = first
        /\ ret' = ret /\ got' = got /\ free' = free
    BY DEF AppendN
  <1>3. /\ s \in Seq(Blocks) /\ s # <<>> /\ Len(s) \in Nat \ {0}
        /\ free \o s \in Seq(Blocks) /\ Distinct(free \o s)
        /\ \A k \in 0 .. Len(free) : Node(free \o s, k) = Node(free, k)
    BY <1>1, GivenList, JoinNode
  <1>4. Len(free) \in Nat /\ Node(free, Len(free) + 1) = FakeTail
    BY <1>1, NodeType
  <1>5. /\ 0 \in 0 .. Len(s) /\ 0 \in 0 .. N /\ Len(free) \in 0 .. Len(free)
        /\ Len(free) + 0 = Len(free)
    BY <1>3, <1>4, NodeSets, SMT
  <1>6. prev[FakeTail] = Node(free \o s, Len(free) + 0)
    BY <1>1, <1>3, <1>4, <1>5 DEF Chain
  <1>7. ASSUME NEW k \in 0 .. Len(free) + 0 - 1
        PROVE  /\ next[Node(free \o s, k)] = Node(free \o s, k + 1)
               /\ prev[Node(free \o s, k + 1)] = Node(free \o s, k)
    <2>1. k \in 0 .. Len(free) /\ k + 1 \in 0 .. Len(free)
      BY <1>4, SMT
    <2> QED  BY <2>1, <1>1, <1>3 DEF Chain
  <1>8. TypeOK'
    <2>1. prev[FakeTail] \in Links
      BY <1>1, NodeSets DEF TypeOK
    <2> QED  BY <2>1, <1>1, <1>2, <1>3, <1>5 DEF TypeOK
  <1>9. AppendInv'
    <2>1. Chain(free \o list, 0, Len(free) + i - 1)'
      BY <1>2, <1>7 DEF Chain, Node
    <2>2. cursor' = Node(free \o list, Len(free) + i)'
      BY <1>2, <1>6 DEF Node
    <2> QED  BY <2>1, <2>2, <1>1, <1>2, <1>3, <1>5 DEF AppendInv
  <1>10. UnlinkedInv'
    <2>1. \A x \in Blocks : ~ Linked(x)' => ~ Linked(x)
      BY <1>1, <1>2 DEF Linked, IsFree
    <2> QED  BY <2>1, <1>1, <1>2 DEF UnlinkedInv
  <1>11. Distinct(Whole)'
    <2>1. Whole' = free \o s
      BY <1>2 DEF Whole
    <2> QED  BY <2>1, <1>3 DEF Distinct
  <1> QED  BY <1>2, <1>8, <1>9, <1>10, <1>11 DEF IInv, IdleInv, PopInv, PrependInv

(* prepend_n starts.                                                       *)
LEMMA PrependNIInv ==
  ASSUME IInv, NEW s \in Given, PrependN(s)
  PROVE  IInv'
  <1>1. /\ op = "idle" /\ TypeOK /\ UnlinkedInv
        /\ free \in Seq(Blocks) /\ Distinct(free)
        /\ Chain(free, 0, Len(free)) /\ num = Len(free)
    BY DEF IInv, PrependN, Whole, IdleInv, TypeOK
  <1>2. /\ op' = "prepend" /\ list' = s /\ i' = 0 /\ cursor' = FakeHead
        /\ first' = next[FakeHead]
        /\ next' = next /\ prev' = prev /\ num' = num /\ n' = n
        /\ ret' = ret /\ got' = got /\ free' = free
    BY DEF PrependN
  <1>3. /\ s \in Seq(Blocks) /\ s # <<>> /\ Len(s) \in Nat \ {0}
        /\ s \o free \in Seq(Blocks) /\ Distinct(s \o free)
        /\ \A k \in 1 .. Len(free) + 1 : Node(s \o free, Len(s) + k) = Node(free, k)
    BY <1>1, GivenList, JoinNode
  <1>4. Len(free) \in Nat /\ Node(free, 0) = FakeHead /\ Node(s \o free, 0) = FakeHead
    BY <1>1, <1>3, NodeType
  <1>5. /\ 0 \in 0 .. Len(s) /\ 0 \in 0 .. N /\ 0 \in 0 .. Len(free) /\ 0 + 1 = 1
        /\ 1 \in 1 .. Len(free) + 1
    BY <1>3, <1>4, NodeSets, SMT
  <1>6. next[FakeHead] = Node(s \o free, Len(s) + 1)
    BY <1>1, <1>3, <1>4, <1>5 DEF Chain
  <1>7. ASSUME NEW k \in Len(s) + 1 .. Len(s) + Len(free)
        PROVE  /\ next[Node(s \o free, k)] = Node(s \o free, k + 1)
               /\ prev[Node(s \o free, k + 1)] = Node(s \o free, k)
    <2>1. /\ k - Len(s) \in 1 .. Len(free) + 1 /\ (k - Len(s)) + 1 \in 1 .. Len(free) + 1
          /\ k - Len(s) \in 0 .. Len(free)
          /\ Len(s) + (k - Len(s)) = k /\ Len(s) + ((k - Len(s)) + 1) = k + 1
      BY <1>3, <1>4, SMT
    <2>2. Node(s \o free, k) = Node(free, k - Len(s))
      BY <2>1, <1>3
    <2>3. Node(s \o free, k + 1) = Node(free, (k - Len(s)) + 1)
      BY <2>1, <1>3
    <2> QED  BY <2>1, <2>2, <2>3, <1>1 DEF Chain
  <1>8. TypeOK'
    <2>1. next[FakeHead] \in Links /\ FakeHead \in Links
      BY <1>1, NodeSets DEF TypeOK
    <2> QED  BY <2>1, <1>1, <1>2, <1>3, <1>5 DEF TypeOK
  <1>9. PrependInv'
    <2>1. Chain(list \o free, Len(list) + 1, Len(list) + Len(free))'
      BY <1>2, <1>7 DEF Chain, Node
    <2>2. Chain(list \o free, 0, i - 1)'
      <3>1. ~ \E k \in 0 .. 0 - 1 : TRUE
        BY SMT
      <3> QED  BY <3>1, <1>2 DEF Chain
    <2>3. cursor' = Node(list \o free, i)' /\ first' = Node(list \o free, Len(list) + 1)'
      BY <1>2, <1>4, <1>6 DEF Node
    <2> QED  BY <2>1, <2>2, <2>3, <1>1, <1>2, <1>3, <1>5 DEF PrependInv
  <1>10. UnlinkedInv'
    <2>1. \A x \in Blocks : ~ Linked(x)' => ~ Linked(x)
      BY <1>1, <1>2 DEF Linked, IsFree
    <2> QED  BY <2>1, <1>1, <1>2 DEF UnlinkedInv
  <1>11. Distinct(Whole)'
    <2>1. Whole' = s \o free
      BY <1>2 DEF Whole
    <2> QED  BY <2>1, <1>3 DEF Distinct
  <1> QED  BY <1>2, <1>8, <1>9, <1>10, <1>11 DEF IInv, IdleInv, PopInv, AppendInv

(* Linking two neighbours of a list leaves its other links.                *)
LEMMA Relink ==
  ASSUME NEW s \in Seq(Blocks), Distinct(s), NEW p \in 0 .. Len(s),
         next \in [Nodes -> Links], prev \in [Nodes -> Links],
         next' = [next EXCEPT ![Node(s, p)] = Node(s, p + 1)],
         prev' = [prev EXCEPT ![Node(s, p + 1)] = Node(s, p)]
  PROVE  /\ next' \in [Nodes -> Links] /\ prev' \in [Nodes -> Links]
         /\ next'[Node(s, p)] = Node(s, p + 1) /\ prev'[Node(s, p + 1)] = Node(s, p)
         /\ \A k \in 0 .. Len(s) : k # p =>
               /\ next'[Node(s, k)] = next[Node(s, k)]
               /\ prev'[Node(s, k + 1)] = prev[Node(s, k + 1)]
         /\ next'[FakeTail] = next[FakeTail] /\ prev'[FakeHead] = prev[FakeHead]
         /\ \A x \in Blocks : x # Node(s, p) /\ x # Node(s, p + 1) =>
               next'[x] = next[x] /\ prev'[x] = prev[x]
  <1>1. /\ \A k \in 0 .. Len(s) + 1 : Node(s, k) \in Nodes
        /\ Node(s, 0) = FakeHead /\ Node(s, Len(s) + 1) = FakeTail
        /\ \A j, k \in 0 .. Len(s) + 1 : Node(s, j) = Node(s, k) => j = k
    BY ListFacts
  <1>2. /\ p \in 0 .. Len(s) + 1 /\ p + 1 \in 0 .. Len(s) + 1
        /\ 0 \in 0 .. Len(s) + 1 /\ Len(s) + 1 \in 0 .. Len(s) + 1
        /\ p # Len(s) + 1 /\ p + 1 # 0
        /\ \A k \in 0 .. Len(s) : /\ k \in 0 .. Len(s) + 1 /\ k + 1 \in 0 .. Len(s) + 1
                                 /\ k # p => k + 1 # p + 1
    <2>1. Len(s) \in Nat
      BY LenProperties
    <2> QED  BY <2>1, SMT
  <1>3. Node(s, p) \in Nodes /\ Node(s, p + 1) \in Nodes /\ Node(s, p) \in Links /\ Node(s, p + 1) \in Links
    BY <1>1, <1>2, NodeSets
  <1>4. /\ \A x \in Nodes : next'[x] = IF x = Node(s, p) THEN Node(s, p + 1) ELSE next[x]
        /\ \A x \in Nodes : prev'[x] = IF x = Node(s, p + 1) THEN Node(s, p) ELSE prev[x]
        /\ next' \in [Nodes -> Links] /\ prev' \in [Nodes -> Links]
    BY <1>3
  <1>5. FakeTail # Node(s, p) /\ FakeHead # Node(s, p + 1)
    BY <1>1, <1>2
  <1>6. ASSUME NEW k \in 0 .. Len(s), k # p
        PROVE  /\ next'[Node(s, k)] = next[Node(s, k)]
               /\ prev'[Node(s, k + 1)] = prev[Node(s, k + 1)]
    <2>1. /\ Node(s, k) \in Nodes /\ Node(s, k) # Node(s, p)
          /\ Node(s, k + 1) \in Nodes /\ Node(s, k + 1) # Node(s, p + 1)
      BY <1>1, <1>2, <1>6
    <2> QED  BY <2>1, <1>4
  <1> QED  BY <1>3, <1>4, <1>5, <1>6, NodeSets

(* append_n and prepend_n link one block.                                  *)
LEMMA LinkOneIInv ==
  ASSUME IInv, LinkOne
  PROVE  IInv'
  <1> DEFINE w == Whole
             p == IF op = "append" THEN Len(free) + i ELSE i
  <1>1. /\ op \in {"append", "prepend"} /\ TypeOK /\ UnlinkedInv /\ Distinct(w)
        /\ free \in Seq(Blocks) /\ list \in Seq(Blocks)
        /\ i \in 0 .. Len(list) /\ i < Len(list) /\ list # <<>> /\ num = Len(free)
        /\ next \in [Nodes -> Links] /\ prev \in [Nodes -> Links]
    BY DEF IInv, LinkOne, AppendInv, PrependInv, TypeOK
  <1>2. w = IF op = "append" THEN free \o list ELSE list \o free
    BY <1>1 DEF Whole
  <1>3. /\ w \in Seq(Blocks) /\ Len(w) = Len(free) + Len(list)
        /\ Len(free) \in Nat /\ Len(list) \in Nat
    <2>1. Len(free) \in Nat /\ Len(list) \in Nat
      BY <1>1, LenProperties
    <2>2. w \in Seq(Blocks) /\ Len(w) = Len(free) + Len(list)
      <3>1. CASE op = "append"
        BY <3>1, <1>1, <1>2, JoinNode
      <3>2. CASE op # "append"
        <4>1. w \in Seq(Blocks) /\ Len(w) = Len(list) + Len(free)
          BY <3>2, <1>1, <1>2, JoinNode
        <4> QED  BY <4>1, <2>1, SMT
      <3> QED  BY <3>1, <3>2
    <2> QED  BY <2>1, <2>2
  <1>4. /\ p \in 0 .. Len(w) /\ p + 1 \in 1 .. Len(w) /\ i + 1 \in 1 .. Len(list)
        /\ i + 1 \in 0 .. Len(list) /\ p \in Nat /\ i \in Nat
    BY <1>1, <1>3, SMT
  <1>5. cursor = Node(w, p)
    BY <1>1, <1>2 DEF IInv, AppendInv, PrependInv
  <1>6. list[i + 1] = Node(w, p + 1) /\ list[i + 1] = w[p + 1] /\ list[i + 1] \in Blocks
    <2>1. Node(list, i + 1) = list[i + 1] /\ list[i + 1] \in Blocks
      BY <1>1, <1>4, NodeType
    <2>2. CASE op = "append"
      <3>1. i + 1 \in 1 .. Len(list) + 1 /\ Len(free) + (i + 1) = p + 1
        BY <2>2, <1>3, <1>4, SMT
      <3>2. Node(free \o list, Len(free) + (i + 1)) = Node(list, i + 1)
        BY <3>1, <1>1, JoinNode
      <3>3. list[i + 1] = Node(w, p + 1)
        BY <2>1, <2>2, <3>1, <3>2, <1>2
      <3> QED  BY <2>1, <3>3, <1>3, <1>4, NodeType
    <2>3. CASE op = "prepend"
      <3>1. i + 1 \in 0 .. Len(list) /\ i + 1 = p + 1
        BY <2>3, <1>4
      <3>2. Node(list \o free, i + 1) = Node(list, i + 1)
        BY <3>1, <1>1, JoinNode
      <3>3. list[i + 1] = Node(w, p + 1)
        BY <2>1, <2>3, <3>1, <3>2, <1>2
      <3> QED  BY <2>1, <3>3, <1>3, <1>4, NodeType
    <2> QED  BY <2>2, <2>3, <1>1
  <1>7. /\ op' = op /\ list' = list /\ i' = i + 1 /\ cursor' = Node(w, p + 1)
        /\ num' = num /\ n' = n /\ first' = first /\ ret' = ret /\ got' = got /\ free' = free
        /\ next' = [next EXCEPT ![Node(w, p)] = Node(w, p + 1)]
        /\ prev' = [prev EXCEPT ![Node(w, p + 1)] = Node(w, p)]
    BY <1>5, <1>6 DEF LinkOne
  <1>8. Whole' = w /\ Distinct(Whole)'
    BY <1>1, <1>7 DEF Whole, Distinct
  <1> HIDE DEF w, p
  <1>9. /\ next' \in [Nodes -> Links] /\ prev' \in [Nodes -> Links]
        /\ next'[Node(w, p)] = Node(w, p + 1) /\ prev'[Node(w, p + 1)] = Node(w, p)
        /\ \A k \in 0 .. Len(w) : k # p =>
               /\ next'[Node(w, k)] = next[Node(w, k)]
               /\ prev'[Node(w, k + 1)] = prev[Node(w, k + 1)]
        /\ next'[FakeTail] = next[FakeTail] /\ prev'[FakeHead] = prev[FakeHead]
        /\ \A x \in Blocks : x # Node(w, p) /\ x # Node(w, p + 1) =>
               next'[x] = next[x] /\ prev'[x] = prev[x]
    BY <1>1, <1>3, <1>4, <1>7, Relink
  <1>10. Len(w) \in 0 .. N /\ \A k \in 0 .. Len(w) + 1 : Node(w, k) \in Nodes
    BY <1>1, <1>3, ListFacts
  <1>11. TypeOK'
    <2>1. i + 1 \in 0 .. N
      <3>1. Len(w) \in 0 .. N /\ N \in Nat
        BY <1>10, NAssumption
      <3> QED  BY <3>1, <1>3, <1>4, SMT
    <2>2. list[i + 1] \in Links
      BY <1>6, NodeSets
    <2> QED  BY <2>1, <2>2, <1>1, <1>6, <1>7, <1>9 DEF TypeOK
  <1>12. UnlinkedInv'
    <2> SUFFICES ASSUME NEW x \in Blocks, ~ Linked(x)'
                 PROVE  next'[x] = None /\ prev'[x] = None
      BY <1>1, <1>9 DEF UnlinkedInv
    <2>1. ~ IsFree(x) /\ ~ \E k \in 1 .. i + 1 : list[k] = x
      BY <1>1, <1>7 DEF Linked, IsFree
    <2>2. ~ Linked(x)
      <3>1. \A k \in 1 .. i : k \in 1 .. i + 1
        BY <1>4, SMT
      <3> QED  BY <2>1, <3>1, <1>1 DEF Linked
    <2>3. x # Node(w, p + 1)
      <3>1. i + 1 \in 1 .. i + 1
        BY <1>4, SMT
      <3> QED  BY <2>1, <3>1, <1>6
    <2>4. x # Node(w, p)
      <3>1. CASE op = "append" /\ i > 0
        <4>1. /\ i \in 1 .. i + 1 /\ i \in 1 .. Len(list) + 1 /\ i \in 1 .. Len(list)
              /\ Len(free) + i = p
          BY <3>1, <1>3, <1>4, SMT DEF p
        <4>2. Node(free \o list, Len(free) + i) = Node(list, i) /\ Node(list, i) = list[i]
          BY <4>1, <1>1, JoinNode, NodeType
        <4> QED  BY <4>1, <4>2, <2>1, <3>1, <1>2
      <3>2. CASE op = "append" /\ i = 0
        <4>1. p = Len(free) /\ Len(free) \in 0 .. Len(free) /\ Len(free) \in 0 .. Len(free) + 1
          BY <3>2, <1>3, <1>4, SMT DEF p
        <4>2. Node(w, p) = Node(free, Len(free))
          BY <4>1, <3>2, <1>1, <1>2, JoinNode
        <4> QED  BY <4>1, <4>2, <2>1, <1>1, NotANode DEF IsFree
      <3>3. CASE op = "prepend" /\ i > 0
        <4>1. /\ i \in 1 .. i + 1 /\ i \in 0 .. Len(list) /\ i \in 1 .. Len(list) /\ p = i
          BY <3>3, <1>1, <1>3, <1>4, SMT DEF p
        <4>2. Node(list \o free, i) = Node(list, i) /\ Node(list, i) = list[i]
          BY <4>1, <1>1, JoinNode, NodeType
        <4> QED  BY <4>1, <4>2, <2>1, <3>3, <1>2
      <3>4. CASE op = "prepend" /\ i = 0
        <4>1. p = 0
          BY <3>4 DEF p
        <4> QED  BY <4>1, <1>3, NodeType, NodeSets
      <3>5. i > 0 \/ i = 0
        BY <1>4, SMT
      <3> QED  BY <3>1, <3>2, <3>3, <3>4, <3>5, <1>1
    <2> QED  BY <2>2, <2>3, <2>4, <1>1, <1>9 DEF UnlinkedInv
  <1>13. AppendInv'
    <2> SUFFICES ASSUME op = "append" PROVE AppendInv'
      BY <1>7 DEF AppendInv
    <2>1. w = free \o list /\ p = Len(free) + i /\ Chain(w, 0, p - 1)
      BY <1>2 DEF IInv, AppendInv, p
    <2>2. ASSUME NEW k \in 0 .. p
          PROVE  next'[Node(w, k)] = Node(w, k + 1) /\ prev'[Node(w, k + 1)] = Node(w, k)
      <3>1. k = p \/ (k # p /\ k \in 0 .. p - 1 /\ k \in 0 .. Len(w))
        BY <1>3, <1>4, SMT
      <3> QED  BY <3>1, <2>1, <1>9 DEF Chain
    <2>3. Len(free) + (i + 1) - 1 = p /\ Len(free) + (i + 1) = p + 1
      BY <2>1, <1>3, <1>4, SMT
    <2>4. Chain(free \o list, 0, Len(free) + i - 1)'
      <3>1. free' \o list' = w /\ Len(free') + i' - 1 = p
        BY <2>1, <2>3, <1>7
      <3> QED  BY <3>1, <2>2 DEF Chain, Node
    <2>5. cursor' = Node(free \o list, Len(free) + i)'
      BY <2>1, <2>3, <1>7 DEF Node
    <2> QED  BY <2>4, <2>5, <1>1, <1>4, <1>7 DEF AppendInv
  <1>14. PrependInv'
    <2> SUFFICES ASSUME op = "prepend" PROVE PrependInv'
      BY <1>7 DEF PrependInv
    <2>1. /\ w = list \o free /\ p = i /\ Chain(w, 0, p - 1)
          /\ Chain(w, Len(list) + 1, Len(list) + Len(free)) /\ first = Node(w, Len(list) + 1)
      BY <1>2 DEF IInv, PrependInv, p
    <2>2. ASSUME NEW k \in 0 .. p
          PROVE  next'[Node(w, k)] = Node(w, k + 1) /\ prev'[Node(w, k + 1)] = Node(w, k)
      <3>1. k = p \/ (k # p /\ k \in 0 .. p - 1 /\ k \in 0 .. Len(w))
        BY <1>3, <1>4, SMT
      <3> QED  BY <3>1, <2>1, <1>9 DEF Chain
    <2>3. ASSUME NEW k \in Len(list) + 1 .. Len(list) + Len(free)
          PROVE  next'[Node(w, k)] = Node(w, k + 1) /\ prev'[Node(w, k + 1)] = Node(w, k)
      <3>1. k # p /\ k \in 0 .. Len(w)
        BY <2>1, <1>1, <1>3, <1>4, SMT
      <3> QED  BY <3>1, <2>1, <1>9 DEF Chain
    <2>4. (i + 1) - 1 = p
      BY <2>1, <1>4, SMT
    <2>5. /\ Chain(list \o free, 0, i - 1)'
          /\ Chain(list \o free, Len(list) + 1, Len(list) + Len(free))'
      <3>1. /\ list' \o free' = w /\ i' - 1 = p
            /\ Len(list') = Len(list) /\ Len(free') = Len(free)
        BY <2>1, <2>4, <1>7
      <3>2. Chain(list \o free, 0, i - 1)'
        BY <3>1, <2>2 DEF Chain, Node
      <3>3. Chain(list \o free, Len(list) + 1, Len(list) + Len(free))'
        BY <3>1, <2>3 DEF Chain, Node
      <3> QED  BY <3>2, <3>3
    <2>6. cursor' = Node(list \o free, i)' /\ first' = Node(list \o free, Len(list) + 1)'
      BY <2>1, <1>7 DEF Node
    <2> QED  BY <2>5, <2>6, <1>1, <1>4, <1>7 DEF PrependInv
  <1> QED  BY <1>1, <1>7, <1>8, <1>11, <1>12, <1>13, <1>14 DEF IInv, IdleInv, PopInv

(* The last link of append_n and prepend_n makes the joined list the list. *)
LEMMA JoinedIInv ==
  ASSUME TypeOK, UnlinkedInv, op \in {"append", "prepend"}, i = Len(list),
         NEW w \in Seq(Blocks), Distinct(w), NEW p \in 0 .. Len(w),
         \A x : (\E k \in 1 .. Len(w) : w[k] = x)
                   <=> IsFree(x) \/ \E k \in 1 .. Len(list) : list[k] = x,
         \A k \in 0 .. Len(w) : k # p => /\ next[Node(w, k)] = Node(w, k + 1)
                                         /\ prev[Node(w, k + 1)] = Node(w, k),
         next' = [next EXCEPT ![Node(w, p)] = Node(w, p + 1)],
         prev' = [prev EXCEPT ![Node(w, p + 1)] = Node(w, p)],
         op' = "idle", num' = Len(w), free' = w, got' = got, LocalsEnd
  PROVE  IInv'
  <1>1. next \in [Nodes -> Links] /\ prev \in [Nodes -> Links] /\ got \in Seq(Blocks)
    BY DEF TypeOK
  <1>2. /\ next' \in [Nodes -> Links] /\ prev' \in [Nodes -> Links]
        /\ next'[Node(w, p)] = Node(w, p + 1) /\ prev'[Node(w, p + 1)] = Node(w, p)
        /\ \A k \in 0 .. Len(w) : k # p =>
               /\ next'[Node(w, k)] = next[Node(w, k)]
               /\ prev'[Node(w, k + 1)] = prev[Node(w, k + 1)]
        /\ next'[FakeTail] = next[FakeTail] /\ prev'[FakeHead] = prev[FakeHead]
        /\ \A x \in Blocks : x # Node(w, p) /\ x # Node(w, p + 1) =>
               next'[x] = next[x] /\ prev'[x] = prev[x]
    BY <1>1, Relink
  <1>3. Len(w) \in 0 .. N
    BY ListFacts
  <1>4. p \in 0 .. Len(w) + 1 /\ p + 1 \in 0 .. Len(w) + 1
    <2>1. Len(w) \in 0 .. N /\ N \in Nat
      BY <1>3, NAssumption
    <2> QED  BY <2>1, SMT
  <1>5. UnlinkedInv'
    <2>1. ASSUME NEW x \in Blocks, ~ \E k \in 1 .. Len(w) : w[k] = x
          PROVE  next'[x] = None /\ prev'[x] = None
      <3>1. x # Node(w, p) /\ x # Node(w, p + 1)
        BY <2>1, <1>4, NotANode
      <3>2. ~ Linked(x)
        BY <2>1 DEF Linked
      <3> QED  BY <3>1, <3>2, <1>2 DEF UnlinkedInv
    <2> QED  BY <2>1, <1>2 DEF UnlinkedInv, Linked, IsFree
  <1>6. TypeOK'
    <2>1. <<>> \in Seq(Blocks)
      BY EmptySeq
    <2>2. 0 \in 0 .. N
      BY NodeSets, SMT
    <2> QED  BY <2>1, <2>2, <1>1, <1>2, <1>3, NodeSets DEF TypeOK, LocalsEnd
  <1>7. IdleInv' /\ Distinct(Whole)'
    <2>1. Whole' = w
      BY DEF Whole
    <2>2. Distinct(Whole)'
      BY <2>1 DEF Distinct
    <2>3. \A k \in 0 .. Len(w) : next'[Node(w, k)] = Node(w, k + 1) /\ prev'[Node(w, k + 1)] = Node(w, k)
      BY <1>2
    <2>4. Chain(free, 0, Len(free))'
      BY <2>3 DEF Chain, Node
    <2> QED  BY <2>2, <2>4 DEF IdleInv
  <1> QED  BY <1>5, <1>6, <1>7 DEF IInv, PopInv, AppendInv, PrependInv

(* append_n returns.                                                       *)
LEMMA AppendEndIInv ==
  ASSUME IInv, AppendEnd
  PROVE  IInv'
  <1>1. PICK w : w = free \o list
    OBVIOUS
  <1>2. /\ op = "append" /\ TypeOK /\ UnlinkedInv /\ Distinct(w)
        /\ free \in Seq(Blocks) /\ list \in Seq(Blocks)
        /\ i = Len(list) /\ num = Len(free)
        /\ cursor = Node(w, Len(free) + i) /\ Chain(w, 0, Len(free) + i - 1)
    BY <1>1 DEF IInv, AppendEnd, AppendInv, Whole, TypeOK
  <1>3. Len(free) \in Nat /\ Len(list) \in Nat
    BY <1>2, LenProperties
  <1>4. w \in Seq(Blocks) /\ Len(w) = Len(free) + Len(list)
    BY <1>1, <1>2, JoinNode
  <1>5. \A x : (\E k \in 1 .. Len(w) : w[k] = x)
                  <=> IsFree(x) \/ \E k \in 1 .. Len(list) : list[k] = x
    <2>1. \A x : (\E k \in 1 .. Len(free \o list) : (free \o list)[k] = x)
                  <=> (\E k \in 1 .. Len(free) : free[k] = x) \/ (\E k \in 1 .. Len(list) : list[k] = x)
      <3>1. free \in Seq(Blocks) /\ list \in Seq(Blocks)
        BY <1>2
      <3> QED  BY <3>1, JoinElement, Zenon
    <2> QED  BY <2>1, <1>1, Zenon DEF IsFree
  <1>6. Len(w) \in 0 .. Len(w) /\ Len(free) + i = Len(w) /\ Node(w, Len(w) + 1) = FakeTail
    <2>1. Node(w, Len(w) + 1) = FakeTail
      BY <1>4, NodeType
    <2>2. i = Len(list)
      BY <1>2
    <2> QED  BY <2>1, <2>2, <1>3, <1>4, SMT
  <1>7. ASSUME NEW k \in 0 .. Len(w), k # Len(w)
        PROVE  next[Node(w, k)] = Node(w, k + 1) /\ prev[Node(w, k + 1)] = Node(w, k)
    <2>1. k \in 0 .. Len(w) - 1
      BY <1>3, <1>4, <1>7, SMT
    <2> QED  BY <2>1, <1>2, <1>6 DEF Chain
  <1>8. /\ op' = "idle" /\ num' = Len(w) /\ free' = w /\ got' = got /\ LocalsEnd
        /\ next' = [next EXCEPT ![Node(w, Len(w))] = Node(w, Len(w) + 1)]
        /\ prev' = [prev EXCEPT ![Node(w, Len(w) + 1)] = Node(w, Len(w))]
    BY <1>1, <1>2, <1>4, <1>6 DEF AppendEnd
  <1> QED  BY <1>2, <1>4, <1>5, <1>6, <1>7, <1>8, JoinedIInv

(* prepend_n returns.                                                      *)
LEMMA PrependEndIInv ==
  ASSUME IInv, PrependEnd
  PROVE  IInv'
  <1>1. PICK w : w = list \o free
    OBVIOUS
  <1>2. /\ op = "prepend" /\ TypeOK /\ UnlinkedInv /\ Distinct(w)
        /\ free \in Seq(Blocks) /\ list \in Seq(Blocks)
        /\ i = Len(list) /\ num = Len(free)
        /\ cursor = Node(w, i) /\ first = Node(w, Len(list) + 1)
        /\ Chain(w, 0, i - 1) /\ Chain(w, Len(list) + 1, Len(list) + Len(free))
    BY <1>1 DEF IInv, PrependEnd, PrependInv, Whole, TypeOK
  <1>3. Len(free) \in Nat /\ Len(list) \in Nat
    BY <1>2, LenProperties
  <1>4. w \in Seq(Blocks) /\ Len(w) = Len(list) + Len(free)
    BY <1>1, <1>2, JoinNode
  <1>5. \A x : (\E k \in 1 .. Len(w) : w[k] = x)
                  <=> IsFree(x) \/ \E k \in 1 .. Len(list) : list[k] = x
    <2>1. \A x : (\E k \in 1 .. Len(list \o free) : (list \o free)[k] = x)
                  <=> (\E k \in 1 .. Len(list) : list[k] = x) \/ (\E k \in 1 .. Len(free) : free[k] = x)
      <3>1. free \in Seq(Blocks) /\ list \in Seq(Blocks)
        BY <1>2
      <3> QED  BY <3>1, JoinElement, Zenon
    <2> QED  BY <2>1, <1>1, Zenon DEF IsFree
  <1>6. Len(list) \in 0 .. Len(w) /\ num + Len(list) = Len(w)
    BY <1>2, <1>3, <1>4, SMT
  <1>7. ASSUME NEW k \in 0 .. Len(w), k # Len(list)
        PROVE  next[Node(w, k)] = Node(w, k + 1) /\ prev[Node(w, k + 1)] = Node(w, k)
    <2>1. k \in 0 .. i - 1 \/ k \in Len(list) + 1 .. Len(list) + Len(free)
      BY <1>2, <1>3, <1>4, <1>7, SMT
    <2> QED  BY <2>1, <1>2 DEF Chain
  <1>8. /\ op' = "idle" /\ num' = Len(w) /\ free' = w /\ got' = got /\ LocalsEnd
        /\ next' = [next EXCEPT ![Node(w, Len(list))] = Node(w, Len(list) + 1)]
        /\ prev' = [prev EXCEPT ![Node(w, Len(list) + 1)] = Node(w, Len(list))]
    BY <1>1, <1>2, <1>6 DEF PrependEnd
  <1> QED  BY <1>2, <1>4, <1>5, <1>6, <1>7, <1>8, JoinedIInv

-----------------------------------------------------------------------------
(* The theorems.                                                           *)

(* Every step keeps the invariant.                                         *)
LEMMA NextIInv == IInv /\ [Next]_vars => IInv'
  <1> SUFFICES ASSUME IInv, [Next]_vars PROVE IInv'
    OBVIOUS
  <1>1. CASE Popleft
    BY <1>1, PopleftIInv
  <1>2. ASSUME NEW k \in 1 .. N, PopleftN(k) PROVE IInv'
    BY <1>2, PopleftNIInv
  <1>3. CASE PopOne
    BY <1>3, PopOneIInv
  <1>4. CASE PopEnd
    BY <1>4, PopEndIInv
  <1>5. ASSUME NEW b \in Blocks, Remove(b) PROVE IInv'
    BY <1>5, RemoveIInv
  <1>6. ASSUME NEW b \in InUse, Append1(b) PROVE IInv'
    BY <1>6, Append1IInv
  <1>7. ASSUME NEW s \in Given, AppendN(s) PROVE IInv'
    BY <1>7, AppendNIInv
  <1>8. ASSUME NEW s \in Given, PrependN(s) PROVE IInv'
    BY <1>8, PrependNIInv
  <1>9. CASE LinkOne
    BY <1>9, LinkOneIInv
  <1>10. CASE AppendEnd
    BY <1>10, AppendEndIInv
  <1>11. CASE PrependEnd
    BY <1>11, PrependEndIInv
  <1>12. CASE UNCHANGED vars
    <2>1. /\ next' = next /\ prev' = prev /\ num' = num /\ op' = op /\ list' = list
          /\ n' = n /\ i' = i /\ cursor' = cursor /\ first' = first
          /\ ret' = ret /\ got' = got /\ free' = free
      BY <1>12 DEF vars
    <2>2. TypeOK' <=> TypeOK
      BY <2>1 DEF TypeOK
    <2>3. Distinct(Whole)' <=> Distinct(Whole)
      BY <2>1 DEF Distinct, Whole
    <2>4. UnlinkedInv' <=> UnlinkedInv
      BY <2>1, Zenon DEF UnlinkedInv, Linked, IsFree
    <2>5. IdleInv' <=> IdleInv
      BY <2>1 DEF IdleInv, Chain, Node
    <2>6. PopInv' <=> PopInv
      BY <2>1 DEF PopInv, Chain, Node
    <2>7. AppendInv' <=> AppendInv
      BY <2>1 DEF AppendInv, Chain, Node
    <2>8. PrependInv' <=> PrependInv
      BY <2>1 DEF PrependInv, Chain, Node
    <2> QED  BY <2>2, <2>3, <2>4, <2>5, <2>6, <2>7, <2>8 DEF IInv
  <1> QED  BY <1>1, <1>2, <1>3, <1>4, <1>5, <1>6, <1>7, <1>8, <1>9, <1>10, <1>11, <1>12 DEF Next

(* At every point of every operation the pointers are those of the list    *)
(* before it and of the part of its loop that has run.                     *)
THEOREM Invariant == Spec => []IInv
  BY InitIInv, NextIInv, PTL DEF Spec

(* The types, for any number of blocks.                                    *)
THEOREM TypeCorrect == Spec => []TypeOK
  <1>1. IInv => TypeOK
    BY DEF IInv
  <1> QED  BY <1>1, Invariant, PTL

(* Between operations the pointers spell the list both ways and            *)
(* num_free_blocks is its length, for any number of blocks.                *)
THEOREM PointersSpell == Spec => []Spelled
  <1>1. IInv => Spelled
    BY DEF IInv, Spelled, IdleInv, Whole
  <1> QED  BY <1>1, Invariant, PTL

(* remove()'s test of the pointers tells the free blocks from the others.  *)
THEOREM RemoveGuard == Spec => []GuardExact
  <1>1. IInv => GuardExact
    <2> SUFFICES ASSUME IInv, op = "idle", NEW b \in Blocks
                 PROVE  (prev[b] # None /\ next[b] # None) <=> IsFree(b)
      BY DEF GuardExact
    <2>1. UnlinkedInv /\ free \in Seq(Blocks) /\ Chain(free, 0, Len(free))
      BY DEF IInv, IdleInv, TypeOK
    <2>2. CASE ~ IsFree(b)
      BY <2>1, <2>2 DEF UnlinkedInv, Linked
    <2>3. ASSUME NEW k \in 1 .. Len(free), free[k] = b
          PROVE  prev[b] # None /\ next[b] # None
      <3>1. /\ k \in 0 .. Len(free) /\ k - 1 \in 0 .. Len(free) /\ (k - 1) + 1 = k
            /\ k + 1 \in 0 .. Len(free) + 1 /\ k - 1 \in 0 .. Len(free) + 1
        <4>1. Len(free) \in Nat
          BY <2>1, LenProperties
        <4> QED  BY <4>1, SMT
      <3>2. /\ Node(free, k) = b
            /\ Node(free, k + 1) # None /\ Node(free, k - 1) # None
        BY <2>1, <2>3, <3>1, NodeType
      <3>3. next[b] = Node(free, k + 1) /\ prev[b] = Node(free, k - 1)
        BY <2>1, <3>1, <3>2 DEF Chain
      <3> QED  BY <3>2, <3>3
    <2> QED  BY <2>2, <2>3 DEF IsFree
  <1> QED  BY <1>1, Invariant, PTL

(* Lists whose join is of distinct blocks have none in common.             *)
LEMMA Parts ==
  ASSUME NEW s \in Seq(Blocks), NEW t \in Seq(Blocks),
         Distinct(s \o t) \/ Distinct(t \o s)
  PROVE  Distinct(t) /\ \A j \in 1 .. Len(t), k \in 1 .. Len(s) : t[j] # s[k]
  <1>1. Len(s) \in Nat /\ Len(t) \in Nat
    BY LenProperties
  <1>2. CASE Distinct(s \o t)
    <2>1. /\ Len(s \o t) = Len(s) + Len(t)
          /\ \A k \in 1 .. Len(s) + Len(t) :
                (s \o t)[k] = IF k <= Len(s) THEN s[k] ELSE t[k - Len(s)]
      BY ConcatProperties
    <2>2. ASSUME NEW j \in 1 .. Len(t)
          PROVE  Len(s) + j \in 1 .. Len(s \o t) /\ (s \o t)[Len(s) + j] = t[j]
      BY <1>1, <2>1, SMT
    <2>3. ASSUME NEW j \in 1 .. Len(s)
          PROVE  j \in 1 .. Len(s \o t) /\ (s \o t)[j] = s[j]
      BY <1>1, <2>1, SMT
    <2>4. \A j \in 1 .. Len(t), k \in 1 .. Len(t) : Len(s) + j = Len(s) + k => j = k
      BY <1>1, SMT
    <2>5. \A j \in 1 .. Len(t), k \in 1 .. Len(s) : Len(s) + j # k
      BY <1>1, SMT
    <2> QED  BY <1>2, <2>2, <2>3, <2>4, <2>5 DEF Distinct
  <1>3. CASE Distinct(t \o s)
    <2>1. /\ Len(t \o s) = Len(t) + Len(s)
          /\ \A k \in 1 .. Len(t) + Len(s) :
                (t \o s)[k] = IF k <= Len(t) THEN t[k] ELSE s[k - Len(t)]
      BY ConcatProperties
    <2>2. ASSUME NEW j \in 1 .. Len(s)
          PROVE  Len(t) + j \in 1 .. Len(t \o s) /\ (t \o s)[Len(t) + j] = s[j]
      BY <1>1, <2>1, SMT
    <2>3. ASSUME NEW j \in 1 .. Len(t)
          PROVE  j \in 1 .. Len(t \o s) /\ (t \o s)[j] = t[j]
      BY <1>1, <2>1, SMT
    <2>4. \A j \in 1 .. Len(t), k \in 1 .. Len(s) : j # Len(t) + k
      BY <1>1, SMT
    <2> QED  BY <1>3, <2>2, <2>3, <2>4 DEF Distinct
  <1> QED  BY <1>2, <1>3

(* Every step of the linked list is a step of the list, or leaves it.      *)
LEMMA NextRefines ==
  ASSUME IInv, [Next]_vars
  PROVE  [FL!Next]_<<free, got>>
  <1>1. free \in Seq(Blocks) /\ Len(free) \in Nat
    BY LenProperties DEF IInv, TypeOK
  <1>2. ASSUME NEW m \in 1 .. Len(free),
               free' = SubSeq(free, m + 1, Len(free)), got' = SubSeq(free, 1, m)
        PROVE  FL!Next
    BY <1>2 DEF FL!Next, FL!Take
  <1>3. ASSUME NEW s \in Seq(Blocks), s # <<>>, Distinct(s), got' = got,
               \A j \in 1 .. Len(s), k \in 1 .. Len(free) : s[j] # free[k],
               free' = free \o s \/ free' = s \o free
        PROVE  FL!Next
    <2>1. Len(s) \in Nat /\ s = [j \in 1 .. Len(s) |-> s[j]]
      BY LenProperties
    <2>2. FL!Returnable(s)
      BY <1>3 DEF FL!Returnable, Distinct
    <2>3. CASE free' = free \o s
      <3>1. /\ Len(free') = Len(free) + Len(s)
            /\ \A k \in 1 .. Len(free) + Len(s) :
                  free'[k] = IF k <= Len(free) THEN free[k] ELSE s[k - Len(free)]
        BY <2>3, <1>1, <1>3, ConcatProperties
      <3>2. Len(free') - Len(free) = Len(s)
        BY <3>1, <1>1, <2>1, SMT
      <3>3. ASSUME NEW k \in 1 .. Len(s) PROVE free'[Len(free) + k] = s[k]
        <4>1. /\ Len(free) + k \in 1 .. Len(free) + Len(s) /\ ~ (Len(free) + k <= Len(free))
              /\ (Len(free) + k) - Len(free) = k
          BY <1>1, <2>1, SMT
        <4> QED  BY <4>1, <3>1
      <3>4. FL!Gained = s
        BY <3>2, <3>3, <2>1 DEF FL!Gained
      <3> QED  BY <3>4, <2>2, <2>3, <1>3 DEF FL!Next, FL!PutLast
    <2>4. CASE free' = s \o free
      <3>1. /\ Len(free') = Len(s) + Len(free)
            /\ \A k \in 1 .. Len(s) + Len(free) :
                  free'[k] = IF k <= Len(s) THEN s[k] ELSE free[k - Len(s)]
        BY <2>4, <1>1, <1>3, ConcatProperties
      <3>2. Len(free') - Len(free) = Len(s)
        BY <3>1, <1>1, <2>1, SMT
      <3>3. ASSUME NEW k \in 1 .. Len(s) PROVE free'[k] = s[k]
        <4>1. k \in 1 .. Len(s) + Len(free) /\ k <= Len(s)
          BY <1>1, <2>1, SMT
        <4> QED  BY <4>1, <3>1
      <3>4. FL!GainedFirst = s
        BY <3>2, <3>3, <2>1 DEF FL!GainedFirst
      <3> QED  BY <3>4, <2>2, <2>4, <1>3 DEF FL!Next, FL!PutFirst
    <2> QED  BY <2>3, <2>4, <1>3
  <1>4. CASE Popleft
    <2>1. got' = SubSeq(free, 1, 1) /\ 1 \in 1 .. Len(free)
      BY <1>4, PopleftIInv
    <2>2. free' = SubSeq(free, 1 + 1, Len(free))
      BY <1>4 DEF Popleft
    <2> QED  BY <2>1, <2>2, <1>2
  <1>5. CASE PopEnd
    <2>1. n \in 1 .. Len(free) /\ got' = SubSeq(free, 1, n)
      BY <1>5, PopEndIInv
    <2> QED  BY <2>1, <1>5, <1>2 DEF PopEnd
  <1>6. ASSUME NEW b \in Blocks, Remove(b) PROVE FL!Next
    <2>1. \E k \in 1 .. Len(free) :
             free' = [j \in 1 .. Len(free) - 1 |-> IF j < k THEN free[j] ELSE free[j + 1]]
      BY <1>6, RemoveIInv
    <2> QED  BY <2>1, <1>6 DEF Remove, FL!Next, FL!Pull
  <1>7. ASSUME NEW b \in InUse, Append1(b) PROVE FL!Next
    <2>1. b \in Blocks /\ \A k \in 1 .. Len(free) : free[k] # b
      BY DEF InUse, IsFree
    <2>2. PICK t : t = <<b>> /\ t \in Seq(Blocks) /\ Len(t) = 1 /\ t[1] = b
      <3>1. <<b>> \in Seq(Blocks) /\ Len(<<b>>) = 1 /\ <<b>>[1] = b
        BY <2>1, SMT
      <3> QED  BY <3>1
    <2>3. t # <<>> /\ Distinct(t) /\ \A j \in 1 .. Len(t), k \in 1 .. Len(free) : t[j] # free[k]
      BY <2>1, <2>2, SMT DEF Distinct
    <2>4. free' = free \o t /\ got' = got
      BY <2>2, <1>7 DEF Append1
    <2> QED  BY <2>2, <2>3, <2>4, <1>3
  <1>8. CASE AppendEnd \/ PrependEnd
    <2>1. /\ list \in Seq(Blocks) /\ list # <<>> /\ got' = got
          /\ free' = free \o list \/ free' = list \o free
          /\ Distinct(free \o list) \/ Distinct(list \o free)
      BY <1>8 DEF IInv, AppendEnd, PrependEnd, AppendInv, PrependInv, Whole, TypeOK
    <2>2. Distinct(list) /\ \A j \in 1 .. Len(list), k \in 1 .. Len(free) : list[j] # free[k]
      BY <2>1, <1>1, Parts
    <2> QED  BY <2>1, <2>2, <1>3
  <1>9. CASE UNCHANGED <<free, got>>
    BY <1>9
  <1>10. \/ Popleft \/ PopEnd \/ AppendEnd \/ PrependEnd
         \/ \E b \in Blocks : Remove(b)
         \/ \E b \in InUse : Append1(b)
         \/ UNCHANGED <<free, got>>
    BY DEF Next, PopleftN, PopOne, AppendN, PrependN, LinkOne, vars
  <1> QED  BY <1>4, <1>5, <1>6, <1>7, <1>8, <1>9, <1>10

(* The linked list implements the list of free blocks: pops give its front *)
(* in order, and blocks given back go to the end the pool asked for, for   *)
(* any number of blocks.                                                   *)
THEOREM Refinement == Spec => Implements
  <1>1. Init => FL!Init
    BY DEF Init, FL!Init
  <1>2. IInv /\ [Next]_vars => [FL!Next]_<<free, got>>
    BY NextRefines
  <1> QED  BY <1>1, <1>2, Invariant, PTL DEF Spec, Implements, FL!Spec

=============================================================================
