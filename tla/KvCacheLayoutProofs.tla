------------------------ MODULE KvCacheLayoutProofs ------------------------
(***************************************************************************)
(* KvCacheLayout keeps its invariants for every model, split over stages,  *)
(* memory and override, with pages and demands of any size.                *)
(***************************************************************************)
EXTENDS KvCacheLayout, FiniteSetTheorems, TLAPS

-----------------------------------------------------------------------------
(***************************************************************************)
(* What the operators of Increasing return.                                *)
(***************************************************************************)

(* Ranks count from 1, and grow with the elements.                         *)
LEMMA RankType ==
  ASSUME NEW L, IsFiniteSet(L), L \in SUBSET Int, NEW l \in L
  PROVE  Rank(l, L) \in 1 .. Cardinality(L)
  <1> DEFINE B == {m \in L : m < l}
             n == Cardinality(L)
             k == Cardinality(B)
  <1>1. IsFiniteSet(L \ {l}) /\ Cardinality(L \ {l}) = n - 1 /\ n \in Nat
    BY FS_RemoveElement, FS_CardinalityType
  <1>2. B \subseteq L \ {l}
    OBVIOUS
  <1>3. k \in Nat /\ k <= Cardinality(L \ {l})
    BY <1>1, <1>2, FS_Subset, FS_CardinalityType
  <1>4. Rank(l, L) = 1 + k
    BY DEF Rank
  <1> HIDE DEF B, n, k
  <1> QED
    BY <1>1, <1>3, <1>4 DEF n

LEMMA RankStrict ==
  ASSUME NEW L, IsFiniteSet(L), L \in SUBSET Int, NEW l \in L, NEW j \in L, l < j
  PROVE  Rank(l, L) < Rank(j, L)
  <1> DEFINE B == {m \in L : m < l}
             C == {m \in L : m < j}
             b == Cardinality(B)
             c == Cardinality(C)
  <1>0. C \in SUBSET L
    OBVIOUS
  <1>1. IsFiniteSet(C)
    BY <1>0, FS_Subset
  <1>2. l \in C /\ B \subseteq C \ {l}
    <2>1. ASSUME NEW m \in L, m < l PROVE m < j /\ m # l
      <3>1. m \in Int /\ l \in Int /\ j \in Int
        OBVIOUS
      <3> QED
        BY <2>1, <3>1
    <2> QED
      BY <2>1
  <1>3. IsFiniteSet(C \ {l}) /\ Cardinality(C \ {l}) = c - 1 /\ c \in Nat
    BY <1>1, <1>2, FS_RemoveElement, FS_CardinalityType
  <1>4. b \in Nat /\ b <= Cardinality(C \ {l})
    BY <1>2, <1>3, FS_Subset, FS_CardinalityType
  <1>5. Rank(l, L) = 1 + b /\ Rank(j, L) = 1 + c
    BY DEF Rank
  <1> HIDE DEF B, C, b, c
  <1> QED
    BY <1>3, <1>4, <1>5

LEMMA RankOnce ==
  ASSUME NEW L, IsFiniteSet(L), L \in SUBSET Int, NEW l \in L, NEW j \in L,
         Rank(l, L) = Rank(j, L)
  PROVE  l = j
  <1>0. Cardinality(L) \in Nat
    BY FS_CardinalityType
  <1>1. Rank(l, L) \in Int /\ Rank(j, L) \in Int
    <2>1. Rank(l, L) \in 1 .. Cardinality(L)
      BY RankType
    <2>2. Rank(j, L) \in 1 .. Cardinality(L)
      BY RankType
    <2> QED
      BY <1>0, <2>1, <2>2
  <1>2. l \in Int /\ j \in Int
    OBVIOUS
  <1>3. CASE l < j
    <2>1. Rank(l, L) < Rank(j, L)
      BY <1>3, RankStrict
    <2> QED
      BY <1>1, <2>1
  <1>4. CASE j < l
    <2>1. Rank(j, L) < Rank(l, L)
      BY <1>4, RankStrict
    <2> QED
      BY <1>1, <2>1
  <1> QED
    BY <1>2, <1>3, <1>4

LEMMA RankOnto ==
  ASSUME NEW L, IsFiniteSet(L), L \in SUBSET Int, NEW i \in 1 .. Cardinality(L)
  PROVE  \E l \in L : Rank(l, L) = i
  <1> DEFINE n == Cardinality(L)
             f == [l \in L |-> Rank(l, L)]
  <1>1. n \in Nat
    BY FS_CardinalityType
  <1>2. IsFiniteSet(1 .. n) /\ Cardinality(1 .. n) = n
    BY <1>1, FS_Interval
  <1>3. f \in Injection(L, 1 .. n)
    <2>1. \A l \in L : Rank(l, L) \in 1 .. n
      BY RankType
    <2>2. \A l, j \in L : Rank(l, L) = Rank(j, L) => l = j
      BY RankOnce
    <2> QED
      BY <2>1, <2>2 DEF Injection, IsInjective
  <1>4. f \in Surjection(L, 1 .. n)
    <2> HIDE DEF f
    <2> QED
      BY <1>2, <1>3, FS_Injection
  <1> QED
    BY <1>4 DEF Surjection

(* A set of numbers that is not empty has a least element.                 *)
LEMMA Least ==
  ASSUME NEW L, IsFiniteSet(L), L \in SUBSET Int, L # {}
  PROVE  \E l \in L : \A j \in L : l <= j
  <1>1. PICK x \in L : TRUE
    OBVIOUS
  <1>2. Cardinality(L) \in Nat /\ 1 \in 1 .. Cardinality(L)
    <2>1. Cardinality(L) \in Nat
      BY FS_CardinalityType
    <2>2. Rank(x, L) \in 1 .. Cardinality(L)
      BY RankType
    <2> QED
      BY <2>1, <2>2
  <1>3. PICK l \in L : Rank(l, L) = 1
    BY <1>2, RankOnto
  <1>4. ASSUME NEW j \in L, j < l PROVE FALSE
    <2>1. Rank(j, L) < Rank(l, L)
      BY <1>4, RankStrict
    <2>2. Rank(j, L) \in 1 .. Cardinality(L)
      BY RankType
    <2> QED
      BY <1>2, <1>3, <2>1, <2>2
  <1> QED
    BY <1>4

(* InOrder lists the elements of a set, the smallest first, each once.     *)
LEMMA InOrderFacts ==
  ASSUME NEW L, IsFiniteSet(L), L \in SUBSET Int
  PROVE  /\ Cardinality(L) \in Nat
         /\ InOrder(L) \in Seq(L)
         /\ Len(InOrder(L)) = Cardinality(L)
         /\ DOMAIN InOrder(L) = 1 .. Cardinality(L)
         /\ \A i \in 1 .. Cardinality(L) :
               InOrder(L)[i] \in L /\ Rank(InOrder(L)[i], L) = i
         /\ \A l \in L : Rank(l, L) \in 1 .. Cardinality(L) /\ InOrder(L)[Rank(l, L)] = l
  <1> DEFINE n == Cardinality(L)
             s == InOrder(L)
  <1>1. n \in Nat
    BY FS_CardinalityType
  <1>2. s = [i \in 1 .. n |-> CHOOSE l \in L : Rank(l, L) = i]
    BY DEF InOrder
  <1>3. ASSUME NEW i \in 1 .. n PROVE s[i] \in L /\ Rank(s[i], L) = i
    <2>1. \E l \in L : Rank(l, L) = i
      BY RankOnto
    <2>2. s[i] = CHOOSE l \in L : Rank(l, L) = i
      BY <1>2
    <2> QED
      BY <2>1, <2>2
  <1>4. ASSUME NEW l \in L PROVE Rank(l, L) \in 1 .. n /\ s[Rank(l, L)] = l
    <2>1. Rank(l, L) \in 1 .. n
      BY RankType
    <2>2. s[Rank(l, L)] \in L /\ Rank(s[Rank(l, L)], L) = Rank(l, L)
      BY <1>3, <2>1
    <2> HIDE DEF s
    <2>3. s[Rank(l, L)] = l
      BY <2>2, RankOnce
    <2> QED
      BY <2>1, <2>3
  <1>5. s \in Seq(L) /\ Len(s) = n /\ DOMAIN s = 1 .. n
    <2> HIDE DEF s
    <2> QED
      BY <1>1, <1>2, <1>3
  <1> QED
    BY <1>1, <1>3, <1>4, <1>5

LEMMA InOrderStrict ==
  ASSUME NEW L, IsFiniteSet(L), L \in SUBSET Int,
         NEW i \in 1 .. Cardinality(L), NEW j \in 1 .. Cardinality(L)
  PROVE  /\ i < j <=> InOrder(L)[i] < InOrder(L)[j]
         /\ i = j <=> InOrder(L)[i] = InOrder(L)[j]
  <1> DEFINE s == InOrder(L)
  <1>1. Cardinality(L) \in Nat
    BY FS_CardinalityType
  <1>2. s[i] \in L /\ s[j] \in L /\ Rank(s[i], L) = i /\ Rank(s[j], L) = j
    BY InOrderFacts
  <1> HIDE DEF s
  <1>3. s[i] \in Int /\ s[j] \in Int /\ i \in Int /\ j \in Int
    <2>1. s[i] \in Int /\ s[j] \in Int
      BY <1>2
    <2>2. i \in Int /\ j \in Int
      BY <1>1
    <2> QED
      BY <2>1, <2>2
  <1>4. s[i] < s[j] => i < j
    BY <1>2, RankStrict
  <1>5. s[j] < s[i] => j < i
    BY <1>2, RankStrict
  <1>6. s[i] = s[j] => i = j
    BY <1>2
  <1>7. i < j <=> s[i] < s[j]
    BY <1>3, <1>4, <1>5, <1>6
  <1> QED
    BY <1>6, <1>7 DEF s

(* The part of a sequence at some of its indices.                          *)
LEMMA AtFacts ==
  ASSUME NEW T, NEW s \in Seq(T), NEW I \in SUBSET DOMAIN s
  PROVE  /\ IsFiniteSet(I) /\ I \in SUBSET Int /\ Cardinality(I) \in Nat
         /\ Cardinality(I) <= Len(s)
         /\ At(s, I) \in Seq(T)
         /\ Len(At(s, I)) = Cardinality(I)
         /\ DOMAIN At(s, I) = 1 .. Cardinality(I)
         /\ \A k \in 1 .. Cardinality(I) :
               InOrder(I)[k] \in I /\ At(s, I)[k] = s[InOrder(I)[k]]
         /\ \A i \in I : Rank(i, I) \in 1 .. Cardinality(I) /\ At(s, I)[Rank(i, I)] = s[i]
  <1> DEFINE n == Cardinality(I)
             t == At(s, I)
             o == InOrder(I)
  <1>1. Len(s) \in Nat /\ DOMAIN s = 1 .. Len(s)
    OBVIOUS
  <1>2. IsFiniteSet(1 .. Len(s)) /\ Cardinality(1 .. Len(s)) = Len(s)
    <2>1. IsFiniteSet(1 .. Len(s)) /\ Cardinality(1 .. Len(s)) = IF 1 > Len(s) THEN 0 ELSE Len(s) - 1 + 1
      BY <1>1, FS_Interval
    <2> QED
      BY <1>1, <2>1
  <1>3. IsFiniteSet(I) /\ n <= Len(s)
    BY <1>1, <1>2, FS_Subset
  <1>4. I \in SUBSET Int
    BY <1>1
  <1>5. n \in Nat
    BY <1>3, FS_CardinalityType
  <1>6. \A k \in 1 .. n : o[k] \in I
    BY <1>3, <1>4, InOrderFacts
  <1>7. \A i \in I : Rank(i, I) \in 1 .. n /\ o[Rank(i, I)] = i
    BY <1>3, <1>4, InOrderFacts
  <1>8. t = [k \in 1 .. n |-> s[o[k]]]
    BY DEF At
  <1> HIDE DEF n, t, o
  <1>9. t \in Seq(T) /\ Len(t) = n /\ DOMAIN t = 1 .. n
    <2>1. \A k \in 1 .. n : s[o[k]] \in T
      BY <1>1, <1>6
    <2>2. t \in [1 .. n -> T]
      BY <1>8, <2>1
    <2> QED
      BY <1>5, <2>2
  <1>10. \A k \in 1 .. n : o[k] \in I /\ t[k] = s[o[k]]
    BY <1>6, <1>8
  <1>11. \A i \in I : Rank(i, I) \in 1 .. n /\ t[Rank(i, I)] = s[i]
    BY <1>7, <1>8
  <1> QED
    BY <1>3, <1>4, <1>5, <1>9, <1>10, <1>11 DEF n, t, o

(* Nothing but what the sequence has there, and all of it.                 *)
LEMMA AtRange ==
  ASSUME NEW T, NEW s \in Seq(T), NEW I \in SUBSET DOMAIN s
  PROVE  {At(s, I)[k] : k \in DOMAIN At(s, I)} = {s[i] : i \in I}
  <1> DEFINE t == At(s, I)
  <1>1. \A k \in DOMAIN t : \E i \in I : t[k] = s[i]
    BY AtFacts
  <1>2. \A i \in I : \E k \in DOMAIN t : t[k] = s[i]
    <2>1. DOMAIN t = 1 .. Cardinality(I)
      BY AtFacts
    <2>2. \A i \in I : Rank(i, I) \in 1 .. Cardinality(I) /\ t[Rank(i, I)] = s[i]
      BY AtFacts
    <2> QED
      BY <2>1, <2>2
  <1> HIDE DEF t
  <1> QED
    BY <1>1, <1>2 DEF t

(* A sequence without repetitions has none in a part of it.                *)
LEMMA AtOnce ==
  ASSUME NEW T, NEW s \in Seq(T), NEW I \in SUBSET DOMAIN s,
         \A i, j \in DOMAIN s : s[i] = s[j] => i = j,
         NEW k \in DOMAIN At(s, I), NEW m \in DOMAIN At(s, I),
         At(s, I)[k] = At(s, I)[m]
  PROVE  k = m
  <1> DEFINE o == InOrder(I)
  <1>1. k \in 1 .. Cardinality(I) /\ m \in 1 .. Cardinality(I)
    BY AtFacts
  <1>2. o[k] \in I /\ o[m] \in I /\ s[o[k]] = s[o[m]]
    BY <1>1, AtFacts
  <1>3. o[k] = o[m]
    BY <1>2
  <1>4. IsFiniteSet(I) /\ I \in SUBSET Int
    BY AtFacts
  <1> QED
    BY <1>1, <1>3, <1>4, InOrderStrict

LEMMA Greatest ==
  ASSUME NEW L, IsFiniteSet(L), L \in SUBSET Int, L # {}
  PROVE  \E l \in L : \A j \in L : j <= l
  <1> DEFINE n == Cardinality(L)
  <1>1. PICK x \in L : TRUE
    OBVIOUS
  <1>2. n \in Nat /\ n \in 1 .. n
    <2>1. n \in Nat
      BY FS_CardinalityType
    <2>2. Rank(x, L) \in 1 .. n
      BY RankType
    <2> HIDE DEF n
    <2> QED
      BY <2>1, <2>2
  <1>3. PICK l \in L : Rank(l, L) = n
    BY <1>2, RankOnto
  <1>4. ASSUME NEW j \in L, l < j PROVE FALSE
    <2>1. Rank(l, L) < Rank(j, L)
      BY <1>4, RankStrict
    <2>2. Rank(j, L) \in 1 .. n
      BY RankType
    <2> HIDE DEF n
    <2> QED
      BY <1>2, <1>3, <2>1, <2>2
  <1> QED
    BY <1>4

(* The values of a function on a finite set.                               *)
LEMMA FiniteImage ==
  ASSUME NEW S, IsFiniteSet(S), NEW f, f = [x \in S |-> f[x]]
  PROVE  IsFiniteSet({f[x] : x \in S})
  <1> DEFINE T == {f[x] : x \in S}
  <1>1. f \in Surjection(S, T)
    BY DEF Surjection
  <1> HIDE DEF T
  <1>2. IsFiniteSet(T)
    BY <1>1, FS_Surjection
  <1> QED
    BY <1>2 DEF T

-----------------------------------------------------------------------------
(***************************************************************************)
(* The invariant of start-up.                                              *)
(***************************************************************************)

BlockCount(s) == IF override > 0 THEN override
                 ELSE Available(s) \div PoolBytesPerBlock(s)

(* What start-up is given.                                                 *)
Inputs ==
    /\ model \in Models
    /\ override \in Nat
    /\ memory \in [DOMAIN model.cut -> Nat]

(* What it has computed from that, as far as it is.                        *)
Grouped == pc # "group" => groups = Groups

Admitted ==
    pc \in {"build", "shrink", "allocate", "serving", "failed"} =>
        \A s \in Stages : Available(s) > 0 /\ MaxMemoryUsage(s) <= Available(s)

Counted ==
    /\ pc = "shrink" => blocks = [s \in Stages |-> BlockCount(s)]
    /\ pc \in {"allocate", "serving", "failed"} =>
         blocks = [s \in Stages |-> Min({BlockCount(q) : q \in Stages})]

Laid ==
    pc \in {"shrink", "allocate", "serving", "failed"} =>
        \A s \in Stages : {t.shared : t \in tensors[s]} = {t.shared : t \in Tensors(s)}

Judged ==
    /\ pc = "serving" => \A s \in Stages : Caches(s) = Held(s)
    /\ pc = "failed" => \E s \in Stages : Caches(s) # Held(s)

IInv == Inputs /\ Grouped /\ Admitted /\ Counted /\ Laid /\ Judged

-----------------------------------------------------------------------------
(* The model.                                                              *)

LEMMA ModelFacts ==
  ASSUME Inputs
  PROVE  /\ Total \in Nat /\ DOMAIN model.kind = 0 .. Total - 1
         /\ model.cut \in Seq(0 .. Total) /\ Len(model.cut) \in Nat \ {0}
         /\ Stages = 1 .. Len(model.cut) /\ DOMAIN model.cut = Stages
         /\ model.drafts \in Nat /\ model.tails \in BOOLEAN
         /\ \E l \in 0 .. Total - 1 : model.kind[l] = "dsa"
  <1>1. model \in Models
    BY DEF Inputs
  <1>2. Total = Cardinality(DOMAIN model.kind)
    BY DEF Total
  <1>3. /\ Total \in Nat /\ DOMAIN model.kind = 0 .. Total - 1
        /\ model.cut \in Seq(0 .. Total) /\ model.cut # <<>>
        /\ model.drafts \in Nat /\ model.tails \in BOOLEAN
        /\ \E l \in 0 .. Total - 1 : model.kind[l] = "dsa"
    BY <1>1, <1>2, ModelAssumption
  <1> QED
    BY <1>3 DEF Stages

LEMMA LayerFacts ==
  ASSUME Inputs
  PROVE  /\ IsFiniteSet(Layers) /\ Layers \in SUBSET Int
         /\ IsFiniteSet(SparseLayers) /\ SparseLayers \in SUBSET Int
         /\ SparseLayers # {} /\ Cardinality(SparseLayers) \in Nat \ {0}
         /\ SparseLayers \in SUBSET Layers /\ LinearLayers \in SUBSET Layers
         /\ LinearLayers \cap SparseLayers = {}
         /\ \A l \in LinearLayers : l \in 0 .. Total - 1
         /\ IsFiniteSet(Sharing) /\ Sharing \in SUBSET Int /\ Cardinality(Sharing) \in Nat
         /\ IsFiniteSet(Solo) /\ Solo \in SUBSET Int /\ Cardinality(Solo) \in Nat
         /\ Sharing \cup Solo = LinearLayers /\ Sharing \cap Solo = {}
  <1>1. /\ Total \in Nat /\ model.drafts \in Nat
        /\ \E l \in 0 .. Total - 1 : model.kind[l] = "dsa"
    BY ModelFacts
  <1>2. Layers = 0 .. Total + model.drafts - 1
    BY DEF Layers
  <1>3. IsFiniteSet(Layers) /\ Layers \in SUBSET Int
    BY <1>1, <1>2, FS_Interval
  <1>4. SparseLayers \in SUBSET Layers /\ LinearLayers \in SUBSET Layers
        /\ LinearLayers \cap SparseLayers = {}
    BY DEF SparseLayers, LinearLayers
  <1>5. \A l \in LinearLayers : l \in 0 .. Total - 1
    BY <1>1, <1>2 DEF LinearLayers, SparseLayers, Sparse
  <1>6. SparseLayers # {}
    <2>1. PICK l \in 0 .. Total - 1 : model.kind[l] = "dsa"
      BY <1>1
    <2>2. l \in Layers /\ l < Total
      BY <1>1, <1>2
    <2> QED
      BY <2>1, <2>2 DEF SparseLayers, Sparse
  <1>7. /\ Sharing \in SUBSET LinearLayers /\ Solo \in SUBSET LinearLayers
        /\ Sharing \cup Solo = LinearLayers /\ Sharing \cap Solo = {}
    BY DEF Sharing, Solo
  <1>8. Sharing \in SUBSET Layers /\ Solo \in SUBSET Layers
    BY <1>4, <1>7
  <1>9. IsFiniteSet(SparseLayers) /\ Cardinality(SparseLayers) \in Nat \ {0}
    <2>1. IsFiniteSet(SparseLayers)
      BY <1>3, <1>4, FS_Subset
    <2>2. Cardinality(SparseLayers) \in Nat
      BY <2>1, FS_CardinalityType
    <2>3. Cardinality(SparseLayers) # 0
      BY <1>6, <2>1, FS_EmptySet
    <2> QED
      BY <2>1, <2>2, <2>3
  <1>10. IsFiniteSet(Sharing) /\ Cardinality(Sharing) \in Nat
    <2>1. IsFiniteSet(Sharing)
      BY <1>3, <1>8, FS_Subset
    <2> QED
      BY <2>1, FS_CardinalityType
  <1>11. IsFiniteSet(Solo) /\ Cardinality(Solo) \in Nat
    <2>1. IsFiniteSet(Solo)
      BY <1>3, <1>8, FS_Subset
    <2> QED
      BY <2>1, FS_CardinalityType
  <1>12. Sharing \in SUBSET Int /\ Solo \in SUBSET Int /\ SparseLayers \in SUBSET Int
    BY <1>3, <1>4, <1>8
  <1> QED
    BY <1>3, <1>4, <1>5, <1>6, <1>7, <1>9, <1>10, <1>11, <1>12

(* Stages follow each other: a later linear layer is not on an earlier one.*)
LEMMA StageFacts ==
  ASSUME Inputs
  PROVE  /\ \A l \in Layers : StageOf(l) \in Stages
         /\ \A l, m \in LinearLayers : l <= m => StageOf(l) <= StageOf(m)
  <1> DEFINE n == Len(model.cut)
             Before(l) == {s \in 1 .. n - 1 : EndOf(s) <= l}
  <1>1. Total \in Nat /\ n \in Nat \ {0} /\ Stages = 1 .. n /\ model.drafts \in Nat
    BY ModelFacts
  <1>2. \A s \in 1 .. n : EndOf(s) \in Nat
    <2> SUFFICES ASSUME NEW s \in 1 .. n PROVE EndOf(s) \in Nat
      OBVIOUS
    <2> DEFINE P == (1 .. s) \X (1 .. Total)
               Q == {x \in P : x[2] <= model.cut[x[1]]}
    <2>1. IsFiniteSet(1 .. s) /\ IsFiniteSet(1 .. Total)
      BY <1>1, FS_Interval
    <2>2. IsFiniteSet(P)
      BY <2>1, FS_Product
    <2>3. Q \in SUBSET P
      OBVIOUS
    <2>4. EndOf(s) = Cardinality(Q)
      BY DEF EndOf
    <2> HIDE DEF P, Q
    <2>5. IsFiniteSet(Q)
      BY <2>2, <2>3, FS_Subset
    <2> QED
      BY <2>4, <2>5, FS_CardinalityType
  <1>3. \A l : /\ IsFiniteSet(Before(l)) /\ Cardinality(Before(l)) \in Nat
               /\ Cardinality(Before(l)) <= n - 1
    <2> SUFFICES ASSUME NEW l
                 PROVE  /\ IsFiniteSet(Before(l)) /\ Cardinality(Before(l)) \in Nat
                        /\ Cardinality(Before(l)) <= n - 1
      OBVIOUS
    <2> DEFINE B == Before(l)
    <2>2. B \in SUBSET (1 .. n - 1)
      OBVIOUS
    <2> HIDE DEF B, n
    <2>0. 1 \in Int /\ n - 1 \in Int
      BY <1>1
    <2>1. IsFiniteSet(1 .. n - 1) /\ Cardinality(1 .. n - 1) = IF 1 > n - 1 THEN 0 ELSE n - 1 - 1 + 1
      BY <2>0, FS_Interval
    <2>3. IsFiniteSet(B) /\ Cardinality(B) <= Cardinality(1 .. n - 1)
      BY <2>1, <2>2, FS_Subset
    <2>4. Cardinality(B) \in Nat
      BY <2>3, FS_CardinalityType
    <2>5. Cardinality(B) <= n - 1
      BY <1>1, <2>1, <2>3, <2>4
    <2> QED
      BY <2>3, <2>4, <2>5 DEF B
  <1>4. ASSUME NEW l \in LinearLayers, NEW m \in LinearLayers, l <= m
        PROVE  Cardinality(Before(l)) <= Cardinality(Before(m))
    <2> DEFINE B == Before(l)
               C == Before(m)
    <2>1. l \in Int /\ m \in Int
      BY LayerFacts
    <2>2. ASSUME NEW s \in 1 .. n - 1, EndOf(s) <= l PROVE EndOf(s) <= m
      <3>1. EndOf(s) \in Int
        BY <1>1, <1>2
      <3> QED
        BY <1>4, <2>1, <2>2, <3>1
    <2>3. B \in SUBSET C
      BY <2>2
    <2>4. IsFiniteSet(C)
      BY <1>3
    <2> HIDE DEF B, C
    <2>5. Cardinality(B) <= Cardinality(C)
      BY <2>3, <2>4, FS_Subset
    <2> QED
      BY <2>5 DEF B, C
  <1>5. \A l : StageOf(l) = IF l >= Total THEN n ELSE 1 + Cardinality(Before(l))
    BY DEF StageOf
  <1>6. \A l \in LinearLayers : StageOf(l) = 1 + Cardinality(Before(l))
    BY <1>1, <1>5, LayerFacts
  <1> HIDE DEF n, Before
  <1>7. ASSUME NEW l \in Layers PROVE StageOf(l) \in Stages
    <2>1. Cardinality(Before(l)) \in Nat /\ Cardinality(Before(l)) <= n - 1
      BY <1>3
    <2>2. StageOf(l) = n \/ StageOf(l) = 1 + Cardinality(Before(l))
      BY <1>5
    <2> HIDE DEF Before
    <2> QED
      BY <1>1, <2>1, <2>2
  <1>8. ASSUME NEW l \in LinearLayers, NEW m \in LinearLayers, l <= m
        PROVE  StageOf(l) <= StageOf(m)
    <2>1. Cardinality(Before(l)) \in Nat /\ Cardinality(Before(m)) \in Nat
      BY <1>3
    <2>2. Cardinality(Before(l)) <= Cardinality(Before(m))
      BY <1>4, <1>8
    <2>3. StageOf(l) = 1 + Cardinality(Before(l)) /\ StageOf(m) = 1 + Cardinality(Before(m))
      BY <1>6
    <2> QED
      BY <2>1, <2>2, <2>3
  <1> QED
    BY <1>7, <1>8

-----------------------------------------------------------------------------
(* Arithmetic: dealing N cards to G players, one each in turn.             *)

LEMMA Quotient ==
  ASSUME NEW B \in Nat \ {0}, NEW x \in Nat
  PROVE  /\ x \div B \in Nat /\ (x \div B) * B \in Nat
         /\ (x \div B) * B <= x /\ x < (x \div B) * B + B
  <1>1. x \div B \in Nat
    OBVIOUS
  <1>2. (x \div B) * B \in Nat
    BY <1>1
  <1>3. (x \div B) * B <= x
    OBVIOUS
  <1>4. x < (x \div B) * B + B
    OBVIOUS
  <1> QED
    BY <1>1, <1>2, <1>3, <1>4

LEMMA MultipleBelow ==
  ASSUME NEW B \in Nat \ {0}, NEW k \in Nat, NEW j \in Nat, k * B < j * B + B
  PROVE  k <= j
  OBVIOUS

LEMMA MultipleUp ==
  ASSUME NEW B \in Nat \ {0}, NEW k \in Nat, NEW j \in Nat, k <= j
  PROVE  k * B \in Nat /\ j * B \in Nat /\ k * B <= j * B
  OBVIOUS

LEMMA MultipleNext ==
  ASSUME NEW B \in Nat \ {0}, NEW i \in Nat \ {0}
  PROVE  (i - 1) * B \in Nat /\ i * B \in Nat /\ i * B = (i - 1) * B + B
  OBVIOUS

(* Player n gets the n-th card, the (n + G)-th, and so on, as many as      *)
(* there are.                                                              *)
LEMMA Deal ==
  ASSUME NEW G \in Nat \ {0}, NEW N \in Nat, NEW n \in 1 .. G, n <= N
  PROVE  /\ CeilDiv(N - n + 1, G) \in Nat
         /\ \A i \in Nat \ {0} : /\ (i - 1) * G \in Nat
                                 /\ i <= CeilDiv(N - n + 1, G) <=> n + (i - 1) * G <= N
  <1> DEFINE x == N - n + G
             c == x \div G
  <1>1. x \in Nat /\ n \in Nat \ {0}
    OBVIOUS
  <1>2. CeilDiv(N - n + 1, G) = c
    <2>1. N - n + 1 + G - 1 = x
      BY <1>1
    <2> QED
      BY <2>1 DEF CeilDiv
  <1>3. c \in Nat /\ c * G \in Nat /\ c * G <= x /\ x < c * G + G
    <2> HIDE DEF x
    <2> QED
      BY <1>1, Quotient
  <1> HIDE DEF c
  <1>4. ASSUME NEW i \in Nat \ {0}
        PROVE  /\ (i - 1) * G \in Nat
               /\ i <= c <=> n + (i - 1) * G <= N
    <2> DEFINE y == (i - 1) * G
               z == i * G
               d == c * G
    <2>1. y \in Nat /\ z \in Nat /\ z = y + G
      BY MultipleNext
    <2>2. CASE i <= c
      <3>1. z <= d
        BY <1>3, <2>2, MultipleUp
      <3> HIDE DEF y, z, d
      <3>2. d \in Nat /\ d <= x
        BY <1>3 DEF d
      <3>3. n + y <= N
        BY <1>1, <2>1, <3>1, <3>2
      <3> QED
        BY <2>1, <2>2, <3>3 DEF y
    <2>3. CASE ~ (i <= c)
      <3>1. ~ (z < d + G)
        BY <1>3, <2>3, MultipleBelow
      <3> HIDE DEF y, z, d
      <3>2. d \in Nat /\ x < d + G
        BY <1>3 DEF d
      <3>3. ~ (n + y <= N)
        BY <1>1, <2>1, <3>1, <3>2
      <3> QED
        BY <2>1, <2>3, <3>3 DEF y
    <2> QED
      BY <2>2, <2>3
  <1> QED
    BY <1>2, <1>3, <1>4

(* Every card is dealt.                                                    *)
LEMMA DealAll ==
  ASSUME NEW G \in Nat \ {0}, NEW k \in Nat \ {0}
  PROVE  \E n \in 1 .. G : \E i \in Nat \ {0} : k = n + (i - 1) * G
  <1> DEFINE q == (k - 1) \div G
             n == k - q * G
             i == q + 1
  <1>1. q \in Nat /\ q * G \in Nat /\ q * G <= k - 1 /\ k - 1 < q * G + G
    BY Quotient
  <1> DEFINE d == q * G
  <1> HIDE DEF q
  <1>2. d \in Nat /\ d <= k - 1 /\ k - 1 < d + G
    BY <1>1
  <1>3. n = k - d /\ i \in Nat \ {0} /\ i - 1 = q
    BY <1>1
  <1>4. (i - 1) * G = d
    BY <1>3
  <1> HIDE DEF d, n, i
  <1>5. n \in 1 .. G /\ k = n + d
    BY <1>2, <1>3
  <1>6. k = n + (i - 1) * G
    BY <1>4, <1>5
  <1> QED
    BY <1>3, <1>5, <1>6

(* And only once.                                                          *)
LEMMA DealOnce ==
  ASSUME NEW G \in Nat \ {0}, NEW n \in 1 .. G, NEW m \in 1 .. G,
         NEW i \in Nat \ {0}, NEW j \in Nat \ {0},
         n + (i - 1) * G = m + (j - 1) * G
  PROVE  n = m /\ i = j
  <1> DEFINE a == i - 1
             b == j - 1
             x == a * G
             y == b * G
  <1>1. a \in Nat /\ b \in Nat
    OBVIOUS
  <1> HIDE DEF a, b
  <1>2. x \in Nat /\ y \in Nat
    BY <1>1
  <1>3. n + x = m + y
    BY DEF a, b
  <1>4. x < y + G /\ y < x + G
    <2> HIDE DEF x, y
    <2> QED
      BY <1>2, <1>3
  <1>5. a <= b /\ b <= a
    BY <1>1, <1>4, MultipleBelow
  <1>6. a = b
    BY <1>1, <1>5
  <1>7. n = m
    <2>1. x = y
      BY <1>6
    <2> HIDE DEF x, y
    <2> QED
      BY <1>2, <1>3, <2>1
  <1>8. i = j
    BY <1>6 DEF a, b
  <1> QED
    BY <1>7, <1>8

-----------------------------------------------------------------------------
(* The groups.                                                             *)

LEMMA CountFacts ==
  ASSUME Inputs
  PROVE  /\ GroupCount \in Nat
         /\ GroupCount = 0 <=> Sharing = {}
         /\ GroupCount <= Cardinality(Sharing)
  <1> DEFINE N == Cardinality(Sharing)
             p == Cardinality(SparseLayers)
             c == (N + p - 1) \div p
  <1>1. N \in Nat /\ p \in Nat \ {0} /\ IsFiniteSet(Sharing)
    BY LayerFacts
  <1>2. N = 0 <=> Sharing = {}
    BY <1>1, FS_EmptySet
  <1>3. GroupCount = IF Sharing = {} THEN 0 ELSE c
    BY DEF GroupCount, CeilDiv
  <1> HIDE DEF N, p
  <1>4. CASE Sharing = {}
    <2>1. GroupCount = 0 /\ N \in Nat
      BY <1>1, <1>3, <1>4
    <2>2. GroupCount <= N
      BY <2>1
    <2> QED
      BY <1>4, <2>1, <2>2 DEF N
  <1>5. CASE Sharing # {}
    <2>1. N + p - 1 \in Nat /\ N \in Nat \ {0} /\ p \in Nat \ {0}
      BY <1>1, <1>2, <1>5
    <2>2. c \in Nat /\ c * p \in Nat /\ c * p <= N + p - 1 /\ N + p - 1 < c * p + p
      BY <2>1, Quotient
    <2> HIDE DEF c
    <2>3. c # 0
      <3>1. CASE c = 0
        <4>1. c * p = 0
          BY <2>1, <3>1
        <4> DEFINE d == c * p
        <4>2. d = 0 /\ N + p - 1 < d + p
          BY <2>2, <4>1
        <4> HIDE DEF d
        <4> QED
          BY <2>1, <4>2
      <3> QED
        BY <3>1
    <2>4. c <= N
      <3> SUFFICES ASSUME N + 1 <= c PROVE FALSE
        BY <2>1, <2>2
      <3>1. (N + 1) * p <= c * p
        BY <2>1, <2>2, MultipleUp
      <3>2. (N + 1) * p = N * p + p /\ N * p \in Nat
        BY <2>1
      <3>3. N <= N * p
        BY <2>1
      <3> DEFINE d == c * p
                 e == N * p
                 f == (N + 1) * p
      <3>4. f <= d /\ f = e + p /\ e \in Nat /\ N <= e /\ d \in Nat /\ d <= N + p - 1
        BY <2>2, <3>1, <3>2, <3>3
      <3> HIDE DEF d, e, f
      <3> QED
        BY <2>1, <3>4
    <2>5. GroupCount = c
      BY <1>3, <1>5
    <2> QED
      BY <1>5, <2>2, <2>3, <2>4, <2>5 DEF N
  <1> QED
    BY <1>4, <1>5

(* Group n of the linear layers, as dealt.                                 *)
LEMMA MemberFacts ==
  ASSUME Inputs, NEW n \in 1 .. GroupCount
  PROVE  /\ Member(n) \in Seq(Sharing)
         /\ \A i \in Nat \ {0} :
               /\ i \in DOMAIN Member(n) <=> n + (i - 1) * GroupCount \in 1 .. Cardinality(Sharing)
               /\ i \in DOMAIN Member(n) =>
                    Member(n)[i] = InOrder(Sharing)[n + (i - 1) * GroupCount]
  <1> DEFINE N == Cardinality(Sharing)
             G == GroupCount
             A == InOrder(Sharing)
             c == CeilDiv(N - n + 1, G)
  <1>1. G \in Nat /\ G <= N /\ N \in Nat
    BY CountFacts, LayerFacts
  <1>2. /\ A \in Seq(Sharing) /\ Len(A) = N
        /\ \A k \in 1 .. N : A[k] \in Sharing
    BY LayerFacts, InOrderFacts
  <1>3. Member(n) = [i \in 1 .. c |-> A[n + (i - 1) * G]]
    BY <1>2 DEF Member
  <1> HIDE DEF N, G, A
  <1>4. G \in Nat \ {0} /\ n \in 1 .. G /\ n <= N
    <2>1. n \in 1 .. G
      BY DEF G
    <2> QED
      BY <1>1, <2>1
  <1>5. c \in Nat /\ \A i \in Nat \ {0} : (i - 1) * G \in Nat /\ (i <= c <=> n + (i - 1) * G <= N)
    BY <1>1, <1>4, Deal
  <1> HIDE DEF c
  <1>6. \A i \in Nat \ {0} : i \in 1 .. c <=> n + (i - 1) * G \in 1 .. N
    <2> SUFFICES ASSUME NEW i \in Nat \ {0} PROVE i \in 1 .. c <=> n + (i - 1) * G \in 1 .. N
      OBVIOUS
    <2> DEFINE d == (i - 1) * G
    <2>1. d \in Nat /\ (i <= c <=> n + d <= N)
      BY <1>5
    <2> HIDE DEF d
    <2>2. n \in Nat \ {0}
      BY <1>4
    <2>3. i \in 1 .. c <=> n + d \in 1 .. N
      BY <1>1, <1>5, <2>1, <2>2
    <2> QED
      BY <2>3 DEF d
  <1>7. \A i \in 1 .. c : A[n + (i - 1) * G] \in Sharing
    <2>1. \A i \in 1 .. c : i \in Nat \ {0}
      BY <1>5
    <2> QED
      BY <1>2, <1>6, <2>1
  <1>8. Member(n) \in Seq(Sharing) /\ DOMAIN Member(n) = 1 .. c
    <2>1. Member(n) \in [1 .. c -> Sharing]
      BY <1>3, <1>7
    <2> QED
      BY <1>5, <2>1
  <1>9. \A i \in 1 .. c : Member(n)[i] = A[n + (i - 1) * G]
    BY <1>3
  <1> QED
    BY <1>6, <1>8, <1>9 DEF N, G, A

(* Every sharing layer is in one place of one of those groups.             *)
LEMMA MemberAll ==
  ASSUME Inputs, NEW l \in Sharing
  PROVE  \E n \in 1 .. GroupCount : \E i \in DOMAIN Member(n) : Member(n)[i] = l
  <1> DEFINE N == Cardinality(Sharing)
             G == GroupCount
             k == Rank(l, Sharing)
  <1>1. N \in Nat /\ k \in 1 .. N /\ InOrder(Sharing)[k] = l
    BY LayerFacts, InOrderFacts
  <1>2. G \in Nat \ {0}
    BY CountFacts
  <1> HIDE DEF G, k, N
  <1>3. PICK n \in 1 .. G, i \in Nat \ {0} : k = n + (i - 1) * G
    <2>1. k \in Nat \ {0}
      BY <1>1
    <2> QED
      BY <1>2, <2>1, DealAll
  <1>4. n + (i - 1) * GroupCount \in 1 .. Cardinality(Sharing) /\ n \in 1 .. GroupCount
    BY <1>1, <1>3 DEF G, N
  <1>5. i \in DOMAIN Member(n) /\ Member(n)[i] = InOrder(Sharing)[n + (i - 1) * GroupCount]
    BY <1>4, MemberFacts
  <1> QED
    BY <1>1, <1>3, <1>4, <1>5 DEF G

LEMMA MemberOnce ==
  ASSUME Inputs, NEW n \in 1 .. GroupCount, NEW m \in 1 .. GroupCount,
         NEW i \in DOMAIN Member(n), NEW j \in DOMAIN Member(m),
         Member(n)[i] = Member(m)[j]
  PROVE  n = m /\ i = j
  <1> DEFINE N == Cardinality(Sharing)
             G == GroupCount
             x == n + (i - 1) * G
             y == m + (j - 1) * G
  <1>1. i \in Nat \ {0} /\ j \in Nat \ {0}
    <2>1. Member(n) \in Seq(Sharing) /\ Member(m) \in Seq(Sharing)
      BY MemberFacts
    <2> QED
      BY <2>1
  <1>2. x \in 1 .. N /\ Member(n)[i] = InOrder(Sharing)[x]
    BY <1>1, MemberFacts
  <1>3. y \in 1 .. N /\ Member(m)[j] = InOrder(Sharing)[y]
    BY <1>1, MemberFacts
  <1>4. IsFiniteSet(Sharing) /\ Sharing \in SUBSET Int
    BY LayerFacts
  <1> HIDE DEF x, y
  <1>5. x = y
    BY <1>2, <1>3, <1>4, InOrderStrict
  <1>6. G \in Nat \ {0} /\ n \in 1 .. G /\ m \in 1 .. G
    BY CountFacts
  <1>7. n + (i - 1) * G = m + (j - 1) * G
    BY <1>5 DEF x, y
  <1> HIDE DEF G
  <1> QED
    BY <1>1, <1>6, <1>7, DealOnce

(* The list of groups: the sparse layers once or twice, the sharing layers *)
(* as dealt, and each of the others alone.                                 *)
Tails == IF model.tails THEN 1 ELSE 0
Group == [kind : {"attn", "tail", "kda"}, layers : Seq(Layers)]

LEMMA Concatenation ==
  ASSUME NEW R, NEW s \in Seq(R), NEW t \in Seq(R)
  PROVE  /\ s \o t \in Seq(R) /\ Len(s \o t) = Len(s) + Len(t)
         /\ \A i \in 1 .. Len(s) : (s \o t)[i] = s[i]
         /\ \A i \in 1 .. Len(t) : (s \o t)[Len(s) + i] = t[i]
  <1>1. s \o t \in Seq(R)
    OBVIOUS
  <1>2. Len(s \o t) = Len(s) + Len(t)
    OBVIOUS
  <1>3. \A i \in 1 .. Len(s) : (s \o t)[i] = s[i]
    OBVIOUS
  <1>4. \A i \in 1 .. Len(t) : (s \o t)[Len(s) + i] = t[i]
    OBVIOUS
  <1> QED
    BY <1>1, <1>2, <1>3, <1>4

LEMMA GroupsList ==
  ASSUME Inputs, groups = Groups
  PROVE  /\ groups \in Seq(Group)
         /\ Len(groups) = 1 + Tails + GroupCount + Cardinality(Solo)
         /\ groups[1] = [kind |-> "attn", layers |-> InOrder(SparseLayers)]
         /\ model.tails => groups[2] = [kind |-> "tail", layers |-> InOrder(SparseLayers)]
         /\ \A n \in 1 .. GroupCount :
               groups[1 + Tails + n] = [kind |-> "kda", layers |-> Member(n)]
         /\ \A n \in 1 .. Cardinality(Solo) :
               groups[1 + Tails + GroupCount + n] =
                   [kind |-> "kda", layers |-> <<InOrder(Solo)[n]>>]
  <1> DEFINE G == GroupCount
             S == Cardinality(Solo)
             A == [kind |-> "attn", layers |-> InOrder(SparseLayers)]
             B == [kind |-> "tail", layers |-> InOrder(SparseLayers)]
             P(n) == [kind |-> "kda", layers |-> Member(n)]
             Q(n) == [kind |-> "kda", layers |-> <<InOrder(Solo)[n]>>]
             a == <<A>>
             b == IF model.tails THEN <<B>> ELSE <<>>
             c == [n \in 1 .. G |-> P(n)]
             d == [n \in 1 .. S |-> Q(n)]
  <1>1. G \in Nat /\ S \in Nat /\ model.tails \in BOOLEAN
    BY CountFacts, LayerFacts, ModelFacts
  <1>2. InOrder(SparseLayers) \in Seq(Layers)
    <2>1. SparseLayers \in SUBSET Layers /\ InOrder(SparseLayers) \in Seq(SparseLayers)
      BY LayerFacts, InOrderFacts
    <2> QED
      BY <2>1
  <1>3. \A n \in 1 .. G : Member(n) \in Seq(Layers)
    <2>1. Sharing \in SUBSET Layers
      BY LayerFacts
    <2>2. \A n \in 1 .. G : Member(n) \in Seq(Sharing)
      BY MemberFacts
    <2> QED
      BY <2>1, <2>2
  <1>4. \A n \in 1 .. S : InOrder(Solo)[n] \in Layers
    <2>1. Solo \in SUBSET Layers
      BY LayerFacts
    <2>2. \A n \in 1 .. S : InOrder(Solo)[n] \in Solo
      BY LayerFacts, InOrderFacts
    <2> QED
      BY <2>1, <2>2
  <1>5. A \in Group /\ B \in Group
    BY <1>2 DEF Group
  <1>6. \A n \in 1 .. G : P(n) \in Group
    BY <1>3 DEF Group
  <1>7. \A n \in 1 .. S : Q(n) \in Group
    BY <1>4 DEF Group
  <1>8. groups = ((a \o b) \o c) \o d
    BY DEF Groups
  <1> HIDE DEF A, B, P, Q, G, S
  <1>9. a \in Seq(Group) /\ Len(a) = 1 /\ a[1] = A
    BY <1>5
  <1>10. b \in Seq(Group) /\ Len(b) = Tails /\ (model.tails => b[1] = B)
    BY <1>1, <1>5 DEF Tails
  <1>11. c \in Seq(Group) /\ Len(c) = G /\ \A n \in 1 .. G : c[n] = P(n)
    <2>1. c \in [1 .. G -> Group]
      BY <1>6
    <2> QED
      BY <1>1, <2>1
  <1>12. d \in Seq(Group) /\ Len(d) = S /\ \A n \in 1 .. S : d[n] = Q(n)
    <2>1. d \in [1 .. S -> Group]
      BY <1>7
    <2> QED
      BY <1>1, <2>1
  <1>13. Tails \in 0 .. 1 /\ (model.tails => Tails = 1)
    BY <1>1 DEF Tails
  <1> HIDE DEF a, b, c, d
  <1> DEFINE e == a \o b
             f == e \o c
  <1>14. /\ e \in Seq(Group) /\ Len(e) = 1 + Tails /\ e[1] = A
         /\ model.tails => e[2] = B
    <2>1. Tails \in Nat /\ 1 \in Nat
      BY <1>13
    <2>2. /\ e \in Seq(Group) /\ Len(e) = 1 + Tails
          /\ \A i \in 1 .. 1 : e[i] = a[i]
          /\ \A i \in 1 .. Tails : e[1 + i] = b[i]
      <3>1. a \in Seq(Group) /\ b \in Seq(Group)
        BY <1>9, <1>10
      <3>2. /\ e \in Seq(Group) /\ Len(e) = Len(a) + Len(b)
            /\ \A i \in 1 .. Len(a) : e[i] = a[i]
            /\ \A i \in 1 .. Len(b) : e[Len(a) + i] = b[i]
        BY <3>1, Concatenation
      <3> HIDE DEF e
      <3> QED
        BY <1>9, <1>10, <3>2
    <2> HIDE DEF e
    <2>3. e[1] = A
      BY <1>9, <2>2
    <2>4. CASE model.tails
      <3>1. Tails = 1 /\ e[1 + 1] = b[1]
        BY <1>13, <2>2, <2>4
      <3>2. 1 + 1 = 2
        OBVIOUS
      <3>3. e[2] = B
        BY <1>10, <2>4, <3>1, <3>2
      <3> QED
        BY <2>2, <2>3, <3>3
    <2> QED
      BY <2>2, <2>3, <2>4
  <1> HIDE DEF e
  <1>15. /\ f \in Seq(Group) /\ Len(f) = 1 + Tails + G
         /\ \A n \in 1 .. 1 + Tails : f[n] = e[n]
         /\ \A n \in 1 .. G : f[1 + Tails + n] = P(n)
    BY <1>1, <1>11, <1>13, <1>14
  <1> HIDE DEF f
  <1>16. groups = f \o d
    BY <1>8 DEF e, f
  <1>17. /\ groups \in Seq(Group) /\ Len(groups) = 1 + Tails + G + S
         /\ \A n \in 1 .. 1 + Tails + G : groups[n] = f[n]
         /\ \A n \in 1 .. S : groups[1 + Tails + G + n] = Q(n)
    <2>1. 1 + Tails + G \in Nat
      BY <1>1, <1>13
    <2> DEFINE k == 1 + Tails + G
    <2>2. /\ f \o d \in Seq(Group) /\ Len(f \o d) = k + S
          /\ \A n \in 1 .. k : (f \o d)[n] = f[n]
          /\ \A n \in 1 .. S : (f \o d)[k + n] = d[n]
      <3>1. f \in Seq(Group) /\ d \in Seq(Group)
        BY <1>12, <1>15
      <3> DEFINE h == f \o d
      <3>2. /\ h \in Seq(Group) /\ Len(h) = Len(f) + Len(d)
            /\ \A n \in 1 .. Len(f) : h[n] = f[n]
            /\ \A n \in 1 .. Len(d) : h[Len(f) + n] = d[n]
        BY <3>1, Concatenation
      <3>3. Len(f) = k /\ Len(d) = S
        BY <1>12, <1>15
      <3> HIDE DEF h, k
      <3> QED
        BY <3>2, <3>3 DEF h
    <2> QED
      BY <1>12, <1>16, <2>2
  <1>18. groups[1] = A
    BY <1>1, <1>13, <1>14, <1>15, <1>17
  <1>19. model.tails => groups[2] = B
    BY <1>1, <1>13, <1>14, <1>15, <1>17
  <1>20. \A n \in 1 .. G : groups[1 + Tails + n] = P(n)
    <2> SUFFICES ASSUME NEW n \in 1 .. G PROVE groups[1 + Tails + n] = P(n)
      OBVIOUS
    <2>1. 1 + Tails + n \in 1 .. 1 + Tails + G
      BY <1>1, <1>13
    <2> QED
      BY <1>15, <1>17, <2>1
  <1> QED
    BY <1>17, <1>18, <1>19, <1>20 DEF A, B, P, Q, G, S

(* A group is one of those.                                                *)
LEMMA GroupCases ==
  ASSUME Inputs, groups = Groups, NEW g \in DOMAIN groups
  PROVE  \/ g = 1
         \/ model.tails /\ g = 2
         \/ \E n \in 1 .. GroupCount : g = 1 + Tails + n
         \/ \E n \in 1 .. Cardinality(Solo) : g = 1 + Tails + GroupCount + n
  <1> DEFINE G == GroupCount
             S == Cardinality(Solo)
  <1>1. G \in Nat /\ S \in Nat /\ model.tails \in BOOLEAN
    BY CountFacts, LayerFacts, ModelFacts
  <1>2. Tails \in 0 .. 1 /\ (Tails = 1 => model.tails)
    BY <1>1 DEF Tails
  <1>3. g \in 1 .. 1 + Tails + G + S
    BY GroupsList
  <1> HIDE DEF G, S
  <1>4. g \in Int
    BY <1>1, <1>2, <1>3
  <1>5. CASE g <= 1 + Tails
    BY <1>1, <1>2, <1>3, <1>5
  <1>6. CASE g > 1 + Tails /\ g <= 1 + Tails + G
    <2>1. g - 1 - Tails \in 1 .. G /\ g = 1 + Tails + (g - 1 - Tails)
      BY <1>1, <1>2, <1>3, <1>6
    <2>2. \E n \in 1 .. G : g = 1 + Tails + n
      BY <2>1
    <2> QED
      BY <2>2 DEF G
  <1>7. CASE g > 1 + Tails + G
    <2>1. g - 1 - Tails - G \in 1 .. S /\ g = 1 + Tails + G + (g - 1 - Tails - G)
      BY <1>1, <1>2, <1>3, <1>7
    <2>2. \E n \in 1 .. S : g = 1 + Tails + G + n
      BY <2>1
    <2> QED
      BY <2>2 DEF G, S
  <1> QED
    BY <1>1, <1>2, <1>4, <1>5, <1>6, <1>7

LEMMA KindFacts ==
  ASSUME Inputs, groups = Groups
  PROVE  /\ 1 \in DOMAIN groups
         /\ model.tails => 2 \in DOMAIN groups
         /\ \A g \in DOMAIN groups :
               /\ groups[g] \in Group
               /\ groups[g].kind = "attn" <=> g = 1
               /\ groups[g].kind = "tail" <=> model.tails /\ g = 2
  <1>1. /\ groups \in Seq(Group)
        /\ Len(groups) = 1 + Tails + GroupCount + Cardinality(Solo)
        /\ groups[1].kind = "attn"
        /\ model.tails => groups[2].kind = "tail"
        /\ \A n \in 1 .. GroupCount : groups[1 + Tails + n].kind = "kda"
        /\ \A n \in 1 .. Cardinality(Solo) : groups[1 + Tails + GroupCount + n].kind = "kda"
    <2>1. groups \in Seq(Group) /\ Len(groups) = 1 + Tails + GroupCount + Cardinality(Solo)
      BY GroupsList
    <2>2. groups[1] = [kind |-> "attn", layers |-> InOrder(SparseLayers)]
      BY GroupsList
    <2>3. model.tails => groups[2] = [kind |-> "tail", layers |-> InOrder(SparseLayers)]
      BY GroupsList
    <2>4. \A n \in 1 .. GroupCount :
             groups[1 + Tails + n] = [kind |-> "kda", layers |-> Member(n)]
      BY GroupsList
    <2>5. \A n \in 1 .. Cardinality(Solo) :
             groups[1 + Tails + GroupCount + n] = [kind |-> "kda", layers |-> <<InOrder(Solo)[n]>>]
      BY GroupsList
    <2>6. \A n \in 1 .. GroupCount : groups[1 + Tails + n].kind = "kda"
      <3> SUFFICES ASSUME NEW n \in 1 .. GroupCount PROVE groups[1 + Tails + n].kind = "kda"
        OBVIOUS
      <3>1. groups[1 + Tails + n] = [kind |-> "kda", layers |-> Member(n)]
        BY <2>4
      <3> QED
        BY <3>1
    <2>7. \A n \in 1 .. Cardinality(Solo) : groups[1 + Tails + GroupCount + n].kind = "kda"
      <3> SUFFICES ASSUME NEW n \in 1 .. Cardinality(Solo)
                   PROVE  groups[1 + Tails + GroupCount + n].kind = "kda"
        OBVIOUS
      <3>1. groups[1 + Tails + GroupCount + n] = [kind |-> "kda", layers |-> <<InOrder(Solo)[n]>>]
        BY <2>5
      <3> QED
        BY <3>1
    <2> QED
      BY <2>1, <2>2, <2>3, <2>6, <2>7
  <1>2. GroupCount \in Nat /\ Cardinality(Solo) \in Nat /\ model.tails \in BOOLEAN
    BY CountFacts, LayerFacts, ModelFacts
  <1>3. Tails \in 0 .. 1 /\ (Tails = 1 <=> model.tails)
    BY <1>2 DEF Tails
  <1>4. Len(groups) \in Nat /\ DOMAIN groups = 1 .. Len(groups)
    BY <1>1
  <1> DEFINE n == Len(groups)
  <1>5. n \in Nat /\ n >= 1 + Tails /\ DOMAIN groups = 1 .. n
    <2> DEFINE S == Cardinality(Solo)
    <2>1. n = 1 + Tails + GroupCount + S /\ S \in Nat
      BY <1>1, <1>2
    <2> HIDE DEF n, S
    <2> QED
      BY <1>2, <1>3, <1>4, <2>1 DEF n
  <1> HIDE DEF n
  <1>6. 1 \in DOMAIN groups /\ (model.tails => 2 \in DOMAIN groups)
    BY <1>3, <1>5
  <1>7. ASSUME NEW g \in DOMAIN groups
        PROVE  /\ groups[g].kind = "attn" <=> g = 1
               /\ groups[g].kind = "tail" <=> model.tails /\ g = 2
    <2>1. CASE g = 1
      BY <1>1, <2>1
    <2>2. CASE model.tails /\ g = 2
      BY <1>1, <2>2
    <2>3. CASE \E i \in 1 .. GroupCount : g = 1 + Tails + i
      <3>1. PICK i \in 1 .. GroupCount : g = 1 + Tails + i
        BY <2>3
      <3>2. groups[g].kind = "kda"
        BY <1>1, <3>1
      <3>3. g # 1 /\ ~ (model.tails /\ g = 2)
        BY <1>2, <1>3, <3>1
      <3> QED
        BY <3>2, <3>3
    <2>4. CASE \E i \in 1 .. Cardinality(Solo) : g = 1 + Tails + GroupCount + i
      <3> DEFINE S == Cardinality(Solo)
      <3>1. PICK i \in 1 .. S : g = 1 + Tails + GroupCount + i
        BY <2>4
      <3>2. groups[g].kind = "kda"
        BY <1>1, <3>1
      <3>3. S \in Nat
        BY <1>2
      <3> HIDE DEF S
      <3>4. g # 1 /\ ~ (model.tails /\ g = 2)
        BY <1>2, <1>3, <3>1, <3>3
      <3> QED
        BY <3>2, <3>4
    <2> QED
      BY <2>1, <2>2, <2>3, <2>4, GroupCases
  <1>8. \A g \in DOMAIN groups : groups[g] \in Group
    BY <1>1
  <1> QED
    BY <1>6, <1>7, <1>8

(* Where a group of linear layers comes from.                              *)
LEMMA LinearGroups ==
  ASSUME Inputs, groups = Groups, NEW g \in DOMAIN groups, groups[g].kind = "kda"
  PROVE  \/ \E n \in 1 .. GroupCount :
               g = 1 + Tails + n /\ groups[g].layers = Member(n)
         \/ \E n \in 1 .. Cardinality(Solo) :
               /\ g = 1 + Tails + GroupCount + n
               /\ groups[g].layers = <<InOrder(Solo)[n]>>
  <1>1. /\ \A n \in 1 .. GroupCount : groups[1 + Tails + n].layers = Member(n)
        /\ \A n \in 1 .. Cardinality(Solo) :
              groups[1 + Tails + GroupCount + n].layers = <<InOrder(Solo)[n]>>
    <2>1. \A n \in 1 .. GroupCount :
             groups[1 + Tails + n] = [kind |-> "kda", layers |-> Member(n)]
      BY GroupsList
    <2>2. \A n \in 1 .. Cardinality(Solo) :
             groups[1 + Tails + GroupCount + n] = [kind |-> "kda", layers |-> <<InOrder(Solo)[n]>>]
      BY GroupsList
    <2>3. ASSUME NEW n \in 1 .. GroupCount PROVE groups[1 + Tails + n].layers = Member(n)
      <3>1. groups[1 + Tails + n] = [kind |-> "kda", layers |-> Member(n)]
        BY <2>1
      <3> QED
        BY <3>1
    <2>4. ASSUME NEW n \in 1 .. Cardinality(Solo)
          PROVE  groups[1 + Tails + GroupCount + n].layers = <<InOrder(Solo)[n]>>
      <3>1. groups[1 + Tails + GroupCount + n] = [kind |-> "kda", layers |-> <<InOrder(Solo)[n]>>]
        BY <2>2
      <3> QED
        BY <3>1
    <2> QED
      BY <2>3, <2>4
  <1>2. g # 1 /\ ~ (model.tails /\ g = 2)
    BY KindFacts
  <1>3. \/ \E n \in 1 .. GroupCount : g = 1 + Tails + n
        \/ \E n \in 1 .. Cardinality(Solo) : g = 1 + Tails + GroupCount + n
    BY <1>2, GroupCases
  <1> QED
    BY <1>1, <1>3

(* Every linear layer is in one place of one group of linear layers.       *)
LEMMA LinearAll ==
  ASSUME Inputs, groups = Groups, NEW l \in LinearLayers
  PROVE  \E g \in DOMAIN groups :
            /\ groups[g].kind = "kda"
            /\ \E i \in DOMAIN groups[g].layers : groups[g].layers[i] = l
  <1>1. /\ groups \in Seq(Group)
        /\ Len(groups) = 1 + Tails + GroupCount + Cardinality(Solo)
        /\ \A n \in 1 .. GroupCount :
              groups[1 + Tails + n] = [kind |-> "kda", layers |-> Member(n)]
        /\ \A n \in 1 .. Cardinality(Solo) :
              groups[1 + Tails + GroupCount + n] = [kind |-> "kda", layers |-> <<InOrder(Solo)[n]>>]
    BY GroupsList
  <1> DEFINE G == GroupCount
             S == Cardinality(Solo)
  <1>2. G \in Nat /\ S \in Nat /\ Tails \in 0 .. 1
    BY CountFacts, LayerFacts, ModelFacts DEF Tails
  <1>3. DOMAIN groups = 1 .. 1 + Tails + G + S
    BY <1>1
  <1>4. CASE l \in Sharing
    <2>1. PICK n \in 1 .. G : \E i \in DOMAIN Member(n) : Member(n)[i] = l
      BY <1>4, MemberAll
    <2>2. groups[1 + Tails + n] = [kind |-> "kda", layers |-> Member(n)]
      BY <1>1
    <2> HIDE DEF G, S
    <2>3. 1 + Tails + n \in DOMAIN groups
      BY <1>2, <1>3
    <2> QED
      BY <2>1, <2>2, <2>3
  <1>5. CASE l \in Solo
    <2> DEFINE n == Rank(l, Solo)
    <2>1. n \in 1 .. S /\ InOrder(Solo)[n] = l
      BY <1>5, LayerFacts, InOrderFacts
    <2>2. groups[1 + Tails + G + n] = [kind |-> "kda", layers |-> <<InOrder(Solo)[n]>>]
      BY <1>1, <2>1
    <2> HIDE DEF G, S, n
    <2>3. 1 + Tails + G + n \in DOMAIN groups
      BY <1>2, <1>3, <2>1
    <2> QED
      BY <2>1, <2>2, <2>3
  <1> QED
    BY <1>4, <1>5, LayerFacts

LEMMA LinearOnce ==
  ASSUME Inputs, groups = Groups,
         NEW g \in DOMAIN groups, groups[g].kind = "kda",
         NEW h \in DOMAIN groups, groups[h].kind = "kda",
         NEW i \in DOMAIN groups[g].layers, NEW j \in DOMAIN groups[h].layers,
         groups[g].layers[i] = groups[h].layers[j]
  PROVE  g = h /\ i = j
  <1> DEFINE G == GroupCount
             S == Cardinality(Solo)
             l == groups[g].layers[i]
  <1>1. \A n \in 1 .. G : \A k \in DOMAIN Member(n) : Member(n)[k] \in Sharing
    <2>1. \A n \in 1 .. G : Member(n) \in Seq(Sharing)
      BY MemberFacts
    <2> QED
      BY <2>1
  <1>2. \A n \in 1 .. S : InOrder(Solo)[n] \in Solo
    BY LayerFacts, InOrderFacts
  <1>3. Sharing \cap Solo = {}
    BY LayerFacts
  <1>4. CASE \E n \in 1 .. G : g = 1 + Tails + n /\ groups[g].layers = Member(n)
    <2>1. PICK n \in 1 .. G : g = 1 + Tails + n /\ groups[g].layers = Member(n)
      BY <1>4
    <2>2. l \in Sharing
      BY <1>1, <2>1
    <2>3. CASE \E m \in 1 .. G : h = 1 + Tails + m /\ groups[h].layers = Member(m)
      <3>1. PICK m \in 1 .. G : h = 1 + Tails + m /\ groups[h].layers = Member(m)
        BY <2>3
      <3>2. i \in DOMAIN Member(n) /\ j \in DOMAIN Member(m) /\ Member(n)[i] = Member(m)[j]
        BY <2>1, <3>1
      <3>3. n = m /\ i = j
        BY <3>2, MemberOnce
      <3> QED
        BY <2>1, <3>1, <3>3
    <2>4. CASE \E m \in 1 .. S : groups[h].layers = <<InOrder(Solo)[m]>>
      BY <1>2, <1>3, <2>2, <2>4
    <2> QED
      BY <2>3, <2>4, LinearGroups
  <1>5. CASE \E n \in 1 .. S : g = 1 + Tails + G + n /\ groups[g].layers = <<InOrder(Solo)[n]>>
    <2>1. PICK n \in 1 .. S : g = 1 + Tails + G + n /\ groups[g].layers = <<InOrder(Solo)[n]>>
      BY <1>5
    <2>2. i = 1 /\ l = InOrder(Solo)[n] /\ l \in Solo
      BY <1>2, <2>1
    <2>3. CASE \E m \in 1 .. G : groups[h].layers = Member(m)
      BY <1>1, <1>3, <2>2, <2>3
    <2>4. CASE \E m \in 1 .. S : h = 1 + Tails + G + m /\ groups[h].layers = <<InOrder(Solo)[m]>>
      <3>1. PICK m \in 1 .. S : h = 1 + Tails + G + m /\ groups[h].layers = <<InOrder(Solo)[m]>>
        BY <2>4
      <3>2. j = 1 /\ l = InOrder(Solo)[m]
        BY <3>1
      <3>3. IsFiniteSet(Solo) /\ Solo \in SUBSET Int
        BY LayerFacts
      <3>4. InOrder(Solo)[n] = InOrder(Solo)[m]
        BY <2>2, <3>2
      <3>5. n = m
        BY <3>3, <3>4, InOrderStrict
      <3> QED
        BY <2>1, <2>2, <3>1, <3>2, <3>5
    <2> QED
      BY <2>3, <2>4, LinearGroups
  <1> QED
    BY <1>4, <1>5, LinearGroups

LEMMA LinearKind ==
  ASSUME Inputs, groups = Groups, NEW g \in DOMAIN groups, groups[g].kind = "kda",
         NEW i \in DOMAIN groups[g].layers
  PROVE  groups[g].layers[i] \in LinearLayers
  <1>1. Sharing \cup Solo = LinearLayers
    BY LayerFacts
  <1>2. \A n \in 1 .. GroupCount : Member(n) \in Seq(Sharing)
    BY MemberFacts
  <1>3. \A n \in 1 .. Cardinality(Solo) : InOrder(Solo)[n] \in Solo
    BY LayerFacts, InOrderFacts
  <1>4. CASE \E n \in 1 .. GroupCount : groups[g].layers = Member(n)
    BY <1>1, <1>2, <1>4
  <1>5. CASE \E n \in 1 .. Cardinality(Solo) : groups[g].layers = <<InOrder(Solo)[n]>>
    BY <1>1, <1>3, <1>5
  <1> QED
    BY <1>4, <1>5, LinearGroups

-----------------------------------------------------------------------------
(* What a stage has of each group.                                         *)

On(s, g) == Projected(s)[g].layers

Places(s, g) == {i \in DOMAIN groups[g].layers : StageOf(groups[g].layers[i]) = s}

LEMMA OnFacts ==
  ASSUME Inputs, groups = Groups, NEW s \in Stages, NEW g \in DOMAIN groups
  PROVE  /\ groups[g].layers \in Seq(Layers)
         /\ Places(s, g) \in SUBSET DOMAIN groups[g].layers
         /\ On(s, g) = At(groups[g].layers, Places(s, g)) /\ On(s, g) \in Seq(Layers)
         /\ Len(On(s, g)) = Cardinality(Places(s, g)) /\ Len(On(s, g)) \in Nat
         /\ \A k \in DOMAIN On(s, g) : \E i \in DOMAIN groups[g].layers :
               On(s, g)[k] = groups[g].layers[i] /\ StageOf(groups[g].layers[i]) = s
         /\ \A i \in DOMAIN groups[g].layers : StageOf(groups[g].layers[i]) = s =>
               \E k \in DOMAIN On(s, g) : On(s, g)[k] = groups[g].layers[i]
  <1> DEFINE L == groups[g].layers
             I == Places(s, g)
  <1>0. I = {i \in DOMAIN L : StageOf(L[i]) = s}
    BY DEF Places
  <1>1. groups[g] \in Group /\ L \in Seq(Layers)
    <2>1. groups[g] \in Group
      BY KindFacts
    <2> QED
      BY <2>1 DEF Group
  <1>2. Projected(s)[g] = [groups[g] EXCEPT !.layers = At(L, I)]
    BY <1>0 DEF Projected
  <1>3. On(s, g) = At(L, I)
    BY <1>1, <1>2 DEF On, Group
  <1>4. I \in SUBSET DOMAIN L
    BY <1>0
  <1>5. At(L, I) \in Seq(Layers) /\ Len(At(L, I)) = Cardinality(I) /\ Cardinality(I) \in Nat
    BY <1>1, <1>4, AtFacts
  <1>6. {At(L, I)[k] : k \in DOMAIN At(L, I)} = {L[i] : i \in I}
    BY <1>1, <1>4, AtRange
  <1>7. \A k \in DOMAIN On(s, g) : \E i \in DOMAIN L : On(s, g)[k] = L[i] /\ StageOf(L[i]) = s
    <2> SUFFICES ASSUME NEW k \in DOMAIN On(s, g)
                 PROVE  \E i \in I : On(s, g)[k] = L[i]
      BY <1>0
    <2>1. On(s, g)[k] \in {L[i] : i \in I}
      BY <1>3, <1>6
    <2> QED
      BY <2>1
  <1>8. \A i \in DOMAIN L : StageOf(L[i]) = s => \E k \in DOMAIN On(s, g) : On(s, g)[k] = L[i]
    <2> SUFFICES ASSUME NEW i \in DOMAIN L, StageOf(L[i]) = s
                 PROVE  \E k \in DOMAIN On(s, g) : On(s, g)[k] = L[i]
      OBVIOUS
    <2>1. L[i] \in {At(L, I)[k] : k \in DOMAIN At(L, I)}
      BY <1>0, <1>6
    <2> QED
      BY <1>3, <2>1
  <1> QED
    BY <1>1, <1>3, <1>4, <1>5, <1>7, <1>8

LEMMA NoRepeats ==
  ASSUME Inputs, groups = Groups, NEW g \in DOMAIN groups,
         NEW i \in DOMAIN groups[g].layers, NEW j \in DOMAIN groups[g].layers,
         groups[g].layers[i] = groups[g].layers[j]
  PROVE  i = j
  <1>1. groups[g].kind \in {"attn", "tail", "kda"}
    <2>1. groups[g] \in Group
      BY KindFacts
    <2> QED
      BY <2>1 DEF Group
  <1>2. CASE groups[g].kind = "kda"
    BY <1>2, LinearOnce
  <1>3. CASE groups[g].kind # "kda"
    <2>1. g = 1 \/ (model.tails /\ g = 2)
      BY <1>1, <1>3, KindFacts
    <2>2. groups[1] = [kind |-> "attn", layers |-> InOrder(SparseLayers)]
      BY GroupsList
    <2>3. model.tails => groups[2] = [kind |-> "tail", layers |-> InOrder(SparseLayers)]
      BY GroupsList
    <2>4. groups[g].layers = InOrder(SparseLayers)
      BY <2>1, <2>2, <2>3
    <2>5. IsFiniteSet(SparseLayers) /\ SparseLayers \in SUBSET Int
      BY LayerFacts
    <2>6. DOMAIN InOrder(SparseLayers) = 1 .. Cardinality(SparseLayers)
      BY <2>5, InOrderFacts
    <2>7. /\ i \in 1 .. Cardinality(SparseLayers) /\ j \in 1 .. Cardinality(SparseLayers)
          /\ InOrder(SparseLayers)[i] = InOrder(SparseLayers)[j]
      BY <2>4, <2>6
    <2> QED
      BY <2>5, <2>7, InOrderStrict
  <1> QED
    BY <1>2, <1>3

(* A linear layer is in one place of one group on its stage, too.          *)
LEMMA OnOnce ==
  ASSUME Inputs, groups = Groups, NEW s \in Stages,
         NEW g \in DOMAIN groups, groups[g].kind = "kda",
         NEW h \in DOMAIN groups, groups[h].kind = "kda",
         NEW k \in DOMAIN On(s, g), NEW m \in DOMAIN On(s, h),
         On(s, g)[k] = On(s, h)[m]
  PROVE  g = h /\ k = m
  <1>1. PICK i \in DOMAIN groups[g].layers : On(s, g)[k] = groups[g].layers[i]
    BY OnFacts
  <1>2. PICK j \in DOMAIN groups[h].layers : On(s, h)[m] = groups[h].layers[j]
    BY OnFacts
  <1>3. g = h
    <2>1. groups[g].layers[i] = groups[h].layers[j]
      BY <1>1, <1>2
    <2>2. i \in DOMAIN groups[g].layers /\ j \in DOMAIN groups[h].layers
      BY <1>1, <1>2
    <2>3. groups[g].kind = "kda" /\ groups[h].kind = "kda"
      OBVIOUS
    <2> QED
      BY <2>1, <2>2, <2>3, LinearOnce
  <1> DEFINE L == groups[g].layers
             I == Places(s, g)
  <1>4. L \in Seq(Layers) /\ I \in SUBSET DOMAIN L /\ On(s, g) = At(L, I)
    BY OnFacts
  <1>5. \A x, y \in DOMAIN L : L[x] = L[y] => x = y
    BY NoRepeats
  <1> HIDE DEF L, I
  <1>6. k = m
    BY <1>3, <1>4, <1>5, AtOnce
  <1> QED
    BY <1>3, <1>6

LEMMA ActiveFacts ==
  ASSUME Inputs, groups = Groups, NEW s \in Stages
  PROVE  /\ Active(s) \in SUBSET DOMAIN groups /\ IsFiniteSet(Active(s))
         /\ \A g \in DOMAIN groups : g \in Active(s) <=> Len(On(s, g)) > 0
         /\ OfKind(s, "attn") = IF 1 \in Active(s) THEN {1} ELSE {}
         /\ OfKind(s, "tail") = IF model.tails /\ 2 \in Active(s) THEN {2} ELSE {}
  <1>1. Active(s) = {g \in DOMAIN groups : On(s, g) # <<>>}
    BY DEF Active, On
  <1>2. groups \in Seq(Group)
    BY GroupsList
  <1>3. IsFiniteSet(DOMAIN groups)
    <2>1. DOMAIN groups = 1 .. Len(groups) /\ Len(groups) \in Nat
      BY <1>2
    <2> QED
      BY <2>1, FS_Interval
  <1>4. IsFiniteSet(Active(s))
    <2>1. Active(s) \in SUBSET DOMAIN groups
      BY <1>1
    <2> QED
      BY <1>3, <2>1, FS_Subset
  <1>5. \A g \in DOMAIN groups : On(s, g) \in Seq(Layers)
    BY OnFacts
  <1>6. \A g \in DOMAIN groups : g \in Active(s) <=> Len(On(s, g)) > 0
    BY <1>1, <1>5
  <1>7. \A g \in DOMAIN groups : /\ groups[g].kind = "attn" <=> g = 1
                                 /\ groups[g].kind = "tail" <=> model.tails /\ g = 2
    BY KindFacts
  <1>8. OfKind(s, "attn") = IF 1 \in Active(s) THEN {1} ELSE {}
    BY <1>1, <1>7 DEF OfKind
  <1>9. OfKind(s, "tail") = IF model.tails /\ 2 \in Active(s) THEN {2} ELSE {}
    BY <1>1, <1>7 DEF OfKind
  <1> QED
    BY <1>1, <1>4, <1>6, <1>8, <1>9

(* The longest row of a stage.                                             *)
LEMMA SizeFacts ==
  ASSUME Inputs, groups = Groups, NEW s \in Stages, Active(s) # {}
  PROVE  GroupSize(s) \in Nat \ {0} /\ \A g \in Active(s) : Len(On(s, g)) <= GroupSize(s)
  <1> DEFINE A == Active(s)
             f == [g \in A |-> Len(On(s, g))]
             S == {f[g] : g \in A}
  <1>1. IsFiniteSet(A) /\ A \in SUBSET DOMAIN groups
    BY ActiveFacts
  <1>2. \A g \in A : Len(On(s, g)) \in Nat \ {0}
    <2> SUFFICES ASSUME NEW g \in A PROVE Len(On(s, g)) \in Nat \ {0}
      OBVIOUS
    <2>1. g \in DOMAIN groups /\ Len(On(s, g)) > 0
      BY <1>1, ActiveFacts
    <2>2. Len(On(s, g)) \in Nat
      BY <2>1, OnFacts
    <2> DEFINE n == Len(On(s, g))
    <2> HIDE DEF n
    <2>3. n \in Nat \ {0}
      BY <2>1, <2>2 DEF n
    <2> QED
      BY <2>3 DEF n
  <1>3. S = {Len(Projected(s)[g].layers) : g \in A}
    BY DEF On
  <1>4. GroupSize(s) = Max(S)
    BY <1>3 DEF GroupSize
  <1>5. IsFiniteSet(S)
    <2>1. f = [g \in A |-> f[g]]
      OBVIOUS
    <2> HIDE DEF f
    <2> QED
      BY <1>1, <2>1, FiniteImage
  <1>6. S \in SUBSET Int /\ S # {} /\ \A x \in S : x \in Nat \ {0}
    <2>1. \A g \in A : f[g] \in Nat \ {0}
      BY <1>2
    <2>2. A # {}
      OBVIOUS
    <2> HIDE DEF f, A
    <2> QED
      BY <2>1, <2>2
  <1>7. \A g \in A : Len(On(s, g)) \in S
    OBVIOUS
  <1> HIDE DEF S, A
  <1>8. \E x \in S : \A y \in S : y <= x
    BY <1>5, <1>6, Greatest
  <1>9. \E x \in S : \A y \in S : x >= y
    BY <1>6, <1>8
  <1>10. Max(S) \in S /\ \A y \in S : Max(S) >= y
    BY <1>9 DEF Max
  <1>11. GroupSize(s) \in Nat \ {0}
    BY <1>4, <1>6, <1>10
  <1>12. \A g \in A : Len(On(s, g)) <= GroupSize(s)
    <2> SUFFICES ASSUME NEW g \in A PROVE Len(On(s, g)) <= GroupSize(s)
      OBVIOUS
    <2>1. Len(On(s, g)) \in S
      BY <1>7
    <2> DEFINE n == Len(On(s, g))
    <2> HIDE DEF n
    <2>2. n \in S
      BY <2>1 DEF n
    <2>3. n <= GroupSize(s)
      BY <1>4, <1>6, <1>10, <2>2
    <2> QED
      BY <2>3 DEF n
  <1> QED
    BY <1>11, <1>12 DEF A

-----------------------------------------------------------------------------
(* Who shares a tensor.                                                    *)

LEMMA GroupOfSparse ==
  ASSUME Inputs, groups = Groups, NEW l \in Range(groups[1].layers)
  PROVE  GroupOf(<<"mla", l>>) = 1 /\ GroupOf(<<"idx", l>>) = 1
  <1>1. 1 \in DOMAIN groups /\ \A g \in DOMAIN groups : groups[g].kind = "attn" <=> g = 1
    BY KindFacts
  <1>2. ASSUME NEW g \in DOMAIN groups
        PROVE  l \in Range(groups[g].layers) /\ groups[g].kind = "attn" <=> g = 1
    BY <1>1
  <1>3. ASSUME NEW c \in {"mla", "idx"} PROVE GroupOf(<<c, l>>) = 1
    <2>1. GroupOf(<<c, l>>) = CHOOSE g \in DOMAIN groups :
             l \in Range(groups[g].layers) /\ groups[g].kind = "attn"
      BY DEF GroupOf
    <2>2. (CHOOSE g \in DOMAIN groups :
             l \in Range(groups[g].layers) /\ groups[g].kind = "attn") = 1
      BY <1>1, <1>2
    <2> QED
      BY <2>1, <2>2
  <1> QED
    BY <1>3

LEMMA GroupOfTail ==
  ASSUME Inputs, groups = Groups, model.tails, NEW l \in Range(groups[2].layers)
  PROVE  GroupOf(<<"tail", l>>) = 2
  <1>1. 2 \in DOMAIN groups /\ \A g \in DOMAIN groups : groups[g].kind = "tail" <=> g = 2
    BY KindFacts
  <1>2. ASSUME NEW g \in DOMAIN groups
        PROVE  l \in Range(groups[g].layers) /\ groups[g].kind = "tail" <=> g = 2
    BY <1>1
  <1>3. GroupOf(<<"tail", l>>) = CHOOSE g \in DOMAIN groups :
             l \in Range(groups[g].layers) /\ groups[g].kind = "tail"
    BY DEF GroupOf
  <1> QED
    BY <1>1, <1>2, <1>3

LEMMA GroupOfLinear ==
  ASSUME Inputs, groups = Groups, NEW g \in DOMAIN groups, groups[g].kind = "kda",
         NEW l \in Range(groups[g].layers)
  PROVE  GroupOf(<<"kda", l>>) = g
  <1>1. ASSUME NEW h \in DOMAIN groups, l \in Range(groups[h].layers), groups[h].kind = "kda"
        PROVE  h = g
    <2>1. PICK i \in DOMAIN groups[g].layers : l = groups[g].layers[i]
      BY DEF Range
    <2>2. PICK j \in DOMAIN groups[h].layers : l = groups[h].layers[j]
      BY <1>1 DEF Range
    <2>3. groups[g].layers[i] = groups[h].layers[j]
      BY <2>1, <2>2
    <2> QED
      BY <1>1, <2>3, LinearOnce
  <1>2. GroupOf(<<"kda", l>>) = CHOOSE h \in DOMAIN groups :
             l \in Range(groups[h].layers) /\ groups[h].kind = "kda"
    BY DEF GroupOf
  <1> QED
    BY <1>1, <1>2

LEMMA OnRange ==
  ASSUME Inputs, groups = Groups, NEW s \in Stages, NEW g \in DOMAIN groups,
         NEW k \in DOMAIN On(s, g)
  PROVE  On(s, g)[k] \in Range(groups[g].layers)
  BY OnFacts DEF Range

LEMMA RowFacts ==
  ASSUME Inputs, groups = Groups, NEW s \in Stages, NEW i \in Nat \ {0}, NEW x
  PROVE  x \in Row(s, i) <=>
            \E g \in DOMAIN groups :
               /\ groups[g].kind = "kda" /\ i \in DOMAIN On(s, g)
               /\ x = <<"kda", On(s, g)[i]>>
  <1>1. Row(s, i) = {<<"kda", On(s, g)[i]>> :
                        g \in {h \in OfKind(s, "kda") : i <= Len(On(s, h))}}
    BY DEF Row, On
  <1>2. ASSUME NEW h \in DOMAIN groups
        PROVE  h \in OfKind(s, "kda") /\ i <= Len(On(s, h)) <=>
                  groups[h].kind = "kda" /\ i \in DOMAIN On(s, h)
    <2>1. On(s, h) \in Seq(Layers) /\ Len(On(s, h)) \in Nat
      BY OnFacts
    <2>2. h \in Active(s) <=> Len(On(s, h)) > 0
      BY ActiveFacts
    <2>3. h \in OfKind(s, "kda") <=> h \in Active(s) /\ groups[h].kind = "kda"
      BY DEF OfKind
    <2>4. i \in DOMAIN On(s, h) <=> i <= Len(On(s, h))
      BY <2>1
    <2> DEFINE n == Len(On(s, h))
    <2>5. i <= n => n > 0
      <3> HIDE DEF n
      <3> QED
        BY <2>1 DEF n
    <2> QED
      BY <2>2, <2>3, <2>4, <2>5
  <1>3. OfKind(s, "kda") \in SUBSET DOMAIN groups
    BY DEF OfKind, Active
  <1> QED
    BY <1>1, <1>2, <1>3

LEMMA RowGroup ==
  ASSUME Inputs, groups = Groups, NEW s \in Stages, NEW i \in Nat \ {0},
         NEW x \in Row(s, i)
  PROVE  \E g \in DOMAIN groups :
            /\ groups[g].kind = "kda" /\ i \in DOMAIN On(s, g)
            /\ x = <<"kda", On(s, g)[i]>> /\ GroupOf(x) = g
  <1>1. PICK g \in DOMAIN groups : /\ groups[g].kind = "kda" /\ i \in DOMAIN On(s, g)
                                   /\ x = <<"kda", On(s, g)[i]>>
    BY RowFacts
  <1>2. On(s, g)[i] \in Range(groups[g].layers)
    BY <1>1, OnRange
  <1>3. GroupOf(<<"kda", On(s, g)[i]>>) = g
    BY <1>1, <1>2, GroupOfLinear
  <1> QED
    BY <1>1, <1>3

(* The sparse layers and the tails of a stage.                             *)
LEMMA OfKindLayers ==
  ASSUME Inputs, groups = Groups, NEW s \in Stages
  PROVE  /\ 1 \in Active(s) => LayersOf(s, "attn") = On(s, 1)
         /\ model.tails /\ 2 \in Active(s) => LayersOf(s, "tail") = On(s, 2)
         /\ ~ (model.tails /\ 2 \in Active(s)) => LayersOf(s, "tail") = <<>>
  <1>1. /\ 1 \in Active(s) => OfKind(s, "attn") = {1}
        /\ model.tails /\ 2 \in Active(s) => OfKind(s, "tail") = {2}
        /\ ~ (model.tails /\ 2 \in Active(s)) => OfKind(s, "tail") = {}
    BY ActiveFacts
  <1> QED
    BY <1>1 DEF LayersOf, On

(* A sparse layer and its tail are on the same stage, in the same place.   *)
LEMMA TailFacts ==
  ASSUME Inputs, groups = Groups, NEW s \in Stages, model.tails
  PROVE  On(s, 2) = On(s, 1)
  <1>1. groups[1] = [kind |-> "attn", layers |-> InOrder(SparseLayers)]
    BY GroupsList
  <1>2. groups[2] = [kind |-> "tail", layers |-> InOrder(SparseLayers)]
    BY GroupsList
  <1>3. groups[1].layers = groups[2].layers
    BY <1>1, <1>2
  <1>4. Places(s, 1) = Places(s, 2)
    BY <1>3 DEF Places
  <1>5. 1 \in DOMAIN groups /\ 2 \in DOMAIN groups
    BY KindFacts
  <1>6. /\ On(s, 1) = At(groups[1].layers, Places(s, 1))
        /\ On(s, 2) = At(groups[2].layers, Places(s, 2))
    BY <1>5, OnFacts
  <1> QED
    BY <1>3, <1>4, <1>6

LEMMA TensorSharers ==
  ASSUME Inputs, groups = Groups, NEW s \in Stages, NEW t \in Tensors(s),
         NEW x \in t.shared, NEW y \in t.shared, x # y
  PROVE  GroupOf(x) # GroupOf(y)
  <1>1. \A i \in Nat \ {0} : \A u, v \in Row(s, i) : u # v => GroupOf(u) # GroupOf(v)
    <2> SUFFICES ASSUME NEW i \in Nat \ {0}, NEW u \in Row(s, i), NEW v \in Row(s, i),
                        GroupOf(u) = GroupOf(v)
                 PROVE  u = v
      OBVIOUS
    <2>1. PICK g \in DOMAIN groups : u = <<"kda", On(s, g)[i]>> /\ GroupOf(u) = g
      BY RowGroup
    <2>2. PICK h \in DOMAIN groups : v = <<"kda", On(s, h)[i]>> /\ GroupOf(v) = h
      BY RowGroup
    <2> QED
      BY <2>1, <2>2
  <1>2. \A i \in Nat \ {0} : \A u \in Row(s, i) : GroupOf(u) # 1 /\ GroupOf(u) \in DOMAIN groups
    <2> SUFFICES ASSUME NEW i \in Nat \ {0}, NEW u \in Row(s, i)
                 PROVE  GroupOf(u) # 1 /\ GroupOf(u) \in DOMAIN groups
      OBVIOUS
    <2>1. PICK g \in DOMAIN groups : groups[g].kind = "kda" /\ GroupOf(u) = g
      BY RowGroup
    <2>2. groups[g].kind = "attn" <=> g = 1
      BY KindFacts
    <2> QED
      BY <2>1, <2>2
  <1>3. CASE OfKind(s, "attn") # {}
    <2>1. 1 \in Active(s) /\ 1 \in DOMAIN groups
      BY <1>3, ActiveFacts, KindFacts
    <2> DEFINE sparse == On(s, 1)
    <2>2. LayersOf(s, "attn") = sparse
      BY <2>1, OfKindLayers
    <2>3. sparse \in Seq(Layers)
      BY <2>1, OnFacts
    <2>4. t \in SharedTensors(s)
      BY <1>3 DEF Tensors
    <2>5. \/ \E i \in DOMAIN sparse : t.shared = {<<"mla", sparse[i]>>} \cup Row(s, i)
          \/ \E i \in DOMAIN sparse : t.shared = {<<"idx", sparse[i]>>} \cup Mates(s, i)
      BY <2>2, <2>4 DEF SharedTensors
    <2>6. \A i \in DOMAIN sparse : /\ i \in Nat \ {0}
                                   /\ GroupOf(<<"mla", sparse[i]>>) = 1
                                   /\ GroupOf(<<"idx", sparse[i]>>) = 1
      <3> SUFFICES ASSUME NEW i \in DOMAIN sparse
                   PROVE  /\ i \in Nat \ {0}
                          /\ GroupOf(<<"mla", sparse[i]>>) = 1
                          /\ GroupOf(<<"idx", sparse[i]>>) = 1
        OBVIOUS
      <3>1. i \in Nat \ {0}
        BY <2>3
      <3>2. sparse[i] \in Range(groups[1].layers)
        BY <2>1, OnRange
      <3> HIDE DEF sparse
      <3> QED
        BY <3>1, <3>2, GroupOfSparse
    <2>7. CASE \E i \in DOMAIN sparse : t.shared = {<<"mla", sparse[i]>>} \cup Row(s, i)
      <3>1. PICK i \in DOMAIN sparse : t.shared = {<<"mla", sparse[i]>>} \cup Row(s, i)
        BY <2>7
      <3>2. i \in Nat \ {0} /\ GroupOf(<<"mla", sparse[i]>>) = 1
        BY <2>6
      <3>3. CASE x \in Row(s, i) /\ y \in Row(s, i)
        BY <1>1, <3>2, <3>3
      <3>4. CASE x = <<"mla", sparse[i]>> /\ y \in Row(s, i)
        BY <1>2, <3>2, <3>4
      <3>5. CASE y = <<"mla", sparse[i]>> /\ x \in Row(s, i)
        BY <1>2, <3>2, <3>5
      <3> QED
        BY <3>1, <3>3, <3>4, <3>5
    <2>8. CASE \E i \in DOMAIN sparse : t.shared = {<<"idx", sparse[i]>>} \cup Mates(s, i)
      <3>1. PICK i \in DOMAIN sparse : t.shared = {<<"idx", sparse[i]>>} \cup Mates(s, i)
        BY <2>8
      <3>2. GroupOf(<<"idx", sparse[i]>>) = 1
        BY <2>6
      <3>3. CASE model.tails /\ 2 \in Active(s)
        <4>1. LayersOf(s, "tail") = On(s, 2) /\ 2 \in DOMAIN groups
          BY <3>3, OfKindLayers, KindFacts
        <4>2. On(s, 2) = On(s, 1)
          BY <3>3, TailFacts
        <4>3. Mates(s, i) \in SUBSET {<<"tail", On(s, 2)[i]>>}
          BY <4>1 DEF Mates
        <4>4. i \in DOMAIN On(s, 2)
          BY <4>2
        <4>5. On(s, 2)[i] \in Range(groups[2].layers)
          BY <4>1, <4>4, OnRange
        <4>6. GroupOf(<<"tail", On(s, 2)[i]>>) = 2
          BY <3>3, <4>5, GroupOfTail
        <4> QED
          BY <3>1, <3>2, <4>3, <4>6
      <3>4. CASE ~ (model.tails /\ 2 \in Active(s))
        <4>1. LayersOf(s, "tail") = <<>>
          BY <3>4, OfKindLayers
        <4>2. Mates(s, i) = {}
          BY <4>1 DEF Mates
        <4> QED
          BY <3>1, <4>2
      <3> QED
        BY <3>3, <3>4
    <2> QED
      BY <2>5, <2>7, <2>8
  <1>4. CASE OfKind(s, "attn") = {}
    <2>1. PICK i \in 1 .. GroupSize(s) : t.shared = Row(s, i)
      BY <1>4 DEF Tensors, RowTensors
    <2>2. CASE Active(s) = {}
      <3>1. OfKind(s, "kda") = {}
        BY <2>2 DEF OfKind
      <3> QED
        BY <2>1, <3>1 DEF Row
    <2>3. CASE Active(s) # {}
      <3>1. GroupSize(s) \in Nat
        BY <2>3, SizeFacts
      <3>2. i \in Nat \ {0}
        BY <3>1
      <3> QED
        BY <1>1, <2>1, <3>2
    <2> QED
      BY <2>2, <2>3
  <1> QED
    BY <1>3, <1>4

LEMMA Disjoint == IInv => SharersDisjoint
  <1> SUFFICES ASSUME IInv, pc = "serving", NEW s \in Stages, NEW t \in tensors[s],
                      NEW x \in t.shared, NEW y \in t.shared, x # y
               PROVE  GroupOf(x) # GroupOf(y)
    BY DEF SharersDisjoint
  <1>1. Inputs /\ groups = Groups
    BY DEF IInv, Grouped
  <1>2. {u.shared : u \in tensors[s]} = {u.shared : u \in Tensors(s)}
    BY DEF IInv, Laid
  <1>3. t.shared \in {u.shared : u \in Tensors(s)}
    BY <1>2
  <1>4. PICK u \in Tensors(s) : t.shared = u.shared
    BY <1>3
  <1> QED
    BY <1>1, <1>4, TensorSharers

-----------------------------------------------------------------------------
(* The steps.                                                              *)

(* The groups follow from the model alone.                                 *)
LEMMA SameModel ==
  ASSUME UNCHANGED model
  PROVE  /\ Stages' = Stages /\ Groups' = Groups
         /\ \A l : StageOf(l)' = StageOf(l)
  <1>1. Stages' = Stages /\ Total' = Total /\ Layers' = Layers
    BY DEF Stages, Total, Layers
  <1>2. \A l : Sparse(l)' = Sparse(l)
    BY <1>1 DEF Sparse
  <1>3. \A s : EndOf(s)' = EndOf(s)
    BY <1>1 DEF EndOf
  <1>4. \A l : StageOf(l)' = StageOf(l)
    BY <1>1, <1>3 DEF StageOf
  <1>5. SparseLayers' = SparseLayers /\ LinearLayers' = LinearLayers
    BY <1>1, <1>2 DEF SparseLayers, LinearLayers
  <1>6. Sharing' = Sharing /\ Solo' = Solo
    BY <1>4, <1>5 DEF Sharing, Solo
  <1>7. GroupCount' = GroupCount
    BY <1>5, <1>6 DEF GroupCount
  <1>8. \A n : Member(n)' = Member(n)
    BY <1>6, <1>7 DEF Member
  <1>9. Groups' = Groups
    BY <1>5, <1>6, <1>7, <1>8 DEF Groups
  <1> QED
    BY <1>1, <1>4, <1>9

(* What a stage is given follows from the model and the groups, and what   *)
(* it has memory for from the inputs too.                                  *)
LEMMA SameStage ==
  ASSUME UNCHANGED <<model, groups>>, NEW s
  PROVE  /\ Tensors(s)' = Tensors(s) /\ PoolBytesPerBlock(s)' = PoolBytesPerBlock(s)
         /\ MaxMemoryUsage(s)' = MaxMemoryUsage(s)
         /\ Active(s)' = Active(s) /\ Caches(s)' = Caches(s)
  <1>1. \A l : StageOf(l)' = StageOf(l)
    BY SameModel
  <1>2. Projected(s)' = Projected(s)
    BY <1>1 DEF Projected
  <1>3. Active(s)' = Active(s)
    BY <1>2 DEF Active
  <1>4. \A k : OfKind(s, k)' = OfKind(s, k)
    BY <1>3 DEF OfKind
  <1>5. ASSUME NEW k PROVE LayersOf(s, k)' = LayersOf(s, k)
    <2>1. OfKind(s, k)' = OfKind(s, k)
      BY <1>4
    <2>2. (CHOOSE g \in OfKind(s, k) : TRUE)' = CHOOSE g \in OfKind(s, k) : TRUE
      BY <2>1
    <2> QED
      BY <1>2, <2>1, <2>2 DEF LayersOf
  <1>6. ASSUME NEW i PROVE Row(s, i)' = Row(s, i) /\ Mates(s, i)' = Mates(s, i)
    <2>1. OfKind(s, "kda")' = OfKind(s, "kda")
      BY <1>4
    <2>2. LayersOf(s, "tail")' = LayersOf(s, "tail")
      BY <1>5
    <2>3. Mates(s, i)' = Mates(s, i)
      BY <2>2 DEF Mates
    <2>4. Row(s, i)' = Row(s, i)
      BY <1>2, <2>1 DEF Row
    <2> QED
      BY <2>3, <2>4
  <1>7. GroupSize(s)' = GroupSize(s)
    BY <1>2, <1>3 DEF GroupSize
  <1>8. Tensors(s)' = Tensors(s)
    <2>1. LayersOf(s, "attn")' = LayersOf(s, "attn") /\ OfKind(s, "attn")' = OfKind(s, "attn")
      BY <1>4, <1>5
    <2>2. SharedTensors(s)' = SharedTensors(s)
      BY <1>6, <2>1 DEF SharedTensors
    <2>3. RowTensors(s)' = RowTensors(s)
      BY <1>6, <1>7 DEF RowTensors
    <2> QED
      BY <2>1, <2>2, <2>3 DEF Tensors
  <1>9. PoolBytesPerBlock(s)' = PoolBytesPerBlock(s)
    BY <1>4, <1>5, <1>7 DEF PoolBytesPerBlock
  <1>10. \A S : BlocksNeeded(S)' = BlocksNeeded(S)
    BY DEF BlocksNeeded, BlocksOf
  <1>11. MaxMemoryUsage(s)' = MaxMemoryUsage(s)
    BY <1>3, <1>9, <1>10 DEF MaxMemoryUsage
  <1>12. Caches(s)' = Caches(s)
    BY <1>2, <1>3 DEF Caches
  <1> QED
    BY <1>3, <1>8, <1>9, <1>11, <1>12

LEMMA SameMemory ==
  ASSUME UNCHANGED <<model, override, memory, groups>>, NEW s
  PROVE  Available(s)' = Available(s) /\ BlockCount(s)' = BlockCount(s)
  <1>1. PoolBytesPerBlock(s)' = PoolBytesPerBlock(s)
    BY SameStage
  <1>2. Available(s)' = Available(s)
    BY <1>1 DEF Available
  <1> QED
    BY <1>1, <1>2 DEF BlockCount

LEMMA InvInit == Init => IInv
  <1> SUFFICES ASSUME Init PROVE IInv
    OBVIOUS
  <1>1. model \in Models /\ override \in Overrides /\ memory \in Memories(model) /\ pc = "group"
    BY DEF Init
  <1>2. Memories(model) \subseteq [DOMAIN model.cut -> Nat] /\ Overrides \subseteq Nat
    BY <1>1, ModelAssumption, PageAssumption
  <1> QED
    BY <1>1, <1>2 DEF IInv, Inputs, Grouped, Admitted, Counted, Laid, Judged

LEMMA InvStep == IInv /\ [Next]_vars => IInv'
  <1> SUFFICES ASSUME IInv, [Next]_vars PROVE IInv'
    OBVIOUS
  <1> USE DEF IInv
  <1>1. UNCHANGED <<model, override, memory>>
    BY DEF Next, MakeGroups, CheckMemory, Build, Shrink, Allocate, Ended, vars
  <1>2. Inputs'
    BY <1>1 DEF Inputs
  <1>3. Stages' = Stages /\ Groups' = Groups
    BY <1>1, SameModel
  <1>4. CASE MakeGroups
    BY <1>2, <1>3, <1>4 DEF MakeGroups, Grouped, Admitted, Counted, Laid, Judged
  <1>5. ASSUME UNCHANGED groups
        PROVE  /\ \A s : /\ Tensors(s)' = Tensors(s) /\ Caches(s)' = Caches(s)
                         /\ PoolBytesPerBlock(s)' = PoolBytesPerBlock(s)
                         /\ MaxMemoryUsage(s)' = MaxMemoryUsage(s)
                         /\ Available(s)' = Available(s) /\ BlockCount(s)' = BlockCount(s)
               /\ {BlockCount(q) : q \in Stages}' = {BlockCount(q) : q \in Stages}
               /\ (pc # "group")' /\ pc # "group" => Grouped'
    <2>1. ASSUME NEW s
          PROVE  /\ Tensors(s)' = Tensors(s) /\ Caches(s)' = Caches(s)
                 /\ PoolBytesPerBlock(s)' = PoolBytesPerBlock(s)
                 /\ MaxMemoryUsage(s)' = MaxMemoryUsage(s)
                 /\ Available(s)' = Available(s) /\ BlockCount(s)' = BlockCount(s)
      BY <1>1, <1>5, SameStage, SameMemory
    <2>2. {BlockCount(q) : q \in Stages}' = {BlockCount(q) : q \in Stages}
      BY <1>3, <2>1
    <2>3. (pc # "group")' /\ pc # "group" => Grouped'
      BY <1>3, <1>5 DEF Grouped
    <2> QED
      BY <2>1, <2>2, <2>3
  <1>6. CASE CheckMemory
    <2>1. UNCHANGED <<groups, blocks, tensors>> /\ pc = "check"
          /\ pc' = IF \A s \in Stages : Available(s) > 0 /\ MaxMemoryUsage(s) <= Available(s)
                   THEN "build" ELSE "refused"
      BY <1>6 DEF CheckMemory
    <2>2. Grouped'
      BY <1>5, <2>1
    <2>3. Admitted'
      BY <1>3, <1>5, <2>1 DEF Admitted
    <2> QED
      BY <1>2, <2>1, <2>2, <2>3 DEF Counted, Laid, Judged
  <1>7. CASE Build
    <2>1. /\ UNCHANGED groups /\ pc = "build" /\ pc' = "shrink"
          /\ blocks' = [s \in Stages |-> BlockCount(s)]
          /\ tensors' = [s \in Stages |-> {[page |-> t.page, shared |-> t.shared,
                                            blocks |-> blocks'[s]] : t \in Tensors(s)}]
      BY <1>7 DEF Build, BlockCount
    <2>2. Grouped'
      BY <1>5, <2>1
    <2>3. Admitted'
      BY <1>3, <1>5, <2>1 DEF Admitted
    <2>4. Counted'
      BY <1>3, <1>5, <2>1 DEF Counted
    <2>5. \A s \in Stages : {t.shared : t \in tensors'[s]} = {t.shared : t \in Tensors(s)}
      <3> SUFFICES ASSUME NEW s \in Stages
                   PROVE  {t.shared : t \in tensors'[s]} = {t.shared : t \in Tensors(s)}
        OBVIOUS
      <3> DEFINE T == Tensors(s)
                 b == blocks'[s]
                 C(t) == [page |-> t.page, shared |-> t.shared, blocks |-> b]
      <3>1. tensors'[s] = {C(t) : t \in T}
        BY <2>1
      <3>2. \A t \in T : C(t).shared = t.shared
        OBVIOUS
      <3> HIDE DEF T, b, C
      <3>3. {u.shared : u \in {C(t) : t \in T}} = {t.shared : t \in T}
        BY <3>2
      <3> QED
        BY <3>1, <3>3 DEF T
    <2>6. Laid'
      BY <1>3, <1>5, <2>1, <2>5 DEF Laid
    <2> QED
      BY <1>2, <2>1, <2>2, <2>3, <2>4, <2>6 DEF Judged
  <1>8. CASE Shrink
    <2>1. /\ UNCHANGED groups /\ pc = "shrink" /\ pc' = "allocate"
          /\ blocks' = [s \in Stages |-> Min({blocks[q] : q \in Stages})]
          /\ tensors' = [s \in Stages |-> {[t EXCEPT !.blocks = blocks'[s]] : t \in tensors[s]}]
      BY <1>8 DEF Shrink
    <2>2. Grouped'
      BY <1>5, <2>1
    <2>3. Admitted'
      BY <1>3, <1>5, <2>1 DEF Admitted
    <2>4. Counted'
      <3>1. blocks = [s \in Stages |-> BlockCount(s)]
        BY <2>1 DEF Counted
      <3>2. {blocks[q] : q \in Stages} = {BlockCount(q) : q \in Stages}
        BY <3>1
      <3> QED
        BY <1>3, <1>5, <2>1, <3>2 DEF Counted
    <2>5. \A s \in Stages : {t.shared : t \in tensors'[s]} = {t.shared : t \in tensors[s]}
      <3> SUFFICES ASSUME NEW s \in Stages
                   PROVE  {t.shared : t \in tensors'[s]} = {t.shared : t \in tensors[s]}
        OBVIOUS
      <3> DEFINE T == tensors[s]
                 b == blocks'[s]
                 C(t) == [t EXCEPT !.blocks = b]
      <3>1. tensors'[s] = {C(t) : t \in T}
        BY <2>1
      <3>2. \A t \in T : C(t).shared = t.shared
        OBVIOUS
      <3> HIDE DEF T, b, C
      <3>3. {u.shared : u \in {C(t) : t \in T}} = {t.shared : t \in T}
        BY <3>2
      <3> QED
        BY <3>1, <3>3 DEF T
    <2>6. Laid'
      BY <1>3, <1>5, <2>1, <2>5 DEF Laid
    <2> QED
      BY <1>2, <2>1, <2>2, <2>3, <2>4, <2>6 DEF Judged
  <1>9. ASSUME UNCHANGED <<groups, blocks, tensors>>,
               pc = "allocate" => pc' \in {"serving", "failed"},
               pc # "allocate" => pc' = pc, Judged'
        PROVE  IInv'
    <2>1. Grouped'
      BY <1>3, <1>9 DEF Grouped
    <2>2. Admitted'
      BY <1>3, <1>5, <1>9 DEF Admitted
    <2>3. Counted'
      BY <1>3, <1>5, <1>9 DEF Counted
    <2>4. Laid'
      BY <1>3, <1>5, <1>9 DEF Laid
    <2> QED
      BY <1>2, <1>9, <2>1, <2>2, <2>3, <2>4
  <1>10. ASSUME UNCHANGED tensors PROVE \A s : Held(s)' = Held(s)
    BY <1>10 DEF Held
  <1>11. CASE Allocate
    <2>1. /\ UNCHANGED <<groups, blocks, tensors>> /\ pc = "allocate"
          /\ pc' = IF \A s \in Stages : Caches(s) = Held(s) THEN "serving" ELSE "failed"
      BY <1>11 DEF Allocate
    <2>2. \A s : Caches(s)' = Caches(s) /\ Held(s)' = Held(s)
      BY <1>5, <1>10, <2>1
    <2>3. Judged'
      BY <1>3, <2>1, <2>2 DEF Judged
    <2> QED
      BY <1>9, <2>1, <2>3
  <1>12. CASE UNCHANGED vars
    <2>1. UNCHANGED <<groups, blocks, tensors, pc>>
      BY <1>12 DEF vars
    <2>2. \A s : Caches(s)' = Caches(s) /\ Held(s)' = Held(s)
      BY <1>5, <1>10, <2>1
    <2>3. Judged'
      BY <1>3, <2>1, <2>2 DEF Judged
    <2>4. CASE pc = "allocate"
      <3>1. UNCHANGED pc
        BY <2>1
      <3>2. Grouped' /\ Counted'
        BY <1>3, <1>5, <2>1 DEF Grouped, Counted
      <3>3. Admitted' /\ Laid'
        BY <1>3, <1>5, <2>1 DEF Admitted, Laid
      <3> QED
        BY <1>2, <2>3, <3>2, <3>3
    <2>5. CASE pc # "allocate"
      BY <1>9, <2>1, <2>3, <2>5
    <2> QED
      BY <2>4, <2>5
  <1> QED
    BY <1>4, <1>6, <1>7, <1>8, <1>11, <1>12 DEF Next, Ended

(* Start-up computes what the functions it is made of say, from inputs     *)
(* that do not change: the groups of the whole model, a pool that holds    *)
(* the stage's own demand, the same number of blocks on every stage, the   *)
(* tensors that the projected groups give, and the worker's verdict.       *)
THEOREM Invariant == Spec => []IInv
  <1> QED
    BY InvInit, InvStep, PTL DEF Spec

(* No two caches that get_kv_cache_config_from_groups puts into one tensor *)
(* belong to the same group, for every model, cut and page size: layers    *)
(* that share a tensor never share a block.                                *)
THEOREM DisjointAlways == Spec => []SharersDisjoint
  <1> QED
    BY Invariant, Disjoint, PTL

-----------------------------------------------------------------------------
(* What the start-up check is worth.                                       *)

LEMMA DemandType ==
  ASSUME NEW S, IsFiniteSet(S)
  PROVE  BlocksNeeded(S) \in Nat
  <1> DEFINE K(k) == {g \in S : groups[g].kind = k}
             a == Cardinality(K("attn"))
             t == Cardinality(K("tail"))
             c == Cardinality(K("kda"))
  <1>1. \A k : K(k) \in SUBSET S
    OBVIOUS
  <1>2. BlocksNeeded(S) = MlaBlocks * a + t + StateBlocks * c
    BY DEF BlocksNeeded, BlocksOf
  <1> HIDE DEF K
  <1>3. \A k : IsFiniteSet(K(k))
    BY <1>1, FS_Subset
  <1>4. a \in Nat /\ t \in Nat /\ c \in Nat
    BY <1>3, FS_CardinalityType
  <1> HIDE DEF a, t, c
  <1>5. MlaBlocks \in Nat /\ StateBlocks \in Nat
    BY PageAssumption
  <1>6. MlaBlocks * a \in Nat /\ StateBlocks * c \in Nat
    BY <1>4, <1>5
  <1> QED
    BY <1>2, <1>4, <1>6

(* A request that ends a block earlier needs a block less: one group, that *)
(* of the sparse layers, grows with its length.                            *)
LEMMA Shorter ==
  ASSUME Inputs, groups = Groups, NEW s \in Stages, Active(s) = DOMAIN groups,
         NEW n \in 0 .. MlaBlocks - 1
  PROVE  /\ BlocksOf(DOMAIN groups, n) \in Nat
         /\ BlocksOf(DOMAIN groups, n) <= BlocksNeeded(DOMAIN groups) - 1
  <1> DEFINE K(k) == {g \in DOMAIN groups : groups[g].kind = k}
             a == Cardinality(K("attn"))
             t == Cardinality(K("tail"))
             c == Cardinality(K("kda"))
  <1>1. /\ BlocksOf(DOMAIN groups, n) = n * a + t + StateBlocks * c
        /\ BlocksNeeded(DOMAIN groups) = MlaBlocks * a + t + StateBlocks * c
    BY DEF BlocksNeeded, BlocksOf
  <1>2. a = 1
    <2>1. K("attn") = {1}
      BY KindFacts
    <2> QED
      BY <2>1, FS_Singleton
  <1>3. t \in Nat /\ c \in Nat
    <2>1. IsFiniteSet(DOMAIN groups)
      BY ActiveFacts
    <2>2. \A k : K(k) \in SUBSET DOMAIN groups
      OBVIOUS
    <2> HIDE DEF K
    <2>3. \A k : IsFiniteSet(K(k))
      BY <2>1, <2>2, FS_Subset
    <2> QED
      BY <2>3, FS_CardinalityType
  <1> DEFINE x == StateBlocks * c
  <1>4. MlaBlocks \in Nat \ {0} /\ x \in Nat
    BY <1>3, PageAssumption
  <1> HIDE DEF a, t, c, x
  <1>5. n * a = n /\ MlaBlocks * a = MlaBlocks
    BY <1>2, <1>4
  <1> QED
    BY <1>1, <1>3, <1>4, <1>5 DEF x

(* A stage that admits a demand has blocks for it.                         *)
LEMMA PoolHolds ==
  ASSUME NEW P \in Nat \ {0}, NEW F \in Nat, NEW m \in Nat, P * F <= m
  PROVE  F <= m \div P
  <1> DEFINE d == m \div P
             x == d * P
  <1>1. d \in Nat /\ x \in Nat /\ m < x + P
    BY Quotient
  <1>2. F * P \in Nat /\ F * P <= m
    OBVIOUS
  <1>3. F * P < x + P
    <2> DEFINE y == F * P
    <2> HIDE DEF x, y
    <2>1. y \in Nat /\ y <= m
      BY <1>2 DEF y
    <2>2. y < x + P
      BY <1>1, <2>1
    <2> QED
      BY <2>2 DEF y
  <1> HIDE DEF d
  <1> QED
    BY <1>1, <1>3, MultipleBelow

LEMMA OverrideHolds ==
  ASSUME NEW P \in Nat \ {0}, NEW F \in Nat, NEW o \in Nat, P * F <= o * P
  PROVE  F <= o
  <1>1. F * P < o * P + P
    OBVIOUS
  <1> QED
    BY <1>1, MultipleBelow

LEMMA StageHolds ==
  ASSUME IInv, pc = "serving", NEW q \in Stages, Active(q) = DOMAIN groups
  PROVE  /\ BlocksNeeded(DOMAIN groups) \in Nat /\ BlockCount(q) \in Nat
         /\ BlocksNeeded(DOMAIN groups) <= BlockCount(q)
  <1> DEFINE F == BlocksNeeded(DOMAIN groups)
             P == PoolBytesPerBlock(q)
  <1>1. Inputs /\ groups = Groups
    BY DEF IInv, Grouped
  <1>2. Available(q) > 0 /\ MaxMemoryUsage(q) <= Available(q)
    BY DEF IInv, Admitted
  <1>3. MaxMemoryUsage(q) = P * F
    BY DEF MaxMemoryUsage
  <1>4. F \in Nat
    <2>1. IsFiniteSet(DOMAIN groups)
      BY <1>1, ActiveFacts
    <2> QED
      BY <2>1, DemandType
  <1>5. P \in Nat \ {0}
    <2>1. 1 \in Active(q)
      BY <1>1, KindFacts
    <2>2. OfKind(q, "attn") # {} /\ LayersOf(q, "attn") = On(q, 1)
      BY <1>1, <2>1, ActiveFacts, OfKindLayers
    <2> DEFINE n == Len(On(q, 1))
               b == MlaPage + IndexPage
    <2>3. n \in Nat /\ n > 0
      BY <1>1, <2>1, ActiveFacts, OnFacts
    <2>4. b \in Nat \ {0}
      BY PageAssumption
    <2>5. P = n * b
      BY <2>2 DEF PoolBytesPerBlock
    <2> HIDE DEF n, b, P
    <2> QED
      BY <2>3, <2>4, <2>5
  <1> HIDE DEF F, P
  <1>6. override \in Nat /\ memory[q] \in Nat
    BY <1>1, ModelFacts DEF Inputs
  <1>7. CASE override > 0
    <2>1. Available(q) = override * P /\ BlockCount(q) = override
      BY <1>7 DEF Available, BlockCount, P
    <2>2. P * F <= override * P
      BY <1>2, <1>3, <2>1
    <2>3. F <= override
      BY <1>4, <1>5, <1>6, <2>2, OverrideHolds
    <2> QED
      BY <1>4, <1>6, <2>1, <2>3 DEF F
  <1>8. CASE ~ (override > 0)
    <2>1. Available(q) = memory[q] /\ BlockCount(q) = memory[q] \div P
      BY <1>8 DEF Available, BlockCount, P
    <2>2. P * F <= memory[q]
      BY <1>2, <1>3, <2>1
    <2>3. F <= memory[q] \div P
      BY <1>4, <1>5, <1>6, <2>2, PoolHolds
    <2>4. memory[q] \div P \in Nat
      BY <1>5, <1>6, Quotient
    <2> QED
      BY <1>4, <2>1, <2>3, <2>4 DEF F
  <1> QED
    BY <1>7, <1>8

LEMMA Fits == IInv => CheckedRequestFits
  <1> SUFFICES ASSUME IInv, pc = "serving", EveryGroupEverywhere, NEW s \in Stages,
                      NEW n \in 0 .. MlaBlocks - 1
               PROVE  BlocksOf(DOMAIN groups, n) <= blocks[s] - 1
    BY DEF CheckedRequestFits, Usable
  <1> DEFINE F == BlocksNeeded(DOMAIN groups)
             b == [q \in Stages |-> BlockCount(q)]
             S == {b[q] : q \in Stages}
  <1>1. \A q \in Stages : F \in Nat /\ BlockCount(q) \in Nat /\ F <= BlockCount(q)
    BY StageHolds DEF EveryGroupEverywhere
  <1>2. IsFiniteSet(S)
    <2>1. Stages = 1 .. Len(model.cut) /\ Len(model.cut) \in Nat
      BY ModelFacts DEF IInv
    <2>2. IsFiniteSet(Stages)
      BY <2>1, FS_Interval
    <2>3. b = [q \in Stages |-> b[q]]
      OBVIOUS
    <2> HIDE DEF b
    <2> QED
      BY <2>2, <2>3, FiniteImage
  <1>3. blocks[s] = Min(S)
    <2>1. blocks = [r \in Stages |-> Min({BlockCount(q) : q \in Stages})]
      BY DEF IInv, Counted
    <2>2. S = {BlockCount(q) : q \in Stages}
      OBVIOUS
    <2> QED
      BY <2>1, <2>2
  <1>4. \A x \in S : x \in Nat /\ F <= x
    BY <1>1
  <1>5. S # {}
    OBVIOUS
  <1> HIDE DEF S, F
  <1>6. S \in SUBSET Int
    BY <1>4
  <1>7. \E x \in S : \A y \in S : x <= y
    BY <1>2, <1>5, <1>6, Least
  <1>8. Min(S) \in S
    BY <1>7 DEF Min
  <1>9. F <= blocks[s] /\ blocks[s] \in Nat /\ F \in Nat
    <2>1. F \in Nat
      BY <1>1
    <2> QED
      BY <1>3, <1>4, <1>8, <2>1
  <1>10. BlocksOf(DOMAIN groups, n) \in Nat /\ BlocksOf(DOMAIN groups, n) <= F - 1
    BY Shorter DEF IInv, Grouped, EveryGroupEverywhere, F
  <1> QED
    BY <1>9, <1>10

(* The start-up check is worth a request that ends a block or more before  *)
(* max_model_len, when the cut gives every stage layers of every group: it *)
(* fits what the pool can hand out, which is a block less than it has, the *)
(* null block, whatever memory the stages have and whatever num_gpu_blocks *)
(* is overridden with.  (The check is made stage by stage, for the groups  *)
(* that are active there, and the pool is the smallest of the stages.)  A  *)
(* request of just max_model_len is not promised that: the check does not  *)
(* count the null block.                                                   *)
THEOREM FitsAlways == Spec => []CheckedRequestFits
  <1> QED
    BY Invariant, Fits, PTL

-----------------------------------------------------------------------------
(* What a stage caches, and what its tensors hold.                         *)

SparseCaches(s) == {"mla", "idx"} \X Range(On(s, 1))
TailCaches(s)   == IF model.tails THEN {"tail"} \X Range(On(s, 2)) ELSE {}
LinearCaches(s) ==
    UNION {{"kda"} \X Range(On(s, g)) : g \in {h \in DOMAIN groups : groups[h].kind = "kda"}}

Shared(s) == UNION {t.shared : t \in Tensors(s)}

LEMMA RangeOn ==
  ASSUME Inputs, groups = Groups, NEW s \in Stages, NEW g \in DOMAIN groups
  PROVE  /\ Range(On(s, g)) = {On(s, g)[k] : k \in DOMAIN On(s, g)}
         /\ DOMAIN On(s, g) \in SUBSET (Nat \ {0})
         /\ DOMAIN On(s, g) = 1 .. Len(On(s, g)) /\ Len(On(s, g)) \in Nat
         /\ g \notin Active(s) <=> Range(On(s, g)) = {}
  <1>1. On(s, g) \in Seq(Layers) /\ Len(On(s, g)) \in Nat
    BY OnFacts
  <1>2. DOMAIN On(s, g) = 1 .. Len(On(s, g))
    BY <1>1
  <1>3. g \in Active(s) <=> Len(On(s, g)) > 0
    BY ActiveFacts
  <1>4. Range(On(s, g)) = {On(s, g)[k] : k \in DOMAIN On(s, g)}
    BY DEF Range
  <1>5. g \notin Active(s) <=> DOMAIN On(s, g) = {}
    <2> DEFINE n == Len(On(s, g))
    <2> HIDE DEF n
    <2>0. n \in Nat
      BY <1>1 DEF n
    <2>1. n > 0 <=> 1 .. n # {}
      <3>1. n > 0 => 1 \in 1 .. n
        BY <2>0
      <3>2. ASSUME NEW k \in 1 .. n PROVE n > 0
        BY <2>0
      <3> QED
        BY <3>1, <3>2
    <2> QED
      BY <1>2, <1>3, <2>1 DEF n
  <1> QED
    BY <1>1, <1>2, <1>4, <1>5

LEMMA CachesAre ==
  ASSUME Inputs, groups = Groups, NEW s \in Stages
  PROVE  Caches(s) = SparseCaches(s) \cup TailCaches(s) \cup LinearCaches(s)
  <1> DEFINE C(g) == CASE groups[g].kind = "attn" -> {"mla", "idx"} \X Range(On(s, g))
                       [] groups[g].kind = "tail" -> {"tail"} \X Range(On(s, g))
                       [] groups[g].kind = "kda"  -> {"kda"} \X Range(On(s, g))
  <1>1. Caches(s) = UNION {C(g) : g \in Active(s)}
    BY DEF Caches, On
  <1>2. /\ 1 \in DOMAIN groups /\ (model.tails => 2 \in DOMAIN groups)
        /\ \A g \in DOMAIN groups : /\ groups[g].kind = "attn" <=> g = 1
                                    /\ groups[g].kind = "tail" <=> model.tails /\ g = 2
                                    /\ groups[g].kind \in {"attn", "tail", "kda"}
    <2>1. \A g \in DOMAIN groups : groups[g] \in Group
      BY KindFacts
    <2>2. \A g \in DOMAIN groups : groups[g].kind \in {"attn", "tail", "kda"}
      BY <2>1 DEF Group
    <2> QED
      BY <2>2, KindFacts
  <1>3. ASSUME NEW g \in DOMAIN groups, g \notin Active(s)
        PROVE  C(g) = {}
    <2>1. Range(On(s, g)) = {}
      BY <1>3, RangeOn
    <2> QED
      BY <1>2, <2>1
  <1>4. Active(s) \in SUBSET DOMAIN groups
    BY ActiveFacts
  <1>5. C(1) = SparseCaches(s)
    BY <1>2 DEF SparseCaches
  <1>6. TailCaches(s) = IF model.tails THEN C(2) ELSE {}
    BY <1>2 DEF TailCaches
  <1>7. \A g \in DOMAIN groups : groups[g].kind = "kda" => C(g) = {"kda"} \X Range(On(s, g))
    BY <1>2
  <1>8. LinearCaches(s) = UNION {C(g) : g \in {h \in DOMAIN groups : groups[h].kind = "kda"}}
    <2> HIDE DEF C
    <2> QED
      BY <1>7 DEF LinearCaches
  <1> HIDE DEF C
  <1>9. Caches(s) = UNION {C(g) : g \in DOMAIN groups}
    BY <1>1, <1>3, <1>4
  <1>10. ASSUME NEW x
         PROVE  x \in Caches(s) <=> x \in SparseCaches(s) \/ x \in TailCaches(s) \/ x \in LinearCaches(s)
    <2>1. x \in Caches(s) <=> \E g \in DOMAIN groups : x \in C(g)
      BY <1>9
    <2>2. x \in LinearCaches(s) <=> \E g \in DOMAIN groups : groups[g].kind = "kda" /\ x \in C(g)
      BY <1>8
    <2>3. x \in TailCaches(s) <=> model.tails /\ x \in C(2)
      BY <1>6
    <2> QED
      BY <1>2, <1>5, <2>1, <2>2, <2>3
  <1> QED
    BY <1>10

(* The rows of a stage hold the linear layers they have a place for.       *)
LEMMA RowsHold ==
  ASSUME Inputs, groups = Groups, NEW s \in Stages, NEW p \in Nat, NEW x
  PROVE  x \in UNION {Row(s, i) : i \in 1 .. p} <=>
            \E g \in DOMAIN groups :
               /\ groups[g].kind = "kda"
               /\ \E k \in DOMAIN On(s, g) : k <= p /\ x = <<"kda", On(s, g)[k]>>
  <1>1. \A i \in 1 .. p : i \in Nat \ {0} /\ i <= p
    OBVIOUS
  <1>2. \A g \in DOMAIN groups : \A k \in DOMAIN On(s, g) : k \in Nat \ {0} /\ (k <= p => k \in 1 .. p)
    <2> SUFFICES ASSUME NEW g \in DOMAIN groups, NEW k \in DOMAIN On(s, g)
                 PROVE  k \in Nat \ {0} /\ (k <= p => k \in 1 .. p)
      OBVIOUS
    <2>1. k \in Nat \ {0}
      BY RangeOn
    <2> QED
      BY <2>1
  <1>3. \A i \in Nat \ {0} : x \in Row(s, i) <=>
            \E g \in DOMAIN groups : /\ groups[g].kind = "kda" /\ i \in DOMAIN On(s, g)
                                     /\ x = <<"kda", On(s, g)[i]>>
    BY RowFacts
  <1> QED
    BY <1>1, <1>2, <1>3

LEMMA LinearIn ==
  ASSUME Inputs, groups = Groups, NEW s \in Stages, NEW x
  PROVE  x \in LinearCaches(s) <=>
            \E g \in DOMAIN groups :
               /\ groups[g].kind = "kda"
               /\ \E k \in DOMAIN On(s, g) : x = <<"kda", On(s, g)[k]>>
  <1>1. \A g \in DOMAIN groups : x \in {"kda"} \X Range(On(s, g)) <=>
                                    \E k \in DOMAIN On(s, g) : x = <<"kda", On(s, g)[k]>>
    <2> SUFFICES ASSUME NEW g \in DOMAIN groups
                 PROVE  x \in {"kda"} \X Range(On(s, g)) <=>
                           \E k \in DOMAIN On(s, g) : x = <<"kda", On(s, g)[k]>>
      OBVIOUS
    <2>1. Range(On(s, g)) = {On(s, g)[k] : k \in DOMAIN On(s, g)}
      BY RangeOn
    <2> QED
      BY <2>1
  <1> QED
    BY <1>1 DEF LinearCaches

LEMMA SharedSparse ==
  ASSUME Inputs, groups = Groups, NEW s \in Stages, 1 \in Active(s)
  PROVE  Shared(s) = SparseCaches(s) \cup TailCaches(s)
                       \cup UNION {Row(s, i) : i \in 1 .. Len(On(s, 1))}
  <1> DEFINE sparse == On(s, 1)
             D == DOMAIN sparse
  <1>1. 1 \in DOMAIN groups /\ D = 1 .. Len(sparse)
        /\ Range(sparse) = {sparse[i] : i \in D}
    <2>1. 1 \in DOMAIN groups
      BY KindFacts
    <2> QED
      BY <2>1, RangeOn
  <1>2. LayersOf(s, "attn") = sparse /\ OfKind(s, "attn") # {}
    BY OfKindLayers, ActiveFacts
  <1>3. model.tails => 2 \in Active(s) /\ On(s, 2) = sparse /\ 2 \in DOMAIN groups
    <2> SUFFICES ASSUME model.tails PROVE 2 \in Active(s) /\ On(s, 2) = sparse /\ 2 \in DOMAIN groups
      OBVIOUS
    <2>1. On(s, 2) = sparse /\ 2 \in DOMAIN groups
      BY TailFacts, KindFacts
    <2>2. Len(sparse) > 0
      BY <1>1, ActiveFacts
    <2>3. 2 \in Active(s)
      BY <2>1, <2>2, ActiveFacts
    <2> QED
      BY <2>1, <2>3
  <1>4. \A i \in D : Mates(s, i) = IF model.tails THEN {<<"tail", sparse[i]>>} ELSE {}
    <2>1. CASE model.tails
      <3>1. LayersOf(s, "tail") = sparse
        BY <1>3, <2>1, OfKindLayers
      <3>2. sparse # <<>>
        <4>1. Len(sparse) > 0
          BY <1>1, ActiveFacts
        <4> QED
          BY <4>1
      <3> QED
        BY <2>1, <3>1, <3>2 DEF Mates
    <2>2. CASE ~ model.tails
      <3>1. LayersOf(s, "tail") = <<>>
        BY <2>2, OfKindLayers
      <3> QED
        BY <2>2, <3>1 DEF Mates
    <2> QED
      BY <2>1, <2>2
  <1>5. Tensors(s) = {[page |-> MlaPage, shared |-> {<<"mla", sparse[i]>>} \cup Row(s, i)] : i \in D}
                     \cup {[page |-> IndexPage, shared |-> {<<"idx", sparse[i]>>} \cup Mates(s, i)] : i \in D}
    BY <1>2 DEF Tensors, SharedTensors
  <1>6. TailCaches(s) = IF model.tails THEN {"tail"} \X Range(sparse) ELSE {}
    BY <1>3 DEF TailCaches
  <1>7. SparseCaches(s) = {"mla", "idx"} \X Range(sparse)
    BY DEF SparseCaches
  <1> HIDE DEF sparse, D
  <1>8. ASSUME NEW x
        PROVE  x \in Shared(s) <=>
                  \E i \in D : \/ x = <<"mla", sparse[i]>> \/ x \in Row(s, i)
                               \/ x = <<"idx", sparse[i]>> \/ x \in Mates(s, i)
    <2>1. x \in Shared(s) <=> \E t \in Tensors(s) : x \in t.shared
      BY DEF Shared
    <2> DEFINE M(i) == [page |-> MlaPage, shared |-> {<<"mla", sparse[i]>>} \cup Row(s, i)]
               I(i) == [page |-> IndexPage, shared |-> {<<"idx", sparse[i]>>} \cup Mates(s, i)]
    <2>2. \A i : /\ M(i).shared = {<<"mla", sparse[i]>>} \cup Row(s, i)
                 /\ I(i).shared = {<<"idx", sparse[i]>>} \cup Mates(s, i)
      OBVIOUS
    <2>3. Tensors(s) = {M(i) : i \in D} \cup {I(i) : i \in D}
      BY <1>5
    <2> HIDE DEF M, I
    <2>4. (\E t \in Tensors(s) : x \in t.shared) <=> \E i \in D : x \in M(i).shared \/ x \in I(i).shared
      BY <2>3
    <2> QED
      BY <2>1, <2>2, <2>4
  <1>9. ASSUME NEW x
        PROVE  x \in Shared(s) <=> \/ x \in SparseCaches(s) \/ x \in TailCaches(s)
                                   \/ x \in UNION {Row(s, i) : i \in D}
    <2>1. x \in SparseCaches(s) <=> \E i \in D : x = <<"mla", sparse[i]>> \/ x = <<"idx", sparse[i]>>
      BY <1>1, <1>7 DEF sparse, D
    <2>2. x \in TailCaches(s) <=> \E i \in D : x \in Mates(s, i)
      <3>1. CASE model.tails
        <4>1. TailCaches(s) = {"tail"} \X {sparse[i] : i \in D}
          BY <1>1, <1>6, <3>1 DEF sparse, D
        <4>2. \A i \in D : Mates(s, i) = {<<"tail", sparse[i]>>}
          BY <1>4, <3>1
        <4> QED
          BY <4>1, <4>2
      <3>2. CASE ~ model.tails
        BY <1>4, <1>6, <3>2
      <3> QED
        BY <3>1, <3>2
    <2>3. x \in UNION {Row(s, i) : i \in D} <=> \E i \in D : x \in Row(s, i)
      OBVIOUS
    <2> QED
      BY <1>8, <2>1, <2>2, <2>3
  <1>10. D = 1 .. Len(On(s, 1))
    BY <1>1 DEF sparse, D
  <1> QED
    BY <1>9, <1>10

(* A stage without sparse layers has a row for every one of its layers.    *)
LEMMA SharedRows ==
  ASSUME Inputs, groups = Groups, NEW s \in Stages, 1 \notin Active(s)
  PROVE  Shared(s) = Caches(s)
  <1> DEFINE n == GroupSize(s)
  <1>1. SparseCaches(s) = {}
    <2>1. 1 \in DOMAIN groups
      BY KindFacts
    <2>2. Range(On(s, 1)) = {}
      BY <2>1, RangeOn
    <2> QED
      BY <2>2 DEF SparseCaches
  <1>2. TailCaches(s) = {}
    <2>1. CASE model.tails
      <3>1. On(s, 2) = On(s, 1)
        BY <2>1, TailFacts
      <3>2. Range(On(s, 1)) = {}
        BY KindFacts, RangeOn
      <3> QED
        BY <3>1, <3>2 DEF TailCaches
    <2> QED
      BY <2>1 DEF TailCaches
  <1>3. Caches(s) = LinearCaches(s)
    BY <1>1, <1>2, CachesAre
  <1>4. Tensors(s) = {[page |-> MlaPage, shared |-> Row(s, i)] : i \in 1 .. n}
    <2>1. OfKind(s, "attn") = {}
      BY ActiveFacts
    <2> QED
      BY <2>1 DEF Tensors, RowTensors
  <1> HIDE DEF n
  <1>5. Shared(s) = UNION {Row(s, i) : i \in 1 .. n}
    <2> DEFINE M(i) == [page |-> MlaPage, shared |-> Row(s, i)]
    <2>1. \A i : M(i).shared = Row(s, i)
      OBVIOUS
    <2>2. Tensors(s) = {M(i) : i \in 1 .. n}
      BY <1>4
    <2> HIDE DEF M
    <2> QED
      BY <2>1, <2>2 DEF Shared
  <1>6. CASE Active(s) = {}
    <2>1. \A i : Row(s, i) = {}
      BY <1>6 DEF Row, OfKind
    <2>2. Caches(s) = {}
      BY <1>6 DEF Caches
    <2> QED
      BY <1>5, <2>1, <2>2
  <1>7. CASE Active(s) # {}
    <2>1. n \in Nat /\ \A g \in Active(s) : Len(On(s, g)) <= n
      BY <1>7, SizeFacts DEF n
    <2>2. \A g \in DOMAIN groups : \A k \in DOMAIN On(s, g) : k <= n
      <3> SUFFICES ASSUME NEW g \in DOMAIN groups, NEW k \in DOMAIN On(s, g) PROVE k <= n
        OBVIOUS
      <3>1. DOMAIN On(s, g) = 1 .. Len(On(s, g)) /\ Len(On(s, g)) \in Nat
        BY RangeOn
      <3>2. g \in Active(s)
        BY RangeOn
      <3>3. Len(On(s, g)) <= n
        BY <2>1, <3>2
      <3> DEFINE m == Len(On(s, g))
      <3>4. k \in 1 .. m
        BY <3>1
      <3> HIDE DEF m
      <3>5. m \in Nat /\ m <= n
        BY <3>1, <3>3 DEF m
      <3> QED
        BY <2>1, <3>4, <3>5
    <2>3. ASSUME NEW x PROVE x \in Shared(s) <=> x \in LinearCaches(s)
      <3>1. x \in UNION {Row(s, i) : i \in 1 .. n} <=>
              \E g \in DOMAIN groups :
                 /\ groups[g].kind = "kda"
                 /\ \E k \in DOMAIN On(s, g) : k <= n /\ x = <<"kda", On(s, g)[k]>>
        BY <2>1, RowsHold
      <3>2. x \in LinearCaches(s) <=>
              \E g \in DOMAIN groups :
                 /\ groups[g].kind = "kda"
                 /\ \E k \in DOMAIN On(s, g) : x = <<"kda", On(s, g)[k]>>
        BY LinearIn
      <3> QED
        BY <1>5, <2>2, <3>1, <3>2
    <2> QED
      BY <1>3, <2>3
  <1> QED
    BY <1>6, <1>7

(* The tensors of a stage with sparse layers hold all it caches when none  *)
(* of its linear groups is longer than the list of those layers.           *)
LEMMA SharedShort ==
  ASSUME Inputs, groups = Groups, NEW s \in Stages, 1 \in Active(s)
  PROVE  Shared(s) = Caches(s) <=>
            \A g \in DOMAIN groups : groups[g].kind = "kda" => Len(On(s, g)) <= Len(On(s, 1))
  <1> DEFINE p == Len(On(s, 1))
             R == UNION {Row(s, i) : i \in 1 .. p}
  <1>1. p \in Nat
    BY KindFacts, RangeOn
  <1>2. Shared(s) = SparseCaches(s) \cup TailCaches(s) \cup R
    BY SharedSparse
  <1>3. Caches(s) = SparseCaches(s) \cup TailCaches(s) \cup LinearCaches(s)
    BY CachesAre
  <1> HIDE DEF p
  <1>4. ASSUME NEW x
        PROVE  x \in R <=> \E g \in DOMAIN groups :
                              /\ groups[g].kind = "kda"
                              /\ \E k \in DOMAIN On(s, g) : k <= p /\ x = <<"kda", On(s, g)[k]>>
    BY <1>1, RowsHold
  <1>5. ASSUME NEW x
        PROVE  x \in LinearCaches(s) <=>
                  \E g \in DOMAIN groups :
                     /\ groups[g].kind = "kda"
                     /\ \E k \in DOMAIN On(s, g) : x = <<"kda", On(s, g)[k]>>
    BY LinearIn
  <1> HIDE DEF R
  <1>6. ASSUME \A g \in DOMAIN groups : groups[g].kind = "kda" => Len(On(s, g)) <= p
        PROVE  Shared(s) = Caches(s)
    <2>1. ASSUME NEW g \in DOMAIN groups, groups[g].kind = "kda", NEW k \in DOMAIN On(s, g)
          PROVE  k <= p
      <3> DEFINE m == Len(On(s, g))
      <3>1. DOMAIN On(s, g) = 1 .. m /\ m \in Nat
        BY RangeOn
      <3>2. m <= p
        BY <1>6, <2>1
      <3> HIDE DEF m
      <3> QED
        BY <1>1, <3>1, <3>2
    <2>2. ASSUME NEW x PROVE x \in R <=> x \in LinearCaches(s)
      BY <1>4, <1>5, <2>1
    <2> QED
      BY <1>2, <1>3, <2>2
  <1>7. ASSUME NEW g \in DOMAIN groups, groups[g].kind = "kda", ~ (Len(On(s, g)) <= p),
               Shared(s) = Caches(s)
        PROVE  FALSE
    <2> DEFINE m == Len(On(s, g))
               x == <<"kda", On(s, g)[p + 1]>>
    <2>1. DOMAIN On(s, g) = 1 .. m /\ m \in Nat /\ p + 1 \in 1 .. m
      <3>1. DOMAIN On(s, g) = 1 .. m /\ m \in Nat
        BY RangeOn
      <3>2. ~ (m <= p)
        BY <1>7
      <3> HIDE DEF m
      <3> QED
        BY <1>1, <3>1, <3>2
    <2>2. x \in Shared(s)
      BY <1>3, <1>5, <1>7, <2>1
    <2>3. x \notin SparseCaches(s) /\ x \notin TailCaches(s)
      BY DEF SparseCaches, TailCaches
    <2>4. x \in R
      BY <1>2, <2>2, <2>3
    <2>5. PICK h \in DOMAIN groups :
             /\ groups[h].kind = "kda"
             /\ \E k \in DOMAIN On(s, h) : k <= p /\ x = <<"kda", On(s, h)[k]>>
      BY <1>4, <2>4
    <2>6. PICK k \in DOMAIN On(s, h) : k <= p /\ x = <<"kda", On(s, h)[k]>>
      BY <2>5
    <2>7. On(s, g)[p + 1] = On(s, h)[k] /\ p + 1 \in DOMAIN On(s, g)
      BY <2>1, <2>6
    <2>8. p + 1 = k
      BY <1>7, <2>5, <2>7, OnOnce
    <2> QED
      BY <1>1, <2>6, <2>8
  <1> QED
    BY <1>6, <1>7 DEF p

-----------------------------------------------------------------------------
(* The rule for a split, stage by stage.                                   *)

LinearOn(s) == {l \in LinearLayers : StageOf(l) = s}
SparseOn(s) == {l \in SparseLayers : StageOf(l) = s}

StageRule(s) == \/ SparseOn(s) = {}
                \/ Cardinality(LinearOn(s)) <= GroupCount * Cardinality(SparseOn(s))

LEMMA OnStage ==
  ASSUME Inputs, NEW s \in Stages
  PROVE  /\ IsFiniteSet(LinearOn(s)) /\ Cardinality(LinearOn(s)) \in Nat
         /\ IsFiniteSet(SparseOn(s)) /\ Cardinality(SparseOn(s)) \in Nat
         /\ SparseOn(s) # {} => LinearOn(s) \in SUBSET Sharing
  <1>1. LinearOn(s) \in SUBSET Layers /\ SparseOn(s) \in SUBSET Layers
    BY LayerFacts DEF LinearOn, SparseOn
  <1>2. IsFiniteSet(Layers)
    BY LayerFacts
  <1>3. IsFiniteSet(LinearOn(s)) /\ IsFiniteSet(SparseOn(s))
    BY <1>1, <1>2, FS_Subset
  <1>4. SparseOn(s) # {} => LinearOn(s) \in SUBSET Sharing
    BY DEF LinearOn, SparseOn, Sharing
  <1> QED
    BY <1>3, <1>4, FS_CardinalityType

(* The attention group has the sparse layers of a stage, each once.        *)
LEMMA SparseCount ==
  ASSUME Inputs, groups = Groups, NEW s \in Stages
  PROVE  /\ Len(On(s, 1)) = Cardinality(SparseOn(s))
         /\ 1 \in Active(s) <=> SparseOn(s) # {}
  <1> DEFINE L == groups[1].layers
             I == Places(s, 1)
             S == SparseOn(s)
             f == [i \in I |-> L[i]]
  <1>1. groups[1] = [kind |-> "attn", layers |-> InOrder(SparseLayers)] /\ 1 \in DOMAIN groups
    BY GroupsList, KindFacts
  <1>2. L = InOrder(SparseLayers)
    BY <1>1
  <1>3. /\ DOMAIN L = 1 .. Cardinality(SparseLayers)
        /\ \A i \in 1 .. Cardinality(SparseLayers) : L[i] \in SparseLayers
        /\ \A l \in SparseLayers : /\ Rank(l, SparseLayers) \in 1 .. Cardinality(SparseLayers)
                                   /\ L[Rank(l, SparseLayers)] = l
    <2>1. IsFiniteSet(SparseLayers) /\ SparseLayers \in SUBSET Int
      BY LayerFacts
    <2> HIDE DEF L
    <2> QED
      BY <1>2, <2>1, InOrderFacts
  <1>4. I = {i \in DOMAIN L : StageOf(L[i]) = s}
    BY DEF Places
  <1>5. \A i, j \in DOMAIN L : L[i] = L[j] => i = j
    BY <1>1, NoRepeats
  <1>6. Len(On(s, 1)) = Cardinality(I) /\ I \in SUBSET DOMAIN L /\ L \in Seq(Layers)
    BY <1>1, OnFacts
  <1> HIDE DEF L, I
  <1>7. f \in Surjection(I, S) /\ f \in Injection(I, S)
    <2>1. \A i \in I : L[i] \in S
      BY <1>3, <1>4 DEF SparseOn
    <2>2. \A l \in S : \E i \in I : L[i] = l
      BY <1>3, <1>4 DEF SparseOn
    <2>3. \A i, j \in I : L[i] = L[j] => i = j
      BY <1>5, <1>6
    <2> HIDE DEF S
    <2> QED
      BY <2>1, <2>2, <2>3 DEF Surjection, Injection, IsInjective
  <1>8. IsFiniteSet(I)
    <2>1. IsFiniteSet(1 .. Cardinality(SparseLayers))
      BY LayerFacts, FS_Interval
    <2> QED
      BY <1>3, <1>6, <2>1, FS_Subset
  <1> HIDE DEF f, S
  <1>9. Cardinality(S) = Cardinality(I)
    BY <1>7, <1>8, FS_Surjection
  <1>10. 1 \in Active(s) <=> Len(On(s, 1)) > 0
    BY <1>1, ActiveFacts
  <1>11. IsFiniteSet(S) /\ Cardinality(S) \in Nat
    BY OnStage DEF S
  <1>12. Cardinality(S) > 0 <=> S # {}
    BY <1>11, FS_EmptySet
  <1> QED
    BY <1>6, <1>9, <1>10, <1>12 DEF S

(* A linear layer of the stage has a group and a place in it.              *)
LEMMA PlaceOf ==
  ASSUME Inputs, groups = Groups, NEW s \in Stages, SparseOn(s) # {}, NEW l \in LinearOn(s)
  PROVE  \E n \in 1 .. GroupCount : \E k \in DOMAIN On(s, 1 + Tails + n) :
            /\ On(s, 1 + Tails + n)[k] = l
            /\ 1 + Tails + n \in DOMAIN groups /\ groups[1 + Tails + n].kind = "kda"
  <1>1. l \in LinearLayers /\ StageOf(l) = s /\ l \in Sharing
    BY OnStage DEF LinearOn
  <1>2. PICK g \in DOMAIN groups : /\ groups[g].kind = "kda"
                                   /\ \E i \in DOMAIN groups[g].layers : groups[g].layers[i] = l
    BY <1>1, LinearAll
  <1>3. PICK i \in DOMAIN groups[g].layers : groups[g].layers[i] = l
    BY <1>2
  <1>4. PICK k \in DOMAIN On(s, g) : On(s, g)[k] = l
    <2>1. StageOf(groups[g].layers[i]) = s
      BY <1>1, <1>3
    <2>2. \E k \in DOMAIN On(s, g) : On(s, g)[k] = groups[g].layers[i]
      BY <2>1, OnFacts
    <2> QED
      BY <1>3, <2>2
  <1>5. CASE \E n \in 1 .. GroupCount : g = 1 + Tails + n /\ groups[g].layers = Member(n)
    BY <1>2, <1>4, <1>5
  <1>6. CASE \E n \in 1 .. Cardinality(Solo) : groups[g].layers = <<InOrder(Solo)[n]>>
    <2>1. PICK n \in 1 .. Cardinality(Solo) : groups[g].layers = <<InOrder(Solo)[n]>>
      BY <1>6
    <2>2. InOrder(Solo)[n] \in Solo
      BY LayerFacts, InOrderFacts
    <2>3. l = InOrder(Solo)[n]
      BY <1>3, <2>1
    <2> QED
      BY <1>1, <2>2, <2>3, LayerFacts
  <1> QED
    BY <1>2, <1>5, <1>6, LinearGroups

(* When the rows are long enough, the stage keeps the rule.                *)
LEMMA ShortFew ==
  ASSUME Inputs, groups = Groups, NEW s \in Stages, SparseOn(s) # {},
         \A g \in DOMAIN groups : groups[g].kind = "kda" => Len(On(s, g)) <= Len(On(s, 1))
  PROVE  Cardinality(LinearOn(s)) <= GroupCount * Cardinality(SparseOn(s))
  <1> DEFINE p == Cardinality(SparseOn(s))
             G == GroupCount
             O(n) == On(s, 1 + Tails + n)
             P == (1 .. G) \X (1 .. p)
             f == [l \in LinearOn(s) |-> CHOOSE c \in P : c[2] \in DOMAIN O(c[1]) /\ O(c[1])[c[2]] = l]
  <1>1. p \in Nat /\ G \in Nat /\ Len(On(s, 1)) = p
    BY OnStage, CountFacts, SparseCount
  <1>2. ASSUME NEW l \in LinearOn(s)
        PROVE  \E c \in P : c[2] \in DOMAIN O(c[1]) /\ O(c[1])[c[2]] = l
    <2>1. PICK n \in 1 .. GroupCount : \E k \in DOMAIN O(n) :
             /\ O(n)[k] = l /\ 1 + Tails + n \in DOMAIN groups /\ groups[1 + Tails + n].kind = "kda"
      BY PlaceOf
    <2>2. PICK k \in DOMAIN O(n) :
             /\ O(n)[k] = l /\ 1 + Tails + n \in DOMAIN groups /\ groups[1 + Tails + n].kind = "kda"
      BY <2>1
    <2> DEFINE m == Len(O(n))
    <2>3. DOMAIN O(n) = 1 .. m /\ m \in Nat
      BY <2>2, RangeOn
    <2>4. m <= p
      BY <1>1, <2>2
    <2> HIDE DEF m, p, O
    <2>5. k \in 1 .. p
      BY <1>1, <2>3, <2>4
    <2>6. <<n, k>> \in P
      BY <2>5
    <2> QED
      BY <2>2, <2>6
  <1> HIDE DEF p, G, O
  <1>3. \A l \in LinearOn(s) : f[l] \in P /\ f[l][2] \in DOMAIN O(f[l][1]) /\ O(f[l][1])[f[l][2]] = l
    <2> HIDE DEF P
    <2> QED
      BY <1>2
  <1> HIDE DEF P
  <1>4. f \in Injection(LinearOn(s), P)
    <2>1. f \in [LinearOn(s) -> P]
      BY <1>3
    <2>2. ASSUME NEW l \in LinearOn(s), NEW m \in LinearOn(s), f[l] = f[m] PROVE l = m
      <3> HIDE DEF f
      <3> QED
        BY <1>3, <2>2
    <2> HIDE DEF f
    <2> QED
      BY <2>1, <2>2 DEF Injection, IsInjective
  <1> HIDE DEF f
  <1>5. IsFiniteSet(P) /\ Cardinality(P) = G * p
    <2>1. IsFiniteSet(1 .. G) /\ Cardinality(1 .. G) = G
      BY <1>1, FS_Interval
    <2>2. IsFiniteSet(1 .. p) /\ Cardinality(1 .. p) = p
      BY <1>1, FS_Interval
    <2>3. IsFiniteSet(P) /\ Cardinality(P) = Cardinality(1 .. G) * Cardinality(1 .. p)
      BY <2>1, <2>2, FS_Product DEF P
    <2> QED
      BY <2>1, <2>2, <2>3
  <1>6. Cardinality(LinearOn(s)) <= Cardinality(P)
    BY <1>4, <1>5, FS_Injection
  <1> QED
    BY <1>5, <1>6 DEF p, G

(* Layers of one stage are dealt one after the other.                      *)
LEMMA Convex ==
  ASSUME Inputs, NEW s \in Stages,
         NEW x \in 1 .. Cardinality(Sharing), NEW y \in 1 .. Cardinality(Sharing),
         StageOf(InOrder(Sharing)[x]) = s, StageOf(InOrder(Sharing)[y]) = s
  PROVE  y - x + 1 <= Cardinality(LinearOn(s))
  <1> DEFINE N == Cardinality(Sharing)
             A == InOrder(Sharing)
             f == [k \in x .. y |-> A[k]]
  <1>1. N \in Nat /\ IsFiniteSet(Sharing) /\ Sharing \in SUBSET Int /\ Sharing \in SUBSET LinearLayers
    BY LayerFacts
  <1>2. \A k \in 1 .. N : A[k] \in Sharing
    BY <1>1, InOrderFacts
  <1>3. \A i, j \in 1 .. N : (i < j <=> A[i] < A[j]) /\ (i = j <=> A[i] = A[j])
    BY <1>1, InOrderStrict
  <1>4. StageOf(A[x]) = s /\ StageOf(A[y]) = s
    OBVIOUS
  <1>5. LinearLayers \in SUBSET Layers
    BY LayerFacts
  <1>6. s \in Nat
    BY ModelFacts
  <1> HIDE DEF N, A
  <1>7. x \in 1 .. N /\ y \in 1 .. N
    BY DEF N
  <1>8. ASSUME NEW k \in x .. y PROVE k \in 1 .. N /\ A[k] \in LinearOn(s)
    <2>1. k \in 1 .. N /\ x <= k /\ k <= y /\ x \in Int /\ y \in Int /\ k \in Int
      BY <1>1, <1>7
    <2>2. A[x] \in Sharing /\ A[k] \in Sharing /\ A[y] \in Sharing
      BY <1>2, <1>7, <2>1
    <2>3. A[x] \in Int /\ A[k] \in Int /\ A[y] \in Int
      BY <1>1, <2>2
    <2>4. A[x] <= A[k]
      BY <1>3, <1>7, <2>1, <2>3
    <2>5. A[k] <= A[y]
      BY <1>3, <1>7, <2>1, <2>3
    <2>6. A[x] \in LinearLayers /\ A[k] \in LinearLayers /\ A[y] \in LinearLayers
      BY <1>1, <2>2
    <2>7. StageOf(A[x]) <= StageOf(A[k]) /\ StageOf(A[k]) <= StageOf(A[y])
      BY <2>4, <2>5, <2>6, StageFacts
    <2>8. StageOf(A[k]) \in Stages
      BY <1>5, <2>6, StageFacts
    <2>9. StageOf(A[k]) \in Nat
      BY <2>8, ModelFacts
    <2>10. StageOf(A[k]) = s
      BY <1>4, <1>6, <2>7, <2>9
    <2> QED
      BY <2>1, <2>6, <2>10 DEF LinearOn
  <1>9. f \in Injection(x .. y, LinearOn(s))
    <2>1. f \in [x .. y -> LinearOn(s)]
      BY <1>8
    <2>2. \A i, j \in x .. y : f[i] = f[j] => i = j
      BY <1>3, <1>8
    <2> HIDE DEF f
    <2> QED
      BY <2>1, <2>2 DEF Injection, IsInjective
  <1> HIDE DEF f
  <1>10. IsFiniteSet(LinearOn(s)) /\ Cardinality(LinearOn(s)) \in Nat
    BY OnStage
  <1>11. Cardinality(x .. y) <= Cardinality(LinearOn(s))
    BY <1>9, <1>10, FS_Injection
  <1>12. x \in Int /\ y \in Int
    BY <1>1, <1>7
  <1>13. Cardinality(x .. y) = IF x > y THEN 0 ELSE y - x + 1
    BY <1>12, FS_Interval
  <1>14. CASE x > y
    BY <1>10, <1>12, <1>14
  <1>15. CASE ~ (x > y)
    BY <1>11, <1>13, <1>15
  <1> QED
    BY <1>14, <1>15

(* So many cards in a row give a player at most p of them.                 *)
LEMMA DealSpan ==
  ASSUME NEW G \in Nat \ {0}, NEW p \in Nat \ {0}, NEW n \in Nat,
         NEW i \in Nat \ {0}, NEW j \in Nat \ {0}, i <= j,
         (n + (j - 1) * G) - (n + (i - 1) * G) + 1 <= G * p
  PROVE  j - i + 1 <= p
  <1> DEFINE k == j - i
             q == p - 1
             x == k * G
             y == q * G
  <1>1. k \in Nat /\ q \in Nat
    OBVIOUS
  <1>2. (j - 1) * G - (i - 1) * G = x
    <2>1. j - 1 = (i - 1) + k
      OBVIOUS
    <2>2. (j - 1) * G = (i - 1) * G + k * G
      BY <1>1, <2>1
    <2> QED
      BY <1>1, <2>2
  <1>3. G * p = y + G
    OBVIOUS
  <1> DEFINE a == (i - 1) * G
             b == (j - 1) * G
             c == G * p
  <1>4. a \in Nat /\ b \in Nat /\ (n + b) - (n + a) + 1 <= c /\ x \in Nat /\ y \in Nat
    BY <1>1
  <1>5. b - a = x /\ c = y + G
    BY <1>2, <1>3
  <1> HIDE DEF a, b, c, x, y
  <1>6. x < y + G
    BY <1>4, <1>5
  <1>7. k <= q
    <2> HIDE DEF k, q
    <2> QED
      BY <1>1, <1>6, MultipleBelow DEF x, y
  <1> QED
    BY <1>7

(* A stage that keeps the rule has rows that are long enough.              *)
LEMMA FewShort ==
  ASSUME Inputs, groups = Groups, NEW s \in Stages, SparseOn(s) # {},
         Cardinality(LinearOn(s)) <= GroupCount * Cardinality(SparseOn(s)),
         NEW g \in DOMAIN groups, groups[g].kind = "kda"
  PROVE  Len(On(s, g)) <= Len(On(s, 1))
  <1> DEFINE p == Cardinality(SparseOn(s))
             G == GroupCount
             I == Places(s, g)
  <1>1. p \in Nat \ {0} /\ G \in Nat /\ Len(On(s, 1)) = p
    <2>1. p \in Nat /\ IsFiniteSet(SparseOn(s))
      BY OnStage
    <2>2. p # 0
      BY <2>1, FS_EmptySet
    <2> QED
      BY <2>1, <2>2, CountFacts, SparseCount
  <1>2. /\ groups[g].layers \in Seq(Layers) /\ I \in SUBSET DOMAIN groups[g].layers
        /\ Len(On(s, g)) = Cardinality(I)
    BY OnFacts
  <1>3. \A i \in I : i \in DOMAIN groups[g].layers /\ StageOf(groups[g].layers[i]) = s
    BY DEF Places
  <1>4. IsFiniteSet(I) /\ I \in SUBSET Int
    BY <1>2, AtFacts
  <1> HIDE DEF p, G, I
  <1>5. CASE I = {}
    <2>1. Cardinality(I) = 0
      BY <1>5, FS_EmptySet
    <2> QED
      BY <1>1, <1>2, <2>1
  <1>6. CASE I # {} /\ \E n \in 1 .. Cardinality(Solo) : groups[g].layers = <<InOrder(Solo)[n]>>
    <2>1. PICK n \in 1 .. Cardinality(Solo) : groups[g].layers = <<InOrder(Solo)[n]>>
      BY <1>6
    <2>2. InOrder(Solo)[n] \in Solo
      BY LayerFacts, InOrderFacts
    <2>3. PICK i \in I : TRUE
      BY <1>6
    <2>4. groups[g].layers[i] = InOrder(Solo)[n]
      BY <1>3, <2>1, <2>3
    <2>5. StageOf(InOrder(Solo)[n]) = s
      BY <1>3, <2>3, <2>4
    <2>6. InOrder(Solo)[n] \in LinearOn(s)
      BY <2>2, <2>5, LayerFacts DEF LinearOn
    <2> QED
      BY <2>2, <2>6, OnStage, LayerFacts
  <1>7. CASE I # {} /\ \E n \in 1 .. GroupCount : groups[g].layers = Member(n)
    <2>1. PICK n \in 1 .. GroupCount : groups[g].layers = Member(n)
      BY <1>7
    <2>2. PICK a \in I : \A i \in I : a <= i
      BY <1>4, <1>7, Least
    <2>3. PICK b \in I : \A i \in I : i <= b
      BY <1>4, <1>7, Greatest
    <2>4. /\ Member(n) \in Seq(Sharing)
          /\ \A i \in Nat \ {0} :
                /\ i \in DOMAIN Member(n) <=> n + (i - 1) * GroupCount \in 1 .. Cardinality(Sharing)
                /\ i \in DOMAIN Member(n) =>
                     Member(n)[i] = InOrder(Sharing)[n + (i - 1) * GroupCount]
      BY MemberFacts
    <2>5. \A i \in I : i \in Nat \ {0} /\ i \in DOMAIN Member(n) /\ StageOf(Member(n)[i]) = s
      <3>1. \A i \in I : i \in DOMAIN Member(n) /\ StageOf(Member(n)[i]) = s
        BY <1>3, <2>1
      <3>2. DOMAIN Member(n) \in SUBSET (Nat \ {0})
        BY <2>4
      <3> QED
        BY <3>1, <3>2
    <2> DEFINE x == n + (a - 1) * GroupCount
               y == n + (b - 1) * GroupCount
    <2>6. /\ x \in 1 .. Cardinality(Sharing) /\ y \in 1 .. Cardinality(Sharing)
          /\ StageOf(InOrder(Sharing)[x]) = s /\ StageOf(InOrder(Sharing)[y]) = s
      BY <2>2, <2>3, <2>4, <2>5
    <2>7. y - x + 1 <= Cardinality(LinearOn(s))
      <3> HIDE DEF x, y
      <3> QED
        BY <2>6, Convex
    <2>8. a \in Nat \ {0} /\ b \in Nat \ {0} /\ a <= b
      BY <2>2, <2>3, <2>5
    <2>9. G \in Nat \ {0} /\ n \in Nat
      BY <1>1 DEF G
    <2>10. y - x + 1 <= G * p
      <3>1. Cardinality(LinearOn(s)) \in Nat /\ Cardinality(LinearOn(s)) <= G * p
        BY OnStage DEF G, p
      <3>2. x \in Int /\ y \in Int
        BY <2>6, LayerFacts
      <3>3. G * p \in Nat
        BY <1>1
      <3> DEFINE c == Cardinality(LinearOn(s))
                 d == G * p
      <3>4. y - x + 1 <= c /\ c <= d /\ c \in Nat /\ d \in Nat
        BY <2>7, <3>1, <3>3
      <3> HIDE DEF x, y, c, d
      <3>5. y - x + 1 <= d
        BY <3>2, <3>4
      <3> QED
        BY <3>5 DEF d
    <2>11. b - a + 1 <= p
      <3>1. (n + (b - 1) * G) - (n + (a - 1) * G) + 1 <= G * p
        BY <2>10 DEF G
      <3> QED
        BY <1>1, <2>8, <2>9, <3>1, DealSpan
    <2>12. I \in SUBSET (a .. b)
      <3>1. \A i \in I : i \in Int /\ a <= i /\ i <= b
        BY <1>4, <2>2, <2>3
      <3> QED
        BY <2>8, <3>1
    <2>13. IsFiniteSet(a .. b) /\ Cardinality(a .. b) = b - a + 1
      <3>1. a \in Int /\ b \in Int /\ ~ (a > b)
        BY <2>8
      <3> QED
        BY <3>1, FS_Interval
    <2>14. Cardinality(I) <= Cardinality(a .. b) /\ Cardinality(I) \in Nat
      BY <1>4, <2>12, <2>13, FS_Subset, FS_CardinalityType
    <2>15. Cardinality(I) <= p
      BY <1>1, <2>8, <2>11, <2>13, <2>14
    <2> QED
      BY <1>1, <1>2, <2>15
  <1> QED
    BY <1>5, <1>6, <1>7, LinearGroups

(* A stage's tensors hold all its caches exactly when it keeps the rule.   *)
LEMMA RuleExact ==
  ASSUME Inputs, groups = Groups, NEW s \in Stages
  PROVE  Shared(s) = Caches(s) <=> StageRule(s)
  <1>1. 1 \in Active(s) <=> SparseOn(s) # {}
    BY SparseCount
  <1>2. CASE SparseOn(s) = {}
    BY <1>1, <1>2, SharedRows DEF StageRule
  <1>3. CASE SparseOn(s) # {}
    <2>1. Shared(s) = Caches(s) <=>
            \A g \in DOMAIN groups : groups[g].kind = "kda" => Len(On(s, g)) <= Len(On(s, 1))
      BY <1>1, <1>3, SharedShort
    <2>2. StageRule(s) <=> Cardinality(LinearOn(s)) <= GroupCount * Cardinality(SparseOn(s))
      BY <1>3 DEF StageRule
    <2>3. ASSUME \A g \in DOMAIN groups : groups[g].kind = "kda" => Len(On(s, g)) <= Len(On(s, 1))
          PROVE  Cardinality(LinearOn(s)) <= GroupCount * Cardinality(SparseOn(s))
      BY <1>3, <2>3, ShortFew
    <2>4. ASSUME Cardinality(LinearOn(s)) <= GroupCount * Cardinality(SparseOn(s)),
                 NEW g \in DOMAIN groups, groups[g].kind = "kda"
          PROVE  Len(On(s, g)) <= Len(On(s, 1))
      BY <1>3, <2>4, FewShort
    <2> QED
      BY <2>1, <2>2, <2>3, <2>4
  <1> QED
    BY <1>2, <1>3

LEMMA ByRule == IInv => StartsByRule
  <1> SUFFICES ASSUME IInv, pc \in {"serving", "failed"}
               PROVE  pc = "serving" <=> RuleHolds
    BY DEF StartsByRule
  <1>1. Inputs /\ groups = Groups
    BY DEF IInv, Grouped
  <1>2. \A s \in Stages : {t.shared : t \in tensors[s]} = {t.shared : t \in Tensors(s)}
    BY DEF IInv, Laid
  <1>3. \A s \in Stages : Held(s) = Shared(s)
    BY <1>2 DEF Held, Shared
  <1>4. \A s \in Stages : Caches(s) = Held(s) <=> StageRule(s)
    BY <1>1, <1>3, RuleExact
  <1>5. RuleHolds <=> \A s \in Stages : StageRule(s)
    BY DEF RuleHolds, StageRule, LinearOn, SparseOn
  <1>6. pc = "serving" => \A s \in Stages : Caches(s) = Held(s)
    BY DEF IInv, Judged
  <1>7. pc = "failed" => \E s \in Stages : Caches(s) # Held(s)
    BY DEF IInv, Judged
  <1> QED
    BY <1>4, <1>5, <1>6, <1>7

(* The documented rule for a pipeline split is exact: the workers start if *)
(* and only if every stage with sparse layers carries at most num_groups   *)
(* linear layers for each of them. The groups are dealt round robin over   *)
(* the whole model and cut afterwards, so this holds for every number of   *)
(* layers, every arrangement of the two kinds and every cut.               *)
THEOREM RuleAlways == Spec => []StartsByRule
  <1> QED
    BY Invariant, ByRule, PTL
=============================================================================
