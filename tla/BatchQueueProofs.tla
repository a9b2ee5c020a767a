------------------------- MODULE BatchQueueProofs -------------------------
(***************************************************************************)
(* Proofs about BatchQueue, for any requests, batch queue, blocks, model   *)
(* length and number of drafts, aborts and pauses: the invariant of        *)
(* BatchQueueInv is inductive, and the safety properties follow from it.   *)
(* So are those of PipelineStagesInv: without drafts, that the first       *)
(* pipeline stage computes from the requests' own text; with drafts, while *)
(* nobody is preempted, that the two stages agree on every broadcast.      *)
(*                                                                         *)
(* A lemma named ...Life says that one request and its entries are in      *)
(* order after an action that concerns it, one named ...Step that an       *)
(* action of the specification preserves the invariant, one named ...Stage *)
(* or ...Broadcast that it preserves the pipeline stages'.                 *)
(***************************************************************************)
EXTENDS PipelineStagesInv, FiniteSetTheorems, SequenceTheorems, WellFoundedInduction, TLAPS

-----------------------------------------------------------------------------
(***************************************************************************)
(* Lists without repetitions.                                              *)
(***************************************************************************)

(* The members of a list are what is at its places.                        *)
LEMMA IdsSeq ==
  ASSUME NEW T, NEW s \in Seq(T)
  PROVE  Ids(s) \subseteq T /\ DOMAIN s = 1 .. Len(s) /\ Len(s) \in Nat
         /\ \A x : x \in Ids(s) <=> \E i \in DOMAIN s : s[i] = x
  BY DEF Ids

(* The empty list has none and repeats none.                               *)
LEMMA IdsEmpty == Ids(<<>>) = {} /\ Once(<<>>)
  BY DEF Ids, Once

(* A list with a new member at its end, as append() leaves it.             *)
LEMMA IdsAppend ==
  ASSUME NEW T, NEW s \in Seq(T), NEW x \in T
  PROVE  /\ Append(s, x) \in Seq(T)
         /\ Ids(Append(s, x)) = Ids(s) \cup {x}
         /\ Once(s) /\ x \notin Ids(s) => Once(Append(s, x))
  <1>1. Append(s, x) \in Seq(T) /\ Len(Append(s, x)) = Len(s) + 1
    OBVIOUS
  <1>2. \A i \in 1 .. Len(s) + 1 : Append(s, x)[i] = IF i = Len(s) + 1 THEN x ELSE s[i]
    OBVIOUS
  <1>3. Ids(Append(s, x)) = Ids(s) \cup {x}
    <2>1. \A y \in Ids(s) : y \in Ids(Append(s, x))
      BY <1>1, <1>2 DEF Ids
    <2>2. x \in Ids(Append(s, x))
      BY <1>1, <1>2 DEF Ids
    <2> QED
      BY <1>1, <1>2, <2>1, <2>2 DEF Ids
  <1>4. ASSUME Once(s), x \notin Ids(s) PROVE Once(Append(s, x))
    BY <1>1, <1>2, <1>4 DEF Once, Ids
  <1> QED
    BY <1>1, <1>3, <1>4

(* Two lists without a common member, one before the other.                *)
LEMMA IdsConcat ==
  ASSUME NEW T, NEW s \in Seq(T), NEW t \in Seq(T)
  PROVE  /\ s \o t \in Seq(T)
         /\ Ids(s \o t) = Ids(s) \cup Ids(t)
         /\ Once(s) /\ Once(t) /\ Ids(s) \cap Ids(t) = {} => Once(s \o t)
  <1>1. s \o t \in Seq(T) /\ Len(s \o t) = Len(s) + Len(t)
    OBVIOUS
  <1>2. \A i \in 1 .. Len(s) + Len(t) :
          (s \o t)[i] = IF i <= Len(s) THEN s[i] ELSE t[i - Len(s)]
    OBVIOUS
  <1>3. Ids(s \o t) = Ids(s) \cup Ids(t)
    <2>1. \A y \in Ids(s) : y \in Ids(s \o t)
      BY <1>1, <1>2 DEF Ids
    <2>2. ASSUME NEW j \in 1 .. Len(t) PROVE t[j] \in Ids(s \o t)
      <3>1. j + Len(s) \in 1 .. Len(s) + Len(t) /\ (s \o t)[j + Len(s)] = t[j]
        BY <1>2
      <3> QED
        BY <1>1, <3>1 DEF Ids
    <2>3. ASSUME NEW i \in 1 .. Len(s) + Len(t) PROVE (s \o t)[i] \in Ids(s) \cup Ids(t)
      <3>1. CASE i <= Len(s)
        BY <1>2, <3>1 DEF Ids
      <3>2. CASE i > Len(s)
        <4>1. i - Len(s) \in 1 .. Len(t) /\ (s \o t)[i] = t[i - Len(s)]
          BY <1>2, <3>2
        <4> QED
          BY <4>1 DEF Ids
      <3> QED
        BY <3>1, <3>2
    <2> QED
      BY <1>1, <2>1, <2>2, <2>3 DEF Ids
  <1>4. ASSUME Once(s), Once(t), Ids(s) \cap Ids(t) = {} PROVE Once(s \o t)
    <2> SUFFICES ASSUME NEW i \in 1 .. Len(s) + Len(t), NEW j \in 1 .. Len(s) + Len(t),
                        (s \o t)[i] = (s \o t)[j]
                 PROVE  i = j
      BY <1>1 DEF Once
    <2>1. CASE i <= Len(s) /\ j <= Len(s)
      BY <1>2, <1>4, <2>1 DEF Once
    <2>2. CASE i > Len(s) /\ j > Len(s)
      <3>1. i - Len(s) \in DOMAIN t /\ j - Len(s) \in DOMAIN t
        BY <2>2
      <3>2. t[i - Len(s)] = t[j - Len(s)]
        BY <1>2, <2>2
      <3>3. i - Len(s) = j - Len(s)
        BY <1>4, <3>1, <3>2 DEF Once
      <3> QED
        BY <3>3
    <2>3. CASE i <= Len(s) /\ j > Len(s)
      <3>1. s[i] \in Ids(s) /\ t[j - Len(s)] \in Ids(t)
        BY <2>3 DEF Ids
      <3>2. s[i] = t[j - Len(s)]
        BY <1>2, <2>3
      <3> QED
        BY <1>4, <3>1, <3>2
    <2>4. CASE i > Len(s) /\ j <= Len(s)
      <3>1. s[j] \in Ids(s) /\ t[i - Len(s)] \in Ids(t)
        BY <2>4 DEF Ids
      <3>2. s[j] = t[i - Len(s)]
        BY <1>2, <2>4
      <3> QED
        BY <1>4, <3>1, <3>2
    <2> QED
      BY <2>1, <2>2, <2>3, <2>4
  <1> QED
    BY <1>1, <1>3, <1>4

(* A list without its first member, as pop_request() leaves it.            *)
LEMMA IdsTail ==
  ASSUME NEW T, NEW s \in Seq(T), s # <<>>, Once(s)
  PROVE  /\ Tail(s) \in Seq(T) /\ Head(s) \in T
         /\ Head(s) \in Ids(s)
         /\ Ids(Tail(s)) = Ids(s) \ {Head(s)}
         /\ Once(Tail(s))
  <1>1. Tail(s) \in Seq(T) /\ Len(Tail(s)) = Len(s) - 1 /\ Len(s) \in Nat \ {0} /\ Head(s) = s[1]
    OBVIOUS
  <1>2. \A i \in 1 .. Len(s) - 1 : Tail(s)[i] = s[i + 1]
    OBVIOUS
  <1>3. Head(s) \in Ids(s) /\ Head(s) \in T
    BY <1>1 DEF Ids
  <1>4. Ids(Tail(s)) \subseteq Ids(s) \ {Head(s)}
    <2> SUFFICES ASSUME NEW i \in 1 .. Len(s) - 1
                 PROVE  Tail(s)[i] \in Ids(s) /\ Tail(s)[i] # s[1]
      BY <1>1 DEF Ids
    <2>1. i + 1 \in DOMAIN s /\ i + 1 # 1 /\ 1 \in DOMAIN s /\ Tail(s)[i] = s[i + 1]
      BY <1>1, <1>2
    <2> QED
      BY <2>1 DEF Once, Ids
  <1>5. Ids(s) \ {Head(s)} \subseteq Ids(Tail(s))
    <2> SUFFICES ASSUME NEW i \in 1 .. Len(s), s[i] # s[1] PROVE s[i] \in Ids(Tail(s))
      BY <1>1 DEF Ids
    <2>1. i - 1 \in 1 .. Len(s) - 1
      BY <1>1
    <2>2. Tail(s)[i - 1] = s[i]
      BY <1>2, <2>1
    <2> QED
      BY <1>1, <2>1, <2>2 DEF Ids
  <1>6. Once(Tail(s))
    <2> SUFFICES ASSUME NEW i \in 1 .. Len(s) - 1, NEW j \in 1 .. Len(s) - 1, Tail(s)[i] = Tail(s)[j]
                 PROVE  i = j
      BY <1>1 DEF Once
    <2>1. i + 1 \in DOMAIN s /\ j + 1 \in DOMAIN s /\ s[i + 1] = s[j + 1]
      BY <1>1, <1>2
    <2>2. i + 1 = j + 1
      BY <2>1 DEF Once
    <2> QED
      BY <2>2
  <1> QED
    BY <1>1, <1>3, <1>4, <1>5, <1>6

(* A list without its last member, as running.pop() leaves it.             *)
LEMMA IdsFront ==
  ASSUME NEW T, NEW s \in Seq(T), Len(s) > 0, Once(s)
  PROVE  /\ Front(s) \in Seq(T) /\ Last(s) \in T
         /\ Len(Front(s)) = Len(s) - 1 /\ \A i \in 1 .. Len(s) - 1 : Front(s)[i] = s[i]
         /\ Last(s) \in Ids(s) /\ Last(s) = s[Len(s)]
         /\ Ids(Front(s)) = Ids(s) \ {Last(s)}
         /\ Once(Front(s))
  <1>1. Front(s) \in Seq(T) /\ Len(Front(s)) = Len(s) - 1 /\ Last(s) \in T /\ Last(s) = s[Len(s)]
        /\ \A i \in 1 .. Len(s) - 1 : Front(s)[i] = s[i]
    <2>1. Last(s) \in T /\ Last(s) = s[Len(s)]
      BY DEF Last
    <2>2. Front(s) = SubSeq(s, 1, Len(s) - 1)
      BY DEF Front
    <2>3. Len(s) \in Nat
      OBVIOUS
    <2>4. SubSeq(s, 1, Len(s) - 1) \in Seq(T) /\ Len(SubSeq(s, 1, Len(s) - 1)) = Len(s) - 1
      <3>1. \A i \in 1 .. Len(s) - 1 : s[i] \in T
        BY <2>3
      <3>2. /\ SubSeq(s, 1, Len(s) - 1) \in Seq(T)
            /\ Len(SubSeq(s, 1, Len(s) - 1)) = IF 1 <= Len(s) - 1 THEN Len(s) - 1 - 1 + 1 ELSE 0
        BY <2>3, <3>1, SubSeqProperties
      <3> DEFINE f == SubSeq(s, 1, Len(s) - 1)
      <3>3. f \in Seq(T) /\ Len(f) = IF 1 <= Len(s) - 1 THEN Len(s) - 1 - 1 + 1 ELSE 0
        BY <3>2
      <3> HIDE DEF f
      <3> DEFINE n == Len(s)
      <3>5. n \in Nat /\ n > 0 /\ Len(f) = IF 1 <= n - 1 THEN n - 1 - 1 + 1 ELSE 0
        BY <2>3, <3>3
      <3> HIDE DEF n
      <3>6. Len(f) = n - 1
        BY <3>5
      <3>4. f \in Seq(T) /\ Len(f) = Len(s) - 1
        BY <3>3, <3>6 DEF n
      <3> QED
        BY <3>4 DEF f
    <2>5. \A i \in 1 .. Len(s) - 1 : SubSeq(s, 1, Len(s) - 1)[i] = s[i]
      BY <2>3
    <2> QED
      BY <2>1, <2>2, <2>4, <2>5
  <1>2. Len(s) \in Nat \ {0} /\ DOMAIN s = 1 .. Len(s)
    OBVIOUS
  <1>3. Last(s) \in Ids(s)
    BY <1>1, <1>2 DEF Ids
  <1>4. Ids(Front(s)) = Ids(s) \ {Last(s)}
    <2>1. ASSUME NEW i \in 1 .. Len(s) - 1
          PROVE  Front(s)[i] \in Ids(s) /\ Front(s)[i] # Last(s)
      BY <1>1, <1>2 DEF Once, Ids
    <2>2. ASSUME NEW i \in 1 .. Len(s), s[i] # s[Len(s)] PROVE s[i] \in Ids(Front(s))
      <3>1. i \in 1 .. Len(s) - 1
        BY <1>2, <2>2
      <3> QED
        BY <1>1, <3>1 DEF Ids
    <2>3. \A x \in Ids(Front(s)) : x \in Ids(s) /\ x # Last(s)
      BY <1>1, <2>1 DEF Ids
    <2>4. \A x \in Ids(s) : x # Last(s) => x \in Ids(Front(s))
      BY <1>1, <2>2 DEF Ids
    <2> QED
      BY <2>3, <2>4
  <1>5. Once(Front(s))
    BY <1>1, <1>2 DEF Once
  <1> QED
    BY <1>1, <1>3, <1>4, <1>5

(* The elements that are kept, in their order.                             *)
LEMMA IdsWithout ==
  ASSUME NEW T, NEW q \in Seq(T), NEW S, Once(q)
  PROVE  Without(q, S) \in Seq(T) /\ Ids(Without(q, S)) = Ids(q) \ S /\ Once(Without(q, S))
  <1> DEFINE kept == {i \in DOMAIN q : q[i] \notin S}
             upTo(i) == {j \in kept : j <= i}
             rank == [i \in kept |-> Cardinality(upTo(i))]
             c == Cardinality(kept)
             Nth(k) == CHOOSE i \in kept : Cardinality({j \in kept : j <= i}) = k
  <1>1. DOMAIN q = 1 .. Len(q) /\ Len(q) \in Nat
    OBVIOUS
  <1>2. IsFiniteSet(kept) /\ kept \subseteq 1 .. Len(q)
    <2>1. IsFiniteSet(1 .. Len(q))
      BY <1>1, FS_Interval
    <2>2. kept \subseteq 1 .. Len(q)
      BY <1>1
    <2> QED
      BY <2>1, <2>2, FS_Subset
  <1>3. c \in Nat
    BY <1>2, FS_CardinalityType
  <1>4. \A i \in kept : IsFiniteSet(upTo(i)) /\ rank[i] \in 1 .. c
    <2> SUFFICES ASSUME NEW i \in kept PROVE IsFiniteSet(upTo(i)) /\ Cardinality(upTo(i)) \in 1 .. c
      OBVIOUS
    <2>1. upTo(i) \subseteq kept /\ i \in upTo(i)
      BY <1>2
    <2>2. IsFiniteSet(upTo(i)) /\ Cardinality(upTo(i)) \in Nat /\ Cardinality(upTo(i)) <= c
      BY <1>2, <2>1, FS_Subset, FS_CardinalityType
    <2>3. Cardinality(upTo(i)) # 0
      BY <2>1, <2>2, FS_EmptySet
    <2> QED
      BY <1>3, <2>2, <2>3
  <1>5. \A i, j \in kept : i < j => rank[i] < rank[j]
    <2> SUFFICES ASSUME NEW i \in kept, NEW j \in kept, i < j
                 PROVE  Cardinality(upTo(i)) < Cardinality(upTo(j))
      OBVIOUS
    <2>1. upTo(i) \subseteq upTo(j) /\ j \in upTo(j) /\ j \notin upTo(i)
      BY <1>2
    <2>2. upTo(i) # upTo(j)
      BY <2>1
    <2>3. IsFiniteSet(upTo(j))
      BY <1>4
    <2>4. Cardinality(upTo(i)) <= Cardinality(upTo(j))
          /\ (Cardinality(upTo(i)) = Cardinality(upTo(j)) => upTo(i) = upTo(j))
      BY <2>1, <2>3, FS_Subset
    <2>5. Cardinality(upTo(i)) \in Nat /\ Cardinality(upTo(j)) \in Nat
      BY <1>4, FS_CardinalityType
    <2> QED
      BY <2>2, <2>4, <2>5
  <1>6. \A i, j \in kept : rank[i] = rank[j] => i = j
    <2> SUFFICES ASSUME NEW i \in kept, NEW j \in kept, rank[i] = rank[j] PROVE i = j
      OBVIOUS
    <2> HIDE DEF kept, rank
    <2>1. i \in Nat /\ j \in Nat /\ rank[i] \in Nat
      <3>1. i \in 1 .. Len(q) /\ j \in 1 .. Len(q)
        BY <1>2
      <3>2. rank[i] \in 1 .. c
        BY <1>4
      <3>3. \A k \in 1 .. c : k \in Nat
        BY <1>3
      <3> QED
        BY <1>1, <3>1, <3>2, <3>3
    <2>2. ~(i < j) /\ ~(j < i)
      BY <1>5, <2>1
    <2> QED
      BY <2>1, <2>2
  <1>7. ASSUME NEW k \in 1 .. c PROVE \E i \in kept : rank[i] = k
    <2>1. rank \in [kept -> 1 .. c]
      BY <1>4
    <2>2. IsFiniteSet(1 .. c) /\ Cardinality(1 .. c) = c
      BY <1>3, FS_Interval
    <2>3. rank \in Injection(kept, 1 .. c)
      <3> HIDE DEF rank, kept, c
      <3> QED
        BY <1>6, <2>1 DEF Injection, IsInjective
    <2>4. rank \in Surjection(kept, 1 .. c)
      <3> HIDE DEF rank, kept
      <3> QED
        BY <1>2, <2>2, <2>3, FS_Injection DEF Bijection
    <2> QED
      <3> HIDE DEF rank, kept
      <3> QED
        BY <2>4 DEF Surjection
  <1>8. ASSUME NEW k \in 1 .. c PROVE Nth(k) \in kept /\ rank[Nth(k)] = k
    <2>1. \E i \in kept : Cardinality({j \in kept : j <= i}) = k
      BY <1>7
    <2>2. Nth(k) \in kept /\ Cardinality({j \in kept : j <= Nth(k)}) = k
      BY <2>1
    <2> QED
      BY <2>2
  <1>9. Without(q, S) = [k \in 1 .. c |-> q[Nth(k)]]
    BY DEF Without
  <1> HIDE DEF Nth, rank, c
  <1>10. Without(q, S) \in Seq(T) /\ Len(Without(q, S)) = c
         /\ \A k \in 1 .. c : Without(q, S)[k] = q[Nth(k)]
    <2>1. \A k \in 1 .. c : q[Nth(k)] \in T
      BY <1>8, <1>1
    <2> QED
      BY <1>3, <1>9, <2>1
  <1>11. Ids(Without(q, S)) \subseteq Ids(q) \ S
    BY <1>1, <1>8, <1>10 DEF Ids
  <1>12. Ids(q) \ S \subseteq Ids(Without(q, S))
    <2> SUFFICES ASSUME NEW i \in kept PROVE q[i] \in Ids(Without(q, S))
      BY <1>1 DEF Ids
    <2>1. rank[i] \in 1 .. c
      BY <1>4
    <2>2. Nth(rank[i]) = i
      BY <1>6, <1>8, <2>1
    <2> QED
      BY <1>10, <2>1, <2>2 DEF Ids
  <1>13. Once(Without(q, S))
    <2> SUFFICES ASSUME NEW k \in 1 .. c, NEW l \in 1 .. c, q[Nth(k)] = q[Nth(l)]
                 PROVE  k = l
      BY <1>10 DEF Once
    <2>1. Nth(k) = Nth(l)
      BY <1>8 DEF Once
    <2> QED
      BY <1>8, <2>1
  <1> QED
    BY <1>10, <1>11, <1>12, <1>13

-----------------------------------------------------------------------------
(***************************************************************************)
(* Chunks.                                                                 *)
(***************************************************************************)

(* Of at most four numbers one is the least.                               *)
LEMMA LeastStop ==
  ASSUME NEW a \in Int, NEW b \in Int, NEW c \in Int, NEW d \in Int,
         NEW S \in SUBSET {a, b, c, d}, S # {}
  PROVE  \E s \in S : \A t \in S : s <= t
  <1> DEFINE Least(x) == x \in S /\ (a \in S => x <= a) /\ (b \in S => x <= b)
                                 /\ (c \in S => x <= c) /\ (d \in S => x <= d)
  <1>1. a \in S \/ b \in S \/ c \in S \/ d \in S
    OBVIOUS
  <1>2. Least(a) \/ Least(b) \/ Least(c) \/ Least(d)
    BY <1>1
  <1>3. \A x : Least(x) => x \in S /\ \A t \in S : x <= t
    OBVIOUS
  <1> QED
    BY <1>2, <1>3

(* Rounding down to a block does not round up.                             *)
LEMMA FloorBelow ==
  ASSUME NEW x \in Int
  PROVE  Floor(x) \in Int /\ Floor(x) <= x
  <1>1. BlockSize \in Nat \ {0}
    BY SplitAssumption
  <1> QED
    BY <1>1 DEF Floor

(* A chunk is no longer than it may be.                                    *)
LEMMA SplitBound ==
  ASSUME NEW start \in Int, NEW n \in Int, NEW prompt \in Nat, NEW tokens \in Nat
  PROVE  /\ Split(start, n, prompt, tokens, 0) \in Int
         /\ n >= 0 => Split(start, n, prompt, tokens, 0) \in 0 .. n
  <1> DEFINE whole  == Aligned(start, start + n, prompt, tokens)
             stops  == Stops(start, whole, prompt, tokens, 0)
             inside == {s \in stops : start < s /\ s < whole}
             end    == IF inside = {} THEN whole ELSE CHOOSE s \in inside : \A t \in inside : s <= t
  <1>1. BlockSize \in Nat \ {0} /\ HashBlock \in Nat \ {0}
    BY SplitAssumption
  <1>2. whole \in Int /\ whole <= start + n
    BY FloorBelow DEF Aligned
  <1>3. \E a, b, c, d \in Int : stops = {a, b, c, d}
    <2>1. (IF start % BlockSize # 0 THEN Floor(start) + BlockSize ELSE 0) \in Int
      BY <1>1, FloorBelow
    <2>2. LastCachePosition(tokens) \in Int
      BY <1>1, FloorBelow DEF LastCachePosition, Larger
    <2>3. TailBoundary(prompt, tokens) \in Int
      BY <1>1 DEF TailBoundary
    <2>4. (IF start < 0 /\ 0 < whole THEN start + Floor(0 - start) ELSE 0) \in Int
      BY FloorBelow
    <2> QED
      BY <2>1, <2>2, <2>3, <2>4 DEF Stops
  <1>4. end \in Int /\ end <= start + n
    <2>1. CASE inside = {}
      BY <1>2, <2>1
    <2>2. CASE inside # {}
      <3>1. PICK a, b, c, d \in Int : stops = {a, b, c, d}
        BY <1>3
      <3>2. inside \in SUBSET {a, b, c, d}
        BY <3>1
      <3>3. \E s \in inside : \A t \in inside : s <= t
        <4> HIDE DEF inside
        <4> QED
          BY <2>2, <3>2, LeastStop
      <3>4. end \in inside
        <4> HIDE DEF inside
        <4> QED
          BY <2>2, <3>3
      <3> HIDE DEF end, whole
      <3>5. end \in Int /\ end < whole
        BY <3>1, <3>4
      <3> QED
        BY <1>2, <3>5
    <2> QED
      BY <2>1, <2>2
  <1>5. Split(start, n, prompt, tokens, 0) =
          IF start >= PrefillEnd(prompt, tokens) THEN n ELSE Larger(end - start, 0)
    BY DEF Split
  <1> HIDE DEF end
  <1> QED
    BY <1>4, <1>5 DEF Larger

-----------------------------------------------------------------------------
(***************************************************************************)
(* Types.                                                                  *)
(***************************************************************************)

(* What the proofs use of the constants.                                   *)
LEMMA Constants ==
  /\ BlockSize \in Nat \ {0} /\ MaxPrefill \in Nat \ {0}
  /\ NumSpec \in Nat /\ ModelLen \in Nat \ {0}
  /\ \A r \in Requests : Prompt[r] \in Nat \ {0} /\ MaxOut[r] \in Nat \ {0}
                         /\ Prompt[r] + MaxOut[r] <= ModelLen
  BY SplitAssumption, QueueAssumption

(* A plan: entries of some requests.                                       *)
LEMMA PlanIs ==
  ASSUME NEW E
  PROVE  E \in PlanType <=> E \in [DOMAIN E -> EntryType] /\ DOMAIN E \subseteq Requests
  BY DEF PlanType

(* F is E with the entry e for r.                                          *)
Added(F, E, r, e) ==
  /\ F \in PlanType /\ DOMAIN F = {r} \cup DOMAIN E /\ F[r] = e
  /\ \A x \in DOMAIN E : x # r => F[x] = E[x]

(* The plan of a step with one more entry.                                 *)
LEMMA PlanAdd ==
  ASSUME NEW E \in PlanType, NEW r \in Requests, NEW e \in EntryType, NEW F, F = With(E, r, e)
  PROVE  Added(F, E, r, e)
  <1>1. DOMAIN F = {r} \cup DOMAIN E /\ F[r] = e
    BY DEF With
  <1>2. \A x \in DOMAIN E : x # r => F[x] = E[x]
    BY DEF With
  <1>3. F \in [DOMAIN F -> EntryType]
    <2>1. F = [x \in DOMAIN F |-> F[x]]
      BY DEF With
    <2>2. \A x \in DOMAIN F : F[x] \in EntryType
      BY <1>1, <1>2, PlanIs
    <2> HIDE DEF EntryType
    <2> QED
      BY <2>1, <2>2
  <1> QED
    BY <1>1, <1>2, <1>3, PlanIs DEF Added

(* A batch: a plan, whether it has run, and its outputs.                   *)
LEMMA BatchIs ==
  ASSUME NEW b \in BatchType
  PROVE  /\ b.entries \in [DOMAIN b.entries -> EntryType] /\ DOMAIN b.entries \subseteq Requests
         /\ b.ran \in BOOLEAN
         /\ b.out \in [DOMAIN b.out -> [follows : Nat, count : Nat]]
         /\ b = [entries |-> b.entries, ran |-> b.ran, out |-> b.out]
  BY DEF BatchType, PlanType, OutType

(* The batch queue: batches at places from 1.                              *)
LEMMA QueueIs ==
  ASSUME queue \in Seq(BatchType)
  PROVE  /\ DOMAIN queue = 1 .. Len(queue) /\ Len(queue) \in Nat
         /\ \A i \in DOMAIN queue : queue[i] \in BatchType
  OBVIOUS

(* The entry of a request in a queued batch.                               *)
LEMMA EntryIs ==
  ASSUME TypeOK, NEW i \in DOMAIN queue, NEW r \in DOMAIN queue[i].entries
  PROVE  Of(i, r) \in EntryType /\ r \in Requests
  <1>1. queue[i] \in BatchType
    BY QueueIs DEF TypeOK
  <1> QED
    BY <1>1, BatchIs DEF Of

(* The fields of a request.                                                *)
Fields == {"status", "tokens", "computed", "spec", "follows", "inflight", "stale", "drop",
           "chunk", "blocks"}

(* A record of these fields is a request when each of them is right.       *)
LEMMA RequestIs ==
  ASSUME NEW q
  PROVE  q \in RequestType <=>
            /\ q = [f \in Fields |-> q[f]]
            /\ q.status \in {"absent", "waiting", "running", "preempted", "finished"}
            /\ q.tokens \in Nat /\ q.computed \in Int /\ q.spec \in 0 .. NumSpec
            /\ q.follows \in Nat /\ q.inflight \in Int /\ q.stale \in Int
            /\ q.drop \in BOOLEAN /\ q.chunk \in BOOLEAN /\ q.blocks \in Int
  BY DEF Fields, RequestType

(* What a preemption changes of a request and what it leaves.              *)
LEMMA PreemptedIs ==
  ASSUME NEW q \in RequestType, NEW d \in BOOLEAN, NEW p, p = Preempted(q, d)
  PROVE  /\ p \in RequestType
         /\ p.status = "preempted" /\ p.computed = 0 /\ p.tokens = q.tokens
         /\ p.inflight = q.inflight /\ p.stale = q.inflight
         /\ p.drop = (d \/ (q.drop /\ q.stale > 0))
  <1> DEFINE x == d \/ (q.drop /\ q.stale > 0)
  <1>1. x \in BOOLEAN
    BY RequestIs
  <1> HIDE DEF x
  <1>2. p = [q EXCEPT !.status = "preempted", !.computed = 0, !.spec = 0, !.blocks = 0,
                      !.drop = x, !.stale = q.inflight]
    BY DEF Preempted, x
  <1>3. q = [f \in Fields |-> q[f]]
    BY RequestIs
  <1>4. p = [f \in Fields |-> p[f]]
    BY Zenon, <1>2, <1>3
  <1>5. /\ p.status = "preempted" /\ p.computed = 0 /\ p.spec = 0 /\ p.blocks = 0
        /\ p.drop = x /\ p.stale = q.inflight
        /\ p.tokens = q.tokens /\ p.follows = q.follows /\ p.inflight = q.inflight
        /\ p.chunk = q.chunk
    BY <1>2, <1>3 DEF Fields
  <1>6. p \in RequestType
    BY <1>1, <1>4, <1>5, RequestIs, Constants
  <1> QED
    BY <1>5, <1>6 DEF x

(* Outdated changes one field of some entries.                             *)
LEMMA OutdatedIs ==
  ASSUME queue \in Seq(BatchType), NEW R, NEW Q, Q = Outdated(R)
  PROVE  /\ Q \in Seq(BatchType)
         /\ DOMAIN Q = DOMAIN queue /\ Len(Q) = Len(queue)
         /\ \A i \in DOMAIN queue :
              /\ DOMAIN Q[i].entries = DOMAIN queue[i].entries
              /\ Q[i].ran = queue[i].ran /\ Q[i].out = queue[i].out
              /\ \A r \in DOMAIN queue[i].entries :
                   Q[i].entries[r] = [queue[i].entries[r] EXCEPT !.old = @ \/ r \in R]
  <1> DEFINE E(i) == [r \in DOMAIN queue[i].entries |->
                         [queue[i].entries[r] EXCEPT !.old = queue[i].entries[r].old \/ r \in R]]
             B(i) == [queue[i] EXCEPT !.entries = E(i)]
  <1>1. DOMAIN queue = 1 .. Len(queue) /\ Len(queue) \in Nat /\ \A i \in DOMAIN queue : queue[i] \in BatchType
    BY QueueIs
  <1>2. Q = [i \in DOMAIN queue |-> B(i)]
    <2>1. Q = [i \in DOMAIN queue |-> [queue[i] EXCEPT !.entries = E(i)]]
      BY DEF Outdated
    <2> QED
      BY <2>1
  <1>3. ASSUME NEW i \in DOMAIN queue
        PROVE  /\ B(i) \in BatchType /\ B(i).entries = E(i)
               /\ B(i).ran = queue[i].ran /\ B(i).out = queue[i].out
    <2>1. queue[i] \in BatchType
      BY <1>1
    <2>2. queue[i].entries \in [DOMAIN queue[i].entries -> EntryType]
          /\ DOMAIN queue[i].entries \subseteq Requests
      BY <2>1, BatchIs
    <2>3. \A r \in DOMAIN queue[i].entries :
            [queue[i].entries[r] EXCEPT !.old = queue[i].entries[r].old \/ r \in R] \in EntryType
      <3> SUFFICES ASSUME NEW e \in EntryType, NEW r
                   PROVE  [e EXCEPT !.old = e.old \/ r \in R] \in EntryType
        BY <2>2
      <3> DEFINE x == e.old \/ r \in R
      <3>1. x \in BOOLEAN
        BY DEF EntryType
      <3> HIDE DEF x
      <3>2. [e EXCEPT !.old = x] \in EntryType
        BY <3>1 DEF EntryType
      <3> QED
        BY <3>2 DEF x
    <2>4. E(i) \in PlanType
      BY <2>2, <2>3, PlanIs
    <2> HIDE DEF E
    <2> QED
      BY <2>1, <2>4 DEF BatchType
  <1>4. Q \in Seq(BatchType) /\ DOMAIN Q = DOMAIN queue /\ Len(Q) = Len(queue)
    <2> HIDE DEF B
    <2>1. Q = [i \in 1 .. Len(queue) |-> B(i)]
      BY <1>1, <1>2
    <2>2. \A i \in 1 .. Len(queue) : B(i) \in BatchType
      BY <1>1, <1>3
    <2> QED
      BY <1>1, <2>1, <2>2
  <1>5. \A i \in DOMAIN queue : Q[i] = B(i)
    BY <1>2
  <1>6. ASSUME NEW i \in DOMAIN queue
        PROVE  /\ DOMAIN Q[i].entries = DOMAIN queue[i].entries
               /\ Q[i].ran = queue[i].ran /\ Q[i].out = queue[i].out
               /\ \A r \in DOMAIN queue[i].entries :
                   Q[i].entries[r] = [queue[i].entries[r] EXCEPT !.old = @ \/ r \in R]
    <2>1. Q[i] = B(i) /\ Q[i].entries = E(i) /\ Q[i].ran = queue[i].ran /\ Q[i].out = queue[i].out
      BY <1>3, <1>5
    <2> HIDE DEF B
    <2> QED
      BY <2>1
  <1> QED
    BY <1>4, <1>6

(* Where a request can be.                                                 *)
Status == {"absent", "waiting", "running", "preempted", "finished"}

(* A request of which the invariant knows the same.                        *)
Alike(p, q) ==
  /\ p.status = q.status /\ p.tokens = q.tokens /\ p.computed = q.computed
  /\ p.inflight = q.inflight /\ p.stale = q.stale /\ p.drop = q.drop

(* A change of status changes nothing else.                                *)
LEMMA StatusIs ==
  ASSUME NEW q \in RequestType, NEW s \in Status, NEW p, p = [q EXCEPT !.status = s]
  PROVE  /\ p \in RequestType /\ p.status = s /\ p.tokens = q.tokens /\ p.computed = q.computed
         /\ p.inflight = q.inflight /\ p.stale = q.stale /\ p.drop = q.drop
  <1>1. q = [f \in Fields |-> q[f]]
    BY RequestIs
  <1>2. p = [f \in Fields |-> p[f]]
    BY <1>1
  <1>3. /\ p.status = s /\ p.computed = q.computed /\ p.spec = q.spec /\ p.blocks = q.blocks
        /\ p.drop = q.drop /\ p.stale = q.stale
        /\ p.tokens = q.tokens /\ p.follows = q.follows /\ p.inflight = q.inflight
        /\ p.chunk = q.chunk
    BY <1>1 DEF Fields
  <1>4. p \in RequestType
    BY <1>2, <1>3, RequestIs DEF Status
  <1> QED
    BY <1>3, <1>4

(* A request as _free_request leaves it.                                   *)
Ended(q) == [q EXCEPT !.status = "finished", !.blocks = 0]

(* It is still a request, and its counters are as they were.               *)
LEMMA FinishedIs ==
  ASSUME NEW q \in RequestType, NEW p, p = Ended(q)
  PROVE  /\ p \in RequestType /\ p.status = "finished" /\ p.tokens = q.tokens
         /\ p.computed = q.computed /\ p.inflight = q.inflight /\ p.stale = q.stale
         /\ p.drop = q.drop
  <1>1. q = [f \in Fields |-> q[f]]
    BY RequestIs
  <1> PICK b \in Int : b = 0
    OBVIOUS
  <1>a. p = [q EXCEPT !.status = "finished", !.blocks = b]
    BY DEF Ended
  <1>2. p = [f \in Fields |-> p[f]]
    BY <1>1, <1>a
  <1>3. /\ p.status = "finished" /\ p.computed = q.computed /\ p.spec = q.spec /\ p.blocks = b
        /\ p.drop = q.drop /\ p.stale = q.stale
        /\ p.tokens = q.tokens /\ p.follows = q.follows /\ p.inflight = q.inflight
        /\ p.chunk = q.chunk
    BY <1>1, <1>a DEF Fields
  <1>4. p \in RequestType
    BY <1>2, <1>3, RequestIs
  <1> QED
    BY <1>3, <1>4

(* Drafts and blocks are nothing the invariant looks at.                   *)
LEMMA ScheduledIs ==
  ASSUME NEW q \in RequestType, NEW b \in Int, NEW z \in 0 .. NumSpec, NEW p,
         p = [q EXCEPT !.spec = z, !.blocks = b]
  PROVE  p \in RequestType /\ Alike(p, q)
  <1>1. q = [f \in Fields |-> q[f]]
    BY RequestIs
  <1>2. p = [f \in Fields |-> p[f]]
    BY Zenon, <1>1
  <1>3. /\ p.status = q.status /\ p.computed = q.computed /\ p.spec = z /\ p.blocks = b
        /\ p.drop = q.drop /\ p.stale = q.stale
        /\ p.tokens = q.tokens /\ p.follows = q.follows /\ p.inflight = q.inflight
        /\ p.chunk = q.chunk
    BY <1>1 DEF Fields
  <1>4. p \in RequestType
    BY <1>2, <1>3, RequestIs, Constants
  <1> QED
    BY <1>3, <1>4 DEF Alike

(* A request as the second loop leaves the one it admits.                  *)
Admitted(q, h, b) == [q EXCEPT !.status = "running", !.computed = h, !.blocks = b]

(* It runs, from the prefix hit h on, with the counters it had.            *)
LEMMA AdmittedIs ==
  ASSUME NEW q \in RequestType, NEW b \in Int, NEW h \in Int, NEW p, p = Admitted(q, h, b)
  PROVE  /\ p \in RequestType /\ p.status = "running" /\ p.tokens = q.tokens
         /\ p.computed = h /\ p.inflight = q.inflight /\ p.stale = q.stale
         /\ p.drop = q.drop
  <1>a. p = [q EXCEPT !.status = "running", !.computed = h, !.blocks = b]
    BY DEF Admitted
  <1>1. q = [f \in Fields |-> q[f]]
    BY RequestIs
  <1>2. p = [f \in Fields |-> p[f]]
    BY <1>1, <1>a
  <1>3. /\ p.status = "running" /\ p.computed = h /\ p.spec = q.spec /\ p.blocks = b
        /\ p.drop = q.drop /\ p.stale = q.stale
        /\ p.tokens = q.tokens /\ p.follows = q.follows /\ p.inflight = q.inflight
        /\ p.chunk = q.chunk
    BY <1>1, <1>a DEF Fields
  <1>4. p \in RequestType
    BY <1>2, <1>3, RequestIs
  <1> QED
    BY <1>3, <1>4

(* A request as _update_after_schedule leaves it with n more tokens.       *)
Closed(q, n, c) == [q EXCEPT !.computed = @ + n, !.inflight = @ + n, !.chunk = c]

(* It has n more tokens computed and n more in flight.                     *)
LEMMA ClosedIs ==
  ASSUME NEW q \in RequestType, NEW n \in Int, NEW c \in BOOLEAN, NEW p, p = Closed(q, n, c)
  PROVE  /\ p \in RequestType /\ p.status = q.status /\ p.tokens = q.tokens
         /\ p.computed = q.computed + n /\ p.inflight = q.inflight + n /\ p.stale = q.stale
         /\ p.drop = q.drop
  <1>1. q = [f \in Fields |-> q[f]] /\ q.computed \in Int /\ q.inflight \in Int
    BY RequestIs
  <1> DEFINE c1 == q.computed + n
             i1 == q.inflight + n
  <1>a. p = [q EXCEPT !.computed = c1, !.inflight = i1, !.chunk = c]
    BY DEF Closed
  <1>b. c1 \in Int /\ i1 \in Int
    BY <1>1
  <1> HIDE DEF c1, i1
  <1>2. p = [f \in Fields |-> p[f]]
    BY <1>1, <1>a
  <1>3. /\ p.status = q.status /\ p.computed = c1 /\ p.spec = q.spec /\ p.blocks = q.blocks
        /\ p.drop = q.drop /\ p.stale = q.stale
        /\ p.tokens = q.tokens /\ p.follows = q.follows /\ p.inflight = i1
        /\ p.chunk = c
    BY <1>1, <1>a DEF Fields
  <1>4. p \in RequestType
    BY <1>2, <1>3, <1>b, RequestIs
  <1> QED
    BY <1>3, <1>4 DEF c1, i1

(* The fields of schedule's local state.                                   *)
StepFields == {"at", "budget", "entries", "preempted", "prefill", "skip"}

(* A record of these fields is a step when each of them is right.          *)
LEMMA StepIs ==
  ASSUME NEW s
  PROVE  s \in StepType <=>
            /\ s = [f \in StepFields |-> s[f]]
            /\ s.at \in Nat \ {0} /\ s.budget \in Int /\ s.entries \in PlanType
            /\ s.preempted \in BOOLEAN /\ s.prefill \in BOOLEAN /\ s.skip \in Seq(Requests)
  BY DEF StepFields, StepType

(* A step that passes over a running request.                              *)
LEMMA StepAt ==
  ASSUME NEW s \in StepType, NEW t, t = [s EXCEPT !.at = @ + 1]
  PROVE  t \in StepType /\ t.at = s.at + 1 /\ t.entries = s.entries /\ t.skip = s.skip
  <1>1. s = [f \in StepFields |-> s[f]] /\ s.at \in Nat \ {0}
    BY StepIs
  <1> DEFINE a == s.at + 1
  <1>a. t = [s EXCEPT !.at = a]
    OBVIOUS
  <1>b. a \in Nat \ {0}
    BY <1>1
  <1> HIDE DEF a
  <1>2. t = [f \in StepFields |-> t[f]]
    BY <1>1, <1>a
  <1>3. /\ t.at = a /\ t.budget = s.budget /\ t.entries = s.entries
        /\ t.preempted = s.preempted /\ t.prefill = s.prefill /\ t.skip = s.skip
    BY <1>1, <1>a DEF StepFields
  <1>4. t \in StepType
    BY <1>2, <1>3, <1>b, StepIs
  <1> QED
    BY <1>3, <1>4 DEF a

(* The step t goes on from s with entries E.                               *)
Advanced(t, s, E) ==
  t \in StepType /\ t.at = s.at + 1 /\ t.entries = E /\ t.skip = s.skip

(* A step that schedules a running request.                                *)
LEMMA StepScheduled ==
  ASSUME NEW s \in StepType, NEW n \in Int, NEW p \in BOOLEAN, NEW E \in PlanType, NEW t,
         t = [s EXCEPT !.at = @ + 1, !.budget = @ - n, !.prefill = p, !.entries = E]
  PROVE  Advanced(t, s, E)
  <1>1. s = [f \in StepFields |-> s[f]] /\ s.at \in Nat \ {0} /\ s.budget \in Int
    BY StepIs
  <1> DEFINE a == s.at + 1
             b == s.budget - n
  <1>a. t = [s EXCEPT !.at = a, !.budget = b, !.prefill = p, !.entries = E]
    OBVIOUS
  <1>b. a \in Nat \ {0} /\ b \in Int
    BY <1>1
  <1> HIDE DEF a, b
  <1>2. t = [f \in StepFields |-> t[f]]
    BY Zenon, <1>1, <1>a
  <1>3. /\ t.at = a /\ t.budget = b /\ t.entries = E
        /\ t.preempted = s.preempted /\ t.prefill = p /\ t.skip = s.skip
    BY <1>1, <1>a DEF StepFields
  <1>4. t \in StepType
    BY <1>2, <1>3, <1>b, StepIs
  <1> QED
    BY <1>3, <1>4 DEF a, Advanced

(* The step t stays where s is, with entries E.                            *)
Stayed(t, s, E) ==
  t \in StepType /\ t.at = s.at /\ t.entries = E /\ t.skip = s.skip

(* A step that admits a request.                                           *)
LEMMA StepAdmitted ==
  ASSUME NEW s \in StepType, NEW n \in Int, NEW E \in PlanType, NEW t,
         t = [s EXCEPT !.budget = @ - n, !.entries = E]
  PROVE  Stayed(t, s, E)
  <1>1. s = [f \in StepFields |-> s[f]] /\ s.budget \in Int
    BY StepIs
  <1> DEFINE b == s.budget - n
  <1>a. t = [s EXCEPT !.budget = b, !.entries = E]
    OBVIOUS
  <1>b. b \in Int
    BY <1>1
  <1> HIDE DEF b
  <1>2. t = [f \in StepFields |-> t[f]]
    BY Zenon, <1>1, <1>a
  <1>3. /\ t.at = s.at /\ t.budget = b /\ t.entries = E
        /\ t.preempted = s.preempted /\ t.prefill = s.prefill /\ t.skip = s.skip
    BY <1>1, <1>a DEF StepFields
  <1>4. t \in StepType
    BY <1>2, <1>3, <1>b, StepIs
  <1> QED
    BY <1>3, <1>4 DEF Stayed

(* A step that has preempted a request.                                    *)
LEMMA StepPreempted ==
  ASSUME NEW s \in StepType, NEW t, t = [s EXCEPT !.preempted = TRUE]
  PROVE  t \in StepType /\ t.at = s.at /\ t.entries = s.entries /\ t.skip = s.skip
  <1>1. s = [f \in StepFields |-> s[f]]
    BY StepIs
  <1>2. t = [f \in StepFields |-> t[f]]
    BY <1>1
  <1>3. /\ t.at = s.at /\ t.budget = s.budget /\ t.entries = s.entries
        /\ t.preempted = TRUE /\ t.prefill = s.prefill /\ t.skip = s.skip
    BY <1>1 DEF StepFields
  <1>4. t \in StepType
    BY <1>2, <1>3, StepIs
  <1> QED
    BY <1>3, <1>4

(* A step that passes over a waiting request.                              *)
LEMMA StepSkipped ==
  ASSUME NEW s \in StepType, NEW r \in Requests, NEW t, t = [s EXCEPT !.skip = Append(@, r)]
  PROVE  t \in StepType /\ t.at = s.at /\ t.entries = s.entries /\ t.skip = Append(s.skip, r)
  <1>1. s = [f \in StepFields |-> s[f]] /\ s.skip \in Seq(Requests)
    BY StepIs
  <1> DEFINE k == Append(s.skip, r)
  <1>a. t = [s EXCEPT !.skip = k]
    OBVIOUS
  <1>b. k \in Seq(Requests)
    BY <1>1
  <1> HIDE DEF k
  <1>2. t = [f \in StepFields |-> t[f]]
    BY <1>1, <1>a
  <1>3. /\ t.at = s.at /\ t.budget = s.budget /\ t.entries = s.entries
        /\ t.preempted = s.preempted /\ t.prefill = s.prefill /\ t.skip = k
    BY <1>1, <1>a DEF StepFields
  <1>4. t \in StepType
    BY <1>2, <1>3, <1>b, StepIs
  <1> QED
    BY <1>3, <1>4 DEF k

(* A step that begins.                                                     *)
LEMMA StepBegun ==
  ASSUME NEW b \in Int, NEW t,
         t = [at |-> 1, budget |-> b, entries |-> <<>>, preempted |-> FALSE, prefill |-> FALSE,
              skip |-> <<>>]
  PROVE  t \in StepType /\ t.at = 1 /\ t.entries = <<>> /\ DOMAIN t.entries = {}
         /\ t.skip = <<>>
  <1>1. <<>> \in PlanType
    <2>1. DOMAIN <<>> = {}
      OBVIOUS
    <2>2. <<>> \in [DOMAIN <<>> -> EntryType]
      OBVIOUS
    <2> QED
      BY <2>1, <2>2, PlanIs
  <1>2. <<>> \in Seq(Requests)
    OBVIOUS
  <1>3. t \in StepType
    BY <1>1, <1>2 DEF StepType
  <1> QED
    BY <1>3

-----------------------------------------------------------------------------
(***************************************************************************)
(* What an action does not touch.                                          *)
(***************************************************************************)

(* The queue and the last stage keep what they have of r.                  *)
Kept(r) ==
  /\ InQueue(r)' = InQueue(r)
  /\ \A i \in InQueue(r) :
       queue'[i].entries[r] = queue[i].entries[r] /\ queue'[i].ran = queue[i].ran
       /\ queue'[i].out[r] = queue[i].out[r]
  /\ known'[r] = known[r] /\ cached'[r] = cached[r] /\ limit' = limit

(* An action that leaves queue and last stage alone keeps them for r.      *)
LEMMA SameKept ==
  ASSUME UNCHANGED <<queue, known, cached, limit>>, NEW r
  PROVE  Kept(r)
  BY DEF Kept, InQueue

(* What is kept of r's entries: which are fresh, stale and delivered,      *)
(* and how many tokens they have.                                          *)
LEMMA KeptSets ==
  ASSUME NEW r, Kept(r)
  PROVE  /\ InQueue(r)' = InQueue(r)
         /\ Fresh(r)' = Fresh(r) /\ Stale(r)' = Stale(r)
         /\ req'[r].drop = req[r].drop => Valid(r)' = Valid(r)
         /\ InFlight(r, TRUE)' = InFlight(r, TRUE) /\ InFlight(r, FALSE)' = InFlight(r, FALSE)
         /\ \A i \in InQueue(r) : Of(i, r)' = Of(i, r) /\ Ran(i)' = Ran(i) /\ Out(i, r)' = Out(i, r)
  <1>1. InQueue(r)' = InQueue(r)
    BY DEF Kept
  <1>2. \A i \in InQueue(r) : Of(i, r)' = Of(i, r) /\ Ran(i)' = Ran(i) /\ Out(i, r)' = Out(i, r)
    BY DEF Kept, Of, Ran, Out
  <1>3. Fresh(r)' = Fresh(r) /\ Stale(r)' = Stale(r)
    BY <1>1, <1>2 DEF Fresh, Stale
  <1>4. ASSUME req'[r].drop = req[r].drop PROVE Valid(r)' = Valid(r)
    BY <1>1, <1>2, <1>4 DEF Valid
  <1>5. ASSUME NEW b \in BOOLEAN PROVE InFlight(r, b)' = InFlight(r, b)
    <2>1. {j \in InQueue(r) : b => queue[j].entries[r].old}'
             = {j \in InQueue(r) : b => queue[j].entries[r].old}
      BY <1>1, <1>2 DEF Of
    <2>2. \A i \in InQueue(r) : {i} \X (1 .. queue'[i].entries[r].n) = {i} \X (1 .. queue[i].entries[r].n)
      BY <1>2 DEF Of
    <2>3. Tokens(r, b)' = Tokens(r, b)
      BY <2>1, <2>2 DEF Tokens
    <2> QED
      BY <2>3 DEF InFlight
  <1> QED
    BY <1>1, <1>2, <1>3, <1>4, <1>5

(* A request that is as it was, or finished, and whose entry in the step   *)
(* is of the same kind, is as well off as before.                          *)
LEMMA KeptLife ==
  ASSUME NEW r \in Requests, Life(r), Kept(r),
         req'[r].tokens = req[r].tokens,
         Alike(req'[r], req[r]) \/ req'[r].status = "finished",
         Entering(r)' = Entering(r),
         Entering(r) => step'.entries[r].kind = step.entries[r].kind
  PROVE  Life(r)'
  <1> USE KeptSets
  <1>0. \A i : i \in Fresh(r) \/ i \in Stale(r) \/ i \in Valid(r) => i \in InQueue(r)
    BY DEF Fresh, Stale, Valid
  <1>1. OldFirst(r)' /\ NewFirst(r)' /\ FirstKind(r)' /\ SaneEntries(r)'
    <2>1. OldFirst(r)'
      BY DEF Life, OldFirst
    <2>2. NewFirst(r)'
      BY DEF Life, NewFirst
    <2>3. FirstKind(r)'
      BY <1>0 DEF Life, FirstKind
    <2>4. SaneEntries(r)'
      BY DEF Life, SaneEntries, Sane, End, Samples
    <2> QED
      BY <2>1, <2>2, <2>3, <2>4
  <1>2. CASE req'[r].status = "finished"
    <2>1. ~Live(r)' /\ req'[r].status # "running" /\ req'[r].status \notin {"absent", "waiting"}
      BY <1>2 DEF Live
    <2>2. /\ Unsent(r)' /\ Exact(r)' /\ Living(r)' /\ Totals(r)' /\ SamplesLast(r)' /\ Chained(r)'
          /\ Reaches(r)' /\ Behind(r)' /\ Grown(r)' /\ Knows(r)' /\ Ready(r)' /\ Caught(r)'
          /\ Delivery(r)'
      BY <2>1 DEF Unsent, Exact, Living, Totals, SamplesLast, Chained, Reaches, Behind, Grown,
                  Knows, Ready, Caught, Delivery
    <2> QED
      BY <1>1, <2>2 DEF Life
  <1>3. CASE Alike(req'[r], req[r])
    <2>1. /\ req'[r].status = req[r].status /\ req'[r].tokens = req[r].tokens
          /\ req'[r].computed = req[r].computed /\ req'[r].inflight = req[r].inflight
          /\ req'[r].stale = req[r].stale /\ req'[r].drop = req[r].drop
          /\ Live(r)' = Live(r) /\ Valid(r)' = Valid(r)
      BY <1>3 DEF Alike, Live
    <2>2. Unsent(r)'
      BY <2>1 DEF Life, Unsent
    <2>3. Exact(r)'
      BY <2>1 DEF Life, Exact
    <2>4. Living(r)'
      BY <2>1 DEF Life, Living, Kept
    <2>5. Totals(r)'
      BY <2>1 DEF Life, Totals
    <2>6. SamplesLast(r)'
      BY <1>0, <2>1 DEF Life, SamplesLast, Samples, End
    <2>7. Chained(r)'
      BY <1>0, <2>1 DEF Life, Chained, End
    <2>8. Reaches(r)'
      BY <1>0, <2>1 DEF Life, Reaches, End
    <2>9. Behind(r)' /\ Grown(r)'
      BY <2>1 DEF Life, Behind, Grown
    <2>10. Knows(r)'
      BY ZenonT(60), <1>0, <2>1 DEF Life, Knows, Kept
    <2>11. Ready(r)'
      <3> SUFFICES ASSUME Live(r)', NEW j \in Valid(r)', ~Ran(j)', Of(j, r)'.kind = "cached",
                          \A i \in Valid(r)' : i < j => Ran(i)'
                   PROVE  /\ known'[r] = req'[r].tokens
                          /\ ~Of(j, r)'.old => Of(j, r)'.start <= cached'[r]
        BY DEF Ready
      <3>1. j \in Valid(r) /\ Live(r) /\ ~Ran(j) /\ Of(j, r).kind = "cached" /\ Of(j, r)' = Of(j, r)
        BY <1>0, <2>1
      <3>2. \A i \in Valid(r) : i < j => Ran(i)
        BY <1>0, <2>1
      <3>3. /\ known[r] = req[r].tokens
            /\ ~Of(j, r).old => Of(j, r).start <= cached[r]
        BY <3>1, <3>2 DEF Life, Ready
      <3> QED
        BY <2>1, <3>1, <3>3 DEF Kept
    <2>12. Caught(r)'
      BY <1>0, <2>1 DEF Life, Caught, Kept, Samples, End
    <2>13. Delivery(r)'
      BY ZenonT(60), <1>0, <2>1 DEF Life, Delivery, Kept, Samples, End
    <2> QED
      BY <1>1, <2>2, <2>3, <2>4, <2>5, <2>6, <2>7, <2>8, <2>9, <2>10, <2>11, <2>12, <2>13 DEF Life
  <1> QED
    BY <1>2, <1>3

-----------------------------------------------------------------------------
(***************************************************************************)
(* Counting tokens.                                                        *)
(***************************************************************************)

(* The batches whose entries Tokens counts.                                *)
Holders(r, b) == {j \in InQueue(r) : b => queue[j].entries[r].old}

(* There are finitely many of them.                                        *)
LEMMA HoldersFinite ==
  ASSUME queue \in Seq(BatchType), NEW r, NEW b
  PROVE  IsFiniteSet(Holders(r, b)) /\ Holders(r, b) \subseteq InQueue(r)
         /\ InQueue(r) \subseteq 1 .. Len(queue)
  <1>1. Len(queue) \in Nat /\ DOMAIN queue = 1 .. Len(queue)
    BY QueueIs
  <1>2. IsFiniteSet(1 .. Len(queue))
    BY <1>1, FS_Interval
  <1>3. Holders(r, b) \subseteq InQueue(r) /\ InQueue(r) \subseteq 1 .. Len(queue)
    BY <1>1 DEF Holders, InQueue
  <1> QED
    BY <1>2, <1>3, FS_Subset

(* A request has finitely many tokens in the queue.                        *)
LEMMA TokensFinite ==
  ASSUME queue \in Seq(BatchType), NEW r \in Requests, NEW b
  PROVE  IsFiniteSet(Tokens(r, b)) /\ InFlight(r, b) \in Nat
         /\ Tokens(r, b) = UNION {{i} \X (1 .. queue[i].entries[r].n) : i \in Holders(r, b)}
  <1> DEFINE H == Holders(r, b)
             f == [i \in H |-> {i} \X (1 .. queue[i].entries[r].n)]
             F == {{i} \X (1 .. queue[i].entries[r].n) : i \in H}
  <1>1. IsFiniteSet(H)
    BY HoldersFinite
  <1>2. f \in Surjection(H, F)
    <2>1. f \in [H -> F]
      OBVIOUS
    <2>2. \A t \in F : \E i \in H : f[i] = t
      OBVIOUS
    <2> HIDE DEF f, F, H
    <2> QED
      BY <2>1, <2>2 DEF Surjection
  <1>3. IsFiniteSet(F)
    <2> HIDE DEF f, F, H
    <2> QED
      BY <1>1, <1>2, FS_Surjection
  <1>4. \A T \in F : IsFiniteSet(T)
    <2> SUFFICES ASSUME NEW i \in H PROVE IsFiniteSet({i} \X (1 .. queue[i].entries[r].n))
      OBVIOUS
    <2>1. queue[i].entries[r].n \in Int
      <3>1. queue[i] \in BatchType /\ r \in DOMAIN queue[i].entries
        BY QueueIs DEF Holders, InQueue
      <3>2. queue[i].entries[r] \in EntryType
        BY <3>1, BatchIs
      <3> QED
        BY <3>2 DEF EntryType
    <2>2. IsFiniteSet(1 .. queue[i].entries[r].n)
      <3> DEFINE m == queue[i].entries[r].n
      <3>1. m \in Int
        BY <2>1
      <3> HIDE DEF m
      <3>2. IsFiniteSet(1 .. m)
        BY <3>1, FS_Interval
      <3> QED
        BY <3>2 DEF m
    <2>3. IsFiniteSet({i})
      BY FS_Singleton
    <2> HIDE DEF H
    <2> QED
      BY <2>2, <2>3, FS_Product
  <1>5. Tokens(r, b) = UNION F
    BY DEF Tokens, Holders
  <1>6. IsFiniteSet(UNION F)
    <2> HIDE DEF F
    <2> QED
      BY <1>3, <1>4, FS_UNION
  <1>7. IsFiniteSet(Tokens(r, b))
    BY <1>5, <1>6
  <1> QED
    BY <1>5, <1>7, FS_CardinalityType DEF InFlight

(* A token is a batch and a place in it.                                   *)
LEMMA TokenIs ==
  ASSUME queue \in Seq(BatchType), NEW r \in Requests, NEW b, NEW t
  PROVE  t \in Tokens(r, b) <=>
            \E i \in InQueue(r) : \E k \in 1 .. Of(i, r).n : t = <<i, k>> /\ (b => Of(i, r).old)
  BY TokensFinite DEF Holders, Of

(* An entry of n tokens in batch m has n tokens.                           *)
LEMMA EntryTokens ==
  ASSUME NEW m, NEW n \in Int, n > 0
  PROVE  IsFiniteSet({m} \X (1 .. n)) /\ Cardinality({m} \X (1 .. n)) = n
  <1>1. IsFiniteSet(1 .. n) /\ Cardinality(1 .. n) = n
    BY FS_Interval
  <1>2. IsFiniteSet({m}) /\ Cardinality({m}) = 1
    BY FS_Singleton
  <1>3. PICK A : A = {m}
    OBVIOUS
  <1>4. PICK B : B = 1 .. n
    OBVIOUS
  <1>5. IsFiniteSet(A) /\ Cardinality(A) = 1 /\ IsFiniteSet(B) /\ Cardinality(B) = n
    BY <1>1, <1>2, <1>3, <1>4
  <1>6. IsFiniteSet(A \X B) /\ Cardinality(A \X B) = Cardinality(A) * Cardinality(B)
    BY <1>5, FS_Product
  <1>7. 1 * n = n
    OBVIOUS
  <1> QED
    BY <1>3, <1>4, <1>5, <1>6, <1>7

(* The count of stale tokens tells whether there are stale entries, and    *)
(* is no less than any of them has.                                        *)
LEMMA StaleCounted ==
  ASSUME queue \in Seq(BatchType), NEW r \in Requests, SaneEntries(r)
  PROVE  /\ InFlight(r, TRUE) \in Nat /\ InFlight(r, FALSE) \in Nat
         /\ InFlight(r, TRUE) > 0 <=> Stale(r) # {}
         /\ \A i \in Stale(r) : Of(i, r).n <= InFlight(r, TRUE)
  <1>1. InFlight(r, TRUE) \in Nat /\ InFlight(r, FALSE) \in Nat /\ IsFiniteSet(Tokens(r, TRUE))
    BY TokensFinite
  <1>2. ASSUME NEW i \in Stale(r)
        PROVE  Of(i, r).n <= InFlight(r, TRUE) /\ Of(i, r).n > 0
    <2>1. i \in InQueue(r) /\ Of(i, r).old
      BY DEF Stale
    <2>2. Of(i, r).n \in Int /\ Of(i, r).n > 0
      <3>1. queue[i] \in BatchType /\ r \in DOMAIN queue[i].entries
        BY <2>1, QueueIs DEF InQueue
      <3>2. Of(i, r) \in EntryType
        BY <3>1, BatchIs DEF Of
      <3> QED
        BY <2>1, <3>2 DEF EntryType, SaneEntries, Sane
    <2> DEFINE S == {i} \X (1 .. Of(i, r).n)
    <2>3. S \subseteq Tokens(r, TRUE)
      <3>1. \A t : t \in Tokens(r, TRUE) <=>
               \E j \in InQueue(r) : \E k \in 1 .. Of(j, r).n : t = <<j, k>> /\ (TRUE => Of(j, r).old)
        BY TokenIs
      <3>2. \A t \in S : \E k \in 1 .. Of(i, r).n : t = <<i, k>>
        OBVIOUS
      <3> HIDE DEF S
      <3> QED
        BY <2>1, <3>1, <3>2
    <2>4. Cardinality(S) = Of(i, r).n
      <3> DEFINE m == Of(i, r).n
      <3> HIDE DEF m
      <3>1. m \in Int /\ m > 0
        BY <2>2 DEF m
      <3> QED
        BY <3>1, EntryTokens DEF m
    <2> HIDE DEF S
    <2>5. Cardinality(S) <= Cardinality(Tokens(r, TRUE))
      BY <1>1, <2>3, FS_Subset
    <2> QED
      BY <2>2, <2>4, <2>5 DEF InFlight
  <1>3. ASSUME Stale(r) = {} PROVE InFlight(r, TRUE) = 0
    <2>1. Tokens(r, TRUE) = {}
      BY <1>3, TokenIs DEF Stale
    <2> QED
      BY <2>1, FS_EmptySet DEF InFlight
  <1>4. ASSUME Stale(r) # {} PROVE InFlight(r, TRUE) > 0
    <2>1. PICK i : i \in Stale(r)
      BY <1>4
    <2>2. Of(i, r).n \in Int
      <3>1. i \in InQueue(r)
        BY <2>1 DEF Stale
      <3>2. queue[i] \in BatchType /\ r \in DOMAIN queue[i].entries
        BY <3>1, QueueIs DEF InQueue
      <3>3. Of(i, r) \in EntryType
        BY <3>2, BatchIs DEF Of
      <3> QED
        BY <3>3 DEF EntryType
    <2> DEFINE m == Of(i, r).n
               c == InFlight(r, TRUE)
    <2>3. m \in Int /\ m > 0 /\ m <= c /\ c \in Nat
      BY <1>1, <1>2, <2>1, <2>2
    <2> HIDE DEF m, c
    <2>4. c > 0
      BY <2>3
    <2> QED
      BY <2>4 DEF c
  <1>5. InFlight(r, TRUE) > 0 <=> Stale(r) # {}
    <2>1. CASE Stale(r) = {}
      <3> DEFINE c == InFlight(r, TRUE)
      <3>2. c = 0
        BY <1>3, <2>1
      <3> HIDE DEF c
      <3>3. ~(c > 0)
        BY <3>2
      <3>1. ~(InFlight(r, TRUE) > 0)
        BY <3>3 DEF c
      <3> QED
        BY <2>1, <3>1
    <2>2. CASE Stale(r) # {}
      BY <1>4, <2>2
    <2> QED
      BY <2>1, <2>2
  <1>6. \A i \in Stale(r) : Of(i, r).n <= InFlight(r, TRUE)
    BY <1>2
  <1> QED
    BY <1>1, <1>5, <1>6

(* A batch that joins the queue adds its tokens to the count.              *)
LEMMA CountMore ==
  ASSUME NEW S, IsFiniteSet(S), NEW m, NEW n \in Int, n > 0, \A k : <<m, k>> \notin S
  PROVE  Cardinality(S \cup ({m} \X (1 .. n))) = Cardinality(S) + n
  <1> DEFINE T == {m} \X (1 .. n)
  <1>3. IsFiniteSet(T) /\ Cardinality(T) = n
    BY EntryTokens
  <1>4. S \cap T = {}
    OBVIOUS
  <1> HIDE DEF T
  <1>5. Cardinality(S \cup T) = Cardinality(S) + Cardinality(T) - Cardinality(S \cap T)
    BY <1>3, FS_Union
  <1>6. Cardinality(S \cap T) = 0 /\ Cardinality(S) \in Nat
    BY <1>4, FS_EmptySet, FS_CardinalityType
  <1>7. Cardinality(S \cup T) = Cardinality(S) + n
    BY <1>3, <1>5, <1>6
  <1> QED
    BY <1>7 DEF T

(* The count is the same when every batch moves up by one place.           *)
LEMMA CountShifted ==
  ASSUME NEW S, IsFiniteSet(S), NEW T,
         \A s \in S : \E i \in Int, k \in Int : s = <<i, k>>,
         \A t : t \in T <=> \E i \in Int, k \in Int : t = <<i, k>> /\ <<i + 1, k>> \in S
  PROVE  Cardinality(T) = Cardinality(S) /\ IsFiniteSet(T)
  <1> DEFINE f == [s \in S |-> <<s[1] - 1, s[2]>>]
  <1>1. f \in [S -> T]
    <2> SUFFICES ASSUME NEW s \in S PROVE <<s[1] - 1, s[2]>> \in T
      OBVIOUS
    <2>1. PICK i \in Int, k \in Int : s = <<i, k>>
      OBVIOUS
    <2>2. <<i - 1, k>> \in T
      <3>1. i - 1 \in Int /\ (i - 1) + 1 = i
        OBVIOUS
      <3> QED
        BY <2>1, <3>1
    <2> QED
      BY <2>1, <2>2
  <1>2. \A s, t \in S : f[s] = f[t] => s = t
    <2> SUFFICES ASSUME NEW s \in S, NEW t \in S, <<s[1] - 1, s[2]>> = <<t[1] - 1, t[2]>>
                 PROVE  s = t
      OBVIOUS
    <2>1. PICK i \in Int, k \in Int : s = <<i, k>>
      OBVIOUS
    <2>2. PICK j \in Int, l \in Int : t = <<j, l>>
      OBVIOUS
    <2>3. i - 1 = j - 1 /\ k = l
      BY <2>1, <2>2
    <2> QED
      BY <2>1, <2>2, <2>3
  <1>3. \A t \in T : \E s \in S : f[s] = t
    <2> SUFFICES ASSUME NEW t \in T PROVE \E s \in S : f[s] = t
      OBVIOUS
    <2>1. PICK i \in Int, k \in Int : t = <<i, k>> /\ <<i + 1, k>> \in S
      OBVIOUS
    <2>2. f[<<i + 1, k>>] = <<i, k>>
      BY <2>1
    <2> QED
      BY <2>1, <2>2
  <1> HIDE DEF f
  <1>4. f \in Bijection(S, T)
    BY <1>1, <1>2, <1>3 DEF Bijection, Injection, Surjection, IsInjective
  <1> QED
    BY <1>4, FS_Bijection DEF ExistsBijection

(* The tokens of r in the queue.                                           *)
AllSet(r) == Tokens(r, FALSE)
(* Those of lives that have ended.                                         *)
OldSet(r) == Tokens(r, TRUE)

(* What is among these tokens, before and after a step.                    *)
LEMMA TokensAre ==
  ASSUME NEW r
  PROVE  /\ \A t : t \in AllSet(r) <=> \E i \in InQueue(r) : \E k \in 1 .. Of(i, r).n : t = <<i, k>>
         /\ \A t : t \in OldSet(r) <=>
               \E i \in Stale(r) : \E k \in 1 .. Of(i, r).n : t = <<i, k>>
         /\ \A t : t \in AllSet(r)' <=>
               \E i \in InQueue(r)' : \E k \in 1 .. Of(i, r)'.n : t = <<i, k>>
         /\ \A t : t \in OldSet(r)' <=>
               \E i \in Stale(r)' : \E k \in 1 .. Of(i, r)'.n : t = <<i, k>>
  <1>1. \A t : t \in AllSet(r) <=> \E i \in InQueue(r) : \E k \in 1 .. Of(i, r).n : t = <<i, k>>
    BY DEF AllSet, Tokens, Of
  <1>2. \A t : t \in OldSet(r) <=>
               \E i \in Stale(r) : \E k \in 1 .. Of(i, r).n : t = <<i, k>>
    BY DEF OldSet, Tokens, Of, Stale
  <1>3. \A t : t \in AllSet(r)' <=> \E i \in InQueue(r)' : \E k \in 1 .. Of(i, r)'.n : t = <<i, k>>
    BY DEF AllSet, Tokens, Of
  <1>4. \A t : t \in OldSet(r)' <=>
               \E i \in Stale(r)' : \E k \in 1 .. Of(i, r)'.n : t = <<i, k>>
    BY DEF OldSet, Tokens, Of, Stale
  <1> QED
    BY <1>1, <1>2, <1>3, <1>4

(* How many tokens r has in the queue.                                     *)
AllTokens(r) == InFlight(r, FALSE)
(* How many of them are of lives that have ended.                          *)
OldTokens(r) == InFlight(r, TRUE)

(* Exact in terms of these counts, before and after a step.                *)
LEMMA CountsDef ==
  ASSUME NEW r
  PROVE  /\ AllTokens(r) = Cardinality(AllSet(r)) /\ OldTokens(r) = Cardinality(OldSet(r))
         /\ AllTokens(r)' = Cardinality(AllSet(r)') /\ OldTokens(r)' = Cardinality(OldSet(r)')
         /\ Exact(r) <=> (Live(r) => req[r].inflight = AllTokens(r) /\ req[r].stale = OldTokens(r))
         /\ Exact(r)' <=> (Live(r)' => req'[r].inflight = AllTokens(r)' /\ req'[r].stale = OldTokens(r)')
  BY DEF AllTokens, OldTokens, AllSet, OldSet, InFlight, Exact

(* Both sets are finite.                                                   *)
LEMMA SetsFinite ==
  ASSUME queue \in Seq(BatchType), NEW r \in Requests
  PROVE  IsFiniteSet(AllSet(r)) /\ IsFiniteSet(OldSet(r))
  BY TokensFinite DEF AllSet, OldSet

(* A live request has stale tokens exactly when it has stale entries.      *)
LEMMA CountsAre ==
  ASSUME queue \in Seq(BatchType), NEW r \in Requests, SaneEntries(r)
  PROVE  /\ AllTokens(r) \in Nat /\ OldTokens(r) \in Nat
         /\ OldTokens(r) > 0 <=> Stale(r) # {}
         /\ Exact(r) <=> (Live(r) => req[r].inflight = AllTokens(r) /\ req[r].stale = OldTokens(r))
         /\ Exact(r) /\ Live(r) => (req[r].stale > 0 <=> Stale(r) # {})
  <1>1. AllTokens(r) \in Nat /\ OldTokens(r) \in Nat /\ (OldTokens(r) > 0 <=> Stale(r) # {})
    BY StaleCounted DEF AllTokens, OldTokens
  <1>2. Exact(r) <=> (Live(r) => req[r].inflight = AllTokens(r) /\ req[r].stale = OldTokens(r))
    BY DEF Exact, AllTokens, OldTokens
  <1> QED
    BY <1>1, <1>2

-----------------------------------------------------------------------------
(***************************************************************************)
(* How a life ends, begins and gets an entry.                              *)
(***************************************************************************)

(* The end of a life, by a preemption or a reset.                          *)
LEMMA PreemptLife ==
  ASSUME NEW r \in Requests, Life(r), queue \in Seq(BatchType), req[r] \in RequestType,
         req[r].status = "running", NEW R, r \in R, queue' = Outdated(R),
         NEW d \in BOOLEAN, req'[r] = Preempted(req[r], d),
         UNCHANGED <<known, cached, limit>>, ~Entering(r), ~Entering(r)'
  PROVE  Life(r)'
  <1>1. /\ req'[r].status = "preempted" /\ req'[r].computed = 0 /\ req'[r].tokens = req[r].tokens
        /\ req'[r].inflight = req[r].inflight /\ req'[r].stale = req[r].inflight
        /\ req'[r].drop = (d \/ (req[r].drop /\ req[r].stale > 0))
    BY PreemptedIs
  <1>2. Live(r) /\ Live(r)'
    BY <1>1 DEF Live
  <1>3. InQueue(r)' = InQueue(r)
    BY OutdatedIs DEF InQueue
  <1>4. ASSUME NEW i \in InQueue(r)
        PROVE  /\ Of(i, r)'.kind = Of(i, r).kind /\ Of(i, r)'.start = Of(i, r).start
               /\ Of(i, r)'.n = Of(i, r).n /\ Of(i, r)'.spec = Of(i, r).spec
               /\ Of(i, r)'.total = Of(i, r).total /\ Of(i, r)'.old = TRUE
               /\ Ran(i)' = Ran(i) /\ Out(i, r)' = Out(i, r)
    <2>1. i \in DOMAIN queue /\ r \in DOMAIN queue[i].entries /\ queue[i] \in BatchType
      BY QueueIs DEF InQueue
    <2>2. queue'[i].entries[r] = [queue[i].entries[r] EXCEPT !.old = @ \/ r \in R]
          /\ queue'[i].ran = queue[i].ran /\ queue'[i].out = queue[i].out
      BY <2>1, OutdatedIs
    <2>3. queue[i].entries[r] \in EntryType
      BY <2>1, BatchIs
    <2> QED
      BY <2>2, <2>3 DEF EntryType, Of, Ran, Out
  <1>5. Fresh(r)' = {} /\ Stale(r)' = InQueue(r)
    BY <1>3, <1>4 DEF Fresh, Stale
  <1>6. queue' \in Seq(BatchType)
    BY OutdatedIs
  <1>7. SaneEntries(r) /\ SaneEntries(r)'
    BY <1>3, <1>4 DEF Life, SaneEntries, Sane, Samples, End
  <1>8. AllTokens(r)' = AllTokens(r) /\ OldTokens(r)' = AllTokens(r)
    <2> DEFINE H == {i \in InQueue(r) : FALSE => queue[i].entries[r].old}
               N(i) == {i} \X (1 .. queue[i].entries[r].n)
    <2>1. ASSUME NEW b \in BOOLEAN PROVE Tokens(r, b)' = Tokens(r, FALSE)
      <3>1. \A i \in InQueue(r) : queue'[i].entries[r].n = queue[i].entries[r].n
                                  /\ queue'[i].entries[r].old = TRUE
        BY <1>4 DEF Of
      <3>2. {j \in InQueue(r)' : b => queue'[j].entries[r].old} = InQueue(r)
        BY <1>3, <3>1
      <3>3. {j \in InQueue(r) : FALSE => queue[j].entries[r].old} = InQueue(r)
        OBVIOUS
      <3> QED
        BY <3>1, <3>2, <3>3 DEF Tokens
    <2> QED
      BY <2>1 DEF AllTokens, OldTokens, InFlight
  <1>9. Exact(r)'
    <2>1. Exact(r)' <=> (Live(r)' => req'[r].inflight = AllTokens(r)' /\ req'[r].stale = OldTokens(r)')
      BY DEF Exact, AllTokens, OldTokens
    <2>2. req[r].inflight = AllTokens(r)
      BY <1>2, <1>7, CountsAre DEF Life
    <2> QED
      BY <1>1, <1>8, <2>1, <2>2
  <1>10. Valid(r)' = {} \/ (Valid(r) = InQueue(r) /\ Valid(r)' = InQueue(r))
    <2>1. CASE req'[r].drop
      <3>1. Valid(r)' = {}
        BY <1>3, <1>4, <2>1 DEF Valid
      <3> QED
        BY <3>1
    <2>2. CASE ~req'[r].drop
      <3>1. ~req[r].drop \/ Stale(r) = {}
        BY <1>1, <1>2, <1>7, <2>2, CountsAre DEF Life
      <3>2. Valid(r) = InQueue(r)
        BY <3>1 DEF Valid, Stale
      <3>3. Valid(r)' = InQueue(r)
        BY <1>3, <2>2 DEF Valid
      <3> QED
        BY <3>2, <3>3
    <2> QED
      BY <2>1, <2>2
  <1>11. /\ OldFirst(r)' /\ Unsent(r)' /\ Chained(r)' /\ Reaches(r)' /\ Behind(r)' /\ FirstKind(r)'
         /\ Grown(r)' /\ Caught(r)'
    BY <1>1, <1>5 DEF OldFirst, Unsent, Chained, Reaches, Behind, FirstKind, Grown, Caught
  <1>12. Living(r)'
    BY <1>1, <1>2, <1>5 DEF Life, Living
  <1>13. Totals(r)'
    BY <1>1, <1>2, <1>3, <1>4 DEF Life, Totals
  <1>14. SamplesLast(r)'
    BY <1>2, <1>3, <1>4, <1>10 DEF Life, SamplesLast, Samples, End
  <1>15. NewFirst(r)'
    BY <1>3, <1>4 DEF Life, NewFirst
  <1>16. Knows(r)'
    BY <1>1, <1>2, <1>3, <1>4 DEF Life, Knows
  <1>17. Ready(r)'
    <2> SUFFICES ASSUME NEW j \in Valid(r)', ~Ran(j)', Of(j, r)'.kind = "cached",
                        \A i \in Valid(r)' : i < j => Ran(i)'
                 PROVE  known'[r] = req'[r].tokens /\ (~Of(j, r)'.old => Of(j, r)'.start <= cached'[r])
      BY DEF Ready
    <2>1. Valid(r) = InQueue(r) /\ Valid(r)' = InQueue(r) /\ j \in InQueue(r)
      BY <1>10
    <2>2. ~Ran(j) /\ Of(j, r).kind = "cached" /\ \A i \in Valid(r) : i < j => Ran(i)
      BY <1>4, <2>1
    <2>3. known[r] = req[r].tokens
      BY <1>2, <2>1, <2>2 DEF Life, Ready
    <2> QED
      BY <1>1, <1>4, <2>1, <2>3
  <1>18. Delivery(r)'
    BY <1>2, <1>4, <1>10 DEF Life, Delivery, Samples, End
  <1> QED
    BY <1>7, <1>9, <1>11, <1>12, <1>13, <1>14, <1>15, <1>16, <1>17, <1>18 DEF Life

(* The requests that are not preempted or reset keep their entries.        *)
LEMMA OutdatedKept ==
  ASSUME NEW r \in Requests, queue \in Seq(BatchType), NEW R, r \notin R, queue' = Outdated(R),
         UNCHANGED <<known, cached, limit>>
  PROVE  Kept(r)
  <1>1. InQueue(r)' = InQueue(r)
    BY OutdatedIs DEF InQueue
  <1>2. ASSUME NEW i \in InQueue(r)
        PROVE  /\ queue'[i].entries[r] = queue[i].entries[r]
               /\ queue'[i].ran = queue[i].ran /\ queue'[i].out[r] = queue[i].out[r]
    <2>1. i \in DOMAIN queue /\ r \in DOMAIN queue[i].entries /\ queue[i] \in BatchType
      BY QueueIs DEF InQueue
    <2>2. queue'[i].entries[r] = [queue[i].entries[r] EXCEPT !.old = @ \/ r \in R]
          /\ queue'[i].ran = queue[i].ran /\ queue'[i].out = queue[i].out
      BY <2>1, OutdatedIs
    <2>3. queue[i].entries[r] \in EntryType
      BY <2>1, BatchIs
    <2>4. [queue[i].entries[r] EXCEPT !.old = @ \/ r \in R] = queue[i].entries[r]
      BY <2>3 DEF EntryType
    <2> QED
      BY <2>2, <2>4
  <1> QED
    BY <1>1, <1>2 DEF Kept

(* A request that arrives is as one that has not been scheduled.           *)
LEMMA AddLife ==
  ASSUME NEW r \in Requests, Life(r), Kept(r), queue \in Seq(BatchType), queue' \in Seq(BatchType),
         req[r].status = "absent", req'[r].status = "waiting", limit[r] \in Nat \ {0},
         req'[r].tokens = req[r].tokens, req'[r].inflight = req[r].inflight,
         req'[r].stale = req[r].stale
  PROVE  Life(r)'
  <1>1. /\ InQueue(r) = {} /\ req[r].tokens = Prompt[r] /\ req[r].inflight = 0 /\ req[r].stale = 0
    BY DEF Life, Unsent
  <1>2. InQueue(r)' = {}
    BY <1>1, KeptSets
  <1>3. Fresh(r)' = {} /\ Stale(r)' = {} /\ Valid(r)' = {}
    BY <1>2 DEF Fresh, Stale, Valid
  <1>4. Tokens(r, TRUE)' = {} /\ Tokens(r, FALSE)' = {}
    BY <1>2 DEF Tokens
  <1>5. Exact(r)'
    <2>1. InFlight(r, TRUE)' = 0 /\ InFlight(r, FALSE)' = 0
      BY <1>4, FS_EmptySet DEF InFlight
    <2> QED
      BY <1>1, <2>1 DEF Exact
  <1>6. Living(r)'
    <2>1. limit'[r] \in Nat \ {0} /\ Prompt[r] \in Nat
      BY Constants DEF Kept
    <2> QED
      BY <1>1, <1>3, <2>1 DEF Living
  <1>7. /\ OldFirst(r)' /\ Unsent(r)' /\ SaneEntries(r)' /\ Totals(r)' /\ SamplesLast(r)'
        /\ Chained(r)' /\ Reaches(r)' /\ Behind(r)' /\ NewFirst(r)' /\ FirstKind(r)' /\ Grown(r)'
        /\ Knows(r)' /\ Ready(r)' /\ Caught(r)' /\ Delivery(r)'
    BY <1>1, <1>2, <1>3 DEF OldFirst, Unsent, SaneEntries, Totals, SamplesLast, Chained, Reaches,
       Behind, NewFirst, FirstKind, Grown, Knows, Ready, Caught, Delivery
  <1> QED
    BY <1>5, <1>6, <1>7 DEF Life

(* A request that waits has nothing fresh in flight.                       *)
LEMMA WaitsFree ==
  ASSUME NEW r \in Requests, Life(r), req[r].status \in {"waiting", "preempted"}
  PROVE  Live(r) /\ Fresh(r) = {} /\ (req[r].status = "waiting" => InQueue(r) = {})
  BY DEF Life, Living, Live, Unsent

(* Admission begins a life: nothing fresh is in flight, and what is        *)
(* stale is dropped on arrival, or there is none.                          *)
LEMMA AdmitLife ==
  ASSUME NEW r \in Requests, Life(r), Kept(r), queue \in Seq(BatchType),
         req[r].status \in {"waiting", "preempted"}, req'[r].status = "running",
         req'[r].tokens = req[r].tokens, req'[r].inflight = req[r].inflight,
         req'[r].stale = req[r].stale, req'[r].drop = req[r].drop,
         req'[r].computed < req[r].tokens,
         ~(req[r].stale > 0 /\ ~req[r].drop), ~Entering(r), Entering(r)',
         req[r].status = "waiting" => step'.entries[r].kind = "new"
  PROVE  Life(r)'
  <1> USE KeptSets
  <1>1. Live(r) /\ Live(r)' /\ Fresh(r) = {} /\ (req[r].status = "waiting" => InQueue(r) = {})
    BY WaitsFree DEF Live
  <1>2. SaneEntries(r)
    BY DEF Life
  <1>3. Stale(r) = {} \/ req[r].drop
    BY <1>1, <1>2, CountsAre DEF Life
  <1>4. Valid(r)' = Valid(r) /\ \A i \in Valid(r) : i \in InQueue(r)
    BY DEF Valid
  <1>5. OldFirst(r)' /\ Unsent(r)' /\ Chained(r)' /\ Reaches(r)' /\ FirstKind(r)' /\ Grown(r)'
        /\ Caught(r)'
    BY <1>1 DEF OldFirst, Unsent, Chained, Reaches, FirstKind, Grown, Caught
  <1>6. SaneEntries(r)' /\ NewFirst(r)'
    BY DEF Life, SaneEntries, Sane, End, Samples, NewFirst
  <1>7. Exact(r)'
    BY <1>1 DEF Life, Exact
  <1>8. Living(r)'
    BY <1>1, <1>3 DEF Life, Living, Kept
  <1>9. Totals(r)' /\ Behind(r)'
    BY <1>1 DEF Life, Totals, Behind
  <1>10. SamplesLast(r)'
    BY <1>1, <1>4 DEF Life, SamplesLast, Samples, End
  <1>11. Knows(r)'
    BY <1>1 DEF Life, Knows, Kept
  <1>12. Ready(r)'
    <2> SUFFICES ASSUME NEW j \in Valid(r)', ~Ran(j)', Of(j, r)'.kind = "cached",
                        \A i \in Valid(r)' : i < j => Ran(i)'
                 PROVE  known'[r] = req'[r].tokens /\ (~Of(j, r)'.old => Of(j, r)'.start <= cached'[r])
      BY DEF Ready
    <2>1. j \in Valid(r) /\ ~Ran(j) /\ Of(j, r).kind = "cached" /\ Of(j, r)' = Of(j, r)
          /\ \A i \in Valid(r) : i < j => Ran(i)
      BY <1>4
    <2>2. known[r] = req[r].tokens /\ (~Of(j, r).old => Of(j, r).start <= cached[r])
      BY <1>1, <2>1 DEF Life, Ready
    <2> QED
      BY <2>1, <2>2 DEF Kept
  <1>13. Delivery(r)'
    <2> SUFFICES ASSUME NEW j \in Valid(r)', Ran(j)'
                 PROVE  /\ Out(j, r)'.follows = Of(j, r)'.total
                        /\ Out(j, r)'.count > 0 <=> Samples(Of(j, r))'
                        /\ Samples(Of(j, r))' =>
                              /\ known'[r] = Of(j, r)'.total + Out(j, r)'.count
                              /\ Out(j, r)'.count <= 1 + Of(j, r)'.spec
                              /\ ~Of(j, r)'.old =>
                                   cached'[r] = End(Of(j, r))' - (Of(j, r)'.spec - (Out(j, r)'.count - 1))
      BY DEF Delivery
    <2>1. j \in Valid(r) /\ Ran(j) /\ Of(j, r)' = Of(j, r) /\ Out(j, r)' = Out(j, r)
      BY <1>4
    <2>2. known'[r] = known[r] /\ cached'[r] = cached[r]
      BY DEF Kept
    <2> QED
      BY <1>1, <2>1, <2>2 DEF Life, Delivery, Samples, End
  <1> QED
    BY <1>5, <1>6, <1>7, <1>8, <1>9, <1>10, <1>11, <1>12, <1>13 DEF Life

(* A batch that joins the queue keeps the entries of other requests.       *)
LEMMA CloseKept ==
  ASSUME NEW r \in Requests, queue \in Seq(BatchType), NEW b \in BatchType,
         r \notin DOMAIN b.entries, queue' = Append(queue, b),
         UNCHANGED <<known, cached, limit>>
  PROVE  Kept(r)
  <1>1. /\ Len(queue') = Len(queue) + 1 /\ DOMAIN queue' = 1 .. Len(queue) + 1 /\ Len(queue) \in Nat
        /\ queue'[Len(queue) + 1] = b /\ DOMAIN queue = 1 .. Len(queue)
        /\ \A i \in 1 .. Len(queue) : queue'[i] = queue[i]
    OBVIOUS
  <1>2. InQueue(r)' = InQueue(r)
    BY <1>1 DEF InQueue
  <1>3. \A i \in InQueue(r) : i \in 1 .. Len(queue)
    BY <1>1 DEF InQueue
  <1> QED
    BY <1>1, <1>2, <1>3 DEF Kept

(* The batch with r's entry joins the queue.                               *)
LEMMA CloseLife ==
  ASSUME NEW r \in Requests, Life(r), queue \in Seq(BatchType), NEW b \in BatchType,
         r \in DOMAIN b.entries, queue' = Append(queue, b), ~b.ran,
         UNCHANGED <<known, cached, limit>>, req[r] \in RequestType,
         Continues(b.entries[r], r),
         Entering(r) => b.entries[r] = step.entries[r],
         b.entries[r].kind = "cached" => ~Entering(r), ~Entering(r)',
         req'[r].status = req[r].status, req'[r].tokens = req[r].tokens,
         req'[r].stale = req[r].stale, req'[r].drop = req[r].drop,
         req'[r].computed = req[r].computed + b.entries[r].n,
         req'[r].inflight = req[r].inflight + b.entries[r].n
  PROVE  Life(r)'
  <1>m. PICK m \in Nat : m = Len(queue) + 1
    OBVIOUS
  <1>e. PICK e : e = b.entries[r]
    OBVIOUS
  <1>1. /\ DOMAIN queue' = 1 .. m /\ Len(queue) \in Nat /\ m = Len(queue) + 1
        /\ queue'[m] = b /\ DOMAIN queue = 1 .. Len(queue)
        /\ queue' \in Seq(BatchType)
        /\ \A i \in 1 .. Len(queue) : queue'[i] = queue[i]
    BY <1>m
  <1>2. /\ e \in EntryType /\ e.n \in Int /\ e.start \in Int /\ e.total \in Nat
        /\ e.spec \in 0 .. NumSpec /\ e.old \in BOOLEAN
    BY <1>e, BatchIs DEF EntryType
  <1>3. /\ req[r].status = "running" /\ ~e.old
        /\ e.start = req[r].computed /\ e.total = req[r].tokens
        /\ Sane(e, r)
        /\ \A i \in Fresh(r) : ~Samples(Of(i, r))
        /\ e.kind # "cached" => Fresh(r) = {}
        /\ e.kind = "new" => InQueue(r) = {}
    BY <1>e DEF Continues
  <1>4. InQueue(r)' = InQueue(r) \cup {m}
    BY <1>1, <1>e DEF InQueue
  <1>5. \A i \in InQueue(r) : i \in 1 .. Len(queue) /\ i \in Nat /\ i < m /\ i # m
    BY <1>1 DEF InQueue
  <1>6. \A i \in InQueue(r) : Of(i, r)' = Of(i, r) /\ Ran(i)' = Ran(i) /\ Out(i, r)' = Out(i, r)
    BY <1>1, <1>5 DEF Of, Ran, Out
  <1>7. Of(m, r)' = e /\ ~Ran(m)'
    BY <1>1, <1>e DEF Of, Ran
  <1>8. Fresh(r)' = Fresh(r) \cup {m} /\ Stale(r)' = Stale(r)
    BY <1>3, <1>4, <1>6, <1>7 DEF Fresh, Stale
  <1>9. Valid(r)' = Valid(r) \cup {m}
    BY <1>3, <1>4, <1>6, <1>7 DEF Valid
  <1>10. \A i : i \in Fresh(r) \/ i \in Stale(r) \/ i \in Valid(r) => i \in InQueue(r)
    BY DEF Fresh, Stale, Valid
  <1>11. Live(r) /\ Live(r)'
    BY <1>3 DEF Live
  <1>12. OldFirst(r)'
    BY <1>5, <1>8, <1>10 DEF Life, OldFirst
  <1>13. Unsent(r)'
    BY <1>3 DEF Unsent
  <1>14. SaneEntries(r)'
    BY <1>3, <1>4, <1>6, <1>7 DEF Life, SaneEntries, Sane, Samples, End
  <1>15. Exact(r)'
    <2>1. e.n \in Int /\ e.n > 0
      BY <1>2, <1>3 DEF Sane
    <2>2. AllSet(r)' = AllSet(r) \cup ({m} \X (1 .. e.n))
      <3>a. /\ \A t : t \in AllSet(r) <=>
                  \E i \in InQueue(r) : \E k \in 1 .. Of(i, r).n : t = <<i, k>>
            /\ \A t : t \in AllSet(r)' <=>
                  \E i \in InQueue(r)' : \E k \in 1 .. Of(i, r)'.n : t = <<i, k>>
        BY TokensAre
      <3>1. \A t : t \in AllSet(r)' <=> t \in AllSet(r) \/ \E k \in 1 .. e.n : t = <<m, k>>
        BY <1>4, <1>6, <1>7, <3>a
      <3> QED
        BY <3>1
    <2>3. OldSet(r)' = OldSet(r)
      <3>1. \A t : t \in OldSet(r)' <=> t \in OldSet(r)
        BY <1>6, <1>8, <1>10, TokensAre
      <3> QED
        BY <3>1
    <2>4. \A k : <<m, k>> \notin AllSet(r)
      BY <1>5, TokensAre
    <2>5. Cardinality(AllSet(r) \cup ({m} \X (1 .. e.n))) = Cardinality(AllSet(r)) + e.n
      BY <2>1, <2>4, SetsFinite, CountMore
    <2>6. AllTokens(r)' = AllTokens(r) + e.n /\ OldTokens(r)' = OldTokens(r)
      BY <2>2, <2>3, <2>5, CountsDef
    <2>7. req[r].inflight = AllTokens(r) /\ req[r].stale = OldTokens(r)
      BY <1>11, CountsDef DEF Life
    <2>8. req'[r].inflight = AllTokens(r)' /\ req'[r].stale = OldTokens(r)'
      BY <2>6, <2>7, <1>e
    <2> QED
      BY <2>8, CountsDef
  <1>16. Living(r)'
    BY <1>3, <1>8, <1>11 DEF Life, Living
  <1>17. Totals(r)'
    BY <1>3, <1>4, <1>6, <1>7, <1>11 DEF Life, Totals
  <1>18. ASSUME NEW i \in Valid(r) PROVE ~Samples(Of(i, r))
    <2>1. Stale(r) = {} \/ req[r].drop
      BY <1>3, <1>11 DEF Life, Living
    <2>2. i \in Fresh(r)
      BY <1>10, <2>1 DEF Valid, Fresh, Stale
    <2> QED
      BY <1>3, <2>2
  <1>19. SamplesLast(r)'
    <2>1. \A i \in Valid(r) : ~Samples(Of(i, r))'
      BY <1>6, <1>10, <1>18 DEF Samples, End
    <2>2. \A k \in InQueue(r)' : k <= m
      BY <1>4, <1>5, <1>m
    <2> QED
      BY <1>9, <2>1, <2>2 DEF SamplesLast
  <1>20. Chained(r)'
    <2> SUFFICES ASSUME NEW i \in Fresh(r)', NEW j \in Fresh(r)', i < j,
                        \A k \in Fresh(r)' : k <= i \/ j <= k
                 PROVE  Of(j, r)'.start = End(Of(i, r))'
      BY DEF Chained
    <2>1. CASE j = m
      <3>1. i \in Fresh(r)
        BY <1>8, <1>m, <2>1
      <3>2. \A k \in Fresh(r) : k <= i
        BY <1>5, <1>8, <1>10, <1>m, <2>1
      <3>3. req[r].computed = End(Of(i, r))
        BY <1>11, <3>1, <3>2 DEF Life, Reaches
      <3> QED
        BY <1>3, <1>6, <1>7, <1>10, <2>1, <3>1, <3>3 DEF End
    <2>2. CASE j # m
      <3>1. j \in Fresh(r) /\ i \in Fresh(r)
        BY <1>5, <1>8, <1>10, <1>m, <2>2
      <3>2. Of(j, r).start = End(Of(i, r))
        BY <1>8, <1>11, <3>1 DEF Life, Chained
      <3> QED
        BY <1>6, <1>10, <3>1, <3>2 DEF End
    <2> QED
      BY <2>1, <2>2
  <1>21. Reaches(r)'
    <2> SUFFICES ASSUME NEW i \in Fresh(r)', \A k \in Fresh(r)' : k <= i
                 PROVE  req'[r].computed = End(Of(i, r))'
      BY DEF Reaches
    <2>1. i = m
      BY <1>5, <1>8, <1>10, <1>m
    <2> QED
      BY <1>3, <1>7, <1>e, <2>1 DEF End
  <1>22. Behind(r)' /\ Grown(r)'
    BY <1>8 DEF Behind, Grown
  <1>23. NewFirst(r)'
    <2> SUFFICES ASSUME NEW i \in InQueue(r)', NEW j \in InQueue(r)', Of(j, r)'.kind = "new"
                 PROVE  j <= i
      BY DEF NewFirst
    <2>1. CASE j = m
      <3>1. InQueue(r)' = {m}
        BY <1>3, <1>4, <1>7, <2>1
      <3> QED
        BY <1>m, <3>1
    <2>2. CASE j # m
      <3>1. j \in InQueue(r) /\ Of(j, r).kind = "new"
        BY <1>4, <1>6, <2>2
      <3>2. CASE i = m
        BY <1>5, <1>m, <3>1, <3>2
      <3>3. CASE i # m
        BY <1>4, <3>1, <3>3 DEF Life, NewFirst
      <3> QED
        BY <3>2, <3>3
    <2> QED
      BY <2>1, <2>2
  <1>24. FirstKind(r)'
    <2> SUFFICES ASSUME NEW j \in Fresh(r)', Of(j, r)'.kind = "cached", Stale(r)' # {}
                 PROVE  \E l \in Fresh(r)' : l < j
      BY DEF FirstKind
    <2>1. CASE j = m
      <3>1. Fresh(r) # {}
        BY <1>3, <1>7, <1>8, <1>e, <2>1 DEF Life, Grown
      <3> QED
        BY <1>5, <1>8, <1>10, <2>1, <3>1
    <2>2. CASE j # m
      BY <1>6, <1>8, <1>10, <2>2 DEF Life, FirstKind
    <2> QED
      BY <2>1, <2>2
  <1>25. Knows(r)'
    <2>1. CASE Entering(r) /\ step.entries[r].kind = "new"
      <3>1. m \in InQueue(r)' /\ ~Ran(m)' /\ Of(m, r)'.kind = "new"
        BY <1>4, <1>7, <1>e, <2>1
      <3> QED
        BY <3>1 DEF Knows
    <2>2. CASE \E j \in InQueue(r) : ~Ran(j) /\ Of(j, r).kind = "new"
      <3>1. \E j \in InQueue(r)' : ~Ran(j)' /\ Of(j, r)'.kind = "new"
        BY <1>4, <1>6, <2>2
      <3> QED
        BY <3>1 DEF Knows
    <2>3. CASE req[r].tokens <= known[r]
      BY <2>3 DEF Knows
    <2> QED
      BY <1>3, <1>11, <2>1, <2>2, <2>3 DEF Life, Knows
  <1>26. Ready(r)'
    <2> SUFFICES ASSUME NEW j \in Valid(r)', ~Ran(j)', Of(j, r)'.kind = "cached",
                        \A i \in Valid(r)' : i < j => Ran(i)'
                 PROVE  known'[r] = req'[r].tokens /\ (~Of(j, r)'.old => Of(j, r)'.start <= cached'[r])
      BY DEF Ready
    <2>1. CASE j = m
      <3>1. \A i \in Fresh(r) : Ran(i)
        <4> SUFFICES ASSUME NEW i \in Fresh(r) PROVE Ran(i)
          OBVIOUS
        <4>1. i \in Valid(r) /\ i < m
          BY <1>5, <1>10 DEF Fresh, Valid
        <4> QED
          BY <1>6, <1>9, <1>10, <2>1, <4>1
      <3>2. ~Entering(r)
        BY <1>7, <1>e, <2>1
      <3>3. known[r] = req[r].tokens /\ req[r].computed <= cached[r]
        BY <1>3, <3>1, <3>2 DEF Life, Caught
      <3> QED
        BY <1>3, <1>7, <2>1, <3>3
    <2>2. CASE j # m
      <3>1. j \in Valid(r) /\ ~Ran(j) /\ Of(j, r).kind = "cached" /\ Of(j, r)' = Of(j, r)
        BY <1>6, <1>9, <1>10, <2>2
      <3>2. \A i \in Valid(r) : i < j => Ran(i)
        BY <1>6, <1>9, <1>10
      <3>3. known[r] = req[r].tokens /\ (~Of(j, r).old => Of(j, r).start <= cached[r])
        BY <1>11, <3>1, <3>2 DEF Life, Ready
      <3> QED
        BY <3>1, <3>3
    <2> QED
      BY <2>1, <2>2
  <1>27. Caught(r)'
    BY <1>7, <1>8 DEF Caught
  <1>28. Delivery(r)'
    <2> SUFFICES ASSUME NEW j \in Valid(r)', Ran(j)'
                 PROVE  /\ Out(j, r)'.follows = Of(j, r)'.total
                        /\ Out(j, r)'.count > 0 <=> Samples(Of(j, r))'
                        /\ Samples(Of(j, r))' =>
                              /\ known'[r] = Of(j, r)'.total + Out(j, r)'.count
                              /\ Out(j, r)'.count <= 1 + Of(j, r)'.spec
                              /\ ~Of(j, r)'.old =>
                                   cached'[r] = End(Of(j, r))' - (Of(j, r)'.spec - (Out(j, r)'.count - 1))
      BY DEF Delivery
    <2>1. j \in Valid(r) /\ Ran(j) /\ Of(j, r)' = Of(j, r) /\ Out(j, r)' = Out(j, r)
      BY <1>6, <1>7, <1>9, <1>10
    <2> QED
      BY <1>11, <2>1 DEF Life, Delivery, Samples, End
  <1> QED
    BY <1>12, <1>13, <1>14, <1>15, <1>16, <1>17, <1>19, <1>20, <1>21, <1>22, <1>23, <1>24, <1>25,
       <1>26, <1>27, <1>28 DEF Life

-----------------------------------------------------------------------------
(***************************************************************************)
(* Work.                                                                   *)
(***************************************************************************)

(* The batch that is due is the first that has not run.                    *)
LEMMA DueIs ==
  ASSUME queue \in Seq(BatchType), Progress, \E i \in DOMAIN queue : ~queue[i].ran
  PROVE  /\ Due \in DOMAIN queue /\ Due \in Nat /\ ~Ran(Due)
         /\ \A j \in DOMAIN queue : Ran(j) <=> j < Due
  <1>1. DOMAIN queue = 1 .. Len(queue) /\ Len(queue) \in Nat
    BY QueueIs
  <1>2. PICK m \in 0 .. Len(queue) : \A i \in DOMAIN queue : queue[i].ran <=> i <= m
    BY DEF Progress
  <1>3. m + 1 \in DOMAIN queue /\ m \in Nat
    BY <1>1, <1>2
  <1>4. ~queue[m + 1].ran /\ \A j \in 1 .. (m + 1) - 1 : queue[j].ran
    BY <1>1, <1>2, <1>3
  <1>5. Due \in DOMAIN queue /\ ~queue[Due].ran /\ \A j \in 1 .. Due - 1 : queue[j].ran
    BY <1>3, <1>4 DEF Due
  <1> DEFINE d == Due
  <1>6. d \in 1 .. Len(queue) /\ ~queue[d].ran /\ \A j \in 1 .. d - 1 : queue[j].ran
    BY <1>1, <1>5
  <1> HIDE DEF d
  <1>7. d = m + 1
    <2>1. d > m
      BY <1>1, <1>2, <1>6
    <2>2. ~(d > m + 1)
      BY <1>1, <1>3, <1>4, <1>6
    <2> QED
      BY <1>1, <1>3, <1>6, <2>1, <2>2
  <1>8. \A j \in DOMAIN queue : queue[j].ran <=> j < d
    BY <1>1, <1>2, <1>7
  <1> QED
    BY <1>1, <1>6, <1>8 DEF d, Ran

(* The batch d runs and leaves outputs O.                                  *)
Runs(d, O) == queue' = [queue EXCEPT ![d].ran = TRUE, ![d].out = O]

(* Only the batch d changes, and only in having run.                       *)
LEMMA RunsIs ==
  ASSUME queue \in Seq(BatchType), NEW d \in DOMAIN queue, NEW O \in OutType, Runs(d, O)
  PROVE  /\ queue' \in Seq(BatchType) /\ DOMAIN queue' = DOMAIN queue /\ Len(queue') = Len(queue)
         /\ \A i \in DOMAIN queue : i # d => queue'[i] = queue[i]
         /\ queue'[d].entries = queue[d].entries /\ queue'[d].ran /\ queue'[d].out = O
  <1>1. DOMAIN queue = 1 .. Len(queue) /\ Len(queue) \in Nat /\ queue[d] \in BatchType
    BY QueueIs
  <1> DEFINE b == [queue[d] EXCEPT !.ran = TRUE, !.out = O]
  <1>2. b \in BatchType /\ b.entries = queue[d].entries /\ b.ran /\ b.out = O
    BY <1>1 DEF BatchType
  <1>3. queue' = [queue EXCEPT ![d] = b]
    BY DEF Runs
  <1> HIDE DEF b
  <1> QED
    BY <1>1, <1>2, <1>3

(* Requests that are not in the batch keep what they have.                 *)
LEMMA WorkKept ==
  ASSUME queue \in Seq(BatchType), NEW d \in DOMAIN queue, NEW O \in OutType, Runs(d, O),
         NEW r, r \notin DOMAIN queue[d].entries,
         known'[r] = known[r], cached'[r] = cached[r], limit' = limit
  PROVE  Kept(r)
  <1>1. InQueue(r)' = InQueue(r)
    BY RunsIs DEF InQueue
  <1>2. \A i \in InQueue(r) : i \in DOMAIN queue /\ i # d
    BY DEF InQueue
  <1> QED
    BY <1>1, <1>2, RunsIs DEF Kept

(* What the last stage does to r with its entry e, a drafts of it accepted. *)
Worked(r, O, e, a, k, c, p) ==
  /\ k = Known(e, r) /\ a \in 0 .. NumSpec /\ c \in Nat /\ p \in Int
  /\ O[r] = [follows |-> k, count |-> c] /\ known'[r] = k + c /\ cached'[r] = p
  /\ Sampled(e, r) => a <= e.spec /\ c = 1 + a /\ p = End(e) - (e.spec - a)
  /\ ~Sampled(e, r) => c = 0 /\ p = End(e)

(* What the last stage does with the entry of r in the batch that is       *)
(* due: it starts from r's text and leaves what the next entry builds      *)
(* on.                                                                     *)
LEMMA WorkLife ==
  ASSUME queue \in Seq(BatchType), NEW d \in DOMAIN queue, ~Ran(d),
         \A j \in DOMAIN queue : Ran(j) <=> j < d,
         NEW O \in OutType, Runs(d, O),
         NEW r \in Requests, r \in DOMAIN queue[d].entries, Life(r), ~InSchedule, ~InSchedule',
         UNCHANGED <<req, limit>>, known \in [Requests -> Nat], req[r] \in RequestType,
         NEW e, e = Of(d, r), NEW a, NEW k, NEW c, NEW p, Worked(r, O, e, a, k, c, p)
  PROVE  Life(r)'
  <1>w. /\ k = Known(e, r) /\ a \in 0 .. NumSpec /\ c \in Nat /\ p \in Int
        /\ O[r] = [follows |-> k, count |-> c] /\ known'[r] = k + c /\ cached'[r] = p
        /\ Sampled(e, r) => a <= e.spec /\ c = 1 + a /\ p = End(e) - (e.spec - a)
        /\ ~Sampled(e, r) => c = 0 /\ p = End(e)
    BY DEF Worked
  <1>1. /\ InQueue(r)' = InQueue(r) /\ d \in InQueue(r) /\ d \in Nat
        /\ \A i \in InQueue(r) : i \in DOMAIN queue /\ i \in Nat
    BY QueueIs, RunsIs DEF InQueue
  <1>2. \A i \in InQueue(r) : Of(i, r)' = Of(i, r)
    BY <1>1, RunsIs DEF Of
  <1>3. \A i \in InQueue(r) : (Ran(i)' <=> i <= d) /\ (Ran(i) <=> i < d)
    <2>1. \A i \in DOMAIN queue : i # d => Ran(i)' = Ran(i)
      BY RunsIs DEF Ran
    <2>2. Ran(d)'
      BY RunsIs DEF Ran
    <2> QED
      BY <1>1, <2>1, <2>2
  <1>4. (\A i \in InQueue(r) : i # d => Out(i, r)' = Out(i, r)) /\ Out(d, r)' = O[r]
    BY <1>1, RunsIs DEF Out
  <1>5. Fresh(r)' = Fresh(r) /\ Stale(r)' = Stale(r) /\ Valid(r)' = Valid(r)
    BY <1>1, <1>2 DEF Fresh, Stale, Valid
  <1>6. \A i : i \in Fresh(r) \/ i \in Stale(r) \/ i \in Valid(r) => i \in InQueue(r)
    BY DEF Fresh, Stale, Valid
  <1>7. Live(r)' = Live(r) /\ ~Entering(r) /\ ~Entering(r)'
    BY DEF Live, Entering
  <1>8. /\ OldFirst(r)' /\ Unsent(r)' /\ SaneEntries(r)' /\ Living(r)'
        /\ Totals(r)' /\ SamplesLast(r)' /\ Chained(r)' /\ Reaches(r)' /\ Behind(r)'
        /\ NewFirst(r)' /\ FirstKind(r)' /\ Grown(r)'
    <2>1. OldFirst(r)' /\ Unsent(r)'
      BY <1>1, <1>5 DEF Life, OldFirst, Unsent
    <2>2. SaneEntries(r)'
      BY <1>1, <1>2 DEF Life, SaneEntries, Sane, Samples, End
    <2>3. Living(r)'
      BY <1>5, <1>7 DEF Life, Living
    <2>4. Totals(r)'
      BY <1>1, <1>2, <1>7 DEF Life, Totals
    <2>5. SamplesLast(r)'
      BY <1>1, <1>2, <1>5, <1>6, <1>7 DEF Life, SamplesLast, Samples, End
    <2>6. Chained(r)'
      BY <1>2, <1>5, <1>6, <1>7 DEF Life, Chained, End
    <2>7. Reaches(r)'
      BY <1>2, <1>5, <1>6, <1>7 DEF Life, Reaches, End
    <2>8. Behind(r)' /\ Grown(r)'
      BY <1>5, <1>7 DEF Life, Behind, Grown
    <2>9. NewFirst(r)'
      BY <1>1, <1>2 DEF Life, NewFirst
    <2>10. FirstKind(r)'
      BY <1>2, <1>5, <1>6 DEF Life, FirstKind
    <2> QED
      BY <2>1, <2>2, <2>3, <2>4, <2>5, <2>6, <2>7, <2>8, <2>9, <2>10
  <1>9. Exact(r)'
    <2>1. \A t : t \in AllSet(r)' <=> t \in AllSet(r)
      <3>1. \A t : t \in AllSet(r) <=> \E i \in InQueue(r) : \E n \in 1 .. Of(i, r).n : t = <<i, n>>
        BY TokensAre
      <3>2. \A t : t \in AllSet(r)' <=>
                 \E i \in InQueue(r)' : \E n \in 1 .. Of(i, r)'.n : t = <<i, n>>
        BY TokensAre
      <3>3. InQueue(r)' = InQueue(r)
        BY <1>1
      <3> QED
        BY <1>2, <3>1, <3>2, <3>3
    <2>2. \A t : t \in OldSet(r)' <=> t \in OldSet(r)
      <3>1. \A t : t \in OldSet(r) <=> \E i \in Stale(r) : \E n \in 1 .. Of(i, r).n : t = <<i, n>>
        BY TokensAre
      <3>2. \A t : t \in OldSet(r)' <=>
                 \E i \in Stale(r)' : \E n \in 1 .. Of(i, r)'.n : t = <<i, n>>
        BY TokensAre
      <3>3. Stale(r)' = Stale(r) /\ \A i \in Stale(r) : Of(i, r)' = Of(i, r)
        BY <1>2, <1>5, <1>6
      <3> QED
        BY <3>1, <3>2, <3>3
    <2>3. AllSet(r)' = AllSet(r) /\ OldSet(r)' = OldSet(r)
      BY <2>1, <2>2
    <2>4. AllTokens(r)' = AllTokens(r) /\ OldTokens(r)' = OldTokens(r)
      BY <2>3, CountsDef
    <2> QED
      BY <1>7, <2>4, CountsDef DEF Life
  <1>10. CASE ~Live(r)
    <2>1. req[r].status # "running"
      BY <1>10 DEF Live
    <2>2. Knows(r)' /\ Ready(r)' /\ Caught(r)' /\ Delivery(r)'
      BY <1>7, <1>10, <2>1 DEF Knows, Ready, Caught, Delivery
    <2> QED
      BY <1>8, <1>9, <2>2 DEF Life
  <1>11. CASE Live(r)
    <2> USE <1>11
    <2>1. /\ e \in EntryType /\ e.n \in Int /\ e.start \in Int /\ e.total \in Nat
          /\ e.spec \in 0 .. NumSpec /\ End(e) \in Int
      <3>1. queue[d] \in BatchType
        BY QueueIs
      <3>2. e \in EntryType
        BY <3>1, BatchIs DEF Of
      <3> QED
        BY <3>2 DEF EntryType, End
    <2>2. Sane(e, r) /\ e.total = req[r].tokens /\ known[r] \in Nat /\ req[r].tokens \in Nat
      BY <1>1, RequestIs DEF Life, SaneEntries, Totals
    <2>3. k = e.total
      <3>1. CASE e.kind = "new"
        BY <1>w, <2>2, <3>1 DEF Known, Sane
      <3>2. CASE e.kind # "new"
        <4>1. req[r].status # "waiting"
          BY <1>1 DEF Life, Unsent
        <4>2. ~\E j \in InQueue(r) : ~Ran(j) /\ Of(j, r).kind = "new"
          <5> SUFFICES ASSUME NEW j \in InQueue(r), ~Ran(j), Of(j, r).kind = "new" PROVE FALSE
            OBVIOUS
          <5>1. j <= d
            BY <1>1 DEF Life, NewFirst
          <5>2. ~(j < d)
            BY <1>3
          <5>3. j = d
            BY <1>1, <5>1, <5>2
          <5> QED
            BY <3>2, <5>3
        <4>3. req[r].tokens <= known[r]
          BY <1>7, <4>1, <4>2 DEF Life, Knows
        <4> QED
          BY <1>w, <2>1, <2>2, <3>2, <4>3 DEF Known, Smaller
      <3> QED
        BY <3>1, <3>2
    <2>4. Sampled(e, r) <=> Samples(e)
      BY <1>w, <2>3 DEF Sampled, Samples, End
    <2>5. /\ e.total <= known'[r]
          /\ ~Samples(e) => known'[r] = req'[r].tokens /\ cached'[r] = End(e)
      BY <1>w, <2>1, <2>2, <2>3, <2>4
    <2>6. Knows(r)'
      BY <2>2, <2>5 DEF Knows
    <2>7. Ready(r)'
      <3> SUFFICES ASSUME NEW j \in Valid(r)', ~Ran(j)', Of(j, r)'.kind = "cached",
                          \A i \in Valid(r)' : i < j => Ran(i)'
                   PROVE  known'[r] = req'[r].tokens /\ (~Of(j, r)'.old => Of(j, r)'.start <= cached'[r])
        BY DEF Ready
      <3>1. j \in Valid(r) /\ j \in InQueue(r) /\ j \in Nat /\ d < j /\ Of(j, r)' = Of(j, r)
        BY <1>1, <1>2, <1>3, <1>5, <1>6
      <3>2. \A i \in Valid(r) : i < j => i <= d
        BY <1>3, <1>5, <1>6
      <3>3. CASE d \in Valid(r)
        <4>1. ~Samples(e)
          BY <1>1, <3>1, <3>3 DEF Life, SamplesLast
        <4>2. ASSUME ~Of(j, r).old PROVE Of(j, r).start = End(e)
          <5>1. j \in Fresh(r)
            BY <3>1, <4>2 DEF Fresh
          <5>2. req[r].status = "running"
            BY <5>1 DEF Life, Living
          <5>3. d \in Fresh(r)
            BY <3>3, <5>2 DEF Life, Living, Fresh, Stale, Valid
          <5>4. \A i \in Fresh(r) : i <= d \/ j <= i
            <6> SUFFICES ASSUME NEW i \in Fresh(r) PROVE i <= d \/ j <= i
              OBVIOUS
            <6>1. i \in Valid(r) /\ i \in Nat
              BY <1>1 DEF Fresh, Valid
            <6> QED
              BY <3>1, <3>2, <6>1
          <5> QED
            BY <3>1, <5>1, <5>3, <5>4 DEF Life, Chained
        <4> QED
          BY <2>1, <2>5, <3>1, <4>1, <4>2
      <3>4. CASE d \notin Valid(r)
        <4>1. d \in Stale(r) /\ req[r].drop
          BY <1>1, <3>4 DEF Valid, Stale
        <4>2. j \in Fresh(r)
          BY <3>1, <4>1 DEF Fresh, Valid
        <4>3. PICK l \in Fresh(r) : l < j
          BY <3>1, <4>1, <4>2 DEF Life, FirstKind
        <4>4. l \in Valid(r) /\ l \in Nat
          BY <1>1 DEF Fresh, Valid
        <4>5. l <= d
          BY <3>2, <4>3, <4>4
        <4>6. d < l
          BY <4>1 DEF Life, OldFirst
        <4> QED
          BY <1>1, <4>4, <4>5, <4>6
      <3> QED
        BY <3>3, <3>4
    <2>8. Caught(r)'
      <3> SUFFICES ASSUME req'[r].status = "running", \A i \in Fresh(r)' : Ran(i)' /\ ~Samples(Of(i, r))'
                   PROVE  known'[r] = req'[r].tokens /\ req'[r].computed <= cached'[r]
        BY DEF Caught
      <3>1. \A i \in Fresh(r) : i <= d /\ ~Samples(Of(i, r))
        BY <1>2, <1>3, <1>5, <1>6 DEF Samples, End
      <3>2. d \in Fresh(r)
        <4> SUFFICES ASSUME d \notin Fresh(r) PROVE FALSE
          OBVIOUS
        <4>1. d \in Stale(r)
          BY <1>1 DEF Fresh, Stale
        <4>2. PICK l : l \in Fresh(r)
          BY <1>7, <4>1 DEF Life, Grown
        <4>3. d < l /\ l <= d /\ l \in Nat
          BY <1>1, <1>6, <3>1, <4>1, <4>2 DEF Life, OldFirst
        <4> QED
          BY <1>1, <4>3
      <3>3. req[r].computed = End(e)
        BY <3>1, <3>2 DEF Life, Reaches
      <3> QED
        BY <2>1, <2>5, <3>1, <3>2, <3>3
    <2>9. Delivery(r)'
      <3> SUFFICES ASSUME NEW j \in Valid(r)', Ran(j)'
                   PROVE  /\ Out(j, r)'.follows = Of(j, r)'.total
                          /\ Out(j, r)'.count > 0 <=> Samples(Of(j, r))'
                          /\ Samples(Of(j, r))' =>
                                /\ known'[r] = Of(j, r)'.total + Out(j, r)'.count
                                /\ Out(j, r)'.count <= 1 + Of(j, r)'.spec
                                /\ ~Of(j, r)'.old =>
                                     cached'[r] = End(Of(j, r))' - (Of(j, r)'.spec - (Out(j, r)'.count - 1))
        BY DEF Delivery
      <3>1. /\ j \in Valid(r) /\ j \in InQueue(r) /\ j \in Nat /\ j <= d /\ Of(j, r)' = Of(j, r)
            /\ Samples(Of(j, r))' = Samples(Of(j, r)) /\ End(Of(j, r))' = End(Of(j, r))
        BY <1>1, <1>2, <1>3, <1>5, <1>6 DEF Samples, End
      <3>2. CASE j = d
        <4>1. Out(j, r)'.follows = e.total /\ Out(j, r)'.count = c
          BY <1>w, <1>4, <2>3, <3>2
        <4>2. CASE Samples(e)
          BY <1>w, <2>1, <2>3, <2>4, <3>1, <3>2, <4>1, <4>2
        <4>3. CASE ~Samples(e)
          BY <1>w, <2>3, <2>4, <3>1, <3>2, <4>1, <4>3
        <4> QED
          BY <4>2, <4>3
      <3>3. CASE j # d
        <4>1. Ran(j) /\ Out(j, r)' = Out(j, r) /\ ~(d <= j)
          BY <1>1, <1>3, <1>4, <3>1, <3>3
        <4>2. ~Samples(Of(j, r))
          BY <1>1, <3>1, <4>1 DEF Life, SamplesLast
        <4>3. Out(j, r).follows = Of(j, r).total /\ (Out(j, r).count > 0 <=> Samples(Of(j, r)))
          BY <3>1, <4>1 DEF Life, Delivery
        <4> QED
          BY <3>1, <4>1, <4>2, <4>3
      <3> QED
        BY <3>2, <3>3
    <2> QED
      BY <1>8, <1>9, <2>6, <2>7, <2>8, <2>9 DEF Life
  <1> QED
    BY <1>10, <1>11

-----------------------------------------------------------------------------
(***************************************************************************)
(* Update: the oldest batch leaves the queue.                              *)
(***************************************************************************)

(* Every batch but the oldest moves up by one place.                       *)
LEMMA ShiftIs ==
  ASSUME queue \in Seq(BatchType), queue # <<>>, queue' = Tail(queue), NEW r
  PROVE  /\ queue' \in Seq(BatchType) /\ Len(queue) \in Nat \ {0} /\ Len(queue') = Len(queue) - 1
         /\ 1 \in DOMAIN queue /\ Head(queue) = queue[1]
         /\ \A i \in DOMAIN queue' : i \in Nat \ {0} /\ i + 1 \in DOMAIN queue /\ queue'[i] = queue[i + 1]
         /\ \A i \in InQueue(r) : i \in Nat \ {0} /\ (i # 1 => i - 1 \in InQueue(r)')
         /\ \A i \in InQueue(r)' :
              /\ i \in Nat \ {0} /\ i + 1 \in InQueue(r)
              /\ Of(i, r)' = Of(i + 1, r) /\ Ran(i)' = Ran(i + 1) /\ Out(i, r)' = Out(i + 1, r)
  <1>1. /\ queue' \in Seq(BatchType) /\ Len(queue) \in Nat \ {0} /\ Len(queue') = Len(queue) - 1
        /\ DOMAIN queue' = 1 .. Len(queue) - 1 /\ DOMAIN queue = 1 .. Len(queue)
        /\ Head(queue) = queue[1]
        /\ \A i \in 1 .. Len(queue) - 1 : queue'[i] = queue[i + 1]
    OBVIOUS
  <1>2. \A i \in DOMAIN queue' : i \in Nat \ {0} /\ i + 1 \in DOMAIN queue /\ queue'[i] = queue[i + 1]
    BY <1>1
  <1>3. ASSUME NEW i \in InQueue(r)
        PROVE  i \in Nat \ {0} /\ (i # 1 => i - 1 \in InQueue(r)')
    <2>1. i \in 1 .. Len(queue) /\ r \in DOMAIN queue[i].entries
      BY <1>1 DEF InQueue
    <2>2. ASSUME i # 1 PROVE i - 1 \in InQueue(r)'
      <3>1. i - 1 \in 1 .. Len(queue) - 1 /\ (i - 1) + 1 = i
        BY <1>1, <2>1, <2>2
      <3>2. queue'[i - 1] = queue[i]
        BY <1>1, <3>1
      <3> QED
        BY <1>1, <2>1, <3>1, <3>2 DEF InQueue
    <2> QED
      BY <2>1, <2>2
  <1>4. ASSUME NEW i \in InQueue(r)'
        PROVE  /\ i \in Nat \ {0} /\ i + 1 \in InQueue(r)
               /\ Of(i, r)' = Of(i + 1, r) /\ Ran(i)' = Ran(i + 1) /\ Out(i, r)' = Out(i + 1, r)
    <2>1. i \in DOMAIN queue' /\ r \in DOMAIN queue'[i].entries
      BY DEF InQueue
    <2>2. i \in Nat \ {0} /\ i + 1 \in DOMAIN queue /\ queue'[i] = queue[i + 1]
      BY <1>2, <2>1
    <2> QED
      BY <2>1, <2>2 DEF InQueue, Of, Ran, Out
  <1> QED
    BY <1>1, <1>2, <1>3, <1>4

(* The entries that remain keep what they are.                             *)
LEMMA ShiftSets ==
  ASSUME queue \in Seq(BatchType), queue # <<>>, queue' = Tail(queue), NEW r
  PROVE  /\ \A i \in Fresh(r) : i \in InQueue(r) /\ (i # 1 => i - 1 \in Fresh(r)')
         /\ \A i \in Stale(r) : i \in InQueue(r) /\ (i # 1 => i - 1 \in Stale(r)')
         /\ \A i \in Fresh(r)' : i \in InQueue(r)' /\ i + 1 \in Fresh(r)
         /\ \A i \in Stale(r)' : i \in InQueue(r)' /\ i + 1 \in Stale(r)
         /\ \A i \in Valid(r) : i \in InQueue(r)
         /\ \A i \in Valid(r)' : i \in InQueue(r)'
         /\ req'[r].drop = req[r].drop =>
              /\ \A i \in Valid(r) : i # 1 => i - 1 \in Valid(r)'
              /\ \A i \in Valid(r)' : i + 1 \in Valid(r)
  <1>1. ASSUME NEW i \in InQueue(r), i # 1
        PROVE  i - 1 \in InQueue(r)' /\ Of(i - 1, r)' = Of(i, r)
    <2>1. i \in Nat /\ i - 1 \in InQueue(r)' /\ (i - 1) + 1 = i
      BY <1>1, ShiftIs
    <2> QED
      BY <2>1, ShiftIs
  <1>2. \A i \in InQueue(r)' : i + 1 \in InQueue(r) /\ Of(i, r)' = Of(i + 1, r)
    BY ShiftIs
  <1> QED
    BY <1>1, <1>2 DEF Fresh, Stale, Valid

(* What holds of a request that is not live too.                           *)
LEMMA ShiftShape ==
  ASSUME queue \in Seq(BatchType), queue # <<>>, queue' = Tail(queue), NEW r \in Requests, Life(r)
  PROVE  OldFirst(r)' /\ NewFirst(r)' /\ FirstKind(r)' /\ SaneEntries(r)'
  <1>1. OldFirst(r)'
    <2> SUFFICES ASSUME NEW i \in Stale(r)', NEW j \in Fresh(r)' PROVE i < j
      BY DEF OldFirst
    <2>1. i + 1 < j + 1 /\ i \in Nat /\ j \in Nat
      BY ShiftIs, ShiftSets DEF Life, OldFirst
    <2> QED
      BY <2>1
  <1>2. NewFirst(r)'
    <2> SUFFICES ASSUME NEW i \in InQueue(r)', NEW j \in InQueue(r)', Of(j, r)'.kind = "new"
                 PROVE  j <= i
      BY DEF NewFirst
    <2>1. j + 1 <= i + 1 /\ i \in Nat /\ j \in Nat
      BY ShiftIs DEF Life, NewFirst
    <2> QED
      BY <2>1
  <1>3. FirstKind(r)'
    <2> SUFFICES ASSUME NEW j \in Fresh(r)', Of(j, r)'.kind = "cached", Stale(r)' # {}
                 PROVE  \E l \in Fresh(r)' : l < j
      BY DEF FirstKind
    <2>1. PICK i \in Stale(r)' : TRUE
      OBVIOUS
    <2>2. i + 1 \in Stale(r) /\ i \in Nat \ {0} /\ j \in Nat \ {0} /\ j + 1 \in Fresh(r)
          /\ Of(j + 1, r).kind = "cached"
      BY ShiftIs, ShiftSets
    <2>3. PICK l \in Fresh(r) : l < j + 1
      BY <2>2 DEF Life, FirstKind
    <2>4. i + 1 < l /\ l \in Nat
      BY <2>2, ShiftIs, ShiftSets DEF Life, OldFirst
    <2>5. l # 1 /\ l - 1 < j
      BY <2>2, <2>3, <2>4
    <2> QED
      BY <2>5, ShiftSets
  <1>4. SaneEntries(r)'
    BY ShiftIs DEF Life, SaneEntries, Sane, End, Samples
  <1> QED
    BY <1>1, <1>2, <1>3, <1>4

(* A request that is finished now.                                         *)
LEMMA ShiftEnded ==
  ASSUME queue \in Seq(BatchType), queue # <<>>, queue' = Tail(queue), NEW r \in Requests, Life(r),
         req'[r].status = "finished"
  PROVE  Life(r)'
  <1>1. ~Live(r)' /\ req'[r].status # "running" /\ req'[r].status \notin {"absent", "waiting"}
    BY DEF Live
  <1>2. /\ Unsent(r)' /\ Exact(r)' /\ Living(r)' /\ Totals(r)' /\ SamplesLast(r)' /\ Chained(r)'
        /\ Reaches(r)' /\ Behind(r)' /\ Grown(r)' /\ Knows(r)' /\ Ready(r)' /\ Caught(r)'
        /\ Delivery(r)'
    BY <1>1 DEF Unsent, Exact, Living, Totals, SamplesLast, Chained, Reaches, Behind, Grown,
                Knows, Ready, Caught, Delivery
  <1> QED
    BY <1>2, ShiftShape DEF Life

(* The counters after an update.                                           *)
LEMMA ShiftCounts ==
  ASSUME queue \in Seq(BatchType), queue # <<>>, queue' = Tail(queue), NEW r \in Requests,
         SaneEntries(r)
  PROVE  /\ 1 \in InQueue(r) =>
              /\ AllTokens(r)' = AllTokens(r) - Of(1, r).n
              /\ OldTokens(r)' = OldTokens(r) - IF 1 \in Stale(r) THEN Of(1, r).n ELSE 0
         /\ 1 \notin InQueue(r) => AllTokens(r)' = AllTokens(r) /\ OldTokens(r)' = OldTokens(r)
  <1> DEFINE n == Of(1, r).n
             T == {1} \X (1 .. n)
             S == AllSet(r) \ T
             R == OldSet(r) \ T
  <1>0. \A i \in InQueue(r) : i \in Nat \ {0} /\ Of(i, r).n \in Int /\ Of(i, r).n > 0
    <2> SUFFICES ASSUME NEW i \in InQueue(r)
                 PROVE  i \in Nat \ {0} /\ Of(i, r).n \in Int /\ Of(i, r).n > 0
      OBVIOUS
    <2>1. queue[i] \in BatchType /\ r \in DOMAIN queue[i].entries
      BY QueueIs DEF InQueue
    <2>2. Of(i, r) \in EntryType
      BY <2>1, BatchIs DEF Of
    <2> QED
      BY <2>2, ShiftIs DEF EntryType, SaneEntries, Sane
  <1>1. IsFiniteSet(S) /\ IsFiniteSet(R)
    <2>1. S \subseteq AllSet(r) /\ R \subseteq OldSet(r)
      OBVIOUS
    <2> HIDE DEF S, R
    <2> QED
      BY <2>1, SetsFinite, FS_Subset
  <1>2. \A t : t \in AllSet(r) <=> \E i \in InQueue(r) : \E k \in 1 .. Of(i, r).n : t = <<i, k>>
    BY TokensAre
  <1>3. \A t : t \in OldSet(r) <=> \E i \in Stale(r) : \E k \in 1 .. Of(i, r).n : t = <<i, k>>
    BY TokensAre
  <1>4. \A t : t \in AllSet(r)' <=> \E i \in InQueue(r)' : \E k \in 1 .. Of(i, r)'.n : t = <<i, k>>
    BY TokensAre
  <1>5. \A t : t \in OldSet(r)' <=> \E i \in Stale(r)' : \E k \in 1 .. Of(i, r)'.n : t = <<i, k>>
    BY TokensAre
  <1>6. \A i \in InQueue(r)' : i \in Nat \ {0} /\ i + 1 \in InQueue(r) /\ Of(i, r)' = Of(i + 1, r)
    BY ShiftIs
  <1>7. \A i \in InQueue(r) : i # 1 => i - 1 \in InQueue(r)' /\ Of(i - 1, r)' = Of(i, r)
    <2> SUFFICES ASSUME NEW i \in InQueue(r), i # 1
                 PROVE  i - 1 \in InQueue(r)' /\ Of(i - 1, r)' = Of(i, r)
      OBVIOUS
    <2>1. i - 1 \in InQueue(r)' /\ (i - 1) + 1 = i
      BY <1>0, ShiftIs
    <2> QED
      BY <1>6, <2>1
  <1>8. /\ \A i \in Stale(r)' : i \in InQueue(r)' /\ i + 1 \in Stale(r)
        /\ \A i \in Stale(r) : i \in InQueue(r) /\ (i # 1 => i - 1 \in Stale(r)')
    BY ShiftSets
  <1>9. \A t : t \in AllSet(r)' <=> \E i \in Int, k \in Int : t = <<i, k>> /\ <<i + 1, k>> \in S
    <2>1. ASSUME NEW t \in AllSet(r)'
          PROVE  \E i \in Int, k \in Int : t = <<i, k>> /\ <<i + 1, k>> \in S
      <3>1. PICK i \in InQueue(r)' : \E k \in 1 .. Of(i, r)'.n : t = <<i, k>>
        BY <1>4, <2>1
      <3>2. PICK k \in 1 .. Of(i, r)'.n : t = <<i, k>>
        BY <3>1
      <3>3. i \in Nat \ {0} /\ i + 1 \in InQueue(r) /\ k \in 1 .. Of(i + 1, r).n
        BY <1>6
      <3>4. <<i + 1, k>> \in AllSet(r) /\ i + 1 # 1 /\ k \in Int
        BY <1>2, <3>3
      <3>5. t = <<i, k>> /\ <<i + 1, k>> \in S /\ i \in Int /\ k \in Int
        BY <3>2, <3>3, <3>4
      <3> HIDE DEF S
      <3> QED
        BY <3>5
    <2>2. ASSUME NEW t, NEW i \in Int, NEW k \in Int, t = <<i, k>>, <<i + 1, k>> \in S
          PROVE  t \in AllSet(r)'
      <3>1. i + 1 \in InQueue(r) /\ k \in 1 .. Of(i + 1, r).n
        BY <1>2, <2>2
      <3>2. i + 1 # 1
        BY <2>2, <3>1
      <3>3. (i + 1) - 1 = i
        OBVIOUS
      <3>4. i \in InQueue(r)' /\ Of(i, r)' = Of(i + 1, r)
        BY <1>7, <3>1, <3>2, <3>3
      <3> QED
        BY <1>4, <2>2, <3>1, <3>4
    <2> HIDE DEF S
    <2> QED
      BY <2>1, <2>2
  <1>10. \A t : t \in OldSet(r)' <=> \E i \in Int, k \in Int : t = <<i, k>> /\ <<i + 1, k>> \in R
    <2>1. ASSUME NEW t \in OldSet(r)'
          PROVE  \E i \in Int, k \in Int : t = <<i, k>> /\ <<i + 1, k>> \in R
      <3>1. PICK i \in Stale(r)' : \E k \in 1 .. Of(i, r)'.n : t = <<i, k>>
        BY <1>5, <2>1
      <3>2. PICK k \in 1 .. Of(i, r)'.n : t = <<i, k>>
        BY <3>1
      <3>3. i \in Nat \ {0} /\ i + 1 \in Stale(r) /\ k \in 1 .. Of(i + 1, r).n
        BY <1>6, <1>8
      <3>4. <<i + 1, k>> \in OldSet(r) /\ i + 1 # 1 /\ k \in Int
        BY <1>3, <3>3
      <3>5. t = <<i, k>> /\ <<i + 1, k>> \in R /\ i \in Int /\ k \in Int
        BY <3>2, <3>3, <3>4
      <3> HIDE DEF R
      <3> QED
        BY <3>5
    <2>2. ASSUME NEW t, NEW i \in Int, NEW k \in Int, t = <<i, k>>, <<i + 1, k>> \in R
          PROVE  t \in OldSet(r)'
      <3>1. i + 1 \in Stale(r) /\ k \in 1 .. Of(i + 1, r).n
        BY <1>3, <2>2
      <3>2. i + 1 # 1
        BY <2>2, <3>1
      <3>3. (i + 1) - 1 = i
        OBVIOUS
      <3>4. i \in Stale(r)' /\ Of(i, r)' = Of(i + 1, r)
        BY <1>7, <1>8, <3>1, <3>2, <3>3
      <3> QED
        BY <1>5, <2>2, <3>1, <3>4
    <2> HIDE DEF R
    <2> QED
      BY <2>1, <2>2
  <1>11. \A s : s \in S \/ s \in R => \E i \in Int, k \in Int : s = <<i, k>>
    <2>1. \A s \in AllSet(r) : \E i \in Int, k \in Int : s = <<i, k>>
      BY <1>0, <1>2
    <2>2. \A s \in OldSet(r) : \E i \in Int, k \in Int : s = <<i, k>>
      BY <1>0, <1>3, <1>8
    <2> QED
      BY <2>1, <2>2
  <1>12. Cardinality(AllSet(r)') = Cardinality(S) /\ Cardinality(OldSet(r)') = Cardinality(R)
    <2> HIDE DEF S, R
    <2>1. Cardinality(AllSet(r)') = Cardinality(S)
      BY <1>1, <1>9, <1>11, CountShifted
    <2>2. Cardinality(OldSet(r)') = Cardinality(R)
      BY ZenonT(60), <1>1, <1>10, <1>11, CountShifted
    <2> QED
      BY <2>1, <2>2
  <1>13. CASE 1 \in InQueue(r)
    <2>1. n \in Int /\ n > 0
      BY <1>0, <1>13
    <2>2. AllSet(r) = S \cup T /\ \A k : <<1, k>> \notin S
      <3>1. \A t \in T : t \in AllSet(r)
        BY <1>2, <1>13
      <3>2. \A k : <<1, k>> \in AllSet(r) => <<1, k>> \in T
        BY <1>2
      <3> QED
        BY <3>1, <3>2
    <2>3. Cardinality(AllSet(r)) = Cardinality(S) + n
      <3> HIDE DEF n, S
      <3>1. Cardinality(S \cup ({1} \X (1 .. n))) = Cardinality(S) + n
        BY <1>1, <2>1, <2>2, CountMore
      <3> QED
        BY <2>2, <3>1
    <2>4. Cardinality(S) \in Nat /\ Cardinality(R) \in Nat
      BY <1>1, FS_CardinalityType
    <2>5. AllTokens(r)' = AllTokens(r) - n
      <3> HIDE DEF n, S, R
      <3> QED
        BY <1>12, <2>1, <2>3, <2>4, CountsDef
    <2>6. CASE 1 \in Stale(r)
      <3>1. OldSet(r) = R \cup T /\ \A k : <<1, k>> \notin R
        <4>1. \A t \in T : t \in OldSet(r)
          BY <1>3, <2>6
        <4>2. \A k : <<1, k>> \in OldSet(r) => <<1, k>> \in T
          BY <1>3
        <4> QED
          BY <4>1, <4>2
      <3>2. Cardinality(OldSet(r)) = Cardinality(R) + n
        <4> HIDE DEF n, R
        <4>1. Cardinality(R \cup ({1} \X (1 .. n))) = Cardinality(R) + n
          BY <1>1, <2>1, <3>1, CountMore
        <4> QED
          BY <3>1, <4>1
      <3>3. OldTokens(r)' = OldTokens(r) - n
        <4> HIDE DEF n, S, R
        <4> QED
          BY <1>12, <2>1, <3>2, <2>4, CountsDef
      <3> QED
        BY <1>13, <2>5, <2>6, <3>3
    <2>7. CASE 1 \notin Stale(r)
      <3>1. R = OldSet(r)
        BY <1>3, <2>7
      <3>2. OldTokens(r)' = OldTokens(r) - 0
        <4> HIDE DEF n, S, R
        <4> QED
          BY <1>12, <3>1, <2>4, CountsDef
      <3> QED
        BY <1>13, <2>5, <2>7, <3>2
    <2> QED
      BY <2>6, <2>7
  <1>14. CASE 1 \notin InQueue(r)
    <2>1. S = AllSet(r) /\ R = OldSet(r)
      BY <1>2, <1>3, <1>8, <1>14
    <2> HIDE DEF S, R
    <2> QED
      BY <1>12, <1>14, <2>1, CountsDef
  <1> QED
    BY <1>13, <1>14

(* The oldest batch brings nothing for r.                                  *)
LEMMA ShiftLife ==
  ASSUME queue \in Seq(BatchType), queue # <<>>, queue' = Tail(queue), Ran(1),
         NEW r \in Requests, Life(r), ~Entering(r), ~Entering(r)', Exact(r)', Unsent(r)',
         UNCHANGED <<known, cached, limit>>,
         req'[r].status = req[r].status, req'[r].tokens = req[r].tokens,
         req'[r].computed = req[r].computed, req'[r].drop = req[r].drop,
         1 \in Fresh(r) => ~Samples(Of(1, r)),
         req[r] \in RequestType
  PROVE  Life(r)'
  <1>1. /\ \A i \in InQueue(r) : i \in Nat \ {0} /\ (i # 1 => i - 1 \in InQueue(r)')
        /\ \A i \in InQueue(r)' :
             /\ i \in Nat \ {0} /\ i + 1 \in InQueue(r)
             /\ Of(i, r)' = Of(i + 1, r) /\ Ran(i)' = Ran(i + 1) /\ Out(i, r)' = Out(i + 1, r)
    BY ShiftIs
  <1>2. /\ \A i \in Fresh(r) : i \in InQueue(r) /\ (i # 1 => i - 1 \in Fresh(r)')
        /\ \A i \in Stale(r) : i \in InQueue(r)
        /\ \A i \in Fresh(r)' : i \in InQueue(r)' /\ i + 1 \in Fresh(r)
        /\ \A i \in Stale(r)' : i \in InQueue(r)' /\ i + 1 \in Stale(r)
        /\ \A i \in Valid(r) : i \in InQueue(r) /\ (i # 1 => i - 1 \in Valid(r)')
        /\ \A i \in Valid(r)' : i \in InQueue(r)' /\ i + 1 \in Valid(r)
    BY ShiftSets
  <1>3. Live(r)' = Live(r)
    BY DEF Live
  <1>4. \A i \in InQueue(r)' : Samples(Of(i, r))' = Samples(Of(i + 1, r)) /\ End(Of(i, r))' = End(Of(i + 1, r))
    BY <1>1 DEF Samples, End
  <1>5. Living(r)'
    BY <1>2, <1>3 DEF Life, Living
  <1>6. Totals(r)'
    BY <1>1, <1>3 DEF Life, Totals
  <1>7. SamplesLast(r)'
    <2> SUFFICES ASSUME Live(r)', NEW i \in Valid(r)', Samples(Of(i, r))', NEW k \in InQueue(r)'
                 PROVE  k <= i
      BY DEF SamplesLast
    <2>1. k + 1 <= i + 1
      BY <1>1, <1>2, <1>3, <1>4 DEF Life, SamplesLast
    <2> QED
      BY <1>1, <1>2, <2>1
  <1>8. Chained(r)'
    <2> SUFFICES ASSUME Live(r)', NEW i \in Fresh(r)', NEW j \in Fresh(r)', i < j,
                        \A k \in Fresh(r)' : k <= i \/ j <= k
                 PROVE  Of(j, r)'.start = End(Of(i, r))'
      BY DEF Chained
    <2>1. i + 1 \in Fresh(r) /\ j + 1 \in Fresh(r) /\ i + 1 < j + 1 /\ i \in Nat /\ j \in Nat
      BY <1>1, <1>2
    <2>2. ASSUME NEW k \in Fresh(r) PROVE k <= i + 1 \/ j + 1 <= k
      <3>1. CASE k = 1
        BY <2>1, <3>1
      <3>2. CASE k # 1
        <4>1. k \in Nat /\ (k - 1 <= i \/ j <= k - 1)
          BY <1>1, <1>2, <3>2
        <4> QED
          BY <2>1, <4>1
      <3> QED
        BY <3>1, <3>2
    <2>3. Of(j + 1, r).start = End(Of(i + 1, r))
      BY <1>3, <2>1, <2>2 DEF Life, Chained
    <2> QED
      BY <1>1, <1>2, <1>4, <2>3
  <1>9. Reaches(r)'
    <2> SUFFICES ASSUME Live(r)', NEW i \in Fresh(r)', \A k \in Fresh(r)' : k <= i
                 PROVE  req'[r].computed = End(Of(i, r))'
      BY DEF Reaches
    <2>1. i + 1 \in Fresh(r) /\ i \in Nat
      BY <1>1, <1>2
    <2>2. ASSUME NEW k \in Fresh(r) PROVE k <= i + 1
      <3>1. CASE k = 1
        BY <2>1, <3>1
      <3>2. CASE k # 1
        <4>1. k \in Nat /\ k - 1 <= i
          BY <1>1, <1>2, <3>2
        <4> QED
          BY <2>1, <4>1
      <3> QED
        BY <3>1, <3>2
    <2> QED
      BY <1>2, <1>3, <1>4, <2>1, <2>2 DEF Life, Reaches
  <1>10. Behind(r)'
    <2> SUFFICES ASSUME req'[r].status = "running", Fresh(r)' = {}
                 PROVE  req'[r].computed < req'[r].tokens
      BY DEF Behind
    <2>1. CASE Fresh(r) = {}
      BY <2>1 DEF Life, Behind
    <2>2. CASE Fresh(r) # {}
      <3>1. Fresh(r) = {1}
        BY <1>2, <2>2
      <3>2. Live(r) /\ 1 \in InQueue(r)
        BY <1>2, <3>1 DEF Live
      <3>3. req[r].computed = End(Of(1, r)) /\ Of(1, r).total = req[r].tokens
        BY <3>1, <3>2 DEF Life, Reaches, Totals
      <3>4. ~(End(Of(1, r)) >= Of(1, r).total)
        BY <3>1 DEF Samples
      <3>5. req[r].computed \in Int /\ req[r].tokens \in Nat
        BY RequestIs
      <3> QED
        BY <3>3, <3>4, <3>5
    <2> QED
      BY <2>1, <2>2
  <1>11. Grown(r)'
    <2> SUFFICES ASSUME req'[r].status = "running", Stale(r)' # {} PROVE Fresh(r)' # {}
      BY DEF Grown
    <2>1. PICK i \in Stale(r)' : TRUE
      OBVIOUS
    <2>2. i \in Nat \ {0} /\ i + 1 \in Stale(r)
      BY <1>1, <1>2
    <2>3. PICK l : l \in Fresh(r)
      BY <2>2 DEF Life, Grown
    <2>4. i + 1 < l /\ l \in Nat
      BY <1>1, <1>2, <2>2, <2>3 DEF Life, OldFirst
    <2>5. l # 1
      BY <2>2, <2>4
    <2> QED
      BY <1>2, <2>3, <2>5
  <1>12. Knows(r)'
    <2> SUFFICES ASSUME Live(r)', req'[r].status # "waiting", ~(req'[r].tokens <= known'[r])
                 PROVE  \E j \in InQueue(r)' : ~Ran(j)' /\ Of(j, r)'.kind = "new"
      BY DEF Knows
    <2>1. PICK j \in InQueue(r) : ~Ran(j) /\ Of(j, r).kind = "new"
      BY <1>3 DEF Life, Knows
    <2>2. j # 1 /\ j - 1 \in InQueue(r)' /\ (j - 1) + 1 = j
      BY <1>1, <2>1
    <2>3. ~Ran(j - 1)' /\ Of(j - 1, r)'.kind = "new"
      BY <1>1, <2>1, <2>2
    <2> QED
      BY <2>2, <2>3
  <1>13. Ready(r)'
    <2> SUFFICES ASSUME Live(r)', NEW j \in Valid(r)', ~Ran(j)', Of(j, r)'.kind = "cached",
                        \A i \in Valid(r)' : i < j => Ran(i)'
                 PROVE  known'[r] = req'[r].tokens /\ (~Of(j, r)'.old => Of(j, r)'.start <= cached'[r])
      BY DEF Ready
    <2>1. j + 1 \in Valid(r) /\ j \in Nat /\ ~Ran(j + 1) /\ Of(j, r)' = Of(j + 1, r)
      BY <1>1, <1>2
    <2>2. ASSUME NEW i \in Valid(r), i < j + 1 PROVE Ran(i)
      <3>1. CASE i = 1
        BY <3>1
      <3>2. CASE i # 1
        <4>1. i - 1 \in Valid(r)' /\ i - 1 < j /\ (i - 1) + 1 = i
          BY <1>1, <1>2, <2>1, <2>2, <3>2
        <4>2. Ran(i - 1)'
          BY <4>1
        <4> QED
          BY <1>1, <1>2, <4>1, <4>2
      <3> QED
        BY <3>1, <3>2
    <2>3. known[r] = req[r].tokens /\ (~Of(j + 1, r).old => Of(j + 1, r).start <= cached[r])
      BY <1>3, <2>1, <2>2 DEF Life, Ready
    <2> QED
      BY <2>1, <2>3
  <1>14. Caught(r)'
    <2> SUFFICES ASSUME req'[r].status = "running", \A i \in Fresh(r)' : Ran(i)' /\ ~Samples(Of(i, r))'
                 PROVE  known'[r] = req'[r].tokens /\ req'[r].computed <= cached'[r]
      BY DEF Caught
    <2>1. ASSUME NEW i \in Fresh(r) PROVE Ran(i) /\ ~Samples(Of(i, r))
      <3>1. CASE i = 1
        BY <3>1
      <3>2. CASE i # 1
        <4>1. i - 1 \in Fresh(r)' /\ (i - 1) + 1 = i /\ i - 1 \in InQueue(r)'
          BY <1>1, <1>2, <3>2
        <4>2. Ran(i - 1)' /\ ~Samples(Of(i - 1, r))'
          BY <4>1
        <4> QED
          BY <1>1, <1>4, <4>1, <4>2
      <3> QED
        BY <3>1, <3>2
    <2> QED
      BY <2>1 DEF Life, Caught
  <1>15. Delivery(r)'
    <2> SUFFICES ASSUME Live(r)', NEW j \in Valid(r)', Ran(j)'
                 PROVE  /\ Out(j, r)'.follows = Of(j, r)'.total
                        /\ Out(j, r)'.count > 0 <=> Samples(Of(j, r))'
                        /\ Samples(Of(j, r))' =>
                              /\ known'[r] = Of(j, r)'.total + Out(j, r)'.count
                              /\ Out(j, r)'.count <= 1 + Of(j, r)'.spec
                              /\ ~Of(j, r)'.old =>
                                   cached'[r] = End(Of(j, r))' - (Of(j, r)'.spec - (Out(j, r)'.count - 1))
      BY DEF Delivery
    <2>1. /\ j + 1 \in Valid(r) /\ Ran(j + 1) /\ Of(j, r)' = Of(j + 1, r) /\ Out(j, r)' = Out(j + 1, r)
          /\ Samples(Of(j, r))' = Samples(Of(j + 1, r)) /\ End(Of(j, r))' = End(Of(j + 1, r))
      BY <1>1, <1>2, <1>4
    <2>2. /\ Out(j + 1, r).follows = Of(j + 1, r).total
          /\ Out(j + 1, r).count > 0 <=> Samples(Of(j + 1, r))
          /\ Samples(Of(j + 1, r)) =>
                /\ known[r] = Of(j + 1, r).total + Out(j + 1, r).count
                /\ Out(j + 1, r).count <= 1 + Of(j + 1, r).spec
                /\ ~Of(j + 1, r).old =>
                     cached[r] = End(Of(j + 1, r)) - (Of(j + 1, r).spec - (Out(j + 1, r).count - 1))
      BY <1>3, <2>1 DEF Life, Delivery
    <2> QED
      BY <2>1, <2>2
  <1> QED
    BY <1>5, <1>6, <1>7, <1>8, <1>9, <1>10, <1>11, <1>12, <1>13, <1>14, <1>15, ShiftShape DEF Life

(* The oldest batch brings tokens for r, which goes on.                    *)
LEMMA DeliverLife ==
  ASSUME queue \in Seq(BatchType), queue # <<>>, queue' = Tail(queue), Ran(1),
         NEW r \in Requests, Life(r), ~Entering(r), ~Entering(r)', Exact(r)', Live(r),
         UNCHANGED <<known, cached, limit>>, limit[r] \in Nat \ {0},
         1 \in Valid(r), Samples(Of(1, r)),
         NEW e \in EntryType, e = Of(1, r), NEW o \in [follows : Nat, count : Nat], o = Out(1, r),
         req'[r].status = req[r].status, req'[r].drop = req[r].drop,
         req'[r].tokens = req[r].tokens + o.count,
         req'[r].tokens < Prompt[r] + limit[r],
         req'[r].computed = req[r].computed - Rejected(req[r], e, o),
         req[r] \in RequestType
  PROVE  Life(r)'
  <1>1. InQueue(r) = {1}
    <2>1. \A i \in InQueue(r) : i \in Nat \ {0} /\ i <= 1
      BY ShiftIs DEF Life, SamplesLast
    <2> QED
      BY <2>1 DEF Valid
  <1>2. InQueue(r)' = {}
    <2> SUFFICES ASSUME NEW i \in InQueue(r)' PROVE FALSE
      OBVIOUS
    <2>1. i \in Nat \ {0} /\ i + 1 = 1
      BY <1>1, ShiftIs
    <2> QED
      BY <2>1
  <1>3. Fresh(r)' = {} /\ Stale(r)' = {} /\ Valid(r)' = {}
    BY <1>2 DEF Fresh, Stale, Valid
  <1>4. Live(r)' /\ req[r].status # "waiting"
    BY <1>1 DEF Live, Life, Unsent
  <1>5. /\ e.total = req[r].tokens /\ o.count > 0 /\ known[r] = e.total + o.count
        /\ o.count <= 1 + e.spec
        /\ ~e.old => cached[r] = End(e) - (e.spec - (o.count - 1))
        /\ Sane(e, r)
    BY <1>1 DEF Life, Totals, Delivery, SaneEntries
  <1>6. /\ e.n \in Int /\ e.start \in Int /\ e.total \in Nat /\ e.spec \in Nat
        /\ End(e) \in Int /\ o.count \in Nat /\ End(e) >= e.total /\ End(e) <= e.total + e.spec
        /\ Prompt[r] \in Nat \ {0} /\ req[r].tokens \in Nat /\ req[r].computed \in Int
        /\ Prompt[r] <= req[r].tokens
    <2>1. e.n \in Int /\ e.start \in Int /\ e.total \in Nat /\ e.spec \in Nat /\ o.count \in Nat
      BY Constants DEF EntryType
    <2>2. End(e) \in Int /\ End(e) >= e.total /\ End(e) <= e.total + e.spec
      BY <1>5, <2>1 DEF End, Samples, Sane
    <2>3. req[r].tokens \in Nat /\ req[r].computed \in Int
      BY RequestIs
    <2>4. Prompt[r] \in Nat \ {0} /\ Prompt[r] <= req[r].tokens
      BY Constants DEF Life, Living
    <2> QED
      BY <2>1, <2>2, <2>3, <2>4
  <1>7. Living(r)'
    BY <1>3, <1>5, <1>6 DEF Life, Living
  <1>8. Knows(r)'
    BY <1>5, <1>6 DEF Knows
  <1>9. req'[r].status = "running" => req'[r].computed < req'[r].tokens /\ req'[r].computed <= cached'[r]
    <2> SUFFICES ASSUME req[r].status = "running"
                 PROVE  req'[r].computed < req'[r].tokens /\ req'[r].computed <= cached'[r]
      OBVIOUS
    <2>1. 1 \in Fresh(r) /\ ~e.old /\ Stale(r) = {}
      BY <1>1 DEF Life, Living, Valid, Fresh, Stale
    <2>2. req[r].computed = End(e)
      BY <1>1, <2>1 DEF Life, Reaches, Fresh
    <2>3. req[r].stale = 0
      <3>1. req[r].stale = OldTokens(r) /\ OldTokens(r) \in Nat /\ ~(OldTokens(r) > 0)
        BY <2>1, CountsAre DEF Life
      <3> QED
        BY <3>1
    <2>4. CASE e.spec > 0
      <3>1. Rejected(req[r], e, o) = e.spec - (o.count - 1)
        BY <1>5, <1>6, <2>2, <2>3, <2>4 DEF Rejected
      <3>2. req'[r].computed = End(e) - (e.spec - (o.count - 1)) /\ cached'[r] = cached[r]
        BY <2>2, <3>1
      <3>3. req'[r].tokens = e.total + o.count
        BY <1>5
      <3>4. \A x \in Int, s, c, t \in Nat : x <= t + s /\ c > 0 => x - (s - (c - 1)) < t + c
        OBVIOUS
      <3>5. req'[r].computed < req'[r].tokens
        BY <1>5, <1>6, <3>2, <3>3, <3>4
      <3>6. cached'[r] = End(e) - (e.spec - (o.count - 1))
        BY <1>5, <2>1, <3>2
      <3>7. End(e) - (e.spec - (o.count - 1)) \in Int
        BY <1>6
      <3>8. req'[r].computed <= cached'[r]
        BY <3>2, <3>6, <3>7
      <3> QED
        BY <3>5, <3>8
    <2>5. CASE e.spec = 0
      <3>1. Rejected(req[r], e, o) = 0
        BY <2>5 DEF Rejected
      <3> QED
        <4>1. o.count = 1
          BY <1>5, <1>6, <2>5
        <4>2. End(e) = e.total
          BY <1>6, <2>5
        <4>3. req'[r].computed = End(e)
          BY <1>6, <2>2, <3>1
        <4>4. cached[r] = End(e) - (0 - (1 - 1))
          BY <1>5, <2>1, <2>5, <4>1
        <4> QED
          BY SMTT(30), <1>5, <1>6, <4>1, <4>2, <4>3, <4>4
    <2> QED
      BY <1>6, <2>4, <2>5
  <1>10. Behind(r)' /\ Caught(r)'
    <2>1. Behind(r)'
      BY <1>9 DEF Behind
    <2>2. Caught(r)'
      BY <1>5, <1>9 DEF Caught
    <2> QED
      BY <2>1, <2>2
  <1>11. Unsent(r)'
    BY <1>4 DEF Unsent, Live
  <1>12. /\ OldFirst(r)' /\ SaneEntries(r)' /\ Totals(r)' /\ SamplesLast(r)'
         /\ Chained(r)' /\ Reaches(r)' /\ NewFirst(r)' /\ FirstKind(r)' /\ Grown(r)'
         /\ Ready(r)' /\ Delivery(r)'
    BY <1>2, <1>3 DEF OldFirst, SaneEntries, Totals, SamplesLast, Chained, Reaches, NewFirst,
       FirstKind, Grown, Ready, Delivery
  <1> QED
    BY <1>7, <1>8, <1>10, <1>11, <1>12 DEF Life

(* What a batch brings for one request.                                    *)
OutputType == [follows : Nat, count : Nat]

(* What an update makes of a request.                                      *)
LEMMA UpdatedIs ==
  ASSUME NEW r \in Requests, NEW q \in RequestType, NEW e \in EntryType, NEW o \in OutputType,
         limit[r] \in Nat, NEW p, p = Updated(r, q, e, o)
  PROVE  /\ p \in RequestType /\ p.drop = q.drop /\ p.inflight = q.inflight - e.n
         /\ p.stale = IF q.stale > 0 THEN q.stale - e.n ELSE 0
         /\ Dropped(q) => p.status = q.status /\ p.tokens = q.tokens /\ p.computed = q.computed
         /\ ~Dropped(q) =>
              /\ p.computed = q.computed - Rejected(q, e, o)
              /\ p.tokens = Smaller(q.tokens + o.count, Prompt[r] + limit[r])
              /\ p.status = IF o.count > 0 /\ p.tokens = Prompt[r] + limit[r] THEN "finished"
                            ELSE q.status
  <1>1. /\ q = [f \in Fields |-> q[f]] /\ q.computed \in Int /\ q.inflight \in Int /\ q.stale \in Int
        /\ q.tokens \in Nat /\ q.blocks \in Int /\ q.status \in Status
        /\ e.n \in Int /\ e.spec \in Int /\ o.count \in Nat /\ Prompt[r] \in Nat
    BY RequestIs, Constants DEF EntryType, OutputType, Status
  <1> DEFINE i1 == q.inflight - e.n
             s1 == IF q.stale > 0 THEN q.stale - e.n ELSE 0
             c1 == q.computed - Rejected(q, e, o)
             t1 == Smaller(q.tokens + o.count, Prompt[r] + limit[r])
             full == o.count > 0 /\ t1 = Prompt[r] + limit[r]
             status1 == IF full THEN "finished" ELSE q.status
             b1 == IF full THEN 0 ELSE q.blocks
             counted == [q EXCEPT !.inflight = i1, !.stale = s1]
  <1>2. i1 \in Int /\ s1 \in Int
    BY <1>1
  <1>3. c1 \in Int
    BY <1>1 DEF Rejected
  <1>4. t1 \in Nat
    BY <1>1 DEF Smaller
  <1>5. status1 \in Status /\ b1 \in Int
    BY <1>1 DEF Status
  <1>6. p = IF Dropped(q) THEN counted
            ELSE [counted EXCEPT !.computed = c1, !.tokens = t1, !.status = status1, !.blocks = b1]
    <2>1. counted.computed = q.computed /\ counted.status = q.status /\ counted.blocks = q.blocks
      BY <1>1 DEF Fields
    <2>2. counted = [q EXCEPT !.inflight = @ - e.n, !.stale = IF @ > 0 THEN @ - e.n ELSE 0]
      OBVIOUS
    <2> QED
      BY <2>1, <2>2 DEF Updated
  <1>7. p.tokens = t1 => (p.status = status1 <=> p.status = IF o.count > 0 /\ p.tokens = Prompt[r] + limit[r] THEN "finished" ELSE q.status)
    BY <1>1, <1>5
  <1>8. s1 = IF q.stale > 0 THEN q.stale - e.n ELSE 0
    OBVIOUS
  <1> HIDE DEF i1, s1, c1, t1, full, status1, b1
  <1>9. CASE Dropped(q)
    <2>1. p = [q EXCEPT !.inflight = i1, !.stale = s1]
      BY <1>6, <1>9
    <2>2. p = [f \in Fields |-> p[f]]
      BY <1>1, <2>1
    <2>3. /\ p.status = q.status /\ p.computed = q.computed /\ p.spec = q.spec /\ p.blocks = q.blocks
          /\ p.drop = q.drop /\ p.stale = s1 /\ p.inflight = i1
          /\ p.tokens = q.tokens /\ p.follows = q.follows /\ p.chunk = q.chunk
      BY <1>1, <2>1 DEF Fields
    <2>4. p \in RequestType
      BY <1>2, <2>2, <2>3, RequestIs
    <2> QED
      BY <1>8, <1>9, <2>3, <2>4 DEF i1
  <1>10. CASE ~Dropped(q)
    <2>1. p = [q EXCEPT !.inflight = i1, !.stale = s1, !.computed = c1, !.tokens = t1,
                        !.status = status1, !.blocks = b1]
      BY <1>1, <1>6, <1>10
    <2>2. p = [f \in Fields |-> p[f]]
      BY <1>1, <2>1
    <2>3. /\ p.status = status1 /\ p.computed = c1 /\ p.spec = q.spec /\ p.blocks = b1
          /\ p.drop = q.drop /\ p.stale = s1 /\ p.inflight = i1
          /\ p.tokens = t1 /\ p.follows = q.follows /\ p.chunk = q.chunk
      BY ZenonT(60), <1>1, <2>1 DEF Fields
    <2>4. p \in RequestType
      BY <1>2, <1>3, <1>4, <1>5, <2>2, <2>3, RequestIs DEF Status
    <2> QED
      BY <1>7, <1>8, <1>10, <2>3, <2>4 DEF i1, c1, t1
  <1> QED
    BY <1>9, <1>10

(* New drafts are nothing the invariant looks at.                          *)
LEMMA WithDraftsIs ==
  ASSUME NEW r, NEW q \in RequestType, drafts \in [DOMAIN drafts -> Nat], NEW p,
         p = WithDrafts(r, q)
  PROVE  p \in RequestType /\ Alike(p, q)
  <1>1. CASE r \notin DOMAIN drafts \/ ~DraftsDue
    BY <1>1 DEF WithDrafts, Alike
  <1>2. CASE r \in DOMAIN drafts /\ DraftsDue
    <2>1. q = [f \in Fields |-> q[f]] /\ drafts[r] \in Nat /\ NumSpec \in 0 .. NumSpec
      BY <1>2, RequestIs, Constants
    <2>2. PICK d \in Nat, z \in 0 .. NumSpec :
             p = [q EXCEPT !.spec = z] \/ p = [q EXCEPT !.spec = z, !.follows = d]
      <3>1. CASE q.chunk
        <4>1. p = [q EXCEPT !.spec = 0] /\ 0 \in 0 .. NumSpec
          BY <1>2, <3>1, Constants DEF WithDrafts
        <4> QED
          BY Zenon, <4>1
      <3>2. CASE ~q.chunk
        <4>1. p = [q EXCEPT !.spec = NumSpec, !.follows = drafts[r]]
          BY <1>2, <3>2 DEF WithDrafts
        <4> QED
          BY Zenon, <2>1, <4>1
      <3> QED
        BY Zenon, <3>1, <3>2
    <2>3. p = [f \in Fields |-> p[f]]
      BY <2>1, <2>2
    <2>4. /\ p.status = q.status /\ p.computed = q.computed /\ p.blocks = q.blocks
          /\ p.drop = q.drop /\ p.stale = q.stale /\ p.inflight = q.inflight
          /\ p.tokens = q.tokens /\ p.chunk = q.chunk /\ p.spec = z /\ p.follows \in {q.follows, d}
      BY <2>1, <2>2 DEF Fields
    <2>5. p \in RequestType
      BY <2>3, <2>4, RequestIs
    <2> QED
      BY <2>4, <2>5 DEF Alike
  <1> QED
    BY <1>1, <1>2

(* The oldest batch has an entry for r.                                    *)
LEMMA HeadLife ==
  ASSUME queue \in Seq(BatchType), queue # <<>>, queue' = Tail(queue), Ran(1), Outs,
         NEW r \in Requests, Life(r), ~Entering(r), ~Entering(r)', Live(r), 1 \in InQueue(r),
         UNCHANGED <<known, cached, limit>>, limit[r] \in Nat \ {0}, req[r] \in RequestType,
         NEW p, p = Updated(r, req[r], Of(1, r), Out(1, r)), Alike(req'[r], p)
  PROVE  Life(r)'
  <1> DEFINE q == req[r]
  <1>1. PICK e \in EntryType : e = Of(1, r)
    <2>1. queue[1] \in BatchType /\ r \in DOMAIN queue[1].entries
      BY QueueIs DEF InQueue
    <2> QED
      BY <2>1, BatchIs DEF Of
  <1>2. PICK o \in OutputType : o = Out(1, r)
    <2>1. queue[1] \in BatchType /\ r \in DOMAIN queue[1].entries /\ 1 \in DOMAIN queue
      BY QueueIs DEF InQueue
    <2>2. r \in DOMAIN queue[1].out
      BY <2>1 DEF Outs, Ran
    <2> QED
      BY <2>1, <2>2, BatchIs DEF Out, OutputType
  <1>3. /\ req'[r].status = p.status /\ req'[r].tokens = p.tokens /\ req'[r].computed = p.computed
        /\ req'[r].inflight = p.inflight /\ req'[r].stale = p.stale /\ req'[r].drop = p.drop
    BY DEF Alike
  <1>4. /\ p.drop = q.drop /\ p.inflight = q.inflight - e.n
        /\ p.stale = IF q.stale > 0 THEN q.stale - e.n ELSE 0
        /\ Dropped(q) => p.status = q.status /\ p.tokens = q.tokens /\ p.computed = q.computed
        /\ ~Dropped(q) =>
              /\ p.computed = q.computed - Rejected(q, e, o)
              /\ p.tokens = Smaller(q.tokens + o.count, Prompt[r] + limit[r])
              /\ p.status = IF o.count > 0 /\ p.tokens = Prompt[r] + limit[r] THEN "finished"
                            ELSE q.status
    BY <1>1, <1>2, UpdatedIs
  <1>5. q.stale > 0 <=> e.old
    <2>1. q.stale > 0 <=> Stale(r) # {}
      BY CountsAre DEF Life
    <2>2. Stale(r) # {} <=> 1 \in Stale(r)
      <3> SUFFICES ASSUME NEW i \in Stale(r), 1 \notin Stale(r) PROVE FALSE
        OBVIOUS
      <3>1. 1 \in Fresh(r)
        BY DEF Fresh, Stale
      <3>2. i < 1 /\ i \in Nat \ {0}
        BY <3>1, ShiftIs DEF Stale, Life, OldFirst
      <3> QED
        BY <3>2
    <2> QED
      BY <1>1, <2>1, <2>2 DEF Stale
  <1>6. Exact(r)'
    <2>1. /\ AllTokens(r)' = AllTokens(r) - e.n
          /\ OldTokens(r)' = OldTokens(r) - IF 1 \in Stale(r) THEN e.n ELSE 0
      BY <1>1, ShiftCounts DEF Life
    <2>2. 1 \in Stale(r) <=> e.old
      BY <1>1 DEF Stale
    <2>3. q.inflight = AllTokens(r) /\ q.stale = OldTokens(r) /\ OldTokens(r) \in Nat
      BY CountsAre DEF Life
    <2>4. CASE e.old
      <3>1. req'[r].inflight = AllTokens(r)' /\ req'[r].stale = OldTokens(r)'
        BY <1>3, <1>4, <1>5, <2>1, <2>2, <2>3, <2>4
      <3> QED
        BY <3>1, CountsDef
    <2>5. CASE ~e.old
      <3>1. req'[r].inflight = AllTokens(r)' /\ req'[r].stale = OldTokens(r)'
        BY <1>3, <1>4, <1>5, <2>1, <2>2, <2>3, <2>5
      <3> QED
        BY <3>1, CountsDef
    <2> QED
      BY <2>4, <2>5
  <1>7. q.status \in {"running", "preempted"}
    BY DEF Live, Life, Unsent
  <1>8. CASE p.status = "finished"
    BY <1>3, <1>8, ShiftEnded
  <1>9. CASE p.status # "finished"
    <2>1. p.status = q.status
      BY <1>4, <1>9
    <2>2. Unsent(r)'
      BY <1>3, <1>7, <2>1 DEF Unsent
    <2>3. CASE Dropped(q)
      <3>1. 1 \notin Fresh(r)
        BY <1>1, <1>5, <2>3 DEF Dropped, Fresh
      <3> QED
        BY <1>3, <1>4, <1>6, <2>1, <2>2, <2>3, <3>1, ShiftLife
    <2>4. CASE ~Dropped(q)
      <3>1. 1 \in Valid(r)
        BY <1>1, <1>5, <2>4 DEF Dropped, Valid
      <3>2. /\ o.count > 0 <=> Samples(e)
            /\ e.total = q.tokens
        BY <1>1, <1>2, <3>1 DEF Life, Delivery, Totals
      <3>3. /\ o.count \in Nat /\ q.tokens \in Nat /\ q.computed \in Int /\ Prompt[r] \in Nat
            /\ q.tokens < Prompt[r] + limit[r]
        BY RequestIs, Constants DEF OutputType, Life, Living
      <3>4. CASE Samples(e)
        <4>1. p.tokens # Prompt[r] + limit[r]
          BY <1>4, <1>9, <2>4, <3>2, <3>4
        <4>2. p.tokens = q.tokens + o.count /\ p.tokens < Prompt[r] + limit[r]
          BY <1>4, <2>4, <3>3, <4>1 DEF Smaller
        <4> QED
          BY <1>1, <1>2, <1>3, <1>4, <1>6, <2>1, <2>4, <3>1, <3>4, <4>2, DeliverLife DEF OutputType
      <3>5. CASE ~Samples(e)
        <4>1. o.count = 0
          BY <3>2, <3>3, <3>5
        <4>2. p.tokens = q.tokens
          BY <1>4, <2>4, <3>3, <4>1 DEF Smaller
        <4>3. p.computed = q.computed
          <5>1. Rejected(q, e, o) = 0
            BY <4>1 DEF Rejected
          <5> QED
            BY <1>4, <2>4, <3>3, <5>1
        <4> QED
          BY <1>1, <1>3, <1>4, <1>6, <2>1, <2>2, <3>5, <4>2, <4>3, ShiftLife
      <3> QED
        BY <3>4, <3>5
    <2> QED
      BY <2>3, <2>4
  <1> QED
    BY <1>8, <1>9

(* The oldest batch has none.                                              *)
LEMMA NoHeadLife ==
  ASSUME queue \in Seq(BatchType), queue # <<>>, queue' = Tail(queue), Ran(1),
         NEW r \in Requests, Life(r), ~Entering(r), ~Entering(r)',
         UNCHANGED <<known, cached, limit>>, req[r] \in RequestType,
         1 \notin InQueue(r) \/ ~Live(r), Alike(req'[r], req[r])
  PROVE  Life(r)'
  <1>1. CASE req[r].status = "finished"
    BY <1>1, ShiftEnded DEF Alike
  <1>2. CASE req[r].status # "finished"
    <2>1. 1 \notin InQueue(r)
      <3>1. CASE ~Live(r)
        <4>1. req[r].status = "absent"
          BY <1>2, <3>1, RequestIs DEF Live
        <4> QED
          BY <4>1 DEF Life, Unsent
      <3> QED
        BY <3>1
    <2>2. AllTokens(r)' = AllTokens(r) /\ OldTokens(r)' = OldTokens(r)
      BY <2>1, ShiftCounts DEF Life
    <2>3. Exact(r)'
      BY <2>2, CountsDef DEF Alike, Live, Life
    <2>4. InQueue(r) = {} => InQueue(r)' = {}
      BY ShiftIs
    <2>5. Unsent(r)'
      BY <2>4 DEF Alike, Life, Unsent
    <2>6. 1 \notin Fresh(r)
      BY <2>1 DEF Fresh
    <2> QED
      BY <2>3, <2>5, <2>6, ShiftLife DEF Alike
  <1> QED
    BY <1>1, <1>2

-----------------------------------------------------------------------------
(***************************************************************************)
(* What every action is shown to preserve.                                 *)
(***************************************************************************)

(* Every request and its entries are in order.                             *)
Lives == \A r \in Requests : Life(r)

(* With drafts, only the youngest batch samples for a life that goes on.   *)
LoneLast == \A r \in Requests : Live(r) => \A i \in Fresh(r) : Samples(Of(i, r)) => i = Len(queue)

(* OneDecodeStep is LoneLast in other words.                               *)
LEMMA OneIs ==
  (queue \in Seq(BatchType)) => (OneDecodeStep <=> (NumSpec > 0 => LoneLast))
  <1> SUFFICES ASSUME queue \in Seq(BatchType) PROVE OneDecodeStep <=> (NumSpec > 0 => LoneLast)
    OBVIOUS
  <1>1. \A i \in DOMAIN queue : \A r \in DOMAIN queue[i].entries : r \in Requests
    BY QueueIs, BatchIs
  <1> QED
    BY <1>1 DEF OneDecodeStep, LoneLast, Fresh, InQueue, Of, Samples, End

(* And so it is after a step.                                              *)
LEMMA OneNext ==
  ASSUME queue' \in Seq(BatchType), NumSpec > 0 => LoneLast'
  PROVE  OneDecodeStep'
  <1>1. (queue \in Seq(BatchType) => (OneDecodeStep <=> (NumSpec > 0 => LoneLast)))'
    BY OneIs, PTL
  <1> QED
    BY <1>1

(* The invariant has it.                                                   *)
LEMMA LoneNow ==
  ASSUME Invariant, NumSpec > 0
  PROVE  LoneLast
  BY OneIs DEF Invariant, TypeOK

(* An entry of the step continues its request as long as the queue and     *)
(* the request are what they were.                                         *)
LEMMA ContinuesKept ==
  ASSUME NEW r \in Requests, NEW e, Continues(e, r), Kept(r), Alike(req'[r], req[r])
  PROVE  Continues(e, r)'
  <1>1. InQueue(r)' = InQueue(r) /\ Fresh(r)' = Fresh(r)
    BY KeptSets
  <1>2. \A i \in Fresh(r) : Samples(Of(i, r))' = Samples(Of(i, r))
    BY KeptSets DEF Fresh, Samples, End
  <1> QED
    BY <1>1, <1>2 DEF Continues, Alike, Sane, Samples, End

(* A request stays as it is, or finishes; and its entry in the step.       *)
AlikeKept(r) ==
  /\ req'[r].tokens = req[r].tokens
  /\ Alike(req'[r], req[r]) \/ req'[r].status = "finished"

(* The entry of r in the step, if it admits r, is as it was.               *)
EnteringKept(r) ==
  /\ Entering(r)' = Entering(r)
  /\ Entering(r) => step'.entries[r].kind = step.entries[r].kind

(* Nothing happens to the queue or to what the last stage has.             *)
LEMMA Calm ==
  ASSUME Invariant, UNCHANGED <<queue, known, cached, limit>>,
         \A r \in Requests : AlikeKept(r) /\ EnteringKept(r)
  PROVE  /\ Lives' /\ Progress' /\ Outs' /\ OneDecodeStep'
         /\ (InSchedule' => InSchedule) => Alone'
  <1>1. \A r \in Requests : Kept(r)
    BY SameKept
  <1>2. Lives'
    <2> SUFFICES ASSUME NEW r \in Requests PROVE Life(r)'
      BY DEF Lives
    <2> QED
      BY <1>1, KeptLife DEF Invariant, AlikeKept, EnteringKept
  <1>3. Progress' /\ Outs'
    BY DEF Invariant, Progress, Outs
  <1>4. ASSUME NEW r \in Requests, Live(r)'
        PROVE  /\ Live(r) /\ Fresh(r)' = Fresh(r)
               /\ \A i \in Fresh(r) : Samples(Of(i, r))' = Samples(Of(i, r))
    <2>1. Live(r)
      BY <1>4 DEF Live, Alike, AlikeKept
    <2> QED
      BY <1>1, <2>1, KeptSets DEF Fresh, Samples, End
  <1>5. OneDecodeStep'
    <2>1. ASSUME NumSpec > 0 PROVE LoneLast'
      BY <1>4, <2>1, LoneNow DEF LoneLast
    <2> QED
      BY <2>1, OneNext DEF Invariant, TypeOK
  <1>6. ASSUME InSchedule' => InSchedule PROVE Alone'
    BY <1>4, <1>6 DEF Invariant, Alone
  <1> QED
    BY <1>2, <1>3, <1>5, <1>6

(* Requests R leave the lists.                                             *)
LEMMA Leave ==
  ASSUME TypeOK, Members, Passed = <<>>, Passed' = <<>>, NEW R,
         running' = Without(running, R), waiting' = Without(waiting, R),
         skipped' = Without(skipped, R),
         \A r \in Requests : IF r \in R THEN req'[r].status # "running"
                             ELSE req'[r].status = req[r].status
  PROVE  /\ Members'
         /\ waiting' \in Seq(Requests) /\ skipped' \in Seq(Requests) /\ running' \in Seq(Requests)
  <1>1. /\ running' \in Seq(Requests) /\ Ids(running') = Ids(running) \ R /\ Once(running')
        /\ waiting' \in Seq(Requests) /\ Ids(waiting') = Ids(waiting) \ R /\ Once(waiting')
        /\ skipped' \in Seq(Requests) /\ Ids(skipped') = Ids(skipped) \ R /\ Once(skipped')
    BY IdsWithout DEF TypeOK, Members
  <1>2. Ids(Passed') = {} /\ Once(Passed')
    BY IdsEmpty
  <1>3. Once(running)' /\ Once(waiting)' /\ Once(skipped)' /\ Once(Passed)'
    BY <1>1, <1>2 DEF Once
  <1>4. /\ Ids(running)' = Ids(running) \ R /\ Ids(waiting)' = Ids(waiting) \ R
        /\ Ids(skipped)' = Ids(skipped) \ R /\ Ids(Passed)' = {}
    BY <1>1, <1>2 DEF Ids
  <1> QED
    BY <1>1, <1>3, <1>4 DEF Members

(* A request's status says where it is.                                    *)
LEMMA MembersIs ==
  ASSUME Members
  PROVE  \A r \in Requests :
            /\ req[r].status = "running" <=> r \in Ids(running)
            /\ r \in Ids(waiting) \cup Ids(skipped) \cup Ids(Passed)
                  => req[r].status \in {"waiting", "preempted"}
  BY DEF Members

(* Outside schedule there is no step to be in order.                       *)
LEMMA Seldom ==
  ASSUME ~InSchedule, ~InSchedule'
  PROVE  /\ Planned' /\ Alone'
         /\ \A r : Entering(r)' = Entering(r) /\ ~Entering(r) /\ EnteringKept(r)
  BY DEF Planned, Alone, Entering, EnteringKept

(* Requests that stay as they are are alike.                               *)
LEMMA SameAlike ==
  ASSUME req' = req
  PROVE  \A r : Alike(req'[r], req[r]) /\ AlikeKept(r)
  BY DEF Alike, AlikeKept

-----------------------------------------------------------------------------
(***************************************************************************)
(* The actions of clients, and those that move the engine between steps.   *)
(***************************************************************************)

(* add_request.                                                            *)
LEMMA AddStep ==
  ASSUME Invariant, NEW r \in Requests, Add(r)
  PROVE  Invariant'
  <1> USE DEF Invariant
  <1>1. /\ pc = "input" /\ pc' = "input" /\ req[r].status = "absent"
        /\ req' = [req EXCEPT ![r].status = "waiting"]
        /\ waiting' = Append(waiting, r)
        /\ UNCHANGED <<limit, skipped, running, step, queue, known, cached, drafts>>
    BY DEF Add, worker
  <1>2. ~InSchedule /\ ~InSchedule' /\ Passed = <<>> /\ Passed' = <<>>
    BY <1>1 DEF InSchedule, Passed
  <1>3. req'[r] = [req[r] EXCEPT !.status = "waiting"] /\ \A x \in Requests : x # r => req'[x] = req[x]
    BY <1>1 DEF TypeOK
  <1>4. /\ req'[r] \in RequestType /\ req'[r].status = "waiting" /\ req'[r].tokens = req[r].tokens
        /\ req'[r].computed = req[r].computed /\ req'[r].inflight = req[r].inflight
        /\ req'[r].stale = req[r].stale /\ req'[r].drop = req[r].drop
    <2>1. req[r] \in RequestType /\ "waiting" \in Status
      BY DEF TypeOK, Status
    <2> QED
      BY <1>3, <2>1, StatusIs
  <1>5. r \notin Ids(waiting) \cup Ids(skipped) \cup Ids(running)
    BY <1>1, MembersIs
  <1>6. /\ waiting' \in Seq(Requests) /\ Ids(waiting') = Ids(waiting) \cup {r} /\ Once(waiting')
    BY <1>1, <1>5, IdsAppend DEF TypeOK, Members
  <1>7. TypeOK'
    <2>1. req' \in [Requests -> RequestType]
      BY <1>1, <1>3, <1>4 DEF TypeOK
    <2> QED
      BY <1>1, <1>2, <1>6, <2>1 DEF TypeOK
  <1>8. Members'
    <2>1. Once(running)' /\ Once(waiting)' /\ Once(skipped)' /\ Once(Passed)'
      BY <1>1, <1>2, <1>6 DEF Members, Once
    <2>2. Ids(running)' = Ids(running) /\ Ids(waiting)' = Ids(waiting) \cup {r}
          /\ Ids(skipped)' = Ids(skipped) /\ Ids(Passed)' = Ids(Passed) /\ Ids(Passed) = {}
      BY <1>1, <1>2, <1>6, IdsEmpty DEF Ids
    <2> QED
      BY <1>1, <1>3, <1>4, <1>5, <2>1, <2>2 DEF Members
  <1>9. \A x \in Requests : Kept(x)
    BY <1>1, SameKept
  <1>10. Lives'
    <2> SUFFICES ASSUME NEW x \in Requests PROVE Life(x)'
      BY DEF Lives
    <2>1. CASE x = r
      <3>1. queue \in Seq(BatchType) /\ queue' \in Seq(BatchType) /\ limit[r] \in Nat \ {0}
        BY <1>1 DEF TypeOK
      <3> QED
        BY <1>1, <1>4, <1>9, <2>1, <3>1, AddLife
    <2>2. CASE x # r
      <3>1. Alike(req'[x], req[x]) /\ req'[x].tokens = req[x].tokens
        BY <1>3, <2>2 DEF Alike
      <3> QED
        BY <1>2, <1>9, <3>1, KeptLife, Seldom
    <2> QED
      BY <2>1, <2>2
  <1>11. Progress' /\ Outs'
    BY <1>1 DEF Progress, Outs
  <1>12. OneDecodeStep'
    <2> SUFFICES ASSUME NumSpec > 0 PROVE LoneLast'
      BY <1>7, OneNext DEF TypeOK
    <2> SUFFICES ASSUME NEW x \in Requests, Live(x)', NEW i \in Fresh(x)', Samples(Of(i, x))'
                 PROVE  i = Len(queue)'
      BY DEF LoneLast
    <2>1. Fresh(x)' = Fresh(x) /\ Samples(Of(i, x))' = Samples(Of(i, x))
      BY <1>9, KeptSets DEF Fresh, Samples, End
    <2>2. CASE x = r
      <3>1. InQueue(r) = {}
        BY <1>1 DEF Life, Unsent
      <3> QED
        BY <2>1, <2>2, <3>1 DEF Fresh
    <2>3. CASE x # r
      <3>1. Live(x)
        BY <1>3, <2>3 DEF Live
      <3> QED
        BY <1>1, <2>1, <3>1, LoneNow DEF LoneLast
    <2> QED
      BY <2>2, <2>3
  <1> QED
    BY <1>2, <1>7, <1>8, <1>10, <1>11, <1>12, Seldom DEF Lives

(* finish_requests, between two steps.                                     *)
LEMMA FinishedStep ==
  ASSUME Invariant, ~InSchedule, ~InSchedule', NEW R, Finished(R),
         UNCHANGED <<limit, step, queue, known, cached, drafts>>,
         pc' = pc, pc = "input"
  PROVE  Invariant'
  <1> USE DEF Invariant
  <1>1. Passed = <<>> /\ Passed' = <<>>
    BY DEF Passed
  <1>2. \A r \in Requests :
           req'[r] = IF r \in R THEN [req[r] EXCEPT !.status = "finished", !.blocks = 0] ELSE req[r]
    BY Zenon DEF Finished
  <1>3. ASSUME NEW r \in Requests
        PROVE  /\ req'[r] \in RequestType
               /\ r \in R => req'[r].status = "finished" /\ req'[r].tokens = req[r].tokens
               /\ r \notin R => req'[r] = req[r]
    <2>1. req[r] \in RequestType
      BY DEF TypeOK
    <2>2. CASE r \in R
      <3>1. req'[r] = Ended(req[r])
        BY Zenon, <1>2, <2>2 DEF Ended
      <3>2. req'[r] \in RequestType /\ req'[r].status = "finished" /\ req'[r].tokens = req[r].tokens
        BY <2>1, <3>1, FinishedIs
      <3> QED
        BY <2>2, <3>2
    <2>3. CASE r \notin R
      BY Zenon, <1>2, <2>1, <2>3
    <2> QED
      BY <2>2, <2>3
  <1>4. Members' /\ waiting' \in Seq(Requests) /\ skipped' \in Seq(Requests)
        /\ running' \in Seq(Requests)
    <2>1. \A r \in Requests : IF r \in R THEN req'[r].status # "running"
                              ELSE req'[r].status = req[r].status
      BY <1>3
    <2>2. running' = Without(running, R) /\ waiting' = Without(waiting, R)
          /\ skipped' = Without(skipped, R)
      BY Zenon DEF Finished
    <2> QED
      BY <1>1, <2>1, <2>2, Leave
  <1>5. TypeOK'
    <2>1. DOMAIN req' = Requests /\ req' = [r \in Requests |-> req'[r]]
      BY Zenon DEF Finished
    <2>2. req' \in [Requests -> RequestType]
      BY <1>3, <2>1
    <2> QED
      BY <1>4, <2>2 DEF TypeOK
  <1>6. Lives' /\ Progress' /\ Outs' /\ OneDecodeStep'
    <2>1. \A r \in Requests : AlikeKept(r)
      BY <1>3 DEF Alike, AlikeKept
    <2> QED
      BY <2>1, Calm, Seldom
  <1> QED
    BY <1>4, <1>5, <1>6, Seldom DEF Lives

(* Nothing changes but pc and what the invariant does not look at.         *)
LEMMA SameStep ==
  ASSUME Invariant, UNCHANGED <<pc, limit, req, waiting, skipped, running, step, queue, known, cached, drafts>>
  PROVE  Invariant'
  <1> USE DEF Invariant
  <1>1. Lives' /\ Progress' /\ Outs' /\ OneDecodeStep' /\ Alone'
    <2>1. InSchedule' = InSchedule /\ \A r \in Requests : EnteringKept(r)
      BY DEF InSchedule, Entering, EnteringKept
    <2> QED
      BY <2>1, SameAlike, Calm
  <1>2. Planned'
    <2>1. \A r \in Requests : Kept(r) /\ Alike(req'[r], req[r])
      BY SameKept DEF Alike
    <2>2. ASSUME InSchedule PROVE \A r \in DOMAIN step.entries : r \in Requests
      BY <2>2, StepIs, PlanIs DEF TypeOK
    <2>3. InSchedule' = InSchedule
      BY DEF InSchedule
    <2>4. ASSUME InSchedule, NEW r \in DOMAIN step.entries
          PROVE  Continues(step.entries[r], r)'
      <3> PICK e : e = step.entries[r]
        OBVIOUS
      <3>1. Continues(e, r) /\ r \in Requests
        BY <2>2, <2>4 DEF Planned
      <3>2. Continues(e, r)'
        BY <2>1, <3>1, ContinuesKept
      <3> QED
        BY <3>2
    <2> QED
      BY <2>3, <2>4 DEF Planned
  <1>3. TypeOK' /\ Members'
    BY DEF TypeOK, Members, InSchedule, Passed, Once
  <1> QED
    BY <1>1, <1>2, <1>3 DEF Lives

(* reset_prefix_cache: the running requests begin a new life, and what     *)
(* they have in flight is to be dropped.                                   *)
LEMMA ResetStep ==
  ASSUME Invariant, Reset
  PROVE  Invariant'
  <1> USE DEF Invariant
  <1> DEFINE R == Ids(running)
  <1>1. /\ pc = "input" /\ pc' = "input"
        /\ req' = [r \in Requests |-> IF r \in R THEN Preempted(req[r], TRUE) ELSE req[r]]
        /\ queue' = Outdated(R)
        /\ waiting' = running \o waiting
        /\ running' = <<>>
        /\ UNCHANGED <<limit, skipped, step, known, cached, drafts>>
    BY DEF Reset, worker
  <1>a. PICK W : W = R
    OBVIOUS
  <1>2. ~InSchedule /\ ~InSchedule' /\ Passed = <<>> /\ Passed' = <<>>
    BY <1>1 DEF InSchedule, Passed
  <1>3. queue \in Seq(BatchType) /\ queue' = Outdated(W)
    BY <1>1, <1>a DEF TypeOK
  <1>4. ASSUME NEW r \in Requests
        PROVE  /\ req'[r] \in RequestType
               /\ r \in W => req'[r].status = "preempted" /\ req[r].status = "running"
                             /\ req'[r] = Preempted(req[r], TRUE)
               /\ r \notin W => req'[r] = req[r]
    <2>1. req[r] \in RequestType
      BY DEF TypeOK
    <2>2. CASE r \in W
      <3>1. req'[r] = Preempted(req[r], TRUE) /\ req[r].status = "running"
        BY <1>1, <1>a, <2>2, MembersIs
      <3> QED
        BY ZenonT(60), <2>1, <2>2, <3>1, PreemptedIs
    <2>3. CASE r \notin W
      BY <1>1, <1>a, <2>1, <2>3
    <2> QED
      BY <2>2, <2>3
  <1>5. /\ waiting' \in Seq(Requests) /\ Ids(waiting') = W \cup Ids(waiting) /\ Once(waiting')
    <2>1. Ids(running) \cap Ids(waiting) = {}
      <3>1. Ids(waiting) \subseteq Requests
        BY IdsSeq DEF TypeOK
      <3> QED
        BY <3>1, MembersIs
    <2> QED
      BY <1>1, <1>a, <2>1, IdsConcat DEF TypeOK, Members
  <1>6. TypeOK'
    <2>1. req' \in [Requests -> RequestType]
      BY <1>1, <1>4
    <2>2. queue' \in Seq(BatchType)
      BY <1>3, OutdatedIs
    <2>3. running' \in Seq(Requests)
      BY <1>1
    <2> QED
      BY <1>1, <1>2, <1>5, <2>1, <2>2, <2>3 DEF TypeOK
  <1>7. Members'
    <2>1. Once(running)' /\ Once(waiting)' /\ Once(skipped)' /\ Once(Passed)'
      <3>1. Once(running') /\ Once(Passed')
        BY <1>1, <1>2, IdsEmpty
      <3> QED
        BY <1>1, <1>5, <3>1 DEF Members, Once
    <2>2. Ids(running)' = {} /\ Ids(waiting)' = W \cup Ids(waiting)
          /\ Ids(skipped)' = Ids(skipped) /\ Ids(Passed)' = {}
      <3>1. Ids(running') = {} /\ Ids(Passed') = {}
        BY <1>1, <1>2, IdsEmpty
      <3> QED
        BY <1>1, <1>5, <3>1 DEF Ids
    <2>3. \A r \in Requests : req'[r].status = "running" <=> FALSE
      BY <1>4, <1>a, MembersIs
    <2>4. W \cap Ids(skipped) = {}
      <3>1. Ids(skipped) \subseteq Requests
        BY IdsSeq DEF TypeOK
      <3> QED
        BY <3>1, <1>a, MembersIs
    <2>5. Ids(waiting) \cap Ids(skipped) = {}
      BY DEF Members
    <2>6. \A r \in Requests : r \in W \cup Ids(waiting) \cup Ids(skipped)
                                => req'[r].status \in {"waiting", "preempted"}
      BY <1>4, MembersIs
    <2> QED
      BY <2>1, <2>2, <2>3, <2>4, <2>5, <2>6 DEF Members
  <1>8. \A r \in Requests : r \notin W => Kept(r)
    BY <1>1, <1>3, OutdatedKept
  <1>9. Lives'
    <2> SUFFICES ASSUME NEW r \in Requests PROVE Life(r)'
      BY DEF Lives
    <2>1. CASE r \in W
      <3>1. req[r] \in RequestType /\ ~Entering(r) /\ ~Entering(r)'
        BY <1>2 DEF TypeOK, Entering
      <3>2. req'[r] = Preempted(req[r], TRUE) /\ req[r].status = "running" /\ Life(r)
        BY <1>4, <2>1
      <3> QED
        BY <1>1, <1>3, <2>1, <3>1, <3>2, PreemptLife
    <2>2. CASE r \notin W
      <3>1. Alike(req'[r], req[r]) /\ req'[r].tokens = req[r].tokens
        BY <1>4, <2>2 DEF Alike
      <3> QED
        BY <1>2, <1>8, <2>2, <3>1, KeptLife, Seldom
    <2> QED
      BY <2>1, <2>2
  <1>10. Progress' /\ Outs'
    <2>1. /\ DOMAIN queue' = DOMAIN queue /\ Len(queue') = Len(queue)
          /\ \A i \in DOMAIN queue :
               /\ DOMAIN queue'[i].entries = DOMAIN queue[i].entries
               /\ queue'[i].ran = queue[i].ran /\ queue'[i].out = queue[i].out
      BY <1>3, OutdatedIs
    <2> QED
      BY <2>1 DEF Progress, Outs
  <1>11. OneDecodeStep'
    <2> SUFFICES ASSUME NumSpec > 0 PROVE LoneLast'
      BY <1>6, OneNext DEF TypeOK
    <2> SUFFICES ASSUME NEW x \in Requests, Live(x)', NEW i \in Fresh(x)', Samples(Of(i, x))'
                 PROVE  i = Len(queue')
      BY DEF LoneLast
    <2>1. CASE x \in W
      <3>1. Life(x)' /\ req'[x].status = "preempted"
        BY <1>4, <1>9, <2>1 DEF Lives
      <3> QED
        BY <3>1 DEF Life, Living
    <2>2. CASE x \notin W
      <3>1. Fresh(x)' = Fresh(x) /\ Samples(Of(i, x))' = Samples(Of(i, x))
        BY <1>8, <2>2, KeptSets DEF Fresh, Samples, End
      <3>2. Live(x) /\ Len(queue') = Len(queue)
        BY <1>3, <1>4, <2>2, OutdatedIs DEF Live
      <3> QED
        BY <3>1, <3>2, LoneNow DEF LoneLast
    <2> QED
      BY <2>1, <2>2
  <1> QED
    BY <1>2, <1>6, <1>7, <1>9, <1>10, <1>11, Seldom DEF Lives

(* With drafts no step begins while something that samples is in flight.   *)
LEMMA HoldEnough ==
  ASSUME Invariant, NumSpec > 0, ~Hold, NEW r \in Requests, Live(r), NEW i \in Fresh(r)
  PROVE  ~Samples(Of(i, r))
  <1> SUFFICES ASSUME Samples(Of(i, r)) PROVE FALSE
    OBVIOUS
  <1>1. Life(r) /\ queue \in Seq(BatchType) /\ req[r] \in RequestType
    BY DEF Invariant, TypeOK
  <1>2. req[r].status = "running"
    BY <1>1 DEF Life, Living
  <1>3. r \in Ids(running)
    BY <1>2, MembersIs DEF Invariant
  <1>4. queue # <<>>
    BY DEF Fresh, InQueue
  <1>5. req[r].computed < Prompt[r]
    <2>1. req[r].computed \in Int /\ Prompt[r] \in Nat
      BY <1>1, RequestIs, Constants
    <2> QED
      BY <1>3, <1>4, <2>1 DEF Hold
  <1>6. \A k \in Fresh(r) : k <= i
    BY <1>1 DEF Life, SamplesLast, Valid, Fresh
  <1>7. req[r].computed = End(Of(i, r)) /\ Of(i, r).total = req[r].tokens
    BY <1>1, <1>6 DEF Life, Reaches, Totals, Fresh
  <1>8. Prompt[r] <= req[r].tokens /\ req[r].tokens \in Nat /\ req[r].computed \in Int /\ Prompt[r] \in Nat
    BY <1>1, RequestIs, Constants DEF Life, Living
  <1> QED
    BY <1>5, <1>7, <1>8 DEF Samples

(* A step begins.                                                          *)
LEMMA BeginStep ==
  ASSUME Invariant, Begin
  PROVE  Invariant'
  <1> USE DEF Invariant
  <1>1. /\ pc = "input" /\ pc' = "running" /\ ~Hold
        /\ step' = [at |-> 1, budget |-> IF paused = "all" THEN 0 ELSE MaxPrefill,
                    entries |-> <<>>, preempted |-> FALSE, prefill |-> FALSE, skip |-> <<>>]
        /\ UNCHANGED <<limit, req, waiting, skipped, running, queue, known, cached, drafts>>
    BY DEF Begin, worker
  <1>2. step' \in StepType /\ DOMAIN step'.entries = {} /\ step'.skip = <<>>
    <2>1. (IF paused = "all" THEN 0 ELSE MaxPrefill) \in Int
      BY Constants
    <2> PICK b \in Int : b = IF paused = "all" THEN 0 ELSE MaxPrefill
      BY <2>1
    <2> QED
      BY <1>1, StepBegun
  <1>3. Passed = <<>> /\ Passed' = <<>> /\ ~InSchedule
    BY <1>1, <1>2 DEF Passed, InSchedule
  <1>4. TypeOK'
    BY <1>1, <1>2 DEF TypeOK
  <1>5. Members'
    BY <1>1, <1>3 DEF Members, Once, Ids
  <1>6. \A r \in Requests : ~Entering(r) /\ Entering(r)' = Entering(r)
    BY <1>2, <1>3 DEF Entering
  <1>7. Lives' /\ Progress' /\ Outs' /\ OneDecodeStep'
    <2>1. \A r \in Requests : EnteringKept(r)
      BY <1>6 DEF EnteringKept
    <2> QED
      BY <1>1, <2>1, SameAlike, Calm
  <1>8. Alone'
    <2> SUFFICES ASSUME NumSpec > 0, NEW r \in Requests, Live(r)', NEW i \in Fresh(r)'
                 PROVE  ~Samples(Of(i, r))'
      BY DEF Alone
    <2>1. Live(r) /\ Kept(r)
      BY <1>1, SameKept DEF Live
    <2>2. i \in Fresh(r) /\ Samples(Of(i, r))' = Samples(Of(i, r))
      BY <2>1, KeptSets DEF Fresh, Samples, End
    <2> QED
      BY <1>1, <2>1, <2>2, HoldEnough
  <1>9. Planned'
    BY <1>2 DEF Planned
  <1> QED
    BY <1>4, <1>5, <1>7, <1>8, <1>9 DEF Lives

(* The engine turns to the oldest batch.                                   *)
LEMMA BlockStep ==
  ASSUME Invariant, Block
  PROVE  Invariant'
  <1> USE DEF Invariant
  <1>1. /\ pc = "input" /\ pc' = "wait"
        /\ UNCHANGED <<limit, req, waiting, skipped, running, step, queue, known, cached, drafts>>
    BY DEF Block, engine, worker
  <1>2. ~InSchedule /\ ~InSchedule' /\ Passed = <<>> /\ Passed' = <<>>
    BY <1>1 DEF InSchedule, Passed
  <1>3. TypeOK' /\ Members'
    <2>1. TypeOK'
      BY <1>1, <1>2 DEF TypeOK
    <2>2. Members'
      BY <1>1, <1>2 DEF Members, Once, Ids
    <2> QED
      BY <2>1, <2>2
  <1>4. Lives' /\ Progress' /\ Outs' /\ OneDecodeStep'
    <2>1. \A r \in Requests : AlikeKept(r) /\ EnteringKept(r)
      BY <1>1, <1>2, SameAlike, Seldom
    <2> QED
      BY <1>1, <2>1, Calm
  <1> QED
    BY <1>2, <1>3, <1>4, Seldom DEF Lives

-----------------------------------------------------------------------------
(***************************************************************************)
(* The first loop of schedule.                                             *)
(***************************************************************************)

(* The step that is being built.                                           *)
LEMMA PlanRequests ==
  ASSUME TypeOK, InSchedule
  PROVE  /\ step \in StepType /\ step.entries \in PlanType /\ step.at \in Nat \ {0}
         /\ step.budget \in Int /\ step.skip \in Seq(Requests)
         /\ DOMAIN step.entries \subseteq Requests
         /\ \A r \in DOMAIN step.entries : step.entries[r] \in EntryType
  <1>1. step \in StepType
    BY DEF TypeOK
  <1>2. /\ step.at \in Nat \ {0} /\ step.budget \in Int /\ step.entries \in PlanType
        /\ step.skip \in Seq(Requests)
    BY <1>1, StepIs
  <1> QED
    BY <1>1, <1>2, PlanIs

(* The entries of the step are kept, and so is all else of their requests. *)
LEMMA PlanKept ==
  ASSUME TypeOK, Planned, InSchedule, step'.entries = step.entries,
         \A r \in DOMAIN step.entries : Kept(r) /\ Alike(req'[r], req[r])
  PROVE  \A r \in DOMAIN step.entries : Continues(step.entries[r], r)'
  <1> SUFFICES ASSUME NEW r \in DOMAIN step.entries PROVE Continues(step.entries[r], r)'
    OBVIOUS
  <1> PICK e : e = step.entries[r]
    OBVIOUS
  <1>1. Continues(e, r) /\ r \in Requests
    BY PlanRequests DEF Planned
  <1>2. Continues(e, r)'
    BY <1>1, ContinuesKept
  <1> QED
    BY <1>2

(* A step that moves inside schedule and touches no request.               *)
LEMMA ScheduleMoves ==
  ASSUME Invariant, InSchedule, InSchedule',
         UNCHANGED <<limit, req, queue, known, cached, drafts>>,
         step' \in StepType, step'.entries = step.entries,
         Members', pc' = "running" => pc = "running" /\ running' = running /\ step'.at >= step.at,
         waiting' \in Seq(Requests), skipped' \in Seq(Requests), running' \in Seq(Requests),
         pc' \in {"running", "waiting", "close"}
  PROVE  Invariant'
  <1> USE DEF Invariant
  <1>1. \A r \in Requests : AlikeKept(r) /\ EnteringKept(r)
    BY SameAlike DEF Entering, EnteringKept
  <1>2. Lives' /\ Progress' /\ Outs' /\ OneDecodeStep' /\ Alone'
    BY <1>1, Calm
  <1>3. TypeOK'
    BY DEF TypeOK
  <1>4. Planned'
    <2>1. \A r \in DOMAIN step.entries : Kept(r) /\ Alike(req'[r], req[r])
      BY SameKept, SameAlike
    <2>2. \A r \in DOMAIN step.entries : Continues(step.entries[r], r)'
      BY <2>1, PlanKept
    <2>3. DOMAIN running = 1 .. Len(running) /\ step.at \in Nat /\ step'.at \in Nat
      BY PlanRequests, StepIs DEF TypeOK
    <2> QED
      BY <2>2, <2>3 DEF Planned
  <1> QED
    BY <1>2, <1>3, <1>4 DEF Lives

(* A running request gets no tokens.                                       *)
LEMMA SkipRunningStep ==
  ASSUME Invariant, SkipRunning
  PROVE  Invariant'
  <1>1. /\ pc = "running" /\ pc' = pc /\ step' = [step EXCEPT !.at = @ + 1]
        /\ UNCHANGED <<limit, req, waiting, skipped, running, queue, known, cached, drafts>>
    BY DEF SkipRunning, Scheduling, worker
  <1>2. InSchedule /\ InSchedule'
    BY <1>1 DEF InSchedule
  <1>3. step \in StepType /\ step.at \in Nat /\ TypeOK /\ Members
    BY <1>2, PlanRequests DEF Invariant
  <1>4. step' \in StepType /\ step'.at = step.at + 1 /\ step'.entries = step.entries /\ step'.skip = step.skip
    BY <1>1, <1>3, StepAt
  <1>5. Members'
    <2>1. Passed' = Passed
      BY <1>1, <1>4 DEF Passed
    <2>2. Once(running)' /\ Once(waiting)' /\ Once(skipped)' /\ Once(Passed)'
      BY <1>1, <1>3, <2>1 DEF Members, Once
    <2>3. Ids(running)' = Ids(running) /\ Ids(waiting)' = Ids(waiting)
          /\ Ids(skipped)' = Ids(skipped) /\ Ids(Passed)' = Ids(Passed)
      BY <1>1, <2>1 DEF Ids
    <2> QED
      BY <1>1, <1>3, <2>2, <2>3 DEF Members
  <1>6. waiting' \in Seq(Requests) /\ skipped' \in Seq(Requests) /\ running' \in Seq(Requests)
    BY <1>1, <1>3 DEF TypeOK
  <1>7. step'.at >= step.at
    BY <1>3, <1>4
  <1> QED
    BY <1>1, <1>2, <1>4, <1>5, <1>6, <1>7, ScheduleMoves

(* The first loop ends.                                                    *)
LEMMA EndRunningStep ==
  ASSUME Invariant, EndRunning
  PROVE  Invariant'
  <1>1. /\ pc = "running" /\ pc' \in {"waiting", "close"}
        /\ UNCHANGED <<limit, req, waiting, skipped, running, step, queue, known, cached, drafts>>
    BY DEF EndRunning, engine, worker
  <1>2. InSchedule /\ InSchedule'
    BY <1>1 DEF InSchedule
  <1>3. step \in StepType /\ TypeOK /\ Members
    BY <1>2, PlanRequests DEF Invariant
  <1>4. Members'
    <2>1. Passed' = Passed \/ Passed' = <<>>
      BY <1>1 DEF Passed
    <2>2. Ids(Passed') \subseteq Ids(Passed) /\ Once(Passed')
      BY <1>3, <2>1, IdsEmpty DEF Members
    <2>3. Once(running)' /\ Once(waiting)' /\ Once(skipped)' /\ Once(Passed)'
      BY <1>1, <1>3, <2>2 DEF Members, Once
    <2>4. Ids(running)' = Ids(running) /\ Ids(waiting)' = Ids(waiting)
          /\ Ids(skipped)' = Ids(skipped) /\ Ids(Passed)' \subseteq Ids(Passed)
      BY <1>1, <2>2 DEF Ids
    <2> QED
      BY <1>1, <1>3, <2>3, <2>4 DEF Members
  <1>5. waiting' \in Seq(Requests) /\ skipped' \in Seq(Requests) /\ running' \in Seq(Requests)
    BY <1>1, <1>3 DEF TypeOK
  <1> QED
    BY <1>1, <1>2, <1>3, <1>4, <1>5, ScheduleMoves

(* In the first loop every entry is one of a running request.              *)
LEMMA NoneEnters ==
  ASSUME Invariant, pc = "running", InSchedule', step'.entries = step.entries
  PROVE  \A r \in Requests : ~Entering(r) /\ ~Entering(r)' /\ EnteringKept(r)
  <1>1. \A r \in DOMAIN step.entries : step.entries[r].kind = "cached"
    BY DEF Invariant, Planned, InSchedule
  <1> QED
    BY <1>1 DEF Entering, EnteringKept

(* The last running request is preempted. It is not in the step: the       *)
(* step has entries of requests before the one that is scheduled now.      *)
LEMMA PreemptLastStep ==
  ASSUME Invariant, PreemptLast
  PROVE  Invariant'
  <1> USE DEF Invariant
  <1>1. PICK r, v :
        /\ r = running[step.at] /\ v = Last(running)
        /\ pc = "running" /\ step.at <= Len(running)
        /\ req' = [req EXCEPT ![v] = Preempted(req[v], FALSE)]
        /\ queue' = Outdated({v})
        /\ running' = Front(running)
        /\ waiting' = <<v>> \o waiting
        /\ step' = [step EXCEPT !.preempted = TRUE]
        /\ pc' = IF v = r THEN "close" ELSE "running"
        /\ UNCHANGED <<limit, skipped, known, cached, drafts>>
    BY DEF PreemptLast, Scheduling, worker
  <1>2. InSchedule /\ InSchedule'
    BY <1>1 DEF InSchedule
  <1>3. /\ step \in StepType /\ step.at \in Nat \ {0} /\ queue \in Seq(BatchType)
        /\ running \in Seq(Requests) /\ waiting \in Seq(Requests) /\ skipped \in Seq(Requests)
        /\ Len(running) \in Nat /\ DOMAIN running = 1 .. Len(running)
    BY SMTT(30), <1>2, PlanRequests DEF TypeOK
  <1>4. step' \in StepType /\ step'.at = step.at /\ step'.entries = step.entries /\ step'.skip = step.skip
    BY <1>1, <1>3, StepPreempted
  <1>5. /\ running' \in Seq(Requests) /\ v \in Requests /\ Len(running') = Len(running) - 1
        /\ \A i \in 1 .. Len(running) - 1 : running'[i] = running[i]
        /\ v \in Ids(running) /\ v = running[Len(running)]
        /\ Ids(running') = Ids(running) \ {v} /\ Once(running')
    <2>1. Len(running) > 0 /\ Once(running)
      BY <1>1, <1>3 DEF Members
    <2> QED
      BY Zenon, <1>1, <1>3, <2>1, IdsFront
  <1>6. req[v].status = "running" /\ req[v] \in RequestType
    BY <1>5, MembersIs DEF TypeOK
  <1>7. /\ req'[v] = Preempted(req[v], FALSE) /\ req'[v] \in RequestType
        /\ req'[v].status = "preempted" /\ req'[v].tokens = req[v].tokens
        /\ \A x \in Requests : x # v => req'[x] = req[x]
        /\ req' \in [Requests -> RequestType]
    <2>1. req'[v] = Preempted(req[v], FALSE) /\ \A x \in Requests : x # v => req'[x] = req[x]
      BY <1>1, <1>5 DEF TypeOK
    <2>2. /\ req'[v] \in RequestType /\ req'[v].status = "preempted" /\ req'[v].tokens = req[v].tokens
      BY ZenonT(60), <1>6, <2>1, PreemptedIs
    <2> QED
      BY <1>1, <2>1, <2>2 DEF TypeOK
  <1>8. /\ waiting' \in Seq(Requests) /\ Ids(waiting') = {v} \cup Ids(waiting) /\ Once(waiting')
    <2>w. PICK w : w = <<v>>
      OBVIOUS
    <2>1. w \in Seq(Requests) /\ Ids(w) = {v} /\ Once(w)
      BY <1>5, <2>w DEF Ids, Once
    <2>2. v \notin Ids(waiting)
      BY <1>5, <1>6, MembersIs
    <2>3. Once(waiting) /\ Ids(w) \cap Ids(waiting) = {}
      BY <2>1, <2>2 DEF Members
    <2> QED
      <3>1. w \o waiting \in Seq(Requests) /\ Ids(w \o waiting) = Ids(w) \cup Ids(waiting)
            /\ Once(w \o waiting)
        BY <1>3, <2>1, <2>3, IdsConcat
      <3>2. waiting' = w \o waiting
        BY <1>1, <2>w
      <3> QED
        BY <2>1, <3>1, <3>2
  <1>9. TypeOK'
    <2>1. queue' \in Seq(BatchType)
      BY <1>1, <1>3, OutdatedIs
    <2> QED
      BY <1>1, <1>4, <1>5, <1>7, <1>8, <2>1 DEF TypeOK
  <1>10. Members'
    <2>1. Passed' = Passed \/ Passed' = <<>>
      BY <1>1, <1>4 DEF Passed
    <2>2. Ids(Passed') \subseteq Ids(Passed) /\ Once(Passed')
      BY <2>1, IdsEmpty DEF Members
    <2>3. Once(running)' /\ Once(waiting)' /\ Once(skipped)' /\ Once(Passed)'
      BY <1>1, <1>5, <1>8, <2>2 DEF Members, Once
    <2>4. Ids(running)' = Ids(running) \ {v} /\ Ids(waiting)' = {v} \cup Ids(waiting)
          /\ Ids(skipped)' = Ids(skipped) /\ Ids(Passed)' \subseteq Ids(Passed)
      BY ZenonT(60), <1>1, <1>5, <1>8, <2>2 DEF Ids
    <2>5. v \notin Ids(skipped) \cup Ids(Passed)
      BY <1>5, <1>6, MembersIs
    <2>6. \A x \in Requests :
            /\ req'[x].status = "running" <=> x \in Ids(running) \ {v}
            /\ x \in {v} \cup Ids(waiting) \cup Ids(skipped) \cup Ids(Passed)
                  => req'[x].status \in {"waiting", "preempted"}
      BY <1>7, MembersIs
    <2>7. Ids(waiting) \cap Ids(skipped) = {} /\ Ids(Passed) \cap (Ids(waiting) \cup Ids(skipped)) = {}
      BY DEF Members
    <2> QED
      BY <2>3, <2>4, <2>5, <2>6, <2>7 DEF Members
  <1>11. \A x \in Requests : x # v => Kept(x) /\ Alike(req'[x], req[x])
    BY <1>1, <1>3, <1>7, OutdatedKept DEF Alike
  <1>12. Lives'
    <2> SUFFICES ASSUME NEW x \in Requests PROVE Life(x)'
      BY DEF Lives
    <2>1. ~Entering(x) /\ ~Entering(x)' /\ EnteringKept(x)
      BY <1>1, <1>2, <1>4, NoneEnters
    <2>2. CASE x = v
      BY <1>1, <1>3, <1>6, <1>7, <2>1, <2>2, PreemptLife
    <2>3. CASE x # v
      <3>1. req'[x].tokens = req[x].tokens
        BY <1>7, <2>3
      <3> QED
        BY <1>11, <2>1, <2>3, <3>1, KeptLife DEF EnteringKept
    <2> QED
      BY <2>2, <2>3
  <1>13. Progress' /\ Outs'
    <2>1. /\ DOMAIN queue' = DOMAIN queue /\ Len(queue') = Len(queue)
          /\ \A i \in DOMAIN queue :
               /\ DOMAIN queue'[i].entries = DOMAIN queue[i].entries
               /\ queue'[i].ran = queue[i].ran /\ queue'[i].out = queue[i].out
      BY <1>1, <1>3, OutdatedIs
    <2> QED
      BY <2>1 DEF Progress, Outs
  <1>14. ASSUME NEW x \in Requests, Live(x)', NEW i \in Fresh(x)'
         PROVE  Live(x) /\ i \in Fresh(x) /\ Samples(Of(i, x))' = Samples(Of(i, x))
    <2>1. CASE x = v
      <3>1. Life(v)'
        BY <1>5, <1>12 DEF Lives
      <3> QED
        BY <1>7, <1>14, <2>1, <3>1 DEF Life, Living
    <2>2. CASE x # v
      <3>1. Live(x)
        BY <1>7, <1>14, <2>2 DEF Live
      <3> QED
        BY <1>11, <1>14, <2>2, <3>1, KeptSets DEF Fresh, Samples, End
    <2> QED
      BY <2>1, <2>2
  <1>15. OneDecodeStep'
    <2>1. Len(queue') = Len(queue)
      BY <1>1, <1>3, OutdatedIs
    <2>2. ASSUME NumSpec > 0 PROVE LoneLast'
      BY <1>14, <2>1, <2>2, LoneNow DEF LoneLast
    <2> QED
      BY <1>9, <2>2, OneNext DEF TypeOK
  <1>16. Alone'
    BY <1>2, <1>14 DEF Alone
  <1>17. Planned'
    <2>1. ASSUME NEW x \in DOMAIN step.entries
          PROVE  /\ x \in Requests /\ x # v /\ step.entries[x].kind = "cached"
                 /\ \E j \in DOMAIN running' : j < step.at /\ running'[j] = x
      <3>1. PICK j \in DOMAIN running : j < step.at /\ running[j] = x
        BY <1>1, <1>2 DEF Planned
      <3>2. x \in Requests /\ step.entries[x].kind = "cached"
        BY <1>1, <1>2, PlanRequests DEF Planned
      <3>3. j \in 1 .. Len(running) - 1 /\ Len(running) \in DOMAIN running
        BY <1>1, <1>3, <3>1
      <3>4. x # v
        BY SMTT(30), <1>3, <1>5, <3>1, <3>3 DEF Members, Once
      <3>5. j \in DOMAIN running' /\ running'[j] = x
        <4>1. DOMAIN running' = 1 .. Len(running) - 1
          BY <1>5
        <4> QED
          BY <1>5, <3>1, <3>3, <4>1
      <3> QED
        BY <3>1, <3>2, <3>4, <3>5
    <2>2. \A x \in DOMAIN step.entries : Continues(step.entries[x], x)'
      <3>1. \A x \in DOMAIN step.entries : Kept(x) /\ Alike(req'[x], req[x])
        BY <1>11, <2>1
      <3> QED
        BY <1>2, <1>4, <3>1, PlanKept
    <2> QED
      BY <1>4, <2>1, <2>2 DEF Planned
  <1> QED
    BY <1>9, <1>10, <1>12, <1>13, <1>15, <1>16, <1>17 DEF Lives

(* A set of numbers has a least one, and a set of places in the queue a    *)
(* last one.                                                               *)
LEMMA Least ==
  ASSUME NEW T \in SUBSET Nat, T # {}
  PROVE  \E x \in T : \A y \in T : x <= y
  <1>1. PICK R : R = OpToRel(<, Nat)
    BY Zenon
  <1>2. \A y, x \in Nat : y < x => <<y, x>> \in R
    BY <1>1 DEF OpToRel
  <1>3. IsWellFoundedOn(R, Nat)
    BY Zenon, <1>1, NatLessThanWellFounded
  <1>4. PICK x \in T : \A y \in T : ~(<<y, x>> \in R)
    BY <1>3, WFMin
  <1>5. ASSUME NEW y \in T PROVE x <= y
    <2>1. x \in Nat /\ y \in Nat
      OBVIOUS
    <2>2. ~(y < x)
      BY <1>2, <1>4, <2>1
    <2> QED
      BY <2>1, <2>2
  <1> QED
    BY <1>4, <1>5

(* A set of places has a last one, by the same argument from above.        *)
LEMMA Topmost ==
  ASSUME NEW n \in Nat, NEW S \in SUBSET (1 .. n), S # {}
  PROVE  \E i \in S : \A k \in S : k <= i
  <1>1. PICK T : T = {n - i : i \in S}
    OBVIOUS
  <1>2. T \in SUBSET Nat /\ T # {}
    <2>1. \A i \in S : i \in 1 .. n
      OBVIOUS
    <2>2. \A i \in S : n - i \in Nat
      BY <2>1
    <2>3. \E i \in S : n - i \in T
      BY <1>1
    <2>4. \A t \in T : t \in Nat
      BY <1>1, <2>2
    <2> QED
      BY <2>3, <2>4
  <1>3. PICK x \in T : \A y \in T : x <= y
    BY <1>2, Least
  <1>4. PICK i \in S : x = n - i
    BY <1>1
  <1>5. ASSUME NEW k \in S PROVE k <= i
    <2>1. x <= n - k
      BY <1>1, <1>3
    <2> QED
      BY <1>4, <2>1
  <1> QED
    BY <1>5

(* A running request is not computed beyond its text when schedule comes   *)
(* to it, and when it has something left nothing in flight samples for it. *)
LEMMA NotAhead ==
  ASSUME Invariant, InSchedule, NEW r \in Requests, req[r].status = "running"
  PROVE  /\ req[r].computed <= req[r].tokens
         /\ req[r].tokens < ModelLen
         /\ NumSpec > 0 \/ req[r].computed < req[r].tokens => \A i \in Fresh(r) : ~Samples(Of(i, r))
  <1>1. Life(r) /\ Live(r) /\ req[r] \in RequestType /\ queue \in Seq(BatchType)
    BY DEF Invariant, TypeOK, Live
  <1>2. /\ req[r].computed \in Int /\ req[r].tokens \in Nat /\ Prompt[r] \in Nat /\ ModelLen \in Nat
        /\ limit[r] \in Nat /\ limit[r] <= MaxOut[r] /\ MaxOut[r] \in Nat /\ Prompt[r] + MaxOut[r] <= ModelLen
        /\ NumSpec \in Nat
    BY <1>1, RequestIs, Constants DEF Invariant, TypeOK
  <1>3. req[r].tokens < ModelLen
    BY <1>1, <1>2 DEF Life, Living
  <1>4. ASSUME NEW i \in Fresh(r), Samples(Of(i, r))
        PROVE  NumSpec = 0 /\ req[r].computed = req[r].tokens
    <2>1. NumSpec = 0
      BY <1>1, <1>2, <1>4 DEF Invariant, Alone
    <2>2. i \in InQueue(r) /\ i \in Valid(r)
      BY DEF Fresh, Valid
    <2>3. \A k \in Fresh(r) : k <= i
      BY <1>1, <1>4, <2>2 DEF Life, SamplesLast, Fresh
    <2>4. req[r].computed = End(Of(i, r)) /\ Of(i, r).total = req[r].tokens
      BY <1>1, <2>2, <2>3 DEF Life, Reaches, Totals
    <2>5. Of(i, r) \in EntryType
      <3>1. i \in DOMAIN queue /\ r \in DOMAIN queue[i].entries
        BY <2>2 DEF InQueue
      <3> QED
        BY <3>1, EntryIs DEF Invariant
    <2>6. Of(i, r).spec = 0 /\ End(Of(i, r)) <= Of(i, r).total + Of(i, r).spec
      BY <1>1, <2>1, <2>2, <2>5 DEF Life, SaneEntries, Sane, EntryType
    <2>7. PICK e : e = Of(i, r)
      OBVIOUS
    <2>8. End(e) >= e.total
      BY <1>4, <2>7 DEF Samples
    <2>9. /\ req[r].computed <= req[r].tokens + 0 /\ req[r].computed >= req[r].tokens
      BY <2>4, <2>6, <2>7, <2>8
    <2> QED
      BY <1>2, <2>1, <2>9
  <1>5. ASSUME NEW i \in Fresh(r), ~Samples(Of(i, r)), \A k \in Fresh(r) : k <= i
        PROVE  req[r].computed < req[r].tokens
    <2>1. req[r].computed = End(Of(i, r)) /\ Of(i, r).total = req[r].tokens
      BY <1>1, <1>5 DEF Life, Reaches, Totals, Fresh
    <2> QED
      BY <1>2, <1>5, <2>1 DEF Samples
  <1>6. req[r].computed <= req[r].tokens
    <2>1. CASE Fresh(r) = {}
      BY <1>1, <1>2, <2>1 DEF Life, Behind
    <2>2. CASE Fresh(r) # {}
      <3>1. \E i \in Fresh(r) : \A k \in Fresh(r) : k <= i
        <4>1. Fresh(r) \subseteq 1 .. Len(queue) /\ Len(queue) \in Nat
          BY <1>1, QueueIs DEF Fresh, InQueue
        <4> QED
          BY <2>2, <4>1, Topmost
      <3>2. PICK i \in Fresh(r) : \A k \in Fresh(r) : k <= i
        BY <3>1
      <3>3. CASE Samples(Of(i, r))
        BY <1>2, <1>4, <3>3
      <3>4. CASE ~Samples(Of(i, r))
        BY <1>2, <1>5, <3>2, <3>4
      <3> QED
        BY <3>3, <3>4
    <2> QED
      BY <2>1, <2>2
  <1> QED
    BY <1>2, <1>3, <1>4, <1>6

(* A number of blocks is a number.                                         *)
LEMMA BlocksInt ==
  ASSUME NEW x \in Int
  PROVE  BlocksFor(x) \in Int
  <1>1. BlockSize \in Nat \ {0} /\ ModelLen \in Nat
    BY Constants
  <1> QED
    BY <1>1 DEF BlocksFor, Smaller

(* What schedule wants of a running request: no more than there is.        *)
LEMMA WantedIs ==
  ASSUME Invariant, InSchedule, NEW r \in Requests, req[r].status = "running",
         step.budget > 0, Wanted(r) # 0
  PROVE  /\ Wanted(r) \in Int /\ Wanted(r) > 0
         /\ req[r].computed + Wanted(r) <= req[r].tokens + req[r].spec
         /\ \A i \in Fresh(r) : ~Samples(Of(i, r))
  <1>1. /\ req[r].computed \in Int /\ req[r].tokens \in Nat /\ req[r].spec \in 0 .. NumSpec
        /\ step.budget \in Int /\ Prompt[r] \in Nat /\ ModelLen \in Nat /\ NumSpec \in Nat
    BY RequestIs, PlanRequests, Constants DEF Invariant, TypeOK
  <1>2. req[r].computed <= req[r].tokens /\ req[r].tokens < ModelLen
    BY NotAhead
  <1>c. PICK c \in Int : c = req[r].computed
    BY <1>1
  <1>t. PICK t \in Nat : t = req[r].tokens
    BY <1>1
  <1>s. PICK s \in Nat : s = req[r].spec /\ s <= NumSpec
    BY <1>1
  <1>a. PICK a : a = Smaller(Smaller(t + s - c, step.budget), ModelLen - c - 1)
    OBVIOUS
  <1>3. a \in Int /\ a >= 0 /\ a <= t + s - c
    BY <1>1, <1>2, <1>c, <1>t, <1>s, <1>a DEF Smaller
  <1>4. Wanted(r) = Split(c, a, Prompt[r], t, 0)
    BY <1>c, <1>t, <1>s, <1>a DEF Wanted
  <1>5. Wanted(r) \in 0 .. a
    BY <1>1, <1>3, <1>4, SplitBound
  <1>n. PICK n \in Int : n = Wanted(r) /\ n > 0 /\ n <= a
    BY <1>3, <1>5
  <1>6. c + n <= t + s
    BY <1>3, <1>n
  <1>7. NumSpec > 0 \/ c < t
    BY <1>1, <1>3, <1>n, <1>s
  <1>8. \A i \in Fresh(r) : ~Samples(Of(i, r))
    BY <1>7, <1>c, <1>t, NotAhead
  <1> QED
    BY <1>6, <1>8, <1>c, <1>t, <1>s, <1>n

(* The drafts that are scheduled fill the tokens beyond the text.          *)
LEMMA DraftedIs ==
  ASSUME NEW q, NEW n \in Int, n > 0, q.computed \in Int, q.tokens \in Nat, q.spec \in 0 .. NumSpec,
         q.computed + n <= q.tokens + q.spec
  PROVE  /\ Drafted(q, n) \in 0 .. NumSpec
         /\ q.computed + n <= q.tokens + Drafted(q, n)
         /\ Drafted(q, n) > 0 => q.computed + n >= q.tokens
  <1>1. NumSpec \in Nat
    BY Constants
  <1>c. PICK c \in Int : c = q.computed
    OBVIOUS
  <1>t. PICK t \in Nat : t = q.tokens
    OBVIOUS
  <1>s. PICK s \in 0 .. NumSpec : s = q.spec
    OBVIOUS
  <1>d. PICK d : d = Drafted(q, n)
    OBVIOUS
  <1>2. d = IF s = 0 THEN 0 ELSE Smaller(s, Larger(n + c - t, 0))
    BY <1>c, <1>t, <1>s, <1>d DEF Drafted
  <1>3. c + n <= t + s
    BY <1>c, <1>t, <1>s
  <1>4. d \in 0 .. NumSpec /\ c + n <= t + d /\ (d > 0 => c + n >= t)
    BY <1>1, <1>2, <1>3 DEF Smaller, Larger
  <1> QED
    BY <1>4, <1>c, <1>t, <1>d

(* The entry that schedule makes.                                          *)
(* The entry e of r, for n tokens from start with spec drafts.             *)
Made(e, r, kind, start, n, spec) ==
  /\ e \in EntryType /\ e.kind = kind /\ e.start = start /\ e.n = n /\ e.spec = spec
  /\ e.total = req[r].tokens /\ ~e.old

(* Entry makes it.                                                         *)
LEMMA EntryMade ==
  ASSUME NEW r, req[r] \in RequestType, NEW kind \in {"new", "cached", "resumed"},
         NEW start \in Int, NEW n \in Int, NEW spec \in 0 .. NumSpec, NEW e,
         \/ e = Entry(r, kind, start, n, spec, TRUE)
         \/ e = Entry(r, kind, start, n, spec, FALSE)
  PROVE  Made(e, r, kind, start, n, spec)
  <1>t. PICK t \in Nat : t = req[r].tokens
    BY RequestIs
  <1>f. PICK f \in Nat : f = req[r].follows
    BY RequestIs
  <1>1. CASE e = Entry(r, kind, start, n, spec, TRUE)
    <2>1. e = [kind |-> kind, start |-> start, n |-> n, spec |-> spec, real |-> TRUE,
               total |-> t, follows |-> f, old |-> FALSE]
      BY <1>1, <1>t, <1>f DEF Entry
    <2>2. e \in EntryType
      BY <2>1 DEF EntryType
    <2> QED
      BY <1>t, <2>1, <2>2 DEF Made
  <1>2. CASE e = Entry(r, kind, start, n, spec, FALSE)
    <2>1. e = [kind |-> kind, start |-> start, n |-> n, spec |-> spec, real |-> FALSE,
               total |-> t, follows |-> f, old |-> FALSE]
      BY <1>2, <1>t, <1>f DEF Entry
    <2>2. e \in EntryType
      BY <2>1 DEF EntryType
    <2> QED
      BY <1>t, <2>1, <2>2 DEF Made
  <1> QED
    BY <1>1, <1>2

(* A running request gets tokens.                                          *)
LEMMA ScheduleRunningStep ==
  ASSUME Invariant, ScheduleRunning
  PROVE  Invariant'
  <1> USE DEF Invariant
  <1>r. PICK r, n : r = running[step.at] /\ n = Wanted(r)
    OBVIOUS
  <1>e. PICK e : e = Entry(r, "cached", req[r].computed, n, Drafted(req[r], n), TRUE)
    OBVIOUS
  <1>b. PICK b : b = Larger(req[r].blocks, BlocksFor(req[r].computed + n + NumSpec))
    OBVIOUS
  <1>p. PICK p : p = (step.prefill \/ req[r].chunk)
    OBVIOUS
  <1>P. PICK P : P = step.entries
    OBVIOUS
  <1>E. PICK E : E = With(P, r, e)
    OBVIOUS
  <1>1. /\ n # 0
        /\ pc = "running" /\ pc' = "running" /\ step.at <= Len(running) /\ step.budget > 0
        /\ req' = [req EXCEPT ![r].spec = 0, ![r].blocks = b]
        /\ step' = [step EXCEPT !.at = @ + 1, !.budget = @ - n, !.prefill = p, !.entries = E]
        /\ UNCHANGED <<limit, waiting, skipped, running, queue, known, cached, drafts>>
    <2>1. /\ n # 0
          /\ step' = [step EXCEPT !.at = @ + 1, !.budget = @ - n, !.prefill = @ \/ req[r].chunk,
                                  !.entries = With(@, r, e)]
          /\ req' = [req EXCEPT ![r].spec = 0,
                        ![r].blocks = Larger(@, BlocksFor(req[r].computed + n + NumSpec))]
      BY <1>r, <1>e DEF ScheduleRunning
    <2>2. req' = [req EXCEPT ![r].spec = 0, ![r].blocks = b]
      BY <1>b, <2>1
    <2>3. step' = [step EXCEPT !.at = @ + 1, !.budget = @ - n, !.prefill = p, !.entries = E]
      BY <1>p, <1>P, <1>E, <2>1
    <2> QED
      BY <2>1, <2>2, <2>3 DEF ScheduleRunning, Scheduling, worker
  <1>2. InSchedule /\ InSchedule'
    BY <1>1 DEF InSchedule
  <1>3. /\ step \in StepType /\ step.at \in Nat \ {0} /\ P \in PlanType
        /\ DOMAIN P \subseteq Requests
        /\ running \in Seq(Requests) /\ DOMAIN running = 1 .. Len(running)
    BY <1>2, <1>P, PlanRequests DEF TypeOK
  <1>4. r \in Requests /\ step.at \in DOMAIN running /\ req[r] \in RequestType
        /\ req[r].status = "running"
    <2>1. step.at \in DOMAIN running /\ r \in Requests
      BY <1>1, <1>3, <1>r
    <2>2. r \in Ids(running)
      BY <1>1, <1>3, <1>r, <2>1 DEF Ids
    <2> QED
      BY <2>1, <2>2, MembersIs DEF TypeOK
  <1>5. /\ n \in Int /\ n > 0 /\ req[r].computed + n <= req[r].tokens + req[r].spec
        /\ \A i \in Fresh(r) : ~Samples(Of(i, r))
    BY <1>1, <1>2, <1>4, <1>r, WantedIs
  <1>6. /\ req[r].computed \in Int /\ req[r].tokens \in Nat /\ req[r].spec \in 0 .. NumSpec
        /\ req[r].blocks \in Int /\ req[r].chunk \in BOOLEAN /\ NumSpec \in Nat
    BY <1>4, RequestIs, Constants
  <1>7. /\ e \in EntryType /\ e.kind = "cached" /\ e.start = req[r].computed /\ e.n = n
        /\ e.total = req[r].tokens /\ ~e.old
        /\ e.spec = Drafted(req[r], n) /\ Drafted(req[r], n) \in 0 .. NumSpec
        /\ req[r].computed + n <= req[r].tokens + Drafted(req[r], n)
        /\ Drafted(req[r], n) > 0 => req[r].computed + n >= req[r].tokens
    <2>1. /\ Drafted(req[r], n) \in 0 .. NumSpec
          /\ req[r].computed + n <= req[r].tokens + Drafted(req[r], n)
          /\ Drafted(req[r], n) > 0 => req[r].computed + n >= req[r].tokens
      BY <1>5, <1>6, DraftedIs
    <2>2. /\ e \in EntryType /\ e.kind = "cached" /\ e.start = req[r].computed /\ e.n = n
          /\ e.total = req[r].tokens /\ ~e.old /\ e.spec = Drafted(req[r], n)
      <3>c. PICK c \in Int : c = req[r].computed
        BY <1>6
      <3>d. PICK d \in 0 .. NumSpec : d = Drafted(req[r], n)
        BY <2>1
      <3>k. PICK k : k = "cached"
        OBVIOUS
      <3>1. e = Entry(r, k, c, n, d, TRUE)
        BY <1>e, <3>c, <3>d, <3>k
      <3>2. k \in {"new", "cached", "resumed"} /\ n \in Int /\ req[r] \in RequestType
        BY <1>4, <1>5, <3>k
      <3>3. /\ e \in EntryType /\ e.kind = k /\ e.start = c /\ e.n = n /\ e.spec = d
            /\ e.total = req[r].tokens /\ ~e.old
        <4>1. Made(e, r, k, c, n, d)
          BY <3>1, <3>2, EntryMade
        <4> QED
          BY <4>1 DEF Made
      <3> QED
        BY <3>3, <3>c, <3>d, <3>k
    <2> QED
      BY <2>1, <2>2
  <1>8. Continues(e, r)
    <2>1. Sane(e, r)
      BY <1>5, <1>7 DEF Sane, Samples, End
    <2> QED
      BY <1>4, <1>5, <1>7, <2>1 DEF Continues
  <1>9. /\ req' \in [Requests -> RequestType] /\ Alike(req'[r], req[r])
        /\ \A x \in Requests : x # r => req'[x] = req[x]
    <2>1. b \in Int
      <3>1. BlocksFor(req[r].computed + n + NumSpec) \in Int
        BY <1>5, <1>6, BlocksInt
      <3> QED
        BY <1>b, <1>6, <3>1 DEF Larger
    <2>2. req'[r] = [req[r] EXCEPT !.spec = 0, !.blocks = b] /\ \A x \in Requests : x # r => req'[x] = req[x]
      BY <1>1, <1>4 DEF TypeOK
    <2>3. req'[r] \in RequestType /\ Alike(req'[r], req[r])
      <3>1. PICK z \in 0 .. NumSpec : z = 0
        BY <1>6
      <3>2. req'[r] = [req[r] EXCEPT !.spec = z, !.blocks = b]
        BY <2>2, <3>1
      <3> QED
        BY Zenon, <1>4, <2>1, <3>2, ScheduledIs
    <2> QED
      BY <1>1, <2>2, <2>3 DEF TypeOK
  <1>10. \A x \in Requests : Alike(req'[x], req[x]) /\ Kept(x)
    <2>1. \A x \in Requests : Kept(x)
      BY <1>1, SameKept
    <2> QED
      BY <1>9, <2>1 DEF Alike
  <1>12. /\ E \in PlanType /\ DOMAIN E = {r} \cup DOMAIN P /\ E[r] = e
         /\ \A x \in DOMAIN P : x # r => E[x] = P[x]
    <2>1. P \in PlanType /\ r \in Requests /\ e \in EntryType
      BY <1>3, <1>4, <1>7
    <2>2. Added(E, P, r, e)
      BY <1>E, <2>1, PlanAdd
    <2> QED
      BY <2>2 DEF Added
  <1>13. step' \in StepType /\ step'.at = step.at + 1 /\ step'.entries = E /\ step'.skip = step.skip
    <2>1. p \in BOOLEAN
      BY <1>p, <1>3, StepIs
    <2> QED
      <3>1. step \in StepType /\ n \in Int /\ E \in PlanType
        BY <1>3, <1>5, <1>12
      <3>2. step' = [step EXCEPT !.at = @ + 1, !.budget = @ - n, !.prefill = p, !.entries = E]
        BY <1>1
      <3>3. Advanced(step', step, E)
        BY Zenon, <2>1, <3>1, <3>2, StepScheduled
      <3> QED
        BY <3>3 DEF Advanced
  <1>14. TypeOK'
    BY <1>1, <1>9, <1>13 DEF TypeOK
  <1>15. Members'
    <2>1. Passed' = Passed
      BY <1>1, <1>13 DEF Passed
    <2>2. Once(running)' /\ Once(waiting)' /\ Once(skipped)' /\ Once(Passed)'
      BY <1>1, <2>1 DEF Members, Once
    <2>3. Ids(running)' = Ids(running) /\ Ids(waiting)' = Ids(waiting)
          /\ Ids(skipped)' = Ids(skipped) /\ Ids(Passed)' = Ids(Passed)
      BY <1>1, <2>1 DEF Ids
    <2>4. \A x \in Requests : req'[x].status = req[x].status
      BY <1>10 DEF Alike
    <2> QED
      BY <2>2, <2>3, <2>4 DEF Members
  <1>16. \A x \in DOMAIN P : P[x].kind = "cached"
    BY <1>1, <1>2, <1>P DEF Planned
  <1>17. \A x \in DOMAIN E : E[x].kind = "cached"
    BY <1>7, <1>12, <1>16
  <1>18. \A x \in Requests : EnteringKept(x)
    BY <1>P, <1>13, <1>16, <1>17 DEF Entering, EnteringKept
  <1>19. Lives' /\ Progress' /\ Outs' /\ OneDecodeStep' /\ Alone'
    <2>1. \A x \in Requests : AlikeKept(x) /\ EnteringKept(x)
      BY <1>10, <1>18 DEF Alike, AlikeKept
    <2> QED
      BY <1>1, <1>2, <2>1, Calm
  <1>20. Planned'
    <2>1. ASSUME NEW x \in DOMAIN E
          PROVE  Continues(E[x], x)' /\ \E j \in DOMAIN running : j < step.at + 1 /\ running[j] = x
      <3>1. CASE x = r
        <4>1. Continues(e, r)'
          BY <1>4, <1>8, <1>10, ContinuesKept
        <4>2. step.at < step.at + 1
          BY <1>3
        <4> QED
          BY <1>r, <1>1, <1>4, <1>12, <3>1, <4>1, <4>2
      <3>2. CASE x # r
        <4>1. x \in DOMAIN P /\ E[x] = P[x] /\ x \in Requests
          BY <1>3, <1>12, <3>2
        <4>2. PICK f : f = E[x]
          OBVIOUS
        <4>3. Continues(f, x)
          BY <1>2, <1>P, <4>1, <4>2 DEF Planned
        <4>4. Continues(f, x)'
          BY <1>10, <4>1, <4>3, ContinuesKept
        <4>5. PICK j \in DOMAIN running : j < step.at /\ running[j] = x
          BY <1>1, <1>2, <1>P, <4>1 DEF Planned
        <4>6. j < step.at + 1
          BY <1>3, <4>5
        <4> QED
          BY <4>2, <4>4, <4>5, <4>6
      <3> QED
        BY <3>1, <3>2
    <2> QED
      BY <1>1, <1>13, <1>17, <2>1 DEF Planned
  <1> QED
    BY <1>14, <1>15, <1>19, <1>20 DEF Lives

-----------------------------------------------------------------------------
(***************************************************************************)
(* The second loop of schedule.                                            *)
(***************************************************************************)

(* The first in line leaves its list.                                      *)
LEMMA PoppedIs ==
  ASSUME TypeOK, Members, Popped, Queued # <<>>, NEW r, r = Head(Queued)
  PROVE  /\ r \in Requests /\ r \in Ids(waiting) \cup Ids(skipped)
         /\ waiting' \in Seq(Requests) /\ Once(waiting') /\ Ids(waiting') = Ids(waiting) \ {r}
         /\ skipped' \in Seq(Requests) /\ Once(skipped') /\ Ids(skipped') = Ids(skipped) \ {r}
  <1>1. /\ waiting \in Seq(Requests) /\ skipped \in Seq(Requests) /\ Once(waiting) /\ Once(skipped)
        /\ Ids(waiting) \cap Ids(skipped) = {}
    BY DEF TypeOK, Members
  <1>2. CASE skipped # <<>>
    <2>1. r = Head(skipped) /\ skipped' = Tail(skipped) /\ waiting' = waiting
      BY <1>2 DEF Queued, Popped
    <2>2. /\ skipped' \in Seq(Requests) /\ r \in Requests /\ r \in Ids(skipped)
          /\ Ids(skipped') = Ids(skipped) \ {r} /\ Once(skipped')
      BY <1>1, <1>2, <2>1, IdsTail
    <2>3. Ids(waiting') = Ids(waiting) \ {r}
      BY <1>1, <2>1, <2>2
    <2> QED
      BY <1>1, <2>1, <2>2, <2>3
  <1>3. CASE skipped = <<>>
    <2>1. r = Head(waiting) /\ waiting' = Tail(waiting) /\ skipped' = skipped /\ waiting # <<>>
      BY <1>3 DEF Queued, Popped
    <2>2. /\ waiting' \in Seq(Requests) /\ r \in Requests /\ r \in Ids(waiting)
          /\ Ids(waiting') = Ids(waiting) \ {r} /\ Once(waiting')
      BY <1>1, <2>1, IdsTail
    <2>3. Ids(skipped') = Ids(skipped) \ {r}
      BY <1>1, <2>1, <2>2
    <2> QED
      BY <1>1, <2>1, <2>2, <2>3
  <1> QED
    BY <1>2, <1>3

(* A request whose old output is still to be delivered is passed over.     *)
LEMMA SkipStaleStep ==
  ASSUME Invariant, SkipStale
  PROVE  Invariant'
  <1>r. PICK r : r = Head(Queued)
    OBVIOUS
  <1>1. /\ pc = "waiting" /\ pc' = "waiting" /\ Queued # <<>> /\ Popped
        /\ step' = [step EXCEPT !.skip = Append(@, r)]
        /\ UNCHANGED <<limit, req, running, queue, known, cached, drafts>>
    BY <1>r DEF SkipStale, Admitting, worker
  <1>2. InSchedule /\ InSchedule'
    BY <1>1 DEF InSchedule
  <1>3. step \in StepType /\ step.skip \in Seq(Requests) /\ TypeOK /\ Members /\ Passed = step.skip
    BY <1>1, <1>2, PlanRequests DEF Invariant, Passed
  <1>4. /\ r \in Requests /\ r \in Ids(waiting) \cup Ids(skipped)
        /\ waiting' \in Seq(Requests) /\ Once(waiting') /\ Ids(waiting') = Ids(waiting) \ {r}
        /\ skipped' \in Seq(Requests) /\ Once(skipped') /\ Ids(skipped') = Ids(skipped) \ {r}
    BY <1>1, <1>3, <1>r, PoppedIs
  <1>5. /\ step' \in StepType /\ step'.at = step.at /\ step'.entries = step.entries
        /\ step'.skip = Append(step.skip, r)
    BY <1>1, <1>3, <1>4, StepSkipped
  <1>6. r \notin Ids(Passed)
    BY <1>3, <1>4 DEF Members
  <1>7. Ids(Passed') = Ids(Passed) \cup {r} /\ Once(Passed')
    <2>1. Passed' = Append(step.skip, r)
      BY <1>1, <1>5 DEF Passed
    <2>2. Once(step.skip) /\ r \notin Ids(step.skip)
      BY <1>3, <1>6 DEF Members
    <2> QED
      BY <1>3, <1>4, <2>1, <2>2, IdsAppend
  <1>8. Members'
    <2>1. Once(running)' /\ Once(waiting)' /\ Once(skipped)' /\ Once(Passed)'
      BY <1>1, <1>3, <1>4, <1>7 DEF Members, Once
    <2>2. Ids(running)' = Ids(running) /\ Ids(waiting)' = Ids(waiting) \ {r}
          /\ Ids(skipped)' = Ids(skipped) \ {r} /\ Ids(Passed)' = Ids(Passed) \cup {r}
      BY <1>1, <1>4, <1>7 DEF Ids
    <2> QED
      BY <1>1, <1>3, <1>4, <2>1, <2>2 DEF Members
  <1>9. running' \in Seq(Requests)
    BY <1>1, <1>3 DEF TypeOK
  <1> QED
    BY <1>1, <1>2, <1>4, <1>5, <1>8, <1>9, ScheduleMoves

(* The second loop ends, and those passed over return to the front.        *)
LEMMA EndWaitingStep ==
  ASSUME Invariant, EndWaiting
  PROVE  Invariant'
  <1>1. /\ pc = "waiting" /\ pc' = "close" /\ skipped' = step.skip \o skipped
        /\ UNCHANGED <<limit, req, waiting, running, step, queue, known, cached, drafts>>
    BY DEF EndWaiting, worker
  <1>2. InSchedule /\ InSchedule'
    BY <1>1 DEF InSchedule
  <1>3. step \in StepType /\ step.skip \in Seq(Requests) /\ TypeOK /\ Members /\ Passed = step.skip
        /\ skipped \in Seq(Requests)
    BY <1>1, <1>2, PlanRequests DEF Invariant, Passed, TypeOK
  <1>4. /\ skipped' \in Seq(Requests) /\ Ids(skipped') = Ids(Passed) \cup Ids(skipped)
        /\ Once(skipped')
    <2>1. Once(step.skip) /\ Once(skipped) /\ Ids(step.skip) \cap Ids(skipped) = {}
      BY <1>3 DEF Members
    <2>2. /\ step.skip \o skipped \in Seq(Requests)
          /\ Ids(step.skip \o skipped) = Ids(step.skip) \cup Ids(skipped)
          /\ Once(step.skip \o skipped)
      BY <1>3, <2>1, IdsConcat
    <2> QED
      BY <1>1, <1>3, <2>2
  <1>5. Ids(Passed') = {} /\ Once(Passed')
    <2>1. Passed' = <<>>
      BY <1>1 DEF Passed
    <2> QED
      BY <2>1, IdsEmpty
  <1>6. Members'
    <2>1. Once(running)' /\ Once(waiting)' /\ Once(skipped)' /\ Once(Passed)'
      BY <1>1, <1>3, <1>4, <1>5 DEF Members, Once
    <2>2. Ids(running)' = Ids(running) /\ Ids(waiting)' = Ids(waiting)
          /\ Ids(skipped)' = Ids(Passed) \cup Ids(skipped) /\ Ids(Passed)' = {}
      BY <1>1, <1>4, <1>5 DEF Ids
    <2> QED
      BY <1>1, <1>3, <2>1, <2>2 DEF Members
  <1>7. waiting' \in Seq(Requests) /\ running' \in Seq(Requests)
    BY <1>1, <1>3 DEF TypeOK
  <1> QED
    BY <1>1, <1>2, <1>3, <1>4, <1>6, <1>7, ScheduleMoves

(* The chunk with which a request is admitted.                             *)
LEMMA ChunkIs ==
  ASSUME NEW r \in Requests, req[r] \in RequestType, NEW h \in Int, h >= 0, h < req[r].tokens,
         step.budget \in Int, step.budget > 0, Chunk(r, h) # 0,
         NEW s, s = IF Padded(r, h) THEN NumSpec ELSE 0
  PROVE  /\ Chunk(r, h) \in Int /\ Chunk(r, h) > 0 /\ s \in 0 .. NumSpec
         /\ h + Chunk(r, h) <= req[r].tokens + s
         /\ s > 0 => h + Chunk(r, h) >= req[r].tokens
  <1>1. NumSpec \in Nat /\ Prompt[r] \in Nat /\ req[r].tokens \in Nat
    BY RequestIs, Constants
  <1>t. PICK t \in Nat : t = req[r].tokens
    BY <1>1
  <1>m. PICK m : m = IF Padded(r, h) THEN 1 + NumSpec ELSE t - h
    OBVIOUS
  <1>2. m \in Int /\ m > 0 /\ s \in 0 .. NumSpec /\ h + m <= t + s /\ (s > 0 => t - h = 1)
    <2>1. CASE Padded(r, h)
      <3>1. t - h = 1
        BY <1>t, <2>1 DEF Padded
      <3> QED
        BY <1>1, <1>m, <2>1, <3>1
    <2>2. CASE ~Padded(r, h)
      BY <1>1, <1>m, <1>t, <2>2
    <2> QED
      BY <2>1, <2>2
  <1>a. PICK a : a = Smaller(m, step.budget)
    OBVIOUS
  <1>3. a \in Int /\ a >= 0 /\ a <= m
    BY <1>2, <1>a DEF Smaller
  <1>4. Chunk(r, h) = Split(h, a, Prompt[r], t, 0)
    BY <1>a, <1>m, <1>t DEF Chunk
  <1>5. Chunk(r, h) \in 0 .. a
    BY <1>1, <1>3, <1>4, SplitBound
  <1>n. PICK n \in Int : n = Chunk(r, h) /\ n > 0 /\ n <= a
    BY <1>3, <1>5
  <1>6. h + n <= t + s /\ (s > 0 => h + n >= t)
    BY <1>1, <1>2, <1>3, <1>n
  <1> QED
    BY <1>2, <1>6, <1>n, <1>t

(* The queue, and what the last stage has, stay; no request comes to life. *)
LEMMA CalmQueue ==
  ASSUME Invariant, UNCHANGED <<queue, known, cached, limit>>, queue' \in Seq(BatchType),
         \A r \in Requests : Live(r)' => Live(r), InSchedule' => InSchedule
  PROVE  Progress' /\ Outs' /\ OneDecodeStep' /\ Alone' /\ \A r \in Requests : Kept(r)
  <1>1. \A r \in Requests : Kept(r)
    BY SameKept
  <1>2. Progress' /\ Outs'
    BY DEF Invariant, Progress, Outs
  <1>3. \A r \in Requests : /\ Fresh(r)' = Fresh(r)
                            /\ \A i \in Fresh(r) : Samples(Of(i, r))' = Samples(Of(i, r))
    BY <1>1, KeptSets DEF Fresh, Samples, End
  <1>4. OneDecodeStep'
    <2>1. ASSUME NumSpec > 0 PROVE LoneLast'
      BY <1>3, <2>1, LoneNow DEF LoneLast
    <2> QED
      BY <2>1, OneNext
  <1>5. Alone'
    BY <1>3 DEF Invariant, Alone
  <1> QED
    BY <1>1, <1>2, <1>4, <1>5

(* A request is admitted.                                                  *)
LEMMA AdmitStep ==
  ASSUME Invariant, NEW h, Admit(h)
  PROVE  Invariant'
  <1>r. PICK r, n, k : /\ r = Head(Queued) /\ n = Chunk(r, h)
                       /\ k = IF req[r].status = "waiting" THEN "new" ELSE "resumed"
    OBVIOUS
  <1>s. PICK s : s = IF Padded(r, h) THEN NumSpec ELSE 0
    OBVIOUS
  <1>e. PICK e : e = Entry(r, k, h, n, s, FALSE)
    BY Zenon
  <1>b. PICK b : b = BlocksFor(h + n + NumSpec)
    OBVIOUS
  <1>P. PICK P : P = step.entries
    OBVIOUS
  <1>E. PICK E : E = With(P, r, e)
    OBVIOUS
  <1>1. /\ pc = "waiting" /\ pc' = "waiting" /\ Queued # <<>> /\ Popped /\ step.budget > 0
        /\ ~MustDrain(r) /\ h \in Hits(r) /\ n # 0
        /\ running' = Append(running, r)
        /\ req' = [req EXCEPT ![r].status = "running", ![r].computed = h, ![r].blocks = b]
        /\ step' = [step EXCEPT !.budget = @ - n, !.entries = E]
        /\ UNCHANGED <<limit, queue, known, cached, drafts>>
    <2>1. /\ step' = [step EXCEPT !.budget = @ - n, !.entries = With(@, r, e)]
          /\ ~MustDrain(r) /\ h \in Hits(r) /\ n # 0 /\ Popped
          /\ running' = Append(running, r)
          /\ req' = [req EXCEPT ![r].status = "running", ![r].computed = h, ![r].blocks = b]
      BY <1>r, <1>s, <1>e, <1>b DEF Admit, Admissible
    <2>2. step' = [step EXCEPT !.budget = @ - n, !.entries = E]
      BY <2>1, <1>P, <1>E
    <2> QED
      BY <2>1, <2>2 DEF Admit, Admitting, worker
  <1>2. InSchedule /\ InSchedule'
    BY <1>1 DEF InSchedule
  <1>3. /\ step \in StepType /\ step.budget \in Int /\ P \in PlanType /\ DOMAIN P \subseteq Requests
        /\ TypeOK /\ Members /\ queue \in Seq(BatchType) /\ running \in Seq(Requests)
        /\ Passed = step.skip
    BY <1>1, <1>2, <1>P, PlanRequests DEF Invariant, TypeOK, Passed
  <1>4. /\ r \in Requests /\ r \in Ids(waiting) \cup Ids(skipped)
        /\ waiting' \in Seq(Requests) /\ Once(waiting') /\ Ids(waiting') = Ids(waiting) \ {r}
        /\ skipped' \in Seq(Requests) /\ Once(skipped') /\ Ids(skipped') = Ids(skipped) \ {r}
    BY <1>1, <1>3, <1>r, PoppedIs
  <1>5. /\ req[r] \in RequestType /\ req[r].status \in {"waiting", "preempted"} /\ Life(r)
        /\ r \notin Ids(running) /\ r \notin Ids(Passed)
    <2>1. req[r] \in RequestType /\ Life(r)
      BY <1>3, <1>4 DEF Invariant, TypeOK
    <2>2. req[r].status \in {"waiting", "preempted"}
      BY <1>3, <1>4, MembersIs
    <2>3. r \notin Ids(running)
      BY <1>3, <1>4, <2>2, MembersIs
    <2>4. r \notin Ids(Passed)
      BY <1>3, <1>4 DEF Members
    <2> QED
      BY <2>1, <2>2, <2>3, <2>4
  <1>6. Live(r) /\ Fresh(r) = {} /\ (req[r].status = "waiting" => InQueue(r) = {} /\ req[r].tokens = Prompt[r])
    BY <1>4, <1>5, WaitsFree DEF Life, Unsent
  <1>7. h \in Int /\ h >= 0 /\ h < req[r].tokens /\ req[r].tokens \in Nat /\ NumSpec \in Nat
    <2>1. req[r].tokens \in Nat /\ NumSpec \in Nat
      BY <1>5, RequestIs, Constants
    <2>2. h \in 0 .. req[r].tokens - 1
      BY <1>1 DEF Hits
    <2> QED
      BY <2>1, <2>2
  <1>8. /\ n \in Int /\ n > 0 /\ s \in 0 .. NumSpec
        /\ h + n <= req[r].tokens + s
        /\ s > 0 => h + n >= req[r].tokens
    BY <1>1, <1>3, <1>4, <1>5, <1>7, <1>r, <1>s, ChunkIs
  <1>9. /\ e \in EntryType /\ e.kind = k /\ e.start = h /\ e.n = n /\ e.spec = s
        /\ e.total = req[r].tokens /\ ~e.old
    <2>1. k \in {"new", "cached", "resumed"}
      BY <1>r
    <2>2. Made(e, r, k, h, n, s)
      BY <1>e, <1>5, <1>7, <1>8, <2>1, EntryMade
    <2> QED
      BY <2>2 DEF Made
  <1>10. k # "cached" /\ (k = "new" <=> req[r].status = "waiting")
    BY <1>r
  <1>11. /\ req'[r] \in RequestType /\ req'[r].status = "running" /\ req'[r].tokens = req[r].tokens
         /\ req'[r].computed = h /\ req'[r].inflight = req[r].inflight /\ req'[r].stale = req[r].stale
         /\ req'[r].drop = req[r].drop
         /\ \A x \in Requests : x # r => req'[x] = req[x]
         /\ req' \in [Requests -> RequestType]
    <2>1. req'[r] = [req[r] EXCEPT !.status = "running", !.computed = h, !.blocks = b]
          /\ \A x \in Requests : x # r => req'[x] = req[x]
      BY <1>1, <1>3, <1>4 DEF TypeOK
    <2>2. b \in Int
      BY <1>b, <1>7, <1>8, BlocksInt
    <2>3. /\ req'[r] \in RequestType /\ req'[r].status = "running" /\ req'[r].tokens = req[r].tokens
          /\ req'[r].computed = h /\ req'[r].inflight = req[r].inflight /\ req'[r].stale = req[r].stale
          /\ req'[r].drop = req[r].drop
      <3>q. PICK q \in RequestType : q = req[r]
        BY <1>5
      <3>p. PICK p : p = req'[r]
        OBVIOUS
      <3>1. p = Admitted(q, h, b) /\ h \in Int
        BY <1>7, <2>1, <3>p, <3>q DEF Admitted
      <3>2. /\ p \in RequestType /\ p.status = "running" /\ p.tokens = q.tokens
            /\ p.computed = h /\ p.inflight = q.inflight /\ p.stale = q.stale
            /\ p.drop = q.drop
        BY <2>2, <3>1, AdmittedIs
      <3> QED
        BY <3>2, <3>p, <3>q
    <2> QED
      BY <1>1, <1>3, <2>1, <2>3 DEF TypeOK
  <1>12. /\ E \in PlanType /\ DOMAIN E = {r} \cup DOMAIN P /\ E[r] = e
         /\ \A x \in DOMAIN P : x # r => E[x] = P[x]
    <2>1. P \in PlanType /\ r \in Requests /\ e \in EntryType
      BY <1>3, <1>4, <1>9
    <2>2. Added(E, P, r, e)
      BY <1>E, <2>1, PlanAdd
    <2> QED
      BY <2>2 DEF Added
  <1>13. step' \in StepType /\ step'.at = step.at /\ step'.entries = E /\ step'.skip = step.skip
    <2>1. step \in StepType /\ n \in Int /\ E \in PlanType
      BY <1>3, <1>8, <1>12
    <2>2. step' = [step EXCEPT !.budget = @ - n, !.entries = E]
      BY <1>1
    <2>3. Stayed(step', step, E)
      BY Zenon, <2>1, <2>2, StepAdmitted
    <2> QED
      BY <2>3 DEF Stayed
  <1>14. /\ running' \in Seq(Requests) /\ Ids(running') = Ids(running) \cup {r} /\ Once(running')
    BY <1>1, <1>3, <1>4, <1>5, IdsAppend DEF Members
  <1>15. TypeOK'
    BY <1>1, <1>3, <1>4, <1>11, <1>13, <1>14 DEF TypeOK
  <1>16. Members'
    <2>1. Passed' = Passed
      BY <1>1, <1>13 DEF Passed
    <2>2. Once(running)' /\ Once(waiting)' /\ Once(skipped)' /\ Once(Passed)'
      BY <1>3, <1>4, <1>14, <2>1 DEF Members, Once
    <2>3. Ids(running)' = Ids(running) \cup {r} /\ Ids(waiting)' = Ids(waiting) \ {r}
          /\ Ids(skipped)' = Ids(skipped) \ {r} /\ Ids(Passed)' = Ids(Passed)
      BY <1>4, <1>14, <2>1 DEF Ids
    <2> QED
      BY ZenonT(60), <1>3, <1>4, <1>5, <1>11, <2>2, <2>3 DEF Members
  <1>17. r \notin DOMAIN P
    <2>1. \A x \in DOMAIN P : req[x].status = "running"
      BY <1>2, <1>P DEF Invariant, Planned, Continues
    <2> QED
      BY <1>5, <2>1
  <1>18. ~Entering(r) /\ Entering(r)'
    BY <1>2, <1>9, <1>10, <1>12, <1>13, <1>17, <1>P DEF Entering
  <1>19. \A x \in Requests : x # r => EnteringKept(x)
    BY <1>2, <1>12, <1>13, <1>P DEF Entering, EnteringKept
  <1>20. Progress' /\ Outs' /\ OneDecodeStep' /\ Alone' /\ \A x \in Requests : Kept(x)
    <2>1. \A x \in Requests : Live(x)' => Live(x)
      BY <1>6, <1>11 DEF Live
    <2>2. queue' \in Seq(BatchType)
      BY <1>1, <1>3
    <2> QED
      BY <1>1, <1>2, <2>1, <2>2, CalmQueue
  <1>21. Lives'
    <2> SUFFICES ASSUME NEW x \in Requests PROVE Life(x)'
      BY DEF Lives
    <2>1. CASE x = r
      <3>1. ~(req[r].stale > 0 /\ ~req[r].drop)
        BY <1>1 DEF MustDrain
      <3>2. req[r].status = "waiting" => step'.entries[r].kind = "new"
        BY <1>9, <1>10, <1>12, <1>13
      <3>3. req'[r].computed < req[r].tokens
        BY <1>7, <1>11
      <3>4. Life(r)'
        BY <1>3, <1>4, <1>5, <1>11, <1>18, <1>20, <3>1, <3>2, <3>3, AdmitLife
      <3> QED
        BY <2>1, <3>4
    <2>2. CASE x # r
      <3>1. AlikeKept(x) /\ EnteringKept(x) /\ Kept(x) /\ Life(x)
        BY <1>11, <1>19, <1>20, <2>2 DEF AlikeKept, Alike, Invariant
      <3> QED
        BY <3>1, KeptLife DEF AlikeKept, EnteringKept
    <2> QED
      BY <2>1, <2>2
  <1>22. Continues(e, r)'
    <2>1. Sane(e, r)
      BY <1>6, <1>7, <1>8, <1>9, <1>10 DEF Sane, Samples, End
    <2>2. Sane(e, r)' /\ Fresh(r)' = {} /\ InQueue(r)' = InQueue(r)
      BY <1>4, <1>6, <1>20, <2>1, KeptSets DEF Sane, Samples, End
    <2> QED
      BY <1>6, <1>9, <1>10, <1>11, <2>2 DEF Continues
  <1>23. Planned'
    <2>1. ASSUME NEW x \in DOMAIN E PROVE Continues(E[x], x)'
      <3>1. CASE x = r
        BY <1>12, <1>22, <3>1
      <3>2. CASE x # r
        <4>1. x \in DOMAIN P /\ E[x] = P[x] /\ x \in Requests
          BY <1>3, <1>12, <3>2
        <4>2. PICK f : f = E[x]
          OBVIOUS
        <4>3. Continues(f, x)
          BY <1>2, <1>P, <4>1, <4>2 DEF Invariant, Planned
        <4>4. Alike(req'[x], req[x]) /\ Kept(x)
          BY <1>11, <1>20, <3>2, <4>1 DEF Alike
        <4>5. Continues(f, x)'
          BY <4>1, <4>3, <4>4, ContinuesKept
        <4> QED
          BY <4>2, <4>5
      <3> QED
        BY <3>1, <3>2
    <2> QED
      BY <1>1, <1>13, <2>1 DEF Planned
  <1> QED
    BY <1>15, <1>16, <1>20, <1>21, <1>23 DEF Lives, Invariant

-----------------------------------------------------------------------------
(***************************************************************************)
(* The end of schedule.                                                    *)
(***************************************************************************)

(* The step is closed: its entries, each continuing its request, become    *)
(* the youngest batch.                                                     *)
LEMMA CloseStep ==
  ASSUME Invariant, Close
  PROVE  Invariant'
  <1>E. PICK E : E = step.entries
    OBVIOUS
  <1>b. PICK b : b = [entries |-> E, ran |-> FALSE, out |-> <<>>]
    OBVIOUS
  <1>1. /\ pc = "close" /\ pc' \in {"input", "wait"}
        /\ req' = [r \in Requests |->
                 IF r \in DOMAIN E
                 THEN [req[r] EXCEPT !.computed = @ + E[r].n, !.inflight = @ + E[r].n,
                                     !.chunk = req[r].computed + E[r].n < req[r].tokens]
                 ELSE req[r]]
        /\ queue' = Append(queue, b)
        /\ UNCHANGED <<limit, waiting, skipped, running, known, cached, drafts>>
    <2>1. pc' = IF Len(queue') < QueueSize /\ (E # <<>> \/ Unfinished > 0) THEN "input" ELSE "wait"
      BY Zenon, <1>E DEF Close
    <2>2. pc' \in {"input", "wait"}
      BY <2>1, Zenon
    <2> QED
      BY Zenon, <1>E, <1>b, <2>2 DEF Close, worker
  <1>2. InSchedule /\ ~InSchedule' /\ Passed = <<>> /\ Passed' = <<>>
    BY Zenon, <1>1 DEF InSchedule, Passed
  <1>3. /\ E \in PlanType /\ DOMAIN E \subseteq Requests /\ \A r \in DOMAIN E : E[r] \in EntryType
        /\ TypeOK /\ Members /\ queue \in Seq(BatchType)
    BY <1>2, <1>E, PlanRequests DEF Invariant, TypeOK
  <1>4. b \in BatchType /\ b.entries = E /\ ~b.ran
    <2>1. <<>> \in OutType
      <3>1. DOMAIN <<>> = {} /\ <<>> \in [DOMAIN <<>> -> [follows : Nat, count : Nat]]
        OBVIOUS
      <3> QED
        BY <3>1 DEF OutType
    <2> QED
      BY <1>b, <1>3, <2>1 DEF BatchType
  <1>5. ASSUME NEW r \in Requests
        PROVE  /\ req'[r] \in RequestType
               /\ req'[r].status = req[r].status /\ req'[r].tokens = req[r].tokens
               /\ req'[r].stale = req[r].stale /\ req'[r].drop = req[r].drop
               /\ r \in DOMAIN E => /\ req'[r].computed = req[r].computed + E[r].n
                                    /\ req'[r].inflight = req[r].inflight + E[r].n
               /\ r \notin DOMAIN E => Alike(req'[r], req[r])
    <2>q. PICK q \in RequestType : q = req[r]
      BY <1>3 DEF TypeOK
    <2>p. PICK p : p = req'[r]
      OBVIOUS
    <2>1. CASE r \in DOMAIN E
      <3>n. PICK n \in Int : n = E[r].n
        BY <1>3, <2>1 DEF EntryType
      <3>c. PICK c : c = (q.computed + n < q.tokens)
        OBVIOUS
      <3>d. c \in BOOLEAN
        BY <3>c
      <3>1. p = Closed(q, n, c)
        BY Zenon, <1>1, <2>1, <2>p, <2>q, <3>n, <3>c DEF Closed
      <3>2. /\ p \in RequestType /\ p.status = q.status /\ p.tokens = q.tokens
            /\ p.computed = q.computed + n /\ p.inflight = q.inflight + n /\ p.stale = q.stale
            /\ p.drop = q.drop
        BY <3>1, <3>d, ClosedIs
      <3> QED
        BY <2>1, <2>p, <2>q, <3>n, <3>2
    <2>2. CASE r \notin DOMAIN E
      BY Zenon, <1>1, <2>2, <2>p, <2>q DEF Alike
    <2> QED
      BY <2>1, <2>2
  <1>6. /\ queue' \in Seq(BatchType) /\ Len(queue) \in Nat /\ Len(queue') = Len(queue) + 1
        /\ DOMAIN queue = 1 .. Len(queue) /\ DOMAIN queue' = 1 .. Len(queue) + 1
        /\ queue'[Len(queue) + 1] = b
        /\ \A i \in DOMAIN queue : queue'[i] = queue[i]
    <2>1. queue' = Append(queue, b) /\ queue \in Seq(BatchType) /\ b \in BatchType
      BY Zenon, <1>1, <1>3, <1>4
    <2> QED
      BY <2>1
  <1>7. TypeOK'
    <2>1. req' \in [Requests -> RequestType]
      BY Zenon, <1>1, <1>5
    <2> QED
      BY Zenon, <1>1, <1>2, <1>3, <1>6, <2>1 DEF TypeOK
  <1>8. Members'
    <2>1. Once(running)' /\ Once(waiting)' /\ Once(skipped)' /\ Once(Passed)'
      BY Zenon, <1>1, <1>2, <1>3 DEF Members, Once
    <2>2. Ids(running)' = Ids(running) /\ Ids(waiting)' = Ids(waiting)
          /\ Ids(skipped)' = Ids(skipped) /\ Ids(Passed)' = Ids(Passed)
      BY Zenon, <1>1, <1>2 DEF Ids
    <2> QED
      BY <1>3, <1>5, <2>1, <2>2 DEF Members
  <1>9. Progress' /\ Outs'
    <2>1. PICK m \in 0 .. Len(queue) : \A i \in DOMAIN queue : queue[i].ran <=> i <= m
      BY DEF Invariant, Progress
    <2>2. m \in 0 .. Len(queue) + 1 /\ m < Len(queue) + 1
      BY <1>6, <2>1
    <2>3. \A i \in DOMAIN queue' : queue'[i].ran <=> i <= m
      <3> SUFFICES ASSUME NEW i \in DOMAIN queue' PROVE queue'[i].ran <=> i <= m
        OBVIOUS
      <3>1. CASE i = Len(queue) + 1
        BY <1>4, <1>6, <2>2, <3>1
      <3>2. CASE i # Len(queue) + 1
        BY <1>6, <2>1, <3>2
      <3> QED
        BY <3>1, <3>2
    <2>4. Progress'
      BY <1>6, <2>2, <2>3 DEF Progress
    <2>5. Outs'
      <3> SUFFICES ASSUME NEW i \in DOMAIN queue', queue'[i].ran
                   PROVE  DOMAIN queue'[i].out = DOMAIN queue'[i].entries
        BY DEF Outs
      <3>1. i \in DOMAIN queue
        BY <1>4, <1>6
      <3> QED
        BY <1>6, <3>1 DEF Invariant, Outs
    <2> QED
      BY <2>4, <2>5
  <1>10. \A r \in Requests : r \notin DOMAIN E => Kept(r)
    BY Zenon, <1>1, <1>3, <1>4, CloseKept
  <1>11. \A r : ~Entering(r)'
    BY <1>2 DEF Entering
  <1>12. Lives'
    <2> SUFFICES ASSUME NEW r \in Requests PROVE Life(r)'
      BY DEF Lives
    <2>1. Life(r) /\ req[r] \in RequestType
      BY <1>3 DEF Invariant, TypeOK
    <2>2. CASE r \in DOMAIN E
      <3>1. Continues(b.entries[r], r)
        BY <1>2, <1>4, <1>E, <2>2 DEF Invariant, Planned
      <3>2. /\ Entering(r) => b.entries[r] = step.entries[r]
            /\ b.entries[r].kind = "cached" => ~Entering(r)
        BY <1>4, <1>E DEF Entering
      <3>3. /\ req'[r].computed = req[r].computed + b.entries[r].n
            /\ req'[r].inflight = req[r].inflight + b.entries[r].n
            /\ r \in DOMAIN b.entries
        BY <1>4, <1>5, <2>2
      <3> QED
        BY Zenon, <1>1, <1>3, <1>4, <1>5, <1>11, <2>1, <3>1, <3>2, <3>3, CloseLife
    <2>3. CASE r \notin DOMAIN E
      <3>1. ~Entering(r)
        BY <1>E, <2>3 DEF Entering
      <3>2. Alike(req'[r], req[r]) /\ req'[r].tokens = req[r].tokens /\ Kept(r)
        BY <1>5, <1>10, <2>3
      <3> QED
        <4>1. Entering(r)' = Entering(r)
          BY <1>2, <1>E, <2>3 DEF Entering
        <4> QED
          BY <2>1, <3>1, <3>2, <4>1, KeptLife
    <2> QED
      BY <2>2, <2>3
  <1>13. OneDecodeStep'
    <2>1. ASSUME NumSpec > 0 PROVE LoneLast'
      <3> SUFFICES ASSUME NEW r \in Requests, Live(r)', NEW i \in Fresh(r)', Samples(Of(i, r))'
                   PROVE  i = Len(queue')
        BY DEF LoneLast
      <3>1. i \in DOMAIN queue' /\ r \in DOMAIN queue'[i].entries
        BY DEF Fresh, InQueue
      <3>2. SUFFICES ASSUME i # Len(queue') PROVE FALSE
        OBVIOUS
      <3>3. i \in DOMAIN queue /\ queue'[i] = queue[i]
        BY <1>6, <3>1, <3>2
      <3>4. i \in Fresh(r) /\ Samples(Of(i, r))
        BY <3>1, <3>3 DEF Fresh, InQueue, Of, Samples, End
      <3>5. Live(r)
        BY <1>5 DEF Live
      <3> QED
        BY <1>2, <2>1, <3>4, <3>5 DEF Invariant, Alone
    <2> QED
      BY <1>6, <2>1, OneNext
  <1>14. Alone' /\ Planned'
    BY <1>2 DEF Alone, Planned
  <1> QED
    BY <1>7, <1>8, <1>9, <1>12, <1>13, <1>14 DEF Lives, Invariant

-----------------------------------------------------------------------------
(***************************************************************************)
(* The workers run a batch, and the engine updates from one.               *)
(***************************************************************************)

(* What the last stage knows is a number of tokens.                        *)
LEMMA KnownIs ==
  ASSUME NEW r \in Requests, NEW e \in EntryType, known \in [Requests -> Nat]
  PROVE  Known(e, r) \in Nat
  <1>1. Prompt[r] \in Nat /\ e.total \in Nat /\ known[r] \in Nat
    BY Constants DEF EntryType
  <1> QED
    BY <1>1 DEF Known, Smaller

(* The workers run the batch that is due.                                  *)
LEMMA WorkStep ==
  ASSUME Invariant, NEW accepted, Work(accepted)
  PROVE  Invariant'
  <1>d. PICK d : d = Due
    OBVIOUS
  <1>E. PICK E : E = queue[d].entries
    OBVIOUS
  <1>c. PICK count : count = [r \in DOMAIN E |-> IF Sampled(E[r], r) THEN 1 + accepted[r] ELSE 0]
    OBVIOUS
  <1>O. PICK O : O = [r \in DOMAIN E |-> [follows |-> Known(E[r], r), count |-> count[r]]]
    OBVIOUS
  <1>1. /\ pc \in {"input", "wait"} /\ pc' = pc /\ \E i \in DOMAIN queue : ~queue[i].ran
        /\ accepted \in [DOMAIN E -> 0 .. NumSpec]
        /\ \A r \in DOMAIN E : accepted[r] <= IF E[r].real /\ Sampled(E[r], r) THEN E[r].spec ELSE 0
        /\ Runs(d, O)
        /\ known' = [r \in Requests |-> IF r \in DOMAIN E THEN Known(E[r], r) + count[r] ELSE known[r]]
        /\ cached' = [r \in Requests |->
                 IF r \notin DOMAIN E THEN cached[r]
                 ELSE E[r].start + E[r].n - IF Sampled(E[r], r) THEN E[r].spec - accepted[r] ELSE 0]
        /\ drafts' = IF E = <<>> THEN drafts
                     ELSE [r \in DOMAIN E |-> IF Sampled(E[r], r) THEN known'[r] ELSE 0]
        /\ UNCHANGED <<limit, req, waiting, skipped, running, step>>
    BY <1>d, <1>E, <1>c, <1>O DEF Work, Runs, engine
  <1>2. /\ ~InSchedule /\ ~InSchedule' /\ Passed = <<>> /\ Passed' = <<>>
    BY <1>1 DEF InSchedule, Passed
  <1>3. TypeOK /\ Members /\ queue \in Seq(BatchType) /\ known \in [Requests -> Nat]
        /\ cached \in [Requests -> Int]
    BY DEF Invariant, TypeOK
  <1>4. /\ d \in DOMAIN queue /\ d \in Nat /\ ~Ran(d)
        /\ \A j \in DOMAIN queue : Ran(j) <=> j < d
    BY <1>d, <1>1, <1>3, DueIs DEF Invariant
  <1>5. DOMAIN E \subseteq Requests /\ \A r \in DOMAIN E : E[r] \in EntryType /\ E[r] = Of(d, r)
    BY <1>E, <1>3, <1>4, EntryIs DEF Of
  <1>6. ASSUME NEW r \in DOMAIN E
        PROVE  /\ Known(E[r], r) \in Nat /\ count[r] \in Nat /\ accepted[r] \in 0 .. NumSpec
               /\ count[r] = IF Sampled(E[r], r) THEN 1 + accepted[r] ELSE 0
               /\ O[r] = [follows |-> Known(E[r], r), count |-> count[r]]
               /\ O[r] \in [follows : Nat, count : Nat]
    <2>1. Known(E[r], r) \in Nat
      BY <1>3, <1>5, KnownIs
    <2>2. accepted[r] \in 0 .. NumSpec /\ count[r] = IF Sampled(E[r], r) THEN 1 + accepted[r] ELSE 0
      BY <1>1, <1>c
    <2>3. count[r] \in Nat
      BY <2>2, Constants
    <2>4. O[r] = [follows |-> Known(E[r], r), count |-> count[r]]
      BY <1>O
    <2> QED
      BY <2>1, <2>2, <2>3, <2>4
  <1>7. O \in OutType /\ DOMAIN O = DOMAIN E
    <2>1. DOMAIN O = DOMAIN E /\ O = [r \in DOMAIN E |-> O[r]]
      BY <1>O
    <2>2. O \in [DOMAIN E -> [follows : Nat, count : Nat]]
      BY <1>6, <2>1
    <2> QED
      BY <1>5, <2>1, <2>2 DEF OutType
  <1>8. /\ queue' \in Seq(BatchType) /\ DOMAIN queue' = DOMAIN queue /\ Len(queue') = Len(queue)
        /\ \A i \in DOMAIN queue : i # d => queue'[i] = queue[i]
        /\ queue'[d].entries = queue[d].entries /\ queue'[d].ran /\ queue'[d].out = O
        /\ DOMAIN queue = 1 .. Len(queue) /\ Len(queue) \in Nat
    BY <1>1, <1>3, <1>4, <1>7, RunsIs, QueueIs
  <1>9. /\ \A i \in DOMAIN queue : queue'[i].entries = queue[i].entries
        /\ \A r : InQueue(r)' = InQueue(r) /\ Fresh(r)' = Fresh(r)
    <2>1. \A i \in DOMAIN queue : queue'[i].entries = queue[i].entries
      BY <1>8
    <2> QED
      BY <1>8, <2>1 DEF Fresh, InQueue, Of
  <1>10. TypeOK'
    <2>1. known' \in [Requests -> Nat]
      <3>1. ASSUME NEW r \in Requests
            PROVE  (IF r \in DOMAIN E THEN Known(E[r], r) + count[r] ELSE known[r]) \in Nat
        <4>1. CASE r \in DOMAIN E
          <5>1. Known(E[r], r) \in Nat /\ count[r] \in Nat
            BY <1>6, <4>1
          <5> QED
            BY <4>1, <5>1
        <4>2. CASE r \notin DOMAIN E
          BY <1>3, <4>2
        <4> QED
          BY <4>1, <4>2
      <3> QED
        BY <1>1, <3>1
    <2>2. cached' \in [Requests -> Int]
      <3>1. ASSUME NEW r \in Requests
            PROVE  (IF r \notin DOMAIN E THEN cached[r]
                    ELSE E[r].start + E[r].n - IF Sampled(E[r], r) THEN E[r].spec - accepted[r] ELSE 0) \in Int
        <4>1. CASE r \in DOMAIN E
          <5>e. PICK e \in EntryType : e = E[r]
            BY <1>5, <4>1
          <5>a. PICK a \in 0 .. NumSpec : a = accepted[r]
            BY <1>6, <4>1
          <5>1. e.start \in Int /\ e.n \in Int /\ e.spec \in Int /\ a \in Int
            BY Constants DEF EntryType
          <5>2. (e.start + e.n - IF Sampled(e, r) THEN e.spec - a ELSE 0) \in Int
            BY <5>1
          <5> QED
            BY <4>1, <5>2, <5>e, <5>a
        <4>2. CASE r \notin DOMAIN E
          BY <1>3, <4>2
        <4> QED
          BY <4>1, <4>2
      <3> QED
        BY <1>1, <3>1
    <2>3. drafts' \in [DOMAIN drafts' -> Nat]
      <3>1. CASE E = <<>>
        BY <1>1, <1>3, <3>1 DEF TypeOK
      <3>2. CASE E # <<>>
        <4>1. drafts' = [r \in DOMAIN E |-> IF Sampled(E[r], r) THEN known'[r] ELSE 0]
          BY <1>1, <3>2
        <4>2. \A r \in DOMAIN E : known'[r] \in Nat
          BY <1>5, <2>1
        <4> QED
          BY <4>1, <4>2
      <3> QED
        BY <3>1, <3>2
    <2> QED
      BY <1>1, <1>2, <1>3, <1>8, <2>1, <2>2, <2>3 DEF TypeOK
  <1>11. Members'
    <2>1. Once(running)' /\ Once(waiting)' /\ Once(skipped)' /\ Once(Passed)'
      BY <1>1, <1>2, <1>3 DEF Members, Once
    <2>2. Ids(running)' = Ids(running) /\ Ids(waiting)' = Ids(waiting)
          /\ Ids(skipped)' = Ids(skipped) /\ Ids(Passed)' = Ids(Passed)
      BY <1>1, <1>2 DEF Ids
    <2> QED
      BY <1>1, <1>3, <2>1, <2>2 DEF Members
  <1>12. Progress' /\ Outs'
    <2>1. \A i \in DOMAIN queue' : queue'[i].ran <=> i <= d
      BY <1>4, <1>8 DEF Ran
    <2>2. d \in 0 .. Len(queue')
      BY <1>4, <1>8
    <2>3. Progress'
      BY <2>1, <2>2 DEF Progress
    <2>4. Outs'
      <3> SUFFICES ASSUME NEW i \in DOMAIN queue, queue'[i].ran
                   PROVE  DOMAIN queue'[i].out = DOMAIN queue'[i].entries
        BY <1>8 DEF Outs
      <3>1. CASE i = d
        BY <1>E, <1>7, <1>8, <3>1
      <3>2. CASE i # d
        BY <1>8, <3>2 DEF Invariant, Outs
      <3> QED
        BY <3>1, <3>2
    <2> QED
      BY <2>3, <2>4
  <1>13. Lives'
    <2> SUFFICES ASSUME NEW r \in Requests PROVE Life(r)'
      BY DEF Lives
    <2>1. Life(r) /\ req[r] \in RequestType
      BY <1>3 DEF Invariant, TypeOK
    <2>2. CASE r \in DOMAIN E
      <3>e. PICK e : e = E[r]
        OBVIOUS
      <3>k. PICK k : k = Known(e, r)
        OBVIOUS
      <3>a. PICK a \in 0 .. NumSpec : a = accepted[r]
        BY <1>6, <2>2
      <3>c. PICK c \in Nat : c = count[r]
        BY <1>6, <2>2
      <3>p. PICK p : p = cached'[r]
        OBVIOUS
      <3>2. e = Of(d, r) /\ e \in EntryType
        BY <1>5, <2>2, <3>e
      <3>3. /\ e.start \in Int /\ e.n \in Int /\ e.spec \in Nat /\ NumSpec \in Nat
        BY <3>2, Constants DEF EntryType
      <3>4. a <= IF e.real /\ Sampled(e, r) THEN e.spec ELSE 0
        BY <1>1, <2>2, <3>e, <3>a
      <3>5. c = IF Sampled(e, r) THEN 1 + a ELSE 0
        BY <1>6, <2>2, <3>e, <3>a, <3>c
      <3>6. p = e.start + e.n - IF Sampled(e, r) THEN e.spec - a ELSE 0
        BY <1>1, <2>2, <3>e, <3>a, <3>p
      <3>7. /\ Sampled(e, r) => a <= e.spec /\ c = 1 + a /\ p = End(e) - (e.spec - a)
            /\ ~Sampled(e, r) => c = 0 /\ p = End(e)
            /\ p \in Int
        BY <3>3, <3>4, <3>5, <3>6 DEF End
      <3>9. O[r] = [follows |-> k, count |-> c] /\ known'[r] = k + c /\ cached'[r] = p
        BY <1>1, <1>6, <2>2, <3>e, <3>k, <3>c, <3>p
      <3>8. r \in DOMAIN queue[d].entries
        BY <1>E, <2>2
      <3> QED
        <4>1. Worked(r, O, e, a, k, c, p)
          BY <3>7, <3>9, <3>k DEF Worked
        <4>2. ~InSchedule /\ ~InSchedule' /\ UNCHANGED <<req, limit>> /\ Runs(d, O)
          BY <1>1, <1>2
        <4>3. queue \in Seq(BatchType) /\ known \in [Requests -> Nat] /\ O \in OutType /\ e = Of(d, r)
          BY <1>3, <1>7, <3>2
        <4> QED
          BY <1>4, <2>1, <3>8, <4>1, <4>2, <4>3, WorkLife
    <2>3. CASE r \notin DOMAIN E
      <3>1. known'[r] = known[r] /\ cached'[r] = cached[r] /\ limit' = limit
            /\ r \notin DOMAIN queue[d].entries
        BY <1>1, <1>E, <2>3
      <3>2. Kept(r)
        BY <1>1, <1>3, <1>4, <1>7, <3>1, WorkKept
      <3>3. AlikeKept(r) /\ EnteringKept(r) /\ Alike(req'[r], req[r])
        BY <1>1, <1>2, SameAlike, Seldom
      <3> QED
        BY <2>1, <3>2, <3>3, KeptLife DEF AlikeKept, EnteringKept
    <2> QED
      BY <2>2, <2>3
  <1>14. OneDecodeStep'
    <2>1. ASSUME NumSpec > 0 PROVE LoneLast'
      <3> SUFFICES ASSUME NEW r \in Requests, Live(r)', NEW i \in Fresh(r)', Samples(Of(i, r))'
                   PROVE  i = Len(queue')
        BY DEF LoneLast
      <3>1. i \in Fresh(r) /\ i \in DOMAIN queue
        BY <1>9 DEF Fresh, InQueue
      <3>2. Live(r) /\ Samples(Of(i, r))
        BY <1>1, <1>9, <3>1 DEF Live, Of, Samples, End
      <3> QED
        BY <1>8, <2>1, <3>1, <3>2, LoneNow DEF LoneLast
    <2> QED
      BY <1>8, <2>1, OneNext
  <1> QED
    BY <1>2, <1>10, <1>11, <1>12, <1>13, <1>14, Seldom DEF Lives, Invariant

(* The oldest batch's update, with A aborted and D done, makes p of r, and *)
(* with the new drafts req'[r].                                            *)
Settled(r, A, D, p) ==
  /\ p \in RequestType /\ req'[r] \in RequestType
  /\ IF Live(r) /\ 1 \in InQueue(r) /\ r \notin A
     THEN p = Updated(r, req[r], Of(1, r), Out(1, r)) ELSE p = req[r]
  /\ r \in D => req'[r].status = "finished"
  /\ r \notin D => Alike(req'[r], p) /\ p.status = req[r].status /\ r \notin A
  /\ req'[r].tokens = p.tokens /\ req'[r].computed = p.computed

(* Update treats each request so.                                          *)
LEMMA UpdateOf ==
  ASSUME TypeOK, Outs, queue # <<>>, NEW A, Update(A), NEW r \in Requests,
         NEW F, F = [x \in Requests |->
                       IF Live(x) /\ x \notin A /\ x \in DOMAIN Head(queue).entries
                       THEN Updated(x, req[x], Head(queue).entries[x], Head(queue).out[x])
                       ELSE req[x]],
         NEW D, D = A \cup {x \in Requests : Live(x) /\ F[x].status = "finished"}
  PROVE  Settled(r, A, D, F[r])
  <1>1. /\ queue \in Seq(BatchType) /\ req[r] \in RequestType /\ 1 \in DOMAIN queue
        /\ Head(queue) = queue[1] /\ queue[1].ran /\ limit[r] \in Nat
        /\ drafts \in [DOMAIN drafts -> Nat]
    <2>1. queue \in Seq(BatchType) /\ req[r] \in RequestType /\ limit[r] \in Nat
          /\ drafts \in [DOMAIN drafts -> Nat]
      BY DEF TypeOK
    <2>2. Head(queue).ran
      BY Zenon DEF Update
    <2>3. 1 \in DOMAIN queue /\ Head(queue) = queue[1]
      BY <2>1
    <2> QED
      BY <2>1, <2>2, <2>3
  <1>2. r \in DOMAIN Head(queue).entries <=> 1 \in InQueue(r)
    BY <1>1 DEF InQueue
  <1>3. /\ F[r] = IF Live(r) /\ 1 \in InQueue(r) /\ r \notin A
                  THEN Updated(r, req[r], Of(1, r), Out(1, r)) ELSE req[r]
    BY <1>1, <1>2 DEF Of, Out
  <1>p. PICK p : p = F[r]
    OBVIOUS
  <1>4. req'[r] = IF r \in A THEN Ended(req[r])
                  ELSE IF Live(r) /\ r \notin D THEN WithDrafts(r, p) ELSE p
    BY Zenon, <1>p DEF Update, Ended
  <1>5. p \in RequestType /\ (p.status = req[r].status \/ p.status = "finished")
    <2>1. CASE Live(r) /\ 1 \in InQueue(r) /\ r \notin A
      <3>1. Of(1, r) \in EntryType
        BY <1>1, <2>1, EntryIs DEF InQueue
      <3>2. Out(1, r) \in OutputType
        <4>1. queue[1] \in BatchType /\ r \in DOMAIN queue[1].out
          BY <1>1, <2>1 DEF Outs, InQueue
        <4> QED
          BY <4>1, BatchIs DEF Out, OutputType
      <3>3. p = Updated(r, req[r], Of(1, r), Out(1, r))
        BY <1>3, <1>p, <2>1
      <3> QED
        BY <1>1, <3>1, <3>2, <3>3, UpdatedIs
    <2>2. CASE ~(Live(r) /\ 1 \in InQueue(r) /\ r \notin A)
      BY <1>1, <1>3, <1>p, <2>2
    <2> QED
      BY <2>1, <2>2
  <1>6. CASE r \in A
    <2>1. /\ req'[r] \in RequestType /\ req'[r].status = "finished"
          /\ req'[r].tokens = req[r].tokens /\ req'[r].computed = req[r].computed
      BY <1>1, <1>4, <1>6, FinishedIs
    <2>2. p = req[r]
      BY <1>3, <1>6, <1>p
    <2> QED
      BY <1>3, <1>5, <1>6, <1>p, <2>1, <2>2 DEF Settled
  <1>7. CASE r \notin A /\ Live(r) /\ r \notin D
    <2>1. req'[r] = WithDrafts(r, p)
      BY <1>4, <1>7
    <2>2. req'[r] \in RequestType /\ Alike(req'[r], p)
      BY <1>1, <1>5, <2>1, WithDraftsIs
    <2>3. p.status # "finished"
      BY <1>7, <1>p
    <2>4. req'[r].tokens = p.tokens /\ req'[r].computed = p.computed
      BY <2>2 DEF Alike
    <2> QED
      BY <1>3, <1>5, <1>7, <1>p, <2>2, <2>3, <2>4 DEF Settled
  <1>8. CASE r \notin A /\ ~(Live(r) /\ r \notin D)
    <2>1. req'[r] = p
      BY <1>4, <1>8
    <2>2. CASE Live(r)
      <3>1. r \in D /\ p.status = "finished"
        BY <1>8, <1>p, <2>2
      <3> QED
        BY <1>3, <1>5, <1>p, <2>1, <3>1 DEF Settled
    <2>3. CASE ~Live(r)
      <3>1. r \notin D /\ p = req[r]
        BY <1>3, <1>8, <1>p, <2>3
      <3> QED
        BY <1>3, <1>5, <1>8, <1>p, <2>1, <3>1 DEF Settled, Alike
    <2> QED
      BY <2>2, <2>3
  <1> QED
    BY <1>6, <1>7, <1>8

(* A request after the update: done, told what the batch brought, or not   *)
(* concerned.                                                              *)
LEMMA SettledLife ==
  ASSUME queue \in Seq(BatchType), queue # <<>>, queue' = Tail(queue), Ran(1), Outs,
         NEW r \in Requests, Life(r), ~Entering(r), ~Entering(r)',
         UNCHANGED <<known, cached, limit>>, limit[r] \in Nat \ {0}, req[r] \in RequestType,
         NEW A, NEW D, NEW p, Settled(r, A, D, p)
  PROVE  Life(r)'
  <1>1. CASE r \in D
    BY <1>1, ShiftEnded DEF Settled
  <1>2. CASE r \notin D /\ Live(r) /\ 1 \in InQueue(r)
    <2>1. p = Updated(r, req[r], Of(1, r), Out(1, r)) /\ Alike(req'[r], p)
      BY <1>2 DEF Settled
    <2> QED
      BY <1>2, <2>1, HeadLife
  <1>3. CASE r \notin D /\ (1 \notin InQueue(r) \/ ~Live(r))
    <2>1. Alike(req'[r], req[r])
      BY <1>3 DEF Settled
    <2> QED
      BY <1>3, <2>1, NoHeadLife
  <1> QED
    BY <1>1, <1>2, <1>3

(* update_from_output on the oldest batch.                                 *)
LEMMA UpdateStep ==
  ASSUME Invariant, Waits, NEW A, Update(A)
  PROVE  Invariant'
  <1>F. PICK F : F = [x \in Requests |->
                       IF Live(x) /\ x \notin A /\ x \in DOMAIN Head(queue).entries
                       THEN Updated(x, req[x], Head(queue).entries[x], Head(queue).out[x])
                       ELSE req[x]]
    OBVIOUS
  <1>D. PICK D : D = A \cup {x \in Requests : Live(x) /\ F[x].status = "finished"}
    BY Zenon
  <1>1. /\ pc = "wait" /\ pc' = "input" /\ queue # <<>> /\ queue' = Tail(queue) /\ Head(queue).ran
        /\ running' = Without(running, D) /\ waiting' = Without(waiting, D)
        /\ skipped' = Without(skipped, D)
        /\ UNCHANGED <<limit, step, known, cached, drafts>>
        /\ req' = [r \in Requests |-> req'[r]]
    BY Zenon, <1>F, <1>D DEF Update, Waits, worker
  <1>2. ~InSchedule /\ ~InSchedule' /\ Passed = <<>> /\ Passed' = <<>>
    BY <1>1 DEF InSchedule, Passed
  <1>3. TypeOK /\ Members /\ Outs /\ Progress /\ queue \in Seq(BatchType)
    BY DEF Invariant, TypeOK
  <1>4. \A r \in Requests : Settled(r, A, D, F[r])
    BY Zenon, <1>1, <1>3, <1>F, <1>D, UpdateOf
  <1>5. \A r \in Requests :
           /\ req'[r] \in RequestType
           /\ r \in D => req'[r].status = "finished"
           /\ r \notin D => req'[r].status = req[r].status
    BY <1>4 DEF Settled, Alike
  <1>6. /\ queue' \in Seq(BatchType) /\ Len(queue) \in Nat \ {0} /\ Len(queue') = Len(queue) - 1
        /\ 1 \in DOMAIN queue /\ Head(queue) = queue[1]
        /\ \A i \in DOMAIN queue' : i \in Nat \ {0} /\ i + 1 \in DOMAIN queue /\ queue'[i] = queue[i + 1]
        /\ DOMAIN queue' = 1 .. Len(queue')
    BY <1>1, <1>3, ShiftIs, QueueIs
  <1>7. Members' /\ waiting' \in Seq(Requests) /\ skipped' \in Seq(Requests)
        /\ running' \in Seq(Requests)
    <2>1. \A r \in Requests : IF r \in D THEN req'[r].status # "running"
                              ELSE req'[r].status = req[r].status
      BY <1>5
    <2> QED
      BY <1>1, <1>2, <1>3, <2>1, Leave
  <1>8. TypeOK'
    <2>1. req' \in [Requests -> RequestType]
      BY <1>1, <1>5
    <2> QED
      BY <1>1, <1>2, <1>3, <1>6, <1>7, <2>1 DEF TypeOK
  <1>9. Progress'
    <2>1. PICK m \in 0 .. Len(queue) : \A i \in DOMAIN queue : queue[i].ran <=> i <= m
      BY <1>3 DEF Progress
    <2>2. m >= 1
      BY <1>1, <1>6, <2>1
    <2>3. m - 1 \in 0 .. Len(queue') /\ m \in Int
      BY <1>6, <2>1, <2>2
    <2>4. \A i \in DOMAIN queue' : queue'[i].ran <=> i <= m - 1
      <3> SUFFICES ASSUME NEW i \in DOMAIN queue' PROVE queue'[i].ran <=> i <= m - 1
        OBVIOUS
      <3>1. i + 1 \in DOMAIN queue /\ queue'[i] = queue[i + 1] /\ i \in Nat
        BY <1>6
      <3>2. queue[i + 1].ran <=> i + 1 <= m
        BY <2>1, <3>1
      <3>3. i + 1 <= m <=> i <= m - 1
        BY <2>3, <3>1
      <3> QED
        BY <3>1, <3>2, <3>3
    <2> QED
      BY <2>3, <2>4 DEF Progress
  <1>10. Outs'
    BY <1>3, <1>6 DEF Outs
  <1>11. Lives'
    <2> SUFFICES ASSUME NEW r \in Requests PROVE Life(r)'
      BY DEF Lives
    <2>1. Life(r) /\ req[r] \in RequestType /\ limit[r] \in Nat \ {0}
      BY <1>3 DEF Invariant, TypeOK
    <2>2. Settled(r, A, D, F[r])
      BY <1>4
    <2>3. ~Entering(r) /\ ~Entering(r)'
      BY <1>2, Seldom
    <2>4. Ran(1) /\ UNCHANGED <<known, cached, limit>>
      BY <1>1, <1>6 DEF Ran
    <2> QED
      BY <1>1, <1>3, <2>1, <2>2, <2>3, <2>4, SettledLife
  <1>12. OneDecodeStep'
    <2>1. ASSUME NumSpec > 0 PROVE LoneLast'
      <3> SUFFICES ASSUME NEW r \in Requests, Live(r)', NEW i \in Fresh(r)', Samples(Of(i, r))'
                   PROVE  i = Len(queue')
        BY DEF LoneLast
      <3>1. i + 1 \in Fresh(r) /\ i \in InQueue(r)'
        BY <1>1, <1>3, ShiftSets
      <3>2. Of(i, r)' = Of(i + 1, r) /\ i \in Nat
        BY <1>1, <1>3, <3>1, ShiftIs
      <3>3. Live(r) /\ Samples(Of(i + 1, r))
        BY <1>5, <3>2 DEF Live, Samples, End
      <3>4. i + 1 = Len(queue)
        BY <2>1, <3>1, <3>3, LoneNow DEF LoneLast
      <3> QED
        BY <1>6, <3>2, <3>4
    <2> QED
      BY <1>6, <2>1, OneNext
  <1> QED
    BY <1>2, <1>7, <1>8, <1>9, <1>10, <1>11, <1>12, Seldom DEF Lives, Invariant

-----------------------------------------------------------------------------
(***************************************************************************)
(* The invariant, and what follows from it.                                *)
(***************************************************************************)

(* Before anything is sent.                                                *)
LEMMA InitInvariant ==
  ASSUME Init
  PROVE  Invariant
  <1>1. /\ pc = "input" /\ waiting = <<>> /\ skipped = <<>> /\ running = <<>> /\ queue = <<>>
        /\ limit \in [Requests -> 1 .. ModelLen] /\ \A r \in Requests : limit[r] <= MaxOut[r]
        /\ known = [r \in Requests |-> 0] /\ cached = [r \in Requests |-> 0] /\ drafts = <<>>
    BY DEF Init
  <1>2. ~InSchedule /\ Passed = <<>>
    BY <1>1 DEF InSchedule, Passed
  <1>3. ASSUME NEW r \in Requests
        PROVE  /\ req[r] \in RequestType /\ req[r].status = "absent" /\ req[r].tokens = Prompt[r]
               /\ req[r].inflight = 0 /\ req[r].stale = 0
    <2>1. req[r] = [status |-> "absent", tokens |-> Prompt[r], computed |-> 0, spec |-> 0,
                    follows |-> 0, inflight |-> 0, stale |-> 0, drop |-> FALSE,
                    chunk |-> FALSE, blocks |-> 0]
      BY DEF Init
    <2>2. Prompt[r] \in Nat /\ NumSpec \in Nat
      BY Constants
    <2>3. req[r] \in RequestType
      BY <2>1, <2>2 DEF RequestType
    <2> QED
      BY <2>1, <2>3
  <1>4. TypeOK
    <2>1. req \in [Requests -> RequestType]
      <3>1. req = [r \in Requests |-> req[r]]
        BY DEF Init
      <3> QED
        BY <1>3, <3>1
    <2>2. limit \in [Requests -> Nat \ {0}]
      BY <1>1
    <2>3. queue \in Seq(BatchType) /\ waiting \in Seq(Requests) /\ skipped \in Seq(Requests)
          /\ running \in Seq(Requests)
      BY <1>1
    <2>4. known \in [Requests -> Nat] /\ cached \in [Requests -> Int]
          /\ drafts \in [DOMAIN drafts -> Nat]
      BY <1>1
    <2> QED
      BY <1>1, <1>2, <2>1, <2>2, <2>3, <2>4 DEF TypeOK
  <1>5. Members
    BY <1>1, <1>2, <1>3, IdsEmpty DEF Members
  <1>6. /\ DOMAIN queue = {} /\ Len(queue) = 0 /\ \A r : InQueue(r) = {} /\ Fresh(r) = {}
        /\ \A r : Stale(r) = {} /\ Valid(r) = {} /\ ~Entering(r)
    BY <1>1, <1>2 DEF InQueue, Fresh, Stale, Valid, Entering
  <1>7. Progress /\ Outs
    BY <1>6 DEF Progress, Outs
  <1>8. ASSUME NEW r \in Requests PROVE Life(r)
    <2>1. ~Live(r) /\ req[r].status = "absent"
      BY <1>3 DEF Live
    <2>2. /\ OldFirst(r) /\ Unsent(r) /\ SaneEntries(r) /\ Exact(r) /\ Living(r)
          /\ Totals(r) /\ SamplesLast(r) /\ Chained(r) /\ Reaches(r) /\ Behind(r)
      BY <1>3, <1>6, <2>1 DEF OldFirst, Unsent, SaneEntries, Exact, Living, Totals, SamplesLast,
                              Chained, Reaches, Behind
    <2>3. /\ NewFirst(r) /\ FirstKind(r) /\ Grown(r)
          /\ Knows(r) /\ Ready(r) /\ Caught(r) /\ Delivery(r)
      BY <1>6, <2>1 DEF NewFirst, FirstKind, Grown, Knows, Ready, Caught, Delivery
    <2> QED
      BY <2>2, <2>3 DEF Life
  <1>9. Alone /\ Planned
    BY <1>2 DEF Alone, Planned
  <1>10. OneDecodeStep
    BY <1>6 DEF OneDecodeStep
  <1> QED
    BY <1>4, <1>5, <1>7, <1>8, <1>9, <1>10 DEF Invariant

(* finish_requests, called by an abort or by a pause.                      *)
LEMMA AbortStep ==
  ASSUME Invariant, NEW r, Abort(r)
  PROVE  Invariant'
  <1>1. /\ Finished({r}) /\ UNCHANGED <<limit, step, queue, known, cached, drafts>>
        /\ pc' = pc /\ pc = "input"
    BY DEF Abort, worker
  <1>2. ~InSchedule /\ ~InSchedule'
    BY <1>1 DEF InSchedule
  <1> QED
    BY <1>1, <1>2, FinishedStep

(* pause_scheduler.                                                        *)
LEMMA PauseStep ==
  ASSUME Invariant, NEW mode, Pause(mode)
  PROVE  Invariant'
  <1>1. PICK R : R = IF mode = "abort" THEN {r \in Requests : Live(r)} ELSE {}
    OBVIOUS
  <1>2. /\ Finished(R) /\ UNCHANGED <<limit, step, queue, known, cached, drafts>>
        /\ pc' = pc /\ pc = "input"
    BY <1>1 DEF Pause, worker
  <1>3. ~InSchedule /\ ~InSchedule'
    BY <1>2 DEF InSchedule
  <1> QED
    BY <1>2, <1>3, FinishedStep

(* Every step inside schedule.                                             *)
LEMMA ScheduleStep ==
  ASSUME Invariant, Schedule
  PROVE  Invariant'
  <1>1. CASE SkipRunning
    BY <1>1, SkipRunningStep
  <1>2. CASE ScheduleRunning
    BY <1>2, ScheduleRunningStep
  <1>3. CASE PreemptLast
    BY <1>3, PreemptLastStep
  <1>4. CASE EndRunning
    BY <1>4, EndRunningStep
  <1>5. CASE SkipStale
    BY <1>5, SkipStaleStep
  <1>6. CASE \E h \in 0 .. ModelLen : Admit(h)
    BY <1>6, AdmitStep
  <1>7. CASE EndWaiting
    BY <1>7, EndWaitingStep
  <1>8. CASE Close
    BY <1>8, CloseStep
  <1> QED
    BY <1>1, <1>2, <1>3, <1>4, <1>5, <1>6, <1>7, <1>8 DEF Schedule

(* Every step preserves the invariant ...                                  *)
LEMMA NextInvariant ==
  ASSUME Invariant, Waits, [Next]_vars
  PROVE  Invariant'
  <1>1. ASSUME NEW r \in Requests, Add(r) PROVE Invariant'
    BY <1>1, AddStep
  <1>2. ASSUME NEW r \in Requests, Abort(r) PROVE Invariant'
    BY <1>2, AbortStep
  <1>3. CASE Reset
    BY <1>3, ResetStep
  <1>4. ASSUME NEW mode, Pause(mode) PROVE Invariant'
    BY <1>4, PauseStep
  <1>5. CASE Resume
    BY <1>5, SameStep DEF Resume, worker
  <1>6. CASE Begin
    BY <1>6, BeginStep
  <1>7. CASE Block
    BY <1>7, BlockStep
  <1>8. CASE Schedule
    BY <1>8, ScheduleStep
  <1>9. ASSUME NEW A, Update(A) PROVE Invariant'
    BY <1>9, UpdateStep
  <1>10. ASSUME NEW accepted, Work(accepted) PROVE Invariant'
    BY <1>10, WorkStep
  <1>11. CASE UNCHANGED vars
    BY <1>11, SameStep DEF vars, engine, worker
  <1> QED
    BY <1>1, <1>2, <1>3, <1>4, <1>5, <1>6, <1>7, <1>8, <1>9, <1>10, <1>11
    DEF Next, Client, Engine, Worker, Idle

(* ... and the engine waits only for a batch in the queue.                 *)
LEMMA NextWaits ==
  ASSUME Invariant, Waits, [Next]_vars
  PROVE  Waits'
  <1>1. queue \in Seq(BatchType) /\ DOMAIN queue = 1 .. Len(queue)
    BY QueueIs DEF Invariant, TypeOK
  <1>2. ASSUME NEW r, Add(r) \/ Abort(r) \/ Reset \/ Resume PROVE Waits'
    BY <1>2 DEF Add, Abort, Reset, Resume, Waits
  <1>3. ASSUME NEW mode, Pause(mode) PROVE Waits'
    BY <1>3 DEF Pause, Waits
  <1>4. CASE Begin \/ Block
    BY <1>4 DEF Begin, Block, Waits
  <1>5. CASE Schedule
    <2>1. CASE Close
      <3>1. PICK b : queue' = Append(queue, b)
        BY Zenon, <2>1 DEF Close
      <3> QED
        BY <1>1, <3>1 DEF Waits
    <2>2. CASE ~Close
      <3>1. pc' # "wait"
        BY Zenon, <1>5, <2>2
        DEF Schedule, SkipRunning, ScheduleRunning, PreemptLast, EndRunning, SkipStale, Admit,
            EndWaiting, Scheduling, Admitting
      <3> QED
        BY <3>1 DEF Waits
    <2> QED
      BY <2>1, <2>2
  <1>6. ASSUME NEW A, Update(A) PROVE Waits'
    BY Zenon, <1>6 DEF Update, Waits
  <1>7. ASSUME NEW accepted, Work(accepted) PROVE Waits'
    <2>1. pc' = pc /\ DOMAIN queue' = DOMAIN queue /\ \E i \in DOMAIN queue : TRUE
      BY <1>7 DEF Work
    <2> QED
      BY <2>1 DEF Waits
  <1>8. CASE UNCHANGED vars
    BY <1>8 DEF vars, Waits
  <1>9. ASSUME Reset \/ Resume PROVE Waits'
    BY <1>9 DEF Reset, Resume, Waits
  <1> QED
    BY <1>2, <1>3, <1>4, <1>5, <1>6, <1>7, <1>8, <1>9
    DEF Next, Client, Engine, Worker, Idle

(* The inductive invariant holds in every state: the schedule of every     *)
(* request, its entries in the queue and what the last stage has agree,    *)
(* whatever is preempted, reset, aborted or paused.                        *)
THEOREM Invariance == Spec => [](Invariant /\ Waits)
  <1>1. Init => Invariant /\ Waits
    BY InitInvariant DEF Init, Waits
  <1>2. Invariant /\ Waits /\ [Next]_vars => Invariant' /\ Waits'
    BY NextInvariant, NextWaits
  <1> QED
    BY <1>1, <1>2, PTL DEF Spec

(* The counters of in-flight and stale tokens, from Exact.                 *)
LEMMA ExactNow ==
  ASSUME Invariant
  PROVE  InFlightExact
  BY DEF Invariant, Life, Exact, InFlightExact

(* Output that is delivered follows the request's text: it is of a valid   *)
(* entry, and those were sampled from the text the request still has.      *)
LEMMA InOrderNow ==
  ASSUME Invariant
  PROVE  InOrder
  <1> SUFFICES ASSUME pc = "wait", NEW r \in Requests, Delivers(r)
               PROVE  Head(queue).out[r].follows = req[r].tokens
    BY DEF InOrder
  <1>1. Life(r) /\ queue \in Seq(BatchType)
    BY DEF Invariant, TypeOK
  <1>2. /\ queue # <<>> /\ Head(queue).ran /\ r \in DOMAIN Head(queue).entries
        /\ Live(r) /\ ~Dropped(req[r])
    BY DEF Delivers
  <1>3. 1 \in InQueue(r) /\ Ran(1) /\ Head(queue).out[r] = Out(1, r)
    BY <1>1, <1>2 DEF InQueue, Ran, Out
  <1>4. SaneEntries(r) /\ Exact(r)
    BY <1>1 DEF Life
  <1>5. req[r].stale > 0 <=> Stale(r) # {}
    BY <1>1, <1>2, <1>4, CountsAre
  <1>6. 1 \in Valid(r)
    BY <1>2, <1>3, <1>5 DEF Dropped, Stale, Valid
  <1>7. Out(1, r).follows = Of(1, r).total
    BY <1>1, <1>2, <1>3, <1>6 DEF Life, Delivery
  <1>8. Of(1, r).total = req[r].tokens
    BY <1>1, <1>2, <1>3 DEF Life, Totals
  <1> QED
    BY <1>3, <1>7, <1>8

(* The batch that is due finds what it builds on.                          *)
LEMMA WorkerReadyNow ==
  ASSUME Invariant
  PROVE  WorkerReady
  <1>d. PICK d : d = Due
    OBVIOUS
  <1> SUFFICES ASSUME \E i \in DOMAIN queue : ~queue[i].ran, NEW r \in DOMAIN queue[d].entries,
                      Live(r), ~Of(d, r).old, Of(d, r).kind # "new"
               PROVE  /\ known[r] >= Of(d, r).total
                      /\ Of(d, r).kind = "cached" =>
                            Of(d, r).start <= cached[r] /\ known[r] = Of(d, r).total
    BY <1>d DEF WorkerReady, Of
  <1>1. TypeOK /\ queue \in Seq(BatchType) /\ Progress /\ known \in [Requests -> Nat]
    BY DEF Invariant, TypeOK
  <1>2. d \in DOMAIN queue /\ d \in Nat /\ ~Ran(d) /\ \A j \in DOMAIN queue : Ran(j) <=> j < d
    BY <1>1, <1>d, DueIs
  <1>3. r \in Requests
    BY <1>1, <1>2, EntryIs
  <1>4. Life(r) /\ req[r] \in RequestType
    BY <1>3 DEF Invariant, TypeOK
  <1>5. d \in InQueue(r) /\ \A i \in InQueue(r) : i \in DOMAIN queue /\ i \in Nat
    BY <1>1, <1>2, QueueIs DEF InQueue
  <1>6. Of(d, r).total = req[r].tokens
    BY <1>4, <1>5 DEF Life, Totals
  <1>7. req[r].tokens <= known[r]
    <2>1. req[r].status # "waiting"
      BY <1>4, <1>5 DEF Life, Unsent
    <2>2. ~(Entering(r) /\ step.entries[r].kind = "new")
      BY <1>5 DEF Invariant, Planned, Continues, Entering
    <2>3. ASSUME NEW j \in InQueue(r), ~Ran(j), Of(j, r).kind = "new" PROVE FALSE
      <3>1. j <= d
        BY <1>4, <1>5, <2>3 DEF Life, NewFirst
      <3>2. j = d
        BY <1>2, <1>5, <2>3, <3>1
      <3> QED
        BY <2>3, <3>2
    <2> QED
      BY <1>4, <2>1, <2>2, <2>3 DEF Life, Knows
  <1>8. ASSUME Of(d, r).kind = "cached" PROVE known[r] = req[r].tokens /\ Of(d, r).start <= cached[r]
    <2>1. d \in Valid(r) /\ \A i \in Valid(r) : i < d => Ran(i)
      BY <1>2, <1>5 DEF Valid
    <2> QED
      BY <1>2, <1>4, <1>8, <2>1 DEF Life, Ready
  <1>9. known[r] \in Nat /\ req[r].tokens \in Nat
    BY <1>1, <1>3, <1>4, RequestIs
  <1> QED
    BY <1>6, <1>7, <1>8, <1>9

(* Every variable has its type: no counter, length or position of a        *)
(* request leaves its range.                                               *)
THEOREM TypeCorrect == Spec => []TypeOK
  <1>1. Invariant => TypeOK
    BY DEF Invariant
  <1> QED
    BY <1>1, Invariance, PTL

(* num_inflight_tokens and the stale counter are exactly the tokens in     *)
(* the queue: every late batch drains its own share                        *)
(* (update_from_output).                                                   *)
THEOREM CountersExact == Spec => []InFlightExact
  <1>1. Invariant => InFlightExact
    BY ExactNow
  <1> QED
    BY <1>1, Invariance, PTL

(* With draft tokens, decode steps run one at a time (claude-mtp-08): a    *)
(* batch that samples for a live request is the youngest in flight.        *)
THEOREM DecodesAlone == Spec => []OneDecodeStep
  <1>1. Invariant => OneDecodeStep
    BY DEF Invariant
  <1> QED
    BY <1>1, Invariance, PTL

(* Every token reaches its request once and in order, however the          *)
(* request was preempted, reset or aborted while it was computed.          *)
THEOREM DeliveredInOrder == Spec => []InOrder
  <1>1. Invariant => InOrder
    BY InOrderNow
  <1> QED
    BY <1>1, Invariance, PTL

(* A batch that is about to run finds the KV cache filled up to its        *)
(* chunk and the last stage in agreement with the scheduler.               *)
THEOREM StageIsReady == Spec => []WorkerReady
  <1>1. Invariant => WorkerReady
    BY WorkerReadyNow
  <1> QED
    BY <1>1, Invariance, PTL

-----------------------------------------------------------------------------
(***************************************************************************)
(* The first pipeline stage.                                               *)
(***************************************************************************)

(* The stages do nothing the batch queue does not allow.                   *)
LEMMA StageMoves ==
  ASSUME [StageNext]_stageVars
  PROVE  [Next]_vars
  <1>1. ASSUME StageEngine PROVE [Next]_vars
    BY <1>1 DEF StageEngine, StageUpdate, Next, Engine
  <1>2. ASSUME First PROVE [Next]_vars
    BY <1>2 DEF First, FirstRun, Receive
  <1>3. ASSUME LastStage PROVE [Next]_vars
    BY <1>3 DEF LastStage, LastRun, Next, Worker
  <1>4. ASSUME UNCHANGED stageVars PROVE [Next]_vars
    BY <1>4 DEF stageVars
  <1> QED
    BY <1>1, <1>2, <1>3, <1>4 DEF StageNext, Next

(* Of the n positions after a, m are not in a copy of l.                   *)
Exceeds(a, n, l, m) ==
  /\ m = IF a + n > l THEN a + n - l ELSE 0
  /\ Larger(a + n - l, 0) = m /\ Larger(m, 0) = m
  /\ l + m = IF a + n > l THEN a + n ELSE l
  /\ a <= l => m <= n /\ \A i \in 1 .. m : n - m + i \in 1 .. n /\ a + (n - m + i) = l + i

LEMMA Excess ==
  ASSUME NEW a \in Nat, NEW n \in Nat, NEW l \in Nat
  PROVE  \E m \in Nat : Exceeds(a, n, l, m)
  <1>1. CASE a + n > l
    <2>m. PICK m \in Nat : m = a + n - l
      BY <1>1
    <2>1. m = IF a + n > l THEN a + n - l ELSE 0
      BY <1>1, <2>m
    <2>2. Larger(a + n - l, 0) = m /\ Larger(m, 0) = m
      BY <1>1, <2>m DEF Larger
    <2>3. l + m = IF a + n > l THEN a + n ELSE l
      BY <1>1, <2>m
    <2>4. a <= l => m <= n /\ \A i \in 1 .. m : n - m + i \in 1 .. n /\ a + (n - m + i) = l + i
      BY <1>1, <2>m
    <2> QED
      BY <2>1, <2>2, <2>3, <2>4 DEF Exceeds
  <1>2. CASE ~(a + n > l)
    <2>1. Exceeds(a, n, l, 0)
      BY <1>2 DEF Exceeds, Larger
    <2> QED
      BY <2>1
  <1> QED
    BY <1>1, <1>2

(* The n positions after a.                                                *)
After(a, n) == Positions(a + 1, a + n)

(* s is a sequence of n numbers.                                           *)
Row(s, n) == s \in Seq(Int) /\ Len(s) = n /\ DOMAIN s = 1 .. n

(* They are there in order.                                                *)
AfterOK(s, a, n) == Row(s, n) /\ \A i \in 1 .. n : s[i] = a + i

LEMMA AfterIs ==
  ASSUME NEW a \in Nat, NEW n \in Nat
  PROVE  AfterOK(After(a, n), a, n)
  <1>s. PICK s : s = After(a, n)
    OBVIOUS
  <1>1. Larger(a + n - (a + 1) + 1, 0) = n
    BY DEF Larger
  <1>2. s = [i \in 1 .. n |-> a + 1 + i - 1]
    BY <1>1, <1>s DEF After, Positions
  <1>3. \A i \in 1 .. n : a + 1 + i - 1 \in Int /\ a + 1 + i - 1 = a + i
    OBVIOUS
  <1>4. Row(s, n)
    BY <1>2, <1>3 DEF Row
  <1> QED
    BY <1>2, <1>3, <1>4, <1>s DEF AfterOK

(* t is the last n elements of s.                                          *)
EndingOK(t, s, l, n) == Row(t, n) /\ \A i \in 1 .. n : t[i] = s[l - n + i]

LEMMA EndingIs ==
  ASSUME NEW s, NEW l \in Nat, Row(s, l), NEW n \in Nat, n <= l
  PROVE  EndingOK(Ending(s, n), s, l, n)
  <1>t. PICK t : t = Ending(s, n)
    OBVIOUS
  <1>m. PICK m \in Nat : m = l - n
    OBVIOUS
  <1>1. Larger(l - n, 0) = m
    BY <1>m DEF Larger
  <1>2. t = SubSeq(s, m + 1, l)
    BY <1>1, <1>t DEF Ending, Row
  <1>3. t \in Seq(Int) /\ Len(t) = l - m /\ \A i \in 1 .. l - m : t[i] = s[i + m]
    <2>1. \A i \in 1 .. l : s[i] \in Int
      BY DEF Row
    <2>2. \A i \in m + 1 .. l : s[i] \in Int
      BY <2>1
    <2>3. /\ t \in Seq(Int) /\ Len(t) = IF m + 1 <= l THEN l - (m + 1) + 1 ELSE 0
          /\ \A i \in 1 .. l - (m + 1) + 1 : t[i] = s[m + 1 + i - 1]
      BY <1>2, <2>2, SubSeqProperties
    <2>4. /\ (IF m + 1 <= l THEN l - (m + 1) + 1 ELSE 0) = l - m
          /\ l - (m + 1) + 1 = l - m
          /\ \A i \in 1 .. l - m : m + 1 + i - 1 = i + m
      BY <1>m
    <2> QED
      BY <2>3, <2>4
  <1>4. l - m = n /\ \A i \in 1 .. n : i + m = l - n + i
    BY <1>m
  <1>5. Row(t, n)
    <2>1. DOMAIN t = 1 .. Len(t)
      BY <1>3
    <2> QED
      BY <1>3, <1>4, <2>1 DEF Row
  <1>6. \A i \in 1 .. n : t[i] = s[l - n + i]
    BY <1>3, <1>4
  <1> QED
    BY <1>5, <1>6, <1>t DEF EndingOK

(* t is the first l positions of a text.                                   *)
Prefix(t, l) == t \in Seq(Nat) /\ Len(t) = l /\ \A p \in 1 .. l : t[p] = p

(* What follows the first of two joined texts is the second.               *)
LEMMA AfterFirst ==
  ASSUME NEW t \in Seq(Nat), NEW v \in Seq(Nat), NEW j \in 1 .. Len(v)
  PROVE  (t \o v)[Len(t) + j] = v[j]
  OBVIOUS

(* A chunk after position a, of n positions, that begins where a copy      *)
(* ends, or before, lets it grow to the chunk's end.                       *)
LEMMA Growth ==
  ASSUME NEW l \in Nat, NEW t, Prefix(t, l), NEW a \in Nat, NEW n \in Nat, a <= l,
         NEW m \in Nat, Exceeds(a, n, l, m)
  PROVE  Row(Ending(After(a, n), m), m) /\ Prefix(t \o Ending(After(a, n), m), l + m)
  <1>T. PICK T : T = After(a, n)
    OBVIOUS
  <1>v. PICK v : v = Ending(T, m)
    OBVIOUS
  <1>1. m <= n /\ \A i \in 1 .. m : n - m + i \in 1 .. n /\ a + (n - m + i) = l + i
    BY DEF Exceeds
  <1>2. Row(T, n) /\ \A i \in 1 .. n : T[i] = a + i
    BY <1>T, AfterIs DEF AfterOK
  <1>3. Row(v, m) /\ \A i \in 1 .. m : v[i] = T[n - m + i]
    BY <1>1, <1>2, <1>v, EndingIs DEF EndingOK
  <1>4. \A i \in 1 .. m : v[i] = l + i
    BY <1>1, <1>2, <1>3
  <1>5. v \in Seq(Nat) /\ Len(v) = m
    <2>1. DOMAIN v = 1 .. Len(v) /\ v \in Seq(Int) /\ Len(v) = m
      BY <1>3 DEF Row
    <2>2. \A i \in 1 .. m : l + i \in Nat
      OBVIOUS
    <2>3. \A i \in 1 .. Len(v) : v[i] \in Nat
      BY <1>4, <2>1, <2>2
    <2> QED
      BY <2>1, <2>3
  <1>6. t \in Seq(Nat) /\ Len(t) = l /\ \A p \in 1 .. l : t[p] = p
    BY DEF Prefix
  <1>7. t \o v \in Seq(Nat) /\ Len(t \o v) = l + m
    BY <1>5, <1>6
  <1>8. ASSUME NEW p \in 1 .. l + m PROVE (t \o v)[p] = p
    <2>1. CASE p <= l
      <3>1. (t \o v)[p] = t[p]
        BY <1>5, <1>6, <2>1
      <3> QED
        BY <1>6, <2>1, <3>1
    <2>2. CASE p > l
      <3>1. PICK j \in 1 .. m : p = l + j
        BY <2>2
      <3>2. (t \o v)[Len(t) + j] = v[j]
        BY <1>5, <1>6, <3>1, AfterFirst
      <3> QED
        BY <1>4, <1>6, <3>1, <3>2
    <2>3. p <= l \/ p > l
      OBVIOUS
    <2> QED
      BY <2>1, <2>2, <2>3
  <1>10. Prefix(t \o v, l + m)
    BY <1>7, <1>8 DEF Prefix
  <1> QED
    BY <1>3, <1>10, <1>T, <1>v

(* A chunk without drafts, in numbers: a copy of l positions reaches its   *)
(* start.                                                                  *)
Plain(e, r, l, a, n) ==
  /\ a = e.start /\ n = e.n /\ End(e) = a + n /\ a <= l
  /\ NewTokens(e) = After(a, n) /\ Len(NewTokens(e)) = n
  /\ e.kind = "new" => a + n <= Prompt[r]

Adjacent(e, l) == e.start >= 0 /\ e.start <= l

LEMMA PlainIs ==
  ASSUME NumSpec = 0, NEW r \in Requests, NEW e \in EntryType, Sane(e, r),
         NEW l \in Nat, Adjacent(e, l)
  PROVE  \E a, n \in Nat : Plain(e, r, l, a, n)
  <1>1. e.start \in Nat /\ e.n \in Nat /\ e.spec = 0 /\ e.total \in Nat
    BY DEF EntryType, Sane, Adjacent
  <1>a. PICK a \in Nat, n \in Nat, t \in Nat : a = e.start /\ n = e.n /\ t = e.total
    BY <1>1
  <1>2. End(e) = a + n /\ a + n <= t /\ (e.kind = "new" => t = Prompt[r]) /\ a <= l
    BY <1>1, <1>a DEF Sane, End, Adjacent
  <1>3. Smaller(a + n - e.spec, t) = a + n
    BY <1>1, <1>2 DEF Smaller
  <1>4. NewTokens(e) = After(a, n)
    BY <1>3, <1>a DEF NewTokens, After
  <1>5. Len(NewTokens(e)) = n
    BY <1>4, AfterIs DEF AfterOK, Row
  <1>7. e.kind = "new" => a + n <= Prompt[r]
    BY <1>2
  <1> QED
    BY <1>2, <1>4, <1>5, <1>7, <1>a DEF Plain

(* Without drafts, a chunk that begins where the copy ends, or before,     *)
(* makes it reach to the chunk's end; and the row that is in the batch     *)
(* already is told the same.                                               *)
LEMMA TextAfterIs ==
  ASSUME NumSpec = 0, NEW r \in Requests, NEW e \in EntryType, Sane(e, r),
         NEW l \in Nat, Prefix(text[r], l), Adjacent(e, l),
         e.kind = "new" => l = Prompt[r],
         r \in DOMAIN row => row[r] = text[r]
  PROVE  /\ RowAfter(e, r) = TextAfter(e, r)
         /\ \E m \in Nat : /\ Prefix(TextAfter(e, r), m) /\ m = (IF End(e) > l THEN End(e) ELSE l)
                           /\ End(e) \in Nat
                           /\ e.kind = "new" => m = Prompt[r]
  <1>u. PICK u : u = TextAfter(e, r)
    OBVIOUS
  <1>t. PICK t : t = text[r] /\ (r \in DOMAIN row => row[r] = t)
    OBVIOUS
  <1>a. PICK a \in Nat, n \in Nat : Plain(e, r, l, a, n)
    BY PlainIs
  <1>m. PICK m \in Nat : Exceeds(a, n, l, m)
    BY Excess
  <1>x. /\ Larger(a + n - l, 0) = m /\ Larger(m, 0) = m
        /\ l + m = IF a + n > l THEN a + n ELSE l
    BY <1>m DEF Exceeds
  <1>1. /\ a = e.start /\ End(e) = a + n /\ a <= l /\ Len(t) = l
        /\ NewTokens(e) = After(a, n) /\ Len(NewTokens(e)) = n
    BY <1>a, <1>t DEF Plain, Prefix
  <1>2. CASE e.kind = "new"
    <2>1. u = After(0, l)
      <3>1. 0 + 1 = 1 /\ 0 + l = l
        OBVIOUS
      <3>2. u = Positions(1, l)
        BY <1>2, <1>u DEF TextAfter
      <3> QED
        BY <3>1, <3>2 DEF After
    <2>2. Row(u, l) /\ \A i \in 1 .. l : u[i] = 0 + i
      <3>1. 0 \in Nat
        OBVIOUS
      <3> QED
        BY <2>1, <3>1, AfterIs DEF AfterOK
    <2>3. \A i \in 1 .. l : 0 + i = i /\ 0 + i \in Nat
      OBVIOUS
    <2>4. \A i \in 1 .. l : u[i] = i /\ u[i] \in Nat
      BY <2>2, <2>3
    <2>5. Prefix(u, l)
      BY <2>2, <2>4 DEF Prefix, Row
    <2>6. a + n <= l /\ l = Prompt[r]
      BY <1>2, <1>a DEF Plain
    <2>7. RowAfter(e, r) = u
      BY <1>2, <1>u DEF RowAfter
    <2>8. l = (IF End(e) > l THEN End(e) ELSE l) /\ End(e) \in Nat
      BY <1>1, <2>6
    <2> QED
      BY <1>u, <2>5, <2>6, <2>7, <2>8
  <1>3. CASE e.kind # "new"
    <2>v. PICK v : v = Ending(After(a, n), m)
      OBVIOUS
    <2>1. u = t \o v
      BY <1>1, <1>3, <1>x, <1>t, <1>u, <2>v DEF TextAfter
    <2>2. Row(v, m) /\ Prefix(t \o v, l + m)
      BY <1>1, <1>m, <1>t, <2>v, Growth
    <2>3. RowAfter(e, r) = u
      <3>1. CASE e.kind # "cached" \/ r \notin DOMAIN row
        BY <1>u, <3>1 DEF RowAfter
      <3>2. CASE e.kind = "cached" /\ r \in DOMAIN row
        <4>1. RowAfter(e, r) = t \o [i \in 1 .. m |-> IF Len(v) = m THEN v[i]
                                                      ELSE IF Len(v) = 1 THEN v[1] ELSE 0]
          BY <1>1, <1>x, <1>t, <2>v, <3>2 DEF RowAfter
        <4>2. RowAfter(e, r) = t \o [i \in 1 .. m |-> v[i]]
          BY <2>2, <4>1 DEF Row
        <4>3. v = [i \in 1 .. m |-> v[i]]
          BY <2>2 DEF Row
        <4> QED
          BY <2>1, <4>2, <4>3
      <3> QED
        BY <3>1, <3>2
    <2>4. l + m \in Nat /\ l + m = (IF End(e) > l THEN End(e) ELSE l) /\ End(e) \in Nat
      BY <1>1, <1>x
    <2> QED
      BY <1>3, <1>u, <2>1, <2>2, <2>3, <2>4
  <1> QED
    BY <1>2, <1>3

-----------------------------------------------------------------------------
(* Nothing has been sent.                                                  *)
LEMMA InitStage ==
  ASSUME StageInit
  PROVE  StageInvariant
  <1>1. /\ queue = <<>> /\ pc = "input" /\ seen = 0 /\ row = <<>>
        /\ text = [r \in Requests |-> Positions(1, Prompt[r])]
        /\ \A r \in Requests : req[r].tokens = Prompt[r] /\ req[r].computed = 0
    BY DEF StageInit, Init
  <1>2. DOMAIN queue = {} /\ Len(queue) = 0 /\ DOMAIN row = {}
    BY <1>1
  <1>3. \A r : InQueue(r) = {} /\ ~Entering(r)
    BY <1>1, <1>2 DEF InQueue, Entering, InSchedule
  <1>4. ASSUME NEW r \in Requests
        PROVE  /\ text[r] \in Seq(Nat) /\ Len(text[r]) = Prompt[r]
               /\ \A p \in 1 .. Prompt[r] : text[r][p] = p
    <2>t. PICK t : t = text[r]
      OBVIOUS
    <2>n. PICK n \in Nat : n = Prompt[r]
      BY Constants
    <2>1. 0 \in Nat /\ 0 + 1 = 1 /\ 0 + n = n
      OBVIOUS
    <2>2. t = Positions(1, n)
      BY <1>1, <2>t, <2>n
    <2>3. t = After(0, n)
      BY <2>1, <2>2 DEF After
    <2>4. Row(t, n) /\ \A i \in 1 .. n : t[i] = 0 + i
      BY <2>1, <2>3, AfterIs DEF AfterOK
    <2>5. \A i \in 1 .. n : 0 + i = i /\ i \in Nat
      OBVIOUS
    <2>6. \A i \in 1 .. n : t[i] = i /\ t[i] \in Nat
      BY <2>4, <2>5
    <2>7. t \in Seq(Nat) /\ Len(t) = n
      BY <2>4, <2>6 DEF Row
    <2> QED
      BY <2>6, <2>7, <2>t, <2>n
  <1>5. Ahead
    BY <1>1, <1>2 DEF Ahead
  <1>6. Rows
    BY <1>1, <1>2, <1>4 DEF Rows
  <1>7. ASSUME NEW r \in Requests PROVE Fed(r)
    <2>1. Prompt[r] \in Nat
      BY Constants
    <2>2. Copied(r) /\ Untold(r)
      BY <1>4, <2>1 DEF Copied, Untold
    <2>3. Forward(r) /\ Received(r) /\ Adjoins(r)
      BY <1>1, <1>3, <1>4, <2>1 DEF Forward, Received, Adjoins
    <2> QED
      BY <2>2, <2>3 DEF Fed
  <1> QED
    BY <1>5, <1>6, <1>7 DEF StageInvariant

(* What the first stage reads of an entry.                                 *)
SameChunk(f, e) == f.start = e.start /\ f.n = e.n /\ f.kind = e.kind

(* The entries of request r are the same to it ...                         *)
Unmoved(r) ==
  /\ InQueue(r)' = InQueue(r)
  /\ \A i \in InQueue(r) : SameChunk(queue'[i].entries[r], queue[i].entries[r])

(* ... and the request does not become a new one.                          *)
Steadfast(r) ==
  /\ req'[r].tokens = req[r].tokens /\ req'[r].computed >= 0
  /\ req'[r].status \in {"absent", "waiting"} => req[r].status \in {"absent", "waiting"}
  /\ Entering(r)' /\ step'.entries[r].kind = "new"
        => req[r].status = "waiting" \/ (Entering(r) /\ step.entries[r].kind = "new")

LEMMA KeptUnmoved ==
  ASSUME NEW r, Kept(r)
  PROVE  Unmoved(r)
  BY DEF Kept, Unmoved, SameChunk

LEMMA FedKept ==
  ASSUME UNCHANGED <<text, seen>>, NEW r \in Requests, Fed(r), Unmoved(r), Steadfast(r)
  PROVE  Fed(r)'
  <1>1. Copied(r) /\ Forward(r) /\ Received(r) /\ Adjoins(r) /\ Untold(r)
    BY DEF Fed
  <1>2. /\ InQueue(r)' = InQueue(r)
        /\ \A i \in InQueue(r) : /\ Of(i, r)'.start = Of(i, r).start
                                 /\ Of(i, r)'.kind = Of(i, r).kind
                                 /\ End(Of(i, r))' = End(Of(i, r))
    BY DEF Unmoved, SameChunk, Of, End
  <1>3. Copied(r)'
    BY <1>1 DEF Copied
  <1>4. Forward(r)'
    BY <1>1, <1>2 DEF Forward, Steadfast
  <1>5. Received(r)'
    BY <1>1, <1>2 DEF Received, Steadfast
  <1>6. Adjoins(r)'
    BY <1>1, <1>2 DEF Adjoins
  <1>7. Untold(r)'
    BY <1>1, <1>2 DEF Untold, Steadfast
  <1> QED
    BY <1>3, <1>4, <1>5, <1>6, <1>7 DEF Fed

(* What the engine does between two batches, and what the last stage does. *)
LEMMA Steady ==
  ASSUME StageInvariant, UNCHANGED <<text, row, seen>>,
         DOMAIN queue' = DOMAIN queue, Len(queue') = Len(queue),
         \A i \in DOMAIN queue : queue'[i].ran => queue[i].ran \/ i <= seen,
         \A r \in Requests : Unmoved(r) /\ Steadfast(r)
  PROVE  StageInvariant'
  <1>1. Ahead'
    BY DEF StageInvariant, Ahead, Ran
  <1>2. Rows'
    BY DEF StageInvariant, Rows
  <1>3. \A r \in Requests : Fed(r)'
    BY FedKept DEF StageInvariant
  <1> QED
    BY <1>1, <1>2, <1>3 DEF StageInvariant

(* In particular when the queue stays as it is.                            *)
LEMMA SteadyQueue ==
  ASSUME StageInvariant, UNCHANGED <<text, row, seen, queue>>,
         \A r \in Requests : Steadfast(r)
  PROVE  StageInvariant'
  <1>1. \A r \in Requests : Unmoved(r)
    BY DEF Unmoved, SameChunk, InQueue
  <1> QED
    BY <1>1, Steady

(* And when the requests do too.                                           *)
LEMMA SteadyRequests ==
  ASSUME StageInvariant, UNCHANGED <<text, row, seen, queue, req>>,
         \A r \in Requests :
            Entering(r)' /\ step'.entries[r].kind = "new" =>
                Entering(r) /\ step.entries[r].kind = "new"
  PROVE  StageInvariant'
  <1>1. \A r \in Requests : Steadfast(r)
    BY DEF StageInvariant, Fed, Forward, Steadfast
  <1> QED
    BY <1>1, SteadyQueue

(* add_request *)
LEMMA AddStage ==
  ASSUME Invariant, StageInvariant, UNCHANGED stage, NEW r \in Requests, Add(r)
  PROVE  StageInvariant'
  <1>1. /\ pc = "input" /\ pc' = "input" /\ req[r].status = "absent"
        /\ req' = [req EXCEPT ![r].status = "waiting"]
        /\ UNCHANGED <<step, queue, text, row, seen>>
    BY DEF Add, stage
  <1>2. ~InSchedule /\ ~InSchedule'
    BY <1>1 DEF InSchedule
  <1>3. /\ req'[r].status = "waiting" /\ req'[r].tokens = req[r].tokens
        /\ req'[r].computed = req[r].computed
        /\ \A x \in Requests : x # r => req'[x] = req[x]
    <2>1. req[r] \in RequestType /\ "waiting" \in Status
      BY DEF Invariant, TypeOK, Status
    <2>2. req'[r] = [req[r] EXCEPT !.status = "waiting"] /\ \A x \in Requests : x # r => req'[x] = req[x]
      BY <1>1 DEF Invariant, TypeOK
    <2> QED
      BY <2>1, <2>2, StatusIs
  <1>4. \A x \in Requests : Steadfast(x)
    BY <1>1, <1>2, <1>3, Seldom DEF StageInvariant, Fed, Forward, Steadfast
  <1> QED
    BY <1>1, <1>4, SteadyQueue

(* abort_requests, pause_scheduler *)
LEMMA FinishedStage ==
  ASSUME Invariant, StageInvariant, UNCHANGED <<text, row, seen, queue>>, NEW R, Finished(R),
         ~InSchedule, ~InSchedule'
  PROVE  StageInvariant'
  <1>1. ASSUME NEW r \in Requests PROVE Steadfast(r)
    <2>q. PICK q \in RequestType : q = req[r]
      BY DEF Invariant, TypeOK
    <2>p. PICK p : p = req'[r]
      OBVIOUS
    <2>1. p.tokens = q.tokens /\ p.computed = q.computed /\ (p.status = q.status \/ p.status = "finished")
      <3>1. CASE r \in R
        <4>1. p = Ended(q)
          BY Zenon, <2>p, <2>q, <3>1 DEF Finished, Ended
        <4> QED
          BY <4>1, FinishedIs
      <3>2. CASE r \notin R
        BY Zenon, <2>p, <2>q, <3>2 DEF Finished
      <3> QED
        BY <3>1, <3>2
    <2> QED
      BY <2>1, <2>p, <2>q, Seldom DEF StageInvariant, Fed, Forward, Steadfast
  <1> QED
    BY <1>1, SteadyQueue

LEMMA AbortStage ==
  ASSUME Invariant, StageInvariant, UNCHANGED stage, NEW r, Abort(r)
  PROVE  StageInvariant'
  <1>1. /\ Finished({r}) /\ UNCHANGED <<text, row, seen, queue>> /\ pc' = pc /\ pc = "input"
    BY DEF Abort, stage
  <1>2. ~InSchedule /\ ~InSchedule'
    BY <1>1 DEF InSchedule
  <1> QED
    BY <1>1, <1>2, FinishedStage

LEMMA PauseStage ==
  ASSUME Invariant, StageInvariant, UNCHANGED stage, NEW mode, Pause(mode)
  PROVE  StageInvariant'
  <1>1. PICK R : R = IF mode = "abort" THEN {r \in Requests : Live(r)} ELSE {}
    OBVIOUS
  <1>2. /\ Finished(R) /\ UNCHANGED <<text, row, seen, queue>> /\ pc' = pc /\ pc = "input"
    BY <1>1 DEF Pause, stage
  <1>3. ~InSchedule /\ ~InSchedule'
    BY <1>2 DEF InSchedule
  <1> QED
    BY <1>2, <1>3, FinishedStage

(* Some lives end; the first stage does not notice.                        *)
LEMMA OutdatedStage ==
  ASSUME Invariant, StageInvariant, UNCHANGED <<text, row, seen>>, NEW R, queue' = Outdated(R),
         \A r \in Requests :
            IF r \in R THEN \E d \in BOOLEAN : req'[r] = Preempted(req[r], d)
                       ELSE req'[r] = req[r],
         \A r \in Requests : ~(Entering(r)' /\ step'.entries[r].kind = "new")
  PROVE  StageInvariant'
  <1>1. queue \in Seq(BatchType)
    BY DEF Invariant, TypeOK
  <1>2. /\ DOMAIN queue' = DOMAIN queue /\ Len(queue') = Len(queue)
        /\ \A i \in DOMAIN queue :
              /\ DOMAIN queue'[i].entries = DOMAIN queue[i].entries
              /\ queue'[i].ran = queue[i].ran
    BY <1>1, OutdatedIs
  <1>3. ASSUME NEW r \in Requests PROVE Unmoved(r)
    <2>1. InQueue(r)' = InQueue(r)
      BY <1>2 DEF InQueue
    <2>2. ASSUME NEW i \in InQueue(r) PROVE SameChunk(queue'[i].entries[r], queue[i].entries[r])
      <3>1. i \in DOMAIN queue /\ r \in DOMAIN queue[i].entries
        BY <2>2 DEF InQueue
      <3>e. PICK e \in EntryType : e = queue[i].entries[r]
        BY <3>1, EntryIs DEF Of, Invariant
      <3>f. PICK f : f = queue'[i].entries[r]
        OBVIOUS
      <3>2. f = [e EXCEPT !.old = @ \/ r \in R]
        <4>1. queue'[i].entries[r] = [queue[i].entries[r] EXCEPT !.old = @ \/ r \in R]
          BY <1>1, <3>1, OutdatedIs
        <4> QED
          BY <4>1, <3>e, <3>f
      <3>3. SameChunk(f, e)
        BY <3>2 DEF SameChunk, EntryType
      <3> QED
        BY <3>3, <3>e, <3>f
    <2> QED
      BY <2>1, <2>2 DEF Unmoved
  <1>4. ASSUME NEW r \in Requests PROVE Steadfast(r)
    <2>q. PICK q \in RequestType : q = req[r]
      BY DEF Invariant, TypeOK
    <2>p. PICK p : p = req'[r]
      OBVIOUS
    <2>1. p.tokens = q.tokens /\ p.computed >= 0 /\ (p.status = q.status \/ p.status = "preempted")
      <3>1. CASE r \in R
        <4>1. PICK d \in BOOLEAN : p = Preempted(q, d)
          BY <2>p, <2>q, <3>1
        <4>2. p.computed = 0 /\ p.tokens = q.tokens /\ p.status = "preempted"
          BY <4>1, PreemptedIs
        <4> QED
          BY <4>2
      <3>2. CASE r \notin R
        BY <2>p, <2>q, <3>2 DEF StageInvariant, Fed, Forward
      <3> QED
        BY <3>1, <3>2
    <2> QED
      BY <2>1, <2>p, <2>q DEF Steadfast
  <1>5. \A i \in DOMAIN queue : queue'[i].ran => queue[i].ran \/ i <= seen
    BY <1>2
  <1> QED
    BY <1>2, <1>3, <1>4, <1>5, Steady

(* reset_prefix_cache(reset_running_requests=True) *)
LEMMA ResetStage ==
  ASSUME Invariant, StageInvariant, UNCHANGED stage, Reset
  PROVE  StageInvariant'
  <1>R. PICK R : R = Ids(running)
    OBVIOUS
  <1>1. /\ pc' = "input" /\ queue' = Outdated(R) /\ UNCHANGED <<text, row, seen>>
        /\ req' = [r \in Requests |-> IF r \in R THEN Preempted(req[r], TRUE) ELSE req[r]]
    BY <1>R DEF Reset, stage
  <1>2. \A r \in Requests : IF r \in R THEN \E d \in BOOLEAN : req'[r] = Preempted(req[r], d)
                                       ELSE req'[r] = req[r]
    BY <1>1, Zenon
  <1>3. \A r : ~Entering(r)'
    BY <1>1 DEF Entering, InSchedule
  <1> QED
    BY <1>1, <1>2, <1>3, OutdatedStage

(* In the first loop of schedule nothing is new.                           *)
LEMMA NoneNew ==
  ASSUME Planned, pc = "running"
  PROVE  \A r : ~(Entering(r) /\ step.entries[r].kind = "new")
  BY DEF Planned, Entering, InSchedule

(* No room for the running requests.                                       *)
LEMMA PreemptLastStage ==
  ASSUME Invariant, StageInvariant, UNCHANGED stage, PreemptLast
  PROVE  StageInvariant'
  <1>1. PICK v : /\ v = Last(running) /\ pc = "running" /\ step.at <= Len(running)
                 /\ req' = [req EXCEPT ![v] = Preempted(req[v], FALSE)]
                 /\ queue' = Outdated({v})
                 /\ step' = [step EXCEPT !.preempted = TRUE]
                 /\ UNCHANGED <<text, row, seen>>
    BY DEF PreemptLast, Scheduling, stage
  <1>2. \A r : ~(Entering(r)' /\ step'.entries[r].kind = "new")
    <2>1. InSchedule /\ step \in StepType
      BY <1>1, PlanRequests DEF InSchedule, Invariant
    <2>2. step'.entries = step.entries
      BY <1>1, <2>1, StepPreempted
    <2> QED
      BY <1>1, <2>1, <2>2, NoneNew DEF Entering, Invariant
  <1>3. \A r \in Requests : IF r \in {v} THEN \E d \in BOOLEAN : req'[r] = Preempted(req[r], d)
                                         ELSE req'[r] = req[r]
    <2>1. req \in [Requests -> RequestType]
      BY DEF Invariant, TypeOK
    <2> SUFFICES ASSUME NEW r \in Requests
                 PROVE IF r \in {v} THEN \E d \in BOOLEAN : req'[r] = Preempted(req[r], d)
                                    ELSE req'[r] = req[r]
      OBVIOUS
    <2>2. CASE r = v
      <3>1. req'[r] = Preempted(req[r], FALSE)
        BY <1>1, <2>1, <2>2
      <3> QED
        BY <2>2, <3>1
    <2>3. CASE r # v
      BY <1>1, <2>1, <2>3
    <2> QED
      BY <2>2, <2>3
  <1> QED
    BY <1>1, <1>2, <1>3, OutdatedStage

(* A running request gets a chunk.                                         *)
LEMMA ScheduleRunningStage ==
  ASSUME Invariant, Invariant', StageInvariant, UNCHANGED stage, ScheduleRunning
  PROVE  StageInvariant'
  <1>1. PICK r, b : /\ req' = [req EXCEPT ![r].spec = 0, ![r].blocks = b]
                    /\ pc' = "running" /\ UNCHANGED <<text, row, seen, queue>>
    <2>r. PICK r : r = running[step.at]
      OBVIOUS
    <2>b. PICK b : b = Larger(req[r].blocks, BlocksFor(req[r].computed + Wanted(r) + NumSpec))
      OBVIOUS
    <2>1. req' = [req EXCEPT ![r].spec = 0,
                             ![r].blocks = Larger(@, BlocksFor(req[r].computed + Wanted(r) + NumSpec))]
      BY <2>r DEF ScheduleRunning
    <2>2. req' = [req EXCEPT ![r].spec = 0, ![r].blocks = b]
      BY <2>1, <2>b
    <2> QED
      BY <2>2 DEF ScheduleRunning, Scheduling, stage
  <1>2. \A x : ~(Entering(x)' /\ step'.entries[x].kind = "new")
    BY <1>1 DEF Invariant, Planned, Entering, InSchedule
  <1>3. ASSUME NEW x \in Requests PROVE Steadfast(x)
    <2>q. PICK q \in RequestType : q = req[x]
      BY DEF Invariant, TypeOK
    <2>p. PICK p : p = req'[x]
      OBVIOUS
    <2>1. p = q \/ p = [q EXCEPT !.spec = 0, !.blocks = b]
      BY <1>1, <2>p, <2>q DEF Invariant, TypeOK
    <2>2. p.tokens = q.tokens /\ p.computed = q.computed /\ p.status = q.status
      BY <2>1 DEF RequestType
    <2> QED
      BY <1>2, <2>2, <2>p, <2>q DEF StageInvariant, Fed, Forward, Steadfast
  <1> QED
    BY <1>1, <1>3, SteadyQueue

(* The steps of schedule that leave the requests as they are.              *)
LEMMA QuietStage ==
  ASSUME Invariant, Invariant', StageInvariant, UNCHANGED stage,
         SkipRunning \/ EndRunning \/ SkipStale \/ EndWaiting \/ Begin \/ Block \/ Resume
  PROVE  StageInvariant'
  <1>1. UNCHANGED <<text, row, seen, queue, req>>
    BY DEF SkipRunning, EndRunning, SkipStale, EndWaiting, Begin, Block, Resume, engine, stage
  <1>2. CASE SkipRunning \/ Begin
    <2>1. pc' = "running"
      BY <1>2 DEF SkipRunning, Scheduling, Begin
    <2>2. \A r : ~(Entering(r)' /\ step'.entries[r].kind = "new")
      BY <2>1 DEF Invariant, Planned, Entering, InSchedule
    <2> QED
      BY <1>1, <2>2, SteadyRequests
  <1>3. CASE EndRunning \/ SkipStale \/ EndWaiting
    <2>1. pc \in {"running", "waiting"}
      BY <1>3 DEF EndRunning, SkipStale, EndWaiting, Admitting
    <2>2. InSchedule /\ step \in StepType
      BY <2>1, PlanRequests DEF InSchedule, Invariant
    <2>3. step'.entries = step.entries
      BY <1>3, <2>2 DEF EndRunning, SkipStale, EndWaiting, engine, StepType
    <2> QED
      BY <1>1, <2>2, <2>3, SteadyRequests DEF Entering
  <1>4. CASE Block \/ Resume
    <2>1. ~InSchedule'
      BY <1>4 DEF Block, Resume, InSchedule
    <2> QED
      BY <1>1, <2>1, SteadyRequests DEF Entering
  <1> QED
    BY <1>2, <1>3, <1>4

(* A waiting request is admitted: it is new to the first stage if it has   *)
(* not run before.                                                         *)
LEMMA AdmitStage ==
  ASSUME Invariant, StageInvariant, UNCHANGED stage, NEW h, Admit(h)
  PROVE  StageInvariant'
  <1>r. PICK r, n, k : /\ r = Head(Queued) /\ n = Chunk(r, h)
                       /\ k = IF req[r].status = "waiting" THEN "new" ELSE "resumed"
    OBVIOUS
  <1>s. PICK s : s = IF Padded(r, h) THEN NumSpec ELSE 0
    OBVIOUS
  <1>e. PICK e : e = Entry(r, k, h, n, s, FALSE)
    BY Zenon
  <1>b. PICK b : b = BlocksFor(h + n + NumSpec)
    OBVIOUS
  <1>E. PICK E : E = With(step.entries, r, e)
    OBVIOUS
  <1>1. /\ r = Head(Queued) /\ pc = "waiting" /\ Queued # <<>> /\ Popped
        /\ h \in Hits(r)
        /\ req' = [req EXCEPT ![r].status = "running", ![r].computed = h, ![r].blocks = b]
        /\ E = With(step.entries, r, e)
        /\ e.kind = (IF req[r].status = "waiting" THEN "new" ELSE "resumed")
        /\ step' = [step EXCEPT !.budget = @ - n, !.entries = E]
        /\ UNCHANGED <<text, row, seen, queue>>
    <2>1. /\ step' = [step EXCEPT !.budget = @ - n, !.entries = With(@, r, e)]
          /\ req' = [req EXCEPT ![r].status = "running", ![r].computed = h, ![r].blocks = b]
          /\ h \in Hits(r) /\ Popped
      BY <1>r, <1>s, <1>e, <1>b DEF Admit
    <2>2. step' = [step EXCEPT !.budget = @ - n, !.entries = E]
      BY <1>E, <2>1
    <2>3. e.kind = (IF req[r].status = "waiting" THEN "new" ELSE "resumed")
      BY <1>r, <1>e DEF Entry
    <2>4. pc = "waiting" /\ Queued # <<>> /\ UNCHANGED <<text, row, seen, queue>>
      BY DEF Admit, Admitting, stage
    <2> QED
      BY <1>r, <1>E, <2>1, <2>2, <2>3, <2>4
  <1>2. r \in Requests
    BY <1>1, PoppedIs DEF Invariant
  <1>3. InSchedule /\ step \in StepType
    BY <1>1, PlanRequests DEF InSchedule, Invariant
  <1>4. /\ step'.entries = E /\ DOMAIN E = DOMAIN step.entries \cup {r} /\ E[r] = e
        /\ \A x \in DOMAIN step.entries : x # r => E[x] = step.entries[x]
    BY <1>1, <1>3 DEF With, StepType
  <1>5. ASSUME NEW x \in Requests PROVE Steadfast(x)
    <2>q. PICK q \in RequestType : q = req[x]
      BY DEF Invariant, TypeOK
    <2>p. PICK p : p = req'[x]
      OBVIOUS
    <2>1. CASE x = r
      <3>1. p = [q EXCEPT !.status = "running", !.computed = h, !.blocks = b]
        BY <1>1, <1>2, <2>1, <2>p, <2>q DEF Invariant, TypeOK
      <3>2. p.tokens = q.tokens /\ p.computed = h /\ p.status = "running"
        BY <3>1 DEF RequestType
      <3>3. h >= 0
        <4>1. h \in 0 .. q.tokens - 1
          BY <1>1, <2>1, <2>q DEF Hits
        <4>2. q.tokens \in Nat
          BY <2>q DEF RequestType
        <4> QED
          BY <4>1, <4>2
      <3>4. step'.entries[x].kind = "new" => q.status = "waiting"
        BY <1>1, <1>4, <2>1, <2>q
      <3> QED
        BY <2>p, <2>q, <3>2, <3>3, <3>4 DEF Steadfast
    <2>2. CASE x # r
      <3>1. req'[x] = req[x]
        BY <1>1, <2>2, <2>p, <2>q DEF Invariant, TypeOK
      <3>2. Entering(x)' /\ step'.entries[x].kind = "new" =>
               Entering(x) /\ step.entries[x].kind = "new"
        BY <1>3, <1>4, <2>2 DEF Entering
      <3> QED
        BY <3>1, <3>2 DEF StageInvariant, Fed, Forward, Steadfast
    <2> QED
      BY <2>1, <2>2
  <1> QED
    BY <1>1, <1>5, SteadyQueue

(* The last stage runs a batch the first has run.                          *)
LEMMA LastRunStage ==
  ASSUME Invariant, StageInvariant, NEW accepted, LastRun(accepted)
  PROVE  StageInvariant'
  <1>d. PICK d : d = Due
    OBVIOUS
  <1>O. PICK O : queue' = [queue EXCEPT ![d].ran = TRUE, ![d].out = O]
    BY <1>d DEF LastRun, Work
  <1>1. /\ pc \in {"input", "wait"} /\ \E i \in DOMAIN queue : ~queue[i].ran
        /\ d <= seen /\ UNCHANGED <<pc, req, text, row, seen>>
    BY <1>d DEF LastRun, Work, engine
  <1>2. queue \in Seq(BatchType) /\ d \in DOMAIN queue
    BY <1>1, <1>d, DueIs DEF Invariant, TypeOK
  <1>3. /\ DOMAIN queue' = DOMAIN queue /\ Len(queue') = Len(queue)
        /\ \A i \in DOMAIN queue : /\ queue'[i].entries = queue[i].entries
                                   /\ i # d => queue'[i].ran = queue[i].ran
    <2>1. DOMAIN queue' = DOMAIN queue /\ Len(queue') = Len(queue)
      BY <1>O, <1>2
    <2>2. ASSUME NEW i \in DOMAIN queue
          PROVE  queue'[i].entries = queue[i].entries /\ (i # d => queue'[i].ran = queue[i].ran)
      <3>1. queue[i] \in BatchType
        BY <1>2, QueueIs
      <3> QED
        BY <1>O, <1>2, <3>1 DEF BatchType
    <2> QED
      BY <2>1, <2>2
  <1>4. \A r \in Requests : Unmoved(r)
    BY <1>3 DEF Unmoved, InQueue, SameChunk
  <1>5. \A r \in Requests : Steadfast(r)
    BY <1>1 DEF StageInvariant, Fed, Forward, Steadfast, Entering, InSchedule
  <1>6. \A i \in DOMAIN queue : queue'[i].ran => queue[i].ran \/ i <= seen
    BY <1>1, <1>3
  <1> QED
    BY <1>1, <1>3, <1>4, <1>5, <1>6, Steady

(* Where the chunk that continues a request begins, the first stage will   *)
(* have the text: a chunk it has still to run ends there, or it has it     *)
(* now.                                                                    *)
LEMMA Joins ==
  ASSUME Invariant, NEW r \in Requests, Received(r), NEW e, Continues(e, r),
         seen \in Nat, Len(text[r]) \in Nat
  PROVE  \/ e.start <= Len(text[r])
         \/ \E i \in InQueue(r) : seen < i /\ e.start <= End(Of(i, r))
  <1>1. /\ req[r].status = "running" /\ e.start = req[r].computed /\ Live(r)
        /\ req[r].computed \in Int /\ req[r].tokens \in Nat
        /\ Reaches(r) /\ Behind(r) /\ queue \in Seq(BatchType)
    BY DEF Continues, Live, Invariant, Life, TypeOK, RequestType
  <1>2. CASE Fresh(r) = {}
    <2>1. req[r].computed < req[r].tokens
      BY <1>1, <1>2 DEF Behind
    <2>2. req[r].tokens <= Len(text[r]) + 1
      BY DEF Received
    <2>3. req[r].computed <= Len(text[r])
      BY <1>1, <2>1, <2>2
    <2> QED
      BY <1>1, <2>3
  <1>3. CASE Fresh(r) # {}
    <2>n. PICK n \in Nat : n = Len(queue)
      BY <1>1
    <2>1. Fresh(r) \subseteq InQueue(r) /\ InQueue(r) \subseteq 1 .. n
      BY <1>1, <2>n, QueueIs DEF Fresh, InQueue
    <2>2. PICK i \in Fresh(r) : \A k \in Fresh(r) : k <= i
      BY <1>3, <2>1, Topmost
    <2>3. e.start = End(Of(i, r)) /\ i \in InQueue(r) /\ i \in Nat
      BY <1>1, <2>1, <2>2 DEF Reaches
    <2>4. End(Of(i, r)) \in Int
      BY <1>1, <2>3
    <2>5. CASE i <= seen
      <3>1. End(Of(i, r)) <= Len(text[r])
        BY <2>3, <2>5 DEF Received
      <3> QED
        BY <2>3, <3>1
    <2>6. CASE seen < i
      BY <2>3, <2>4, <2>6
    <2> QED
      BY <2>3, <2>5, <2>6
  <1> QED
    BY <1>2, <1>3

(* The step's batch is queued.                                             *)
LEMMA CloseStage ==
  ASSUME Invariant, StageInvariant, UNCHANGED stage, Close
  PROVE  StageInvariant'
  <1>E. PICK E : E = step.entries
    OBVIOUS
  <1>b. PICK b : b = [entries |-> E, ran |-> FALSE, out |-> <<>>]
    OBVIOUS
  <1>1. /\ pc = "close" /\ ~InSchedule' /\ InSchedule
        /\ req' = [r \in Requests |->
                 IF r \in DOMAIN E
                 THEN [req[r] EXCEPT !.computed = @ + E[r].n, !.inflight = @ + E[r].n,
                                     !.chunk = req[r].computed + E[r].n < req[r].tokens]
                 ELSE req[r]]
        /\ queue' = Append(queue, b)
        /\ UNCHANGED <<text, row, seen>>
    <2>1. pc' = IF Len(queue') < QueueSize /\ (E # <<>> \/ Unfinished > 0) THEN "input" ELSE "wait"
      BY Zenon, <1>E DEF Close
    <2>2. pc' \in {"input", "wait"}
      BY <2>1, Zenon
    <2> QED
      BY Zenon, <1>E, <1>b, <2>2 DEF Close, InSchedule, stage
  <1>2. /\ E \in PlanType /\ DOMAIN E \subseteq Requests /\ \A r \in DOMAIN E : E[r] \in EntryType
        /\ queue \in Seq(BatchType)
    BY Zenon, <1>1, <1>E, PlanRequests DEF Invariant, TypeOK
  <1>L. PICK L \in Nat : L = Len(queue)
    BY <1>2
  <1>3. /\ Len(queue') = L + 1 /\ DOMAIN queue = 1 .. L /\ DOMAIN queue' = 1 .. L + 1
        /\ queue'[L + 1] = b /\ b.entries = E /\ ~b.ran
        /\ \A i \in DOMAIN queue : queue'[i] = queue[i]
    <2>1. b.entries = E /\ ~b.ran /\ b \in BatchType
      <3>1. <<>> \in OutType
        <4>1. DOMAIN <<>> = {} /\ <<>> \in [DOMAIN <<>> -> [follows : Nat, count : Nat]]
          OBVIOUS
        <4> QED
          BY <4>1 DEF OutType
      <3> QED
        BY <1>2, <1>b, <3>1 DEF BatchType
    <2>2. queue' = Append(queue, b) /\ queue \in Seq(BatchType) /\ b \in BatchType /\ L = Len(queue)
      BY Zenon, <1>1, <1>2, <1>L, <2>1
    <2>3. /\ Len(queue') = L + 1 /\ DOMAIN queue = 1 .. L /\ DOMAIN queue' = 1 .. L + 1
          /\ queue'[L + 1] = b /\ \A i \in DOMAIN queue : queue'[i] = queue[i]
      BY <2>2
    <2> QED
      BY <2>1, <2>3
  <1>4. seen \in 0 .. L /\ Ahead'
    <2>1. seen \in 0 .. L /\ \A i \in DOMAIN queue : Ran(i) => i <= seen
      BY <1>L DEF StageInvariant, Ahead
    <2>2. seen \in 0 .. L + 1
      BY <2>1
    <2>3. ASSUME NEW i \in DOMAIN queue', Ran(i)' PROVE i <= seen
      <3>1. CASE i = L + 1
        BY <1>3, <2>3, <3>1 DEF Ran
      <3>2. CASE i # L + 1
        <4>1. i \in DOMAIN queue
          BY <1>3, <3>2
        <4> QED
          BY <1>3, <2>1, <2>3, <4>1 DEF Ran
      <3> QED
        BY <3>1, <3>2
    <2> QED
      BY Zenon, <1>1, <1>3, <2>1, <2>2, <2>3 DEF Ahead
  <1>5. Rows'
    BY Zenon, <1>1 DEF StageInvariant, Rows
  <1>6. \A r \in Requests : ~Entering(r)'
    BY Zenon, <1>1 DEF Entering
  <1>7. ASSUME NEW r \in Requests, r \notin DOMAIN E PROVE Fed(r)'
    <2>1. InQueue(r)' = InQueue(r)
      <3>1. \A i : i \in InQueue(r)' <=> i \in InQueue(r)
        BY <1>3, <1>7 DEF InQueue
      <3> QED
        BY <3>1
    <2>2. Unmoved(r)
      BY <1>3, <2>1 DEF Unmoved, SameChunk, InQueue
    <2>3. req'[r] = req[r]
      BY Zenon, <1>1, <1>7
    <2>4. Steadfast(r)
      BY <1>6, <2>3 DEF StageInvariant, Fed, Forward, Steadfast
    <2> QED
      BY Zenon, <1>1, <2>2, <2>4, FedKept DEF StageInvariant
  <1>8. ASSUME NEW r \in Requests, r \in DOMAIN E PROVE Fed(r)'
    <2>e. PICK e \in EntryType : e = E[r]
      BY <1>2, <1>8
    <2>l. PICK l \in Nat : l = Len(text[r])
      BY DEF StageInvariant, Rows
    <2>1. Continues(e, r)
      BY Zenon, <1>1, <1>E, <1>8, <2>e DEF Invariant, Planned
    <2>2. Copied(r) /\ Forward(r) /\ Received(r) /\ Adjoins(r) /\ Untold(r)
      BY DEF StageInvariant, Fed
    <2>3. /\ req'[r].tokens = req[r].tokens /\ req'[r].status = req[r].status
          /\ req'[r].computed = req[r].computed + e.n
      <3>q. PICK q \in RequestType : q = req[r]
        BY DEF Invariant, TypeOK
      <3>p. PICK p : p = req'[r]
        OBVIOUS
      <3>1. p = [q EXCEPT !.computed = @ + e.n, !.inflight = @ + e.n,
                          !.chunk = q.computed + e.n < q.tokens]
        BY Zenon, <1>1, <1>8, <2>e, <3>p, <3>q
      <3>2. p.tokens = q.tokens /\ p.status = q.status /\ p.computed = q.computed + e.n
        BY <3>1 DEF RequestType
      <3> QED
        BY <3>2, <3>p, <3>q
    <2>4. /\ req[r].computed \in Int /\ e.n \in Int /\ e.n > 0 /\ e.start = req[r].computed
          /\ req[r].status = "running"
      BY <2>1 DEF Continues, Sane, Invariant, TypeOK, RequestType, EntryType
    <2>5. \A i : i \in InQueue(r)' <=> i = L + 1 \/ i \in InQueue(r)
      BY <1>3, <1>8 DEF InQueue
    <2>6. /\ Of(L + 1, r)' = e
          /\ \A i \in InQueue(r) : Of(i, r)' = Of(i, r) /\ i \in 1 .. L
      <3>1. queue'[L + 1].entries[r] = e
        BY <1>3, <2>e
      <3>2. \A i \in InQueue(r) : queue'[i] = queue[i] /\ i \in 1 .. L
        BY <1>3 DEF InQueue
      <3> QED
        BY <3>1, <3>2 DEF Of
    <2>7. seen \in Nat /\ L + 1 > seen /\ seen' = seen /\ text' = text
      <3>1. seen \in Nat /\ L + 1 > seen
        BY <1>4
      <3> QED
        BY Zenon, <1>1, <3>1
    <2>8. Copied(r)'
      BY <2>2, <2>7 DEF Copied
    <2>9. Forward(r)'
      <3>1. req[r].computed >= 0 /\ \A i \in InQueue(r) : Of(i, r).start >= 0
        BY <2>2 DEF Forward
      <3>2. req'[r].computed >= 0
        BY <2>3, <2>4, <3>1
      <3>3. \A i \in InQueue(r)' : Of(i, r)'.start >= 0
        BY <2>4, <2>5, <2>6, <3>1
      <3> QED
        BY <3>2, <3>3 DEF Forward
    <2>10. Received(r)'
      <3>1. \A i \in InQueue(r) : End(Of(i, r))' = End(Of(i, r))
        BY <2>6 DEF End
      <3>2. \A i \in InQueue(r)' : i <= seen => i \in InQueue(r)
        BY <2>5, <2>7
      <3> QED
        BY <2>2, <2>3, <2>7, <3>1, <3>2 DEF Received
    <2>11. Adjoins(r)'
      <3> SUFFICES ASSUME NEW j \in InQueue(r)', j > seen
                   PROVE  \/ Of(j, r)'.start <= Len(text[r])
                          \/ \E i \in InQueue(r)' : seen < i /\ i < j /\ Of(j, r)'.start <= End(Of(i, r))'
        BY <2>7 DEF Adjoins
      <3>1. \A i \in InQueue(r) : End(Of(i, r))' = End(Of(i, r)) /\ i \in InQueue(r)' /\ i \in 1 .. L
        BY <2>5, <2>6 DEF End
      <3>2. CASE j = L + 1
        <4>1. \/ e.start <= Len(text[r])
              \/ \E i \in InQueue(r) : seen < i /\ e.start <= End(Of(i, r))
          BY <2>1, <2>2, <2>7, <2>l, Joins
        <4>2. \A i \in InQueue(r) : i < j
          BY <3>1, <3>2
        <4> QED
          BY <2>6, <3>1, <3>2, <4>1, <4>2
      <3>3. CASE j \in InQueue(r)
        <4>1. \/ Of(j, r).start <= Len(text[r])
              \/ \E i \in InQueue(r) : seen < i /\ i < j /\ Of(j, r).start <= End(Of(i, r))
          BY <2>2, <3>3 DEF Adjoins
        <4> QED
          BY <2>6, <3>1, <3>3, <4>1
      <3> QED
        BY <2>5, <3>2, <3>3
    <2>12. Untold(r)'
      <3> SUFFICES ASSUME \E j \in InQueue(r)' : seen < j /\ Of(j, r)'.kind = "new"
                   PROVE  Len(text[r]) = Prompt[r]
        BY <1>6, <2>3, <2>4, <2>7 DEF Untold
      <3>1. PICK j \in InQueue(r)' : seen < j /\ Of(j, r)'.kind = "new"
        OBVIOUS
      <3>2. CASE j = L + 1
        <4>1. e.kind = "new" /\ Entering(r) /\ step.entries[r] = e
          BY Zenon, <1>1, <1>E, <1>8, <2>e, <2>6, <3>1, <3>2 DEF Entering
        <4> QED
          BY <2>2, <4>1 DEF Untold
      <3>3. CASE j \in InQueue(r)
        BY <2>2, <2>6, <3>1, <3>3 DEF Untold
      <3> QED
        BY <2>5, <3>2, <3>3
    <2> QED
      BY <2>8, <2>9, <2>10, <2>11, <2>12 DEF Fed
  <1> QED
    BY <1>4, <1>5, <1>7, <1>8 DEF StageInvariant

(* What the oldest batch delivers of a request is one token at most, that  *)
(* follows the positions the first stage has.                              *)
LEMMA OneToken ==
  ASSUME NumSpec = 0, queue \in Seq(BatchType), queue # <<>>, Ran(1), Outs,
         NEW r \in Requests, Life(r), Live(r), 1 \in InQueue(r),
         limit[r] \in Nat \ {0}, req[r] \in RequestType, NEW l \in Nat, End(Of(1, r)) <= l,
         req[r].tokens <= l + 1,
         NEW p, p = Updated(r, req[r], Of(1, r), Out(1, r))
  PROVE  p.computed = req[r].computed /\ p.tokens <= l + 1
  <1>q. PICK q \in RequestType : q = req[r]
    OBVIOUS
  <1>0. /\ queue[1] \in BatchType /\ r \in DOMAIN queue[1].entries /\ 1 \in DOMAIN queue
        /\ r \in DOMAIN queue[1].out
    BY QueueIs DEF InQueue, Outs, Ran
  <1>e. PICK e \in EntryType : e = Of(1, r)
    BY <1>0, BatchIs DEF Of
  <1>o. PICK o \in OutputType : o = Out(1, r)
    BY <1>0, BatchIs DEF Out, OutputType
  <1>1. /\ q.computed \in Int /\ q.tokens \in Nat /\ o.count \in Nat /\ Prompt[r] + limit[r] \in Int
        /\ e.start \in Int /\ e.n \in Int /\ e.total \in Nat /\ e.spec = 0
    <2>1. q.computed \in Int /\ q.tokens \in Nat
      BY DEF RequestType
    <2>2. o.count \in Nat
      BY DEF OutputType
    <2>3. e.start \in Int /\ e.n \in Int /\ e.total \in Nat /\ e.spec \in 0 .. NumSpec
      BY DEF EntryType
    <2>4. e.spec = 0
      BY <2>3
    <2>5. Prompt[r] + limit[r] \in Int
      BY Constants
    <2> QED
      BY <2>1, <2>2, <2>3, <2>4, <2>5
  <1>2. /\ Dropped(q) => p.tokens = q.tokens /\ p.computed = q.computed
        /\ ~Dropped(q) =>
              /\ p.computed = q.computed - Rejected(q, e, o)
              /\ p.tokens = Smaller(q.tokens + o.count, Prompt[r] + limit[r])
    BY <1>q, <1>e, <1>o, UpdatedIs
  <1>3. Rejected(q, e, o) = 0
    BY <1>1 DEF Rejected
  <1>4. CASE Dropped(q)
    BY <1>q, <1>2, <1>4
  <1>5. CASE ~Dropped(q)
    <2>1. p.tokens <= q.tokens + o.count /\ p.tokens \in Int
      BY <1>1, <1>2, <1>5 DEF Smaller
    <2>2. p.computed = q.computed
      BY <1>1, <1>2, <1>3, <1>5
    <2>3. CASE o.count = 0
      <3>1. q.tokens + o.count = q.tokens /\ q.tokens <= l + 1
        BY <1>1, <1>q, <2>3
      <3>2. p.tokens <= l + 1
        BY <1>1, <2>1, <3>1
      <3> QED
        BY <1>q, <2>2, <3>2
    <2>4. CASE o.count # 0
      <3>1. q.stale > 0 <=> Stale(r) # {}
        BY <1>q, CountsAre DEF Life
      <3>2. 1 \in Valid(r)
        <4> SUFFICES ASSUME q.drop PROVE ~Of(1, r).old
          BY <1>q DEF Valid
        <4>1. Stale(r) = {}
          BY <1>5, <3>1 DEF Dropped
        <4> QED
          BY <4>1 DEF Stale
      <3>3. /\ o.count > 0 <=> Samples(e)
            /\ Samples(e) => o.count <= 1 + e.spec
            /\ e.total = q.tokens
        BY <1>q, <1>e, <1>o, <3>2 DEF Life, Delivery, Totals
      <3>4. Samples(e) /\ o.count <= 1
        BY <1>1, <2>4, <3>3
      <3>5. e.start + e.n <= l /\ e.start + e.n >= q.tokens
        BY <1>e, <3>3, <3>4 DEF Samples, End
      <3>6. q.tokens <= l
        BY <1>1, <3>5
      <3>7. q.tokens + o.count <= l + 1
        BY <1>1, <3>4, <3>6
      <3>8. p.tokens <= l + 1
        BY <1>1, <2>1, <3>7
      <3> QED
        BY <1>q, <2>2, <3>8
    <2> QED
      BY <2>3, <2>4
  <1> QED
    BY <1>4, <1>5

(* update_from_output: the queue moves up.                                 *)
LEMMA UpdateStage ==
  ASSUME NumSpec = 0, Invariant, Waits, StageInvariant, NEW A, StageUpdate(A)
  PROVE  StageInvariant'
  <1>F. PICK F : F = [x \in Requests |->
                       IF Live(x) /\ x \notin A /\ x \in DOMAIN Head(queue).entries
                       THEN Updated(x, req[x], Head(queue).entries[x], Head(queue).out[x])
                       ELSE req[x]]
    OBVIOUS
  <1>D. PICK D : D = A \cup {x \in Requests : Live(x) /\ F[x].status = "finished"}
    BY Zenon
  <1>1. /\ Update(A) /\ pc' = "input" /\ queue # <<>> /\ queue' = Tail(queue) /\ Head(queue).ran
        /\ seen' = seen - 1 /\ UNCHANGED <<text, row>>
    BY Zenon DEF StageUpdate, Update, Waits
  <1>2. TypeOK /\ Outs /\ queue \in Seq(BatchType)
    BY DEF Invariant, TypeOK
  <1>3. \A r \in Requests : Settled(r, A, D, F[r])
    BY <1>1, <1>2, <1>F, <1>D, UpdateOf
  <1>L. PICK L \in Nat \ {0} : L = Len(queue)
    BY <1>1, <1>2
  <1>4. /\ Len(queue') = L - 1 /\ 1 \in DOMAIN queue /\ Ran(1)
        /\ DOMAIN queue' = 1 .. L - 1
        /\ \A i \in DOMAIN queue' : i \in Nat \ {0} /\ i + 1 \in DOMAIN queue /\ queue'[i] = queue[i + 1]
    BY <1>1, <1>2, <1>L, ShiftIs, QueueIs DEF Ran
  <1>5. seen \in 1 .. L /\ \A i \in DOMAIN queue : Ran(i) => i <= seen
    <2>1. seen \in 0 .. L /\ \A i \in DOMAIN queue : Ran(i) => i <= seen
      BY <1>L DEF StageInvariant, Ahead
    <2>2. 1 <= seen
      BY <1>4, <2>1
    <2> QED
      BY <2>1, <2>2
  <1>s. PICK s \in Nat : s = seen - 1
    BY <1>5
  <1>6. seen' = s /\ seen = s + 1 /\ s \in 0 .. L - 1
    BY <1>1, <1>5, <1>s
  <1>7. Ahead'
    <2>1. ASSUME NEW i \in DOMAIN queue', Ran(i)' PROVE i <= s
      <3>1. Ran(i + 1) /\ i \in Nat /\ i + 1 \in DOMAIN queue
        BY <1>4, <2>1 DEF Ran
      <3>2. i + 1 <= s + 1
        BY <1>5, <1>6, <3>1
      <3> QED
        BY <3>1, <3>2
    <2> QED
      BY <1>4, <1>6, <2>1 DEF Ahead
  <1>8. Rows'
    BY <1>1 DEF StageInvariant, Rows
  <1>9. ASSUME NEW r \in Requests PROVE Fed(r)'
    <2>1. Copied(r) /\ Forward(r) /\ Received(r) /\ Adjoins(r) /\ Untold(r)
      BY DEF StageInvariant, Fed
    <2>2. /\ \A i \in InQueue(r) : i \in Nat \ {0} /\ (i # 1 => i - 1 \in InQueue(r)')
          /\ \A i \in InQueue(r)' :
                /\ i \in Nat \ {0} /\ i + 1 \in InQueue(r)
                /\ Of(i, r)' = Of(i + 1, r)
      BY <1>1, <1>2, ShiftIs
    <2>3. \A i \in InQueue(r)' : End(Of(i, r))' = End(Of(i + 1, r))
      BY <2>2 DEF End
    <2>l. PICK l \in Nat : l = Len(text[r])
      BY DEF StageInvariant, Rows
    <2>4. /\ req'[r].computed = req[r].computed
          /\ req'[r].tokens <= l + 1
          /\ req'[r].status = req[r].status \/ req'[r].status = "finished"
      <3>1. Settled(r, A, D, F[r])
        BY <1>3
      <3>2. Life(r) /\ limit[r] \in Nat \ {0} /\ req[r] \in RequestType
        BY <1>2 DEF Invariant, TypeOK
      <3>3. req[r].tokens <= l + 1
        BY <2>1, <2>l DEF Received
      <3>p. PICK p : p = F[r]
        OBVIOUS
      <3>4. /\ req'[r].computed = p.computed /\ req'[r].tokens = p.tokens
            /\ req'[r].status = req[r].status \/ req'[r].status = "finished"
        BY <3>1, <3>p DEF Settled, Alike
      <3>5. CASE Live(r) /\ 1 \in InQueue(r) /\ r \notin A
        <4>1. p = Updated(r, req[r], Of(1, r), Out(1, r))
          BY <3>1, <3>5, <3>p DEF Settled
        <4>2. End(Of(1, r)) <= l
          BY <1>5, <2>1, <2>l, <3>5 DEF Received
        <4>3. p.computed = req[r].computed /\ p.tokens <= l + 1
          BY <1>1, <1>2, <1>4, <3>2, <3>3, <3>5, <4>1, <4>2, OneToken
        <4> QED
          BY <3>4, <4>3
      <3>6. CASE ~(Live(r) /\ 1 \in InQueue(r) /\ r \notin A)
        <4>1. p = req[r]
          BY <3>1, <3>6, <3>p DEF Settled
        <4> QED
          BY <3>3, <3>4, <4>1
      <3> QED
        BY <3>5, <3>6
    <2>5. Copied(r)'
      BY <1>1, <2>1 DEF Copied
    <2>6. Forward(r)'
      BY <2>1, <2>2, <2>4 DEF Forward
    <2>7. Received(r)'
      <3>1. ASSUME NEW i \in InQueue(r)', i <= s PROVE End(Of(i, r))' <= Len(text[r])
        <4>1. i + 1 <= s + 1 /\ i + 1 \in InQueue(r)
          BY <2>2, <3>1
        <4>2. End(Of(i + 1, r)) <= Len(text[r])
          BY <1>6, <2>1, <4>1 DEF Received
        <4> QED
          BY <2>3, <4>2
      <3> QED
        BY <1>1, <1>6, <2>4, <2>l, <3>1 DEF Received
    <2>8. Adjoins(r)'
      <3> SUFFICES ASSUME NEW j \in InQueue(r)', j > s
                   PROVE  \/ Of(j, r)'.start <= Len(text[r])
                          \/ \E i \in InQueue(r)' : s < i /\ i < j /\ Of(j, r)'.start <= End(Of(i, r))'
        BY <1>1, <1>6 DEF Adjoins
      <3>1. j + 1 \in InQueue(r) /\ j + 1 > s + 1 /\ Of(j, r)' = Of(j + 1, r) /\ j \in Nat
        BY <2>2
      <3>2. CASE Of(j + 1, r).start <= Len(text[r])
        BY <3>1, <3>2
      <3>3. CASE \E i \in InQueue(r) : s + 1 < i /\ i < j + 1 /\ Of(j + 1, r).start <= End(Of(i, r))
        <4>1. PICK i \in InQueue(r) : s + 1 < i /\ i < j + 1 /\ Of(j + 1, r).start <= End(Of(i, r))
          BY <3>3
        <4>2. i \in Nat \ {0} /\ i # 1
          BY <2>2, <4>1
        <4>k. PICK k \in Nat : k = i - 1
          BY <4>2
        <4>3. k \in InQueue(r)' /\ k + 1 = i /\ s < k /\ k < j
          BY <2>2, <3>1, <4>1, <4>2, <4>k
        <4>4. End(Of(k, r))' = End(Of(i, r))
          BY <2>3, <4>3
        <4> QED
          BY <3>1, <4>1, <4>3, <4>4
      <3> QED
        BY <1>6, <2>1, <3>1, <3>2, <3>3 DEF Adjoins
    <2>9. Untold(r)'
      <3>1. ~Entering(r)'
        BY <1>1 DEF Entering, InSchedule
      <3>2. ASSUME NEW j \in InQueue(r)', s < j, Of(j, r)'.kind = "new" PROVE Len(text[r]) = Prompt[r]
        <4>1. j + 1 \in InQueue(r) /\ s + 1 < j + 1 /\ Of(j + 1, r).kind = "new"
          BY <2>2, <3>2
        <4> QED
          BY <1>6, <2>1, <4>1 DEF Untold
      <3> QED
        BY <1>1, <1>6, <2>1, <2>4, <3>1, <3>2 DEF Untold
    <2> QED
      BY <2>5, <2>6, <2>7, <2>8, <2>9 DEF Fed
  <1> QED
    BY <1>7, <1>8, <1>9 DEF StageInvariant

(* The chunk the first stage runs next adjoins its copy of the text, and   *)
(* is of the kind new only if the copy is the prompt.                      *)
Starts(e, r) ==
  /\ e \in EntryType /\ Sane(e, r) /\ Adjacent(e, Len(text[r])) /\ Prefix(text[r], Len(text[r]))
  /\ e.kind = "new" => Len(text[r]) = Prompt[r]
  /\ r \in DOMAIN row => row[r] = text[r]

LEMMA NextStarts ==
  ASSUME Invariant, StageInvariant, NEW j \in DOMAIN queue, seen \in Nat, j = seen + 1,
         NEW r \in DOMAIN queue[j].entries
  PROVE  r \in Requests /\ j \in InQueue(r) /\ Starts(Of(j, r), r)
  <1>e. PICK e \in EntryType : e = Of(j, r) /\ r \in Requests
    BY EntryIs DEF Invariant
  <1>1. j \in InQueue(r) /\ Sane(e, r)
    BY <1>e DEF InQueue, Invariant, Life, SaneEntries
  <1>2. Copied(r) /\ Forward(r) /\ Adjoins(r) /\ Untold(r) /\ text[r] \in Seq(Nat)
    BY <1>e DEF StageInvariant, Fed, Rows
  <1>3. Adjacent(e, Len(text[r]))
    <2>1. e.start >= 0
      BY <1>1, <1>2, <1>e DEF Forward
    <2>2. j > seen /\ \A i \in InQueue(r) : ~(seen < i /\ i < j)
      <3>1. InQueue(r) \subseteq Int
        BY QueueIs DEF InQueue, Invariant, TypeOK
      <3> QED
        BY <3>1
    <2>3. e.start <= Len(text[r])
      BY <1>1, <1>2, <1>e, <2>2 DEF Adjoins
    <2> QED
      BY <2>1, <2>3 DEF Adjacent
  <1>4. Prefix(text[r], Len(text[r]))
    BY <1>2 DEF Copied, Prefix
  <1>5. e.kind = "new" => Len(text[r]) = Prompt[r]
    BY <1>1, <1>2, <1>e DEF Untold
  <1>6. r \in DOMAIN row => row[r] = text[r]
    BY DEF StageInvariant, Rows
  <1> QED
    BY <1>1, <1>3, <1>4, <1>5, <1>6, <1>e DEF Starts

(* What it has after it.                                                   *)
Reaching(t, e, r, l, m) ==
  /\ m \in Nat /\ Prefix(t, m) /\ l <= m /\ End(e) <= m
  /\ e.kind = "new" => m = Prompt[r]

LEMMA StartsReach ==
  ASSUME NumSpec = 0, NEW r \in Requests, NEW e, Starts(e, r), NEW l \in Nat, l = Len(text[r])
  PROVE  /\ RowAfter(e, r) = TextAfter(e, r)
         /\ \E m \in Nat : Reaching(TextAfter(e, r), e, r, l, m)
  <1>1. /\ e \in EntryType /\ Sane(e, r) /\ Adjacent(e, l) /\ Prefix(text[r], l)
        /\ e.kind = "new" => l = Prompt[r]
        /\ r \in DOMAIN row => row[r] = text[r]
    BY DEF Starts
  <1>2. /\ RowAfter(e, r) = TextAfter(e, r)
        /\ \E m \in Nat : /\ Prefix(TextAfter(e, r), m) /\ m = (IF End(e) > l THEN End(e) ELSE l)
                          /\ End(e) \in Nat
                          /\ e.kind = "new" => m = Prompt[r]
    BY <1>1, TextAfterIs
  <1>3. PICK m \in Nat : /\ Prefix(TextAfter(e, r), m) /\ m = (IF End(e) > l THEN End(e) ELSE l)
                         /\ End(e) \in Nat
                         /\ e.kind = "new" => m = Prompt[r]
    BY <1>2
  <1>c. PICK c \in Nat : c = End(e)
    BY <1>3
  <1>4. l <= m /\ c <= m
    BY <1>3, <1>c
  <1> QED
    BY <1>2, <1>3, <1>4, <1>c DEF Reaching

(* execute_model on the first stage.                                       *)
LEMMA FirstRunStage ==
  ASSUME NumSpec = 0, Invariant, StageInvariant, FirstRun
  PROVE  StageInvariant'
  <1>j. PICK j : j = seen + 1
    OBVIOUS
  <1>E. PICK E : E = queue[j].entries
    OBVIOUS
  <1>1. /\ seen < Len(queue) /\ seen' = j /\ UNCHANGED <<queue, req>> /\ ~InSchedule'
        /\ text' = [r \in Requests |-> IF r \in DOMAIN E THEN TextAfter(E[r], r) ELSE text[r]]
        /\ row' = [r \in DOMAIN E |-> RowAfter(E[r], r)]
    BY <1>j, <1>E DEF FirstRun, vars, engine, InSchedule
  <1>2. queue \in Seq(BatchType) /\ Len(queue) \in Nat /\ DOMAIN queue = 1 .. Len(queue)
    BY QueueIs DEF Invariant, TypeOK
  <1>L. PICK L \in Nat : L = Len(queue)
    BY Zenon, <1>2
  <1>3. seen \in Nat /\ j \in DOMAIN queue /\ j \in Nat /\ j \in 0 .. L
        /\ \A i \in DOMAIN queue : Ran(i) => i <= seen
    <2>1. seen \in 0 .. L /\ seen < L /\ \A i \in DOMAIN queue : Ran(i) => i <= seen
      BY <1>1, <1>L DEF StageInvariant, Ahead
    <2>2. seen \in Nat /\ j \in 1 .. L
      BY <1>j, <2>1
    <2> QED
      BY <1>2, <1>L, <2>1, <2>2
  <1>4. ASSUME NEW r \in DOMAIN E
        PROVE  r \in Requests /\ j \in InQueue(r) /\ E[r] = Of(j, r) /\ Starts(E[r], r)
    BY <1>3, <1>E, <1>j, NextStarts DEF Of
  <1>5. text \in [Requests -> Seq(Nat)]
    BY DEF StageInvariant, Rows
  <1>6. ASSUME NEW r \in DOMAIN E, NEW l \in Nat, l = Len(text[r])
        PROVE  /\ RowAfter(E[r], r) = TextAfter(E[r], r)
               /\ \E m \in Nat : Reaching(TextAfter(E[r], r), E[r], r, l, m)
    BY <1>4, <1>6, StartsReach
  <1>7. Ahead'
    <2>1. ASSUME NEW i \in DOMAIN queue, Ran(i) PROVE i <= j
      <3>1. i <= seen /\ i \in Nat
        BY <1>2, <1>3, <2>1
      <3> QED
        BY <1>3, <1>j, <3>1
    <2> QED
      BY <1>1, <1>3, <1>L, <2>1 DEF Ahead, Ran
  <1>8. Rows'
    <2>1. ASSUME NEW r \in Requests PROVE text'[r] \in Seq(Nat)
      <3>1. CASE r \in DOMAIN E
        <4>1. PICK l \in Nat : l = Len(text[r])
          BY <1>5
        <4>2. PICK m \in Nat : Reaching(TextAfter(E[r], r), E[r], r, l, m)
          BY <1>6, <3>1, <4>1
        <4> QED
          BY <1>1, <3>1, <4>2 DEF Reaching, Prefix
      <3>2. CASE r \notin DOMAIN E
        BY <1>1, <1>5, <3>2
      <3> QED
        BY <3>1, <3>2
    <2>2. DOMAIN row' \subseteq Requests /\ DOMAIN row' = DOMAIN E
      BY <1>1, <1>4
    <2>3. ASSUME NEW r \in DOMAIN E PROVE RowAfter(E[r], r) = text'[r]
      <3>1. PICK l \in Nat : l = Len(text[r])
        BY <1>4, <1>5
      <3>2. RowAfter(E[r], r) = TextAfter(E[r], r)
        BY <1>6, <3>1
      <3> QED
        BY <1>1, <1>4, <3>2
    <2>4. row' = [r \in DOMAIN row' |-> text'[r]]
      BY <1>1, <2>2, <2>3
    <2>5. text' \in [Requests -> Seq(Nat)]
      BY <1>1, <2>1
    <2> QED
      BY <2>2, <2>4, <2>5 DEF Rows
  <1>9. ASSUME NEW r \in Requests PROVE Fed(r)'
    <2>1. Copied(r) /\ Forward(r) /\ Received(r) /\ Adjoins(r) /\ Untold(r)
      BY DEF StageInvariant, Fed
    <2>2. InQueue(r)' = InQueue(r) /\ InQueue(r) \subseteq Nat /\ req'[r] = req[r]
      BY <1>1, <1>2 DEF InQueue
    <2>3. \A i : Of(i, r)' = Of(i, r) /\ End(Of(i, r))' = End(Of(i, r))
      BY <1>1 DEF Of, End
    <2>l. PICK l \in Nat : l = Len(text[r])
      BY <1>5
    <2>4. \E m \in Nat :
             /\ Prefix(text'[r], m) /\ l <= m
             /\ r \in DOMAIN E => Reaching(text'[r], Of(j, r), r, l, m)
             /\ r \notin DOMAIN E => m = l
      <3>1. CASE r \in DOMAIN E
        <4>1. PICK m \in Nat : Reaching(TextAfter(E[r], r), E[r], r, l, m)
          BY <1>6, <2>l, <3>1
        <4>2. text'[r] = TextAfter(E[r], r) /\ E[r] = Of(j, r)
          BY <1>1, <1>4, <3>1
        <4>3. Reaching(text'[r], Of(j, r), r, l, m)
          BY <4>1, <4>2
        <4> QED
          BY <3>1, <4>3 DEF Reaching
      <3>2. CASE r \notin DOMAIN E
        <4>1. text'[r] = text[r]
          BY <1>1, <3>2
        <4>2. Prefix(text[r], l)
          BY <1>5, <2>1, <2>l DEF Copied, Prefix
        <4> QED
          BY <3>2, <4>1, <4>2
      <3> QED
        BY <3>1, <3>2
    <2>m. PICK m \in Nat :
             /\ Prefix(text'[r], m) /\ l <= m
             /\ r \in DOMAIN E => Reaching(text'[r], Of(j, r), r, l, m)
             /\ r \notin DOMAIN E => m = l
      BY <2>4
    <2>5. Len(text'[r]) = m
      BY <2>m DEF Prefix
    <2>6. j \in InQueue(r) => r \in DOMAIN E
      BY <1>E DEF InQueue
    <2>7. j \in InQueue(r) => End(Of(j, r)) <= m
      BY <2>6, <2>m DEF Reaching
    <2>8. Copied(r)'
      <3>1. Prompt[r] \in Nat /\ Prompt[r] <= l
        BY <2>1, <2>l, Constants DEF Copied
      <3>2. m >= Prompt[r]
        BY <2>m, <3>1
      <3> QED
        BY <2>5, <2>m, <3>2 DEF Copied, Prefix
    <2>9. Forward(r)'
      BY <2>1, <2>2, <2>3 DEF Forward
    <2>10. Received(r)'
      <3>1. req[r].tokens <= m + 1
        <4>1. req[r].tokens <= l + 1 /\ req[r].tokens \in Nat
          BY <2>1, <2>l DEF Received, Invariant, TypeOK, RequestType
        <4> QED
          BY <2>m, <4>1
      <3>2. ASSUME NEW i \in InQueue(r), i <= j PROVE End(Of(i, r)) <= m
        <4>1. CASE i = j
          BY <2>7, <4>1
        <4>2. CASE i # j
          <5>1. i <= seen
            BY <1>3, <1>j, <2>2, <3>2, <4>2
          <5>2. End(Of(i, r)) <= l /\ End(Of(i, r)) \in Int
            <6>1. Of(i, r) \in EntryType
              BY EntryIs DEF InQueue, Invariant
            <6> QED
              BY <2>1, <2>l, <5>1, <6>1 DEF Received, End, EntryType
          <5> QED
            BY <2>m, <5>2
        <4> QED
          BY <4>1, <4>2
      <3> QED
        BY <1>1, <2>2, <2>3, <2>5, <3>1, <3>2 DEF Received
    <2>11. Adjoins(r)'
      <3> SUFFICES ASSUME NEW k \in InQueue(r), k > j
                   PROVE  \/ Of(k, r).start <= m
                          \/ \E i \in InQueue(r) : j < i /\ i < k /\ Of(k, r).start <= End(Of(i, r))
        BY <1>1, <2>2, <2>3, <2>5 DEF Adjoins
      <3>1. k > seen /\ Of(k, r).start \in Int /\ \A i \in InQueue(r) : seen < i => i = j \/ j < i
        <4>1. Of(k, r).start \in Int
          <5>1. Of(k, r) \in EntryType
            BY EntryIs DEF InQueue, Invariant
          <5> QED
            BY <5>1 DEF EntryType
        <4> QED
          BY <1>3, <1>j, <2>2, <4>1
      <3>2. CASE Of(k, r).start <= l
        BY <2>m, <3>1, <3>2
      <3>3. CASE \E i \in InQueue(r) : seen < i /\ i < k /\ Of(k, r).start <= End(Of(i, r))
        <4>1. PICK i \in InQueue(r) : seen < i /\ i < k /\ Of(k, r).start <= End(Of(i, r))
          BY <3>3
        <4>2. CASE i = j
          <5>1. End(Of(j, r)) <= m /\ End(Of(j, r)) \in Int
            <6>1. Of(j, r) \in EntryType
              BY <4>2, EntryIs DEF InQueue, Invariant
            <6> QED
              BY <2>7, <4>2, <6>1 DEF End, EntryType
          <5> QED
            BY <2>m, <3>1, <4>1, <4>2, <5>1
        <4>3. CASE i # j
          BY <3>1, <4>1, <4>3
        <4> QED
          BY <4>2, <4>3
      <3> QED
        BY <2>1, <2>l, <3>1, <3>2, <3>3 DEF Adjoins
    <2>12. Untold(r)'
      <3>1. ~Entering(r)'
        BY <1>1 DEF Entering
      <3> SUFFICES ASSUME \/ req[r].status \in {"absent", "waiting"}
                          \/ \E k \in InQueue(r) : j < k /\ Of(k, r).kind = "new"
                   PROVE  m = Prompt[r]
        BY <1>1, <2>2, <2>3, <2>5, <3>1 DEF Untold
      <3>2. CASE j \in InQueue(r)
        <4>1. Unsent(r) /\ NewFirst(r)
          BY DEF Invariant, Life
        <4>2. PICK k \in InQueue(r) : j < k /\ Of(k, r).kind = "new"
          BY <3>2, <4>1 DEF Unsent
        <4>3. k <= j
          BY <3>2, <4>1, <4>2 DEF NewFirst
        <4> QED
          BY <1>3, <2>2, <4>2, <4>3
      <3>3. CASE j \notin InQueue(r)
        <4>1. r \notin DOMAIN E
          BY <1>4, <3>3
        <4>2. \A k : j < k /\ k \in Nat => seen < k
          BY <1>3, <1>j
        <4>3. l = Prompt[r]
          BY <2>1, <2>2, <2>l, <4>2 DEF Untold
        <4> QED
          BY <2>m, <4>1, <4>3
      <3> QED
        BY <3>2, <3>3
    <2> QED
      BY <2>8, <2>9, <2>10, <2>11, <2>12 DEF Fed
  <1> QED
    BY <1>7, <1>8, <1>9 DEF StageInvariant

(* _glm5_pp_receive_spec, and nothing.                                     *)
LEMMA SameStage ==
  ASSUME StageInvariant, UNCHANGED <<pc, req, step, queue, text, row, seen>>
  PROVE  StageInvariant'
  BY SteadyRequests DEF Entering, InSchedule

(* Every step preserves it.                                                *)
LEMMA NextStage ==
  ASSUME NumSpec = 0, Invariant, Waits, StageInvariant, [StageNext]_stageVars
  PROVE  StageInvariant'
  <1>0. [Next]_vars /\ Invariant'
    BY StageMoves, NextInvariant
  <1>1. ASSUME NEW r \in Requests, Add(r), UNCHANGED stage PROVE StageInvariant'
    BY <1>1, AddStage
  <1>2. ASSUME NEW r \in Requests, Abort(r), UNCHANGED stage PROVE StageInvariant'
    BY <1>2, AbortStage
  <1>3. ASSUME Reset, UNCHANGED stage PROVE StageInvariant'
    BY <1>3, ResetStage
  <1>4. ASSUME NEW mode, Pause(mode), UNCHANGED stage PROVE StageInvariant'
    BY <1>4, PauseStage
  <1>5. ASSUME Client, UNCHANGED stage PROVE StageInvariant'
    BY <1>1, <1>2, <1>3, <1>4, <1>5 DEF Client
  <1>6. ASSUME Begin \/ Block \/ Resume, UNCHANGED stage PROVE StageInvariant'
    BY <1>0, <1>6, QuietStage
  <1>7. ASSUME Schedule, UNCHANGED stage PROVE StageInvariant'
    BY <1>0, <1>7, QuietStage, ScheduleRunningStage, PreemptLastStage, AdmitStage, CloseStage
    DEF Schedule
  <1>8. ASSUME NEW A, StageUpdate(A) PROVE StageInvariant'
    BY <1>8, UpdateStage
  <1>9. ASSUME NEW accepted, LastRun(accepted) PROVE StageInvariant'
    BY <1>9, LastRunStage
  <1>10. CASE FirstRun
    BY <1>10, FirstRunStage
  <1>11. CASE Receive
    BY <1>11, SameStage DEF Receive, vars, engine
  <1>12. ASSUME Idle, UNCHANGED stage PROVE StageInvariant'
    BY <1>12, SameStage DEF Idle, vars, engine, stage
  <1>13. CASE UNCHANGED stageVars
    BY <1>13, SameStage DEF stageVars, vars, engine, stage
  <1> QED
    BY <1>5, <1>6, <1>7, <1>8, <1>9, <1>10, <1>11, <1>12, <1>13
    DEF StageNext, StageEngine, First, LastStage

(* The positions of a chunk without drafts are within it.                  *)
LEMMA WithinChunk ==
  ASSUME NEW e, NEW a \in Nat, NEW n \in Int, NEW t \in Int,
         a = e.start, n = e.n, t = e.total, e.spec = 0,
         NEW p \in e.start + 1 .. Smaller(e.start + e.n - e.spec, e.total)
  PROVE  p \in Nat /\ p >= 1 /\ p <= a + n
  <1>1. e.start + e.n - e.spec = a + n
    OBVIOUS
  <1>u. PICK u : u = Smaller(a + n, t)
    OBVIOUS
  <1>2. u \in Int /\ u <= a + n
    BY <1>u DEF Smaller
  <1>3. p \in a + 1 .. u
    BY <1>1, <1>u
  <1> QED
    BY <1>2, <1>3

(* What the first stage runs next it has whole.                            *)
LEMMA InputsNow ==
  ASSUME NumSpec = 0, Invariant, StageInvariant
  PROVE  FirstInputs
  <1> SUFFICES ASSUME seen < Len(queue), NEW j, j = seen + 1, NEW r \in DOMAIN queue[j].entries,
                      NEW e, e = queue[j].entries[r],
                      NEW p \in e.start + 1 .. Smaller(e.start + e.n - e.spec, e.total)
               PROVE  p <= Len(RowAfter(e, r)) /\ RowAfter(e, r)[p] = p
    BY DEF FirstInputs
  <1>1. seen \in Nat /\ j \in DOMAIN queue
    <2>L. PICK L \in Nat : L = Len(queue) /\ DOMAIN queue = 1 .. L
      BY QueueIs DEF Invariant, TypeOK
    <2>1. seen \in 0 .. L
      BY <2>L DEF StageInvariant, Ahead
    <2> QED
      BY <2>L, <2>1
  <1>2. r \in Requests /\ Starts(e, r)
    BY <1>1, NextStarts DEF Of
  <1>l. PICK l \in Nat : l = Len(text[r])
    BY <1>2 DEF StageInvariant, Rows
  <1>m. PICK m \in Nat : Reaching(RowAfter(e, r), e, r, l, m)
    BY <1>2, <1>l, StartsReach
  <1>3. /\ Prefix(RowAfter(e, r), m) /\ End(e) <= m
        /\ e.start \in Int /\ e.n \in Int /\ e.spec \in Int /\ e.total \in Int /\ e.start >= 0
        /\ e.spec = 0
    BY <1>2, <1>m DEF Reaching, Starts, Adjacent, EntryType
  <1>a. PICK a \in Nat : a = e.start
    BY <1>3
  <1>n. PICK n \in Int : n = e.n
    BY <1>3
  <1>t. PICK t \in Int : t = e.total
    BY <1>3
  <1>4. p \in Nat /\ p >= 1 /\ p <= a + n
    <2>1. e.spec = 0
      BY <1>3
    <2> QED
      BY <2>1, <1>a, <1>n, <1>t, WithinChunk
  <1>5. p \in 1 .. m
    <2>1. a + n <= m
      BY <1>3, <1>a, <1>n DEF End
    <2> QED
      BY <1>4, <2>1
  <1> QED
    BY <1>3, <1>5 DEF Prefix

(* Without drafts, the first pipeline stage computes from the request's    *)
(* own text: what the scheduler sends it with each chunk is enough to keep *)
(* its copy, whatever is preempted, reset, resumed or aborted meanwhile.   *)
THEOREM FirstStageFed == ASSUME NumSpec = 0 PROVE StageSpec => []FirstInputs
  <1> DEFINE Both == Invariant /\ Waits /\ StageInvariant
  <1>1. StageInit => Both
    BY InitInvariant, InitStage DEF StageInit, Init, Waits
  <1>2. Both /\ [StageNext]_stageVars => Both'
    BY StageMoves, NextInvariant, NextWaits, NextStage
  <1>3. Both => FirstInputs
    BY InputsNow
  <1> QED
    BY <1>1, <1>2, <1>3, PTL DEF StageSpec
-----------------------------------------------------------------------------
(***************************************************************************)
(* The broadcasts, while no request is preempted.                          *)
(***************************************************************************)

(* Numbers from a + 1 on, n of them.                                       *)
LEMMA PositionsIs ==
  ASSUME NEW a \in Int, NEW n \in Nat
  PROVE  Row(Positions(a + 1, a + n), n)
  <1>s. PICK s : s = Positions(a + 1, a + n)
    OBVIOUS
  <1>1. Larger(a + n - (a + 1) + 1, 0) = n
    BY DEF Larger
  <1>2. s = [i \in 1 .. n |-> a + 1 + i - 1]
    BY <1>1, <1>s DEF Positions
  <1>3. \A i \in 1 .. n : a + 1 + i - 1 \in Int
    OBVIOUS
  <1> QED
    BY <1>2, <1>3, <1>s DEF Row

(* The last n elements of a list, or all.                                  *)
LEMMA LastOnes ==
  ASSUME NEW s, NEW l \in Nat, Row(s, l), NEW n \in Nat
  PROVE  Row(Ending(s, n), IF n <= l THEN n ELSE l)
  <1>1. CASE n <= l
    BY <1>1, EndingIs DEF EndingOK
  <1>2. CASE ~(n <= l)
    <2>1. Larger(l - n, 0) = Larger(l - l, 0)
      BY <1>2 DEF Larger
    <2>2. Ending(s, n) = Ending(s, l)
      BY <2>1 DEF Ending, Row
    <2>3. Row(Ending(s, l), l)
      BY EndingIs DEF EndingOK
    <2> QED
      BY <1>2, <2>2, <2>3
  <1> QED
    BY <1>1, <1>2

(* The tokens sent with a chunk, up to the text's end or the chunk's.      *)
LEMMA SentIs ==
  ASSUME NEW r \in Requests, NEW e \in EntryType, Sane(e, r), Regular(e, r)
  PROVE  \E t \in Nat : /\ Row(NewTokens(e), t)
                        /\ e.start + t = IF Samples(e) THEN e.total ELSE End(e)
  <1>1. /\ e.start \in Int /\ e.n \in Int /\ e.n > 0 /\ e.spec \in Int /\ e.spec >= 0
        /\ e.total \in Int /\ e.start < e.total
    BY Constants DEF EntryType, Sane, Regular
  <1>a. PICK a \in Int, n \in Int, c \in Int, m \in Int :
            a = e.start /\ n = e.n /\ c = e.spec /\ m = e.total
    BY <1>1
  <1>2. Smaller(e.start + e.n - e.spec, e.total) = IF Samples(e) THEN m ELSE a + n
    <2>1. CASE Samples(e)
      <3>1. a + n = m + c
        BY <1>a, <2>1 DEF Regular, End
      <3>2. a + n - c = m
        BY <3>1
      <3> QED
        BY <1>a, <2>1, <3>2 DEF Smaller
    <2>2. CASE ~Samples(e)
      <3>1. c = 0 /\ a + n < m
        BY <1>1, <1>a, <2>2 DEF Sane, Samples, End
      <3>2. a + n - c = a + n
        BY <3>1
      <3> QED
        BY <1>a, <2>2, <3>1, <3>2 DEF Smaller
    <2> QED
      BY <2>1, <2>2
  <1>t. PICK t \in Nat : a + t = IF Samples(e) THEN m ELSE a + n
    <2>1. m - a \in Nat /\ n \in Nat /\ a + (m - a) = m
      BY <1>1, <1>a
    <2> QED
      BY <2>1
  <1>3. NewTokens(e) = Positions(a + 1, a + t)
    BY <1>2, <1>t, <1>a DEF NewTokens
  <1>4. Row(NewTokens(e), t)
    BY <1>3, PositionsIs
  <1> QED
    BY <1>4, <1>t, <1>a DEF End

(* The first stage discards what does not sample, and its copy does not    *)
(* get ahead of the scheduler's text.                                      *)
LEMMA DiscardsIs ==
  ASSUME NEW r \in Requests, NEW e \in EntryType, Sane(e, r), Regular(e, r),
         text[r] \in Seq(Int), Prompt[r] <= Len(text[r]), Len(text[r]) <= e.total
  PROVE  /\ Discards(e, r) <=> ~Samples(e)
         /\ TextAfter(e, r) \in Seq(Int)
         /\ Prompt[r] <= Len(TextAfter(e, r)) /\ Len(TextAfter(e, r)) <= e.total
  <1>u. PICK u : u = TextAfter(e, r)
    OBVIOUS
  <1>l. PICK l \in Nat : l = Len(text[r])
    OBVIOUS
  <1>p. PICK p \in Nat : p = Prompt[r]
    BY Constants
  <1>a. PICK a \in Int, n \in Int, m \in Nat : a = e.start /\ n = e.n /\ m = e.total
    BY DEF EntryType
  <1>1. n > 0 /\ p <= l /\ l <= m /\ End(e) = a + n /\ (Samples(e) <=> a + n >= m)
    BY <1>l, <1>p, <1>a DEF Sane, Samples, End
  <1>2. Discards(e, r) <=> a + n < Len(u)
    BY <1>a, <1>u DEF Discards
  <1>3. CASE e.kind = "new"
    <2>1. m = p
      BY <1>3, <1>a, <1>p DEF Sane
    <2>2. 0 + 1 = 1 /\ 0 + p = p /\ 0 \in Int
      OBVIOUS
    <2>3. Row(Positions(0 + 1, 0 + p), p)
      BY <2>2, PositionsIs
    <2>4. u = Positions(1, p)
      BY <1>3, <1>u, <1>p DEF TextAfter
    <2>5. u \in Seq(Int) /\ Len(u) = p
      BY <2>2, <2>3, <2>4 DEF Row
    <2> QED
      BY <1>1, <1>2, <1>u, <1>p, <1>a, <2>1, <2>5
  <1>4. CASE e.kind # "new"
    <2>t. PICK t \in Nat : /\ Row(NewTokens(e), t)
                           /\ a + t = IF Samples(e) THEN m ELSE a + n
      BY <1>1, <1>a, SentIs
    <2>v. PICK v \in Int : v = a + t - l
      OBVIOUS
    <2>k. PICK k \in Nat : k = Larger(v, 0) /\ (k = IF v > 0 THEN v ELSE 0)
      <3>1. Larger(v, 0) = IF v > 0 THEN v ELSE 0
        BY DEF Larger
      <3> QED
        BY <3>1
    <2>w. PICK w : w = Ending(NewTokens(e), k)
      OBVIOUS
    <2>j. PICK j \in Nat : j = (IF k <= t THEN k ELSE t) /\ j <= k
      OBVIOUS
    <2>1. w \in Seq(Int) /\ Len(w) = j
      BY <2>t, <2>w, <2>j, LastOnes DEF Row
    <2>2. u = text[r] \o w
      <3>1. e.start + Len(NewTokens(e)) - Len(text[r]) = v
        BY <1>a, <1>l, <2>t, <2>v DEF Row
      <3> QED
        BY <1>4, <1>u, <2>k, <2>w, <3>1 DEF TextAfter
    <2>3. u \in Seq(Int) /\ Len(u) = l + j
      BY <2>1, <2>2, <1>l
    <2>4. CASE Samples(e)
      <3>1. v = m - l /\ v >= 0 /\ k = v
        BY <1>1, <2>4, <2>t, <2>v, <2>k
      <3>2. l + j <= m
        BY <2>j, <3>1
      <3> QED
        BY <1>1, <1>2, <1>u, <1>p, <1>a, <2>3, <2>4, <3>2
    <2>5. CASE ~Samples(e)
      <3>1. m = p
        <4>1. m = p \/ a + 1 = m
          BY <1>a, <1>p DEF Regular
        <4> QED
          BY <1>1, <2>5, <4>1
      <3>2. l = m /\ v < 0 /\ k = 0 /\ j = 0
        BY <1>1, <2>5, <2>t, <2>v, <2>k, <2>j, <3>1
      <3> QED
        BY <1>1, <1>2, <1>u, <1>p, <1>a, <2>3, <2>5, <3>1, <3>2
    <2> QED
      BY <2>4, <2>5
  <1> QED
    BY <1>3, <1>4

(* So does the last stage, when it comes to an entry.                      *)
LEMMA SampledIs ==
  ASSUME NEW r \in Requests, NEW e \in EntryType, Sane(e, r), Regular(e, r),
         known[r] \in Nat, e.kind = "cached" => Prompt[r] <= known[r]
  PROVE  /\ Sampled(e, r) <=> Samples(e)
         /\ Known(e, r) \in Nat /\ Prompt[r] <= Known(e, r)
  <1>p. PICK p \in Nat : p = Prompt[r]
    BY Constants
  <1>k. PICK k \in Nat : k = known[r]
    OBVIOUS
  <1>a. PICK a \in Int, n \in Int, m \in Nat : a = e.start /\ n = e.n /\ m = e.total
    BY DEF EntryType
  <1>1. /\ n > 0 /\ p <= m /\ (m = p \/ a + 1 = m) /\ (Samples(e) <=> a + n >= m)
    BY <1>p, <1>a DEF Sane, Samples, End, Regular
  <1>2. CASE e.kind = "new"
    <2>1. Known(e, r) = p /\ m = p
      BY <1>2, <1>a, <1>p DEF Known, Sane
    <2> QED
      BY <1>1, <1>a, <1>p, <2>1 DEF Sampled
  <1>3. CASE e.kind = "cached"
    <2>1. Known(e, r) = Smaller(k, m) /\ p <= k
      BY <1>3, <1>a, <1>p, <1>k DEF Known
    <2>q. PICK q \in Nat : q = Smaller(k, m) /\ q <= m /\ p <= q
      BY <1>1, <2>1 DEF Smaller
    <2>2. Sampled(e, r) <=> a + n >= q
      BY <1>a, <2>1, <2>q DEF Sampled
    <2> QED
      BY <1>1, <1>p, <2>1, <2>q, <2>2
  <1> QED
    BY <1>2, <1>3 DEF EntryType, Regular

(* When nothing in flight samples, there is something left to compute.     *)
LEMMA LeftToDo ==
  ASSUME Invariant, NEW r \in Requests, req[r].status = "running",
         \A i \in Fresh(r) : ~Samples(Of(i, r))
  PROVE  /\ req[r].computed \in Int /\ req[r].tokens \in Nat /\ Prompt[r] <= req[r].tokens
         /\ req[r].computed < req[r].tokens
  <1>1. /\ Live(r) /\ req[r].computed \in Int /\ req[r].tokens \in Nat /\ Living(r)
        /\ Reaches(r) /\ Behind(r) /\ Totals(r) /\ queue \in Seq(BatchType)
    BY DEF Live, Invariant, Life, TypeOK, RequestType
  <1>2. CASE Fresh(r) = {}
    BY <1>1, <1>2 DEF Behind, Living
  <1>3. CASE Fresh(r) # {}
    <2>n. PICK n \in Nat : n = Len(queue)
      BY <1>1
    <2>1. Fresh(r) \subseteq InQueue(r) /\ InQueue(r) \subseteq 1 .. n
      BY <1>1, <2>n, QueueIs DEF Fresh, InQueue
    <2>2. PICK i \in Fresh(r) : \A k \in Fresh(r) : k <= i
      BY <1>3, <2>1, Topmost
    <2>3. req[r].computed = End(Of(i, r)) /\ Of(i, r).total = req[r].tokens
      BY <1>1, <2>1, <2>2 DEF Reaches, Totals
    <2>4. ~(req[r].computed >= req[r].tokens)
      BY <2>2, <2>3 DEF Samples
    <2> QED
      BY <1>1, <2>4 DEF Living
  <1> QED
    BY <1>2, <1>3

(* A request is where it was, or no longer runs.                           *)
Upheld(r) ==
  /\ InQueue(r)' = InQueue(r) /\ \A i \in InQueue(r) : Of(i, r)' = Of(i, r)
  /\ req'[r].tokens = req[r].tokens
  /\ req'[r].status = "running" /\ Prompt[r] < req[r].tokens =>
        req[r].status = "running" /\ req'[r].computed = req[r].computed
  /\ InSchedule' /\ r \in DOMAIN step'.entries => Regular(step'.entries[r], r)

LEMMA UpheldKept ==
  ASSUME UNCHANGED <<text, seen>>, NEW r \in Requests, Orderly(r), Upheld(r)
  PROVE  Regulars(r)' /\ OnTime(r)' /\ Grows(r)' /\ Follows(r)'
  <1>1. Regulars(r) /\ OnTime(r) /\ Grows(r) /\ Follows(r)
    BY DEF Orderly
  <1>2. InQueue(r)' = InQueue(r) /\ \A i \in InQueue(r) : Of(i, r)' = Of(i, r)
    BY DEF Upheld
  <1>3. Regulars(r)'
    BY <1>1, <1>2 DEF Regulars, Upheld
  <1>4. Fresh(r)' = Fresh(r) /\ \A i \in Fresh(r) : Samples(Of(i, r))' = Samples(Of(i, r))
    <2>1. \A i \in InQueue(r) : Samples(Of(i, r))' = Samples(Of(i, r))
      BY <1>2 DEF Samples, End
    <2>2. Fresh(r)' = Fresh(r)
      BY <1>2 DEF Fresh
    <2> QED
      BY <2>1, <2>2 DEF Fresh
  <1>5. OnTime(r)'
    BY <1>1, <1>4 DEF OnTime, Upheld
  <1>6. Grows(r)'
    BY <1>1, <1>2 DEF Grows, Upheld
  <1>7. Follows(r)'
    BY <1>1, <1>2 DEF Follows, Upheld
  <1> QED
    BY <1>3, <1>5, <1>6, <1>7

(* The batches stay, and so does what either stage knows of them.          *)
LEMMA BroadcastKept ==
  ASSUME queue \in Seq(BatchType), BroadcastInvariant,
         UNCHANGED <<text, seen, wants, sent, known>>,
         DOMAIN queue' = DOMAIN queue, Len(queue') = Len(queue),
         \A i \in DOMAIN queue : /\ queue'[i].ran = queue[i].ran
                                /\ DOMAIN queue'[i].entries = DOMAIN queue[i].entries
                                /\ \A r \in DOMAIN queue[i].entries :
                                      r \in Requests /\ queue'[i].entries[r] = queue[i].entries[r],
         \A r \in Requests : Upheld(r)
  PROVE  BroadcastInvariant'
  <1>1. Ahead'
    BY DEF BroadcastInvariant, Ahead, Ran
  <1>2. ASSUME NEW r \in Requests PROVE Orderly(r)'
    <2>1. Orderly(r) /\ Upheld(r)
      BY DEF BroadcastInvariant
    <2>2. Regulars(r)' /\ OnTime(r)' /\ Grows(r)' /\ Follows(r)'
      BY <2>1, UpheldKept
    <2>3. Told(r)'
      <3>1. InQueue(r)' = InQueue(r) /\ InQueue(r) \subseteq DOMAIN queue
            /\ \A i \in InQueue(r) : Of(i, r)' = Of(i, r)
        BY <2>1 DEF Upheld, InQueue
      <3>2. \A i \in InQueue(r) : Ran(i)' = Ran(i)
        BY <3>1 DEF Ran
      <3> QED
        BY <2>1, <3>1, <3>2 DEF Orderly, Told
    <2> QED
      BY <2>2, <2>3 DEF Orderly
  <1>3. Asked' = Asked
    <2>1. \A i \in 1 .. seen : i \in DOMAIN queue
      <3>1. seen \in 0 .. Len(queue) /\ DOMAIN queue = 1 .. Len(queue) /\ Len(queue) \in Nat
        BY QueueIs DEF BroadcastInvariant, Ahead
      <3> QED
        BY <3>1
    <2> QED
      BY <2>1 DEF Asked, Ran, Samples, End, Of
  <1>4. Matched'
    BY <1>3 DEF BroadcastInvariant, Matched
  <1> QED
    BY <1>1, <1>2, <1>4 DEF BroadcastInvariant

(* In particular when the queue is the same.                               *)
LEMMA BroadcastSame ==
  ASSUME Invariant, BroadcastInvariant, UNCHANGED <<text, seen, wants, sent, known, queue>>,
         \A r \in Requests :
            /\ req'[r].tokens = req[r].tokens
            /\ req'[r].status = "running" /\ Prompt[r] < req[r].tokens =>
                  req[r].status = "running" /\ req'[r].computed = req[r].computed
            /\ InSchedule' /\ r \in DOMAIN step'.entries => Regular(step'.entries[r], r)
  PROVE  BroadcastInvariant'
  <1>1. TypeOK /\ queue \in Seq(BatchType)
    BY DEF Invariant, TypeOK
  <1>2. \A i \in DOMAIN queue : \A r \in DOMAIN queue[i].entries : r \in Requests
    BY <1>1, EntryIs
  <1>3. \A r \in Requests : Upheld(r)
    BY DEF Upheld, InQueue, Of
  <1> QED
    BY <1>1, <1>2, <1>3, BroadcastKept

(* In particular outside of schedule, when requests end or are added.      *)
LEMMA BroadcastOutside ==
  ASSUME Invariant, BroadcastInvariant, UNCHANGED <<text, seen, wants, sent, known, queue>>,
         ~InSchedule',
         \A r \in Requests :
            /\ req'[r].tokens = req[r].tokens /\ req'[r].computed = req[r].computed
            /\ req'[r].status = "running" => req[r].status = "running"
  PROVE  BroadcastInvariant'
  BY BroadcastSame

(* The calls of clients, and the engine between two steps.                 *)
LEMMA ClientBroadcast ==
  ASSUME Invariant, BroadcastInvariant, NonePreempted', Client \/ Block \/ Resume, UNCHANGED stage
  PROVE  BroadcastInvariant'
  <1>1. UNCHANGED <<text, seen, wants, sent>>
    BY DEF stage
  <1>2. /\ req \in [Requests -> RequestType] /\ queue \in Seq(BatchType)
        /\ \A r \in Requests : req[r] \in RequestType
    BY DEF Invariant, TypeOK
  <1>3. ASSUME NEW r \in Requests, Add(r) PROVE BroadcastInvariant'
    <2>1. /\ pc' = "input" /\ UNCHANGED <<queue, known>>
          /\ req' = [req EXCEPT ![r].status = "waiting"]
      BY <1>3 DEF Add, worker
    <2>2. req'[r] = [req[r] EXCEPT !.status = "waiting"] /\ \A x \in Requests : x # r => req'[x] = req[x]
      BY <1>2, <2>1
    <2>3. /\ req'[r].status = "waiting" /\ req'[r].tokens = req[r].tokens
          /\ req'[r].computed = req[r].computed
      <3>1. "waiting" \in Status
        BY DEF Status
      <3> QED
        BY <1>2, <2>2, <3>1, StatusIs
    <2> QED
      BY <1>1, <2>1, <2>2, <2>3, BroadcastOutside DEF InSchedule
  <1>4. ASSUME NEW R, Finished(R), UNCHANGED <<queue, known, pc>>, pc = "input"
        PROVE  BroadcastInvariant'
    <2>1. ASSUME NEW r \in Requests
          PROVE  /\ req'[r].tokens = req[r].tokens /\ req'[r].computed = req[r].computed
                 /\ req'[r].status = "running" => req[r].status = "running"
      <3>1. CASE r \in R
        <4>1. req'[r] = Ended(req[r])
          BY Zenon, <1>4, <3>1 DEF Finished, Ended
        <4> QED
          BY <1>2, <4>1, FinishedIs
      <3>2. CASE r \notin R
        BY Zenon, <1>4, <3>2 DEF Finished
      <3> QED
        BY <3>1, <3>2
    <2> QED
      BY <1>1, <1>4, <2>1, BroadcastOutside DEF InSchedule
  <1>5. ASSUME NEW r, Abort(r) PROVE BroadcastInvariant'
    BY <1>4, <1>5 DEF Abort, worker
  <1>6. ASSUME NEW mode, Pause(mode) PROVE BroadcastInvariant'
    <2>1. PICK R : R = IF mode = "abort" THEN {r \in Requests : Live(r)} ELSE {}
      OBVIOUS
    <2>2. Finished(R) /\ UNCHANGED <<queue, known, pc>> /\ pc = "input"
      BY <1>6, <2>1 DEF Pause, worker
    <2> QED
      BY <1>4, <2>2
  <1>7. CASE Reset
    <2>R. PICK R : R = Ids(running)
      OBVIOUS
    <2>1. /\ pc' = "input" /\ UNCHANGED known /\ queue' = Outdated(R)
          /\ req' = [r \in Requests |-> IF r \in R THEN Preempted(req[r], TRUE) ELSE req[r]]
      BY <1>7, <2>R DEF Reset, worker
    <2>2. \A r \in Requests : r \notin R
      <3> SUFFICES ASSUME NEW r \in Requests, r \in R PROVE FALSE
        OBVIOUS
      <3>1. req'[r] = Preempted(req[r], TRUE)
        BY <2>1
      <3>2. req'[r].status = "preempted"
        BY <1>2, <3>1, PreemptedIs
      <3> QED
        BY <3>2 DEF NonePreempted
    <2>3. \A r \in Requests : req'[r] = req[r]
      BY <2>1, <2>2
    <2>Q. PICK Q : Q = Outdated(R)
      OBVIOUS
    <2>4. /\ DOMAIN queue' = DOMAIN queue /\ Len(queue') = Len(queue)
          /\ \A i \in DOMAIN queue :
                /\ DOMAIN queue'[i].entries = DOMAIN queue[i].entries
                /\ queue'[i].ran = queue[i].ran
                /\ \A r \in DOMAIN queue[i].entries :
                      queue'[i].entries[r] = [queue[i].entries[r] EXCEPT !.old = @ \/ r \in R]
      <3>1. /\ DOMAIN Q = DOMAIN queue /\ Len(Q) = Len(queue)
            /\ \A i \in DOMAIN queue :
                  /\ DOMAIN Q[i].entries = DOMAIN queue[i].entries
                  /\ Q[i].ran = queue[i].ran
                  /\ \A r \in DOMAIN queue[i].entries :
                        Q[i].entries[r] = [queue[i].entries[r] EXCEPT !.old = @ \/ r \in R]
        BY <1>2, <2>Q, OutdatedIs
      <3>2. Q = queue'
        BY <2>1, <2>Q
      <3> QED
        BY <3>1, <3>2
    <2>5. ASSUME NEW i \in DOMAIN queue, NEW r \in DOMAIN queue[i].entries
          PROVE  r \in Requests /\ queue'[i].entries[r] = queue[i].entries[r]
      <3>1. r \in Requests /\ queue[i].entries[r] \in EntryType
        BY EntryIs DEF Invariant, Of
      <3>e. PICK e \in EntryType : e = queue[i].entries[r]
        BY <3>1
      <3>2. queue'[i].entries[r] = [e EXCEPT !.old = e.old \/ r \in R]
        BY <2>4, <3>e
      <3>3. (e.old \/ r \in R) = e.old
        BY <2>2, <3>1, <3>e DEF EntryType
      <3>4. queue'[i].entries[r] = [e EXCEPT !.old = e.old]
        BY <3>2, <3>3
      <3> QED
        BY <3>1, <3>4, <3>e DEF EntryType
    <2>6. ASSUME NEW r \in Requests PROVE Upheld(r)
      <3>1. InQueue(r)' = InQueue(r) /\ \A i \in InQueue(r) : Of(i, r)' = Of(i, r)
        BY <2>4, <2>5 DEF InQueue, Of
      <3> QED
        BY <2>1, <2>3, <3>1 DEF Upheld, InSchedule
    <2> QED
      BY <1>1, <1>2, <2>1, <2>4, <2>5, <2>6, BroadcastKept
  <1>8. CASE Block \/ Resume
    <2>1. UNCHANGED <<req, queue, known>> /\ ~InSchedule'
      BY <1>8 DEF Block, Resume, engine, worker, InSchedule
    <2> QED
      BY <1>1, <2>1, BroadcastOutside
  <1> QED
    BY <1>3, <1>5, <1>6, <1>7, <1>8 DEF Client

(* The steps of schedule that make no entry.                               *)
LEMMA QuietBroadcast ==
  ASSUME Invariant, BroadcastInvariant, UNCHANGED stage,
         SkipRunning \/ EndRunning \/ SkipStale \/ EndWaiting \/ Begin
  PROVE  BroadcastInvariant'
  <1>1. UNCHANGED <<text, seen, wants, sent, known, queue, req>>
    BY DEF SkipRunning, EndRunning, SkipStale, EndWaiting, Begin, engine, stage, worker
  <1>2. CASE Begin
    <2>1. DOMAIN step'.entries = {}
      BY <1>2 DEF Begin
    <2> QED
      BY <1>1, <2>1, BroadcastSame
  <1>3. CASE SkipRunning \/ EndRunning \/ SkipStale \/ EndWaiting
    <2>1. InSchedule
      BY <1>3 DEF SkipRunning, EndRunning, SkipStale, EndWaiting, Scheduling, Admitting, InSchedule
    <2>2. step \in StepType
      BY <2>1, PlanRequests DEF Invariant
    <2>3. step'.entries = step.entries
      BY <1>3, <2>2 DEF SkipRunning, EndRunning, SkipStale, EndWaiting, engine, StepType
    <2>4. \A r \in Requests : r \in DOMAIN step'.entries => Regular(step'.entries[r], r)
      BY <2>1, <2>3 DEF BroadcastInvariant, Orderly, Regulars
    <2> QED
      BY <1>1, <2>4, BroadcastSame
  <1> QED
    BY <1>2, <1>3

(* A running request gets a chunk: of the prompt, or its last token and    *)
(* the drafts that follow it.                                              *)
LEMMA ScheduleRunningBroadcast ==
  ASSUME Invariant, BroadcastInvariant, UNCHANGED stage, ScheduleRunning
  PROVE  BroadcastInvariant'
  <1>r. PICK r, n : r = running[step.at] /\ n = Wanted(r)
    OBVIOUS
  <1>d. PICK d : d = Drafted(req[r], n)
    OBVIOUS
  <1>e. PICK e : e = Entry(r, "cached", req[r].computed, n, d, TRUE)
    OBVIOUS
  <1>b. PICK b : b = Larger(req[r].blocks, BlocksFor(req[r].computed + n + NumSpec))
    OBVIOUS
  <1>p. PICK p : p = (step.prefill \/ req[r].chunk)
    OBVIOUS
  <1>E. PICK E : E = With(step.entries, r, e)
    OBVIOUS
  <1>1. /\ n # 0
        /\ pc = "running" /\ pc' = "running" /\ step.at <= Len(running) /\ step.budget > 0
        /\ req' = [req EXCEPT ![r].spec = 0, ![r].blocks = b]
        /\ step' = [step EXCEPT !.at = @ + 1, !.budget = @ - n, !.prefill = p, !.entries = E]
        /\ UNCHANGED <<text, seen, wants, sent, known, queue>>
    <2>1. /\ n # 0
          /\ step' = [step EXCEPT !.at = @ + 1, !.budget = @ - n, !.prefill = @ \/ req[r].chunk,
                                  !.entries = With(@, r, e)]
          /\ req' = [req EXCEPT ![r].spec = 0,
                        ![r].blocks = Larger(@, BlocksFor(req[r].computed + n + NumSpec))]
      BY <1>r, <1>d, <1>e DEF ScheduleRunning
    <2>2. req' = [req EXCEPT ![r].spec = 0, ![r].blocks = b]
      BY <1>b, <2>1
    <2>3. step' = [step EXCEPT !.at = @ + 1, !.budget = @ - n, !.prefill = p, !.entries = E]
      BY <1>p, <1>E, <2>1
    <2> QED
      BY <2>1, <2>2, <2>3 DEF ScheduleRunning, Scheduling, worker, stage
  <1>2. InSchedule /\ InSchedule' /\ step \in StepType /\ step.at \in Nat \ {0}
    BY <1>1, PlanRequests DEF Invariant, InSchedule
  <1>3. running \in Seq(Requests) /\ req \in [Requests -> RequestType]
    BY DEF Invariant, TypeOK
  <1>4. r \in Requests /\ req[r] \in RequestType /\ req[r].status = "running"
    <2>1. step.at \in DOMAIN running /\ r \in Requests
      BY <1>1, <1>2, <1>3, <1>r
    <2>2. r \in Ids(running)
      BY <1>1, <1>2, <1>3, <1>r, <2>1 DEF Ids
    <2> QED
      BY <1>3, <2>1, <2>2, MembersIs DEF Invariant
  <1>5. /\ n \in Int /\ n > 0 /\ req[r].computed + n <= req[r].tokens + req[r].spec
        /\ \A i \in Fresh(r) : ~Samples(Of(i, r))
    BY <1>1, <1>2, <1>4, <1>r, WantedIs
  <1>6. /\ req[r].computed \in Int /\ req[r].tokens \in Nat /\ Prompt[r] <= req[r].tokens
        /\ req[r].computed < req[r].tokens /\ Prompt[r] \in Nat /\ req[r].spec \in 0 .. NumSpec
        /\ NumSpec \in Nat
    BY <1>4, <1>5, LeftToDo, RequestIs, Constants
  <1>7. Prompt[r] < req[r].tokens => req[r].computed + 1 = req[r].tokens
    BY <1>4, <1>5 DEF BroadcastInvariant, Orderly, OnTime
  <1>8. /\ e.kind = "cached" /\ ~e.old /\ e.start = req[r].computed /\ e.n = n
        /\ e.spec = d /\ e.total = req[r].tokens
    BY <1>e DEF Entry
  <1>9. Regular(e, r)
    <2>c. PICK c \in Int : c = req[r].computed
      BY <1>6
    <2>t. PICK t \in Nat : t = req[r].tokens
      BY <1>6
    <2>s. PICK s \in Nat : s = req[r].spec
      BY <1>6
    <2>1. c + n >= t => c + n = t + d
      <3>1. d = IF s = 0 THEN 0 ELSE Smaller(s, Larger(n + c - t, 0))
        BY <1>d, <2>c, <2>t, <2>s DEF Drafted
      <3>2. c + n <= t + s
        BY <1>5, <2>c, <2>t, <2>s
      <3> QED
        BY <1>5, <3>1, <3>2 DEF Smaller, Larger
    <2>2. Samples(e) => End(e) = e.total + e.spec
      BY <1>8, <2>1, <2>c, <2>t DEF Samples, End
    <2> QED
      BY <1>6, <1>7, <1>8, <2>2 DEF Regular
  <1>10. /\ step'.entries = E /\ E[r] = e
         /\ \A x \in DOMAIN E : x # r => x \in DOMAIN step.entries /\ E[x] = step.entries[x]
    BY <1>1, <1>2, <1>E DEF With, StepType
  <1>11. ASSUME NEW x \in Requests
         PROVE  /\ req'[x].tokens = req[x].tokens /\ req'[x].computed = req[x].computed
                /\ req'[x].status = req[x].status
    <2>q. PICK q \in RequestType : q = req[x]
      BY <1>3
    <2>p. PICK y : y = req'[x]
      OBVIOUS
    <2>1. y = q \/ y = [q EXCEPT !.spec = 0, !.blocks = b]
      BY <1>1, <1>3, <2>p, <2>q
    <2>2. y.tokens = q.tokens /\ y.computed = q.computed /\ y.status = q.status
      BY <2>1 DEF RequestType
    <2> QED
      BY <2>2, <2>p, <2>q
  <1>12. ASSUME NEW x \in Requests, x \in DOMAIN step'.entries PROVE Regular(step'.entries[x], x)
    <2>1. CASE x = r
      BY <1>9, <1>10, <2>1
    <2>2. CASE x # r
      BY <1>2, <1>10, <1>12, <2>2 DEF BroadcastInvariant, Orderly, Regulars
    <2> QED
      BY <2>1, <2>2
  <1> QED
    BY <1>1, <1>11, <1>12, BroadcastSame

(* A padded prompt is not cut: where state may be kept there is no stop    *)
(* behind its last token but one.                                          *)
LEMMA SplitWhole ==
  ASSUME UseEagle, NEW h \in Nat, h % BlockSize = 0, NEW p \in Nat, p = h + 1, NEW n \in Nat, n >= 1
  PROVE  Split(h, n, p, p, 0) = n
  <1> DEFINE whole  == Aligned(h, h + n, p, p)
             inside == {s \in Stops(h, whole, p, p, 0) : h < s /\ s < whole}
  <1>1. BlockSize \in Nat \ {0} /\ HashBlock \in Nat \ {0}
    BY SplitAssumption
  <1>2. PrefillEnd(p, p) = p
    BY DEF PrefillEnd, Larger
  <1>3. whole = h + n
    BY <1>2 DEF Aligned
  <1>4. LastCachePosition(p) <= h /\ LastCachePosition(p) \in Int
    <2>f. PICK f \in Int : f = Floor(p) /\ f <= p
      BY FloorBelow
    <2>1. LastCachePosition(p) = Larger(f - BlockSize, 0)
      BY <2>f DEF LastCachePosition
    <2> QED
      BY <1>1, <2>f, <2>1 DEF Larger
  <1>5. TailBoundary(p, p) <= h /\ TailBoundary(p, p) \in Int
    <2>t. PICK t \in Int : t = (p \div HashBlock) * HashBlock
      BY <1>1
    <2>1. (TailBoundary(p, p) = t /\ t < p) \/ TailBoundary(p, p) = 0
      BY <2>t DEF TailBoundary
    <2> QED
      BY <2>1
  <1>6. inside = {}
    <2>1. Stops(h, whole, p, p, 0) = {0, LastCachePosition(p), TailBoundary(p, p)}
      <3>1. ~(h < 0)
        OBVIOUS
      <3> HIDE DEF whole
      <3> QED
        BY <3>1 DEF Stops
    <2> SUFFICES ASSUME NEW s \in {0, LastCachePosition(p), TailBoundary(p, p)}, h < s PROVE FALSE
      BY <2>1
    <2> QED
      BY <1>4, <1>5
  <1>7. Split(h, n, p, p, 0) = Larger(whole - h, 0)
    <2>1. ~(h >= PrefillEnd(p, p))
      BY <1>2
    <2> QED
      BY <1>6, <2>1 DEF Split
  <1> QED
    BY <1>3, <1>7 DEF Larger

(* A request is admitted: as nobody is preempted, a new one.               *)
LEMMA AdmitBroadcast ==
  ASSUME NumSpec > 0 => UseEagle, Invariant, NonePreempted, BroadcastInvariant, UNCHANGED stage,
         NEW h, Admit(h)
  PROVE  BroadcastInvariant'
  <1>r. PICK r, n, k : /\ r = Head(Queued) /\ n = Chunk(r, h)
                       /\ k = IF req[r].status = "waiting" THEN "new" ELSE "resumed"
    OBVIOUS
  <1>s. PICK s : s = IF Padded(r, h) THEN NumSpec ELSE 0
    OBVIOUS
  <1>e. PICK e : e = Entry(r, k, h, n, s, FALSE)
    OBVIOUS
  <1>b. PICK b : b = BlocksFor(h + n + NumSpec)
    OBVIOUS
  <1>E. PICK E : E = With(step.entries, r, e)
    OBVIOUS
  <1>1. /\ pc = "waiting" /\ pc' = "waiting" /\ Queued # <<>> /\ Popped /\ step.budget > 0
        /\ h \in Hits(r) /\ n # 0
        /\ Padded(r, h) => 1 + NumSpec <= step.budget
        /\ req' = [req EXCEPT ![r].status = "running", ![r].computed = h, ![r].blocks = b]
        /\ step' = [step EXCEPT !.budget = @ - n, !.entries = E]
        /\ UNCHANGED <<text, seen, wants, sent, known, queue>>
    <2>1. /\ step' = [step EXCEPT !.budget = @ - n, !.entries = With(@, r, e)]
          /\ req' = [req EXCEPT ![r].status = "running", ![r].computed = h, ![r].blocks = b]
          /\ h \in Hits(r) /\ Popped /\ Admissible(r, h)
      BY <1>r, <1>s, <1>e, <1>b DEF Admit
    <2>2. step' = [step EXCEPT !.budget = @ - n, !.entries = E]
      BY <1>E, <2>1
    <2>3. n # 0 /\ (Padded(r, h) => 1 + NumSpec <= step.budget)
      BY <1>r, <2>1 DEF Admissible
    <2>4. /\ pc = "waiting" /\ pc' = "waiting" /\ Queued # <<>> /\ step.budget > 0
          /\ UNCHANGED <<text, seen, wants, sent, known, queue>>
      BY DEF Admit, Admitting, worker, stage
    <2> QED
      BY <2>1, <2>2, <2>3, <2>4
  <1>2. InSchedule /\ InSchedule' /\ step \in StepType /\ step.budget \in Int
    BY <1>1, PlanRequests DEF Invariant, InSchedule
  <1>3. /\ r \in Requests /\ r \in Ids(waiting) \cup Ids(skipped) /\ req[r] \in RequestType
        /\ req \in [Requests -> RequestType]
    BY <1>1, <1>r, PoppedIs DEF Invariant, TypeOK
  <1>4. req[r].status = "waiting"
    BY <1>3, MembersIs DEF NonePreempted, Invariant
  <1>5. req[r].tokens = Prompt[r]
    BY <1>3, <1>4 DEF Invariant, Life, Unsent
  <1>p. PICK p \in Nat : p = Prompt[r]
    BY <1>3, Constants
  <1>6. h \in Nat /\ h < p /\ h % BlockSize = 0
    <2>1. h \in 0 .. p - 1 /\ h % BlockSize = 0
      BY <1>1, <1>5, <1>p DEF Hits
    <2> QED
      BY <2>1
  <1>7. /\ e.kind = "new" /\ ~e.old /\ e.start = h /\ e.n = n /\ e.spec = s /\ e.total = p
    BY <1>e, <1>r, <1>4, <1>5, <1>p DEF Entry
  <1>8. n \in Int /\ h + n <= p + s
    BY <1>1, <1>2, <1>3, <1>5, <1>6, <1>p, <1>r, <1>s, ChunkIs
  <1>9. h + n >= p => h + n = p + s
    <2>1. CASE Padded(r, h)
      <3>1. NumSpec > 0 /\ NumSpec \in Nat /\ p - h = 1
        BY <1>5, <1>p, <2>1, Constants DEF Padded
      <3>2. p = h + 1
        BY <1>6, <3>1
      <3>m. PICK m \in Nat : m = 1 + NumSpec /\ m >= 1
        BY <3>1
      <3>3. Smaller(m, step.budget) = m
        BY <1>1, <1>2, <2>1, <3>m DEF Smaller
      <3>4. n = Split(h, m, p, p, 0)
        BY <1>r, <1>5, <1>p, <2>1, <3>m, <3>3 DEF Chunk
      <3>5. n = m
        BY <1>6, <3>1, <3>2, <3>4, <3>m, SplitWhole
      <3> QED
        BY <1>6, <1>s, <2>1, <3>1, <3>2, <3>5, <3>m
    <2>2. CASE ~Padded(r, h)
      BY <1>6, <1>8, <1>s, <2>2
    <2> QED
      BY <2>1, <2>2
  <1>10. Regular(e, r)
    <2>1. Samples(e) => End(e) = e.total + e.spec
      BY <1>7, <1>9 DEF Samples, End
    <2> QED
      BY <1>6, <1>7, <1>p, <2>1 DEF Regular
  <1>11. /\ step'.entries = E /\ E[r] = e
         /\ \A x \in DOMAIN E : x # r => x \in DOMAIN step.entries /\ E[x] = step.entries[x]
    BY <1>1, <1>2, <1>E DEF With, StepType
  <1>12. /\ req'[r].tokens = req[r].tokens
         /\ \A x \in Requests : x # r => req'[x] = req[x]
    BY <1>1, <1>3 DEF RequestType
  <1>13. ASSUME NEW x \in Requests
         PROVE  /\ req'[x].tokens = req[x].tokens
                /\ req'[x].status = "running" /\ Prompt[x] < req[x].tokens =>
                      req[x].status = "running" /\ req'[x].computed = req[x].computed
    <2>1. CASE x = r
      <3>1. ~(Prompt[x] < req[x].tokens)
        BY <1>5, <1>p, <2>1
      <3> QED
        BY <1>12, <2>1, <3>1
    <2>2. CASE x # r
      BY <1>12, <2>2
    <2> QED
      BY <2>1, <2>2
  <1>14. ASSUME NEW x \in Requests, x \in DOMAIN step'.entries PROVE Regular(step'.entries[x], x)
    <2>1. CASE x = r
      BY <1>10, <1>11, <2>1
    <2>2. CASE x # r
      BY <1>2, <1>11, <1>14, <2>2 DEF BroadcastInvariant, Orderly, Regulars
    <2> QED
      BY <2>1, <2>2
  <1> QED
    BY <1>1, <1>13, <1>14, BroadcastSame

(* The step's batch is queued.                                             *)
LEMMA CloseBroadcast ==
  ASSUME Invariant, BroadcastInvariant, UNCHANGED stage, Close
  PROVE  BroadcastInvariant'
  <1>E. PICK E : E = step.entries
    OBVIOUS
  <1>b. PICK b : b = [entries |-> E, ran |-> FALSE, out |-> <<>>]
    OBVIOUS
  <1>1. /\ pc = "close" /\ ~InSchedule' /\ InSchedule
        /\ req' = [r \in Requests |->
                 IF r \in DOMAIN E
                 THEN [req[r] EXCEPT !.computed = @ + E[r].n, !.inflight = @ + E[r].n,
                                     !.chunk = req[r].computed + E[r].n < req[r].tokens]
                 ELSE req[r]]
        /\ queue' = Append(queue, b)
        /\ UNCHANGED <<text, seen, wants, sent, known>>
    <2>1. pc' = IF Len(queue') < QueueSize /\ (E # <<>> \/ Unfinished > 0) THEN "input" ELSE "wait"
      BY Zenon, <1>E DEF Close
    <2>2. pc' \in {"input", "wait"}
      BY <2>1, Zenon
    <2> QED
      BY Zenon, <1>E, <1>b, <2>2 DEF Close, InSchedule, stage, worker
  <1>2. /\ E \in PlanType /\ DOMAIN E \subseteq Requests /\ \A r \in DOMAIN E : E[r] \in EntryType
        /\ queue \in Seq(BatchType)
    BY Zenon, <1>1, <1>E, PlanRequests DEF Invariant, TypeOK
  <1>L. PICK L \in Nat : L = Len(queue)
    BY <1>2
  <1>3. /\ Len(queue') = L + 1 /\ DOMAIN queue = 1 .. L /\ DOMAIN queue' = 1 .. L + 1
        /\ queue'[L + 1] = b /\ b.entries = E /\ ~b.ran
        /\ \A i \in DOMAIN queue : queue'[i] = queue[i]
    <2>1. b.entries = E /\ ~b.ran /\ b \in BatchType
      <3>1. <<>> \in OutType
        <4>1. DOMAIN <<>> = {} /\ <<>> \in [DOMAIN <<>> -> [follows : Nat, count : Nat]]
          OBVIOUS
        <4> QED
          BY <4>1 DEF OutType
      <3> QED
        BY <1>2, <1>b, <3>1 DEF BatchType
    <2>2. queue' = Append(queue, b) /\ queue \in Seq(BatchType) /\ b \in BatchType /\ L = Len(queue)
      BY Zenon, <1>1, <1>2, <1>L, <2>1
    <2>3. /\ Len(queue') = L + 1 /\ DOMAIN queue = 1 .. L /\ DOMAIN queue' = 1 .. L + 1
          /\ queue'[L + 1] = b /\ \A i \in DOMAIN queue : queue'[i] = queue[i]
      BY <2>2
    <2> QED
      BY <2>1, <2>3
  <1>4. seen \in 0 .. L /\ Ahead'
    <2>1. seen \in 0 .. L /\ \A i \in DOMAIN queue : Ran(i) => i <= seen
      BY <1>L DEF BroadcastInvariant, Ahead
    <2>2. seen \in 0 .. L + 1
      BY <2>1
    <2>3. ASSUME NEW i \in DOMAIN queue', Ran(i)' PROVE i <= seen
      <3>1. CASE i = L + 1
        BY <1>3, <2>3, <3>1 DEF Ran
      <3>2. CASE i # L + 1
        <4>1. i \in DOMAIN queue
          BY <1>3, <3>2
        <4> QED
          BY <1>3, <2>1, <2>3, <4>1 DEF Ran
      <3> QED
        BY <3>1, <3>2
    <2> QED
      BY Zenon, <1>1, <1>3, <2>1, <2>2, <2>3 DEF Ahead
  <1>5. Asked' = Asked
    <2>1. \A i \in 1 .. seen : i \in DOMAIN queue /\ queue'[i] = queue[i]
      <3>1. \A i \in 1 .. seen : i \in 1 .. L
        BY <1>4
      <3> QED
        BY <1>3, <3>1
    <2> QED
      BY Zenon, <1>1, <2>1 DEF Asked, Ran, Of, Samples, End
  <1>6. Matched'
    BY Zenon, <1>1, <1>5 DEF BroadcastInvariant, Matched
  <1>7. ASSUME NEW r \in Requests, r \notin DOMAIN E PROVE Orderly(r)'
    <2>1. InQueue(r)' = InQueue(r)
      <3>1. \A i : i \in InQueue(r)' <=> i \in InQueue(r)
        BY <1>3, <1>7 DEF InQueue
      <3> QED
        BY <3>1
    <2>2. \A i \in InQueue(r) : queue'[i] = queue[i]
      BY <1>3 DEF InQueue
    <2>3. req'[r] = req[r]
      BY Zenon, <1>1, <1>7
    <2>4. Upheld(r) /\ Orderly(r)
      BY Zenon, <1>1, <2>1, <2>2, <2>3 DEF Upheld, Of, BroadcastInvariant
    <2>5. Told(r)'
      <3>1. \A i \in InQueue(r) : (Ran(i)' <=> Ran(i)) /\ Of(i, r)' = Of(i, r)
        BY <2>2 DEF Ran, Of
      <3>2. Told(r) /\ known'[r] = known[r]
        BY Zenon, <1>1, <2>4 DEF Orderly
      <3> QED
        BY <2>1, <3>1, <3>2 DEF Told
    <2> QED
      BY Zenon, <1>1, <2>4, <2>5, UpheldKept DEF Orderly
  <1>8. ASSUME NEW r \in Requests, r \in DOMAIN E PROVE Orderly(r)'
    <2>e. PICK e \in EntryType : e = E[r]
      BY <1>2, <1>8
    <2>1. Continues(e, r) /\ Regular(e, r)
      BY Zenon, <1>1, <1>E, <1>8, <2>e DEF Invariant, Planned, BroadcastInvariant, Orderly, Regulars
    <2>2. Regulars(r) /\ Grows(r) /\ Follows(r) /\ Told(r) /\ Life(r)
      BY DEF BroadcastInvariant, Orderly, Invariant
    <2>3. req'[r].tokens = req[r].tokens
      <3>q. PICK q \in RequestType : q = req[r]
        BY DEF Invariant, TypeOK
      <3>p. PICK p : p = req'[r]
        OBVIOUS
      <3>1. p = [q EXCEPT !.computed = @ + e.n, !.inflight = @ + e.n,
                          !.chunk = q.computed + e.n < q.tokens]
        BY Zenon, <1>1, <1>8, <2>e, <3>p, <3>q
      <3>2. p.tokens = q.tokens
        BY <3>1 DEF RequestType
      <3> QED
        BY <3>2, <3>p, <3>q
    <2>4. /\ e.start \in Int /\ e.n \in Int /\ e.n > 0 /\ e.total = req[r].tokens /\ e.total \in Nat
          /\ req[r].status = "running" /\ ~e.old /\ Prompt[r] \in Nat
      BY <2>1, Constants DEF Continues, Sane, EntryType
    <2>5. \A i : i \in InQueue(r)' <=> i = L + 1 \/ i \in InQueue(r)
      BY <1>3, <1>8 DEF InQueue
    <2>6. /\ Of(L + 1, r)' = e /\ ~Ran(L + 1)'
          /\ \A i \in InQueue(r) : Of(i, r)' = Of(i, r) /\ Ran(i)' = Ran(i) /\ i \in 1 .. L /\ i < L + 1
      <3>1. queue'[L + 1].entries[r] = e /\ ~queue'[L + 1].ran
        BY <1>3, <2>e
      <3>2. \A i \in InQueue(r) : queue'[i] = queue[i] /\ i \in 1 .. L
        BY <1>3 DEF InQueue
      <3> QED
        BY <3>1, <3>2 DEF Of, Ran
    <2>7. Regulars(r)'
      BY Zenon, <1>1, <2>1, <2>2, <2>5, <2>6 DEF Regulars
    <2>8. OnTime(r)'
      <3> SUFFICES ASSUME Prompt[r] < req[r].tokens
                   PROVE  \E i \in Fresh(r)' : Samples(Of(i, r))'
        BY <2>3 DEF OnTime
      <3>1. e.start + 1 = e.total
        BY <2>1, <2>4 DEF Regular
      <3>2. e.start + e.n >= e.total
        BY <2>4, <3>1
      <3>3. L + 1 \in Fresh(r)'
        BY <2>4, <2>5, <2>6 DEF Fresh
      <3>4. Samples(Of(L + 1, r))'
        BY <2>6, <3>2 DEF Samples, End
      <3> QED
        BY <3>3, <3>4
    <2>9. Grows(r)'
      <3>1. \A i \in InQueue(r) : Of(i, r).total <= e.total
        BY <2>2, <2>4 DEF Grows
      <3>2. \A i \in InQueue(r)' : Of(i, r)'.total <= e.total
        BY <2>4, <2>5, <2>6, <3>1
      <3>3. ASSUME NEW i \in InQueue(r)', NEW j \in InQueue(r)', i < j
            PROVE  Of(i, r)'.total <= Of(j, r)'.total
        <4>1. CASE j = L + 1
          BY <2>6, <3>2, <4>1
        <4>2. CASE j \in InQueue(r)
          <5>1. j \in 1 .. L /\ i # L + 1
            BY <2>6, <3>3, <4>2
          <5>2. i \in InQueue(r)
            BY <2>5, <5>1
          <5> QED
            BY <2>2, <2>6, <3>3, <4>2, <5>2 DEF Grows
        <4> QED
          BY <2>5, <4>1, <4>2
      <3> QED
        BY <2>3, <2>4, <3>2, <3>3 DEF Grows
    <2>10. Follows(r)'
      <3>1. Len(text[r]) <= e.total
        BY <2>2, <2>4 DEF Follows
      <3> QED
        BY Zenon, <1>1, <2>2, <2>3, <2>5, <2>6, <3>1 DEF Follows
    <2>11. Told(r)'
      <3> SUFFICES ASSUME NEW j \in InQueue(r)', ~Ran(j)', Of(j, r)'.kind = "cached",
                          ~(Prompt[r] <= known[r])
                   PROVE  \E i \in InQueue(r)' : i < j /\ ~Ran(i)' /\ Of(i, r)'.kind = "new"
        BY Zenon, <1>1 DEF Told
      <3>1. CASE j = L + 1
        <4>1. e.kind = "cached"
          BY <2>6, <3>1
        <4>2. Knows(r) /\ Living(r) /\ Live(r)
          BY <2>2, <2>4 DEF Life, Live
        <4>3. known[r] \in Nat /\ req[r].tokens \in Nat /\ Prompt[r] <= req[r].tokens
          BY <2>4, <4>2 DEF Invariant, TypeOK, Living
        <4>4. ~(req[r].tokens <= known[r])
          BY <2>4, <4>3
        <4>5. \E i \in InQueue(r) : ~Ran(i) /\ Of(i, r).kind = "new"
          BY <1>E, <2>e, <2>4, <4>1, <4>2, <4>4 DEF Knows
        <4> QED
          BY <2>5, <2>6, <3>1, <4>5
      <3>2. CASE j \in InQueue(r)
        <4>1. \E i \in InQueue(r) : i < j /\ ~Ran(i) /\ Of(i, r).kind = "new"
          BY <2>2, <2>6, <3>2 DEF Told
        <4> QED
          BY <2>5, <2>6, <4>1
      <3> QED
        BY <2>5, <3>1, <3>2
    <2> QED
      BY <2>7, <2>8, <2>9, <2>10, <2>11 DEF Orderly
  <1>9. text' \in [Requests -> Seq(Int)]
    BY Zenon, <1>1 DEF BroadcastInvariant
  <1> QED
    BY <1>4, <1>6, <1>7, <1>8, <1>9 DEF BroadcastInvariant

(* The last stage runs a batch: if it samples, the first stage has asked.  *)
LEMMA LastRunBroadcast ==
  ASSUME Invariant, BroadcastInvariant, NEW accepted, LastRun(accepted)
  PROVE  BroadcastInvariant'
  <1>d. PICK d : d = Due
    OBVIOUS
  <1>E. PICK E : E = queue[d].entries
    OBVIOUS
  <1>O. PICK O : queue' = [queue EXCEPT ![d].ran = TRUE, ![d].out = O]
    BY <1>d DEF LastRun, Work
  <1>c. PICK C : C = [r \in DOMAIN E |-> IF Sampled(E[r], r) THEN 1 + accepted[r] ELSE 0]
    OBVIOUS
  <1>1. /\ pc \in {"input", "wait"} /\ \E i \in DOMAIN queue : ~queue[i].ran
        /\ d <= seen /\ UNCHANGED <<pc, req, text, seen, wants>>
        /\ accepted \in [DOMAIN E -> 0 .. NumSpec]
        /\ known' = [r \in Requests |-> IF r \in DOMAIN E THEN Known(E[r], r) + C[r] ELSE known[r]]
        /\ sent' = IF NumSpec > 0 /\ \E r \in DOMAIN E : Sampled(E[r], r) THEN sent + 1 ELSE sent
    BY <1>d, <1>E, <1>c DEF LastRun, Work, engine
  <1>2. /\ queue \in Seq(BatchType) /\ d \in DOMAIN queue /\ d \in Nat /\ ~Ran(d)
        /\ \A i \in DOMAIN queue : Ran(i) <=> i < d
    BY <1>1, <1>d, DueIs DEF Invariant, TypeOK
  <1>3. /\ DOMAIN queue' = DOMAIN queue /\ Len(queue') = Len(queue) /\ DOMAIN queue = 1 .. Len(queue)
        /\ \A i \in DOMAIN queue : /\ queue'[i].entries = queue[i].entries
                                   /\ Ran(i)' <=> Ran(i) \/ i = d
    <2>1. DOMAIN queue' = DOMAIN queue /\ Len(queue') = Len(queue) /\ DOMAIN queue = 1 .. Len(queue)
      BY <1>O, <1>2
    <2>2. ASSUME NEW i \in DOMAIN queue
          PROVE  queue'[i].entries = queue[i].entries /\ (Ran(i)' <=> Ran(i) \/ i = d)
      <3>1. queue[i] \in BatchType
        BY <1>2, QueueIs
      <3>2. queue'[i].entries = queue[i].entries /\ (queue'[i].ran <=> queue[i].ran \/ i = d)
        BY <1>O, <1>2, <3>1 DEF BatchType
      <3> QED
        BY <3>2 DEF Ran
    <2> QED
      BY <2>1, <2>2
  <1>4. ~InSchedule /\ ~InSchedule'
    BY <1>1 DEF InSchedule
  <1>5. ASSUME NEW r \in DOMAIN E
        PROVE  /\ r \in Requests /\ d \in InQueue(r) /\ E[r] = Of(d, r)
               /\ Sampled(E[r], r) <=> Samples(E[r])
               /\ Known(E[r], r) \in Nat /\ Prompt[r] <= Known(E[r], r)
    <2>1. r \in Requests /\ d \in InQueue(r) /\ E[r] = Of(d, r) /\ Of(d, r) \in EntryType
      BY <1>2, <1>E, EntryIs DEF InQueue, Of, Invariant
    <2>e. PICK e \in EntryType : e = Of(d, r)
      BY <2>1
    <2>2. Sane(e, r) /\ Regular(e, r) /\ known[r] \in Nat
      BY <2>1, <2>e DEF Invariant, Life, SaneEntries, BroadcastInvariant, Orderly, Regulars, TypeOK
    <2>3. e.kind = "cached" => Prompt[r] <= known[r]
      <3>1. \A i \in InQueue(r) : i < d => Ran(i)
        BY <1>2 DEF InQueue
      <3> QED
        BY <1>2, <2>1, <2>e, <3>1 DEF BroadcastInvariant, Orderly, Told
    <2>4. (Sampled(e, r) <=> Samples(e)) /\ Known(e, r) \in Nat /\ Prompt[r] <= Known(e, r)
      BY <2>1, <2>2, <2>3, SampledIs
    <2> QED
      BY <2>1, <2>4, <2>e
  <1>6. Ahead'
    BY <1>1, <1>3 DEF BroadcastInvariant, Ahead
  <1>7. ASSUME NEW r \in Requests PROVE Orderly(r)'
    <2>1. InQueue(r)' = InQueue(r) /\ \A i \in InQueue(r) : Of(i, r)' = Of(i, r) /\ i \in DOMAIN queue
      BY <1>3 DEF InQueue, Of
    <2>2. Upheld(r) /\ Orderly(r)
      BY <1>1, <1>4, <2>1 DEF Upheld, BroadcastInvariant
    <2>3. Told(r)'
      <3> SUFFICES ASSUME NEW j \in InQueue(r), ~Ran(j)', Of(j, r).kind = "cached"
                   PROVE  \/ Prompt[r] <= known'[r]
                          \/ \E i \in InQueue(r) : i < j /\ ~Ran(i)' /\ Of(i, r).kind = "new"
        BY <2>1 DEF Told
      <3>1. ~Ran(j)
        BY <1>3, <2>1
      <3>2. CASE r \in DOMAIN E
        <4>1. known'[r] = Known(E[r], r) + C[r] /\ Known(E[r], r) \in Nat /\ Prompt[r] <= Known(E[r], r)
          BY <1>1, <1>5, <3>2
        <4>2. C[r] \in Nat
          <5>1. accepted[r] \in Nat /\ C[r] = IF Sampled(E[r], r) THEN 1 + accepted[r] ELSE 0
            BY <1>1, <1>c, <3>2
          <5> QED
            BY <5>1
        <4>p. PICK p \in Nat : p = Prompt[r]
          BY Constants
        <4>k. PICK k \in Nat : k = Known(E[r], r)
          BY <4>1
        <4>3. p <= k + C[r]
          BY <4>1, <4>2, <4>p, <4>k
        <4> QED
          BY <4>1, <4>3, <4>p, <4>k
      <3>3. CASE r \notin DOMAIN E
        <4>1. known'[r] = known[r]
          BY <1>1, <3>3
        <4>2. d \notin InQueue(r)
          BY <1>E, <3>3 DEF InQueue
        <4>3. \A i \in InQueue(r) : Ran(i)' <=> Ran(i)
          BY <1>3, <2>1, <4>2
        <4> QED
          BY <2>2, <3>1, <4>1, <4>3 DEF Orderly, Told
      <3> QED
        BY <3>2, <3>3
    <2> QED
      BY <1>1, <2>2, <2>3, UpheldKept DEF Orderly
  <1>8. (NumSpec > 0 /\ \E r \in DOMAIN E : Sampled(E[r], r)) <=> d \in Asked
    <2>1. d \in 1 .. seen
      <3>1. d \in 1 .. Len(queue) /\ seen \in 0 .. Len(queue) /\ Len(queue) \in Nat
        BY <1>2, <1>3 DEF BroadcastInvariant, Ahead
      <3> QED
        BY <1>1, <3>1
    <2> QED
      BY <1>2, <1>5, <1>E, <2>1 DEF Asked, Of
  <1>9. Asked' = Asked \ {d}
    <2>1. \A i \in 1 .. seen : i \in DOMAIN queue
      <3>1. seen \in 0 .. Len(queue) /\ Len(queue) \in Nat
        BY <1>2 DEF BroadcastInvariant, Ahead
      <3> QED
        BY <1>3, <3>1
    <2>2. ASSUME NEW i \in 1 .. seen PROVE i \in Asked' <=> i \in Asked /\ i # d
      <3>1. queue'[i].entries = queue[i].entries /\ (Ran(i)' <=> Ran(i) \/ i = d)
        BY <1>3, <2>1
      <3>2. i \in Asked' <=> NumSpec > 0 /\ ~Ran(i)' /\ \E r \in DOMAIN queue[i].entries : Samples(Of(i, r))
        BY <1>1, <3>1 DEF Asked, Of, Samples, End
      <3>3. i \in Asked <=> NumSpec > 0 /\ ~Ran(i) /\ \E r \in DOMAIN queue[i].entries : Samples(Of(i, r))
        BY DEF Asked
      <3> QED
        BY <3>1, <3>2, <3>3
    <2>3. Asked' \subseteq 1 .. seen /\ Asked \subseteq 1 .. seen
      BY <1>1 DEF Asked
    <2> QED
      BY <2>2, <2>3
  <1>10. Matched'
    <2>1. CASE d \in Asked
      <3>1. Asked = {d} /\ wants /\ sent = 0 /\ sent' = 1
        BY <1>1, <1>8, <2>1 DEF BroadcastInvariant, Matched
      <3>2. Asked' = {}
        BY <1>9, <3>1
      <3> QED
        BY <1>1, <3>1, <3>2 DEF BroadcastInvariant, Matched
    <2>2. CASE d \notin Asked
      <3>1. Asked' = Asked /\ sent' = sent
        BY <1>1, <1>8, <1>9, <2>2
      <3> QED
        BY <1>1, <3>1 DEF BroadcastInvariant, Matched
    <2> QED
      BY <2>1, <2>2
  <1>11. text' \in [Requests -> Seq(Int)]
    BY <1>1 DEF BroadcastInvariant
  <1> QED
    BY <1>6, <1>7, <1>10, <1>11 DEF BroadcastInvariant

(* The first stage runs a batch, and asks for a broadcast if it samples.   *)
LEMMA FirstRunBroadcast ==
  ASSUME Invariant, BroadcastInvariant, FirstRun
  PROVE  BroadcastInvariant'
  <1>j. PICK j : j = seen + 1
    OBVIOUS
  <1>E. PICK E : E = queue[j].entries
    OBVIOUS
  <1>1. /\ seen < Len(queue) /\ seen' = j /\ UNCHANGED <<queue, req, known, sent>> /\ ~InSchedule'
        /\ ~InSchedule /\ ~wants
        /\ text' = [r \in Requests |-> IF r \in DOMAIN E THEN TextAfter(E[r], r) ELSE text[r]]
        /\ wants' = (NumSpec > 0 /\ \E r \in DOMAIN E : ~Discards(E[r], r))
    BY <1>j, <1>E DEF FirstRun, vars, engine, worker, InSchedule
  <1>2. queue \in Seq(BatchType) /\ Len(queue) \in Nat /\ DOMAIN queue = 1 .. Len(queue)
    BY QueueIs DEF Invariant, TypeOK
  <1>L. PICK L \in Nat : L = Len(queue)
    BY Zenon, <1>2
  <1>3. seen \in Nat /\ j \in DOMAIN queue /\ j \in Nat /\ j \in 0 .. L /\ DOMAIN queue = 1 .. L
        /\ \A i \in DOMAIN queue : Ran(i) => i <= seen
    <2>1. seen \in 0 .. L /\ \A i \in DOMAIN queue : Ran(i) => i <= seen
      BY <1>L DEF BroadcastInvariant, Ahead
    <2> QED
      BY <1>1, <1>2, <1>L, <1>j, <2>1
  <1>4. ~Ran(j)
    BY <1>3, <1>j
  <1>5. ASSUME NEW r \in DOMAIN E
        PROVE  /\ r \in Requests /\ j \in InQueue(r) /\ E[r] = Of(j, r) /\ E[r] \in EntryType
               /\ Discards(E[r], r) <=> ~Samples(E[r])
               /\ TextAfter(E[r], r) \in Seq(Int)
               /\ Prompt[r] <= Len(TextAfter(E[r], r)) /\ Len(TextAfter(E[r], r)) <= E[r].total
    <2>1. r \in Requests /\ j \in InQueue(r) /\ E[r] = Of(j, r) /\ Of(j, r) \in EntryType
      BY <1>3, <1>E, EntryIs DEF InQueue, Of, Invariant
    <2>e. PICK e \in EntryType : e = Of(j, r)
      BY <2>1
    <2>2. Sane(e, r) /\ Regular(e, r) /\ text[r] \in Seq(Int)
      BY <2>1, <2>e DEF Invariant, Life, SaneEntries, BroadcastInvariant, Orderly, Regulars
    <2>3. j > seen
      BY <1>3, <1>j
    <2>4. Prompt[r] <= Len(text[r]) /\ Len(text[r]) <= e.total
      BY <2>1, <2>3, <2>e DEF BroadcastInvariant, Orderly, Follows
    <2>5. /\ Discards(e, r) <=> ~Samples(e)
          /\ TextAfter(e, r) \in Seq(Int)
          /\ Prompt[r] <= Len(TextAfter(e, r)) /\ Len(TextAfter(e, r)) <= e.total
      BY <2>1, <2>2, <2>4, DiscardsIs
    <2> QED
      BY <2>1, <2>5, <2>e
  <1>6. Ahead'
    <2>1. \A i \in DOMAIN queue : Ran(i) => i <= j
      BY <1>3, <1>j
    <2> QED
      BY <1>1, <1>3, <1>L, <2>1 DEF Ahead, Ran
  <1>7. text' \in [Requests -> Seq(Int)]
    <2>1. \A r \in Requests : text'[r] \in Seq(Int)
      BY <1>1, <1>5 DEF BroadcastInvariant
    <2> QED
      BY <1>1, <2>1
  <1>8. ASSUME NEW r \in Requests PROVE Orderly(r)'
    <2>1. Regulars(r) /\ OnTime(r) /\ Grows(r) /\ Follows(r) /\ Told(r)
      BY DEF BroadcastInvariant, Orderly
    <2>2. /\ InQueue(r)' = InQueue(r) /\ Fresh(r)' = Fresh(r)
          /\ \A i : Of(i, r)' = Of(i, r) /\ Ran(i)' = Ran(i) /\ Samples(Of(i, r))' = Samples(Of(i, r))
      BY <1>1 DEF InQueue, Fresh, Of, Ran, Samples, End
    <2>3. Regulars(r)'
      BY <1>1, <2>1, <2>2 DEF Regulars
    <2>4. OnTime(r)'
      BY <1>1, <2>1, <2>2 DEF OnTime
    <2>5. Grows(r)'
      BY <1>1, <2>1, <2>2 DEF Grows
    <2>6. Told(r)'
      BY <1>1, <2>1, <2>2 DEF Told
    <2>7. Follows(r)'
      <3>1. \A k \in InQueue(r) : k \in Nat /\ (k > j => k > seen)
        BY <1>3, <1>j DEF InQueue
      <3>2. CASE r \in DOMAIN E
        <4>u. PICK u : u = TextAfter(E[r], r)
          OBVIOUS
        <4>e. PICK e \in EntryType : e = E[r]
          BY <1>5, <3>2
        <4>1. /\ u \in Seq(Int) /\ Prompt[r] <= Len(u) /\ Len(u) <= e.total /\ text'[r] = u
              /\ j \in InQueue(r) /\ e = Of(j, r)
          BY <1>1, <1>5, <3>2, <4>u, <4>e
        <4>2. Len(u) \in Nat /\ e.total \in Nat /\ req[r].tokens \in Nat
          <5>1. Len(u) \in Nat
            BY <4>1
          <5>2. e.total \in Nat
            BY DEF EntryType
          <5>3. req[r] \in RequestType
            BY DEF Invariant, TypeOK
          <5> QED
            BY <5>1, <5>2, <5>3, RequestIs
        <4>3. e.total <= req[r].tokens
          BY <2>1, <4>1 DEF Grows
        <4>4. ASSUME NEW k \in InQueue(r), k > j PROVE Len(u) <= Of(k, r).total
          <5>1. e.total <= Of(k, r).total
            BY <1>3, <2>1, <3>1, <4>1, <4>4 DEF Grows
          <5>2. Of(k, r) \in EntryType
            BY <4>4, EntryIs DEF InQueue, Invariant
          <5>m. PICK m \in Nat : m = Of(k, r).total
            BY <5>2 DEF EntryType
          <5> QED
            BY <4>1, <4>2, <5>1, <5>m
        <4>5. Len(u) <= req[r].tokens
          BY <4>1, <4>2, <4>3
        <4> QED
          BY <1>1, <2>2, <4>1, <4>4, <4>5 DEF Follows
      <3>3. CASE r \notin DOMAIN E
        <4>1. text'[r] = text[r]
          BY <1>1, <3>3
        <4> QED
          BY <1>1, <2>1, <2>2, <3>1, <4>1 DEF Follows
      <3> QED
        BY <3>2, <3>3
    <2> QED
      BY <2>3, <2>4, <2>5, <2>6, <2>7 DEF Orderly
  <1>9. Matched'
    <2>1. Asked = {} /\ sent = 0
      BY <1>1 DEF BroadcastInvariant, Matched
    <2>2. wants' <=> (NumSpec > 0 /\ \E r \in DOMAIN E : Samples(E[r]))
      BY <1>1, <1>5
    <2>3. j \in Asked' <=> wants'
      <3>1. j \in 1 .. j
        BY <1>3
      <3> QED
        BY <1>1, <1>4, <1>E, <2>2, <3>1 DEF Asked, Ran, Of, Samples, End
    <2>4. \A i \in Asked' : i = j
      <3> SUFFICES ASSUME NEW i \in Asked', i # j PROVE FALSE
        OBVIOUS
      <3>1. i \in 1 .. j
        BY <1>1 DEF Asked
      <3>2. i \in 1 .. seen
        BY <1>3, <1>j, <3>1
      <3>3. i \in Asked
        BY <1>1, <3>2 DEF Asked, Ran, Of, Samples, End
      <3> QED
        BY <2>1, <3>3
    <2>5. wants' \in BOOLEAN
      BY <1>1
    <2> QED
      BY <1>1, <2>1, <2>3, <2>4, <2>5 DEF Matched
  <1> QED
    BY <1>6, <1>7, <1>8, <1>9 DEF BroadcastInvariant

(* What the oldest batch makes of a request: if it samples, what is left   *)
(* to compute is the last of the tokens it delivers.                       *)
LEMMA HeadTimely ==
  ASSUME queue \in Seq(BatchType), queue # <<>>, Ran(1), Outs,
         NEW r \in Requests, Life(r), Live(r), 1 \in InQueue(r),
         limit[r] \in Nat \ {0}, req[r] \in RequestType, Regulars(r),
         NEW p, p = Updated(r, req[r], Of(1, r), Out(1, r))
  PROVE  /\ p.tokens \in Nat /\ req[r].tokens <= p.tokens
         /\ Samples(Of(1, r)) =>
               /\ p.status = "finished" \/ p.computed + 1 = p.tokens
               /\ \A k \in InQueue(r) : k = 1
         /\ ~Samples(Of(1, r)) => p.computed = req[r].computed /\ p.tokens = req[r].tokens
  <1>q. PICK q \in RequestType : q = req[r]
    OBVIOUS
  <1>e. PICK e \in EntryType : e = Of(1, r)
    <2>1. queue[1] \in BatchType /\ r \in DOMAIN queue[1].entries
      BY QueueIs DEF InQueue
    <2> QED
      BY <2>1, BatchIs DEF Of
  <1>o. PICK o \in OutputType : o = Out(1, r)
    <2>1. queue[1] \in BatchType /\ r \in DOMAIN queue[1].entries /\ 1 \in DOMAIN queue
      BY QueueIs DEF InQueue
    <2>2. r \in DOMAIN queue[1].out
      BY <2>1 DEF Outs, Ran
    <2> QED
      BY <2>1, <2>2, BatchIs DEF Out, OutputType
  <1>1. q.stale = 0
    <2>1. Stale(r) = {}
      BY DEF Regulars, Regular, Stale
    <2>2. q.stale = OldTokens(r) /\ OldTokens(r) \in Nat /\ ~(OldTokens(r) > 0)
      BY <1>q, <2>1, CountsAre DEF Life
    <2> QED
      BY <2>2
  <1>2. /\ p.computed = q.computed - Rejected(q, e, o)
        /\ p.tokens = Smaller(q.tokens + o.count, Prompt[r] + limit[r])
        /\ p.status = IF o.count > 0 /\ p.tokens = Prompt[r] + limit[r] THEN "finished" ELSE q.status
    <2>1. ~Dropped(q)
      BY <1>1 DEF Dropped
    <2> QED
      BY <1>q, <1>e, <1>o, <2>1, UpdatedIs
  <1>3. 1 \in Valid(r) /\ 1 \in Fresh(r) /\ Regular(e, r)
    BY <1>e DEF Regulars, Regular, Valid, Fresh
  <1>4. /\ o.count > 0 <=> Samples(e)
        /\ Samples(e) => o.count <= 1 + e.spec
        /\ e.total = q.tokens
    BY <1>q, <1>e, <1>o, <1>3 DEF Life, Delivery, Totals
  <1>5. /\ o.count \in Nat /\ q.tokens \in Nat /\ q.computed \in Int /\ Prompt[r] \in Nat
        /\ e.spec \in Nat /\ Prompt[r] > 0 /\ limit[r] \in Nat
        /\ Prompt[r] <= q.tokens /\ q.tokens < Prompt[r] + limit[r]
    <2>1. o.count \in Nat /\ e.spec \in 0 .. NumSpec /\ NumSpec \in Nat /\ Prompt[r] \in Nat \ {0}
      BY Constants DEF OutputType, EntryType
    <2>2. q.tokens \in Nat /\ q.computed \in Int
      BY RequestIs
    <2>3. Living(r)
      BY DEF Life
    <2>4. Prompt[r] <= q.tokens /\ q.tokens < Prompt[r] + limit[r]
      BY <1>q, <2>3 DEF Living
    <2> QED
      BY <2>1, <2>2, <2>4
  <1>6. CASE Samples(e)
    <2>1. \A k \in InQueue(r) : k <= 1 /\ k \in Nat \ {0}
      BY <1>e, <1>3, <1>6, QueueIs DEF Life, SamplesLast, InQueue
    <2>2. \A k \in InQueue(r) : k = 1
      BY <2>1
    <2>3. q.computed = End(e)
      <3>1. \A k \in Fresh(r) : k <= 1
        BY <2>1 DEF Fresh
      <3> QED
        BY <1>q, <1>e, <1>3, <3>1 DEF Life, Reaches
    <2>4. q.computed = q.tokens + e.spec
      BY <1>3, <1>4, <1>6, <2>3 DEF Regular
    <2>5. p.computed = q.tokens + o.count - 1
      <3>1. CASE e.spec = 0
        <4>1. o.count = 1
          BY <1>4, <1>5, <1>6, <3>1
        <4>2. Rejected(q, e, o) = 0
          BY <3>1 DEF Rejected
        <4> QED
          BY <1>2, <1>5, <2>4, <3>1, <4>1, <4>2
      <3>2. CASE e.spec # 0
        <4>1. e.spec > 0 /\ o.count > 0 /\ q.computed > 0
          BY <1>4, <1>5, <1>6, <2>4, <3>2
        <4>2. Rejected(q, e, o) = e.spec - (o.count - 1)
          BY <1>1, <4>1 DEF Rejected
        <4> QED
          BY <1>2, <1>5, <2>4, <4>2
      <3> QED
        BY <3>1, <3>2
    <2>6. p.tokens \in Nat /\ q.tokens <= p.tokens
          /\ (p.tokens = Prompt[r] + limit[r] \/ p.tokens = q.tokens + o.count)
      BY <1>2, <1>5 DEF Smaller
    <2>7. p.status = "finished" \/ p.computed + 1 = p.tokens
      BY <1>2, <1>4, <1>5, <1>6, <2>5, <2>6
    <2> QED
      BY <1>q, <1>e, <1>6, <2>2, <2>6, <2>7
  <1>7. CASE ~Samples(e)
    <2>1. o.count = 0
      BY <1>4, <1>5, <1>7
    <2>2. Rejected(q, e, o) = 0
      BY <2>1 DEF Rejected
    <2>3. p.tokens = q.tokens
      BY <1>2, <1>5, <2>1 DEF Smaller
    <2> QED
      BY <1>q, <1>e, <1>2, <1>5, <1>7, <2>2, <2>3
  <1> QED
    BY <1>6, <1>7

(* update_from_output: the queue moves up.                                 *)
LEMMA UpdateBroadcast ==
  ASSUME Invariant, Waits, BroadcastInvariant, NEW A, StageUpdate(A)
  PROVE  BroadcastInvariant'
  <1>F. PICK F : F = [x \in Requests |->
                       IF Live(x) /\ x \notin A /\ x \in DOMAIN Head(queue).entries
                       THEN Updated(x, req[x], Head(queue).entries[x], Head(queue).out[x])
                       ELSE req[x]]
    OBVIOUS
  <1>D. PICK D : D = A \cup {x \in Requests : Live(x) /\ F[x].status = "finished"}
    BY Zenon
  <1>1. /\ Update(A) /\ ~InSchedule' /\ queue # <<>> /\ queue' = Tail(queue) /\ Head(queue).ran
        /\ seen' = seen - 1 /\ UNCHANGED <<text, wants, sent, known>>
    BY Zenon DEF StageUpdate, Update, Waits, worker, InSchedule
  <1>2. TypeOK /\ Outs /\ queue \in Seq(BatchType)
    BY DEF Invariant, TypeOK
  <1>3. \A r \in Requests : Settled(r, A, D, F[r])
    BY <1>1, <1>2, <1>F, <1>D, UpdateOf
  <1>L. PICK L \in Nat \ {0} : L = Len(queue)
    BY <1>1, <1>2
  <1>4. /\ Len(queue') = L - 1 /\ 1 \in DOMAIN queue /\ Ran(1)
        /\ DOMAIN queue' = 1 .. L - 1 /\ DOMAIN queue = 1 .. L
        /\ \A i \in DOMAIN queue' : i \in Nat \ {0} /\ i + 1 \in DOMAIN queue /\ queue'[i] = queue[i + 1]
    BY <1>1, <1>2, <1>L, ShiftIs, QueueIs DEF Ran
  <1>5. seen \in 1 .. L /\ \A i \in DOMAIN queue : Ran(i) => i <= seen
    <2>1. seen \in 0 .. L /\ \A i \in DOMAIN queue : Ran(i) => i <= seen
      BY <1>L DEF BroadcastInvariant, Ahead
    <2>2. 1 <= seen
      BY <1>4, <2>1
    <2> QED
      BY <2>1, <2>2
  <1>s. PICK s \in Nat : s = seen - 1
    BY <1>5
  <1>6. seen' = s /\ seen = s + 1 /\ s \in 0 .. L - 1
    BY <1>1, <1>5, <1>s
  <1>7. Ahead'
    <2>1. ASSUME NEW i \in DOMAIN queue', Ran(i)' PROVE i <= s
      <3>1. Ran(i + 1) /\ i \in Nat /\ i + 1 \in DOMAIN queue
        BY <1>4, <2>1 DEF Ran
      <3>2. i + 1 <= s + 1
        BY <1>5, <1>6, <3>1
      <3> QED
        BY <3>1, <3>2
    <2> QED
      BY <1>4, <1>6, <2>1 DEF Ahead
  <1>8. ASSUME NEW r \in Requests PROVE Orderly(r)'
    <2>1. Regulars(r) /\ OnTime(r) /\ Grows(r) /\ Follows(r) /\ Told(r) /\ Life(r)
      BY DEF BroadcastInvariant, Orderly, Invariant
    <2>2. /\ \A i \in InQueue(r) : i \in Nat \ {0} /\ (i # 1 => i - 1 \in InQueue(r)')
          /\ \A i \in InQueue(r)' :
                /\ i \in Nat \ {0} /\ i + 1 \in InQueue(r)
                /\ Of(i, r)' = Of(i + 1, r) /\ Ran(i)' = Ran(i + 1)
      BY <1>1, <1>2, ShiftIs
    <2>p. PICK p : p = F[r]
      OBVIOUS
    <2>3. Settled(r, A, D, p)
      BY <1>3, <2>p
    <2>4. limit[r] \in Nat \ {0} /\ req[r] \in RequestType /\ req[r].tokens \in Nat
      BY <1>2 DEF TypeOK, RequestType
    <2>5. Live(r) /\ 1 \in InQueue(r) /\ r \notin A =>
            /\ p.tokens \in Nat /\ req[r].tokens <= p.tokens
            /\ Samples(Of(1, r)) =>
                  /\ p.status = "finished" \/ p.computed + 1 = p.tokens
                  /\ \A k \in InQueue(r) : k = 1
            /\ ~Samples(Of(1, r)) => p.computed = req[r].computed /\ p.tokens = req[r].tokens
      <3> SUFFICES ASSUME Live(r), 1 \in InQueue(r), r \notin A
                   PROVE /\ p.tokens \in Nat /\ req[r].tokens <= p.tokens
                         /\ Samples(Of(1, r)) =>
                               /\ p.status = "finished" \/ p.computed + 1 = p.tokens
                               /\ \A k \in InQueue(r) : k = 1
                         /\ ~Samples(Of(1, r)) => p.computed = req[r].computed /\ p.tokens = req[r].tokens
        OBVIOUS
      <3>1. p = Updated(r, req[r], Of(1, r), Out(1, r))
        BY <2>3 DEF Settled
      <3> QED
        BY <1>1, <1>2, <1>4, <2>1, <2>4, <3>1, HeadTimely
    <2>6. req'[r].tokens = p.tokens /\ p.tokens \in Nat /\ req[r].tokens <= p.tokens
      BY <2>3, <2>4, <2>5 DEF Settled
    <2>7. Regulars(r)'
      BY <1>1, <2>1, <2>2 DEF Regulars
    <2>8. OnTime(r)'
      <3> SUFFICES ASSUME req'[r].status = "running", Prompt[r] < req'[r].tokens
                   PROVE  \/ Fresh(r)' = {} /\ req'[r].computed + 1 = req'[r].tokens
                          \/ \E i \in Fresh(r)' : Samples(Of(i, r))'
        BY DEF OnTime
      <3>1. /\ r \notin A /\ req[r].status = "running" /\ p.status = "running" /\ Live(r)
            /\ req'[r].computed = p.computed
        BY <2>3 DEF Settled, Alike, Live
      <3>2. CASE 1 \in InQueue(r) /\ Samples(Of(1, r))
        <4>1. p.computed + 1 = p.tokens /\ \A k \in InQueue(r) : k = 1
          BY <2>5, <3>1, <3>2
        <4>2. Fresh(r)' = {}
          <5> SUFFICES ASSUME NEW i \in InQueue(r)' PROVE FALSE
            BY DEF Fresh
          <5>1. i \in Nat \ {0} /\ i + 1 = 1
            BY <2>2, <4>1
          <5> QED
            BY <5>1
        <4> QED
          BY <2>6, <3>1, <4>1, <4>2
      <3>3. CASE ~(1 \in InQueue(r) /\ Samples(Of(1, r)))
        <4>1. p.computed = req[r].computed /\ p.tokens = req[r].tokens
          BY <2>3, <2>5, <3>1, <3>3 DEF Settled
        <4>2. \/ Fresh(r) = {} /\ req[r].computed + 1 = req[r].tokens
              \/ \E i \in Fresh(r) : Samples(Of(i, r))
          BY <2>1, <2>6, <3>1, <4>1 DEF OnTime
        <4>3. CASE Fresh(r) = {} /\ req[r].computed + 1 = req[r].tokens
          <5>1. \A i \in Fresh(r)' : i + 1 \in Fresh(r)
            BY <2>2 DEF Fresh
          <5> QED
            BY <2>6, <3>1, <4>1, <4>3, <5>1
        <4>4. CASE \E i \in Fresh(r) : Samples(Of(i, r))
          <5>1. PICK i \in Fresh(r) : Samples(Of(i, r))
            BY <4>4
          <5>2. i \in InQueue(r) /\ ~Of(i, r).old /\ i # 1
            BY <3>3, <5>1 DEF Fresh
          <5>k. PICK k \in Nat : k = i - 1
            BY <2>2, <5>2
          <5>3. k \in InQueue(r)' /\ k + 1 = i
            BY <2>2, <5>2, <5>k
          <5>4. Of(k, r)' = Of(i, r)
            BY <2>2, <5>3
          <5>5. k \in Fresh(r)' /\ Samples(Of(k, r))'
            BY <5>1, <5>2, <5>3, <5>4 DEF Fresh, Samples, End
          <5> QED
            BY <5>5
        <4> QED
          BY <4>2, <4>3, <4>4
      <3> QED
        BY <3>2, <3>3
    <2>9. Grows(r)'
      <3>1. ASSUME NEW i \in InQueue(r)' PROVE Of(i, r)'.total <= req'[r].tokens
        <4>1. Of(i, r)' = Of(i + 1, r) /\ i + 1 \in InQueue(r)
          BY <2>2
        <4>2. Of(i + 1, r) \in EntryType
          BY <1>2, <4>1, EntryIs DEF InQueue
        <4>m. PICK m \in Nat : m = Of(i + 1, r).total
          BY <4>2 DEF EntryType
        <4>3. m <= req[r].tokens
          BY <2>1, <4>1, <4>m DEF Grows
        <4> QED
          BY <2>4, <2>6, <4>1, <4>3, <4>m
      <3>2. ASSUME NEW i \in InQueue(r)', NEW j \in InQueue(r)', i < j
            PROVE  Of(i, r)'.total <= Of(j, r)'.total
        <4>1. i + 1 \in InQueue(r) /\ j + 1 \in InQueue(r) /\ i + 1 < j + 1
          BY <2>2, <3>2
        <4> QED
          BY <2>1, <2>2, <4>1 DEF Grows
      <3> QED
        BY <3>1, <3>2 DEF Grows
    <2>10. Follows(r)'
      <3>l. PICK l \in Nat : l = Len(text[r])
        BY DEF BroadcastInvariant
      <3>1. l <= req'[r].tokens
        BY <2>1, <2>4, <2>6, <3>l DEF Follows
      <3>2. ASSUME NEW j \in InQueue(r)', j > s PROVE l <= Of(j, r)'.total
        <4>1. j + 1 \in InQueue(r) /\ j + 1 > s + 1 /\ Of(j, r)' = Of(j + 1, r)
          BY <2>2, <3>2
        <4> QED
          BY <1>6, <2>1, <3>l, <4>1 DEF Follows
      <3> QED
        BY <1>1, <1>6, <2>1, <3>1, <3>2, <3>l DEF Follows
    <2>11. Told(r)'
      <3> SUFFICES ASSUME NEW j \in InQueue(r)', ~Ran(j)', Of(j, r)'.kind = "cached",
                          ~(Prompt[r] <= known[r])
                   PROVE  \E i \in InQueue(r)' : i < j /\ ~Ran(i)' /\ Of(i, r)'.kind = "new"
        BY <1>1 DEF Told
      <3>1. j + 1 \in InQueue(r) /\ ~Ran(j + 1) /\ Of(j + 1, r).kind = "cached" /\ j \in Nat
        BY <2>2
      <3>2. PICK i \in InQueue(r) : i < j + 1 /\ ~Ran(i) /\ Of(i, r).kind = "new"
        BY <2>1, <3>1 DEF Told
      <3>3. i # 1 /\ i \in Nat \ {0}
        BY <1>4, <2>2, <3>2
      <3>k. PICK k \in Nat : k = i - 1
        BY <3>3
      <3>4. k \in InQueue(r)' /\ k + 1 = i /\ k < j
        BY <2>2, <3>1, <3>2, <3>3, <3>k
      <3>5. Of(k, r)' = Of(i, r) /\ Ran(k)' = Ran(i)
        BY <2>2, <3>4
      <3> QED
        BY <3>2, <3>4, <3>5
    <2> QED
      BY <2>7, <2>8, <2>9, <2>10, <2>11 DEF Orderly
  <1>9. ASSUME NEW i \in Nat PROVE i \in Asked' <=> i + 1 \in Asked
    <2>1. CASE i \in 1 .. s
      <3>1. i \in DOMAIN queue' /\ i + 1 \in 1 .. seen
        BY <1>4, <1>6, <2>1
      <3>2. queue'[i] = queue[i + 1]
        BY <1>4, <3>1
      <3> QED
        BY <1>6, <2>1, <3>1, <3>2 DEF Asked, Ran, Of, Samples, End
    <2>2. CASE i \notin 1 .. s
      <3>1. i \notin Asked'
        BY <1>6, <2>2 DEF Asked
      <3>2. i = 0 \/ i + 1 \notin 1 .. seen
        BY <1>6, <2>2
      <3>3. i + 1 \notin Asked
        BY <1>4, <3>2 DEF Asked
      <3> QED
        BY <3>1, <3>3
    <2> QED
      BY <2>1, <2>2
  <1>10. Matched'
    <2>1. Asked' \subseteq Nat /\ Asked \subseteq Nat /\ 1 \notin Asked /\ 0 \notin Asked
      BY <1>4, <1>5, <1>6 DEF Asked
    <2>2. \A i \in Asked : i - 1 \in Nat /\ (i - 1) + 1 = i
      BY <2>1
    <2>3. Asked' # {} <=> Asked # {}
      BY <1>9, <2>1, <2>2
    <2>4. \A i, j \in Asked' : i = j
      <3> SUFFICES ASSUME NEW i \in Asked', NEW j \in Asked' PROVE i = j
        OBVIOUS
      <3>1. i \in Nat /\ j \in Nat /\ i + 1 \in Asked /\ j + 1 \in Asked
        BY <1>9, <2>1
      <3>2. i + 1 = j + 1
        BY <3>1 DEF BroadcastInvariant, Matched
      <3> QED
        BY <3>1, <3>2
    <2> QED
      BY <1>1, <2>3, <2>4 DEF BroadcastInvariant, Matched
  <1>11. text' \in [Requests -> Seq(Int)]
    BY <1>1 DEF BroadcastInvariant
  <1> QED
    BY <1>7, <1>8, <1>10, <1>11 DEF BroadcastInvariant

(* _glm5_pp_receive_spec                                                   *)
LEMMA ReceiveBroadcast ==
  ASSUME BroadcastInvariant, Receive
  PROVE  BroadcastInvariant'
  <1>1. UNCHANGED <<pc, step, req, queue, known, text, seen>> /\ wants /\ sent > 0 /\ ~wants' /\ sent' = sent - 1
        /\ wants' = FALSE
    BY DEF Receive, vars, engine, worker
  <1>2. Asked = {} /\ sent = 1
    BY <1>1 DEF BroadcastInvariant, Matched
  <1>3. Asked' = Asked
    BY <1>1 DEF Asked, Ran, Of, Samples, End
  <1>4. Matched'
    <2>1. wants' \in BOOLEAN /\ ~wants'
      BY <1>1, Zenon
    <2>2. sent' = 0
      BY <1>1, <1>2
    <2>3. Asked' = {}
      BY <1>2, <1>3
    <2> QED
      BY <2>1, <2>2, <2>3 DEF Matched
  <1>5. Ahead' /\ text' \in [Requests -> Seq(Int)]
    BY <1>1 DEF BroadcastInvariant, Ahead, Ran
  <1>6. \A r \in Requests : Orderly(r)'
    <2> SUFFICES ASSUME NEW r \in Requests PROVE Orderly(r)'
      OBVIOUS
    <2>1. Orderly(r)
      BY DEF BroadcastInvariant
    <2> QED
      BY <1>1, <2>1 DEF Orderly, Regulars, OnTime, Grows, Follows, Told, Fresh, InQueue, Of, Ran,
                        InSchedule, Samples, End
  <1> QED
    BY <1>4, <1>5, <1>6 DEF BroadcastInvariant

(* Nothing happens.                                                        *)
LEMMA StillBroadcast ==
  ASSUME BroadcastInvariant, UNCHANGED <<pc, step, req, queue, known, text, seen, wants, sent>>
  PROVE  BroadcastInvariant'
  BY DEF BroadcastInvariant, Ahead, Orderly, Regulars, OnTime, Grows, Follows, Told, Matched, Asked,
         Fresh, InQueue, Of, Ran, InSchedule, Samples, End

(* In the beginning the first stage has the prompts.                       *)
LEMMA InitBroadcast ==
  ASSUME StageInit
  PROVE  BroadcastInvariant
  <1>1. /\ queue = <<>> /\ pc = "input" /\ seen = 0 /\ wants = FALSE /\ sent = 0
        /\ text = [r \in Requests |-> Positions(1, Prompt[r])]
        /\ \A r \in Requests : req[r].tokens = Prompt[r]
    BY DEF StageInit, Init
  <1>2. DOMAIN queue = {} /\ Len(queue) = 0
    BY <1>1
  <1>3. \A r : InQueue(r) = {}
    BY <1>2 DEF InQueue
  <1>4. ASSUME NEW r \in Requests PROVE text[r] \in Seq(Int) /\ Len(text[r]) = Prompt[r]
    <2>n. PICK n \in Nat : n = Prompt[r]
      BY Constants
    <2>1. 0 \in Int /\ 0 + 1 = 1 /\ 0 + n = n
      OBVIOUS
    <2>2. Row(Positions(0 + 1, 0 + n), n)
      BY <2>1, PositionsIs
    <2>3. Row(text[r], n)
      BY <1>1, <2>n, <2>1, <2>2
    <2> QED
      BY <2>3, <2>n DEF Row
  <1>5. Ahead /\ text \in [Requests -> Seq(Int)]
    BY <1>1, <1>2, <1>4 DEF Ahead
  <1>6. Matched
    <2>1. 1 .. seen = {}
      BY <1>1
    <2>2. Asked = {}
      BY <2>1 DEF Asked
    <2>3. wants \in BOOLEAN /\ ~wants /\ sent = 0
      BY <1>1
    <2> QED
      BY <2>2, <2>3 DEF Matched
  <1>7. ASSUME NEW r \in Requests PROVE Orderly(r)
    <2>1. Prompt[r] \in Nat
      BY Constants
    <2> QED
      BY <1>1, <1>3, <1>4, <2>1 DEF Orderly, Regulars, OnTime, Grows, Follows, Told, InSchedule
  <1> QED
    BY <1>5, <1>6, <1>7 DEF BroadcastInvariant

(* Every step preserves it that preempts nobody.                           *)
LEMMA NextBroadcast ==
  ASSUME NumSpec > 0 => UseEagle, Invariant, Waits, NonePreempted, NonePreempted',
         BroadcastInvariant, [StageNext]_stageVars
  PROVE  BroadcastInvariant'
  <1>1. ASSUME Client \/ Block \/ Resume, UNCHANGED stage PROVE BroadcastInvariant'
    BY <1>1, ClientBroadcast
  <1>2. ASSUME SkipRunning \/ EndRunning \/ SkipStale \/ EndWaiting \/ Begin, UNCHANGED stage
        PROVE  BroadcastInvariant'
    BY <1>2, QuietBroadcast
  <1>3. ASSUME ScheduleRunning, UNCHANGED stage PROVE BroadcastInvariant'
    BY <1>3, ScheduleRunningBroadcast
  <1>4. ~PreemptLast
    <2> SUFFICES ASSUME PreemptLast PROVE FALSE
      OBVIOUS
    <2>1. PICK v : /\ v = Last(running) /\ pc = "running" /\ step.at <= Len(running)
                   /\ req' = [req EXCEPT ![v] = Preempted(req[v], FALSE)]
      BY DEF PreemptLast, Scheduling
    <2>2. /\ running \in Seq(Requests) /\ step.at \in Nat \ {0}
          /\ req \in [Requests -> RequestType]
      BY <2>1, PlanRequests DEF Invariant, TypeOK, InSchedule
    <2>3. v \in Requests
      <3>1. Len(running) \in DOMAIN running
        BY <2>1, <2>2
      <3> QED
        BY <2>1, <2>2, <3>1 DEF Last
    <2>4. req'[v] = Preempted(req[v], FALSE) /\ req[v] \in RequestType
      BY <2>1, <2>2, <2>3
    <2>5. req'[v].status = "preempted"
      BY <2>4, PreemptedIs
    <2> QED
      BY <2>3, <2>5 DEF NonePreempted
  <1>5. ASSUME NEW h, Admit(h), UNCHANGED stage PROVE BroadcastInvariant'
    BY <1>5, AdmitBroadcast
  <1>6. ASSUME Close, UNCHANGED stage PROVE BroadcastInvariant'
    BY <1>6, CloseBroadcast
  <1>7. ASSUME Schedule, UNCHANGED stage PROVE BroadcastInvariant'
    BY <1>2, <1>3, <1>4, <1>5, <1>6, <1>7 DEF Schedule
  <1>8. ASSUME NEW A, StageUpdate(A) PROVE BroadcastInvariant'
    BY <1>8, UpdateBroadcast
  <1>9. ASSUME NEW accepted, LastRun(accepted) PROVE BroadcastInvariant'
    BY <1>9, LastRunBroadcast
  <1>10. CASE FirstRun
    BY <1>10, FirstRunBroadcast
  <1>11. CASE Receive
    BY <1>11, ReceiveBroadcast
  <1>12. ASSUME Idle, UNCHANGED stage PROVE BroadcastInvariant'
    BY <1>12, StillBroadcast DEF Idle, vars, engine, worker, stage
  <1>13. CASE UNCHANGED stageVars
    BY <1>13, StillBroadcast DEF stageVars, vars, engine, worker, stage
  <1> QED
    BY <1>1, <1>2, <1>7, <1>8, <1>9, <1>10, <1>11, <1>12, <1>13
    DEF StageNext, StageEngine, First, LastStage

(* What is sent is what is waited for.                                     *)
LEMMA MatchedNow ==
  ASSUME BroadcastInvariant
  PROVE  BroadcastsMatch
  <1> SUFFICES ASSUME \A i \in 1 .. seen : queue[i].ran
               PROVE  sent = IF wants THEN 1 ELSE 0
    BY DEF BroadcastsMatch
  <1>1. Asked = {}
    BY DEF Asked, Ran
  <1> QED
    BY <1>1 DEF BroadcastInvariant, Matched

(* As long as nobody is preempted, the two stages of the pipeline never    *)
(* disagree about a broadcast of accepted tokens: each finds by itself,    *)
(* from its own copy of the texts, which batches sample.  Drafts come from *)
(* a model of the eagle family here, as the scheduler is configured.       *)
THEOREM BroadcastsInStep ==
  ASSUME NumSpec > 0 => UseEagle
  PROVE  StageSpec /\ []NonePreempted => []BroadcastsMatch
  <1> DEFINE All == Invariant /\ Waits /\ BroadcastInvariant
  <1>1. StageInit => All
    BY InitInvariant, InitBroadcast DEF StageInit, Init, Waits
  <1>2. All /\ NonePreempted /\ NonePreempted' /\ [StageNext]_stageVars => All'
    BY StageMoves, NextInvariant, NextWaits, NextBroadcast
  <1>3. All => BroadcastsMatch
    BY MatchedNow
  <1> QED
    BY <1>1, <1>2, <1>3, PTL DEF StageSpec
=============================================================================
