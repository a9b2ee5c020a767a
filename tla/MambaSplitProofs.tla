--------------------------- MODULE MambaSplitProofs ---------------------------
(***************************************************************************)
(* MambaSplit stops where it must, for any block sizes, budgets and        *)
(* lengths, and every step that has the whole budget moves it on.          *)
(*                                                                         *)
(* The argument.  A chunk ends where Split put it: at the whole budget cut *)
(* down to a block, or at the first mandatory stop inside it (SplitEnd).   *)
(* A chunk that jumped over a stop would contradict "first".  The stop for *)
(* the junction is relative to the chunk's start, and is a block boundary  *)
(* only when the start is; when the start is not, the end of its own block *)
(* is an earlier stop.                                                     *)
(***************************************************************************)
EXTENDS MambaSplit, TLAPS

-----------------------------------------------------------------------------
(* Arithmetic.                                                             *)

(* x in whole blocks of B.                                                 *)
LEMMA Quotient ==
  ASSUME NEW B \in Nat \ {0}, NEW x \in Nat
  PROVE  /\ x \div B \in Nat /\ (x \div B) * B \in Nat
         /\ (x \div B) * B <= x /\ x < (x \div B) * B + B
         /\ x % B = 0 => (x \div B) * B = x
  <1>1. x \div B \in Nat
    OBVIOUS
  <1>2. (x \div B) * B \in Nat
    BY <1>1
  <1>3. (x \div B) * B <= x
    OBVIOUS
  <1>4. x < (x \div B) * B + B
    OBVIOUS
  <1>5. x % B = 0 => (x \div B) * B = x
    OBVIOUS
  <1> QED
    BY <1>1, <1>2, <1>3, <1>4, <1>5

LEMMA Multiple ==
  ASSUME NEW B \in Nat \ {0}, NEW k \in Nat
  PROVE  k * B \in Nat /\ (k * B) % B = 0
  OBVIOUS

LEMMA MultipleBelow ==
  ASSUME NEW B \in Nat \ {0}, NEW k \in Nat, NEW j \in Nat, k * B < j * B + B
  PROVE  k <= j
  OBVIOUS

LEMMA MultipleUp ==
  ASSUME NEW B \in Nat \ {0}, NEW k \in Nat, NEW j \in Nat, k <= j
  PROVE  k * B <= j * B /\ (j - k) \in Nat /\ (j - k) * B = j * B - k * B
  OBVIOUS

LEMMA QuotientUnique ==
  ASSUME NEW B \in Nat \ {0}, NEW x \in Nat, NEW k \in Nat, k * B <= x, x < k * B + B
  PROVE  x \div B = k
  <1> DEFINE q == x \div B
  <1>1. q \in Nat /\ q * B <= x /\ x < q * B + B /\ q * B \in Nat
    BY Quotient
  <1> HIDE DEF q
  <1>2. k * B \in Nat
    OBVIOUS
  <1>3. k * B < q * B + B /\ q * B < k * B + B
    BY <1>1, <1>2
  <1>4. k <= q /\ q <= k
    BY <1>1, <1>3, MultipleBelow
  <1>5. q = k
    BY <1>1, <1>4
  <1> QED
    BY <1>5 DEF q

LEMMA MultipleOf ==
  ASSUME NEW B \in Nat \ {0}, NEW x \in Nat, x % B = 0
  PROVE  \E k \in Nat : x = k * B
  BY Quotient

(* A set with a least element, or an empty one, with one element more.     *)
HasLeast(S) == S = {} \/ \E s \in S : \A t \in S : s <= t

LEMMA LeastAdd ==
  ASSUME NEW S \in SUBSET Int, NEW d \in Int, HasLeast(S)
  PROVE  HasLeast(S \cup {d})
  <1>1. CASE S = {}
    BY <1>1 DEF HasLeast
  <1>2. CASE \E s \in S : \A t \in S : s <= t
    <2>1. PICK s \in S : \A t \in S : s <= t
      BY <1>2
    <2>2. CASE s <= d
      BY <2>1, <2>2 DEF HasLeast
    <2>3. CASE d < s
      <3>1. \A t \in S : d <= t
        BY <2>1, <2>3
      <3> QED
        BY <3>1 DEF HasLeast
    <2> QED
      BY <2>2, <2>3
  <1> QED
    BY <1>1, <1>2 DEF HasLeast

LEMMA LeastOfFour ==
  ASSUME NEW a \in Int, NEW b \in Int, NEW c \in Int, NEW d \in Int,
         NEW S \in SUBSET {a, b, c, d}
  PROVE  HasLeast(S)
  <1>1. HasLeast(S \cap {})
    BY DEF HasLeast
  <1>2. \A T \in SUBSET Int, e \in Int : HasLeast(S \cap T) => HasLeast(S \cap (T \cup {e}))
    <2> SUFFICES ASSUME NEW T \in SUBSET Int, NEW e \in Int, HasLeast(S \cap T)
                 PROVE  HasLeast(S \cap (T \cup {e}))
      OBVIOUS
    <2>1. CASE e \in S
      <3>1. S \cap (T \cup {e}) = (S \cap T) \cup {e}
        BY <2>1
      <3>2. S \cap T \in SUBSET Int
        OBVIOUS
      <3> QED
        BY <3>1, <3>2, LeastAdd
    <2>2. CASE e \notin S
      <3>1. S \cap (T \cup {e}) = S \cap T
        BY <2>2
      <3> QED
        BY <3>1
    <2> QED
      BY <2>1, <2>2
  <1>3. HasLeast(S \cap ((((({}) \cup {a}) \cup {b}) \cup {c}) \cup {d}))
    <2>1. HasLeast(S \cap ({} \cup {a}))
      BY <1>1, <1>2
    <2>2. HasLeast(S \cap (({} \cup {a}) \cup {b}))
      BY <1>2, <2>1
    <2>3. HasLeast(S \cap ((({} \cup {a}) \cup {b}) \cup {c}))
      BY <1>2, <2>2
    <2> QED
      BY <1>2, <2>3
  <1>4. S \cap (((({} \cup {a}) \cup {b}) \cup {c}) \cup {d}) = S
    OBVIOUS
  <1> QED
    BY <1>3, <1>4

-----------------------------------------------------------------------------
(* Blocks.                                                                 *)

LEMMA FloorFacts ==
  ASSUME NEW x \in Nat
  PROVE  /\ Floor(x) \in Nat /\ Floor(x) <= x /\ x < Floor(x) + BlockSize
         /\ Floor(x) % BlockSize = 0
         /\ x % BlockSize = 0 => Floor(x) = x
         /\ \E j \in Nat : Floor(x) = j * BlockSize
  <1> DEFINE q == x \div BlockSize
  <1>1. BlockSize \in Nat \ {0}
    BY SplitAssumption
  <1>2. /\ q \in Nat /\ q * BlockSize \in Nat
        /\ q * BlockSize <= x /\ x < q * BlockSize + BlockSize
        /\ x % BlockSize = 0 => q * BlockSize = x
    BY <1>1, Quotient
  <1>3. Floor(x) = q * BlockSize
    BY DEF Floor
  <1> HIDE DEF q
  <1>4. (q * BlockSize) % BlockSize = 0
    BY <1>1, <1>2, Multiple
  <1> QED
    BY <1>2, <1>3, <1>4

(* No block boundary lies between Floor(x) and x.                          *)
LEMMA FloorLargest ==
  ASSUME NEW x \in Nat, NEW y \in Nat, y % BlockSize = 0, y <= x
  PROVE  y <= Floor(x)
  <1>0. BlockSize \in Nat \ {0}
    BY SplitAssumption
  <1>1. PICK k \in Nat : y = k * BlockSize
    BY <1>0, MultipleOf
  <1>2. PICK j \in Nat : Floor(x) = j * BlockSize
    BY FloorFacts
  <1>3. Floor(x) \in Nat /\ x < Floor(x) + BlockSize
    BY FloorFacts
  <1>4. k * BlockSize < j * BlockSize + BlockSize
    BY <1>0, <1>1, <1>2, <1>3
  <1>5. k <= j
    BY <1>0, <1>4, MultipleBelow
  <1> QED
    BY <1>0, <1>1, <1>2, <1>5, MultipleUp

(* The block boundaries next to Floor(x).                                  *)
LEMMA FloorNext ==
  ASSUME NEW x \in Nat
  PROVE  /\ Floor(x) + BlockSize \in Nat /\ (Floor(x) + BlockSize) % BlockSize = 0
         /\ Floor(x) >= BlockSize =>
              Floor(x) - BlockSize \in Nat /\ (Floor(x) - BlockSize) % BlockSize = 0
  <1>0. BlockSize \in Nat \ {0}
    BY SplitAssumption
  <1>1. PICK j \in Nat : Floor(x) = j * BlockSize
    BY FloorFacts
  <1>2. j * BlockSize + BlockSize = (j + 1) * BlockSize
    BY <1>0
  <1>3. j + 1 \in Nat
    OBVIOUS
  <1>4. ASSUME Floor(x) >= BlockSize
        PROVE  Floor(x) - BlockSize \in Nat /\ (Floor(x) - BlockSize) % BlockSize = 0
    <2>1. j >= 1
      <3>1. CASE j = 0
        BY <1>0, <1>1, <1>4, <3>1
      <3> QED
        BY <3>1
    <2>2. j - 1 \in Nat /\ j * BlockSize - BlockSize = (j - 1) * BlockSize
      BY <1>0, <2>1
    <2> QED
      BY <1>0, <1>1, <2>2, Multiple
  <1> QED
    BY <1>0, <1>1, <1>2, <1>3, <1>4, Multiple

(* Counting blocks from a block boundary is counting them from zero.       *)
LEMMA FloorShift ==
  ASSUME NEW x \in Nat, NEW y \in Nat, y % BlockSize = 0, y <= x
  PROVE  y + Floor(x - y) = Floor(x)
  <1>0. BlockSize \in Nat \ {0}
    BY SplitAssumption
  <1>1. PICK k \in Nat : y = k * BlockSize
    BY <1>0, MultipleOf
  <1>2. PICK j \in Nat : Floor(x) = j * BlockSize
    BY FloorFacts
  <1>3. k * BlockSize <= j * BlockSize
    BY <1>1, <1>2, FloorLargest
  <1>4. k * BlockSize < j * BlockSize + BlockSize
    BY <1>0, <1>3
  <1>5. k <= j
    BY <1>0, <1>4, MultipleBelow
  <1>6. (j - k) \in Nat /\ (j - k) * BlockSize = j * BlockSize - k * BlockSize
    BY <1>0, <1>5, MultipleUp
  <1>7. j * BlockSize <= x /\ x < j * BlockSize + BlockSize /\ j * BlockSize \in Nat
    BY <1>2, FloorFacts
  <1> DEFINE m == (j - k) * BlockSize
  <1>8. x - y \in Nat /\ m <= x - y /\ x - y < m + BlockSize
    BY <1>0, <1>1, <1>6, <1>7
  <1>9. (x - y) \div BlockSize = j - k
    BY <1>0, <1>6, <1>8, QuotientUnique
  <1>10. Floor(x - y) = m
    BY <1>9 DEF Floor
  <1> QED
    BY <1>0, <1>1, <1>2, <1>6, <1>7, <1>10

-----------------------------------------------------------------------------
(* The state.                                                              *)

TypeOK ==
    /\ prompt \in Nat \ {0} /\ tokens \in Nat /\ prompt <= tokens
    /\ junction \in Nat /\ (junction = 0 \/ junction < prompt)
    /\ pos \in Nat /\ pos <= tokens
    /\ ends \in SUBSET Nat

(* It has been at the end of every chunk, and at none beyond.              *)
Passed == pos \in ends /\ \A e \in ends : e <= pos

(* Where it began.                                                         *)
Began == \E f \in ends : \A x \in ends : f <= x

IInv == TypeOK /\ Passed /\ Began /\ EndsAligned /\ CacheStopsVisited

LEMMA Positions ==
  ASSUME TypeOK
  PROVE  /\ PrefillEnd(prompt, tokens) \in Nat /\ prompt <= PrefillEnd(prompt, tokens)
         /\ tokens - 1 <= PrefillEnd(prompt, tokens) /\ PrefillEnd(prompt, tokens) <= tokens
         /\ LastCachePosition(tokens) \in Nat /\ LastCachePosition(tokens) % BlockSize = 0
         /\ TailBoundary(prompt, tokens) \in Nat
  <1>1. tokens \in Nat /\ prompt \in Nat \ {0} /\ prompt <= tokens
    BY DEF TypeOK
  <1>2. /\ PrefillEnd(prompt, tokens) \in Nat /\ prompt <= PrefillEnd(prompt, tokens)
        /\ tokens - 1 <= PrefillEnd(prompt, tokens) /\ PrefillEnd(prompt, tokens) <= tokens
    BY <1>1 DEF PrefillEnd, Larger
  <1>3. /\ Floor(tokens) \in Nat /\ Floor(tokens) % BlockSize = 0 /\ BlockSize \in Nat \ {0}
        /\ Floor(tokens) >= BlockSize =>
             Floor(tokens) - BlockSize \in Nat /\ (Floor(tokens) - BlockSize) % BlockSize = 0
    BY <1>1, FloorFacts, FloorNext, SplitAssumption
  <1>4. 0 % BlockSize = 0
    BY <1>3
  <1>5. LastCachePosition(tokens) \in Nat /\ LastCachePosition(tokens) % BlockSize = 0
    BY <1>3, <1>4 DEF LastCachePosition, Larger
  <1>6. TailBoundary(prompt, tokens) \in Nat
    <2>1. HashBlock \in Nat \ {0}
      BY SplitAssumption
    <2>2. (prompt \div HashBlock) * HashBlock \in Nat
      BY <1>1, <2>1, Quotient
    <2> QED
      BY <2>2 DEF TailBoundary
  <1> QED
    BY <1>2, <1>5, <1>6

(* The stop for the junction, and the one for the block the chunk is in.   *)
BlockStop(start) == IF start % BlockSize # 0 THEN Floor(start) + BlockSize ELSE 0

JunctionStop(start, end) ==
    IF start < junction /\ junction < end THEN start + Floor(junction - start) ELSE 0

LEMMA StopsType ==
  ASSUME TypeOK, NEW end \in Nat
  PROVE  /\ BlockStop(pos) \in Nat /\ JunctionStop(pos, end) \in Nat
         /\ Stops(pos, end, prompt, tokens, junction) =
              {BlockStop(pos), LastCachePosition(tokens), TailBoundary(prompt, tokens),
               JunctionStop(pos, end)}
  <1>1. pos \in Nat /\ junction \in Nat /\ BlockSize \in Nat
    BY SplitAssumption DEF TypeOK
  <1>2. BlockStop(pos) \in Nat
    BY <1>1, FloorNext DEF BlockStop
  <1>3. JunctionStop(pos, end) \in Nat
    <2>1. CASE pos < junction
      <3>1. junction - pos \in Nat
        BY <1>1, <2>1
      <3> QED
        BY <1>1, <3>1, FloorFacts DEF JunctionStop
    <2> QED
      BY <2>1 DEF JunctionStop
  <1> QED
    BY <1>2, <1>3 DEF Stops, BlockStop, JunctionStop

-----------------------------------------------------------------------------
(* What Split returns.                                                     *)

Whole(n) == Aligned(pos, pos + n, prompt, tokens)

(* end is where a chunk from pos ends that would best end at whole.        *)
Cut(whole, end) ==
    /\ end <= whole
    /\ \/ end = whole
       \/ pos < end /\ end \in Stops(pos, whole, prompt, tokens, junction)
    /\ \A s \in Stops(pos, whole, prompt, tokens, junction) : pos < s /\ s < whole => end <= s

LEMMA WholeFacts ==
  ASSUME TypeOK, NEW n \in Nat
  PROVE  /\ Whole(n) \in Nat /\ Whole(n) <= pos + n
         /\ Whole(n) = pos + n \/ Whole(n) = Floor(pos + n)
  <1>1. pos + n \in Nat
    BY DEF TypeOK
  <1>2. Floor(pos + n) \in Nat /\ Floor(pos + n) <= pos + n
    BY <1>1, FloorFacts
  <1> QED
    BY <1>1, <1>2 DEF Whole, Aligned

LEMMA SplitEnd ==
  ASSUME TypeOK, NEW n \in Nat, pos < PrefillEnd(prompt, tokens)
  PROVE  \E end \in Nat :
           /\ Split(pos, n, prompt, tokens, junction) = Larger(end - pos, 0)
           /\ Cut(Whole(n), end)
           /\ pos < Whole(n) => pos < end
  <1> DEFINE whole == Whole(n)
             stops == Stops(pos, whole, prompt, tokens, junction)
             inside == {s \in stops : pos < s /\ s < whole}
             end == IF inside = {} THEN whole ELSE CHOOSE s \in inside : \A t \in inside : s <= t
  <1>1. pos \in Nat /\ ~ (pos >= PrefillEnd(prompt, tokens))
    BY Positions DEF TypeOK
  <1>2. Split(pos, n, prompt, tokens, junction) = Larger(end - pos, 0)
    BY <1>1 DEF Split, Whole
  <1>3. whole \in Nat
    BY WholeFacts
  <1> HIDE DEF whole
  <1>4. stops = {BlockStop(pos), LastCachePosition(tokens), TailBoundary(prompt, tokens),
                 JunctionStop(pos, whole)}
        /\ BlockStop(pos) \in Nat /\ JunctionStop(pos, whole) \in Nat
        /\ LastCachePosition(tokens) \in Nat /\ TailBoundary(prompt, tokens) \in Nat
    BY <1>3, StopsType, Positions
  <1> HIDE DEF stops
  <1>5. stops \in SUBSET Nat
    BY <1>4
  <1>6. HasLeast(inside)
    <2>1. inside \in SUBSET {BlockStop(pos), LastCachePosition(tokens), TailBoundary(prompt, tokens),
                 JunctionStop(pos, whole)}
      BY <1>4
    <2>2. /\ BlockStop(pos) \in Int /\ JunctionStop(pos, whole) \in Int
          /\ LastCachePosition(tokens) \in Int /\ TailBoundary(prompt, tokens) \in Int
      BY <1>4
    <2> HIDE DEF inside
    <2> QED
      BY ONLY <2>1, <2>2, LeastOfFour
  <1>7. CASE inside = {}
    <2>1. end = whole
      BY <1>7
    <2>2. Cut(whole, whole)
      BY <1>3, <1>5, <1>7 DEF Cut, stops
    <2> QED
      BY <1>2, <1>3, <2>1, <2>2 DEF whole
  <1>8. CASE inside # {}
    <2> HIDE DEF inside
    <2>1. \E s \in inside : \A t \in inside : s <= t
      BY <1>6, <1>8 DEF HasLeast
    <2>2. end \in inside /\ \A t \in inside : end <= t
      BY <1>8, <2>1
    <2> HIDE DEF end
    <2>3. end \in Nat /\ end \in stops /\ pos < end /\ end < whole
          /\ \A t \in stops : pos < t /\ t < whole => end <= t
      BY <1>5, <2>2 DEF inside
    <2>4. Cut(whole, end)
      BY <1>3, <2>3 DEF Cut, stops
    <2> QED
      BY <1>2, <2>3, <2>4 DEF whole
  <1> QED
    BY <1>7, <1>8

(* A step.                                                                 *)
LEMMA Chunk ==
  ASSUME TypeOK, NEW budget \in 1 .. MaxPrefill, Step(budget)
  PROVE  /\ pos' \in Nat /\ pos < pos' /\ pos' <= tokens
         /\ ends' = ends \cup {pos'} /\ UNCHANGED <<prompt, tokens, junction>>
         /\ pos < PrefillEnd(prompt, tokens) =>
              \E n \in Nat : /\ pos + n <= tokens /\ n <= MaxPrefill
                             /\ Cut(Whole(n), pos')
  <1> DEFINE n == Smaller(tokens - pos, budget)
  <1>1. pos \in Nat /\ tokens \in Nat /\ pos < tokens /\ MaxPrefill \in Nat
    BY SplitAssumption DEF TypeOK, Step
  <1>2. n \in Nat /\ pos + n <= tokens /\ n <= MaxPrefill
    BY <1>1 DEF Smaller
  <1>3. /\ Split(pos, n, prompt, tokens, junction) > 0
        /\ pos' = pos + Split(pos, n, prompt, tokens, junction)
        /\ ends' = ends \cup {pos'} /\ UNCHANGED <<prompt, tokens, junction>>
    BY DEF Step
  <1> HIDE DEF n
  <1>4. CASE pos < PrefillEnd(prompt, tokens)
    <2>1. PICK end \in Nat : /\ Split(pos, n, prompt, tokens, junction) = Larger(end - pos, 0)
                             /\ Cut(Whole(n), end)
      BY <1>2, <1>4, SplitEnd
    <2>2. pos < end /\ pos' = end
      <3>1. Larger(end - pos, 0) > 0 /\ pos' = pos + Larger(end - pos, 0)
        BY <1>3, <2>1
      <3>2. pos < end
        BY <1>1, <3>1 DEF Larger
      <3>3. Larger(end - pos, 0) = end - pos
        BY <1>1, <3>2 DEF Larger
      <3> QED
        BY <1>1, <3>1, <3>2, <3>3
    <2>3. end <= Whole(n) /\ Whole(n) \in Nat /\ Whole(n) <= pos + n
      BY <1>2, <2>1, WholeFacts DEF Cut
    <2>4. end <= tokens
      BY <1>1, <1>2, <2>3
    <2> QED
      BY <1>2, <1>3, <2>1, <2>2, <2>4
  <1>5. CASE ~ (pos < PrefillEnd(prompt, tokens))
    <2>1. pos >= PrefillEnd(prompt, tokens)
      BY <1>1, <1>5, Positions
    <2>2. Split(pos, n, prompt, tokens, junction) = n
      BY <2>1 DEF Split
    <2> QED
      BY <1>1, <1>2, <1>3, <1>5, <2>2
  <1> QED
    BY <1>4, <1>5

-----------------------------------------------------------------------------
(* The invariant.                                                          *)

LEMMA InvInit == Init => IInv
  <1> SUFFICES ASSUME Init  PROVE IInv
    OBVIOUS
  <1>1. TypeOK /\ ends = {pos}
    BY MaxTokensAssumption DEF Init, TypeOK
  <1>2. Passed /\ Began
    BY <1>1 DEF Passed, Began, TypeOK
  <1>3. EndsAligned
    BY <1>1 DEF EndsAligned, TypeOK
  <1>4. CacheStopsVisited
    <2> SUFFICES ASSUME NEW s \in {LastCachePosition(tokens), TailBoundary(prompt, tokens), Floor(junction)},
                        pos > s, NEW e \in ends, e < s
                 PROVE  s \in ends
      BY DEF CacheStopsVisited
    <2>1. e = pos
      BY <1>1
    <2>2. s \in Nat /\ pos \in Nat
      BY <1>1, Positions, FloorFacts DEF TypeOK
    <2> QED
      BY <2>1, <2>2
  <1> QED
    BY <1>1, <1>2, <1>3, <1>4 DEF IInv

(* The stop for the junction is a block boundary, unless the chunk's own   *)
(* block ends before it.                                                   *)
LEMMA JunctionAligned ==
  ASSUME TypeOK, NEW whole \in Nat, NEW end \in Nat, Cut(whole, end),
         pos < end, end = JunctionStop(pos, whole), end # whole
  PROVE  end % BlockSize = 0
  <1>1. pos \in Nat /\ junction \in Nat /\ BlockSize \in Nat \ {0}
    BY SplitAssumption DEF TypeOK
  <1>2. pos < junction /\ end = pos + Floor(junction - pos)
    BY <1>1 DEF JunctionStop
  <1>3. CASE pos % BlockSize = 0
    <2>1. end = Floor(junction)
      BY <1>1, <1>2, <1>3, FloorShift
    <2> QED
      BY <1>1, <2>1, FloorFacts
  <1>4. CASE pos % BlockSize # 0
    <2> DEFINE f == Floor(junction - pos)
               g == Floor(pos)
    <2>1. junction - pos \in Nat
      BY <1>1, <1>2
    <2>2. f \in Nat /\ \E j \in Nat : f = j * BlockSize
      BY <2>1, FloorFacts
    <2>3. f >= BlockSize
      <3>1. PICK j \in Nat : f = j * BlockSize
        BY <2>2
      <3>2. f > 0
        BY <1>1, <1>2, <2>2
      <3>3. j # 0
        <4>1. CASE j = 0
          BY <1>1, <3>1, <3>2, <4>1
        <4> QED
          BY <4>1
      <3>4. 1 * BlockSize <= j * BlockSize
        BY <1>1, <3>3, MultipleUp
      <3> QED
        BY <1>1, <3>1, <3>4
    <2>4. g \in Nat /\ g <= pos /\ pos < g + BlockSize /\ (g = pos => g % BlockSize = 0)
      BY <1>1, FloorFacts
    <2>5. BlockStop(pos) = g + BlockSize
      BY <1>4 DEF BlockStop
    <2>6. BlockStop(pos) \in Stops(pos, whole, prompt, tokens, junction)
      BY StopsType
    <2>7. end = pos + f
      BY <1>2
    <2>8. g # pos
      BY <1>4, <2>4
    <2> HIDE DEF f, g
    <2>9. g + BlockSize < end /\ pos < g + BlockSize
      BY <1>1, <2>2, <2>3, <2>4, <2>7, <2>8
    <2>10. end <= whole
      BY DEF Cut
    <2>11. end <= g + BlockSize
      BY <1>1, <2>4, <2>5, <2>6, <2>9, <2>10 DEF Cut
    <2> QED
      BY <1>1, <2>4, <2>9, <2>11
  <1> QED
    BY <1>3, <1>4

(* The end of a chunk.                                                     *)
LEMMA EndAligned ==
  ASSUME TypeOK, NEW budget \in 1 .. MaxPrefill, Step(budget), BlockSize <= MaxPrefill
  PROVE  \/ pos' % BlockSize = 0
         \/ pos' >= PrefillEnd(prompt, tokens)
         \/ pos' = TailBoundary(prompt, tokens)
  <1>1. pos' \in Nat /\ pos < pos' /\ pos \in Nat /\ PrefillEnd(prompt, tokens) \in Nat
        /\ BlockSize \in Nat \ {0}
    BY Chunk, Positions, SplitAssumption DEF TypeOK
  <1>2. CASE ~ (pos < PrefillEnd(prompt, tokens))
    <2>1. pos' >= PrefillEnd(prompt, tokens)
      BY <1>1, <1>2
    <2> QED
      BY <2>1
  <1>3. CASE pos < PrefillEnd(prompt, tokens)
    <2>1. PICK n \in Nat : Cut(Whole(n), pos')
      BY <1>3, Chunk
    <2>2. Whole(n) \in Nat
      BY WholeFacts
    <2>3. CASE pos' = Whole(n)
      <3>1. CASE pos + n < PrefillEnd(prompt, tokens)
        <4>1. Whole(n) = Floor(pos + n)
          BY <3>1 DEF Whole, Aligned
        <4>2. pos + n \in Nat
          BY <1>1
        <4> QED
          BY <2>3, <4>1, <4>2, FloorFacts
      <3>2. CASE ~ (pos + n < PrefillEnd(prompt, tokens))
        <4>1. Whole(n) = pos + n
          BY <3>2 DEF Whole, Aligned
        <4>2. pos' >= PrefillEnd(prompt, tokens)
          BY <1>1, <2>3, <3>2, <4>1
        <4> QED
          BY <4>2
      <3> QED
        BY <3>1, <3>2
    <2>4. CASE pos' # Whole(n)
      <3>1. pos' \in {BlockStop(pos), LastCachePosition(tokens), TailBoundary(prompt, tokens),
                      JunctionStop(pos, Whole(n))}
        BY <2>1, <2>2, <2>4, StopsType DEF Cut
      <3>2. CASE pos' = BlockStop(pos)
        <4>1. pos' = Floor(pos) + BlockSize
          BY <1>1, <3>2 DEF BlockStop
        <4> QED
          BY <1>1, <4>1, FloorNext
      <3>3. CASE pos' = LastCachePosition(tokens)
        BY <3>3, Positions
      <3>4. CASE pos' = JunctionStop(pos, Whole(n))
        BY <1>1, <2>1, <2>2, <2>4, <3>4, JunctionAligned
      <3> QED
        BY <3>1, <3>2, <3>3, <3>4
    <2> QED
      BY <2>3, <2>4
  <1> QED
    BY <1>2, <1>3

(* No chunk jumps over a position the cache is looked up at.               *)
LEMMA NoJump ==
  ASSUME TypeOK, NEW budget \in 1 .. MaxPrefill, Step(budget),
         NEW s \in {LastCachePosition(tokens), TailBoundary(prompt, tokens), Floor(junction)},
         pos < s, s < pos'
  PROVE  FALSE
  <1>1. /\ pos \in Nat /\ pos' \in Nat /\ pos' <= tokens /\ tokens \in Nat /\ s \in Nat
        /\ junction \in Nat /\ (junction = 0 \/ junction < prompt) /\ prompt \in Nat
        /\ BlockSize \in Nat \ {0} /\ MaxPrefill \in Nat
    BY Chunk, Positions, FloorFacts, SplitAssumption DEF TypeOK
  <1>2. /\ PrefillEnd(prompt, tokens) \in Nat /\ prompt <= PrefillEnd(prompt, tokens)
        /\ tokens - 1 <= PrefillEnd(prompt, tokens)
    BY Positions
  <1>3. pos < PrefillEnd(prompt, tokens)
    BY <1>1, <1>2
  <1>4. PICK n \in Nat : pos + n <= tokens /\ n <= MaxPrefill /\ Cut(Whole(n), pos')
    BY <1>3, Chunk
  <1>5. Whole(n) \in Nat /\ pos' <= Whole(n) /\ s < Whole(n)
    BY <1>1, <1>4, WholeFacts DEF Cut
  <1>6. ASSUME NEW t \in Stops(pos, Whole(n), prompt, tokens, junction), t \in Nat,
               pos < t, t <= s
        PROVE  FALSE
    <2>1. t < Whole(n)
      BY <1>1, <1>5, <1>6
    <2>2. pos' <= t
      BY <1>4, <1>6, <2>1 DEF Cut
    <2> QED
      BY <1>1, <1>6, <2>2
  <1>7. CASE s = LastCachePosition(tokens) \/ s = TailBoundary(prompt, tokens)
    <2>1. s \in Stops(pos, Whole(n), prompt, tokens, junction)
      BY <1>7 DEF Stops
    <2> QED
      BY <1>1, <1>6, <2>1
  <1>8. CASE s = Floor(junction)
    <2>1. s % BlockSize = 0 /\ s <= junction /\ junction < s + BlockSize
      BY <1>1, <1>8, FloorFacts
    <2>2. CASE pos % BlockSize # 0
      <3> DEFINE g == Floor(pos)
      <3>1. g \in Nat /\ g <= pos /\ pos < g + BlockSize /\ g % BlockSize = 0
        BY <1>1, FloorFacts
      <3>2. BlockStop(pos) = g + BlockSize
        BY <2>2 DEF BlockStop
      <3>3. BlockStop(pos) \in Stops(pos, Whole(n), prompt, tokens, junction)
        BY <1>5, StopsType
      <3>4. g + BlockSize <= s
        <4>1. PICK j \in Nat : g = j * BlockSize
          BY <1>1, FloorFacts
        <4>2. PICK k \in Nat : s = k * BlockSize
          BY <1>1, <2>1, MultipleOf
        <4> HIDE DEF g
        <4>3. g < s
          BY <1>1, <3>1
        <4>4. ~ (k <= j)
          <5>1. k <= j => k * BlockSize <= j * BlockSize
            BY <1>1, MultipleUp
          <5> QED
            BY <1>1, <3>1, <4>1, <4>2, <4>3, <5>1
        <4>5. j + 1 <= k /\ j + 1 \in Nat
          BY <4>4
        <4>6. (j + 1) * BlockSize <= k * BlockSize
          BY <1>1, <4>5, MultipleUp
        <4>7. (j + 1) * BlockSize = j * BlockSize + BlockSize
          BY <1>1
        <4> QED
          BY <4>1, <4>2, <4>6, <4>7
      <3> HIDE DEF g
      <3>5. g + BlockSize \in Nat /\ pos < g + BlockSize
        BY <1>1, <3>1
      <3> QED
        BY <1>6, <3>2, <3>3, <3>4, <3>5
    <2>3. CASE pos % BlockSize = 0
      <3>1. pos < junction
        BY <1>1, <2>1
      <3>2. junction < Whole(n)
        <4>1. CASE Whole(n) >= PrefillEnd(prompt, tokens)
          BY <1>1, <1>2, <1>5, <3>1, <4>1
        <4>2. CASE Whole(n) = Floor(pos + n)
          <5>1. pos + n \in Nat
            BY <1>1
          <5>2. Whole(n) % BlockSize = 0
            BY <4>2, <5>1, FloorFacts
          <5>3. CASE junction < Whole(n)
            BY <5>3
          <5>4. CASE ~ (junction < Whole(n))
            <6>1. Whole(n) <= junction
              BY <1>1, <1>5, <5>4
            <6>2. Whole(n) <= Floor(junction)
              BY <1>1, <1>5, <5>2, <6>1, FloorLargest
            <6> QED
              BY <1>1, <1>5, <1>8, <6>2
          <5> QED
            BY <5>3, <5>4
        <4>3. CASE pos + n < PrefillEnd(prompt, tokens) /\ Whole(n) = pos + n /\ Floor(pos + n) <= pos
          <5>1. pos + n \in Nat /\ s <= pos + n
            BY <1>1, <1>5, <4>3
          <5>2. s <= Floor(pos + n)
            BY <1>1, <2>1, <5>1, FloorLargest
          <5>3. Floor(pos + n) \in Nat
            BY <5>1, FloorFacts
          <5> QED
            BY <1>1, <4>3, <5>2, <5>3
        <4>4. pos + n \in Nat /\ Floor(pos + n) \in Nat
          <5>1. pos + n \in Nat
            BY <1>1
          <5> QED
            BY <5>1, FloorFacts
        <4>5. \/ Whole(n) = Floor(pos + n)
              \/ pos + n < PrefillEnd(prompt, tokens) /\ Whole(n) = pos + n /\ ~ (Floor(pos + n) > pos)
              \/ ~ (pos + n < PrefillEnd(prompt, tokens)) /\ Whole(n) = pos + n
          BY DEF Whole, Aligned
        <4>6. CASE ~ (pos + n < PrefillEnd(prompt, tokens)) /\ Whole(n) = pos + n
          <5>1. Whole(n) >= PrefillEnd(prompt, tokens)
            BY <1>2, <4>4, <4>6
          <5> QED
            BY <4>1, <5>1
        <4>7. ~ (Floor(pos + n) > pos) => Floor(pos + n) <= pos
          BY <1>1, <4>4
        <4> QED
          BY <4>2, <4>3, <4>5, <4>6, <4>7
      <3>3. JunctionStop(pos, Whole(n)) = pos + Floor(junction - pos)
        BY <3>1, <3>2 DEF JunctionStop
      <3>4. pos + Floor(junction - pos) = s
        BY <1>1, <1>8, <2>3, <3>1, FloorShift
      <3>5. s \in Stops(pos, Whole(n), prompt, tokens, junction)
        BY <1>5, <3>3, <3>4, StopsType
      <3> QED
        BY <1>1, <1>6, <3>5
    <2> QED
      BY <2>2, <2>3
  <1> QED
    BY <1>7, <1>8

LEMMA InvStep == IInv /\ [Next]_vars => IInv'
  <1> SUFFICES ASSUME IInv, [Next]_vars  PROVE IInv'
    OBVIOUS
  <1>1. TypeOK /\ Passed /\ Began /\ EndsAligned /\ CacheStopsVisited
    BY DEF IInv
  <1>2. CASE UNCHANGED vars
    BY <1>2 DEF vars, IInv, TypeOK, Passed, Began, EndsAligned, CacheStopsVisited
  <1>3. ASSUME NEW budget \in 1 .. MaxPrefill, Step(budget)  PROVE IInv'
    <2>1. /\ pos' \in Nat /\ pos < pos' /\ pos' <= tokens /\ ends' = ends \cup {pos'}
          /\ prompt' = prompt /\ tokens' = tokens /\ junction' = junction
      BY <1>1, <1>3, Chunk
    <2>2. pos \in Nat /\ ends \in SUBSET Nat /\ pos \in ends /\ \A e \in ends : e <= pos
      BY <1>1 DEF TypeOK, Passed
    <2>3. TypeOK'
      BY <1>1, <2>1 DEF TypeOK
    <2>4. Passed'
      <3>1. \A e \in ends : e <= pos'
        BY <2>1, <2>2
      <3> QED
        BY <2>1, <3>1 DEF Passed
    <2>5. Began'
      <3>1. PICK f \in ends : \A x \in ends : f <= x
        BY <1>1 DEF Began
      <3>2. f <= pos'
        BY <2>1, <2>2
      <3> QED
        BY <2>1, <3>1, <3>2 DEF Began
    <2>6. EndsAligned'
      <3> SUFFICES ASSUME BlockSize <= MaxPrefill, NEW e \in ends'
                   PROVE  \/ e % BlockSize = 0
                          \/ e >= PrefillEnd(prompt, tokens)
                          \/ e = TailBoundary(prompt, tokens)
                          \/ \A x \in ends' : e <= x
        BY <2>1 DEF EndsAligned
      <3>1. CASE e = pos'
        BY <1>1, <1>3, <3>1, EndAligned
      <3>2. CASE e \in ends
        <4>1. CASE \A x \in ends : e <= x
          <5>1. e <= pos'
            BY <2>1, <2>2, <3>2
          <5> QED
            BY <2>1, <4>1, <5>1
        <4>2. CASE ~ \A x \in ends : e <= x
          BY <1>1, <3>2, <4>2 DEF EndsAligned
        <4> QED
          BY <4>1, <4>2
      <3> QED
        BY <2>1, <3>1, <3>2
    <2>7. CacheStopsVisited'
      <3> SUFFICES ASSUME NEW s \in {LastCachePosition(tokens), TailBoundary(prompt, tokens), Floor(junction)},
                          pos' > s, s > 0, NEW e \in ends', e < s
                   PROVE  s \in ends'
        BY <2>1 DEF CacheStopsVisited
      <3>1. s \in Nat
        BY <1>1, Positions, FloorFacts DEF TypeOK
      <3>2. e \in ends
        BY <2>1, <3>1
      <3>3. CASE pos > s
        BY <1>1, <2>1, <3>2, <3>3 DEF CacheStopsVisited
      <3>4. CASE pos = s
        BY <2>1, <2>2, <3>4
      <3>5. CASE pos < s
        BY <1>1, <1>3, <2>1, <3>1, <3>5, NoJump
      <3> QED
        BY <2>2, <3>1, <3>3, <3>4, <3>5
    <2> QED
      BY <2>3, <2>4, <2>5, <2>6, <2>7 DEF IInv
  <1> QED
    BY <1>2, <1>3 DEF Next, Stay

(* A prefill cut by _mamba_block_aligned_split keeps IInv: where it is,    *)
(* where it began, and which cache positions it has stopped at.            *)
THEOREM Invariant == Spec => []IInv
  BY InvInit, InvStep, PTL DEF Spec

(* Every chunk end of _mamba_block_aligned_split is a block boundary, a stop *)
(* chosen on purpose, the prefill's end, or where the prefill began.      *)
THEOREM AlignedAlways == Spec => []EndsAligned
  BY Invariant, PTL DEF IInv

(* No prefill runs past a position whose recurrent state the prefix cache is *)
(* going to be asked for without stopping at it.                           *)
THEOREM CacheAlways == Spec => []CacheStopsVisited
  BY Invariant, PTL DEF IInv

(* A step that has the whole budget is never cut to nothing: what          *)
(* PrefillEnds rests on.                                                   *)
Advances ==
    pos < tokens =>
        Split(pos, Smaller(tokens - pos, MaxPrefill), prompt, tokens, junction) > 0

LEMMA MovesOn == TypeOK => Advances
  <1> SUFFICES ASSUME TypeOK, pos < tokens
               PROVE  Split(pos, Smaller(tokens - pos, MaxPrefill), prompt, tokens, junction) > 0
    BY DEF Advances
  <1> DEFINE n == Smaller(tokens - pos, MaxPrefill)
  <1>1. pos \in Nat /\ tokens \in Nat /\ MaxPrefill \in Nat \ {0} /\ BlockSize \in Nat \ {0}
        /\ PrefillEnd(prompt, tokens) \in Nat /\ PrefillEnd(prompt, tokens) <= tokens
    BY Positions, SplitAssumption DEF TypeOK
  <1>2. n \in Nat \ {0} /\ (n = tokens - pos \/ n = MaxPrefill)
    BY <1>1 DEF Smaller
  <1> HIDE DEF n
  <1>3. CASE ~ (pos < PrefillEnd(prompt, tokens))
    <2>1. pos >= PrefillEnd(prompt, tokens)
      BY <1>1, <1>3
    <2>2. Split(pos, n, prompt, tokens, junction) = n
      BY <2>1 DEF Split
    <2> QED
      BY <1>2, <2>2 DEF n
  <1>4. CASE pos < PrefillEnd(prompt, tokens)
    <2>1. pos + n \in Nat /\ Floor(pos + n) \in Nat
      <3>1. pos + n \in Nat
        BY <1>1, <1>2
      <3> QED
        BY <3>1, FloorFacts
    <2>2. pos < Whole(n)
      <3>1. CASE Whole(n) = pos + n
        BY <1>1, <1>2, <3>1
      <3>2. CASE Whole(n) = Floor(pos + n) /\ Floor(pos + n) > pos
        BY <1>1, <2>1, <3>2
      <3>3. CASE Whole(n) = Floor(pos + n) /\ BlockSize <= MaxPrefill /\ pos + n < PrefillEnd(prompt, tokens)
        <4>1. n = MaxPrefill
          BY <1>1, <1>2, <3>3
        <4>2. pos + n < Floor(pos + n) + BlockSize
          BY <2>1, FloorFacts
        <4> QED
          BY <1>1, <2>1, <3>3, <4>1, <4>2
      <3> QED
        BY <3>1, <3>2, <3>3 DEF Whole, Aligned
    <2>3. PICK end \in Nat : /\ Split(pos, n, prompt, tokens, junction) = Larger(end - pos, 0)
                             /\ pos < Whole(n) => pos < end
      BY <1>2, <1>4, SplitEnd
    <2>4. Larger(end - pos, 0) > 0
      BY <1>1, <2>2, <2>3 DEF Larger
    <2> QED
      BY <2>3, <2>4 DEF n
  <1> QED
    BY <1>3, <1>4

(* So no reachable step of schedule() with the whole budget leaves a prefill *)
(* where it was.                                                           *)
THEOREM AdvancesAlways == Spec => []Advances
  <1>1. IInv => Advances
    BY MovesOn DEF IInv
  <1> QED
    BY <1>1, Invariant, PTL
=============================================================================
