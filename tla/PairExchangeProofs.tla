------------------------- MODULE PairExchangeProofs -------------------------
(***************************************************************************)
(* PairExchange is correct for any number of ranks, rounds, blocks, chunks *)
(* and calls, as long as the 32-bit counters do not wrap (NoWrap).         *)
(*                                                                         *)
(* The proof is that IInv of PairExchangeInv is inductive, in layers: the  *)
(* types, the handshake (ControlInv), the epochs, and the payloads.        *)
(***************************************************************************)
EXTENDS PairExchangeInv, WellFoundedInduction, TLAPS

-----------------------------------------------------------------------------
(* Arithmetic.                                                             *)

(* A remainder is below its divisor.                                       *)
LEMMA ModRange == \A i \in Nat, g \in Nat \ {0} : i % g \in 0 .. g - 1
  BY SMT

(* A number below the divisor is its own remainder: chunk i < gridDim.x    *)
(* belongs to block i, and a counter below 2^32 does not wrap.             *)
LEMMA ModSmall == \A i \in Nat, g \in Nat \ {0} : i < g => i % g = i
  BY SMT

(* One call more is Rounds handshakes more.                                *)
LEMMA OneMoreCall == \A c, n \in Nat : c > 0 => (c - 1) * n + n = c * n
  BY SMT

(* A product of naturals is a natural.                                     *)
LEMMA MulType == \A c, n \in Nat : c * n \in Nat
  BY SMT

(* Multiplication is monotone.                                             *)
LEMMA MulMonotone == \A c, d, n \in Nat : c <= d => c * n <= d * n
  BY SMT

-----------------------------------------------------------------------------
(* Grids and ownership.                                                    *)

(* A launched grid has at least one block and fits the Signal arrays.      *)
LEMMA GridType ==
  ASSUME plan \in [Calls -> 1 .. NChunks], NEW c \in Calls
  PROVE  /\ Grid(c) \in 1 .. NBlocks
         /\ Grid(c) <= plan[c]
         /\ plan[c] \in 1 .. NChunks
  BY ConstantAssumption DEF Grid, Least

(* Every chunk has an owner among the blocks of the grid.                  *)
LEMMA OwnerType ==
  ASSUME plan \in [Calls -> 1 .. NChunks], NEW c \in Calls, NEW i \in Nat
  PROVE  Owner(c, i) \in Blocks /\ Owner(c, i) < Grid(c)
  <1>1. Grid(c) \in Nat \ {0} /\ Grid(c) <= NBlocks
    BY GridType, ConstantAssumption
  <1>2. i % Grid(c) \in 0 .. Grid(c) - 1
    BY <1>1, ModRange
  <1> QED BY <1>1, <1>2, ConstantAssumption DEF Owner, Blocks

(* A block owns chunks of the message only, and none outside the grid.     *)
LEMMA OwnedType ==
  ASSUME plan \in [Calls -> 1 .. NChunks], NEW c \in Calls, NEW b \in Blocks
  PROVE  /\ Owned(c, b) \subseteq Chunks
         /\ b >= Grid(c) => Owned(c, b) = {}
  <1>1. plan[c] \in 1 .. NChunks /\ Grid(c) \in 1 .. NBlocks
    BY GridType
  <1>2. Owned(c, b) \subseteq Chunks
    BY <1>1, ConstantAssumption DEF Owned, Chunks
  <1>3. ASSUME b >= Grid(c), NEW i \in Owned(c, b) PROVE FALSE
    <2>1. i \in Nat /\ Owner(c, i) = b
      BY <1>1 DEF Owned
    <2>2. Owner(c, i) < Grid(c) /\ Owner(c, i) \in Blocks
      BY <2>1, OwnerType
    <2> QED BY <1>1, <1>3, <2>1, <2>2, ConstantAssumption DEF Blocks
  <1> QED BY <1>2, <1>3

-----------------------------------------------------------------------------
(* Types.                                                                  *)

(* The initial state is well typed.                                        *)
LEMMA TypeInit == Init => TypeOK
  BY ConstantAssumption DEF Init, TypeOK

(* A launch keeps the state well typed.                                    *)
LEMMA TypeLaunch ==
  ASSUME TypeOK, NEW r \in Rank, Launch(r)
  PROVE  TypeOK'
  <1> DEFINE c == call[r] + 1
  <1>0. call[r] \in 0 .. MaxCalls /\ call[r] < MaxCalls
    BY DEF TypeOK, Launch
  <1>1. c \in Calls /\ c \in 0 .. MaxCalls
    BY <1>0, ConstantAssumption DEF Calls
  <1>2. [b \in Blocks |-> Owned(c, b)] \in [Blocks -> SUBSET Chunks]
    BY <1>1, OwnedType DEF TypeOK
  <1>3. posted' \in [Rank -> [Blocks -> SUBSET Chunks]]
    BY <1>2 DEF TypeOK, Launch
  <1>4. round' \in [Rank -> [Blocks -> 1 .. Rounds]]
    BY ConstantAssumption DEF TypeOK, Launch
  <1>5. call' \in [Rank -> 0 .. MaxCalls]
    BY <1>1 DEF TypeOK, Launch
  <1>6. pc' \in [Rank -> [Blocks -> {"idle", "push", "wait", "reduce"}]]
    BY DEF TypeOK, Launch
  <1>7. DOMAIN acc' = Rank /\ \A x \in Rank : DOMAIN acc'[x] = Chunks
    BY DEF TypeOK, Launch
  <1> QED BY <1>3, <1>4, <1>5, <1>6, <1>7 DEF TypeOK, Launch

(* So does every step of a CTA, which runs only in a launched call.        *)
LEMMA TypeCta ==
  ASSUME TypeOK, Shape, NEW r \in Rank, NEW b \in Blocks, Cta(r, b)
  PROVE  TypeOK'
  <1>1. ASSUME NEW i \in Chunks, Store(r, b, i) PROVE TypeOK'
    <2>1. posted' \in [Rank -> [Blocks -> SUBSET Chunks]]
      BY <1>1 DEF TypeOK, Store
    <2>2. DOMAIN buf' = Rank /\ \A x \in Rank : DOMAIN buf'[x] = Cells
      BY <1>1 DEF TypeOK, Store
    <2> QED BY <1>1, <2>1, <2>2 DEF TypeOK, Store
  <1>2. Expected(r, b) \in Nat
    <2>1. flag[r][b] + 1 \in Nat /\ FlagMod \in Nat \ {0}
      BY ConstantAssumption DEF TypeOK
    <2> QED BY <2>1, ModRange DEF Expected
  <1>3. CASE Signal(r, b)
    <2>1. start' \in [Rank -> [Blocks -> [Rank -> Nat]]]
      BY <1>2, <1>3 DEF TypeOK, Signal
    <2>2. pc' \in [Rank -> [Blocks -> {"idle", "push", "wait", "reduce"}]]
      BY <1>3 DEF TypeOK, Signal
    <2> QED BY <1>3, <2>1, <2>2 DEF TypeOK, Signal
  <1>4. CASE Wait(r, b)
    <2>1. flag' \in [Rank -> [Blocks -> Nat]]
      BY <1>2, <1>4 DEF TypeOK, Wait
    <2>2. pc' \in [Rank -> [Blocks -> {"idle", "push", "wait", "reduce"}]]
      BY <1>4 DEF TypeOK, Wait
    <2> QED BY <1>4, <2>1, <2>2 DEF TypeOK, Wait
  <1>5. DOMAIN Reduced(r, b) = Chunks
    BY DEF Reduced
  <1>6. CASE Reduce(r, b)
    <2>0. call[r] \in 0 .. MaxCalls /\ call[r] > 0
      BY <1>6 DEF Shape, Active, Reduce, TypeOK
    <2>1. call[r] \in Calls
      BY <2>0, ConstantAssumption DEF Calls
    <2>2. posted' \in [Rank -> [Blocks -> SUBSET Chunks]]
      BY <1>6, <2>1, OwnedType DEF TypeOK, Reduce
    <2>3. round' \in [Rank -> [Blocks -> 1 .. Rounds]]
      <3>1. round[r][b] + 1 \in 1 .. Rounds
        BY <1>6, ConstantAssumption DEF TypeOK, Reduce
      <3>2. round' = [round EXCEPT ![r][b] = @ + 1]
        BY <1>6 DEF Reduce
      <3> QED BY <3>1, <3>2 DEF TypeOK
    <2>4. pc' \in [Rank -> [Blocks -> {"idle", "push", "wait", "reduce"}]]
      BY <1>6 DEF TypeOK, Reduce
    <2>5. DOMAIN acc' = Rank /\ \A x \in Rank : DOMAIN acc'[x] = Chunks
      BY <1>5, <1>6 DEF TypeOK, Reduce
    <2> QED BY <1>6, <2>2, <2>3, <2>4, <2>5 DEF TypeOK, Reduce
  <1>7. CASE Retire(r, b)
    <2>1. AdvanceEpoch(epoch[r], b, Grid(call[r])) \in [Blocks -> Nat]
      BY DEF TypeOK, AdvanceEpoch
    <2>2. epoch' \in [Rank -> [Blocks -> Nat]]
      BY <1>7, <2>1 DEF TypeOK, Retire
    <2>3. pc' \in [Rank -> [Blocks -> {"idle", "push", "wait", "reduce"}]]
      BY <1>7 DEF TypeOK, Retire
    <2>4. DOMAIN acc' = Rank /\ \A x \in Rank : DOMAIN acc'[x] = Chunks
      BY <1>5, <1>7 DEF TypeOK, Retire
    <2> QED BY <1>7, <2>2, <2>3, <2>4 DEF TypeOK, Retire
  <1> QED BY <1>1, <1>3, <1>4, <1>6, <1>7 DEF Cta

(* Only CTAs of the grid run, in every reachable state.                    *)
LEMMA ShapeLaunch ==
  ASSUME TypeOK, Shape, NEW r \in Rank, Launch(r)
  PROVE  Shape'
  <1>0. call[r] \in 0 .. MaxCalls /\ call[r] < MaxCalls
    BY DEF TypeOK, Launch
  <1>1. call[r] + 1 \in Calls /\ plan' = plan
    BY <1>0, ConstantAssumption DEF Launch, Calls
  <1>2. ASSUME NEW x \in Rank, NEW y \in Blocks, x # r
        PROVE  /\ pc'[x][y] = pc[x][y] /\ posted'[x][y] = posted[x][y]
               /\ call'[x] = call[x]
    BY <1>2 DEF TypeOK, Launch
  <1>3. ASSUME NEW y \in Blocks
        PROVE  /\ call'[r] = call[r] + 1
               /\ pc'[r][y] = IF y < Grid(call[r] + 1) THEN "push" ELSE "idle"
               /\ posted'[r][y] = Owned(call[r] + 1, y)
    BY DEF TypeOK, Launch
  <1>4. ASSUME NEW x \in Rank, NEW y \in Blocks, x # r
        PROVE  /\ Active(x, y)' = Active(x, y)
               /\ Owned(call[x], y)' = Owned(call[x], y)
    BY <1>1, <1>2, <1>4 DEF Active, Grid, Owned, Owner
  <1>5. ASSUME NEW y \in Blocks
        PROVE  /\ Active(r, y)' = (y < Grid(call[r] + 1))
               /\ Owned(call[r], y)' = Owned(call[r] + 1, y)
    BY <1>0, <1>1, <1>3, <1>5 DEF Active, Grid, Owned, Owner
  <1>6. SUFFICES ASSUME NEW x \in Rank, NEW y \in Blocks
                 PROVE  /\ pc'[x][y] # "idle" => Active(x, y)'
                        /\ pc'[x][y] = "push" =>
                             posted'[x][y] \subseteq Owned(call[x], y)'
                        /\ pc'[x][y] \in {"wait", "reduce"} => posted'[x][y] = {}
    BY DEF Shape
  <1>7. CASE x # r
    BY <1>2, <1>4, <1>7 DEF Shape
  <1>8. CASE x = r
    BY <1>3, <1>5, <1>8
  <1> QED BY <1>7, <1>8

LEMMA ShapeCta ==
  ASSUME TypeOK, Shape, NEW r \in Rank, NEW b \in Blocks, Cta(r, b)
  PROVE  Shape'
  <1>1. call' = call /\ plan' = plan
    BY DEF Cta, Store, Signal, Wait, Reduce, Retire
  <1>2. pc[r][b] # "idle" /\ Active(r, b)
    BY DEF Cta, Store, Signal, Wait, Reduce, Retire, Shape
  <1>3. ASSUME NEW x \in Rank, NEW y \in Blocks, ~ (x = r /\ y = b)
        PROVE  pc'[x][y] = pc[x][y] /\ posted'[x][y] = posted[x][y]
    <2>1. /\ pc' = pc \/ \E v : pc' = [pc EXCEPT ![r][b] = v]
          /\ posted' = posted \/ \E v : posted' = [posted EXCEPT ![r][b] = v]
      BY DEF Cta, Store, Signal, Wait, Reduce, Retire
    <2> QED BY <1>3, <2>1 DEF TypeOK
  <1>4. /\ pc'[r][b] = "push" => posted'[r][b] \subseteq Owned(call[r], b)
        /\ pc'[r][b] \in {"wait", "reduce"} => posted'[r][b] = {}
    <2>1. ASSUME NEW i \in Chunks, Store(r, b, i)
          PROVE  pc'[r][b] = "push" /\ posted'[r][b] \subseteq posted[r][b]
      BY <2>1 DEF TypeOK, Store
    <2>2. CASE Signal(r, b) \/ Wait(r, b)
      <3>1. posted'[r][b] = {} /\ pc'[r][b] \in {"wait", "reduce"}
        BY <2>2 DEF TypeOK, Shape, Signal, Wait
      <3> QED BY <3>1
    <2>3. CASE Reduce(r, b)
      <3>1. posted'[r][b] = Owned(call[r], b) /\ pc'[r][b] = "push"
        BY <2>3 DEF TypeOK, Reduce
      <3> QED BY <3>1
    <2>4. CASE Retire(r, b)
      BY <2>4 DEF TypeOK, Retire
    <2>5. ASSUME NEW i \in Chunks, Store(r, b, i)
          PROVE  /\ pc'[r][b] = "push"
                 /\ posted'[r][b] \subseteq Owned(call[r], b)
      BY <2>1, <2>5 DEF Shape, Store
    <2> QED BY <2>2, <2>3, <2>4, <2>5 DEF Cta
  <1> QED BY <1>1, <1>2, <1>3, <1>4 DEF Shape, Active, Grid, Owned, Owner

(* The types and the shape, as one inductive invariant.                    *)
THEOREM TypeCorrect == Spec => [](TypeOK /\ Shape)
  <1>1. Init => TypeOK /\ Shape
    <2>1. Init => Shape
      BY DEF Init, Shape
    <2> QED BY <2>1, TypeInit
  <1>2. TypeOK /\ Shape /\ [Next]_vars => TypeOK' /\ Shape'
    <2> SUFFICES ASSUME TypeOK, Shape, [Next]_vars PROVE TypeOK' /\ Shape'
      OBVIOUS
    <2>1. ASSUME NEW r \in Rank, Launch(r) PROVE TypeOK' /\ Shape'
      BY <2>1, TypeLaunch, ShapeLaunch
    <2>2. ASSUME NEW r \in Rank, NEW b \in Blocks, Cta(r, b)
          PROVE  TypeOK' /\ Shape'
      BY <2>2, TypeCta, ShapeCta
    <2>3. CASE UNCHANGED vars
      BY <2>3 DEF vars, TypeOK, Shape, Active, Grid, Owned, Owner
    <2> QED BY <2>1, <2>2, <2>3 DEF Next, Terminated
  <1> QED BY <1>1, <1>2, PTL DEF Spec

-----------------------------------------------------------------------------
(* What one step does to the handshake variables.                          *)

(* A step of CTA (r, b) leaves every other CTA alone, and moves its own    *)
(* program counter, round and counter in one of four ways.                 *)
LEMMA CtaLocal ==
  ASSUME TypeOK, NEW r \in Rank, NEW b \in Blocks, Cta(r, b)
  PROVE  /\ call' = call /\ plan' = plan
         /\ \A x \in Rank, y \in Blocks : ~ (x = r /\ y = b) =>
              /\ pc'[x][y] = pc[x][y]
              /\ round'[x][y] = round[x][y]
              /\ flag'[x][y] = flag[x][y]
         /\ \/ /\ pc[r][b] = "push" /\ pc'[r][b] \in {"push", "wait"}
               /\ round'[r][b] = round[r][b] /\ flag'[r][b] = flag[r][b]
            \/ /\ pc[r][b] = "wait" /\ pc'[r][b] = "reduce" /\ Wait(r, b)
               /\ round'[r][b] = round[r][b] /\ flag'[r][b] = Expected(r, b)
            \/ /\ pc[r][b] = "reduce" /\ round[r][b] < Rounds
               /\ pc'[r][b] = "push"
               /\ round'[r][b] = round[r][b] + 1 /\ flag'[r][b] = flag[r][b]
            \/ /\ pc[r][b] = "reduce" /\ round[r][b] = Rounds
               /\ pc'[r][b] = "idle"
               /\ round'[r][b] = round[r][b] /\ flag'[r][b] = flag[r][b]
  <1>1. call' = call /\ plan' = plan
    BY DEF Cta, Store, Signal, Wait, Reduce, Retire
  <1>2. ASSUME NEW x \in Rank, NEW y \in Blocks, ~ (x = r /\ y = b)
        PROVE  /\ pc'[x][y] = pc[x][y]
               /\ round'[x][y] = round[x][y]
               /\ flag'[x][y] = flag[x][y]
    <2>1. /\ pc' = pc \/ \E v : pc' = [pc EXCEPT ![r][b] = v]
          /\ round' = round \/ \E v : round' = [round EXCEPT ![r][b] = v]
          /\ flag' = flag \/ \E v : flag' = [flag EXCEPT ![r][b] = v]
      BY DEF Cta, Store, Signal, Wait, Reduce, Retire
    <2> QED BY <1>2, <2>1 DEF TypeOK
  <1>3. ASSUME NEW i \in Chunks, Store(r, b, i)
        PROVE  /\ pc[r][b] = "push" /\ pc'[r][b] = "push"
               /\ round'[r][b] = round[r][b] /\ flag'[r][b] = flag[r][b]
    BY <1>3 DEF Store
  <1>4. ASSUME Signal(r, b)
        PROVE  /\ pc[r][b] = "push" /\ pc'[r][b] = "wait"
               /\ round'[r][b] = round[r][b] /\ flag'[r][b] = flag[r][b]
    BY <1>4 DEF TypeOK, Signal
  <1>5. ASSUME Wait(r, b)
        PROVE  /\ pc[r][b] = "wait" /\ pc'[r][b] = "reduce"
               /\ round'[r][b] = round[r][b]
               /\ flag'[r][b] = Expected(r, b)
    BY <1>5 DEF TypeOK, Wait
  <1>6. ASSUME Reduce(r, b)
        PROVE  /\ pc[r][b] = "reduce" /\ round[r][b] < Rounds
               /\ pc'[r][b] = "push"
               /\ round'[r][b] = round[r][b] + 1
               /\ flag'[r][b] = flag[r][b]
    BY <1>6 DEF TypeOK, Reduce
  <1>7. ASSUME Retire(r, b)
        PROVE  /\ pc[r][b] = "reduce" /\ round[r][b] = Rounds
               /\ pc'[r][b] = "idle"
               /\ round'[r][b] = round[r][b] /\ flag'[r][b] = flag[r][b]
    BY <1>7 DEF TypeOK, Retire
  <1>8. (\E i \in Chunks : Store(r, b, i)) \/ Signal(r, b) \/ Wait(r, b)
        \/ Reduce(r, b) \/ Retire(r, b)
    BY DEF Cta
  <1> QED BY <1>1, <1>2, <1>3, <1>4, <1>5, <1>6, <1>7, <1>8

(* A launch touches rank r's call, program counters and rounds only.       *)
LEMMA LaunchLocal ==
  ASSUME TypeOK, NEW r \in Rank, Launch(r)
  PROVE  /\ plan' = plan /\ flag' = flag /\ start' = start
         /\ call[r] + 1 \in Calls /\ call[r] \in Nat
         /\ call'[r] = call[r] + 1
         /\ \A x \in Rank : x # r => call'[x] = call[x]
         /\ \A x \in Rank, y \in Blocks : x # r =>
              pc'[x][y] = pc[x][y] /\ round'[x][y] = round[x][y]
         /\ \A y \in Blocks :
              /\ pc[r][y] = "idle"
              /\ pc'[r][y] = IF y < Grid(call[r] + 1) THEN "push" ELSE "idle"
              /\ round'[r][y] = 1
  <1>1. call[r] \in 0 .. MaxCalls /\ call[r] < MaxCalls
    BY DEF TypeOK, Launch
  <1>2. call[r] + 1 \in Calls /\ call[r] \in Nat
    BY <1>1, ConstantAssumption DEF Calls
  <1>3. \A x \in Rank : call'[x] = IF x = r THEN call[r] + 1 ELSE call[x]
    BY DEF TypeOK, Launch
  <1>4. \A x \in Rank, y \in Blocks :
          /\ x # r => pc'[x][y] = pc[x][y]
          /\ x = r => /\ pc[r][y] = "idle"
                     /\ pc'[r][y] = IF y < Grid(call[r] + 1) THEN "push" ELSE "idle"
    BY DEF TypeOK, Launch
  <1>5. \A x \in Rank, y \in Blocks :
          round'[x][y] = IF x = r THEN 1 ELSE round[x][y]
    BY DEF TypeOK, Launch
  <1> QED BY <1>2, <1>3, <1>4, <1>5 DEF Launch

(* A call makes at most Rounds handshakes.                                 *)
LEMMA DoneType ==
  ASSUME TypeOK, NEW r \in Rank, NEW b \in Blocks
  PROVE  Done(r, b) \in 0 .. Rounds /\ Base(r, b) \in Int /\ End(r, b) \in Int
  <1>1. round[r][b] \in 1 .. Rounds /\ flag[r][b] \in Nat
    BY DEF TypeOK
  <1>2. Done(r, b) \in 0 .. Rounds
    BY <1>1, ConstantAssumption DEF Done
  <1> QED BY <1>1, <1>2, ConstantAssumption DEF Base, End

(* The counter of a CTA that is pushing or waiting has not wrapped.        *)
LEMMA CounterBelow ==
  ASSUME TypeOK, Shape, FlagBound, NoWrap, NEW r \in Rank, NEW b \in Blocks,
         pc[r][b] \in {"push", "wait"}
  PROVE  /\ Expected(r, b) = flag[r][b] + 1
         /\ flag[r][b] = Base(r, b) + round[r][b] - 1
  <1>1. /\ flag[r][b] \in Nat /\ round[r][b] \in 1 .. Rounds
        /\ call[r] \in 0 .. MaxCalls /\ call[r] > 0
    BY DEF TypeOK, Shape, Active
  <1>2. Done(r, b) = round[r][b] - 1
    BY DEF Shape, Done
  <1>3. flag[r][b] = Base(r, b) + round[r][b] - 1
    BY <1>1, <1>2 DEF Base
  <1>4. flag[r][b] + 1 <= (call[r] - 1) * Rounds + Rounds
    <2> DEFINE m == (call[r] - 1) * Rounds
    <2>1. Base(r, b) <= m
      BY <1>1 DEF FlagBound
    <2>2. call[r] - 1 \in Nat /\ Rounds \in Nat
      BY <1>1, ConstantAssumption
    <2>3. m \in Nat
      BY <2>2, MulType
    <2>4. Base(r, b) \in Int /\ round[r][b] <= Rounds
      BY <1>1, DoneType, ConstantAssumption
    <2> HIDE DEF m
    <2>5. flag[r][b] + 1 <= m + Rounds
      BY <1>1, <1>3, <2>1, <2>2, <2>3, <2>4
    <2> QED BY <2>5 DEF m
  <1>5. (call[r] - 1) * Rounds + Rounds <= MaxCalls * Rounds
    <2>1. call[r] \in Nat /\ Rounds \in Nat /\ MaxCalls \in Nat /\ call[r] <= MaxCalls
      BY <1>1, ConstantAssumption
    <2> QED BY <1>1, <2>1, OneMoreCall, MulMonotone
  <1>6. flag[r][b] + 1 < FlagMod
    <2> DEFINE m == (call[r] - 1) * Rounds + Rounds
               n == MaxCalls * Rounds
    <2>1. call[r] - 1 \in Nat /\ Rounds \in Nat /\ MaxCalls \in Nat
      BY <1>1, ConstantAssumption
    <2>2. m \in Nat /\ n \in Nat /\ FlagMod \in Nat
      BY <2>1, MulType, ConstantAssumption
    <2>3. flag[r][b] + 1 <= m /\ m <= n /\ n < FlagMod
      BY <1>4, <1>5 DEF NoWrap
    <2> HIDE DEF m, n
    <2> QED BY <1>1, <2>2, <2>3
  <1>7. flag[r][b] + 1 \in Nat /\ FlagMod \in Nat \ {0}
    BY <1>1, ConstantAssumption
  <1>8. (flag[r][b] + 1) % FlagMod = flag[r][b] + 1
    BY <1>6, <1>7, ModSmall
  <1> QED BY <1>3, <1>8 DEF Expected

(* A step of a CTA moves neither the base of a counter nor its end.        *)
LEMMA CtaFrame ==
  ASSUME TypeOK, Shape, FlagBound, NoWrap, NEW r \in Rank, NEW b \in Blocks,
         Cta(r, b), NEW x \in Rank, NEW y \in Blocks
  PROVE  /\ Active(x, y)' = Active(x, y)
         /\ Base(x, y)' = Base(x, y)
         /\ End(x, y)' = End(x, y)
  <1>1. Active(x, y)' = Active(x, y)
    BY CtaLocal DEF Active, Grid
  <1>2. flag[x][y] \in Nat /\ round[x][y] \in 1 .. Rounds
    BY DEF TypeOK
  <1>3. CASE ~ (x = r /\ y = b)
    <2>1. Done(x, y)' = Done(x, y) /\ flag'[x][y] = flag[x][y]
      BY <1>1, <1>3, CtaLocal DEF Done
    <2> QED BY <1>1, <2>1 DEF Base, End
  <1>4. CASE x = r /\ y = b
    <2>1. pc[r][b] # "idle" /\ Active(r, b)
      BY CtaLocal DEF Shape
    <2>2. pc[r][b] \in {"push", "wait"} => Expected(r, b) = flag[r][b] + 1
      BY CounterBelow
    <2>3. CASE pc[r][b] = "wait" /\ pc'[r][b] = "reduce"
      <3>1. /\ round'[r][b] = round[r][b] /\ flag'[r][b] = flag[r][b] + 1
            /\ Active(r, b)'
        BY <1>1, <1>4, <2>1, <2>2, <2>3, CtaLocal
      <3>2. Done(r, b) = round[r][b] - 1 /\ Done(r, b)' = round[r][b]
        BY <2>1, <2>3, <3>1 DEF Done
      <3>3. Base(r, b)' = Base(r, b)
        BY <1>2, <1>4, <3>1, <3>2 DEF Base
      <3> QED BY <1>1, <1>4, <3>3 DEF End
    <2>4. CASE ~ (pc[r][b] = "wait" /\ pc'[r][b] = "reduce")
      <3>1. flag'[r][b] = flag[r][b] /\ Active(r, b)'
        BY <1>1, <1>4, <2>1, <2>4, CtaLocal
      <3>2. Done(r, b)' = Done(r, b)
        <4>1. CASE pc[r][b] = "push"
          <5>1. round'[r][b] = round[r][b] /\ pc'[r][b] \in {"push", "wait"}
            BY <4>1, CtaLocal
          <5>2. Done(r, b) = round[r][b] - 1
            BY <2>1, <4>1 DEF Done
          <5>3. Done(r, b)' = round'[r][b] - 1
            BY <3>1, <5>1 DEF Done
          <5> QED BY <5>1, <5>2, <5>3
        <4>2. CASE pc[r][b] = "reduce" /\ pc'[r][b] = "push"
          <5>1. round'[r][b] = round[r][b] + 1
            BY <4>2, CtaLocal
          <5>2. Done(r, b) = round[r][b] /\ Done(r, b)' = round'[r][b] - 1
            BY <2>1, <3>1, <4>2 DEF Done
          <5> QED BY <1>2, <1>4, <5>1, <5>2
        <4>3. CASE pc[r][b] = "reduce" /\ pc'[r][b] = "idle"
          <5>1. round[r][b] = Rounds
            BY <4>3, CtaLocal
          <5> QED BY <2>1, <3>1, <4>3, <5>1 DEF Done
        <4> QED BY <2>4, <4>1, <4>2, <4>3, CtaLocal
      <3>3. Base(r, b)' = Base(r, b)
        BY <3>1, <3>2 DEF Base
      <3> QED BY <1>1, <1>4, <3>3 DEF End
    <2> QED BY <2>3, <2>4
  <1> QED BY <1>3, <1>4

(* Only the wait makes a CTA pass a handshake, and nothing published is    *)
(* taken back.                                                             *)
LEMMA CtaPassed ==
  ASSUME TypeOK, Shape, NEW r \in Rank, NEW b \in Blocks, Cta(r, b),
         NEW x \in Rank, NEW y \in Blocks, NEW k \in 1 .. Rounds
  PROVE  /\ Passed(x, y, k) => Passed(x, y, k)'
         /\ Passed(x, y, k)' =>
              \/ Passed(x, y, k)
              \/ x = r /\ y = b /\ k = round[r][b] /\ Wait(r, b)
         /\ \A c \in Calls : Sent(x, y, k, c) => Sent(x, y, k, c)'
  <1>1. Active(x, y)' = Active(x, y) /\ call' = call
    BY CtaLocal DEF Active, Grid
  <1>2. round[x][y] \in 1 .. Rounds
    BY DEF TypeOK
  <1>3. CASE ~ (x = r /\ y = b)
    BY <1>1, <1>3, CtaLocal DEF Passed, Sent
  <1>4. CASE x = r /\ y = b
    <2>1. Active(r, b)
      BY CtaLocal DEF Shape
    <2>2. Active(r, b)'
      BY <1>1, <1>4, <2>1
    <2>3. CASE pc[r][b] = "push"
      <3>1. pc'[r][b] \in {"push", "wait"} /\ round'[r][b] = round[r][b]
        BY <2>3, CtaLocal
      <3> QED BY <1>1, <1>2, <1>4, <2>1, <2>2, <2>3, <3>1 DEF Passed, Sent
    <2>4. CASE pc[r][b] = "wait"
      <3>1. /\ pc'[r][b] = "reduce" /\ round'[r][b] = round[r][b]
            /\ Wait(r, b)
        BY <2>4, CtaLocal
      <3> QED BY <1>1, <1>2, <1>4, <2>1, <2>2, <2>4, <3>1 DEF Passed, Sent
    <2>5. CASE pc[r][b] = "reduce"
      <3>1. \/ pc'[r][b] = "push" /\ round'[r][b] = round[r][b] + 1
            \/ pc'[r][b] = "idle" /\ round'[r][b] = round[r][b] /\ round[r][b] = Rounds
        BY <2>5, CtaLocal
      <3>2. round[r][b] \in Nat /\ k \in Nat /\ k <= Rounds
        BY <1>2, <1>4, ConstantAssumption
      <3>3. Passed(r, b, k) <=> round[r][b] >= k
        BY <2>1, <2>5, <3>2 DEF Passed
      <3>4. ASSUME pc'[r][b] = "push", round'[r][b] = round[r][b] + 1
            PROVE  Passed(r, b, k)' <=> Passed(r, b, k)
        BY <2>2, <3>2, <3>3, <3>4 DEF Passed
      <3>5. ASSUME pc'[r][b] = "idle", round[r][b] = Rounds
            PROVE  Passed(r, b, k)' <=> Passed(r, b, k)
        BY <2>2, <3>2, <3>3, <3>5 DEF Passed
      <3>6. Passed(r, b, k)' <=> Passed(r, b, k)
        BY <3>1, <3>4, <3>5
      <3> QED BY <1>1, <1>4, <2>5, <3>6 DEF Sent
    <2> QED BY <2>3, <2>4, <2>5, CtaLocal
  <1> QED BY <1>3, <1>4

-----------------------------------------------------------------------------
(* The handshake: ControlInv is inductive.                                 *)

(* Partners come in pairs.                                                 *)
LEMMA PeerType ==
  ASSUME NEW r \in Rank, NEW k \in 1 .. Rounds
  PROVE  Peer[k][r] \in Rank /\ Peer[k][Peer[k][r]] = r
  BY ConstantAssumption

(* What passing the handshake proves: the partner has published round k of *)
(* the same call, because its counter can only be as large as it is.       *)
LEMMA WaitMeansSent ==
  ASSUME ControlInv, NoWrap, NEW r \in Rank, NEW b \in Blocks, Wait(r, b)
  PROVE  Sent(PeerOf(r, b), b, round[r][b], call[r])
  <1>1. /\ TypeOK /\ Shape /\ FlagBound /\ StartBound /\ FlagSync /\ PeersAdjacent
    BY DEF ControlInv
  <1>0. round[r][b] \in 1 .. Rounds /\ PeerOf(r, b) \in Rank
    <2>1. round[r][b] \in 1 .. Rounds
      BY <1>1 DEF TypeOK
    <2> QED BY <2>1, PeerType DEF PeerOf
  <1> SUFFICES ASSUME NEW k \in 1 .. Rounds, k = round[r][b],
                      NEW q \in Rank, q = PeerOf(r, b),
                      NEW sig, sig = flag[q][b] + (IF pc[q][b] = "wait" THEN 1 ELSE 0)
               PROVE  Sent(q, b, k, call[r])
    BY <1>0
  <1>2. pc[r][b] = "wait" /\ Active(r, b) /\ call[r] \in Nat
    BY <1>1 DEF Wait, TypeOK, Shape
  <1>3. q = Peer[k][r] /\ Peer[k][q] = r
    BY PeerType DEF PeerOf
  <1>4. /\ call[q] \in Nat /\ flag[q][b] \in Nat /\ round[q][b] \in 1 .. Rounds
        /\ pc[q][b] \in {"idle", "push", "wait", "reduce"}
        /\ start[r][b][q] \in Nat /\ flag[r][b] \in Nat
    BY <1>1 DEF TypeOK
  <1>5. sig >= Base(r, b) + k
    <2>1. Expected(r, b) = flag[r][b] + 1 /\ flag[r][b] = Base(r, b) + k - 1
      BY <1>1, <1>2, CounterBelow
    <2>2. start[r][b][q] <= sig
      BY <1>1, <1>3 DEF StartBound
    <2>3. ~ (start[r][b][q] < Expected(r, b))
      BY <1>3 DEF Wait
    <2>4. Base(r, b) \in Int
      BY <1>1, DoneType
    <2> QED BY <1>2, <1>4, <2>1, <2>2, <2>3, <2>4
  <1>6. /\ Base(q, b) \in Int /\ Base(r, b) \in Int
        /\ flag[q][b] = Base(q, b) + Done(q, b) /\ Done(q, b) \in 0 .. Rounds
    <2>1. Base(q, b) \in Int /\ Base(r, b) \in Int /\ Done(q, b) \in 0 .. Rounds
      BY <1>1, <1>3, DoneType
    <2> QED BY <1>4, <2>1 DEF Base
  <1>7. CASE call[q] = call[r]
    <2>1. Base(r, b) = Base(q, b)
      BY <1>1, <1>2, <1>3, <1>7 DEF FlagSync
    <2>2. Done(q, b) + (IF pc[q][b] = "wait" THEN 1 ELSE 0) >= k
      BY <1>2, <1>5, <1>6, <2>1
    <2>3. Active(q, b)
      BY <1>2, <1>7 DEF Active
    <2>4. CASE pc[q][b] = "idle"
      BY <1>7, <2>3, <2>4, <1>3 DEF Sent, Passed
    <2>5. CASE pc[q][b] = "wait"
      <3>1. round[q][b] >= k
        BY <1>2, <1>4, <2>2, <2>3, <2>5 DEF Done
      <3>2. round[q][b] = k \/ round[q][b] > k
        BY <1>4, <3>1
      <3> QED BY <1>7, <2>3, <2>5, <3>2 DEF Sent, Passed
    <2>6. CASE pc[q][b] = "push"
      <3>1. round[q][b] > k
        BY <1>2, <1>4, <2>2, <2>3, <2>6 DEF Done
      <3> QED BY <1>3, <1>7, <2>3, <3>1 DEF Sent, Passed
    <2>7. CASE pc[q][b] = "reduce"
      <3>1. round[q][b] >= k
        BY <1>2, <1>4, <2>2, <2>3, <2>7 DEF Done
      <3>2. round[q][b] = k \/ round[q][b] > k
        BY <1>4, <3>1
      <3> QED BY <1>7, <2>3, <2>7, <3>2 DEF Sent, Passed
    <2> QED BY <1>4, <2>4, <2>5, <2>6, <2>7
  <1>8. CASE call[q] > call[r]
    BY <1>3, <1>8 DEF Sent
  <1>9. CASE call[r] = call[q] + 1
    <2>1. Base(r, b) = End(q, b)
      <3>1. call[r] = call[Peer[k][r]] + 1 =>
              Base(r, b) = End(Peer[k][r], b)
        BY <1>1, <1>2 DEF FlagSync
      <3> QED BY <1>3, <1>9, <3>1
    <2>2. sig <= End(q, b)
      <3>1. CASE Active(q, b)
        <4>1. End(q, b) = Base(q, b) + Rounds
          BY <3>1 DEF End
        <4>2. pc[q][b] = "wait" => Done(q, b) = round[q][b] - 1
          BY <3>1 DEF Done
        <4>3. CASE pc[q][b] = "wait"
          <5>1. Done(q, b) + 1 <= Rounds
            BY <1>4, <4>2, <4>3, ConstantAssumption
          <5> QED BY <1>6, <4>1, <4>3, <5>1, ConstantAssumption
        <4>4. CASE pc[q][b] # "wait"
          BY <1>6, <4>1, <4>4, ConstantAssumption
        <4> QED BY <4>3, <4>4
      <3>2. CASE ~ Active(q, b)
        <4>1. pc[q][b] = "idle" /\ Done(q, b) = 0
          BY <1>1, <1>3, <3>2 DEF Shape, Done
        <4> QED BY <1>4, <1>6, <3>2, <4>1 DEF End
      <3> QED BY <3>1, <3>2
    <2> QED BY <1>2, <1>4, <1>5, <1>6, <2>1, <2>2
  <1>10. call[r] <= call[q] + 1
    BY <1>1, <1>2, <1>3 DEF PeersAdjacent
  <1> QED BY <1>2, <1>4, <1>7, <1>8, <1>9, <1>10

(* At the start no rank has called, and every counter is zero.             *)
LEMMA ControlInit == Init => ControlInv
  <1> SUFFICES ASSUME Init PROVE ControlInv
    OBVIOUS
  <1>1. TypeOK
    BY TypeInit
  <1>2. \A r \in Rank, b \in Blocks :
          /\ call[r] = 0 /\ pc[r][b] = "idle" /\ flag[r][b] = 0
          /\ \A q \in Rank : start[r][b][q] = 0
    BY DEF Init
  <1>3. \A r \in Rank, b \in Blocks :
          ~ Active(r, b) /\ Base(r, b) = 0 /\ End(r, b) = 0
    BY <1>2 DEF Active, Base, End, Done
  <1>4. Shape /\ FlagBound /\ StartBound /\ Handshake
    BY <1>2, <1>3 DEF Shape, FlagBound, StartBound, Handshake, Passed
  <1>5. FlagSync /\ PeersAdjacent
    <2>1. ASSUME NEW r \in Rank, NEW k \in 1 .. Rounds
          PROVE  call[r] = 0 /\ call[Peer[k][r]] = 0 /\ Peer[k][r] \in Rank
      <3>1. Peer[k][r] \in Rank
        BY PeerType
      <3> QED BY <3>1 DEF Init
    <2> QED BY <1>3, <2>1 DEF FlagSync, PeersAdjacent
  <1> QED BY <1>1, <1>4, <1>5 DEF ControlInv

(* A signal publishes what the rank counts; a wait counts one more.        *)
LEMMA StartBoundCta ==
  ASSUME ControlInv, NoWrap, NEW r \in Rank, NEW b \in Blocks, Cta(r, b)
  PROVE  StartBound'
  <1>1. TypeOK /\ Shape /\ FlagBound /\ StartBound
    BY DEF ControlInv
  <1>2. SUFFICES ASSUME NEW x \in Rank, NEW q \in Rank, NEW y \in Blocks
                 PROVE  start'[x][y][q] <=
                          flag'[q][y] + (IF pc'[q][y] = "wait" THEN 1 ELSE 0)
    BY DEF StartBound
  <1>3. /\ start[x][y][q] <= flag[q][y] + (IF pc[q][y] = "wait" THEN 1 ELSE 0)
        /\ start[x][y][q] \in Nat /\ flag[q][y] \in Nat
    BY <1>1 DEF StartBound, TypeOK
  <1>4. CASE Signal(r, b)
    <2>1. /\ pc'[q][y] = IF q = r /\ y = b THEN "wait" ELSE pc[q][y]
          /\ flag' = flag
      BY <1>1, <1>4 DEF Signal, TypeOK
    <2>2. PeerOf(r, b) \in Rank
      BY <1>1, PeerType DEF PeerOf, TypeOK
    <2>3. start'[x][y][q] = IF x = PeerOf(r, b) /\ y = b /\ q = r
                            THEN Expected(r, b) ELSE start[x][y][q]
      BY <1>1, <1>4, <2>2 DEF Signal, TypeOK
    <2>4. pc[r][b] = "push" /\ Expected(r, b) = flag[r][b] + 1
      BY <1>1, <1>4, CounterBelow DEF Signal
    <2> QED BY <1>3, <2>1, <2>3, <2>4
  <1>5. CASE Wait(r, b)
    <2>1. pc[r][b] = "wait" /\ Expected(r, b) = flag[r][b] + 1 /\ start' = start
      BY <1>1, <1>5, CounterBelow DEF Wait
    <2>2. CASE q = r /\ y = b
      <3>1. flag'[q][y] = flag[q][y] + 1 /\ pc[q][y] = "wait" /\ pc'[q][y] = "reduce"
        BY <1>1, <1>5, <2>1, <2>2 DEF Wait, TypeOK
      <3> QED BY <1>3, <2>1, <3>1
    <2>3. CASE ~ (q = r /\ y = b)
      <3>1. flag'[q][y] = flag[q][y] /\ pc'[q][y] = pc[q][y]
        BY <1>1, <2>3, CtaLocal
      <3> QED BY <1>3, <2>1, <3>1
    <2> QED BY <2>2, <2>3
  <1>6. ASSUME ~ Signal(r, b), ~ Wait(r, b)
        PROVE  /\ start' = start /\ flag' = flag
               /\ pc[q][y] = "wait" => pc'[q][y] = "wait"
    <2>1. start' = start /\ flag' = flag
      BY <1>6 DEF Cta, Store, Reduce, Retire
    <2>2. pc[r][b] # "wait"
      BY <1>6 DEF Cta, Store, Reduce, Retire
    <2> QED BY <1>1, <2>1, <2>2, CtaLocal
  <1> QED BY <1>3, <1>4, <1>5, <1>6

(* A step of a CTA preserves the handshake invariant.                      *)
LEMMA ControlCta ==
  ASSUME ControlInv, NoWrap, NEW r \in Rank, NEW b \in Blocks, Cta(r, b)
  PROVE  ControlInv'
  <1>1. TypeOK /\ Shape /\ FlagBound /\ FlagSync /\ Handshake /\ PeersAdjacent
    BY DEF ControlInv
  <1>2. TypeOK' /\ Shape' /\ StartBound'
    BY <1>1, TypeCta, ShapeCta, StartBoundCta
  <1>3. call' = call /\ plan' = plan
    BY <1>1, CtaLocal
  <1>4. FlagBound'
    <2> SUFFICES ASSUME NEW x \in Rank, NEW y \in Blocks
                 PROVE  /\ 0 <= Base(x, y)'
                        /\ call[x] = 0 => flag'[x][y] = 0
                        /\ call[x] > 0 => Base(x, y)' <= (call[x] - 1) * Rounds
      BY <1>3 DEF FlagBound
    <2>1. Base(x, y)' = Base(x, y)
      BY <1>1, CtaFrame
    <2>2. call[x] = 0 => flag'[x][y] = flag[x][y]
      <3>1. call[r] > 0
        BY <1>1, CtaLocal DEF Shape, Active
      <3> QED BY <1>1, <3>1, CtaLocal
    <2> QED BY <1>1, <2>1, <2>2 DEF FlagBound
  <1>5. FlagSync'
    <2> SUFFICES ASSUME NEW x \in Rank, NEW k \in 1 .. Rounds, NEW y \in Blocks
                 PROVE  LET q == Peer[k][x] IN
                        /\ call[x] = call[q] => Base(x, y)' = Base(q, y)'
                        /\ call[x] = call[q] + 1 => Base(x, y)' = End(q, y)'
      BY <1>3 DEF FlagSync
    <2>1. Peer[k][x] \in Rank
      BY PeerType
    <2>2. Base(x, y)' = Base(x, y)
      BY <1>1, CtaFrame
    <2>3. /\ Base(Peer[k][x], y)' = Base(Peer[k][x], y)
          /\ End(Peer[k][x], y)' = End(Peer[k][x], y)
      BY <1>1, <2>1, CtaFrame
    <2> QED BY <1>1, <2>2, <2>3 DEF FlagSync
  <1>6. Handshake'
    <2> SUFFICES ASSUME NEW x \in Rank, NEW k \in 1 .. Rounds, NEW y \in Blocks,
                        Passed(x, y, k)'
                 PROVE  Sent(Peer[k][x], y, k, call[x])'
      BY <1>3 DEF Handshake
    <2>1. Peer[k][x] \in Rank
      BY PeerType
    <2>2. call[x] \in Calls
      <3>1. call[x] \in 0 .. MaxCalls /\ call[x] > 0
        BY <1>1, <1>3 DEF TypeOK, Passed, Active
      <3> QED BY <3>1, ConstantAssumption DEF Calls
    <2>3. Sent(Peer[k][x], y, k, call[x])
      <3>1. CASE Passed(x, y, k)
        BY <1>1, <3>1 DEF Handshake
      <3>2. CASE x = r /\ y = b /\ k = round[r][b] /\ Wait(r, b)
        BY <3>2, WaitMeansSent DEF PeerOf
      <3> QED BY <1>1, <3>1, <3>2, CtaPassed
    <2>4. ASSUME NEW c \in Calls, c = call[x] PROVE Sent(Peer[k][x], y, k, c)'
      BY <1>1, <2>1, <2>3, <2>4, CtaPassed
    <2> QED BY <1>3, <2>2, <2>4 DEF Sent
  <1>7. PeersAdjacent'
    BY <1>1, <1>3 DEF PeersAdjacent
  <1> QED BY <1>2, <1>4, <1>5, <1>6, <1>7 DEF ControlInv

(* A rank that has finished a call knows that its partners have begun it.  *)
LEMMA FinishedMeansBegun ==
  ASSUME ControlInv, NEW r \in Rank, \A y \in Blocks : pc[r][y] = "idle",
         NEW k \in 1 .. Rounds
  PROVE  call[r] <= call[Peer[k][r]]
  <1>1. TypeOK /\ Handshake
    BY DEF ControlInv
  <1>2. Peer[k][r] \in Rank
    BY PeerType
  <1>3. call[r] \in 0 .. MaxCalls /\ call[Peer[k][r]] \in 0 .. MaxCalls
    BY <1>1, <1>2 DEF TypeOK
  <1>4. CASE call[r] > 0
    <2>1. call[r] \in Calls /\ 0 \in Blocks
      BY <1>3, <1>4, ConstantAssumption DEF Calls, Blocks
    <2>2. Grid(call[r]) \in 1 .. NBlocks
      BY <1>1, <2>1, GridType DEF TypeOK
    <2>3. Passed(r, 0, k)
      BY <1>4, <2>1, <2>2, ConstantAssumption DEF Passed, Active
    <2>4. Sent(Peer[k][r], 0, k, call[r])
      BY <1>1, <2>1, <2>3 DEF Handshake
    <2> QED BY <1>3, <2>4, ConstantAssumption DEF Sent
  <1> QED BY <1>3, <1>4, ConstantAssumption

(* A launch starts from counters that have reached their end.              *)
LEMMA LaunchFrame ==
  ASSUME TypeOK, Shape, NEW r \in Rank, Launch(r), NEW y \in Blocks
  PROVE  /\ Base(r, y)' = End(r, y) /\ Done(r, y)' = 0
         /\ \A k \in 1 .. Rounds : ~ Passed(r, y, k)'
         /\ \A x \in Rank : x # r =>
              /\ Base(x, y)' = Base(x, y) /\ End(x, y)' = End(x, y)
              /\ Active(x, y)' = Active(x, y)
              /\ \A k \in 1 .. Rounds : Passed(x, y, k)' = Passed(x, y, k)
  <1>1. flag[r][y] \in Nat
    BY DEF TypeOK
  <1>2. pc'[r][y] \in {"push", "idle"} /\ round'[r][y] = 1
    BY LaunchLocal
  <1>3. Active(r, y)' <=> pc'[r][y] = "push"
    BY LaunchLocal DEF Active, Grid
  <1>4. Done(r, y)' = 0
    BY <1>2, <1>3 DEF Done
  <1>5. flag[r][y] = End(r, y)
    <2>1. pc[r][y] = "idle"
      BY LaunchLocal
    <2>2. Done(r, y) = IF Active(r, y) THEN Rounds ELSE 0
      BY <2>1 DEF Done
    <2> QED BY <1>1, <2>2, ConstantAssumption DEF Base, End
  <1>6. Base(r, y)' = End(r, y)
    BY <1>1, <1>4, <1>5, LaunchLocal DEF Base
  <1>7. ASSUME NEW k \in 1 .. Rounds PROVE ~ Passed(r, y, k)'
    BY <1>2, <1>3, ConstantAssumption DEF Passed
  <1>8. ASSUME NEW x \in Rank, x # r
        PROVE  /\ Base(x, y)' = Base(x, y) /\ End(x, y)' = End(x, y)
               /\ Active(x, y)' = Active(x, y)
               /\ \A k \in 1 .. Rounds : Passed(x, y, k)' = Passed(x, y, k)
    <2>1. Active(x, y)' = Active(x, y)
      BY <1>8, LaunchLocal DEF Active, Grid
    <2>2. Done(x, y)' = Done(x, y) /\ flag' = flag
      BY <1>8, <2>1, LaunchLocal DEF Done
    <2>3. \A k \in 1 .. Rounds : Passed(x, y, k)' = Passed(x, y, k)
      BY <1>8, <2>1, LaunchLocal DEF Passed
    <2> QED BY <2>1, <2>2, <2>3 DEF Base, End
  <1> QED BY <1>4, <1>6, <1>7, <1>8

(* A launch preserves the handshake invariant.                             *)
LEMMA ControlLaunch ==
  ASSUME ControlInv, NEW r \in Rank, Launch(r)
  PROVE  ControlInv'
  <1>1. /\ TypeOK /\ Shape /\ FlagBound /\ StartBound /\ FlagSync /\ Handshake
        /\ PeersAdjacent
    BY DEF ControlInv
  <1>2. TypeOK' /\ Shape'
    BY <1>1, TypeLaunch, ShapeLaunch
  <1>3. /\ plan' = plan /\ flag' = flag /\ start' = start
        /\ call[r] + 1 \in Calls /\ call[r] \in Nat /\ call'[r] = call[r] + 1
        /\ \A x \in Rank : x # r => call'[x] = call[x]
    BY <1>1, LaunchLocal
  <1>4. \A k \in 1 .. Rounds : call[r] <= call[Peer[k][r]]
    <2>1. \A y \in Blocks : pc[r][y] = "idle"
      BY DEF Launch
    <2> QED BY <2>1, FinishedMeansBegun
  <1>5. FlagBound'
    <2>1. ASSUME NEW x \in Rank, NEW y \in Blocks, x # r
          PROVE  Base(x, y)' = Base(x, y) /\ call'[x] = call[x]
      BY <1>1, <1>3, <2>1, LaunchFrame
    <2>2. ASSUME NEW y \in Blocks
          PROVE  0 <= Base(r, y)' /\ Base(r, y)' <= (call'[r] - 1) * Rounds
      <3> DEFINE m == (call[r] - 1) * Rounds
                 n == call[r] * Rounds
      <3>1. Base(r, y)' = End(r, y) /\ End(r, y) \in Int /\ Base(r, y) \in Int
        BY <1>1, LaunchFrame, DoneType
      <3>2. Rounds \in Nat /\ n \in Nat
        BY <1>3, MulType, ConstantAssumption
      <3>3. CASE call[r] = 0
        <4>1. End(r, y) = 0
          BY <1>1, <3>3 DEF FlagBound, End, Base, Done, Active
        <4> QED BY <1>3, <3>1, <3>2, <4>1
      <3>4. CASE call[r] > 0
        <4>1. call[r] - 1 \in Nat
          BY <1>3, <3>4
        <4>2. m \in Nat /\ m + Rounds = n
          BY <1>3, <3>2, <3>4, <4>1, MulType, OneMoreCall
        <4>3. 0 <= Base(r, y) /\ Base(r, y) <= m
          BY <1>1, <3>4 DEF FlagBound
        <4>4. Base(r, y) <= End(r, y) /\ End(r, y) <= Base(r, y) + Rounds
          BY <3>1, <3>2 DEF End
        <4>5. call'[r] - 1 = call[r]
          BY <1>3
        <4> HIDE DEF m
        <4>6. 0 <= End(r, y) /\ End(r, y) <= n
          BY <3>1, <3>2, <4>2, <4>3, <4>4
        <4> QED BY <3>1, <4>5, <4>6
      <3> QED BY <1>3, <3>3, <3>4
    <2> QED BY <1>1, <1>3, <2>1, <2>2 DEF FlagBound
  <1>6. StartBound'
    <2> SUFFICES ASSUME NEW x \in Rank, NEW q \in Rank, NEW y \in Blocks
                 PROVE  start[x][y][q] <=
                          flag[q][y] + (IF pc'[q][y] = "wait" THEN 1 ELSE 0)
      BY <1>3 DEF StartBound
    <2>1. pc[q][y] = "wait" => pc'[q][y] = "wait"
      BY <1>1, LaunchLocal
    <2>2. start[x][y][q] \in Nat /\ flag[q][y] \in Nat
      BY <1>1 DEF TypeOK
    <2> QED BY <1>1, <2>1, <2>2 DEF StartBound
  <1>7. FlagSync'
    <2> SUFFICES ASSUME NEW x \in Rank, NEW k \in 1 .. Rounds, NEW y \in Blocks,
                        NEW q \in Rank, q = Peer[k][x]
                 PROVE  /\ call'[x] = call'[q] => Base(x, y)' = Base(q, y)'
                        /\ call'[x] = call'[q] + 1 => Base(x, y)' = End(q, y)'
      BY PeerType DEF FlagSync
    <2>0. /\ call[x] \in Nat /\ call[q] \in Nat /\ Peer[k][q] = x
          /\ call[x] <= call[q] + 1 /\ call[q] <= call[x] + 1
      BY <1>1, PeerType DEF TypeOK, PeersAdjacent
    <2>1. CASE x # r /\ q # r
      BY <1>1, <1>3, <2>1, LaunchFrame DEF FlagSync
    <2>2. CASE x = r /\ q # r
      <3>1. call[r] <= call[q]
        BY <1>4, <2>2
      <3>2. /\ Base(r, y)' = End(r, y)
            /\ Base(q, y)' = Base(q, y) /\ End(q, y)' = End(q, y)
        BY <1>1, <2>2, LaunchFrame
      <3>3. CASE call[q] = call[r]
        <4>1. Base(r, y) = Base(q, y)
          BY <1>1, <2>2, <3>3 DEF FlagSync
        <4>2. End(r, y) = End(q, y)
          BY <3>3, <4>1 DEF End, Active
        <4> QED BY <1>3, <2>0, <2>2, <3>2, <3>3, <4>2
      <3>4. CASE call[q] = call[r] + 1
        <4>1. Base(q, y) = End(r, y)
          BY <1>1, <2>0, <2>2, <3>4 DEF FlagSync
        <4> QED BY <1>3, <2>0, <2>2, <3>2, <3>4, <4>1
      <3> QED BY <2>0, <2>2, <3>1, <3>3, <3>4
    <2>3. CASE x # r /\ q = r
      <3>1. call[r] <= call[x]
        BY <1>4, <2>0, <2>3
      <3>2. Base(r, y)' = End(r, y) /\ Base(x, y)' = Base(x, y)
        BY <1>1, <2>3, LaunchFrame
      <3>3. call[x] = call[r] + 1 => Base(x, y) = End(r, y)
        <4>1. Peer[k][x] = r
          BY <2>3
        <4> QED BY <1>1, <4>1 DEF FlagSync
      <3> QED BY <1>3, <2>0, <2>3, <3>1, <3>2, <3>3
    <2>4. CASE x = r /\ q = r
      BY <1>3, <2>4
    <2> QED BY <2>1, <2>2, <2>3, <2>4
  <1>8. Handshake'
    <2> SUFFICES ASSUME NEW x \in Rank, NEW k \in 1 .. Rounds, NEW y \in Blocks,
                        NEW q \in Rank, q = Peer[k][x], Passed(x, y, k)'
                 PROVE  Sent(q, y, k, call[x])'
      BY PeerType DEF Handshake
    <2>1. x # r /\ Passed(x, y, k) /\ call'[x] = call[x]
      BY <1>1, <1>3, LaunchFrame
    <2>2. Sent(q, y, k, call[x])
      BY <1>1, <2>1 DEF Handshake
    <2>3. CASE q # r
      <3>1. /\ Passed(q, y, k)' = Passed(q, y, k) /\ call'[q] = call[q]
            /\ pc'[q][y] = pc[q][y] /\ round'[q][y] = round[q][y]
        BY <1>1, <1>3, <2>3, LaunchFrame, LaunchLocal
      <3> QED BY <2>1, <2>2, <3>1 DEF Sent
    <2>4. CASE q = r
      <3>1. call[r] >= call[x] /\ call[x] \in Nat
        BY <1>1, <1>3, <2>2, <2>4 DEF Sent, TypeOK
      <3>2. call'[q] > call'[x]
        BY <1>3, <2>1, <2>4, <3>1
      <3> QED BY <3>2 DEF Sent
    <2> QED BY <2>3, <2>4
  <1>9. PeersAdjacent'
    <2> SUFFICES ASSUME NEW x \in Rank, NEW k \in 1 .. Rounds,
                        NEW q \in Rank, q = Peer[k][x]
                 PROVE  call'[x] <= call'[q] + 1
      BY PeerType DEF PeersAdjacent
    <2>1. call[x] \in Nat /\ call[q] \in Nat /\ call[x] <= call[q] + 1
      BY <1>1 DEF TypeOK, PeersAdjacent
    <2> QED BY <1>3, <1>4, <2>1
  <1> QED BY <1>2, <1>5, <1>6, <1>7, <1>8, <1>9 DEF ControlInv

(* ControlInv depends on the variables only.                               *)
LEMMA ControlStutter == ControlInv /\ UNCHANGED vars => ControlInv'
  <1> SUFFICES ASSUME ControlInv, UNCHANGED vars PROVE ControlInv'
    OBVIOUS
  <1>1. TypeOK' /\ Shape'
    BY DEF vars, ControlInv, TypeOK, Shape, Active, Grid, Owned, Owner
  <1>2. FlagBound' /\ StartBound' /\ PeersAdjacent'
    BY DEF vars, ControlInv, FlagBound, StartBound, PeersAdjacent, Base, Done,
           Active, Grid
  <1>3. FlagSync'
    <2>1. ASSUME NEW r \in Rank, NEW b \in Blocks
          PROVE  Base(r, b)' = Base(r, b) /\ End(r, b)' = End(r, b)
      BY DEF vars, Base, End, Done, Active, Grid
    <2>2. call' = call
      BY DEF vars
    <2> QED BY <2>1, <2>2, PeerType DEF ControlInv, FlagSync
  <1>4. Handshake'
    BY DEF vars, ControlInv, Handshake, Sent, Passed, Active, Grid
  <1> QED BY <1>1, <1>2, <1>3, <1>4 DEF ControlInv

(* The handshake invariant holds in every reachable state.                 *)
THEOREM ControlCorrect == ASSUME NoWrap PROVE Spec => []ControlInv
  <1>1. ControlInv /\ [Next]_vars => ControlInv'
    <2> SUFFICES ASSUME ControlInv, [Next]_vars PROVE ControlInv'
      OBVIOUS
    <2>1. ASSUME NEW r \in Rank, Launch(r) PROVE ControlInv'
      BY <2>1, ControlLaunch
    <2>2. ASSUME NEW r \in Rank, NEW b \in Blocks, Cta(r, b) PROVE ControlInv'
      BY <2>2, ControlCta
    <2>3. CASE UNCHANGED vars
      BY <2>3, ControlStutter
    <2> QED BY <2>1, <2>2, <2>3 DEF Next, Terminated
  <1> QED BY <1>1, ControlInit, PTL DEF Spec

(* Partners are never more than one kernel apart.                          *)
THEOREM PartnersAdjacent == ASSUME NoWrap PROVE Spec => []PeersAdjacent
  <1>1. ControlInv => PeersAdjacent
    BY DEF ControlInv
  <1> QED BY <1>1, ControlCorrect, PTL

-----------------------------------------------------------------------------
(* The epochs: EpochInv is inductive.                                      *)

(* Whether the limit is fixed or not decides who owns a chunk: with a      *)
(* fixed limit, the same block in every call.                              *)
LEMMA OwnerStable ==
  ASSUME plan \in [Calls -> 1 .. NChunks], ~ AdvanceAll,
         NEW c \in Calls, NEW d \in Calls, NEW i \in Nat, i < plan[c], i < plan[d]
  PROVE  Owner(c, i) = Owner(d, i)
  <1> DEFINE L == GridLimit[plan[c]]
  <1>1. plan[c] \in 1 .. NChunks /\ plan[d] \in 1 .. NChunks
    OBVIOUS
  <1>2. L \in 1 .. NBlocks /\ GridLimit[plan[d]] = L
    BY <1>1, ConstantAssumption
  <1>3. Grid(c) = Least(L, plan[c]) /\ Grid(d) = Least(L, plan[d])
    BY <1>2 DEF Grid
  <1>4. CASE plan[c] >= L /\ plan[d] >= L
    <2>1. Grid(c) = L /\ Grid(d) = L
      BY <1>1, <1>2, <1>3, <1>4, ConstantAssumption DEF Least
    <2> QED BY <2>1 DEF Owner
  <1>5. CASE plan[c] < L \/ plan[d] < L
    <2>1. i < Grid(c) /\ i < Grid(d)
      BY <1>1, <1>2, <1>3, <1>5, ConstantAssumption DEF Least
    <2>2. Grid(c) \in Nat \ {0} /\ Grid(d) \in Nat \ {0}
      BY GridType, ConstantAssumption
    <2>3. Owner(c, i) = i /\ Owner(d, i) = i
      BY <2>1, <2>2, ModSmall DEF Owner
    <2> QED BY <2>3
  <1> QED BY <1>1, <1>2, <1>4, <1>5, ConstantAssumption

(* No step of a CTA moves the epoch its call began with.                   *)
LEMMA EpochCta ==
  ASSUME TypeOK, Shape, EpochIsCall, NEW r \in Rank, NEW b \in Blocks, Cta(r, b),
         NEW x \in Rank, NEW y \in Blocks
  PROVE  Epoch0(x, y)' = Epoch0(x, y) /\ EpochEnd(x, y)' = EpochEnd(x, y)
  <1> DEFINE g == Grid(call[x])
             o == IF y < g THEN y ELSE 0
  <1>1. /\ call' = call /\ plan' = plan /\ Active(r, b) /\ pc[r][b] # "idle"
        /\ epoch[x][y] \in Nat /\ 0 \in Blocks
    <2>1. call' = call /\ plan' = plan /\ pc[r][b] # "idle"
      BY CtaLocal DEF Cta, Store, Signal, Wait, Reduce, Retire
    <2>2. Active(r, b)
      BY <2>1 DEF Shape
    <2>3. epoch[x][y] \in Nat
      BY DEF TypeOK
    <2>4. 0 \in Blocks
      BY ConstantAssumption DEF Blocks
    <2> QED BY <2>1, <2>2, <2>3, <2>4
  <1>2. Grid(call[x])' = Grid(call[x]) /\ Advances(call[x], y)' = Advances(call[x], y)
    BY <1>1 DEF Grid, Advances
  <1>3. SUFFICES Epoch0(x, y)' = Epoch0(x, y)
    BY <1>1, <1>2 DEF EpochEnd
  <1>4. CASE ~ Retire(r, b)
    <2>1. epoch' = epoch
      BY <1>4 DEF Cta, Store, Signal, Wait, Reduce
    <2>2. pc'[r][b] # "idle"
      <3>1. ASSUME NEW i \in Chunks, Store(r, b, i) PROVE pc'[r][b] # "idle"
        BY <1>1, <3>1 DEF Store
      <3>2. CASE Signal(r, b) \/ Wait(r, b) \/ Reduce(r, b)
        <4>1. pc \in [Rank -> [Blocks -> {"idle", "push", "wait", "reduce"}]]
          BY DEF TypeOK
        <4> QED BY <3>2, <4>1 DEF Signal, Wait, Reduce
      <3> QED BY <1>4, <3>1, <3>2 DEF Cta
    <2>3. (pc'[x][o] = "idle") = (pc[x][o] = "idle")
      BY <1>1, <2>2, CtaLocal
    <2>4. Advanced(x, y)' = Advanced(x, y)
      BY <1>1, <1>2, <2>3 DEF Advanced
    <2> QED BY <2>1, <2>4 DEF Epoch0
  <1>5. CASE Retire(r, b) /\ x # r
    <2>1. epoch'[x] = epoch[x] /\ pc'[x] = pc[x]
      BY <1>5 DEF Retire, TypeOK
    <2>2. Advanced(x, y)' = Advanced(x, y)
      BY <1>1, <1>2, <2>1 DEF Advanced
    <2> QED BY <2>1, <2>2 DEF Epoch0
  <1>6. CASE Retire(r, b) /\ x = r
    <2>1. call[r] > 0 /\ b < g /\ g \in Nat /\ Blocks \subseteq Nat
      <3>1. call[r] \in 0 .. MaxCalls /\ call[r] > 0
        BY <1>1 DEF Active, TypeOK
      <3>2. call[r] \in Calls
        BY <3>1, ConstantAssumption DEF Calls
      <3>3. g \in 1 .. NBlocks
        BY <1>6, <3>2, GridType DEF TypeOK
      <3> QED BY <1>1, <1>6, <3>3, ConstantAssumption DEF Active, Blocks
    <2>2. epoch'[r][y] = IF y = b \/ (AdvanceAll /\ b = 0 /\ y >= g)
                         THEN epoch[r][b] + 1 ELSE epoch[r][y]
      BY <1>6 DEF Retire, TypeOK, AdvanceEpoch
    <2>3. \A z \in Blocks : pc'[r][z] = IF z = b THEN "idle" ELSE pc[r][z]
      BY <1>6 DEF Retire, TypeOK
    <2>4. CASE y = b
      <3>1. ~ Advanced(r, y) /\ Advanced(r, y)'
        BY <1>1, <1>2, <1>6, <2>1, <2>3, <2>4 DEF Advanced, Advances
      <3> QED BY <1>1, <1>6, <2>2, <2>4, <3>1 DEF Epoch0
    <2>5. CASE y # b /\ y < g
      <3>1. Advanced(r, y)' = Advanced(r, y)
        BY <1>1, <1>2, <1>6, <2>3, <2>5 DEF Advanced
      <3>2. epoch'[r][y] = epoch[r][y]
        <4>1. ~ (y >= g)
          BY <2>1, <2>5
        <4> QED BY <2>2, <2>5, <4>1
      <3> QED BY <1>6, <3>1, <3>2 DEF Epoch0
    <2>6. CASE y # b /\ ~ (y < g) /\ b = 0
      <3>1. ~ Advanced(r, y) /\ ~ Advanced(r, 0)
        BY <1>1, <1>6, <2>1, <2>6 DEF Advanced
      <3>2. Advanced(r, y)' <=> AdvanceAll
        BY <1>1, <1>2, <1>6, <2>1, <2>3, <2>6 DEF Advanced, Advances
      <3>3. CASE AdvanceAll
        <4>1. Epoch0(r, y) = Epoch0(r, 0)
          BY <1>1, <1>6, <2>1, <3>3 DEF EpochIsCall
        <4>2. epoch[r][y] = epoch[r][0] /\ epoch[r][y] \in Nat
          BY <1>1, <1>6, <3>1, <4>1 DEF Epoch0, TypeOK
        <4>3. y >= g
          BY <2>1, <2>6
        <4>4. epoch'[r][y] = epoch[r][0] + 1
          BY <2>2, <2>6, <3>3, <4>3
        <4> QED BY <1>6, <3>1, <3>2, <3>3, <4>2, <4>4 DEF Epoch0
      <3>4. CASE ~ AdvanceAll
        <4>1. epoch'[r][y] = epoch[r][y]
          BY <2>2, <2>6, <3>4
        <4> QED BY <1>6, <3>1, <3>2, <3>4, <4>1 DEF Epoch0
      <3> QED BY <3>3, <3>4
    <2>7. CASE y # b /\ ~ (y < g) /\ b # 0
      <3>1. Advanced(r, y)' = Advanced(r, y)
        BY <1>1, <1>2, <1>6, <2>3, <2>7 DEF Advanced
      <3>2. epoch'[r][y] = epoch[r][y]
        BY <2>2, <2>7
      <3> QED BY <1>6, <3>1, <3>2 DEF Epoch0
    <2> QED BY <2>4, <2>5, <2>6, <2>7
  <1> QED BY <1>4, <1>5, <1>6

(* A launch begins with the epochs the call before has ended with.         *)
LEMMA EpochLaunchFrame ==
  ASSUME TypeOK, Shape, NEW r \in Rank, Launch(r), NEW y \in Blocks
  PROVE  /\ Epoch0(r, y)' = EpochEnd(r, y) /\ Epoch0(r, y)' = epoch[r][y]
         /\ \A x \in Rank : x # r =>
              Epoch0(x, y)' = Epoch0(x, y) /\ EpochEnd(x, y)' = EpochEnd(x, y)
  <1>1. /\ plan' = plan /\ epoch' = epoch /\ call[r] + 1 \in Calls
        /\ call'[r] = call[r] + 1 /\ call[r] \in Nat /\ 0 \in Blocks
        /\ epoch[r][y] \in Nat
    <2>1. plan' = plan /\ epoch' = epoch
      BY DEF Launch
    <2>2. epoch[r][y] \in Nat
      BY DEF TypeOK
    <2>3. 0 \in Blocks
      BY ConstantAssumption DEF Blocks
    <2>4. call[r] + 1 \in Calls /\ call'[r] = call[r] + 1 /\ call[r] \in Nat
      BY LaunchLocal
    <2> QED BY <2>1, <2>2, <2>3, <2>4
  <1>2. Grid(call[r] + 1) \in 1 .. NBlocks /\ 0 < Grid(call[r] + 1)
    <2>1. Grid(call[r] + 1) \in 1 .. NBlocks
      BY <1>1, GridType DEF TypeOK
    <2> QED BY <2>1, ConstantAssumption
  <1>3. ~ Advanced(r, y)'
    <2>1. Grid(call[r])' = Grid(call[r] + 1)
      BY <1>1 DEF Grid
    <2>2. pc'[r][IF y < Grid(call[r] + 1) THEN y ELSE 0] = "push"
      BY <1>1, <1>2, LaunchLocal
    <2> QED BY <2>1, <2>2 DEF Advanced
  <1>4. Epoch0(r, y)' = epoch[r][y]
    BY <1>1, <1>3 DEF Epoch0
  <1>5. epoch[r][y] = EpochEnd(r, y)
    <2>1. \A z \in Blocks : pc[r][z] = "idle"
      BY LaunchLocal
    <2>2. Advanced(r, y) <=> call[r] > 0 /\ Advances(call[r], y)
      BY <1>1, <2>1 DEF Advanced
    <2> QED BY <1>1, <2>2 DEF EpochEnd, Epoch0
  <1>6. ASSUME NEW x \in Rank, x # r
        PROVE  Epoch0(x, y)' = Epoch0(x, y) /\ EpochEnd(x, y)' = EpochEnd(x, y)
    <2>1. call'[x] = call[x] /\ pc'[x] = pc[x]
      BY <1>6 DEF Launch, TypeOK
    <2>2. Advanced(x, y)' = Advanced(x, y) /\ Advances(call[x], y)' = Advances(call[x], y)
      BY <1>1, <2>1 DEF Advanced, Advances, Grid
    <2> QED BY <1>1, <2>1, <2>2 DEF Epoch0, EpochEnd
  <1> QED BY <1>4, <1>5, <1>6

(* The epochs are zero at the start.                                       *)
LEMMA EpochInit == Init => EpochInv
  <1> SUFFICES ASSUME Init PROVE EpochInv
    OBVIOUS
  <1>1. \A r \in Rank, b \in Blocks :
          call[r] = 0 /\ epoch[r][b] = 0 /\ ~ Advanced(r, b)
    BY DEF Init, Advanced
  <1>2. \A r \in Rank, b \in Blocks : Epoch0(r, b) = 0
    BY <1>1 DEF Epoch0
  <1>3. EpochSync
    <2>1. ASSUME NEW r \in Rank, NEW k \in 1 .. Rounds
          PROVE  call[Peer[k][r]] = 0 /\ Peer[k][r] \in Rank
      <3>1. Peer[k][r] \in Rank
        BY PeerType
      <3> QED BY <1>1, <3>1 DEF Init
    <2> QED BY <1>1, <1>2, <2>1 DEF EpochSync
  <1>4. EpochIsCall
    BY <1>1, <1>2 DEF EpochIsCall
  <1> QED BY <1>3, <1>4 DEF EpochInv

(* Steps of CTAs and launches preserve EpochInv.                           *)
LEMMA EpochInvCta ==
  ASSUME ControlInv, EpochInv, NEW r \in Rank, NEW b \in Blocks, Cta(r, b)
  PROVE  EpochInv'
  <1>1. TypeOK /\ Shape /\ EpochSync /\ EpochIsCall
    BY DEF ControlInv, EpochInv
  <1>2. call' = call /\ Active(r, b)
    BY <1>1, CtaLocal DEF Shape
  <1>3. EpochSync'
    <2> SUFFICES ASSUME NEW x \in Rank, NEW k \in 1 .. Rounds, NEW y \in Blocks,
                        NEW q \in Rank, q = Peer[k][x]
                 PROVE  /\ call[x] = call[q] => Epoch0(x, y)' = Epoch0(q, y)'
                        /\ call[x] = call[q] + 1 => Epoch0(x, y)' = EpochEnd(q, y)'
      BY <1>2, PeerType DEF EpochSync
    <2>1. /\ Epoch0(x, y)' = Epoch0(x, y) /\ Epoch0(q, y)' = Epoch0(q, y)
          /\ EpochEnd(q, y)' = EpochEnd(q, y)
      BY <1>1, EpochCta
    <2> QED BY <1>1, <2>1 DEF EpochSync
  <1>4. EpochIsCall'
    <2> SUFFICES ASSUME NEW x \in Rank, NEW y \in Blocks
                 PROVE  /\ call[x] = 0 => epoch'[x][y] = 0
                        /\ AdvanceAll /\ call[x] > 0 => Epoch0(x, y)' = call[x] - 1
      BY <1>2 DEF EpochIsCall
    <2>1. Epoch0(x, y)' = Epoch0(x, y)
      BY <1>1, EpochCta
    <2>2. call[x] = 0 => epoch'[x] = epoch[x]
      <3>1. call[r] > 0
        BY <1>2 DEF Active
      <3>2. epoch' = epoch \/ \E v : epoch' = [epoch EXCEPT ![r] = v]
        BY DEF Cta, Store, Signal, Wait, Reduce, Retire
      <3> QED BY <1>1, <3>1, <3>2 DEF TypeOK
    <2> QED BY <1>1, <2>1, <2>2 DEF EpochIsCall
  <1> QED BY <1>3, <1>4 DEF EpochInv

LEMMA EpochInvLaunch ==
  ASSUME ControlInv, EpochInv, NEW r \in Rank, Launch(r)
  PROVE  EpochInv'
  <1>1. TypeOK /\ Shape /\ PeersAdjacent /\ EpochSync /\ EpochIsCall
    BY DEF ControlInv, EpochInv
  <1>2. /\ call'[r] = call[r] + 1 /\ call[r] \in Nat /\ epoch' = epoch
        /\ plan' = plan /\ \A x \in Rank : x # r => call'[x] = call[x]
    BY <1>1, LaunchLocal DEF Launch
  <1>3. \A k \in 1 .. Rounds : call[r] <= call[Peer[k][r]]
    <2>1. \A y \in Blocks : pc[r][y] = "idle"
      BY DEF Launch
    <2> QED BY <2>1, FinishedMeansBegun
  <1>4. EpochSync'
    <2> SUFFICES ASSUME NEW x \in Rank, NEW k \in 1 .. Rounds, NEW y \in Blocks,
                        NEW q \in Rank, q = Peer[k][x]
                 PROVE  /\ call'[x] = call'[q] => Epoch0(x, y)' = Epoch0(q, y)'
                        /\ call'[x] = call'[q] + 1 => Epoch0(x, y)' = EpochEnd(q, y)'
      BY PeerType DEF EpochSync
    <2>0. /\ call[x] \in Nat /\ call[q] \in Nat /\ Peer[k][q] = x
          /\ call[x] <= call[q] + 1 /\ call[q] <= call[x] + 1
      BY <1>1, PeerType DEF TypeOK, PeersAdjacent
    <2>1. CASE x # r /\ q # r
      BY <1>1, <1>2, <2>1, EpochLaunchFrame DEF EpochSync
    <2>2. CASE x = r /\ q # r
      <3>1. call[r] <= call[q]
        BY <1>3, <2>2
      <3>2. /\ Epoch0(r, y)' = EpochEnd(r, y)
            /\ Epoch0(q, y)' = Epoch0(q, y) /\ EpochEnd(q, y)' = EpochEnd(q, y)
        BY <1>1, <2>2, EpochLaunchFrame
      <3>3. CASE call[q] = call[r]
        <4>1. Epoch0(r, y) = Epoch0(q, y)
          BY <1>1, <2>2, <3>3 DEF EpochSync
        <4>2. EpochEnd(r, y) = EpochEnd(q, y)
          BY <3>3, <4>1 DEF EpochEnd
        <4> QED BY <1>2, <2>0, <2>2, <3>2, <3>3, <4>2
      <3>4. CASE call[q] = call[r] + 1
        <4>1. Peer[k][q] = r
          BY <2>0, <2>2
        <4>2. Epoch0(q, y) = EpochEnd(r, y)
          BY <1>1, <3>4, <4>1 DEF EpochSync
        <4> QED BY <1>2, <2>0, <2>2, <3>2, <3>4, <4>2
      <3> QED BY <2>0, <2>2, <3>1, <3>3, <3>4
    <2>3. CASE x # r /\ q = r
      <3>1. call[r] <= call[x]
        BY <1>3, <2>0, <2>3
      <3>2. Epoch0(r, y)' = EpochEnd(r, y) /\ Epoch0(x, y)' = Epoch0(x, y)
        BY <1>1, <2>3, EpochLaunchFrame
      <3>3. call[x] = call[r] + 1 => Epoch0(x, y) = EpochEnd(r, y)
        <4>1. Peer[k][x] = r
          BY <2>3
        <4> QED BY <1>1, <4>1 DEF EpochSync
      <3> QED BY <1>2, <2>0, <2>3, <3>1, <3>2, <3>3
    <2>4. CASE x = r /\ q = r
      BY <1>2, <2>4
    <2> QED BY <2>1, <2>2, <2>3, <2>4
  <1>5. EpochIsCall'
    <2>1. ASSUME NEW x \in Rank, NEW y \in Blocks, x # r
          PROVE  Epoch0(x, y)' = Epoch0(x, y) /\ call'[x] = call[x]
      BY <1>1, <1>2, <2>1, EpochLaunchFrame
    <2>2. ASSUME NEW y \in Blocks, AdvanceAll PROVE Epoch0(r, y)' = call'[r] - 1
      <3>1. Epoch0(r, y)' = EpochEnd(r, y) /\ Epoch0(r, y)' = epoch[r][y]
        BY <1>1, EpochLaunchFrame
      <3>2. CASE call[r] = 0
        <4>1. epoch[r][y] = 0
          BY <1>1, <3>2 DEF EpochIsCall
        <4>2. call'[r] - 1 = 0
          BY <1>2, <3>2
        <4>3. Epoch0(r, y)' = 0
          BY <3>1, <4>1
        <4> QED BY <4>2, <4>3
      <3>3. CASE call[r] > 0
        <4>1. Epoch0(r, y) = call[r] - 1 /\ Advances(call[r], y)
          BY <1>1, <2>2, <3>3 DEF EpochIsCall, Advances
        <4>2. EpochEnd(r, y) = call[r]
          BY <1>2, <3>3, <4>1 DEF EpochEnd
        <4>3. call'[r] - 1 = call[r]
          BY <1>2
        <4>4. Epoch0(r, y)' = call[r]
          BY <3>1, <4>2
        <4> QED BY <4>3, <4>4
      <3> QED BY <1>2, <3>2, <3>3
    <2> QED BY <1>1, <1>2, <2>1, <2>2 DEF EpochIsCall
  <1> QED BY <1>4, <1>5 DEF EpochInv

(* EpochInv depends on the variables only.                                 *)
LEMMA EpochInvStutter == EpochInv /\ UNCHANGED vars => EpochInv'
  <1> SUFFICES ASSUME EpochInv, UNCHANGED vars PROVE EpochInv'
    OBVIOUS
  <1>0. ASSUME NEW r \in Rank, NEW b \in Blocks
        PROVE  Epoch0(r, b)' = Epoch0(r, b) /\ EpochEnd(r, b)' = EpochEnd(r, b)
    BY DEF vars, Epoch0, EpochEnd, Advanced, Advances, Grid
  <1>1. EpochSync'
    <2>1. call' = call
      BY DEF vars
    <2> QED BY <1>0, <2>1, PeerType DEF EpochInv, EpochSync
  <1>2. EpochIsCall'
    BY DEF vars, EpochInv, EpochIsCall, Epoch0, Advanced, Advances, Grid
  <1> QED BY <1>1, <1>2 DEF EpochInv

(* The handshake and the epochs are as described in every reachable state. *)
THEOREM EpochsInStep == ASSUME NoWrap PROVE Spec => [](ControlInv /\ EpochInv)
  <1>1. ControlInv /\ EpochInv /\ [Next]_vars => ControlInv' /\ EpochInv'
    <2> SUFFICES ASSUME ControlInv, EpochInv, [Next]_vars
                 PROVE  ControlInv' /\ EpochInv'
      OBVIOUS
    <2>1. ASSUME NEW r \in Rank, Launch(r) PROVE ControlInv' /\ EpochInv'
      BY <2>1, ControlLaunch, EpochInvLaunch
    <2>2. ASSUME NEW r \in Rank, NEW b \in Blocks, Cta(r, b)
          PROVE  ControlInv' /\ EpochInv'
      BY <2>2, ControlCta, EpochInvCta
    <2>3. CASE UNCHANGED vars
      BY <2>3, ControlStutter, EpochInvStutter
    <2> QED BY <2>1, <2>2, <2>3 DEF Next, Terminated
  <1> QED BY <1>1, ControlInit, EpochInit, PTL DEF Spec

(* RDNA4 ranks are between kernels with every block on the call's epoch,   *)
(* whatever grids the calls had: "Keep every CTA on the same invocation    *)
(* epoch even when shape tuning changes the grid size."                    *)
THEOREM BlocksShareEpoch == ASSUME NoWrap PROVE Spec => []UniformEpoch
  <1>1. ControlInv /\ EpochInv => UniformEpoch
    <2> SUFFICES ASSUME ControlInv, EpochInv, AdvanceAll, NEW r \in Rank,
                        \A b \in Blocks : pc[r][b] = "idle", NEW y \in Blocks
                 PROVE  epoch[r][y] = call[r]
      BY DEF UniformEpoch
    <2>1. /\ call[r] \in Nat /\ epoch[r][y] \in Nat /\ EpochIsCall
          /\ 0 \in Blocks
      <3>1. TypeOK /\ EpochIsCall
        BY DEF ControlInv, EpochInv
      <3>2. call[r] \in Nat /\ epoch[r][y] \in Nat
        BY <3>1 DEF TypeOK
      <3>3. 0 \in Blocks
        BY ConstantAssumption DEF Blocks
      <3> QED BY <3>1, <3>2, <3>3
    <2>2. CASE call[r] = 0
      BY <2>1, <2>2 DEF EpochIsCall
    <2>3. CASE call[r] > 0
      <3>1. Advanced(r, y)
        BY <2>1, <2>3 DEF Advanced, Advances
      <3>2. Epoch0(r, y) = call[r] - 1
        BY <2>1, <2>3 DEF EpochIsCall
      <3>3. epoch[r][y] - 1 = call[r] - 1
        BY <3>1, <3>2 DEF Epoch0
      <3> QED BY <2>1, <3>3
    <2> QED BY <2>1, <2>2, <2>3
  <1> QED BY <1>1, EpochsInStep, PTL

-----------------------------------------------------------------------------
(* What the handshake and the epochs are for: no payload is overwritten    *)
(* before it has been read (NoOverwrite), and a reduction always finds its *)
(* partner's sum of this call and round (FreshPayload).                    *)

(* Consecutive epochs take different halves of the buffer.                 *)
LEMMA HalvesAlternate == \A e \in Int : (e + 1) % 2 # e % 2 /\ (e - 1) % 2 # e % 2
  BY SMT

(* An idle, inactive or retired block aside, a block works in the half of  *)
(* the epoch its call began with.                                          *)
LEMMA WorkingEpoch ==
  ASSUME TypeOK, Shape, NEW r \in Rank, NEW b \in Blocks, pc[r][b] # "idle"
  PROVE  Epoch0(r, b) = epoch[r][b] /\ Active(r, b) /\ call[r] \in Calls
  <1>1. Active(r, b)
    BY DEF Shape
  <1>2. ~ Advanced(r, b)
    BY <1>1 DEF Active, Advanced
  <1>3. epoch[r][b] \in Nat
    BY DEF TypeOK
  <1>4. call[r] \in 0 .. MaxCalls /\ call[r] > 0
    BY <1>1 DEF TypeOK, Active
  <1>5. call[r] \in Calls
    BY <1>4, ConstantAssumption DEF Calls
  <1> QED BY <1>1, <1>2, <1>3, <1>5 DEF Epoch0

(* An epoch at the start of a call is an integer.                          *)
LEMMA Epoch0Type ==
  ASSUME TypeOK, NEW r \in Rank, NEW b \in Blocks
  PROVE  Epoch0(r, b) \in Int
  <1>1. epoch[r][b] \in Nat
    BY DEF TypeOK
  <1> QED BY <1>1 DEF Epoch0

(* Partners one call apart: the block that owns chunk i is one epoch ahead *)
(* on the rank that is ahead, whatever the two grids.                      *)
LEMMA OneCallApart ==
  ASSUME ControlInv, EpochInv, NEW r \in Rank, NEW k \in 1 .. Rounds,
         NEW q \in Rank, q = Peer[k][r], call[r] = call[q] + 1, call[q] > 0,
         NEW i \in Nat, i < plan[call[r]], i < plan[call[q]]
  PROVE  Epoch0(r, Owner(call[r], i)) = Epoch0(q, Owner(call[q], i)) + 1
  <1> DEFINE b == Owner(call[r], i)
             o == Owner(call[q], i)
  <1>1. TypeOK /\ EpochSync /\ EpochIsCall
    BY DEF ControlInv, EpochInv
  <1>2. call[r] \in Calls /\ call[q] \in Calls
    <2>1. call[r] \in 0 .. MaxCalls /\ call[q] \in 0 .. MaxCalls
      BY <1>1 DEF TypeOK
    <2> QED BY <2>1, ConstantAssumption DEF Calls
  <1>3. plan \in [Calls -> 1 .. NChunks]
    BY <1>1 DEF TypeOK
  <1>4. b \in Blocks /\ o \in Blocks /\ o < Grid(call[q])
    BY <1>2, <1>3, OwnerType
  <1>5. CASE AdvanceAll
    <2>1. call[r] > 0
      BY <1>2 DEF Calls
    <2>2. Epoch0(r, b) = call[r] - 1
      BY <1>1, <1>4, <1>5, <2>1 DEF EpochIsCall
    <2>3. Epoch0(q, o) = call[q] - 1
      BY <1>1, <1>4, <1>5 DEF EpochIsCall
    <2>4. call[q] \in Int
      BY <1>2 DEF Calls
    <2> QED BY <2>2, <2>3, <2>4
  <1>6. CASE ~ AdvanceAll
    <2>1. b = o
      BY <1>2, <1>3, <1>6, OwnerStable
    <2>2. Epoch0(r, o) = EpochEnd(q, o)
      BY <1>1, <1>4 DEF EpochSync
    <2>3. Advances(call[q], o)
      BY <1>4 DEF Advances
    <2>4. EpochEnd(q, o) = Epoch0(q, o) + 1
      BY <2>3 DEF EpochEnd
    <2> QED BY <2>1, <2>2, <2>4
  <1> QED BY <1>5, <1>6

(* A store about to land never hits a payload of another call that its     *)
(* owner has still to read.                                                *)
THEOREM NothingOverwritten == ASSUME NoWrap PROVE Spec => []NoOverwrite
  <1>1. ControlInv /\ EpochInv => NoOverwrite
    <2> SUFFICES ASSUME ControlInv, EpochInv, NEW r \in Rank, NEW b \in Blocks,
                        pc[r][b] = "push", NEW i \in posted[r][b],
                        NEW p, p = PeerOf(r, b),
                        Awaits(p, round[r][b], i),
                        Half(p, Owner(call[p], i)) = Half(r, b)
                 PROVE  call[p] = call[r]
      BY DEF NoOverwrite
    <2> DEFINE k == round[r][b]
               o == Owner(call[p], i)
    <2>1. TypeOK /\ Shape /\ PeersAdjacent
      BY DEF ControlInv
    <2>2. k \in 1 .. Rounds
      BY <2>1 DEF TypeOK
    <2>3. p = Peer[k][r] /\ p \in Rank /\ Peer[k][p] = r
      BY <2>2, PeerType DEF PeerOf
    <2>4. call[r] \in Calls /\ Epoch0(r, b) = epoch[r][b]
      BY <2>1, WorkingEpoch
    <2>5. plan \in [Calls -> 1 .. NChunks]
      BY <2>1 DEF TypeOK
    <2>6. i \in Nat /\ i < plan[call[r]] /\ Owner(call[r], i) = b
      <3>1. i \in Owned(call[r], b)
        BY <2>1 DEF Shape
      <3> QED BY <2>4, <2>5, <3>1 DEF Owned
    <2>7. call[p] > 0 /\ i < plan[call[p]] /\ pc[p][o] # "idle"
      BY DEF Awaits
    <2>8. call[p] \in Calls
      <3>1. call[p] \in 0 .. MaxCalls
        BY <2>1, <2>3 DEF TypeOK
      <3> QED BY <2>7, <3>1, ConstantAssumption DEF Calls
    <2>9. o \in Blocks
      BY <2>5, <2>6, <2>8, OwnerType
    <2>10. Epoch0(p, o) = epoch[p][o]
      BY <2>1, <2>3, <2>7, <2>9, WorkingEpoch
    <2>11. call[r] <= call[p] + 1 /\ call[p] <= call[r] + 1
      BY <2>1, <2>2, <2>3 DEF PeersAdjacent
    <2>12. /\ epoch[r][b] \in Int /\ epoch[p][o] \in Int
           /\ epoch[r][b] % 2 = epoch[p][o] % 2
      <3>1. epoch[r][b] \in Nat /\ epoch[p][o] \in Nat
        BY <2>1, <2>3, <2>9 DEF TypeOK
      <3>2. epoch[r][b] % 2 = epoch[p][o] % 2
        BY DEF Half
      <3> QED BY <3>1, <3>2
    <2>13. CASE call[r] = call[p] + 1
      <3>1. Epoch0(r, b) = Epoch0(p, o) + 1
        BY <2>2, <2>3, <2>6, <2>7, <2>13, OneCallApart
      <3> QED BY <2>4, <2>10, <2>12, <3>1, HalvesAlternate
    <2>14. CASE call[p] = call[r] + 1
      <3>1. call[r] > 0
        BY <2>4 DEF Calls
      <3>2. Epoch0(p, o) = Epoch0(r, b) + 1
        BY <2>2, <2>3, <2>6, <2>7, <2>14, <3>1, OneCallApart
      <3> QED BY <2>4, <2>10, <2>12, <3>2, HalvesAlternate
    <2> QED
      <3>1. call[r] \in Nat /\ call[p] \in Nat
        BY <2>4, <2>8 DEF Calls
      <3> QED BY <2>11, <2>13, <2>14, <3>1
  <1> QED BY <1>1, EpochsInStep, PTL
-----------------------------------------------------------------------------
(* The payloads: DataInv is inductive.                                     *)

(* A chunk of the message, its owner and the types around it.              *)
LEMMA ChunkType ==
  ASSUME TypeOK, NEW c \in Calls, NEW i \in 0 .. plan[c] - 1
  PROVE  /\ i \in Chunks /\ i \in Nat /\ i < plan[c]
         /\ Owner(c, i) \in Blocks /\ Owner(c, i) < Grid(c)
         /\ i \in Owned(c, Owner(c, i))
  <1>1. plan \in [Calls -> 1 .. NChunks] /\ plan[c] \in 1 .. NChunks
    BY DEF TypeOK
  <1>2. i \in Nat /\ i < plan[c] /\ i \in Chunks
    BY <1>1, ConstantAssumption DEF Chunks
  <1>3. Owner(c, i) \in Blocks /\ Owner(c, i) < Grid(c)
    BY <1>1, <1>2, OwnerType
  <1> QED BY <1>2, <1>3 DEF Owned

(* The call a rank is in is one of the calls.                              *)
LEMMA CurrentCall ==
  ASSUME TypeOK, NEW r \in Rank, call[r] > 0
  PROVE  call[r] \in Calls /\ (call[r] > 1 => call[r] - 1 \in Calls)
  <1>1. call[r] \in 0 .. MaxCalls
    BY DEF TypeOK
  <1> QED BY <1>1, ConstantAssumption DEF Calls

(* The owners a chunk has in a rank's last two calls began the current one *)
(* with the same epoch.                                                    *)
LEMMA OwnersAgree ==
  ASSUME TypeOK, EpochIsCall, NEW r \in Rank, call[r] > 1,
         NEW i \in Nat, i < plan[call[r]], i < plan[call[r] - 1]
  PROVE  Epoch0(r, Owner(call[r], i)) = Epoch0(r, Owner(call[r] - 1, i))
  <1>1. call[r] > 0 /\ call[r] \in Nat
    BY DEF TypeOK
  <1>2. call[r] \in Calls /\ call[r] - 1 \in Calls
    BY <1>1, CurrentCall
  <1>3. plan \in [Calls -> 1 .. NChunks]
    BY DEF TypeOK
  <1>4. Owner(call[r], i) \in Blocks /\ Owner(call[r] - 1, i) \in Blocks
    BY <1>2, <1>3, OwnerType
  <1>5. CASE AdvanceAll
    BY <1>1, <1>4, <1>5 DEF EpochIsCall
  <1>6. CASE ~ AdvanceAll
    BY <1>2, <1>3, <1>6, OwnerStable
  <1> QED BY <1>5, <1>6

(* Only a store lands a chunk.                                             *)
LEMMA LandedCta ==
  ASSUME TypeOK, Shape, NEW r \in Rank, NEW b \in Blocks, Cta(r, b),
         NEW x \in Rank, NEW y \in Blocks, NEW k \in 1 .. Rounds,
         NEW i \in Owned(call[x], y), Landed(x, y, k, i)'
  PROVE  \/ Landed(x, y, k, i)
         \/ x = r /\ y = b /\ k = round[r][b] /\ i \in Chunks /\ Store(r, b, i)
  <1>1. call' = call /\ Active(x, y)' = Active(x, y) /\ round[x][y] \in 1 .. Rounds
    <2>1. call' = call /\ Active(x, y)' = Active(x, y)
      BY CtaLocal DEF Active, Grid
    <2>2. round[x][y] \in 1 .. Rounds
      BY DEF TypeOK
    <2> QED BY <2>1, <2>2
  <1>2. CASE Passed(x, y, k)'
    <2>1. Passed(x, y, k) \/ (x = r /\ y = b /\ k = round[r][b] /\ Wait(r, b))
      BY <1>2, CtaPassed
    <2> QED BY <2>1 DEF Landed, Wait
  <1>3. CASE ~ Passed(x, y, k)' /\ ~ (x = r /\ y = b)
    <2>1. pc'[x][y] = pc[x][y] /\ round'[x][y] = round[x][y]
      BY <1>3, CtaLocal
    <2>2. posted'[x][y] = posted[x][y]
      <3>1. posted' = posted \/ \E v : posted' = [posted EXCEPT ![r][b] = v]
        BY DEF Cta, Store, Signal, Wait, Reduce, Retire
      <3>2. posted \in [Rank -> [Blocks -> SUBSET Chunks]]
        BY DEF TypeOK
      <3> QED BY <1>3, <3>1, <3>2
    <2> QED BY <1>3, <2>1, <2>2 DEF Landed
  <1>4. CASE ~ Passed(x, y, k)' /\ x = r /\ y = b
    <2>1. /\ round'[r][b] = k
          /\ pc'[r][b] = "wait" \/ (pc'[r][b] = "push" /\ i \notin posted'[r][b])
      BY <1>4 DEF Landed
    <2>2. /\ posted \in [Rank -> [Blocks -> SUBSET Chunks]]
          /\ pc \in [Rank -> [Blocks -> {"idle", "push", "wait", "reduce"}]]
      BY DEF TypeOK
    <2>3. ASSUME NEW j \in Chunks, Store(r, b, j)
          PROVE  Landed(r, b, k, i) \/ (i = j /\ k = round[r][b])
      <3>1. pc[r][b] = "push" /\ round' = round /\ pc' = pc
            /\ posted'[r][b] = posted[r][b] \ {j}
        BY <2>2, <2>3 DEF Store
      <3> QED BY <2>1, <3>1 DEF Landed
    <2>4. CASE Signal(r, b)
      <3>1. pc[r][b] = "push" /\ posted[r][b] = {} /\ round' = round
        BY <2>4 DEF Signal
      <3> QED BY <1>4, <2>1, <3>1 DEF Landed
    <2>5. CASE Wait(r, b)
      <3>1. pc[r][b] = "wait" /\ pc'[r][b] = "reduce"
        BY <2>2, <2>5 DEF Wait
      <3> QED BY <2>1, <3>1
    <2>6. CASE Reduce(r, b)
      <3>1. pc'[r][b] = "push" /\ posted'[r][b] = Owned(call[r], b)
        BY <2>2, <2>6 DEF Reduce
      <3> QED BY <1>4, <2>1, <3>1
    <2>7. CASE Retire(r, b)
      <3>1. pc'[r][b] = "idle"
        BY <2>2, <2>7 DEF Retire
      <3> QED BY <2>1, <3>1
    <2> QED BY <1>4, <2>3, <2>4, <2>5, <2>6, <2>7 DEF Cta
  <1> QED BY <1>2, <1>3, <1>4

(* What a reduction finds in its slot is its partner's sum before this     *)
(* round, of this call: the partner is still in the call, or one ahead.    *)
LEMMA SlotIsFresh ==
  ASSUME IInv, NEW r \in Rank, NEW b \in Blocks, pc[r][b] = "reduce",
         NEW i \in Owned(call[r], b)
  PROVE  buf[r][<<Half(r, b), round[r][b], i>>] =
           Partial[call[r]][round[r][b] - 1][PeerOf(r, b)]
  <1>1. /\ TypeOK /\ Shape /\ PeersAdjacent /\ Handshake /\ EpochSync
        /\ ControlInv /\ EpochInv /\ Payload /\ OldPayload
    BY DEF IInv, ControlInv, EpochInv, DataInv
  <1>0. round[r][b] \in 1 .. Rounds /\ PeerOf(r, b) \in Rank
    <2>1. round[r][b] \in 1 .. Rounds
      BY <1>1 DEF TypeOK
    <2> QED BY <2>1, PeerType DEF PeerOf
  <1> SUFFICES ASSUME NEW k, k = round[r][b], NEW q, q = PeerOf(r, b)
               PROVE  buf[r][<<Half(r, b), k, i>>] = Partial[call[r]][k - 1][q]
    OBVIOUS
  <1>2. k \in 1 .. Rounds
    BY <1>0
  <1>3. q \in Rank /\ q = Peer[k][r] /\ Peer[k][q] = r
    BY <1>0, PeerType DEF PeerOf
  <1>4. call[r] \in Calls /\ Epoch0(r, b) = epoch[r][b] /\ Active(r, b)
    BY <1>1, WorkingEpoch
  <1>5. i \in 0 .. plan[call[r]] - 1 /\ Owner(call[r], i) = b
    BY DEF Owned
  <1>6. Sent(q, b, k, call[r])
    <2>1. Passed(r, b, k)
      BY <1>4 DEF Passed
    <2> QED BY <1>1, <1>2, <1>3, <2>1 DEF Handshake
  <1>7. call[q] <= call[r] + 1 /\ call[q] \in Nat /\ call[r] \in Nat \ {0}
    <2>1. call[q] <= call[r] + 1
      BY <1>1, <1>2, <1>3 DEF PeersAdjacent
    <2>2. call[q] \in Nat
      BY <1>1, <1>3 DEF TypeOK
    <2> QED BY <1>4, <2>1, <2>2 DEF Calls
  <1>8. CASE call[q] = call[r]
    <2>1. Landed(q, b, k, i)
      BY <1>6, <1>7, <1>8 DEF Sent, Landed
    <2>2. buf[r][<<Epoch0(q, b) % 2, k, i>>] = Partial[call[r]][k - 1][q]
      <3>1. /\ call[q] > 0 /\ i \in 0 .. plan[call[q]] - 1
            /\ Owner(call[q], i) = b
        BY <1>5, <1>7, <1>8
      <3>2. \A j \in 0 .. plan[call[q]] - 1 :
              LET o == Owner(call[q], j) IN
              Landed(q, o, k, j) =>
                buf[Peer[k][q]][<<Epoch0(q, o) % 2, k, j>>] =
                  Partial[call[q]][k - 1][q]
        BY <1>1, <1>2, <1>3, <3>1 DEF Payload
      <3>3. buf[Peer[k][q]][<<Epoch0(q, b) % 2, k, i>>] = Partial[call[q]][k - 1][q]
        BY <2>1, <3>1, <3>2
      <3> QED BY <1>3, <1>8, <3>3
    <2>3. Epoch0(r, b) = Epoch0(q, b)
      BY <1>1, <1>2, <1>3, <1>8 DEF EpochSync
    <2> QED BY <1>3, <1>4, <2>2, <2>3 DEF Half
  <1>9. CASE call[q] = call[r] + 1
    <2>1. call[q] > 1 /\ call[q] - 1 = call[r]
      BY <1>7, <1>9
    <2>2. buf[r][<<(Epoch0(q, b) - 1) % 2, k, i>>] = Partial[call[r]][k - 1][q]
      <3>1. \A j \in 0 .. plan[call[q] - 1] - 1 :
              LET o == Owner(call[q] - 1, j) IN
              buf[Peer[k][q]][<<(Epoch0(q, o) - 1) % 2, k, j>>] =
                Partial[call[q] - 1][k - 1][q]
        BY <1>1, <1>2, <1>3, <2>1 DEF OldPayload
      <3> QED BY <1>3, <1>5, <2>1, <3>1
    <2>3. Epoch0(q, b) = EpochEnd(r, b)
      BY <1>1, <1>2, <1>3, <1>9 DEF EpochSync
    <2>4. EpochEnd(r, b) = Epoch0(r, b) + 1
      BY <1>4 DEF EpochEnd, Advances, Active
    <2>5. Epoch0(q, b) - 1 = Epoch0(r, b)
      <3>1. Epoch0(r, b) \in Int
        BY <1>1, Epoch0Type
      <3> QED BY <2>3, <2>4, <3>1
    <2> QED BY <1>3, <1>4, <2>2, <2>5 DEF Half
  <1> QED BY <1>6, <1>7, <1>8, <1>9 DEF Sent

(* A reduction adds that round's partial sums.                             *)
LEMMA ReducedSum ==
  ASSUME IInv, NEW r \in Rank, NEW b \in Blocks, pc[r][b] = "reduce",
         NEW i \in Owned(call[r], b), i \in Chunks
  PROVE  Reduced(r, b)[i] = Partial[call[r]][round[r][b]][r]
  <1> DEFINE k == round[r][b]
  <1>1. TypeOK /\ Shape /\ OwnSums
    BY DEF IInv, ControlInv, DataInv
  <1>2. k \in 1 .. Rounds /\ call[r] \in Calls /\ call[r] > 0
    <2>1. k \in 1 .. Rounds
      BY <1>1 DEF TypeOK
    <2>2. call[r] \in Calls
      BY <1>1, WorkingEpoch
    <2> QED BY <2>1, <2>2 DEF Calls
  <1>3. Owner(call[r], i) = b /\ i \in 0 .. plan[call[r]] - 1
    BY DEF Owned
  <1>4. acc[r][i] = Partial[call[r]][k - 1][r]
    BY <1>1, <1>2, <1>3 DEF OwnSums
  <1>5. buf[r][<<Half(r, b), k, i>>] = Partial[call[r]][k - 1][Peer[k][r]]
    BY SlotIsFresh DEF PeerOf
  <1>6. Reduced(r, b)[i] =
          Combine(r, k, Partial[call[r]][k - 1][r], Partial[call[r]][k - 1][Peer[k][r]])
    BY <1>4, <1>5 DEF Reduced
  <1> QED BY <1>2, <1>6, PartialAssumption

(* CTAs keep the sums their kernel holds those of the rounds done.         *)
LEMMA OwnSumsCta ==
  ASSUME IInv, NEW r \in Rank, NEW b \in Blocks, Cta(r, b)
  PROVE  OwnSums'
  <1>1. TypeOK /\ Shape /\ OwnSums
    BY DEF IInv, ControlInv, DataInv
  <1>2. call' = call /\ plan' = plan /\ DOMAIN acc = Rank
    BY <1>1, CtaLocal DEF TypeOK
  <1> SUFFICES ASSUME NEW x \in Rank, call[x] > 0, NEW i \in 0 .. plan[call[x]] - 1,
                      NEW y, y = Owner(call[x], i)
               PROVE  acc'[x][i] = Partial[call[x]]
                        [IF pc'[x][y] = "idle" THEN Rounds ELSE round'[x][y] - 1][x]
    <2>1. \A x \in Rank, i \in Int : Owner(call[x], i)' = Owner(call[x], i)
      BY <1>2 DEF Owner, Grid
    <2> SUFFICES ASSUME NEW x \in Rank, call[x] > 0, NEW i \in 0 .. plan[call[x]] - 1
                 PROVE  acc'[x][i] = Partial[call[x]]
                          [IF pc'[x][Owner(call[x], i)'] = "idle"
                           THEN Rounds ELSE round'[x][Owner(call[x], i)'] - 1][x]
      BY <1>2 DEF OwnSums
    <2>2. Owner(call[x], i)' = Owner(call[x], i)
      BY <2>1
    <2> QED BY <2>2
  <1>3. y \in Blocks /\ i \in Chunks /\ i \in Owned(call[x], y) /\ i \in Nat
    BY <1>1, CurrentCall, ChunkType
  <1>4. acc[x][i] = Partial[call[x]]
                      [IF pc[x][y] = "idle" THEN Rounds ELSE round[x][y] - 1][x]
    BY <1>1 DEF OwnSums
  <1>5. acc' = acc \/ (pc[r][b] = "reduce" /\ acc' = [acc EXCEPT ![r] = Reduced(r, b)])
    BY DEF Cta, Store, Signal, Wait, Reduce, Retire
  <1>6. CASE ~ (x = r /\ y = b)
    <2>1. pc'[x][y] = pc[x][y] /\ round'[x][y] = round[x][y]
      BY <1>1, <1>3, <1>6, CtaLocal
    <2>2. x = r => Reduced(r, b)[i] = acc[r][i]
      BY <1>3, <1>6 DEF Reduced, Owned
    <2>3. acc'[x][i] = acc[x][i]
      BY <1>2, <1>5, <2>2
    <2> QED BY <1>4, <2>1, <2>3
  <1>7. CASE x = r /\ y = b
    <2>1. round[r][b] \in 1 .. Rounds
      BY <1>1 DEF TypeOK
    <2>2. CASE pc[r][b] # "reduce"
      <3>1. /\ acc' = acc /\ pc[r][b] # "idle" /\ pc'[r][b] # "idle"
            /\ round'[r][b] = round[r][b]
        BY <1>1, <1>5, <2>2, CtaLocal
      <3> QED BY <1>4, <1>7, <3>1
    <2>3. CASE pc[r][b] = "reduce"
      <3>1. acc'[r][i] = Partial[call[r]][round[r][b]][r]
        <4>1. acc' = [acc EXCEPT ![r] = Reduced(r, b)]
          BY <2>3 DEF Cta, Store, Signal, Wait, Reduce, Retire
        <4>2. Reduced(r, b)[i] = Partial[call[r]][round[r][b]][r]
          BY <1>3, <1>7, <2>3, ReducedSum
        <4> QED BY <1>2, <4>1, <4>2
      <3>2. \/ pc'[r][b] = "push" /\ round'[r][b] = round[r][b] + 1
            \/ pc'[r][b] = "idle" /\ round[r][b] = Rounds
        BY <1>1, <2>3, CtaLocal
      <3>3. CASE pc'[r][b] = "push" /\ round'[r][b] = round[r][b] + 1
        <4>1. round'[r][b] - 1 = round[r][b]
          BY <2>1, <3>3
        <4> QED BY <1>7, <3>1, <3>3, <4>1
      <3>4. CASE pc'[r][b] = "idle" /\ round[r][b] = Rounds
        BY <1>7, <3>1, <3>4
      <3> QED BY <3>2, <3>3, <3>4
    <2> QED BY <2>2, <2>3
  <1> QED BY <1>6, <1>7

(* The one cell a store writes, and whose it is: nobody but rank r writes  *)
(* slot k of the partner r has in round k.                                 *)
LEMMA StoreCell ==
  ASSUME TypeOK, Shape, NEW r \in Rank, NEW b \in Blocks, Cta(r, b),
         NEW q \in Rank, NEW k \in 1 .. Rounds, NEW i \in Chunks, NEW e \in Int
  PROVE  \/ buf'[Peer[k][q]][<<e % 2, k, i>>] = buf[Peer[k][q]][<<e % 2, k, i>>]
         \/ /\ Store(r, b, i) /\ q = r /\ k = round[r][b]
            /\ e % 2 = epoch[r][b] % 2
            /\ i \in Owned(call[r], b)
            /\ buf'[Peer[k][q]][<<e % 2, k, i>>] = acc[r][i]
  <1>1. round[r][b] \in 1 .. Rounds
    BY DEF TypeOK
  <1>2. PeerOf(r, b) = Peer[round[r][b]][r] /\ PeerOf(r, b) \in Rank
    BY <1>1, PeerType DEF PeerOf
  <1>3. ASSUME NEW j \in Chunks, Store(r, b, j)
        PROVE  \/ buf'[Peer[k][q]][<<e % 2, k, i>>] = buf[Peer[k][q]][<<e % 2, k, i>>]
               \/ /\ i = j /\ q = r /\ k = round[r][b]
                  /\ e % 2 = epoch[r][b] % 2
                  /\ buf'[Peer[k][q]][<<e % 2, k, i>>] = acc[r][i]
    <2> DEFINE p == PeerOf(r, b)
               d == <<Half(r, b), round[r][b], j>>
    <2>1. buf' = [buf EXCEPT ![p][d] = acc[r][j]]
      BY <1>3 DEF Store
    <2>2. DOMAIN buf = Rank /\ DOMAIN buf[p] = Cells
      BY <1>2 DEF TypeOK
    <2>3. CASE Peer[k][q] = p /\ <<e % 2, k, i>> = d
      <3>1. e % 2 = Half(r, b) /\ k = round[r][b] /\ i = j
        BY <2>3
      <3>2. q = r
        BY <1>2, <2>3, <3>1, PeerType
      <3>3. d \in Cells
        <4>1. e % 2 \in {0, 1}
          OBVIOUS
        <4> QED BY <3>1, <4>1 DEF Cells
      <3>4. buf'[p][d] = acc[r][j]
        BY <1>2, <2>1, <2>2, <3>3
      <3> QED BY <2>3, <3>1, <3>2, <3>4 DEF Half
    <2>4. CASE ~ (Peer[k][q] = p /\ <<e % 2, k, i>> = d)
      <3>1. Peer[k][q] \in Rank
        BY PeerType
      <3>2. DOMAIN buf[Peer[k][q]] = Cells /\ <<e % 2, k, i>> \in Cells
        <4>1. e % 2 \in {0, 1}
          OBVIOUS
        <4>2. <<e % 2, k, i>> \in Cells
          BY <4>1 DEF Cells
        <4> QED BY <3>1, <4>2 DEF TypeOK
      <3> QED BY <2>1, <2>2, <2>4, <3>1, <3>2
    <2> QED BY <2>3, <2>4
  <1>4. ASSUME NEW j \in Chunks, Store(r, b, j) PROVE j \in Owned(call[r], b)
    <2>1. pc[r][b] = "push" /\ j \in posted[r][b]
      BY <1>4 DEF Store
    <2> QED BY <2>1 DEF Shape
  <1>5. CASE Signal(r, b) \/ Wait(r, b) \/ Reduce(r, b) \/ Retire(r, b)
    BY <1>5 DEF Signal, Wait, Reduce, Retire
  <1> QED BY <1>3, <1>4, <1>5 DEF Cta

(* What has landed for this call stays and is joined by the new stores.    *)
LEMMA PayloadCta ==
  ASSUME IInv, NEW r \in Rank, NEW b \in Blocks, Cta(r, b)
  PROVE  Payload'
  <1>1. TypeOK /\ Shape /\ OwnSums /\ Payload /\ EpochIsCall
    BY DEF IInv, ControlInv, EpochInv, DataInv
  <1>2. call' = call /\ plan' = plan
    BY <1>1, CtaLocal
  <1> SUFFICES ASSUME NEW q \in Rank, NEW k \in 1 .. Rounds, call[q] > 0,
                      NEW i \in 0 .. plan[call[q]] - 1,
                      NEW y, y = Owner(call[q], i), Landed(q, y, k, i)'
               PROVE  buf'[Peer[k][q]][<<Epoch0(q, y)' % 2, k, i>>] =
                        Partial[call[q]][k - 1][q]
    <2>1. \A x \in Rank, i \in Int : Owner(call[x], i)' = Owner(call[x], i)
      BY <1>2 DEF Owner, Grid
    <2>2. \A x \in Rank : 0 .. plan[call[x]] - 1 \subseteq Int
      OBVIOUS
    <2> QED BY <1>2, <2>1, <2>2 DEF Payload
  <1>3. y \in Blocks /\ i \in Chunks /\ i \in Owned(call[q], y) /\ i \in Nat
    BY <1>1, CurrentCall, ChunkType
  <1>4. Epoch0(q, y)' = Epoch0(q, y) /\ Epoch0(q, y) \in Int
    BY <1>1, <1>3, EpochCta, Epoch0Type
  <1>5. ASSUME q = r, k = round[r][b], i \in Owned(call[r], b), Store(r, b, i)
        PROVE  /\ acc[r][i] = Partial[call[q]][k - 1][q]
               /\ Epoch0(q, y) = epoch[r][b]
    <2>1. y = b
      BY <1>5 DEF Owned
    <2>2. pc[r][b] = "push"
      BY <1>5 DEF Store
    <2>3. Epoch0(r, b) = epoch[r][b]
      BY <1>1, <2>2, WorkingEpoch
    <2>4. acc[r][i] = Partial[call[r]][round[r][b] - 1][r]
      BY <1>1, <1>5, <2>1, <2>2 DEF OwnSums
    <2> QED BY <1>5, <2>1, <2>3, <2>4
  <1>6. CASE Landed(q, y, k, i)
    <2>1. buf[Peer[k][q]][<<Epoch0(q, y) % 2, k, i>>] = Partial[call[q]][k - 1][q]
      BY <1>1, <1>6 DEF Payload
    <2>2. \/ buf'[Peer[k][q]][<<Epoch0(q, y) % 2, k, i>>] =
               buf[Peer[k][q]][<<Epoch0(q, y) % 2, k, i>>]
          \/ /\ Store(r, b, i) /\ q = r /\ k = round[r][b] /\ i \in Owned(call[r], b)
             /\ buf'[Peer[k][q]][<<Epoch0(q, y) % 2, k, i>>] = acc[r][i]
      BY <1>1, <1>3, <1>4, StoreCell
    <2> QED BY <1>4, <1>5, <2>1, <2>2
  <1>7. CASE q = r /\ y = b /\ k = round[r][b] /\ Store(r, b, i)
    <2>1. i \in Owned(call[r], b)
      BY <1>3, <1>7
    <2>2. acc[r][i] = Partial[call[q]][k - 1][q] /\ Epoch0(q, y) = epoch[r][b]
      BY <1>5, <1>7, <2>1
    <2>3. /\ PeerOf(r, b) = Peer[k][q] /\ Peer[k][q] \in Rank
          /\ Half(r, b) = Epoch0(q, y) % 2 /\ Half(r, b) \in {0, 1}
      BY <1>4, <1>7, <2>2, PeerType DEF PeerOf, Half
    <2>4. buf' = [buf EXCEPT ![Peer[k][q]][<<Epoch0(q, y) % 2, k, i>>] = acc[r][i]]
      BY <1>7, <2>3 DEF Store
    <2>5. /\ DOMAIN buf = Rank /\ DOMAIN buf[Peer[k][q]] = Cells
          /\ <<Epoch0(q, y) % 2, k, i>> \in Cells
      BY <1>1, <1>3, <2>3 DEF TypeOK, Cells
    <2> QED BY <1>4, <2>2, <2>3, <2>4, <2>5
  <1> QED BY <1>1, <1>3, <1>6, <1>7, LandedCta

(* What landed for the previous call is out of reach of the stores of this *)
(* one: they go to the other half.                                         *)
LEMMA OldPayloadCta ==
  ASSUME IInv, NEW r \in Rank, NEW b \in Blocks, Cta(r, b)
  PROVE  OldPayload'
  <1>1. TypeOK /\ Shape /\ OldPayload /\ EpochIsCall
    BY DEF IInv, ControlInv, EpochInv, DataInv
  <1>2. call' = call /\ plan' = plan
    BY <1>1, CtaLocal
  <1> SUFFICES ASSUME NEW q \in Rank, NEW k \in 1 .. Rounds, call[q] > 1,
                      NEW i \in 0 .. plan[call[q] - 1] - 1,
                      NEW y, y = Owner(call[q] - 1, i)
               PROVE  buf'[Peer[k][q]][<<(Epoch0(q, y)' - 1) % 2, k, i>>] =
                        Partial[call[q] - 1][k - 1][q]
    <2>1. \A x \in Rank, i \in Int : Owner(call[x] - 1, i)' = Owner(call[x] - 1, i)
      BY <1>2 DEF Owner, Grid
    <2>2. \A x \in Rank : 0 .. plan[call[x] - 1] - 1 \subseteq Int
      OBVIOUS
    <2> QED BY <1>2, <2>1, <2>2 DEF OldPayload
  <1>3. call[q] > 0 /\ call[q] - 1 \in Calls
    <2>1. call[q] \in Nat
      BY <1>1 DEF TypeOK
    <2>2. call[q] > 0
      BY <2>1
    <2> QED BY <1>1, <2>2, CurrentCall
  <1>4. y \in Blocks /\ i \in Chunks /\ i \in Nat /\ i < plan[call[q] - 1]
    BY <1>1, <1>3, ChunkType
  <1>5. Epoch0(q, y)' = Epoch0(q, y) /\ Epoch0(q, y) \in Int
    BY <1>1, <1>4, EpochCta, Epoch0Type
  <1>6. buf[Peer[k][q]][<<(Epoch0(q, y) - 1) % 2, k, i>>] =
          Partial[call[q] - 1][k - 1][q]
    BY <1>1 DEF OldPayload
  <1>7. ASSUME q = r, i \in Owned(call[r], b), Store(r, b, i),
               (Epoch0(q, y) - 1) % 2 = epoch[r][b] % 2
        PROVE  FALSE
    <2>1. i < plan[call[r]] /\ Owner(call[r], i) = b
      <3>1. plan[call[r]] \in Nat
        <4>1. call[r] \in Calls
          BY <1>1, <1>3, <1>7, CurrentCall
        <4> QED BY <1>1, <4>1 DEF TypeOK
      <3> QED BY <1>7, <3>1 DEF Owned
    <2>2. Epoch0(r, b) = Epoch0(r, y)
      BY <1>1, <1>4, <1>7, <2>1, OwnersAgree
    <2>3. Epoch0(r, b) = epoch[r][b]
      <3>1. pc[r][b] = "push"
        BY <1>7 DEF Store
      <3> QED BY <1>1, <3>1, WorkingEpoch
    <2> QED BY <1>5, <1>7, <2>2, <2>3, HalvesAlternate
  <1>8. Epoch0(q, y) - 1 \in Int
    BY <1>5
  <1>9. \/ buf'[Peer[k][q]][<<(Epoch0(q, y) - 1) % 2, k, i>>] =
             buf[Peer[k][q]][<<(Epoch0(q, y) - 1) % 2, k, i>>]
        \/ /\ Store(r, b, i) /\ q = r /\ i \in Owned(call[r], b)
           /\ (Epoch0(q, y) - 1) % 2 = epoch[r][b] % 2
    BY <1>1, <1>4, <1>8, StoreCell
  <1> QED BY <1>5, <1>6, <1>7, <1>9

(* A kernel starts with its input, and with nothing landed; what landed    *)
(* for the call before is now old.                                         *)
LEMMA DataLaunch ==
  ASSUME IInv, NEW r \in Rank, Launch(r)
  PROVE  DataInv'
  <1>1. TypeOK /\ Shape /\ OwnSums /\ Payload /\ OldPayload
    BY DEF IInv, ControlInv, DataInv
  <1>2. /\ plan' = plan /\ buf' = buf /\ call'[r] = call[r] + 1
        /\ call[r] + 1 \in Calls /\ call[r] \in Nat
        /\ \A x \in Rank : x # r => call'[x] = call[x]
    BY <1>1, LaunchLocal DEF Launch
  <1>3. ASSUME NEW x \in Rank, x # r
        PROVE  /\ acc'[x] = acc[x] /\ pc'[x] = pc[x] /\ round'[x] = round[x]
               /\ posted'[x] = posted[x]
    BY <1>1, <1>3 DEF Launch, TypeOK
  <1>6. OwnSums'
    <2> SUFFICES ASSUME NEW x \in Rank, call'[x] > 0,
                        NEW i \in 0 .. plan[call'[x]] - 1,
                        NEW y, y = Owner(call'[x], i)
                 PROVE  acc'[x][i] = Partial[call'[x]]
                          [IF pc'[x][y] = "idle" THEN Rounds ELSE round'[x][y] - 1][x]
      <3>1. \A x \in Rank, i \in Int : Owner(call[x], i)' = Owner(call'[x], i)
        BY <1>2 DEF Owner, Grid
      <3>2. \A x \in Rank : 0 .. plan[call'[x]] - 1 \subseteq Int
        OBVIOUS
      <3> QED BY <1>2, <3>1, <3>2 DEF OwnSums
    <2>1. CASE x # r
      <3>1. call'[x] = call[x] /\ call[x] > 0
        BY <1>2, <2>1
      <3> QED BY <1>1, <1>3, <2>1, <3>1 DEF OwnSums
    <2>2. CASE x = r
      <3> DEFINE c == call[r] + 1
      <3>1. i \in 0 .. plan[c] - 1 /\ c \in Calls
        BY <1>2, <2>2
      <3>2. Owner(c, i) \in Blocks /\ Owner(c, i) < Grid(c) /\ i \in Chunks
            /\ i < plan[c]
        BY <1>1, <3>1, ChunkType
      <3>3. pc'[r][Owner(c, i)] = "push" /\ round'[r][Owner(c, i)] = 1
        BY <1>1, <3>2, LaunchLocal
      <3>4. acc'[r][i] = Input(c, r)
        BY <1>1, <3>2 DEF Launch, TypeOK
      <3>5. Partial[c][0][r] = Input(c, r)
        BY <3>1, PartialAssumption
      <3>6. y = Owner(c, i) /\ call'[x] = c
        BY <1>2, <2>2
      <3> QED BY <2>2, <3>3, <3>4, <3>5, <3>6
    <2> QED BY <2>1, <2>2
  <1>7. Payload'
    <2> SUFFICES ASSUME NEW x \in Rank, NEW k \in 1 .. Rounds, call'[x] > 0,
                        NEW i \in 0 .. plan[call'[x]] - 1,
                        NEW y, y = Owner(call'[x], i), Landed(x, y, k, i)'
                 PROVE  buf[Peer[k][x]][<<Epoch0(x, y)' % 2, k, i>>] =
                          Partial[call'[x]][k - 1][x]
      <3>1. \A x \in Rank : call'[x] \in Int
        BY <1>1, <1>2 DEF TypeOK
      <3>2. \A x \in Rank, i \in Int : Owner(call[x], i)' = Owner(call'[x], i)
        BY <1>2 DEF Owner, Grid
      <3>3. \A x \in Rank : 0 .. plan[call'[x]] - 1 \subseteq Int
        OBVIOUS
      <3> QED BY <1>2, <3>1, <3>2, <3>3 DEF Payload
    <2>1. CASE x # r
      <3>1. call'[x] = call[x] /\ call[x] > 0
        BY <1>2, <2>1
      <3>2. y \in Blocks /\ y = Owner(call[x], i)
        BY <1>1, <3>1, CurrentCall, ChunkType
      <3>3. Epoch0(x, y)' = Epoch0(x, y) /\ Passed(x, y, k)' = Passed(x, y, k)
        BY <1>1, <2>1, <3>2, EpochLaunchFrame, LaunchFrame
      <3>4. Landed(x, y, k, i)
        BY <1>3, <2>1, <3>3 DEF Landed
      <3> QED BY <1>1, <3>1, <3>2, <3>3, <3>4 DEF Payload
    <2>2. CASE x = r
      <3> DEFINE c == call[r] + 1
      <3>1. y = Owner(c, i) /\ i \in 0 .. plan[c] - 1 /\ c \in Calls
        BY <1>2, <2>2
      <3>2. y \in Blocks /\ y < Grid(c) /\ i \in Owned(c, y)
        BY <1>1, <3>1, ChunkType
      <3>3. pc'[r][y] = "push" /\ ~ Passed(r, y, k)'
        BY <1>1, <3>2, LaunchLocal, LaunchFrame
      <3>4. posted'[r][y] = Owned(c, y)
        BY <1>1, <3>2 DEF Launch, TypeOK
      <3> QED BY <2>2, <3>2, <3>3, <3>4 DEF Landed
    <2> QED BY <2>1, <2>2
  <1>8. OldPayload'
    <2> SUFFICES ASSUME NEW x \in Rank, NEW k \in 1 .. Rounds, call'[x] > 1,
                        NEW i \in 0 .. plan[call'[x] - 1] - 1,
                        NEW y, y = Owner(call'[x] - 1, i)
                 PROVE  buf[Peer[k][x]][<<(Epoch0(x, y)' - 1) % 2, k, i>>] =
                          Partial[call'[x] - 1][k - 1][x]
      <3>1. \A x \in Rank, i \in Int :
              Owner(call[x] - 1, i)' = Owner(call'[x] - 1, i)
        BY <1>2 DEF Owner, Grid
      <3>2. \A x \in Rank : 0 .. plan[call'[x] - 1] - 1 \subseteq Int
        OBVIOUS
      <3> QED BY <1>2, <3>1, <3>2 DEF OldPayload
    <2>1. CASE x # r
      <3>1. call'[x] = call[x] /\ call[x] > 1
        BY <1>2, <2>1
      <3>2. call[x] > 0 /\ call[x] - 1 \in Calls
        <4>1. call[x] \in Nat /\ call[x] > 0
          BY <1>1, <3>1 DEF TypeOK
        <4> QED BY <1>1, <3>1, <4>1, CurrentCall
      <3>3. y \in Blocks /\ y = Owner(call[x] - 1, i)
        BY <1>1, <3>1, <3>2, ChunkType
      <3>4. Epoch0(x, y)' = Epoch0(x, y)
        BY <1>1, <2>1, <3>3, EpochLaunchFrame
      <3> QED BY <1>1, <3>1, <3>3, <3>4 DEF OldPayload
    <2>2. CASE x = r
      <3>1. call'[x] - 1 = call[r] /\ call[r] > 0
        BY <1>2, <2>2
      <3>2. y = Owner(call[r], i) /\ call[r] \in Calls /\ i \in 0 .. plan[call[r]] - 1
        BY <1>1, <3>1, CurrentCall
      <3>3. y \in Blocks /\ y < Grid(call[r])
        BY <1>1, <3>2, ChunkType
      <3>4. Landed(r, y, k, i)
        <4>1. pc[r][y] = "idle"
          BY <1>1, <3>3, LaunchLocal
        <4> QED BY <3>1, <3>3, <4>1 DEF Landed, Passed, Active
      <3>5. buf[Peer[k][r]][<<Epoch0(r, y) % 2, k, i>>] = Partial[call[r]][k - 1][r]
        BY <1>1, <3>1, <3>2, <3>4 DEF Payload
      <3>6. Epoch0(r, y)' - 1 = Epoch0(r, y)
        <4>1. Epoch0(r, y)' = EpochEnd(r, y) /\ Epoch0(r, y) \in Int
          BY <1>1, <3>3, EpochLaunchFrame, Epoch0Type
        <4>2. EpochEnd(r, y) = Epoch0(r, y) + 1
          BY <3>1, <3>3 DEF EpochEnd, Advances
        <4> QED BY <4>1, <4>2
      <3> QED BY <2>2, <3>1, <3>5, <3>6
    <2> QED BY <2>1, <2>2
  <1> QED BY <1>6, <1>7, <1>8 DEF DataInv

(* No call has begun.                                                      *)
LEMMA DataInit == Init => DataInv
  <1> SUFFICES ASSUME Init PROVE DataInv
    OBVIOUS
  <1>1. \A r \in Rank : call[r] = 0
    BY DEF Init
  <1> QED BY <1>1 DEF DataInv, OwnSums, Payload, OldPayload

(* DataInv depends on the variables only.                                  *)
LEMMA DataStutter == DataInv /\ UNCHANGED vars => DataInv'
  <1> SUFFICES ASSUME DataInv, UNCHANGED vars PROVE DataInv'
    OBVIOUS
  <1>1. OwnSums'
    <2>1. \A r \in Rank, i \in Int : Owner(call[r], i)' = Owner(call[r], i)
      BY DEF vars, Owner, Grid
    <2>2. \A r \in Rank : 0 .. plan[call[r]] - 1 \subseteq Int
      OBVIOUS
    <2> QED BY <2>1, <2>2 DEF vars, DataInv, OwnSums
  <1>2. \A q \in Rank : \A b, k, i : Landed(q, b, k, i)' = Landed(q, b, k, i)
    BY DEF vars, Landed, Passed, Active, Grid
  <1>3. \A q \in Rank : \A b : Epoch0(q, b)' = Epoch0(q, b)
    BY DEF vars, Epoch0, Advanced, Advances, Grid
  <1>4. Payload'
    <2>1. \A q \in Rank, i \in Int : Owner(call[q], i)' = Owner(call[q], i)
      BY DEF vars, Owner, Grid
    <2>2. \A q \in Rank : 0 .. plan[call[q]] - 1 \subseteq Int
      OBVIOUS
    <2> QED BY <1>2, <1>3, <2>1, <2>2 DEF vars, DataInv, Payload
  <1>5. OldPayload'
    <2>1. \A q \in Rank, i \in Int : Owner(call[q] - 1, i)' = Owner(call[q] - 1, i)
      BY DEF vars, Owner, Grid
    <2>2. \A q \in Rank : 0 .. plan[call[q] - 1] - 1 \subseteq Int
      OBVIOUS
    <2> QED BY <1>3, <2>1, <2>2 DEF vars, DataInv, OldPayload
  <1> QED BY <1>1, <1>4, <1>5 DEF DataInv

(* The inductive invariant holds in every reachable state.                 *)
THEOREM Invariance == ASSUME NoWrap PROVE Spec => []IInv
  <1>1. Init => IInv
    BY ControlInit, EpochInit, DataInit DEF IInv
  <1>2. IInv /\ [Next]_vars => IInv'
    <2> SUFFICES ASSUME IInv, [Next]_vars PROVE IInv'
      OBVIOUS
    <2>1. ControlInv /\ EpochInv /\ DataInv
      BY DEF IInv
    <2>2. ASSUME NEW r \in Rank, Launch(r) PROVE IInv'
      BY <2>1, <2>2, ControlLaunch, EpochInvLaunch, DataLaunch DEF IInv
    <2>3. ASSUME NEW r \in Rank, NEW b \in Blocks, Cta(r, b) PROVE IInv'
      <3>1. DataInv'
        BY <2>3, OwnSumsCta, PayloadCta, OldPayloadCta DEF DataInv
      <3> QED BY <2>1, <2>3, <3>1, ControlCta, EpochInvCta DEF IInv
    <2>4. CASE UNCHANGED vars
      BY <2>1, <2>4, ControlStutter, EpochInvStutter, DataStutter DEF IInv
    <2> QED BY <2>2, <2>3, <2>4 DEF Next, Terminated
  <1> QED BY <1>1, <1>2, PTL DEF Spec

(* A reduction finds its partner's partial sum of this very call and       *)
(* round: nothing stale, nothing of a later call, nothing still in flight. *)
THEOREM NothingStale == ASSUME NoWrap PROVE Spec => []FreshPayload
  <1>1. IInv => FreshPayload
    BY SlotIsFresh DEF FreshPayload
  <1> QED BY <1>1, Invariance, PTL

-----------------------------------------------------------------------------
(* Who has taken part in a call that ends: everyone.                       *)

(* A set of numbers has a least one.                                       *)
LEMMA LeastNumber ==
  ASSUME NEW T \in SUBSET Nat, T # {}
  PROVE  \E x \in T : \A y \in T : x <= y
  <1>1. PICK R : R = OpToRel(<, Nat)
    OBVIOUS
  <1>2. \A y, x \in Nat : y < x => <<y, x>> \in R
    BY <1>1 DEF OpToRel
  <1>3. IsWellFoundedOn(R, Nat)
    BY <1>1, NatLessThanWellFounded
  <1>4. PICK x \in T : \A y \in T : ~(<<y, x>> \in R)
    BY <1>3, WFMin
  <1>5. ASSUME NEW y \in T PROVE x <= y
    <2>1. x \in Nat /\ y \in Nat
      OBVIOUS
    <2>2. ~ (y < x)
      BY <1>2, <1>4, <2>1
    <2> QED BY <2>1, <2>2
  <1> QED BY <1>5

(* The ranks that the partners of the rounds from k on reach from r.       *)
Closed(T, k) == \A j \in k .. Rounds, q \in T : Peer[j][q] \in T

Orbit(r, k) == {x \in Rank : \A T \in SUBSET Rank : r \in T /\ Closed(T, k) => x \in T}

(* An orbit is closed.                                                     *)
LEMMA OrbitClosed ==
  ASSUME NEW r \in Rank, NEW k \in 1 .. Rounds + 1
  PROVE  r \in Orbit(r, k) /\ Closed(Orbit(r, k), k)
  <1>1. r \in Orbit(r, k)
    BY DEF Orbit
  <1>2. ASSUME NEW j \in k .. Rounds, NEW q \in Orbit(r, k)
        PROVE  Peer[j][q] \in Orbit(r, k)
    <2>1. j \in 1 .. Rounds /\ q \in Rank
      BY <1>2, ConstantAssumption DEF Orbit
    <2>2. Peer[j][q] \in Rank
      BY <2>1, PeerType
    <2>3. ASSUME NEW T \in SUBSET Rank, r \in T, Closed(T, k) PROVE Peer[j][q] \in T
      <3>1. q \in T
        BY <1>2, <2>3 DEF Orbit
      <3> QED BY <1>2, <2>3, <3>1 DEF Closed
    <2> QED BY <2>2, <2>3 DEF Orbit
  <1> QED BY <1>1, <1>2 DEF Closed

(* Round k at most doubles the orbit of the rounds after it, for the       *)
(* partners commute.                                                       *)
LEMMA OrbitDoubles ==
  ASSUME NEW r \in Rank, NEW k \in 1 .. Rounds, NEW x \in Orbit(r, k)
  PROVE  x \in Orbit(r, k + 1) \/ Peer[k][x] \in Orbit(r, k + 1)
  <1> DEFINE O == Orbit(r, k + 1)
             T == {y \in Rank : y \in O \/ Peer[k][y] \in O}
  <1>1. k + 1 \in 1 .. Rounds + 1
    BY ConstantAssumption
  <1>2. r \in O /\ Closed(O, k + 1) /\ O \subseteq Rank
    BY <1>1, OrbitClosed DEF Orbit
  <1> HIDE DEF O
  <1>3. ASSUME NEW j \in k .. Rounds, NEW q \in T PROVE Peer[j][q] \in T
    <2>1. j \in 1 .. Rounds /\ q \in Rank
      BY <1>3, ConstantAssumption
    <2>2. /\ Peer[j][q] \in Rank /\ Peer[k][q] \in Rank
          /\ Peer[j][Peer[k][q]] = Peer[k][Peer[j][q]] /\ Peer[k][Peer[k][q]] = q
      BY <2>1, PeerType, MaskAssumption
    <2>3. CASE j = k
      BY <1>3, <2>2, <2>3
    <2>4. CASE j # k
      <3>1. j \in k + 1 .. Rounds
        BY <2>1, <2>4, ConstantAssumption
      <3>2. \A y \in O : Peer[j][y] \in O
        BY <1>2, <3>1 DEF Closed
      <3> QED BY <1>3, <2>2, <3>2
    <2> QED BY <2>3, <2>4
  <1>4. r \in T /\ Closed(T, k) /\ T \in SUBSET Rank
    BY <1>2, <1>3 DEF Closed
  <1>5. x \in T
    BY <1>4 DEF Orbit
  <1> QED BY <1>5 DEF O

(* The rounds taken backwards reach every rank: what is true of r after    *)
(* the last round, and of a rank and its partner before a round whenever   *)
(* it is true of the rank after it, is true of everyone before the first.  *)
LEMMA ReachesAll ==
  ASSUME NEW r \in Rank, NEW S \in [1 .. Rounds + 1 -> SUBSET Rank],
         r \in S[Rounds + 1],
         \A k \in 1 .. Rounds : \A q \in S[k + 1] : q \in S[k] /\ Peer[k][q] \in S[k]
  PROVE  S[1] = Rank
  <1> DEFINE Good(m) == Orbit(r, Rounds + 1 - m) \subseteq S[Rounds + 1 - m]
             Bad     == {m \in 0 .. Rounds : ~ Good(m)}
  <1>0. Rounds \in Nat /\ Rounds > 0
    BY ConstantAssumption
  <1>1. Good(0)
    <2>1. Closed({r}, Rounds + 1)
      BY <1>0 DEF Closed
    <2>2. Orbit(r, Rounds + 1) \subseteq {r}
      BY <2>1 DEF Orbit
    <2> QED BY <1>0, <2>2
  <1>2. ASSUME NEW m \in 1 .. Rounds, Good(m - 1) PROVE Good(m)
    <2> DEFINE k == Rounds + 1 - m
    <2>1. k \in 1 .. Rounds /\ k + 1 = Rounds + 1 - (m - 1)
      BY <1>0
    <2>2. Orbit(r, k + 1) \subseteq S[k + 1]
      BY <1>2, <2>1
    <2> HIDE DEF k
    <2>3. ASSUME NEW x \in Orbit(r, k) PROVE x \in S[k]
      <3>1. x \in Rank
        BY DEF Orbit
      <3>2. x \in S[k + 1] \/ Peer[k][x] \in S[k + 1]
        BY <2>1, <2>2, OrbitDoubles
      <3>3. Peer[k][Peer[k][x]] = x
        BY <2>1, <3>1, PeerType
      <3> QED BY <2>1, <3>2, <3>3
    <2> QED BY <2>3 DEF k
  <1>3. Bad = {}
    <2> SUFFICES ASSUME Bad # {} PROVE FALSE
      OBVIOUS
    <2>1. Bad \in SUBSET Nat
      BY <1>0
    <2>2. PICK m \in Bad : \A y \in Bad : m <= y
      BY <2>1, LeastNumber
    <2>3. m \in 0 .. Rounds /\ m # 0
      BY <1>1, <2>2
    <2>4. m \in 1 .. Rounds /\ m - 1 \in 0 .. Rounds /\ ~ (m <= m - 1)
      BY <1>0, <2>3
    <2>5. Good(m - 1)
      BY <2>2, <2>4
    <2> QED BY <1>2, <2>2, <2>4, <2>5
  <1>4. Orbit(r, 1) \subseteq S[1]
    <2>1. Rounds \in 0 .. Rounds /\ Rounds + 1 - Rounds = 1
      BY <1>0
    <2>2. Good(Rounds)
      BY <1>3, <2>1
    <2> QED BY <2>1, <2>2
  <1>5. Rank \subseteq Orbit(r, 1)
    <2>1. ASSUME NEW T \in SUBSET Rank, r \in T, Closed(T, 1) PROVE T = Rank
      BY <2>1, MaskAssumption DEF Closed
    <2> QED BY <2>1 DEF Orbit
  <1>6. S[1] \subseteq Rank
    BY <1>0
  <1> QED BY <1>4, <1>5, <1>6

(* A call that ends on r has begun everywhere: whoever passed a round has  *)
(* a partner who passed the one before.                                    *)
LEMMA EndsTogether ==
  ASSUME IInv, Everyone, NEW r \in Rank, call[r] > 0, Passed(r, 0, Rounds),
         NEW q \in Rank
  PROVE  call[r] <= call[q]
  <1>0. TypeOK /\ Shape /\ Handshake /\ Rounds \in Nat \ {0} /\ 0 \in Blocks
    BY ConstantAssumption DEF IInv, ControlInv, Blocks
  <1>1. \A p \in Rank : call[p] \in Nat
    BY <1>0 DEF TypeOK
  <1>2. CASE \E p \in Rank : call[p] > call[r]
    BY <1>1, <1>2 DEF Everyone
  <1>3. CASE \A p \in Rank : call[p] <= call[r]
    <2> DEFINE At(k) == {p \in Rank : call[p] = call[r] /\ (k = 1 \/ Passed(p, 0, k - 1))}
               S == [k \in 1 .. Rounds + 1 |-> At(k)]
    <2>1. S \in [1 .. Rounds + 1 -> SUBSET Rank]
      OBVIOUS
    <2>2. r \in S[Rounds + 1]
      BY <1>0
    <2>3. ASSUME NEW k \in 1 .. Rounds, NEW p \in S[k + 1]
          PROVE  p \in S[k] /\ Peer[k][p] \in S[k]
      <3> DEFINE w == Peer[k][p]
      <3>1. /\ k \in 1 .. Rounds + 1 /\ k + 1 \in 1 .. Rounds + 1
            /\ k + 1 # 1 /\ (k + 1) - 1 = k
        BY <1>0
      <3>2. p \in Rank /\ call[p] = call[r] /\ Passed(p, 0, k)
        BY <3>1
      <3>3. w \in Rank /\ call[w] <= call[r]
        BY <1>3, <3>2, PeerType
      <3>4. ASSUME NEW x \in Rank, Passed(x, 0, k), k # 1 PROVE Passed(x, 0, k - 1)
        <4>1. round[x][0] \in Nat /\ k \in Nat
          BY <1>0 DEF TypeOK
        <4> QED BY <3>4, <4>1 DEF Passed
      <3>5. Sent(w, 0, k, call[r])
        BY <1>0, <3>2 DEF Handshake
      <3>6. call[w] = call[r] /\ (k = 1 \/ Passed(w, 0, k - 1))
        <4>1. CASE call[w] = call[r] /\ Passed(w, 0, k)
          BY <3>3, <3>4, <4>1
        <4>2. CASE call[w] = call[r] /\ round[w][0] = k /\ pc[w][0] = "wait"
          <5>1. Active(w, 0)
            BY <1>0, <3>3, <4>2 DEF Shape
          <5> QED BY <4>2, <5>1 DEF Passed
        <4> QED BY <1>1, <3>3, <3>5, <4>1, <4>2 DEF Sent
      <3> QED BY <3>1, <3>2, <3>3, <3>4, <3>6
    <2> HIDE DEF S
    <2>4. S[1] = Rank
      BY <2>1, <2>2, <2>3, ReachesAll
    <2>5. call[q] = call[r]
      BY <1>0, <2>4 DEF S
    <2> QED BY <1>1, <2>5
  <1> QED BY <1>1, <1>2, <1>3

(* A retiring block that leaves its rank idle has passed everything.       *)
LEMMA LastBlock ==
  ASSUME IInv, NEW r \in Rank, NEW b \in Blocks, Retire(r, b), Idle(r)'
  PROVE  call[r] \in Calls /\ call[r] > 0 /\ Passed(r, 0, Rounds)
  <1>1. TypeOK /\ Shape
    BY DEF IInv, ControlInv
  <1>2. pc[r][b] = "reduce" /\ round[r][b] = Rounds /\ pc' = [pc EXCEPT ![r][b] = "idle"]
    BY DEF Retire
  <1>3. Active(r, b)
    BY <1>1, <1>2 DEF Shape
  <1>4. call[r] \in Calls /\ call[r] > 0
    BY <1>1, <1>3 DEF Active, TypeOK, Calls
  <1>5. 0 \in Blocks /\ Active(r, 0)
    <2>1. Grid(call[r]) \in 1 .. NBlocks
      BY <1>1, <1>4, GridType DEF TypeOK
    <2> QED BY <1>4, <2>1, ConstantAssumption DEF Active, Blocks
  <1>6. b # 0 => pc[r][0] = "idle"
    <2>1. pc'[r][0] = "idle"
      BY <1>5 DEF Idle
    <2> QED BY <1>1, <1>2, <1>5, <2>1 DEF TypeOK
  <1> QED BY <1>2, <1>4, <1>5, <1>6 DEF Passed

(* Only a launch and the retirement of a rank's last block change whether  *)
(* it is idle.                                                             *)
LEMMA IdleCta ==
  ASSUME IInv, NEW r \in Rank, NEW b \in Blocks, Cta(r, b)
  PROVE  /\ call' = call /\ plan' = plan /\ ~ Idle(r)
         /\ \A x \in Rank : x # r => Idle(x)' = Idle(x)
         /\ Idle(r)' => Retire(r, b)
  <1>1. TypeOK /\ Shape
    BY DEF IInv, ControlInv
  <1>2. call' = call /\ plan' = plan /\ pc[r][b] # "idle"
    BY <1>1, CtaLocal DEF Cta, Store, Signal, Wait, Reduce, Retire
  <1>3. \A x \in Rank : x # r => \A y \in Blocks : pc'[x][y] = pc[x][y]
    BY <1>1, CtaLocal
  <1>4. Retire(r, b) \/ pc'[r][b] # "idle"
    <2>1. ASSUME NEW i \in Chunks, Store(r, b, i) PROVE pc'[r][b] # "idle"
      BY <1>2, <2>1 DEF Store
    <2>2. CASE Signal(r, b)
      BY <1>1, <2>2 DEF Signal, TypeOK
    <2>3. CASE Wait(r, b)
      BY <1>1, <2>3 DEF Wait, TypeOK
    <2>4. CASE Reduce(r, b)
      BY <1>1, <2>4 DEF Reduce, TypeOK
    <2> QED BY <2>1, <2>2, <2>3, <2>4 DEF Cta
  <1> QED BY <1>2, <1>3, <1>4 DEF Idle

(* A launched kernel is not idle: it has a block.                          *)
LEMMA LaunchBusy ==
  ASSUME TypeOK, NEW r \in Rank, Launch(r)
  PROVE  ~ Idle(r)'
  <1>1. call[r] + 1 \in Calls
    BY LaunchLocal
  <1>2. Grid(call[r] + 1) \in 1 .. NBlocks /\ 0 \in Blocks
    <2>1. plan \in [Calls -> 1 .. NChunks]
      BY DEF TypeOK
    <2>2. Grid(call[r] + 1) \in 1 .. NBlocks
      BY <1>1, <2>1, GridType
    <2>3. 0 \in Blocks
      BY ConstantAssumption DEF Blocks
    <2> QED BY <2>2, <2>3
  <1>3. pc'[r][0] = "push"
    <2>1. pc'[r] = [b \in Blocks |-> IF b < Grid(call[r] + 1) THEN "push" ELSE "idle"]
      BY DEF Launch, TypeOK
    <2>2. 0 < Grid(call[r] + 1)
      BY <1>2, ConstantAssumption
    <2> QED BY <1>2, <2>1, <2>2
  <1> QED BY <1>2, <1>3 DEF Idle

(* Steps preserve Everyone.                                                *)
LEMMA EveryoneStep ==
  ASSUME IInv, Everyone, [Next]_vars
  PROVE  Everyone'
  <1>0. TypeOK /\ \A x \in Rank : call[x] \in Nat
    BY DEF IInv, ControlInv, TypeOK
  <1>1. ASSUME NEW r \in Rank, Launch(r) PROVE Everyone'
    <2>1. /\ call'[r] = call[r] + 1 /\ Idle(r)
          /\ \A x \in Rank : x # r => call'[x] = call[x] /\ Idle(x)' = Idle(x)
      BY <1>0, <1>1 DEF Launch, Idle, TypeOK
    <2>2. ~ Idle(r)'
      BY <1>0, <1>1, LaunchBusy
    <2> QED BY <1>0, <2>1, <2>2 DEF Everyone
  <1>2. ASSUME NEW r \in Rank, NEW b \in Blocks, Cta(r, b) PROVE Everyone'
    <2>1. /\ call' = call /\ \A x \in Rank : x # r => Idle(x)' = Idle(x)
          /\ Idle(r)' => Retire(r, b)
      BY <1>2, IdleCta
    <2>2. Idle(r)' => \A q \in Rank : call[r] <= call[q]
      BY <2>1, LastBlock, EndsTogether
    <2> QED BY <2>1, <2>2 DEF Everyone
  <1>3. CASE UNCHANGED vars
    BY <1>3 DEF vars, Everyone, Idle
  <1> QED BY <1>1, <1>2, <1>3 DEF Next, Terminated

(* A rank waits for everyone: no kernel ends before every rank has begun   *)
(* that call, and calls are never further apart than one.                  *)
THEOREM NobodyAhead == ASSUME NoWrap PROVE Spec => []Everyone
  <1>1. Init => Everyone
    BY DEF Init, Everyone
  <1> QED BY <1>1, EveryoneStep, Invariance, PTL DEF Spec

-----------------------------------------------------------------------------
(* The kernels implement AllReduce.                                        *)

(* What every rank holds at the end of a call is one value.                *)
LEMMA OneSum ==
  ASSUME NEW c \in Calls, NEW r \in Rank
  PROVE  Partial[c][Rounds][r] = Partial[c][Rounds][0]
  <1> DEFINE P(k, q) == Partial[c][k][q]
             Agree(k) == \A j \in 1 .. k, q \in Rank : P(k, Peer[j][q]) = P(k, q)
             Bad == {k \in 0 .. Rounds : ~ Agree(k)}
  <1>0. Rounds \in Nat /\ Rounds > 0 /\ Rank \subseteq Nat
    BY ConstantAssumption
  <1>1. Agree(0)
    OBVIOUS
  <1>2. ASSUME NEW k \in 1 .. Rounds, Agree(k - 1) PROVE Agree(k)
    <2> SUFFICES ASSUME NEW j \in 1 .. k, NEW q \in Rank PROVE P(k, Peer[j][q]) = P(k, q)
      OBVIOUS
    <2> DEFINE p == Peer[j][q]
               a == P(k - 1, q)
               d == P(k - 1, Peer[k][q])
    <2>1. /\ j \in 1 .. Rounds /\ p \in Rank /\ Peer[k][q] \in Rank
          /\ Peer[k][p] = Peer[j][Peer[k][q]] /\ Peer[j][p] = q
      <3>1. j \in 1 .. Rounds
        BY <1>0
      <3> QED BY <3>1, PeerType, MaskAssumption
    <2>2. P(k, q) = Combine(q, k, a, d)
      BY PartialAssumption
    <2>3. P(k, p) = Combine(p, k, P(k - 1, p), P(k - 1, Peer[k][p]))
      BY <2>1, PartialAssumption
    <2>4. Commutes => Add(a, d) = Add(d, a)
      BY DEF Commutes
    <2>5. CASE j = k
      <3>1. P(k, p) = Combine(p, k, d, a)
        BY <2>1, <2>3, <2>5
      <3>2. p = q => a = d
        BY <2>5
      <3>3. p \in Nat /\ q \in Nat /\ Peer[k][q] = p /\ Peer[k][p] = q
        BY <1>0, <2>1, <2>5
      <3>4. p = q \/ p < q \/ q < p
        BY <3>3
      <3>5. ~ (p < q /\ q < p)
        BY <3>3
      <3> HIDE DEF p, a, d, P
      <3>6. P(k, p) = P(k, q)
        BY <2>2, <2>4, <3>1, <3>2, <3>3, <3>4, <3>5, SumAssumption DEF Combine, LowersAgree
      <3> QED BY <3>6 DEF p
    <2>6. CASE j # k
      <3>1. j \in 1 .. k - 1
        BY <2>6
      <3>2. P(k - 1, p) = a /\ P(k - 1, Peer[k][p]) = d
        BY <1>2, <2>1, <3>1
      <3>3. LowersAgree => LowerFirst /\ (Peer[k][q] < q <=> Peer[k][p] < p)
        BY <3>1 DEF LowersAgree
      <3>4. P(k, p) = Combine(p, k, a, d)
        BY <2>3, <3>2
      <3> HIDE DEF p, a, d, P
      <3>5. P(k, p) = P(k, q)
        BY <2>2, <2>4, <3>3, <3>4, SumAssumption DEF Combine
      <3> QED BY <3>5 DEF p
    <2> QED BY <2>5, <2>6
  <1>3. Bad = {}
    <2> SUFFICES ASSUME Bad # {} PROVE FALSE
      OBVIOUS
    <2>1. Bad \in SUBSET Nat
      BY <1>0
    <2> HIDE DEF Agree
    <2>2. PICK m \in Bad : \A y \in Bad : m <= y
      BY <2>1, LeastNumber
    <2>3. m \in 0 .. Rounds /\ m # 0
      BY <1>1, <2>2
    <2>4. m \in 1 .. Rounds /\ m - 1 \in 0 .. Rounds /\ ~ (m <= m - 1)
      BY <1>0, <2>3
    <2>5. Agree(m - 1)
      BY <2>2, <2>4
    <2> QED BY <1>2, <2>2, <2>4, <2>5
  <1>4. Agree(Rounds)
    BY <1>0, <1>3
  <1> DEFINE S == {q \in Rank : P(Rounds, q) = P(Rounds, 0)}
  <1>5. 0 \in S
    BY MaskAssumption
  <1>6. \A k \in 1 .. Rounds, q \in S : Peer[k][q] \in S
    BY <1>4, PeerType
  <1>7. S \in SUBSET Rank /\ (r \in S => P(Rounds, r) = P(Rounds, 0))
    OBVIOUS
  <1> HIDE DEF S
  <1>8. S = Rank
    BY <1>5, <1>6, <1>7, MaskAssumption
  <1> QED BY <1>7, <1>8

(* What the mapped result is: nothing while a kernel runs, and the sum of  *)
(* the call once it has ended.                                             *)
LEMMA OutputIsSum ==
  ASSUME TypeOK, OwnSums', plan' = plan, call' = call, NEW r \in Rank, Idle(r)', call[r] > 0
  PROVE  Output(r)' = {Partial[call[r]][Rounds][0]}
  <1> DEFINE c == call[r]
             v == Partial[c][Rounds][0]
  <1>1. c \in Calls /\ plan[c] \in 1 .. NChunks
    BY DEF TypeOK, Calls
  <1>2. ASSUME NEW i \in 0 .. plan[c] - 1 PROVE acc'[r][i] = v
    <2>1. i \in Nat
      BY <1>1
    <2>2. Owner(c, i) \in Blocks
      BY <1>1, <2>1, OwnerType DEF TypeOK
    <2>3. pc'[r][Owner(c, i)] = "idle"
      BY <2>2 DEF Idle
    <2>4. Owner(call[r], i)' = Owner(c, i)
      BY DEF Owner, Grid
    <2>5. acc'[r][i] = Partial[c][Rounds][r]
      BY <1>2, <2>3, <2>4 DEF OwnSums
    <2> QED BY <1>1, <2>5, OneSum
  <1>3. 0 \in 0 .. plan[c] - 1
    BY <1>1, ConstantAssumption
  <1>4. Output(r)' = {acc'[r][i] : i \in 0 .. plan[c] - 1}
    BY DEF Output
  <1> HIDE DEF v
  <1>5. {acc'[r][i] : i \in 0 .. plan[c] - 1} = {v}
    BY <1>2, <1>3
  <1> QED BY <1>4, <1>5 DEF v

Returned == [r \in Rank |-> IF Idle(r) THEN call[r] ELSE call[r] - 1]
Results  == [r \in Rank |-> Output(r)]

(* A launch enters the call.                                               *)
LEMMA LaunchEnters ==
  ASSUME IInv, NEW r \in Rank, Launch(r)
  PROVE  AR!Enter(r)
  <1>0. TypeOK
    BY DEF IInv, ControlInv
  <1>1. /\ Idle(r) /\ call[r] < MaxCalls /\ call' = [call EXCEPT ![r] = @ + 1]
        /\ plan' = plan /\ call[r] \in Nat
    BY <1>0 DEF Launch, Idle, TypeOK
  <1>2. ~ Idle(r)'
    BY <1>0, LaunchBusy
  <1>3. ASSUME NEW x \in Rank, x # r
        PROVE  call'[x] = call[x] /\ acc'[x] = acc[x] /\ Idle(x)' = Idle(x)
    BY <1>0, <1>3 DEF Launch, Idle, TypeOK
  <1>4. call'[r] = call[r] + 1
    BY <1>0, <1>1 DEF TypeOK
  <1>5. Returned' = Returned
    <2>1. ASSUME NEW x \in Rank
          PROVE  (IF Idle(x)' THEN call'[x] ELSE call'[x] - 1)
                   = (IF Idle(x) THEN call[x] ELSE call[x] - 1)
      <3>1. CASE x = r
        BY <1>1, <1>2, <1>4, <3>1
      <3>2. CASE x # r
        BY <1>3, <3>2
      <3> QED BY <3>1, <3>2
    <2> QED BY <2>1 DEF Returned
  <1>6. Results' = [Results EXCEPT ![r] = {}]
    <2>1. Output(r)' = {}
      BY <1>2 DEF Output
    <2>2. ASSUME NEW x \in Rank, x # r PROVE Output(x)' = Output(x)
      <3>1. call'[x] = call[x] /\ acc'[x] = acc[x] /\ Idle(x)' = Idle(x) /\ plan' = plan
        BY <1>1, <1>3, <2>2
      <3> QED BY <3>1 DEF Output
    <2>3. ASSUME NEW x \in Rank
          PROVE  Output(x)' = [Results EXCEPT ![r] = {}][x]
      BY <2>1, <2>2 DEF Results
    <2>4. Results' = [x \in Rank |-> Output(x)']
      BY DEF Results
    <2> HIDE DEF Results
    <2>5. Results = [x \in Rank |-> Output(x)]
      BY DEF Results
    <2> QED BY <2>1, <2>2, <2>4, <2>5
  <1>7. Returned[r] = call[r]
    BY <1>1 DEF Returned
  <1> QED BY <1>1, <1>5, <1>6, <1>7 DEF AR!Enter, Returned, Results

(* A CTA's step returns from the call, if it makes its rank idle, or does  *)
(* nothing that AllReduce speaks of.                                       *)
LEMMA CtaReturns ==
  ASSUME IInv, IInv', Everyone, NEW r \in Rank, NEW b \in Blocks, Cta(r, b)
  PROVE  AR!Return(r) \/ UNCHANGED <<call, Returned, Results>>
  <1>0. TypeOK /\ TypeOK' /\ OwnSums'
    BY DEF IInv, ControlInv, DataInv
  <1>1. /\ call' = call /\ plan' = plan /\ ~ Idle(r)
        /\ \A x \in Rank : x # r => Idle(x)' = Idle(x)
        /\ Idle(r)' => Retire(r, b)
    BY IdleCta
  <1>2. ASSUME NEW x \in Rank, x # r PROVE Output(x)' = Output(x)
    <2>1. acc'[x] = acc[x]
      BY <1>0, <1>2 DEF Cta, Store, Signal, Wait, Reduce, Retire, TypeOK
    <2> QED BY <1>1, <1>2, <2>1 DEF Output
  <1>3. /\ Returned = [x \in Rank |-> IF Idle(x) THEN call[x] ELSE call[x] - 1]
        /\ Returned' = [x \in Rank |-> IF Idle(x)' THEN call[x] ELSE call[x] - 1]
        /\ Results = [x \in Rank |-> Output(x)]
        /\ Results' = [x \in Rank |-> Output(x)']
    BY <1>1 DEF Returned, Results
  <1>4. CASE ~ Idle(r)'
    <2>1. Output(r)' = Output(r)
      BY <1>1, <1>4 DEF Output
    <2>2. \A x \in Rank : Output(x)' = Output(x) /\ Idle(x)' = Idle(x)
      BY <1>1, <1>2, <1>4, <2>1 DEF Idle
    <2>3. Results' = Results /\ Returned' = Returned
      BY <1>3, <2>2
    <2> QED BY <1>1, <2>3
  <1>5. CASE Idle(r)'
    <2>1. call[r] \in Calls /\ call[r] > 0 /\ Passed(r, 0, Rounds)
      BY <1>1, <1>5, LastBlock
    <2>2. \A q \in Rank : call[q] >= call[r]
      <3>1. \A q \in Rank : call[q] \in Nat
        BY <1>0 DEF TypeOK
      <3> QED BY <2>1, <3>1, EndsTogether
    <2>3. Output(r)' = {Partial[call[r]][Rounds][0]}
      BY <1>0, <1>1, <1>5, <2>1, OutputIsSum
    <2>4. Returned' = [Returned EXCEPT ![r] = call[r]]
      BY <1>1, <1>3, <1>5
    <2>5. Results' = [Results EXCEPT ![r] = {Partial[call[r]][Rounds][0]}]
      BY <1>2, <1>3, <2>3
    <2>6. Returned[r] < call[r]
      BY <1>1, <1>3, <2>1 DEF Calls
    <2> QED BY <1>1, <2>1, <2>2, <2>4, <2>5, <2>6 DEF AR!Return, Returned, Results
  <1> QED BY <1>4, <1>5

(* The kernels implement the in-order all-reduce for any number of ranks,  *)
(* rounds, blocks, chunks and calls: a call returns on a rank only when    *)
(* every rank has entered it, and every rank obtains the one sum of that   *)
(* call in every chunk of its output.                                      *)
THEOREM Refinement == ASSUME NoWrap PROVE Spec => Implements
  <1>1. Init => AR!Init
    <2> SUFFICES ASSUME Init PROVE AR!Init
      OBVIOUS
    <2>1. \A r \in Rank : call[r] = 0 /\ Idle(r)
      BY DEF Init, Idle
    <2>2. ASSUME NEW r \in Rank PROVE Output(r) = {}
      <3>1. call[r] = 0
        BY <2>1
      <3>2. ~ (call[r] > 0)
        BY <3>1
      <3> QED BY <3>2 DEF Output
    <2>3. call = [r \in Rank |-> 0]
      BY DEF Init
    <2> QED BY <2>1, <2>2, <2>3 DEF AR!Init
  <1>2. IInv /\ IInv' /\ Everyone /\ [Next]_vars => [AR!Next]_(AR!vars)
    <2> SUFFICES ASSUME IInv, IInv', Everyone, [Next]_vars
                 PROVE  AR!Next \/ UNCHANGED <<call, Returned, Results>>
      BY DEF AR!vars, Returned, Results
    <2>1. ASSUME NEW r \in Rank, Launch(r) PROVE AR!Next
      BY <2>1, LaunchEnters DEF AR!Next
    <2>2. ASSUME NEW r \in Rank, NEW b \in Blocks, Cta(r, b)
          PROVE  AR!Next \/ UNCHANGED <<call, Returned, Results>>
      BY <2>2, CtaReturns DEF AR!Next
    <2>3. CASE UNCHANGED vars
      BY <2>3 DEF vars, Returned, Results, Output, Idle
    <2> QED BY <2>1, <2>2, <2>3 DEF Next, Terminated
  <1> QED BY <1>1, <1>2, Invariance, NobodyAhead, PTL DEF Spec, Implements, AR!Spec
=============================================================================
