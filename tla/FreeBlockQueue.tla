--------------------------- MODULE FreeBlockQueue ---------------------------
(***************************************************************************)
(* FreeKVCacheBlockQueue of v1/core/kv_cache_utils.py: the free blocks of  *)
(* the KV cache as a doubly linked list through the blocks themselves,     *)
(* between a fake head and a fake tail.                                    *)
(*                                                                         *)
(* The operations that walk a list are taken one iteration at a time, so   *)
(* the model is what the pointers are at every point of every loop.  free  *)
(* is not in the program: it is the list the pointers should spell, and    *)
(* changes as an operation returns.  The block pool, which is not part of  *)
(* the repository, gives back blocks it holds, each once, and asks for no  *)
(* more blocks than are free.                                              *)
(***************************************************************************)
EXTENDS Integers, Sequences

CONSTANT N   \* num_gpu_blocks

ASSUME NAssumption == N \in Nat

Blocks == 0 .. N - 1

(* Both fakes have block_id -1; here they are told apart.                  *)
FakeHead == -1
FakeTail == N
None     == -2
Nodes    == -1 .. N
Links    == -2 .. N

VARIABLES
    next,    \* next_free_block of each block and fake
    prev,    \* prev_free_block
    num,     \* num_free_blocks
    op,      \* the loop that is running
    list,    \* its argument: the blocks to give back
    n,       \* its argument: how many blocks to pop
    i,       \* iterations done
    cursor,  \* curr_block, last_block or prev_block
    first,   \* first_block of prepend_n
    ret,     \* popleft_n's ret
    got,     \* what the last pop returned
    free     \* what the list should be

vars == <<next, prev, num, op, list, n, i, cursor, first, ret, got, free>>
args == <<list, n, i, cursor, first, ret>>

Distinct(s) == \A j, k \in 1 .. Len(s) : s[j] = s[k] => j = k

IsFree(b) == \E j \in 1 .. Len(free) : free[j] = b

(* What the pool may give back: distinct blocks, none of them free.        *)
InUse == {b \in Blocks : ~ IsFree(b)}
Given == {s \in UNION {[1 .. k -> InUse] : k \in 1 .. N} : Distinct(s)}

-----------------------------------------------------------------------------
LocalsEnd == /\ list' = <<>> /\ n' = 0 /\ i' = 0 /\ ret' = <<>>
             /\ cursor' = None /\ first' = None

(* __init__: the blocks in the order of their ids.                         *)
Init ==
    /\ next = [x \in Nodes |-> IF x = FakeTail THEN None ELSE x + 1]
    /\ prev = [x \in Nodes |-> IF x = FakeHead THEN None ELSE x - 1]
    /\ num = N
    /\ op = "idle" /\ list = <<>> /\ n = 0 /\ i = 0
    /\ cursor = None /\ first = None /\ ret = <<>> /\ got = <<>>
    /\ free = [j \in 1 .. N |-> j - 1]

(* An empty queue raises, and nothing changes.                             *)
Popleft ==
    LET b == next[FakeHead] IN
    /\ op = "idle"
    /\ b # FakeTail
    /\ next' = [next EXCEPT ![FakeHead] = next[b], ![b] = None]
    /\ prev' = [prev EXCEPT ![next[b]] = FakeHead, ![b] = None]
    /\ num' = num - 1
    /\ got' = <<b>>
    /\ free' = SubSeq(free, 2, Len(free))
    /\ UNCHANGED <<op, args>>

PopleftN(k) ==
    /\ op = "idle"
    /\ num >= k
    /\ op' = "pop" /\ n' = k /\ i' = 0 /\ ret' = <<>>
    /\ num' = num - k
    /\ cursor' = next[FakeHead]
    /\ UNCHANGED <<next, prev, list, first, got, free>>

(* Bug: the blocks come in the opposite order.                             *)
PopOneReversed ==
    /\ op = "pop"
    /\ i < n
    /\ ret' = <<cursor>> \o ret
    /\ cursor' = next[cursor]
    /\ next' = [next EXCEPT ![cursor] = None]
    /\ prev' = [prev EXCEPT ![cursor] = None]
    /\ i' = i + 1
    /\ UNCHANGED <<num, op, list, n, first, got, free>>

PopOne ==
    /\ op = "pop"
    /\ i < n
    /\ ret' = Append(ret, cursor)
    /\ cursor' = next[cursor]
    /\ next' = [next EXCEPT ![cursor] = None]
    /\ prev' = [prev EXCEPT ![cursor] = None]
    /\ i' = i + 1
    /\ UNCHANGED <<num, op, list, n, first, got, free>>

(* Bug: the new first block still points at a popped one.                  *)
PopEndHeadOnly ==
    /\ op = "pop"
    /\ i = n
    /\ next' = [next EXCEPT ![FakeHead] = cursor]
    /\ op' = "idle"
    /\ got' = ret
    /\ free' = SubSeq(free, n + 1, Len(free))
    /\ LocalsEnd
    /\ UNCHANGED <<prev, num>>

(* curr_block is the fake tail when all blocks are popped, never None.     *)
PopEnd ==
    /\ op = "pop"
    /\ i = n
    /\ IF cursor # None
       THEN /\ next' = [next EXCEPT ![FakeHead] = cursor]
            /\ prev' = [prev EXCEPT ![cursor] = FakeHead]
       ELSE UNCHANGED <<next, prev>>
    /\ op' = "idle"
    /\ got' = ret
    /\ free' = SubSeq(free, n + 1, Len(free))
    /\ LocalsEnd
    /\ UNCHANGED num

(* Bug: the removed block keeps its pointers.                              *)
RemoveKeepsLinks(b) ==
    /\ op = "idle"
    /\ prev[b] # None /\ next[b] # None
    /\ next' = [next EXCEPT ![prev[b]] = next[b]]
    /\ prev' = [prev EXCEPT ![next[b]] = prev[b]]
    /\ num' = num - 1
    /\ \E k \in 1 .. Len(free) :
          /\ free[k] = b
          /\ free' = [j \in 1 .. Len(free) - 1 |-> IF j < k THEN free[j] ELSE free[j + 1]]
    /\ UNCHANGED <<op, args, got>>

(* A block without both pointers raises, and nothing changes.              *)
Remove(b) ==
    /\ op = "idle"
    /\ prev[b] # None /\ next[b] # None
    /\ next' = [next EXCEPT ![prev[b]] = next[b], ![b] = None]
    /\ prev' = [prev EXCEPT ![next[b]] = prev[b], ![b] = None]
    /\ num' = num - 1
    /\ \E k \in 1 .. Len(free) :
          /\ free[k] = b
          /\ free' = [j \in 1 .. Len(free) - 1 |-> IF j < k THEN free[j] ELSE free[j + 1]]
    /\ UNCHANGED <<op, args, got>>

Append1(b) ==
    /\ op = "idle"
    /\ next' = [next EXCEPT ![prev[FakeTail]] = b, ![b] = FakeTail]
    /\ prev' = [prev EXCEPT ![b] = prev[FakeTail], ![FakeTail] = b]
    /\ num' = num + 1
    /\ free' = free \o <<b>>
    /\ UNCHANGED <<op, args, got>>

AppendN(s) ==
    /\ op = "idle"
    /\ op' = "append" /\ list' = s /\ i' = 0
    /\ cursor' = prev[FakeTail]
    /\ UNCHANGED <<next, prev, num, n, first, ret, got, free>>

PrependN(s) ==
    /\ op = "idle"
    /\ op' = "prepend" /\ list' = s /\ i' = 0
    /\ cursor' = FakeHead
    /\ first' = next[FakeHead]
    /\ UNCHANGED <<next, prev, num, n, ret, got, free>>

(* The loops of append_n and prepend_n do the same.                        *)
LinkOne ==
    /\ op \in {"append", "prepend"}
    /\ i < Len(list)
    /\ prev' = [prev EXCEPT ![list[i + 1]] = cursor]
    /\ next' = [next EXCEPT ![cursor] = list[i + 1]]
    /\ cursor' = list[i + 1]
    /\ i' = i + 1
    /\ UNCHANGED <<num, op, list, n, first, ret, got, free>>

AppendEnd ==
    /\ op = "append"
    /\ i = Len(list)
    /\ next' = [next EXCEPT ![cursor] = FakeTail]
    /\ prev' = [prev EXCEPT ![FakeTail] = cursor]
    /\ num' = num + Len(list)
    /\ op' = "idle"
    /\ free' = free \o list
    /\ LocalsEnd
    /\ UNCHANGED got

PrependEnd ==
    /\ op = "prepend"
    /\ i = Len(list)
    /\ next' = [next EXCEPT ![cursor] = first]
    /\ prev' = [prev EXCEPT ![first] = cursor]
    /\ num' = num + Len(list)
    /\ op' = "idle"
    /\ free' = list \o free
    /\ LocalsEnd
    /\ UNCHANGED got

Next ==
    \/ Popleft
    \/ \E k \in 1 .. N : PopleftN(k)
    \/ PopOne
    \/ PopEnd
    \/ \E b \in Blocks : Remove(b)
    \/ \E b \in InUse : Append1(b)
    \/ \E s \in Given : AppendN(s) \/ PrependN(s)
    \/ LinkOne
    \/ AppendEnd
    \/ PrependEnd

Spec == Init /\ [][Next]_vars

-----------------------------------------------------------------------------
(* Properties.                                                             *)

TypeOK ==
    /\ next \in [Nodes -> Links] /\ prev \in [Nodes -> Links]
    /\ num \in 0 .. N
    /\ op \in {"idle", "pop", "append", "prepend"}
    /\ list \in Seq(Blocks) /\ n \in 0 .. N /\ i \in 0 .. N
    /\ cursor \in Links /\ first \in Links
    /\ ret \in Seq(Blocks) /\ got \in Seq(Blocks) /\ free \in Seq(Blocks)

(* The list s between the fakes, and its links from position a to b.       *)
Node(s, k) == IF k = 0 THEN FakeHead
              ELSE IF k = Len(s) + 1 THEN FakeTail ELSE s[k]

Chain(s, a, b) == \A k \in a .. b : /\ next[Node(s, k)] = Node(s, k + 1)
                                    /\ prev[Node(s, k + 1)] = Node(s, k)

(* The invariant that carries a loop from its first iteration to its last: *)
(* the list it has before it, and the part of it whose links hold.         *)
Whole == CASE op = "append"  -> free \o list
           [] op = "prepend" -> list \o free
           [] OTHER          -> free

Linked(b) ==
    CASE op = "pop" -> \E k \in i + 1 .. Len(free) : free[k] = b
      [] op \in {"append", "prepend"} -> IsFree(b) \/ \E k \in 1 .. i : list[k] = b
      [] OTHER -> IsFree(b)

UnlinkedInv ==
    /\ prev[FakeHead] = None /\ next[FakeTail] = None
    /\ \A b \in Blocks : ~ Linked(b) => next[b] = None /\ prev[b] = None

IdleInv == op = "idle" => /\ Chain(free, 0, Len(free))
                          /\ num = Len(free)

PopInv == op = "pop" =>
    /\ n \in 1 .. Len(free) /\ i \in 0 .. n
    /\ num = Len(free) - n
    /\ ret = SubSeq(free, 1, i)
    /\ cursor = Node(free, i + 1)
    /\ Chain(free, i + 1, Len(free))

AppendInv == op = "append" =>
    /\ i \in 0 .. Len(list) /\ list # <<>>
    /\ num = Len(free)
    /\ cursor = Node(free \o list, Len(free) + i)
    /\ Chain(free \o list, 0, Len(free) + i - 1)

PrependInv == op = "prepend" =>
    /\ i \in 0 .. Len(list) /\ list # <<>>
    /\ num = Len(free)
    /\ cursor = Node(list \o free, i)
    /\ first = Node(list \o free, Len(list) + 1)
    /\ Chain(list \o free, 0, i - 1)
    /\ Chain(list \o free, Len(list) + 1, Len(list) + Len(free))

(* What the queue is at every point of every operation.                    *)
IInv == /\ TypeOK /\ Distinct(Whole) /\ UnlinkedInv
        /\ IdleInv /\ PopInv /\ AppendInv /\ PrependInv

(* Between operations the pointers spell the list in both directions, and  *)
(* num_free_blocks is its length: no block lost, doubled or out of order   *)
(* after any mixture of pops, removals from the middle and returns.        *)
Spelled ==
    op = "idle" => /\ Chain(free, 0, Len(free))
                   /\ Distinct(free)
                   /\ num = Len(free)

(* The test remove() makes of a block's pointers tells exactly the free    *)
(* blocks from those in use, which a caller must not remove twice.         *)
GuardExact ==
    op = "idle" => \A b \in Blocks : (prev[b] # None /\ next[b] # None) <=> IsFree(b)

(* The linked list implements the list: pops return its front in order,    *)
(* returned blocks go where the caller asked.                              *)
FL == INSTANCE FreeList WITH
        Order  <- [j \in 1 .. N |-> j - 1],
        Blocks <- Blocks,
        queue  <- free,
        got    <- got

Implements == FL!Spec
=============================================================================
