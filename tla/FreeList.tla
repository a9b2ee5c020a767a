------------------------------ MODULE FreeList ------------------------------
(***************************************************************************)
(* What FreeKVCacheBlockQueue promises the block pool: a list of the free  *)
(* blocks in the order in which they will be evicted.                      *)
(***************************************************************************)
EXTENDS Integers, Sequences

CONSTANTS
    Order,    \* the list the pool starts with
    Blocks    \* the pool's blocks

VARIABLES
    queue,    \* the free blocks, the next one to be evicted first
    got       \* the blocks the last pop returned

(* Lists of distinct blocks that are not free.                             *)
Returnable(s) ==
    /\ s \in Seq(Blocks) /\ s # <<>>
    /\ \A i, j \in 1 .. Len(s) : s[i] = s[j] => i = j
    /\ \A i \in 1 .. Len(s), j \in 1 .. Len(queue) : s[i] # queue[j]

Init == queue = Order /\ got = <<>>

(* The n blocks at the front leave, in order.                              *)
Take(n) == /\ got' = SubSeq(queue, 1, n)
           /\ queue' = SubSeq(queue, n + 1, Len(queue))

(* The block at position k leaves; the others keep their order.            *)
Pull(k) == /\ queue' = [i \in 1 .. Len(queue) - 1 |->
                           IF i < k THEN queue[i] ELSE queue[i + 1]]
           /\ UNCHANGED got

PutLast(s)  == Returnable(s) /\ queue' = queue \o s /\ UNCHANGED got
PutFirst(s) == Returnable(s) /\ queue' = s \o queue /\ UNCHANGED got

(* The list a step puts back is what the queue has gained by it.           *)
Gained == [i \in 1 .. Len(queue') - Len(queue) |-> queue'[Len(queue) + i]]
GainedFirst == [i \in 1 .. Len(queue') - Len(queue) |-> queue'[i]]

Next == \/ \E n \in 1 .. Len(queue) : Take(n)
        \/ \E k \in 1 .. Len(queue) : Pull(k)
        \/ PutLast(Gained)
        \/ PutFirst(GainedFirst)

Spec == Init /\ [][Next]_<<queue, got>>
=============================================================================
