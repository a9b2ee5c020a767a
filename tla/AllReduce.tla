----------------------------- MODULE AllReduce -----------------------------
(***************************************************************************)
(* What an in-order all-reduce promises to the ranks of a tensor-parallel  *)
(* group, whatever kernel carries it out: a call returns on a rank only    *)
(* when every rank has entered it, and what it returns is the sum of the   *)
(* contributions to that very call.                                        *)
(*                                                                         *)
(* The kernel modules implement this specification; it mentions neither    *)
(* buffers nor flags.                                                      *)
(***************************************************************************)
EXTENDS Naturals

CONSTANTS Rank,       \* the ranks of the group
          MaxCalls,   \* bound: calls explored
          Total,      \* Total[c]: the value every rank must obtain from call c
          NoResult    \* the output tensor of a call that has not returned

VARIABLES entered,    \* entered[r]: calls rank r has launched
          returned,   \* returned[r]: calls that have completed on rank r
          result      \* result[r]: output of the last call, NoResult meanwhile

vars == <<entered, returned, result>>

Init == /\ entered = [r \in Rank |-> 0]
        /\ returned = [r \in Rank |-> 0]
        /\ result = [r \in Rank |-> NoResult]

Enter(r) == /\ entered[r] = returned[r]
            /\ entered[r] < MaxCalls
            /\ entered' = [entered EXCEPT ![r] = @ + 1]
            /\ result' = [result EXCEPT ![r] = NoResult]
            /\ UNCHANGED returned

Return(r) == /\ returned[r] < entered[r]
             /\ \A q \in Rank : entered[q] >= entered[r]
             /\ returned' = [returned EXCEPT ![r] = entered[r]]
             /\ result' = [result EXCEPT ![r] = Total[entered[r]]]
             /\ UNCHANGED entered

Next == \E r \in Rank : Enter(r) \/ Return(r)

Spec == Init /\ [][Next]_vars
=============================================================================
