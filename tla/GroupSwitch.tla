---------------------------- MODULE GroupSwitch ----------------------------
(***************************************************************************)
(* What the ranks of a group are promised about the custom all-reduce:     *)
(* they switch it on together or not at all.  A rank uses it only after    *)
(* every rank has prepared its buffers, a group with a rank that refused   *)
(* stays off, and buffers are given up only when no rank uses them.        *)
(***************************************************************************)
CONSTANT Rank

VARIABLE state   \* state[r]: what rank r has come to

Init == state = [r \in Rank |-> "undecided"]

Prepare(r) == /\ state[r] = "undecided"
              /\ state' = [state EXCEPT ![r] = "prepared"]

SwitchOn(r) == /\ state[r] = "prepared"
               /\ \A q \in Rank : state[q] \in {"prepared", "on", "left"}
               /\ state' = [state EXCEPT ![r] = "on"]

(* A rank that has not been on goes off only if none has been or will be.  *)
StayOff(r) == /\ state[r] \in {"undecided", "prepared"}
              /\ \E q \in Rank : state[q] \in {"undecided", "off"}
              /\ \A q \in Rank : state[q] \in {"undecided", "prepared", "off"}
              /\ state' = [state EXCEPT ![r] = "off"]

Leave(r) == /\ state[r] = "on"
            /\ state' = [state EXCEPT ![r] = "left"]

GiveUp(r) == /\ state[r] = "left"
             /\ \A q \in Rank : state[q] \in {"left", "gone"}
             /\ state' = [state EXCEPT ![r] = "gone"]

Next == \E r \in Rank : \/ Prepare(r) \/ SwitchOn(r) \/ StayOff(r)
                        \/ Leave(r) \/ GiveUp(r)

Spec == Init /\ [][Next]_state
=============================================================================
