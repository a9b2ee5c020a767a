----------------------- MODULE RdnaCustomAllreduceInv -----------------------
(***************************************************************************)
(* The inductive invariant of RdnaCustomAllreduce.                         *)
(*                                                                         *)
(* The argument.  A rank leaves a collective only when everybody has       *)
(* entered as many (InStep), so the decisions taken after the fourth and   *)
(* the sixth are taken on the same reports everywhere (Decided, Enabled).  *)
(* The reports say what a rank holds (Holdings): a rank that runs kernels  *)
(* has all its peers mapped and has not entered its seventh collective;    *)
(* then nobody is past that one, and nobody has unmapped or freed.         *)
(***************************************************************************)
EXTENDS RdnaCustomAllreduce

Opening == <<"settings", "identity", "access", "allocate">>

Sites == {"settings", "identity", "access", "allocate", "handles", "open", "quiet", "unmapped"}

Places == {"new", "absent", "off", "ready", "closing", "raised", "unfreed", "closed"}

(* Where both barriers of a close are behind a rank.                       *)
Passed == {"unmapped", "unfreed", "closed"}

Reports == BOOLEAN \cup {"ok", "error", "handle", "barrier", <<>>}
               \cup {<<Arch[r], Gpu[r]>> : r \in Rank}

Entries == [site : Sites, value : Reports]

TypeOK ==
    /\ pc \in [Rank -> Sites \cup Places]
    /\ log \in [Rank -> Seq(Entries)]
    /\ {hooked, eligible} \subseteq BOOLEAN /\ option \in [Rank -> BOOLEAN]
    /\ disabled \in [Rank -> BOOLEAN] /\ closed \in [Rank -> BOOLEAN]
    /\ context \in [Rank -> BOOLEAN] /\ held \in [Rank -> BOOLEAN]
    /\ shared \in [Rank -> {"none", "allocated", "freed"}]
    /\ mapped \in [Rank -> Seq(Rank)]
    /\ work \in Nat /\ calls \in [Rank -> Nat] /\ done \in [Rank -> Nat]

(* Rank r has got past the allocation on every rank, and so opens peers.   *)
Long(r) == Len(log[r]) >= 5 /\ log[r][5].site = "handles"

(* Where a rank stands says how many collectives it has entered.           *)
Progress ==
    \A r \in Rank : LET n == Len(log[r]) IN
        /\ pc[r] \in {"new", "absent"} => n = 0
        /\ pc[r] = "off" => n \in 1 .. 3
        /\ pc[r] = "settings" => n = 1
        /\ pc[r] = "identity" => n = 2
        /\ pc[r] = "access" => n = 3
        /\ pc[r] = "allocate" => n = 4
        /\ pc[r] = "handles" => n = 5 /\ Long(r)
        /\ pc[r] \in {"open", "ready"} => n = 6 /\ Long(r)
        /\ pc[r] = "closing" => n = 4 \/ (n >= 6 /\ Long(r))
        /\ pc[r] = "quiet" => (n = 5 /\ ~ Long(r)) \/ (n >= 7 /\ Long(r))
        /\ pc[r] = "raised" => n >= 7 /\ Long(r)
        /\ pc[r] \in Passed => (n = 6 /\ ~ Long(r)) \/ (n >= 8 /\ Long(r))

(* Which collectives they were.  Only a close that is repeated makes the   *)
(* last two kinds more than once, the second of them after the first.      *)
Itinerary ==
    \A r \in Rank : \A n \in DOMAIN log[r] : LET site == log[r][n].site IN
        /\ n <= 4 => site = Opening[n]
        /\ n = 5 => site = IF Long(r) THEN "handles" ELSE "quiet"
        /\ n = 6 => site = IF Long(r) THEN "open" ELSE "unmapped"
        /\ n >= 7 => \/ site = "quiet"
                     \/ site = "unmapped" /\ n >= 8 /\ log[r][n - 1].site = "quiet"
        /\ n >= 7 /\ n = Len(log[r]) =>
             /\ pc[r] \in {"quiet", "raised"} => site = "quiet"
             /\ pc[r] \in Passed => site = "unmapped"

(* A rank has entered at most one collective that another has not, and     *)
(* none when it has left its last one.                                     *)
InStep ==
    \A r, q \in Rank :
        /\ Len(log[q]) >= Len(log[r]) - 1
        /\ pc[r] \in {"off", "ready", "closing", "raised", "unfreed", "closed"} =>
             Len(log[q]) >= Len(log[r])

(* Past the fourth: the allocation succeeded everywhere, or not.           *)
Decided ==
    \A r \in Rank :
        /\ Long(r) => \A q \in Rank : log[q][4].value = "ok"
        /\ (Len(log[r]) >= 5 \/ pc[r] = "closing") /\ ~ Long(r) =>
             \E q \in Rank : log[q][4].value # "ok"

(* Past the sixth: every rank has mapped its peers, or not.                *)
Enabled ==
    \A r \in Rank :
        /\ held[r] => Long(r) /\ Len(log[r]) >= 6 /\ pc[r] # "open"
        /\ held[r] => \A q \in Rank : Len(log[q]) >= 6 /\ log[q][6].value = "ok"
        /\ Long(r) /\ (Len(log[r]) >= 7 \/ pc[r] = "closing") /\ ~ held[r] =>
             \E q \in Rank : log[q][6].value # "ok"
        /\ pc[r] = "ready" => held[r]
        /\ disabled[r] = (pc[r] # "ready")

(* The sixth, where it is the report on the peers, says yes or no.         *)
Answers ==
    \A r \in Rank :
        Len(log[r]) >= 6 /\ Long(r) => log[r][6].value \in {"ok", "error"}

(* What a rank holds is what it has reported, until it gives it up.        *)
Holdings ==
    \A r \in Rank : LET n == Len(log[r]) IN
        /\ n < 4 => shared[r] = "none"
        /\ n >= 4 /\ log[r][4].value = "ok" /\ pc[r] # "closed" => shared[r] = "allocated"
        /\ IF pc[r] = "closed" THEN shared[r] # "allocated" ELSE shared[r] # "freed"
        /\ n < 6 \/ ~ Long(r) \/ pc[r] \in Passed \/ log[r][n].site = "unmapped" =>
             mapped[r] = <<>> /\ ~ context[r]
        /\ n = 6 /\ Long(r) /\ log[r][6].value = "ok" => mapped[r] = Peers[r]

(* Kernels run only between the sixth and the seventh.                     *)
KernelsRun ==
    \A r \in Rank :
        /\ done[r] <= calls[r]
        /\ done[r] < calls[r] =>
             held[r] /\ Len(log[r]) = 6 /\ pc[r] \in {"ready", "closing"}

IInv == /\ TypeOK /\ Progress /\ Itinerary /\ InStep
        /\ Decided /\ Enabled /\ Answers /\ Holdings /\ KernelsRun
=============================================================================
