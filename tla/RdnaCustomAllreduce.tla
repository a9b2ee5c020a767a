------------------------- MODULE RdnaCustomAllreduce -------------------------
(***************************************************************************)
(* The life of the communicator of                                         *)
(* patches/rc3/allreduce/rdna_custom_all_reduce.py: construction, use from *)
(* captured graphs, and close, on every rank of a tensor-parallel group.   *)
(*                                                                         *)
(* The ranks are processes that meet in collectives on one process group.  *)
(* torch.distributed matches collectives by the order in which each rank   *)
(* makes them, not by call site: log[r] is the sequence of those rank r    *)
(* has entered, and its n-th completes when every rank has entered an      *)
(* n-th.  A rank that returns, raises or skips one shifts its later ones   *)
(* against everybody else's.                                               *)
(*                                                                         *)
(* Between collectives a rank's steps touch only its own state; each is    *)
(* one action together with the collective it then enters.  Any of the     *)
(* try blocks may fail.  Kernels are the abstract all-reduce of AllReduce: *)
(* one finishes on a rank only when every rank has launched it.            *)
(***************************************************************************)
EXTENDS Naturals, Sequences, FiniteSets

CONSTANTS
    Rank,          \* ranks of the group
    Peers,         \* Peers[r]: get_required_peer_ranks(r), in its order
    Arch,          \* Arch[r]: architecture of rank r's GPU
    Gpu,           \* Gpu[r]: its uuid
    Supported,     \* _SUPPORTED_ARCHES
    CloseMayFail,  \* TRUE: hipIpcCloseMemHandle and hipFree may return errors
    MaxCalls,      \* bound: graph launches explored
    MaxLog         \* bound: collectives a rank enters

ASSUME GroupAssumption ==
    /\ IsFiniteSet(Rank) /\ Rank # {}
    /\ \A r \in Rank : Peers[r] \in Seq(Rank \ {r})
    /\ MaxCalls \in Nat /\ MaxLog \in Nat

VARIABLES
    pc,        \* pc[r]: the collective rank r is in, or where it stands
    log,       \* log[r]: collectives entered, each with what it contributed
    hooked,    \* CudaCommunicator.__init__ constructs it, not a script
    option,    \* option[r]: FENSTONE_RDNA_AR on rank r
    eligible,  \* 2, 4 or 8 ranks, all of one node
    disabled,  \* self.disabled
    closed,    \* self._closed
    shared,    \* rank r's IPC buffer: "none", "allocated", "freed"
    mapped,    \* mapped[r]: peers whose buffer rank r has mapped, in order (_opened)
    context,   \* self._context is set
    held,      \* the constructor has given CudaCommunicator an enabled one
    work,      \* graph launches every rank makes before it closes
    calls,     \* calls[r]: kernels launched by rank r
    done       \* done[r]: kernels finished on rank r

vars == <<pc, log, hooked, option, eligible, disabled, closed, shared, mapped, context,
          held, work, calls, done>>

-----------------------------------------------------------------------------
(* Collectives.                                                            *)

Enter(r, site, value) ==
    log' = [log EXCEPT ![r] = Append(@, [site |-> site, value |-> value])]

(* The collective rank r is in has completed: everyone has entered it.     *)
Gathered(r) == \A q \in Rank : Len(log[q]) >= Len(log[r])

(* What it returns.                                                        *)
Values(r) == {log[q][Len(log[r])].value : q \in Rank}

(* Bug: a rank trusts its own report.                                      *)
AgreeOwn(r) == log[r][Len(log[r])].value = "ok"

(* _agree: no rank reports an error.                                       *)
Agree(r) == Values(r) = {"ok"}

-----------------------------------------------------------------------------
Init ==
    /\ pc = [r \in Rank |-> "new"]
    /\ log = [r \in Rank |-> <<>>]
    /\ option \in [Rank -> BOOLEAN]
    /\ hooked \in {TRUE} \cup {\A r \in Rank : option[r]}   \* all set: no difference
    /\ eligible \in BOOLEAN
    /\ disabled = [r \in Rank |-> TRUE]
    /\ closed = [r \in Rank |-> TRUE]
    /\ shared = [r \in Rank |-> "none"]
    /\ mapped = [r \in Rank |-> <<>>]
    /\ context = [r \in Rank |-> FALSE]
    /\ held = [r \in Rank |-> FALSE]
    /\ work \in 0 .. MaxCalls
    /\ calls = [r \in Rank |-> 0]
    /\ done = [r \in Rank |-> 0]

Goto(r, place) == pc' = [pc EXCEPT ![r] = place]

unchangedResources == UNCHANGED <<closed, shared, mapped, context>>
unchangedUse       == UNCHANGED <<hooked, option, eligible, held, work, calls, done>>

(* CudaCommunicator.__init__ constructs the communicator only where the    *)
(* option is set.                                                          *)
Skip(r) ==
    /\ pc[r] = "new"
    /\ hooked /\ ~ option[r]
    /\ Goto(r, "absent")
    /\ UNCHANGED <<log, disabled>> /\ unchangedResources /\ unchangedUse

Construct(r) ==
    /\ pc[r] = "new"
    /\ hooked => option[r]
    /\ Enter(r, "settings", option[r])
    /\ Goto(r, "settings")
    /\ UNCHANGED disabled /\ unchangedResources /\ unchangedUse

(* Every rank must be enabled, and the group of a size and on one node:    *)
(* in_the_same_node_as, itself collective and the same everywhere, counts  *)
(* with the gather before it.  Then the library is loaded and the GPU      *)
(* identified; where that fails the rank reports an error, <<>>.           *)
Identify(r) ==
    /\ pc[r] = "settings" /\ Gathered(r)
    /\ IF Values(r) # {TRUE} \/ ~ eligible
       THEN Goto(r, "off") /\ UNCHANGED log
       ELSE \E identity \in {<<>>} \cup
                   (IF Arch[r] \in Supported THEN {<<Arch[r], Gpu[r]>>} ELSE {}) :
              /\ Enter(r, "identity", identity)
              /\ Goto(r, "identity")
    /\ UNCHANGED disabled /\ unchangedResources /\ unchangedUse

(* One architecture, and distinct GPUs.                                    *)
Compatible(r) ==
    /\ <<>> \notin Values(r)
    /\ Cardinality({identity[1] : identity \in Values(r)}) = 1
    /\ Cardinality({identity[2] : identity \in Values(r)}) = Cardinality(Rank)

ProbeAccess(r) ==
    /\ pc[r] = "identity" /\ Gathered(r)
    /\ IF ~ Compatible(r)
       THEN Goto(r, "off") /\ UNCHANGED log
       ELSE \E report \in {"ok", "error"} :
              /\ Enter(r, "access", report)
              /\ Goto(r, "access")
    /\ UNCHANGED disabled /\ unchangedResources /\ unchangedUse

(* The buffer, then the tensor for rank_data: the second may fail when the *)
(* first has succeeded.                                                    *)
Allocate(r) ==
    /\ pc[r] = "access" /\ Gathered(r)
    /\ IF ~ Agree(r)
       THEN /\ Goto(r, "off")
            /\ UNCHANGED <<log, closed, shared>>
       ELSE /\ closed' = [closed EXCEPT ![r] = FALSE]
            /\ \E report \in {"ok", "error"}, buffer \in {"none", "allocated"} :
                 /\ report = "ok" => buffer = "allocated"
                 /\ shared' = [shared EXCEPT ![r] = buffer]
                 /\ Enter(r, "allocate", report)
            /\ Goto(r, "allocate")
    /\ UNCHANGED <<disabled, mapped, context>> /\ unchangedUse

(* Bug: a failed allocation is reported, but what was allocated stays.     *)
ExchangeHandlesLeaky(r) ==
    /\ pc[r] = "allocate" /\ Gathered(r)
    /\ IF ~ Agree(r)
       THEN Goto(r, "off") /\ UNCHANGED log
       ELSE Enter(r, "handles", "handle") /\ Goto(r, "handles")
    /\ UNCHANGED disabled /\ unchangedResources /\ unchangedUse

(* close() on failure: nothing runs, so it begins with its first barrier.  *)
ExchangeHandles(r) ==
    /\ pc[r] = "allocate" /\ Gathered(r)
    /\ IF ~ Agree(r)
       THEN Goto(r, "closing") /\ UNCHANGED log
       ELSE Enter(r, "handles", "handle") /\ Goto(r, "handles")
    /\ UNCHANGED disabled /\ unchangedResources /\ unchangedUse

(* Bug: a rank that fails closes at once instead of reporting.             *)
OpenPeersRaises(r) ==
    /\ pc[r] = "handles" /\ Gathered(r)
    /\ \/ /\ mapped' = [mapped EXCEPT ![r] = Peers[r]]
          /\ context' = [context EXCEPT ![r] = TRUE]
          /\ Enter(r, "open", "ok")
          /\ Goto(r, "open")
       \/ /\ Goto(r, "closing")
          /\ UNCHANGED <<log, mapped, context>>
    /\ UNCHANGED <<disabled, closed, shared>> /\ unchangedUse

(* Map the peers' buffers one by one, create the context, register the     *)
(* payloads; any of these may fail after the ones before it succeeded.     *)
OpenPeers(r) ==
    /\ pc[r] = "handles" /\ Gathered(r)
    /\ \E report \in {"ok", "error"}, opened \in 0 .. Len(Peers[r]), built \in BOOLEAN :
         /\ report = "ok" => built
         /\ built => opened = Len(Peers[r])
         /\ mapped' = [mapped EXCEPT ![r] = SubSeq(Peers[r], 1, opened)]
         /\ context' = [context EXCEPT ![r] = built]
         /\ Enter(r, "open", report)
    /\ Goto(r, "open")
    /\ UNCHANGED <<disabled, closed, shared>> /\ unchangedUse

Enable(r) ==
    /\ pc[r] = "open" /\ Gathered(r)
    /\ IF Agree(r)
       THEN /\ Goto(r, "ready")
            /\ disabled' = [disabled EXCEPT ![r] = FALSE]
            /\ held' = [held EXCEPT ![r] = TRUE]
       ELSE Goto(r, "closing") /\ UNCHANGED <<disabled, held>>
    /\ UNCHANGED <<log, hooked, option, eligible, work, calls, done>> /\ unchangedResources

-----------------------------------------------------------------------------
(* Use: replayed graphs launch the kernel; every rank replays the same.    *)

Replay(r) ==
    /\ pc[r] = "ready" /\ ~ disabled[r]
    /\ calls[r] < work
    /\ calls' = [calls EXCEPT ![r] = @ + 1]
    /\ UNCHANGED <<pc, log, hooked, option, eligible, disabled, held, work, done>>
    /\ unchangedResources

Finish(r) ==
    /\ done[r] < calls[r]
    /\ \A q \in Rank : calls[q] > done[r]
    /\ done' = [done EXCEPT ![r] = @ + 1]
    /\ UNCHANGED <<pc, log, hooked, option, eligible, disabled, held, work, calls>>
    /\ unchangedResources

-----------------------------------------------------------------------------
(* close().                                                                *)

(* destroy() calls close() when the rank's work has been launched.         *)
Close(r) ==
    /\ pc[r] = "ready"
    /\ ~ closed[r]
    /\ calls[r] = work
    /\ disabled' = [disabled EXCEPT ![r] = TRUE]
    /\ Goto(r, "closing")
    /\ UNCHANGED log /\ unchangedResources /\ unchangedUse

(* Bug: the device is not synchronised.                                    *)
QuiesceUnsynchronized(r) ==
    /\ pc[r] = "closing"
    /\ Enter(r, "quiet", "barrier")
    /\ Goto(r, "quiet")
    /\ UNCHANGED disabled /\ unchangedResources /\ unchangedUse

(* synchronize(), then the first barrier.                                  *)
Quiesce(r) ==
    /\ pc[r] = "closing"
    /\ done[r] = calls[r]
    /\ Enter(r, "quiet", "barrier")
    /\ Goto(r, "quiet")
    /\ UNCHANGED disabled /\ unchangedResources /\ unchangedUse

(* dispose, unmap every peer, then the second barrier.                     *)
Unmap(r) ==
    /\ pc[r] = "quiet" /\ Gathered(r)
    /\ context' = [context EXCEPT ![r] = FALSE]
    /\ mapped' = [mapped EXCEPT ![r] = <<>>]
    /\ Enter(r, "unmapped", "barrier")
    /\ Goto(r, "unmapped")
    /\ UNCHANGED <<disabled, closed, shared>> /\ unchangedUse

(* close_mem_handle raises on the first mapping it cannot close: the rest  *)
(* stay, _opened is not cleared, and the second barrier is not reached.    *)
UnmapFails(r) ==
    /\ CloseMayFail
    /\ pc[r] = "quiet" /\ Gathered(r)
    /\ context' = [context EXCEPT ![r] = FALSE]
    /\ \E n \in DOMAIN mapped[r] :
         mapped' = [mapped EXCEPT ![r] = SubSeq(@, n, Len(@))]
    /\ Goto(r, "raised")
    /\ UNCHANGED <<log, disabled, closed, shared>> /\ unchangedUse

(* destroy() did not get to drop the communicator and _closed is still     *)
(* False: a second destroy() closes again from the start.  (A close that   *)
(* raised inside the constructor left nothing to destroy.)                 *)
CloseAgain(r) ==
    /\ pc[r] \in {"raised", "unfreed"}
    /\ held[r] /\ ~ closed[r]
    /\ Len(log[r]) < MaxLog
    /\ Goto(r, "closing")
    /\ UNCHANGED <<log, disabled>> /\ unchangedResources /\ unchangedUse

(* Bug: the exporter does not wait for the second barrier.                 *)
FreeEarly(r) ==
    /\ pc[r] = "unmapped"
    /\ shared' = [shared EXCEPT ![r] = IF @ = "allocated" THEN "freed" ELSE @]
    /\ closed' = [closed EXCEPT ![r] = TRUE]
    /\ Goto(r, "closed")
    /\ UNCHANGED <<log, disabled, mapped, context>> /\ unchangedUse

(* After the second barrier, free the exported buffer.                     *)
Free(r) ==
    /\ pc[r] = "unmapped" /\ Gathered(r)
    /\ shared' = [shared EXCEPT ![r] = IF @ = "allocated" THEN "freed" ELSE @]
    /\ closed' = [closed EXCEPT ![r] = TRUE]
    /\ Goto(r, "closed")
    /\ UNCHANGED <<log, disabled, mapped, context>> /\ unchangedUse

(* free_shared_buffer raises: the buffer stays, and _closed is still False.*)
FreeFails(r) ==
    /\ CloseMayFail
    /\ pc[r] = "unmapped" /\ Gathered(r)
    /\ shared[r] = "allocated"
    /\ Goto(r, "unfreed")
    /\ UNCHANGED <<log, disabled>> /\ unchangedResources /\ unchangedUse

-----------------------------------------------------------------------------
Step(r) == \/ Skip(r) \/ Construct(r) \/ Identify(r) \/ ProbeAccess(r)
           \/ Allocate(r) \/ ExchangeHandles(r) \/ OpenPeers(r) \/ Enable(r)
           \/ Replay(r) \/ Finish(r)
           \/ Close(r) \/ Quiesce(r) \/ Unmap(r) \/ UnmapFails(r)
           \/ CloseAgain(r) \/ Free(r) \/ FreeFails(r)

Ended(r) == pc[r] \in {"absent", "off", "closed"}

Terminated == (\A r \in Rank : Ended(r)) /\ UNCHANGED vars

Next == (\E r \in Rank : Step(r)) \/ Terminated

(* Some process or GPU that can go on does: less than the ranks give,      *)
(* which all keep running.                                                 *)
Fairness == WF_vars(\E r \in Rank : Step(r))

Spec == Init /\ [][Next]_vars
FairSpec == Spec /\ Fairness

-----------------------------------------------------------------------------
(* Properties.                                                             *)

(* A second destroy() has begun on a rank whose first raised: nothing that *)
(* is matched by order means much from then on.                            *)
Retried == \E r \in Rank : \E m, n \in DOMAIN log[r] :
               m < n /\ log[r][m].site = "quiet" /\ log[r][n].site = "quiet"

(* "Construct and close this communicator together": whichever steps fail  *)
(* on whichever ranks, until a failed close is repeated the collectives    *)
(* the group matches by order are the same call on every rank.             *)
CollectivesMatch ==
    ~ Retried => \A r, q \in Rank : \A n \in DOMAIN log[r] \cap DOMAIN log[q] :
        log[r][n].site = log[q][n].site

(* A kernel in flight only touches live memory: whatever the other ranks   *)
(* have meanwhile begun to close, no buffer it writes to or reads is gone. *)
KernelMemoryLive ==
    \A r \in Rank : done[r] < calls[r] =>
        /\ shared[r] = "allocated"
        /\ mapped[r] = Peers[r]
        /\ \A n \in DOMAIN Peers[r] : shared[Peers[r][n]] = "allocated"

(* "Exporters may free their allocation only after all peers unmap it."    *)
(* So it is until a failed close is repeated.                              *)
ExportersFreeLast ==
    ~ Retried => \A r \in Rank : \A n \in DOMAIN mapped[r] : shared[mapped[r][n]] # "freed"

(* A communicator that is off or closed holds nothing.                     *)
NothingLeaks ==
    \A r \in Rank : Ended(r) =>
        /\ shared[r] # "allocated" /\ mapped[r] = <<>> /\ ~ context[r]

(* The ranks switch on together or not at all, and give their buffers up   *)
(* together: the group-wide switch of GroupSwitch.  A rank's report of     *)
(* whether it has opened its peers, its sixth collective, is its vote.     *)
Reported(r) == Len(log[r]) >= 6 /\ log[r][6].site = "open"
Refused(r)  == Reported(r) /\ log[r][6].value = "error"

Standing(r) ==
    IF pc[r] \in {"off", "absent"} \/ Refused(r) THEN "off"
    ELSE IF ~ Reported(r) THEN
        IF pc[r] \in {"closing", "quiet", "unmapped", "unfreed", "closed"} THEN "off"
        ELSE "undecided"
    ELSE IF pc[r] = "open" THEN "prepared"
    ELSE IF ~ disabled[r] THEN "on"
    ELSE IF ~ held[r] THEN "off"
    ELSE IF pc[r] = "closed" THEN "gone" ELSE "left"

Switch == INSTANCE GroupSwitch WITH state <- [r \in Rank |-> Standing(r)]

Implements == Switch!Spec

(* Whatever else fails, ranks that all construct the communicator or all   *)
(* skip it come to an end, off or closed, unless a close raises.           *)
EveryoneEnds ==
    \/ hooked /\ Cardinality({option[r] : r \in Rank}) > 1
    \/ <>(\/ \A r \in Rank : Ended(r)
          \/ \E r \in Rank : pc[r] \in {"raised", "unfreed"})
=============================================================================
