------------------------- MODULE EngineCoreProcInv -------------------------
(***************************************************************************)
(* The inductive invariant of EngineCoreProc, from which follow AbortsHold,*)
(* NoneForgotten, PauseHolds and, for patient clients, ResidentToRun.      *)
(***************************************************************************)
EXTENDS EngineCoreProc

Messages ==
    [type : {"add", "abort"}, id : Requests]
        \cup [type : {"utility"}, id : Calls]
        \cup [type : {"wakeup", "failed"}, id : {Nobody}]

Before   == {"unsent", "sent", "waiting", "running"}   \* its end is to come
Statuses == Before \cup {"finished", "rejected"}

(* The values the variables take; a request that has not ended has steps   *)
(* left, and the engine waits for a batch that is there.                   *)
TypeOK ==
    /\ pc \in {"top", "input", "clear", "get", "more", "wait", "exited", "dead"}
    /\ inputs \in Seq(Messages)
    /\ aborts \in SUBSET Requests
    /\ posting \in Requests \cup {Nobody}
    /\ shutdown \in {"running", "requested", "shutting"}
    /\ {waking, drain, failed, flush, asleep, calm} \subseteq BOOLEAN
    /\ status \in [Requests -> Statuses]
    /\ left \in [Requests -> Nat]
    /\ \A r \in Requests : status[r] \in Before => left[r] # 0
    /\ paused \in {"no", "new", "all"}
    /\ queue \in Seq([reqs : SUBSET Requests, ran : BOOLEAN])
    /\ pc = "wait" => queue # <<>>
    /\ idlers \in SUBSET Calls
    /\ call \in [Calls -> [op : Utilities \cup {Nothing}, answer : BOOLEAN]]
    /\ answers \in [Requests -> Nat]
    /\ gone \in SUBSET Requests

-----------------------------------------------------------------------------
(* Requests.                                                               *)

(* The end of r is on its way behind message i.                            *)
AbortComes(r, i) ==
    \/ posting = r
    \/ \E j \in DOMAIN inputs : j > i /\ inputs[j] = [type |-> "abort", id |-> r]

(* A request is sent once, and its abort only after it: the message that   *)
(* makes it live is followed by the one that ends it.                      *)
AddsFollowed ==
    \A i \in DOMAIN inputs : inputs[i].type = "add" =>
        /\ status[inputs[i].id] = "sent"
        /\ \A j \in DOMAIN inputs : inputs[j] = inputs[i] => j = i
        /\ inputs[i].id \in gone => AbortComes(inputs[i].id, i)

(* What is aborted has been sent, and is not live once the message is      *)
(* handled; nothing else is aborted.                                       *)
AbortsEnd ==
    \A r \in gone : status[r] # "unsent" /\ (AbortComes(r, 0) \/ ~ Live(r) \/ Ended)

OnlyGoneAborted ==
    /\ aborts \subseteq gone
    /\ posting # Nobody => posting \in gone
    /\ \A i \in DOMAIN inputs : inputs[i].type = "abort" => inputs[i].id \in gone

(* A client is told the end of its request when the request ends, and is   *)
(* told nothing only if it has asked for that end.                         *)
ToldOnce ==
    \A r \in Requests :
        /\ answers[r] <= 1
        /\ status[r] \in Before => answers[r] = 0
        /\ status[r] \notin Before /\ r \notin gone => answers[r] = 1

(* A shutdown that does not drain has ended everything, and nothing starts *)
(* any more; one that drains exits when all that counts has ended.         *)
NothingStarts ==
    /\ shutdown = "shutting" /\ ~ drain => \A r \in Requests : ~ Live(r)
    /\ pc = "exited" =>
         /\ shutdown = "shutting"
         /\ paused = "no" => \A r \in Requests : ~ Live(r)

(* A request the engine has not seen is still in its queue.                *)
SentUnread == \A r \in Requests : status[r] = "sent" => Unread(r)

RequestInv ==
    /\ AddsFollowed /\ AbortsEnd /\ OnlyGoneAborted /\ SentUnread
    /\ ToldOnce /\ NothingStarts

-----------------------------------------------------------------------------
(* Pauses and sleep.                                                       *)

(* Each call is one message, until it is handled; a pause then waits, or   *)
(* is answered.                                                            *)
CallsOnce ==
    /\ \A i \in DOMAIN inputs : inputs[i].type = "utility" =>
         LET c == inputs[i].id
         IN  /\ call[c].op # Nothing /\ ~ call[c].answer /\ c \notin idlers
             /\ \A j \in DOMAIN inputs : inputs[j] = inputs[i] => j = i
    /\ \A c \in idlers : call[c].op # Nothing /\ ~ call[c].answer
    /\ \A c \in Calls : call[c].answer => call[c].op # Nothing

(* A sleep that is not answered is behind every wake_up and resume that    *)
(* has been sent, and a resume finds the executor awake.                   *)
WakesFirst ==
    \A i \in DOMAIN inputs :
        inputs[i].type = "utility" /\ call[inputs[i].id].op \in Wakes =>
            /\ \A c \in Calls : Sleeps(call[c].op) /\ ~ call[c].answer =>
                 \E j \in DOMAIN inputs : j > i /\ inputs[j] = [type |-> "utility", id |-> c]
            /\ call[inputs[i].id].op = "resume" => ~ asleep

(* Who waits to fall asleep has paused the scheduler, and an executor that *)
(* sleeps has nothing to do: what ran was preempted, for its blocks went.  *)
SleepersPaused ==
    /\ \A c \in idlers : Sleeps(call[c].op) => paused # "no"
    /\ asleep => Still /\ Ids("running") = {}

SleepInv == WakesFirst /\ SleepersPaused

(* Only what is said of sleep needs clients that are patient.              *)
IInv == TypeOK /\ RequestInv /\ CallsOnce /\ PauseHolds /\ (Patient => SleepInv)
=============================================================================
