--------------------------- MODULE EngineCoreProc ---------------------------
(***************************************************************************)
(* The process around the engine core (v1/engine/core.py, EngineCoreProc): *)
(* an input thread that fills input_queue and aborts_queue, the busy loop  *)
(* that empties them between steps, pauses that are answered when the      *)
(* engine is idle, sleep and wake_up of the executor, signals, and an      *)
(* executor that may fail.                                                 *)
(*                                                                         *)
(* BatchQueue models what a step does to tokens; here a request is a       *)
(* number of steps, and what matters is who is told what, and when.        *)
(***************************************************************************)
EXTENDS Naturals, Sequences, FiniteSets

CONSTANTS
    Requests,    \* requests clients may send, numbered as they are sent
    Calls,       \* utility calls clients may send, likewise
    Ops,         \* the methods they call: see Utilities
    Steps,       \* steps until each request is finished
    QueueSize,   \* batch_queue_size
    MaxRunning,  \* max_num_running_reqs
    Aborted,     \* bound: requests clients may abort
    MaxInputs,   \* bound: messages in input_queue when another is sent
    Late,        \* FALSE, a bound: from the signal on clients only abort, and
                 \*   the executor does not fail
    Patient      \* clients wake up and resume only as Sensible says

(* pause_scheduler in its three modes, with clear_cache (pause) or without *)
(* (hold, which sleep at level 0 is too); sleep at level 1 or more, which  *)
(* clears them; resume_scheduler; wake_up of everything, or of some tags.  *)
Aborting == {"pause_abort", "hold_abort", "sleep_abort"}
Waiting  == {"pause_wait", "hold_wait", "sleep_wait"}
Keeping  == {"pause_keep", "hold_keep", "sleep_keep"}
Wakes    == {"resume", "wake", "wake_part"}

Utilities == Aborting \cup Waiting \cup Keeping \cup Wakes

Sleeps(op) == op \in {"sleep_abort", "sleep_wait", "sleep_keep"}
Clears(op) == op \notin {"hold_abort", "hold_wait", "hold_keep"}

ASSUME ProcAssumption ==
    /\ Ops \subseteq Utilities
    /\ {MaxRunning, MaxInputs} \subseteq Nat \ {0}
    /\ QueueSize \in Nat \ {0, 1}
    /\ Steps \in [Requests -> Nat \ {0}]
    /\ Aborted \subseteq Requests
    /\ Requests \subseteq Nat \ {0} /\ Calls \subseteq Nat
    /\ {Late, Patient} \subseteq BOOLEAN

VARIABLES
    pc,        \* where the engine thread is
    inputs,    \* input_queue
    aborts,    \* aborts_queue
    posting,   \* an abort the input thread has put in aborts_queue only
    shutdown,  \* shutdown_state
    waking,    \* the signal callback's thread is to put WAKEUP
    drain,     \* shutdown_timeout # 0, chosen where it is read
    failed,    \* the executor has failed
    status,    \* Scheduler.requests and the queue each is in
    left,      \* steps until each request is finished
    flush,     \* Scheduler.finished_req_ids is not empty
    paused,    \* Scheduler.pause_state
    queue,     \* batch_queue, oldest first
    idlers,    \* _idle_state_callbacks: calls a pause has yet to answer
    asleep,    \* model_executor.is_sleeping
    call,      \* what clients called, and whether they have the answer
    answers,   \* outputs sent that end each request
    gone,      \* history: requests clients have aborted
    calm       \* history: the answer to a pause is in force

clients   == <<call, gone>>
threads   == <<inputs, aborts, posting, waking>>
scheduler == <<status, left, flush, paused>>
vars == <<pc, threads, shutdown, drain, failed, scheduler, queue, idlers,
          asleep, clients, answers, calm>>

Nothing == "nothing"   \* no call yet
Nobody  == 0           \* no request

Live(r) == status[r] \in {"waiting", "running"}
InFlight == UNION {queue[i].reqs : i \in DOMAIN queue}
Ids(state) == {r \in Requests : status[r] = state}

-----------------------------------------------------------------------------
(* get_num_unfinished_requests, has_requests and has_work, for a scheduler *)
(* with requests in states s, finished ones to report or not, and paused   *)
(* as p says.                                                              *)
Counted(s, p) ==
    {r \in Requests : \/ s[r] = "running" /\ p # "all"
                      \/ s[r] = "waiting" /\ p = "no"}

HasRequests(s, f, p) == Counted(s, p) # {} \/ f

(* Bug: the batches under way are forgotten.                               *)
HasWorkScheduled(s, f, p) == HasRequests(s, f, p)

HasWork(s, f, p) == HasRequests(s, f, p) \/ queue # <<>>

Busy == HasWork(status, flush, paused)

Ended == pc \in {"exited", "dead"}

-----------------------------------------------------------------------------
Init ==
    /\ pc = "top"
    /\ inputs = <<>> /\ aborts = {} /\ posting = Nobody /\ waking = FALSE
    /\ shutdown = "running" /\ drain = FALSE /\ failed = FALSE
    /\ status = [r \in Requests |-> "unsent"]
    /\ left = Steps
    /\ flush = FALSE /\ paused = "no"
    /\ queue = <<>> /\ idlers = {} /\ asleep = FALSE
    /\ call = [c \in Calls |-> [op |-> Nothing, answer |-> FALSE]]
    /\ answers = [r \in Requests |-> 0]
    /\ gone = {} /\ calm = FALSE

-----------------------------------------------------------------------------
(* The input thread (process_input_sockets): one message at a time.        *)

SendAdd(r) ==
    /\ posting = Nobody /\ status[r] = "unsent"
    /\ \A q \in Requests : q < r => status[q] # "unsent"
    /\ status' = [status EXCEPT ![r] = "sent"]
    /\ inputs' = Append(inputs, [type |-> "add", id |-> r])
    /\ UNCHANGED <<pc, aborts, posting, waking, shutdown, drain, failed, left, flush,
                   paused, queue, idlers, asleep, clients, answers, calm>>

(* "Aborts are added to *both* queues": first to the eager one, ...        *)
SendAbort(r) ==
    /\ posting = Nobody /\ status[r] # "unsent" /\ r \notin gone
    /\ gone' = gone \cup {r}
    /\ aborts' = aborts \cup {r}
    /\ posting' = r
    /\ UNCHANGED <<pc, inputs, waking, shutdown, drain, failed, scheduler, queue,
                   idlers, asleep, call, answers, calm>>

(* Bug: aborts are only handled eagerly.                                   *)
PostAbortNever ==
    /\ ~ Ended /\ posting # Nobody
    /\ posting' = Nobody
    /\ UNCHANGED <<pc, inputs, aborts, waking, shutdown, drain, failed, scheduler,
                   queue, idlers, asleep, clients, answers, calm>>

(* ... then behind the other messages.                                     *)
PostAbort ==
    /\ ~ Ended /\ posting # Nobody
    /\ inputs' = Append(inputs, [type |-> "abort", id |-> posting])
    /\ posting' = Nobody
    /\ UNCHANGED <<pc, aborts, waking, shutdown, drain, failed, scheduler, queue,
                   idlers, asleep, clients, answers, calm>>

(* What the code does not ask of its clients, but ResidentToRun does: to   *)
(* wake up or resume only when every sleep has been answered, and to       *)
(* resume only an executor that is awake.                                  *)
Sensible(op) ==
    Patient /\ op \in Wakes =>
        /\ \A c \in Calls : Sleeps(call[c].op) => call[c].answer
        /\ op = "resume" => ~ asleep

SendCall(c, op) ==
    /\ posting = Nobody /\ call[c].op = Nothing /\ Sensible(op)
    /\ \A d \in Calls : d < c => call[d].op # Nothing
    /\ call' = [call EXCEPT ![c].op = op]
    /\ inputs' = Append(inputs, [type |-> "utility", id |-> c])
    /\ UNCHANGED <<pc, aborts, posting, waking, shutdown, drain, failed, scheduler,
                   queue, idlers, asleep, gone, answers, calm>>

(* SIGTERM or SIGINT: the handler, and the thread it triggers because it   *)
(* may not touch the queue itself.                                         *)
Signal ==
    /\ shutdown = "running"
    /\ shutdown' = "requested"
    /\ waking' = TRUE
    /\ UNCHANGED <<pc, inputs, aborts, posting, drain, failed, scheduler, queue,
                   idlers, asleep, clients, answers, calm>>

(* Bug: the callback puts nothing.                                         *)
WakeupNever ==
    /\ ~ Ended /\ waking
    /\ waking' = FALSE
    /\ UNCHANGED <<pc, inputs, aborts, posting, shutdown, drain, failed, scheduler,
                   queue, idlers, asleep, clients, answers, calm>>

Wakeup ==
    /\ ~ Ended /\ waking
    /\ waking' = FALSE
    /\ inputs' = Append(inputs, [type |-> "wakeup", id |-> Nobody])
    /\ UNCHANGED <<pc, aborts, posting, shutdown, drain, failed, scheduler, queue,
                   idlers, asleep, clients, answers, calm>>

(* External: the executor's failure callback.                              *)
ExecutorFails ==
    /\ ~ failed
    /\ failed' = TRUE
    /\ inputs' = Append(inputs, [type |-> "failed", id |-> Nobody])
    /\ UNCHANGED <<pc, aborts, posting, waking, shutdown, drain, scheduler, queue,
                   idlers, asleep, clients, answers, calm>>

(* The process, and with it its threads, is there until the engine ends.   *)
InTime == Late \/ shutdown = "running"

Senders ==
    /\ ~ Ended
    /\ \/ Signal
       \/ ExecutorFails /\ InTime
       \/ /\ Len(inputs) < MaxInputs
          /\ \/ \E r \in Requests : SendAdd(r) /\ InTime
             \/ \E c \in Calls, op \in Ops : SendCall(c, op) /\ InTime
             \/ \E r \in Aborted : SendAbort(r)

-----------------------------------------------------------------------------
(* Scheduler.finish_requests on R, with outputs to the clients or not.     *)
Marked(R)  == [r \in Requests |-> IF r \in R /\ Live(r) THEN "finished" ELSE status[r]]
Flushed(R) == flush \/ \E r \in R : Live(r)
Told(R)    == [r \in Requests |-> IF r \in R /\ Live(r) THEN answers[r] + 1 ELSE answers[r]]

(* The outputs of calls C.                                                 *)
Answer(C) ==
    call' = [c \in Calls |-> [call[c] EXCEPT !.answer = @ \/ c \in C]]

PutsToSleep(C) == \E c \in C : Sleeps(call[c].op)

(* _reset_caches: what runs is preempted.                                  *)
Reset(s) == [r \in Requests |-> IF s[r] = "running" THEN "waiting" ELSE s[r]]

-----------------------------------------------------------------------------
(* The busy loop.  _handle_shutdown.                                       *)

(* Bug: the requests a shutdown aborts are not reported.                   *)
HandleShutdownSilent ==
    /\ pc = "top"
    /\ drain' \in IF shutdown = "requested" THEN BOOLEAN ELSE {drain}
    /\ LET stopped == IF shutdown = "requested" /\ ~ drain' THEN Requests ELSE {}
       IN  /\ status' = Marked(stopped)
           /\ flush' = Flushed(stopped)
           /\ UNCHANGED answers
           /\ shutdown' = IF shutdown = "requested" THEN "shutting" ELSE shutdown
           /\ pc' = IF HasWork(status', flush', paused) THEN "more"
                    ELSE IF shutdown # "running" THEN "exited" ELSE "input"
    /\ UNCHANGED <<threads, failed, left, paused, queue, idlers, asleep, clients, calm>>

HandleShutdown ==
    /\ pc = "top"
    /\ drain' \in IF shutdown = "requested" THEN BOOLEAN ELSE {drain}
    /\ LET stopped == IF shutdown = "requested" /\ ~ drain' THEN Requests ELSE {}
       IN  /\ status' = Marked(stopped)
           /\ flush' = Flushed(stopped)
           /\ answers' = Told(stopped)
           /\ shutdown' = IF shutdown = "requested" THEN "shutting" ELSE shutdown
           /\ pc' = IF HasWork(status', flush', paused) THEN "more"
                    ELSE IF shutdown # "running" THEN "exited" ELSE "input"
    /\ UNCHANGED <<threads, failed, left, paused, queue, idlers, asleep, clients, calm>>

(* _process_input_queue, the loop's condition: without work it notifies    *)
(* the callbacks that wait for an idle engine and looks for a message.     *)
(* Bug: the callback of a pause is called, its client is not answered.     *)
NotifyHalf ==
    /\ pc = "input" /\ ~ Busy /\ shutdown = "running"
    /\ pc' = IF inputs = <<>> THEN "clear" ELSE "get"
    /\ status' = IF \E c \in idlers : Clears(call[c].op) THEN Reset(status) ELSE status
    /\ asleep' = (asleep \/ PutsToSleep(idlers))
    /\ calm' = (calm \/ (idlers # {} /\ paused # "no"))
    /\ Answer({c \in idlers : Sleeps(call[c].op)})
    /\ idlers' = {}
    /\ UNCHANGED <<threads, shutdown, drain, failed, left, flush, paused, queue, gone, answers>>

Notify ==
    /\ pc = "input" /\ ~ Busy /\ shutdown = "running"
    /\ pc' = IF inputs = <<>> THEN "clear" ELSE "get"
    /\ status' = IF \E c \in idlers : Clears(call[c].op) THEN Reset(status) ELSE status
    /\ asleep' = (asleep \/ PutsToSleep(idlers))
    /\ calm' = (calm \/ (idlers # {} /\ paused # "no"))
    /\ Answer(idlers)
    /\ idlers' = {}
    /\ UNCHANGED <<threads, shutdown, drain, failed, left, flush, paused, queue, gone, answers>>

GoOn ==
    /\ pc = "input" /\ (Busy \/ shutdown # "running")
    /\ pc' = "more"
    /\ UNCHANGED <<threads, shutdown, drain, failed, scheduler, queue, idlers,
                   asleep, clients, answers, calm>>

(* "Drain aborts queue; all aborts are also processed via input_queue."    *)
ClearAborts ==
    /\ pc = "clear"
    /\ aborts' = {}
    /\ pc' = "get"
    /\ UNCHANGED <<inputs, posting, waking, shutdown, drain, failed, scheduler, queue,
                   idlers, asleep, clients, answers, calm>>

-----------------------------------------------------------------------------
(* _handle_client_request.                                                 *)

Message(type) ==
    /\ pc \in {"get", "more"} /\ inputs # <<>>
    /\ Head(inputs).type = type
    /\ inputs' = Tail(inputs)
    /\ pc' = IF type = "failed" THEN "dead" ELSE IF pc = "get" THEN "input" ELSE pc
    /\ UNCHANGED <<aborts, posting, waking, shutdown, drain, failed, left, queue, gone>>

unchangedRequests == UNCHANGED <<status, flush, answers>>
unchangedPause    == UNCHANGED <<paused, idlers, asleep, call, calm>>

HandleAdd ==
    /\ Message("add")
    /\ LET r == Head(inputs).id
       IN  IF shutdown = "running"
           THEN status' = [status EXCEPT ![r] = "waiting"] /\ UNCHANGED answers
           ELSE /\ status' = [status EXCEPT ![r] = "rejected"]
                /\ answers' = [answers EXCEPT ![r] = @ + 1]
    /\ UNCHANGED flush
    /\ unchangedPause

HandleAbort ==
    /\ Message("abort")
    /\ status' = Marked({Head(inputs).id})
    /\ flush' = Flushed({Head(inputs).id})
    /\ UNCHANGED answers
    /\ unchangedPause

HandleNothing ==
    /\ Message("wakeup") \/ Message("failed")
    /\ unchangedRequests /\ unchangedPause

RejectCall ==
    /\ shutdown # "running"
    /\ Message("utility")
    /\ Answer({Head(inputs).id})
    /\ unchangedRequests
    /\ UNCHANGED <<paused, idlers, asleep, calm>>

(* Bug: sleep() does not wait for the pause.                               *)
PauseSleepless ==
    /\ shutdown = "running"
    /\ Message("utility")
    /\ LET c    == Head(inputs).id
           op   == call[c].op
           stop == IF op \in Aborting THEN Requests ELSE {}
           idle == ~ HasWork(Marked(stop), flush', paused')
       IN  /\ op \notin Wakes
           /\ paused' = IF op \in Keeping THEN "all" ELSE "new"
           /\ flush' = Flushed(stop)
           /\ answers' = Told(stop)
           /\ status' = IF idle /\ Clears(op) THEN Reset(Marked(stop)) ELSE Marked(stop)
           /\ idlers' = IF idle THEN idlers ELSE idlers \cup {c}
           /\ IF idle THEN Answer({c}) ELSE UNCHANGED call
           /\ asleep' = (asleep \/ Sleeps(op))
           /\ calm' = (idle \/ (calm /\ (paused' = "all" \/ paused = "new")))

(* pause_scheduler, and sleep, which pauses first: answered at once when   *)
(* the engine is idle, and otherwise when it has become so.  A pause that  *)
(* keeps requests gives way to a later one that lets them go on.           *)
Pause ==
    /\ shutdown = "running"
    /\ Message("utility")
    /\ LET c    == Head(inputs).id
           op   == call[c].op
           stop == IF op \in Aborting THEN Requests ELSE {}
           idle == ~ HasWork(Marked(stop), flush', paused')
       IN  /\ op \notin Wakes
           /\ paused' = IF op \in Keeping THEN "all" ELSE "new"
           /\ flush' = Flushed(stop)
           /\ answers' = Told(stop)
           /\ status' = IF idle /\ Clears(op) THEN Reset(Marked(stop)) ELSE Marked(stop)
           /\ idlers' = IF idle THEN idlers ELSE idlers \cup {c}
           /\ IF idle THEN Answer({c}) ELSE UNCHANGED call
           /\ asleep' = (asleep \/ (idle /\ Sleeps(op)))
           /\ calm' = (idle \/ (calm /\ (paused' = "all" \/ paused = "new")))

(* What the executor may be afterwards: asleep or not.  Whether the tags   *)
(* of a partial wake were the last ones asleep is left open.               *)
Woken(op) == CASE op = "resume"    -> {asleep}
               [] op = "wake"      -> {FALSE}
               [] op = "wake_part" -> {asleep, FALSE}

(* resume_scheduler, whatever the executor does; and wake_up, which        *)
(* resumes only if the whole executor is awake then.                       *)
Resume ==
    /\ shutdown = "running"
    /\ Message("utility")
    /\ LET c  == Head(inputs).id
           op == call[c].op
       IN  /\ op \in Wakes
           /\ asleep' \in Woken(op)
           /\ paused' = IF op # "resume" /\ asleep' THEN paused ELSE "no"
           /\ Answer({c})
    /\ calm' = (calm /\ paused' # "no")
    /\ unchangedRequests
    /\ UNCHANGED idlers

-----------------------------------------------------------------------------
(* step_with_batch_queue.                                                  *)

Scheduling == pc = "more" /\ inputs = <<>>

Runnable == {r \in Ids("running") : r \notin InFlight}

(* Put a batch for S in the queue; wait for a result unless the queue has  *)
(* room and there is more to do.                                           *)
Enqueue(S) ==
    /\ queue' = Append(queue, [reqs |-> S, ran |-> FALSE])
    /\ flush' = FALSE
    /\ pc' = IF Len(queue) + 1 < QueueSize
                /\ (S # {} \/ HasRequests(status', FALSE, paused))
             THEN "top" ELSE "wait"
    /\ UNCHANGED <<threads, shutdown, drain, failed, left, paused, idlers, asleep,
                   clients, answers, calm>>

(* schedule(): what runs, and where there is room what waits, the oldest   *)
(* of it first; which that is does not matter here.                        *)
Schedule ==
    /\ Scheduling /\ HasRequests(status, flush, paused)
    /\ \E A \in SUBSET Ids("waiting") :
         /\ paused # "no" => A = {}
         /\ paused = "no" => \/ A = Ids("waiting")
                             \/ Cardinality(A) + Cardinality(Ids("running")) = MaxRunning
         /\ Cardinality(A) + Cardinality(Ids("running")) <= MaxRunning
         /\ status' = [r \in Requests |-> IF r \in A THEN "running" ELSE status[r]]
         /\ Enqueue(IF paused = "all" THEN {} ELSE Runnable \cup (A \ InFlight))

(* Nothing is scheduled: there are no requests, or batches are under way   *)
(* and a request that decodes holds the next one back.                     *)
Hold ==
    /\ Scheduling
    /\ \/ ~ HasRequests(status, flush, paused)
       \/ queue # <<>> /\ Ids("running") # {}
    /\ pc' = IF queue = <<>> THEN "top" ELSE "wait"
    /\ UNCHANGED <<threads, shutdown, drain, failed, scheduler, queue, idlers, asleep,
                   clients, answers, calm>>

(* External: the executor runs the oldest batch.                           *)
Work ==
    /\ ~ Ended /\ ~ failed
    /\ \E i \in DOMAIN queue :
         /\ ~ queue[i].ran
         /\ \A j \in 1 .. i - 1 : queue[j].ran
         /\ queue' = [queue EXCEPT ![i].ran = TRUE]
    /\ UNCHANGED <<pc, threads, shutdown, drain, failed, scheduler, idlers, asleep,
                   clients, answers, calm>>

(* The oldest batch's result.  Aborts that have come meanwhile are handled *)
(* before update_from_output.                                              *)
Result ==
    /\ pc = "wait" /\ Head(queue).ran
    /\ LET kept == Marked(aborts)
           ran  == {r \in Head(queue).reqs : kept[r] \in {"waiting", "running"}}
           last == {r \in ran : left[r] = 1}
       IN  /\ status' = [r \in Requests |-> IF r \in last THEN "finished" ELSE kept[r]]
           /\ left' = [r \in Requests |-> IF r \in ran THEN left[r] - 1 ELSE left[r]]
           /\ flush' = (Flushed(aborts) \/ last # {})
           /\ answers' = [r \in Requests |-> IF r \in last THEN answers[r] + 1 ELSE answers[r]]
    /\ aborts' = {}
    /\ queue' = Tail(queue)
    /\ pc' = "top"
    /\ UNCHANGED <<inputs, posting, waking, shutdown, drain, failed, paused, idlers, asleep, clients, calm>>

(* future.result() raises: the engine is dead, and says so.                *)
ResultFails ==
    /\ pc = "wait" /\ ~ Head(queue).ran /\ failed
    /\ pc' = "dead"
    /\ UNCHANGED <<threads, shutdown, drain, failed, scheduler, queue, idlers, asleep,
                   clients, answers, calm>>

-----------------------------------------------------------------------------
Engine ==
    \/ HandleShutdown \/ Notify \/ GoOn \/ ClearAborts
    \/ HandleAdd \/ HandleAbort \/ HandleNothing \/ RejectCall \/ Pause \/ Resume
    \/ Schedule \/ Hold \/ Result \/ ResultFails

Terminated == Ended /\ UNCHANGED vars

Next == Senders \/ PostAbort \/ Wakeup \/ Engine \/ Work \/ Terminated

Spec == Init /\ [][Next]_vars

(* Some thread of the process that can go on does, or the executor: less   *)
(* than all of them running, which they do; nobody need send anything.     *)
FairSpec == Spec /\ WF_vars(Engine \/ Work \/ PostAbort \/ Wakeup)

-----------------------------------------------------------------------------
(* Properties.                                                             *)

(* An abort takes hold however it races the request: once the engine has   *)
(* handled what its client sent, the request is neither run nor kept.      *)
AbortsHold ==
    \A r \in gone :
        posting # r /\ (\A i \in DOMAIN inputs : inputs[i] # [type |-> "abort", id |-> r])
            => ~ Live(r) \/ Ended

(* The answer to a pause is true from then on: until a resume, nothing is  *)
(* in flight and nothing can be scheduled, whatever was under way or has   *)
(* been sent since.  Only a pause in another mode takes it back, one that  *)
(* waits for the requests an earlier one kept: they go on.                 *)
Still == /\ paused # "no" /\ InFlight = {}
         /\ paused = "new" => Ids("running") = {}

PauseHolds == calm => Still

(* "Pause scheduler before sleeping", "Resume scheduling only once all     *)
(* executor memory is resident again": when clients are patient, no        *)
(* request is run on an executor that sleeps, nor may the scheduler run    *)
(* one.  (resume_scheduler itself does not ask whether the executor does.) *)
ResidentToRun == asleep => paused # "no" /\ InFlight = {}

(* No client is told the end of its request twice.  One that has not gone  *)
(* away has been told it by the time the engine exits, unless its message  *)
(* still lay unread in input_queue, which nobody empties then, or requests *)
(* were to be drained while the scheduler was paused.                      *)
Unread(r) == \E i \in DOMAIN inputs : inputs[i] = [type |-> "add", id |-> r]

NoneForgotten ==
    \A r \in Requests :
        /\ answers[r] <= 1
        /\ pc = "exited" /\ ~ (drain /\ paused # "no") /\ r \notin gone
              => answers[r] = 1 \/ status[r] = "unsent" \/ Unread(r)

(* Every utility call is answered, a pause or sleep too that waits for     *)
(* requests to drain, unless the engine ends.                              *)
CallsAnswered ==
    \A c \in Calls : call[c].op # Nothing ~> call[c].answer \/ Ended

(* A signal or a failure of the executor ends the engine, busy or idle.    *)
EngineEnds == shutdown # "running" \/ failed ~> Ended
=============================================================================
