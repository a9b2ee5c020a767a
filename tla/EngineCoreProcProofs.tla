------------------------ MODULE EngineCoreProcProofs ------------------------
(***************************************************************************)
(* EngineCoreProc keeps its invariants for any number of requests, calls   *)
(* and messages.                                                           *)
(***************************************************************************)
EXTENDS EngineCoreProcInv, SequenceTheorems, TLAPS

(* A message joins the queue at its end.                                   *)
LEMMA AppendFacts ==
  ASSUME NEW S, NEW s \in Seq(S), NEW m \in S
  PROVE  /\ Append(s, m) \in Seq(S)
         /\ Len(s) \in Nat /\ DOMAIN s = 1 .. Len(s)
         /\ DOMAIN Append(s, m) = 1 .. Len(s) + 1
         /\ \A i \in 1 .. Len(s) : Append(s, m)[i] = s[i] /\ s[i] \in S
         /\ Append(s, m)[Len(s) + 1] = m /\ Append(s, m) # <<>>
  BY AppendProperties, LenProperties, ElementOfSeq

(* The first leaves it, and the others move up by one.                     *)
LEMMA TailFacts ==
  ASSUME NEW S, NEW s \in Seq(S), s # <<>>
  PROVE  /\ Tail(s) \in Seq(S) /\ Head(s) = s[1] /\ Head(s) \in S
         /\ Len(s) \in Nat \ {0} /\ DOMAIN s = 1 .. Len(s)
         /\ DOMAIN Tail(s) = 1 .. Len(s) - 1
         /\ \A i \in 1 .. Len(s) - 1 : Tail(s)[i] = s[i + 1]
  BY HeadTailProperties, LenProperties, ElementOfSeq, EmptySeq

-----------------------------------------------------------------------------
(* Types.                                                                  *)

LEMMA TypeInit == Init => TypeOK
  <1> SUFFICES ASSUME Init  PROVE TypeOK
    OBVIOUS
  <1>1. inputs \in Seq(Messages) /\ queue \in Seq([reqs : SUBSET Requests, ran : BOOLEAN])
    BY EmptySeq DEF Init
  <1>2. left \in [Requests -> Nat] /\ \A r \in Requests : left[r] # 0
    BY ProcAssumption DEF Init
  <1>3. call \in [Calls -> [op : Utilities \cup {Nothing}, answer : BOOLEAN]]
    BY DEF Init
  <1> QED
    BY <1>1, <1>2, <1>3 DEF Init, TypeOK, Statuses, Before

(* What the clients send is a message.                                     *)
LEMMA TypeSenders ==
  ASSUME TypeOK, Senders \/ PostAbort \/ Wakeup
  PROVE  TypeOK'
  <1> USE DEF TypeOK, Messages, Statuses, Before, threads, clients, scheduler
  <1>1. ASSUME NEW r \in Requests, SendAdd(r)  PROVE TypeOK'
    BY <1>1, AppendFacts DEF SendAdd
  <1>2. ASSUME NEW r \in Requests, SendAbort(r)  PROVE TypeOK'
    BY <1>2 DEF SendAbort
  <1>3. ASSUME NEW c \in Calls, NEW op \in Ops, SendCall(c, op)  PROVE TypeOK'
    <2>1. op \in Utilities
      BY ProcAssumption
    <2> DEFINE C == [op : Utilities \cup {Nothing}, answer : BOOLEAN]
    <2>2. call' \in [Calls -> C]
      <3>1. [call[c] EXCEPT !.op = op] \in C
        BY <2>1
      <3>2. call' = [call EXCEPT ![c] = [call[c] EXCEPT !.op = op]]
        BY <1>3 DEF SendCall
      <3> HIDE DEF C
      <3> QED
        BY <3>1, <3>2 DEF C
    <2> QED
      BY <1>3, <2>2, AppendFacts DEF SendCall
  <1>4. ASSUME Signal  PROVE TypeOK'
    BY <1>4 DEF Signal
  <1>5. ASSUME ExecutorFails  PROVE TypeOK'
    BY <1>5, AppendFacts DEF ExecutorFails
  <1>6. ASSUME PostAbort  PROVE TypeOK'
    BY <1>6, AppendFacts DEF PostAbort
  <1>7. ASSUME Wakeup  PROVE TypeOK'
    BY <1>7, AppendFacts DEF Wakeup
  <1> QED
    BY <1>1, <1>2, <1>3, <1>4, <1>5, <1>6, <1>7, ProcAssumption DEF Senders

(* Nobody calls something else than the utilities, nor calls nothing.      *)
LEMMA OpsFacts == \A op \in Ops : op \in Utilities /\ op # Nothing
  BY ProcAssumption DEF Utilities, Aborting, Waiting, Keeping, Wakes, Nothing

(* What wakes does not sleep.                                              *)
LEMMA WokenFacts ==
  ASSUME TypeOK, NEW op \in Wakes
  PROVE  /\ ~ Sleeps(op)
         /\ \A b \in Woken(op) : b \in BOOLEAN /\ (b => asleep)
         /\ op = "wake" => Woken(op) = {FALSE}
  <1>1. op \in {"resume", "wake", "wake_part"}
    BY DEF Wakes
  <1>2. ~ Sleeps(op)
    BY <1>1 DEF Sleeps
  <1>3. CASE op = "resume"
    <2>1. Woken(op) = {asleep}
      BY <1>3 DEF Woken
    <2> QED
      BY <1>2, <1>3, <2>1 DEF TypeOK
  <1>4. CASE op = "wake"
    <2>1. Woken(op) = {FALSE}
      BY <1>4 DEF Woken
    <2> QED
      BY <1>2, <2>1
  <1>5. CASE op = "wake_part"
    <2>1. Woken(op) = {asleep, FALSE}
      BY <1>5 DEF Woken
    <2> QED
      BY <1>2, <1>5, <2>1 DEF TypeOK
  <1> QED
    BY <1>1, <1>3, <1>4, <1>5

(* Ending requests, telling their clients and preempting what runs are     *)
(* total on requests in any states.                                        *)
LEMMA StatusType ==
  ASSUME TypeOK, NEW R
  PROVE  /\ Marked(R) \in [Requests -> Statuses]
         /\ \A r \in Requests : Marked(R)[r] \in Before => Marked(R)[r] = status[r]
         /\ Flushed(R) \in BOOLEAN
         /\ Told(R) \in [Requests -> Nat]
  <1>1. /\ Marked(R) \in [Requests -> Statuses]
        /\ \A r \in Requests : Marked(R)[r] \in Before => Marked(R)[r] = status[r]
    BY DEF TypeOK, Statuses, Before, Marked
  <1>2. Flushed(R) \in BOOLEAN
    BY DEF Flushed
  <1>3. Told(R) \in [Requests -> Nat]
    BY DEF TypeOK, Told
  <1> QED
    BY <1>1, <1>2, <1>3

LEMMA ResetType ==
  ASSUME NEW s \in [Requests -> Statuses]
  PROVE  /\ Reset(s) \in [Requests -> Statuses]
         /\ \A r \in Requests : Reset(s)[r] = IF s[r] = "running" THEN "waiting" ELSE s[r]
  <1>1. \A r \in Requests : Reset(s)[r] = IF s[r] = "running" THEN "waiting" ELSE s[r]
    BY DEF Reset
  <1>2. \A r \in Requests : Reset(s)[r] \in Statuses
    BY <1>1 DEF Statuses, Before
  <1>3. Reset(s) = [r \in Requests |-> Reset(s)[r]]
    BY DEF Reset
  <1> HIDE DEF Reset
  <1> QED
    BY <1>1, <1>2, <1>3

LEMMA AnswerType ==
  ASSUME TypeOK, NEW C, Answer(C)
  PROVE  /\ call' \in [Calls -> [op : Utilities \cup {Nothing}, answer : BOOLEAN]]
         /\ \A c \in Calls : /\ call'[c].op = call[c].op
                             /\ call'[c].answer = (call[c].answer \/ c \in C)
  <1> DEFINE D == [op : Utilities \cup {Nothing}, answer : BOOLEAN]
             f == [c \in Calls |-> [call[c] EXCEPT !.answer = @ \/ c \in C]]
  <1>1. ASSUME NEW c \in Calls
        PROVE  /\ f[c] \in D /\ f[c].op = call[c].op
               /\ f[c].answer = (call[c].answer \/ c \in C)
    BY DEF TypeOK
  <1>2. f \in [Calls -> D]
    BY <1>1
  <1>3. call' = f
    BY DEF Answer
  <1> HIDE DEF f
  <1> QED
    BY <1>1, <1>2, <1>3

(* A message is of its kind, and one that is handled leaves the queue.     *)
LEMMA MessageFacts ==
  ASSUME TypeOK, NEW type, Message(type)
  PROVE  /\ inputs \in Seq(Messages) /\ inputs # <<>> /\ inputs' = Tail(inputs)
         /\ Head(inputs) = inputs[1] /\ Head(inputs) \in Messages
         /\ inputs' \in Seq(Messages)
         /\ type \in {"add", "abort"} => Head(inputs).id \in Requests
         /\ type = "utility" => Head(inputs).id \in Calls
         /\ pc \in {"get", "more"} /\ pc' \in {"input", "more", "dead"}
         /\ pc' = "dead" => type = "failed"
         /\ UNCHANGED <<aborts, posting, waking, shutdown, drain, failed, left, queue, gone>>
  <1>1. inputs \in Seq(Messages) /\ inputs # <<>> /\ inputs' = Tail(inputs)
    BY DEF TypeOK, Message
  <1>2. Head(inputs) = inputs[1] /\ Head(inputs) \in Messages /\ inputs' \in Seq(Messages)
    BY <1>1, TailFacts
  <1> QED
    BY <1>1, <1>2 DEF Message, Messages

LEMMA TypeEngine ==
  ASSUME TypeOK, AddsFollowed, Engine
  PROVE  TypeOK'
  <1> USE DEF threads, clients, scheduler
  <1> DEFINE D == [op : Utilities \cup {Nothing}, answer : BOOLEAN]
             Q == [reqs : SUBSET Requests, ran : BOOLEAN]
  <1>1. ASSUME HandleShutdown  PROVE TypeOK'
    <2>1. PICK R : status' = Marked(R) /\ flush' = Flushed(R) /\ answers' = Told(R)
      BY <1>1 DEF HandleShutdown
    <2> QED
      BY <1>1, <2>1, StatusType DEF HandleShutdown, TypeOK
  <1>2. ASSUME Notify  PROVE TypeOK'
    <2>1. status' \in [Requests -> Statuses]
          /\ \A r \in Requests : status'[r] \in Before => status[r] \in Before
      <3>1. status' = status \/ status' = Reset(status)
        BY <1>2 DEF Notify
      <3> QED
        BY <3>1, ResetType DEF TypeOK, Before
    <2>2. call' \in [Calls -> D]
      BY <1>2, AnswerType DEF Notify
    <2> QED
      BY <1>2, <2>1, <2>2 DEF Notify, TypeOK
  <1>3. ASSUME GoOn  PROVE TypeOK'
    BY <1>3 DEF GoOn, TypeOK
  <1>4. ASSUME ClearAborts  PROVE TypeOK'
    BY <1>4 DEF ClearAborts, TypeOK
  <1>5. ASSUME HandleAdd  PROVE TypeOK'
    <2>1. Message("add")
      BY <1>5 DEF HandleAdd
    <2>2. Head(inputs).id \in Requests
      BY <2>1, MessageFacts
    <2> DEFINE r == Head(inputs).id
    <2>3. status[r] = "sent"
      <3>1. 1 \in DOMAIN inputs /\ Head(inputs) = inputs[1]
        BY <2>1, MessageFacts, TailFacts
      <3>2. Head(inputs).type = "add"
        BY <2>1 DEF Message
      <3> QED
        BY <3>1, <3>2 DEF AddsFollowed
    <2>4. /\ status' = [status EXCEPT ![r] = "waiting"] /\ answers' = answers
          \/ /\ status' = [status EXCEPT ![r] = "rejected"]
             /\ answers' = [answers EXCEPT ![r] = @ + 1]
      BY <1>5 DEF HandleAdd
    <2> HIDE DEF r
    <2>5. status' \in [Requests -> Statuses] /\ answers' \in [Requests -> Nat]
      <3>1. status \in [Requests -> Statuses] /\ answers \in [Requests -> Nat]
            /\ {"waiting", "rejected"} \subseteq Statuses
        BY DEF TypeOK, Statuses, Before
      <3> QED
        BY <2>4, <3>1
    <2>6. \A q \in Requests : status'[q] \in Before => left[q] # 0
      BY <2>3, <2>4 DEF TypeOK, Before
    <2> QED
      BY <1>5, <2>1, <2>5, <2>6, MessageFacts DEF HandleAdd, unchangedPause, TypeOK
  <1>6. ASSUME HandleAbort  PROVE TypeOK'
    BY <1>6, MessageFacts, StatusType DEF HandleAbort, unchangedPause, TypeOK
  <1>7. ASSUME HandleNothing  PROVE TypeOK'
    BY <1>7, MessageFacts DEF HandleNothing, unchangedPause, unchangedRequests, TypeOK
  <1>8. ASSUME RejectCall  PROVE TypeOK'
    <2>1. call' \in [Calls -> D]
      BY <1>8, AnswerType DEF RejectCall
    <2> QED
      BY <1>8, <2>1, MessageFacts DEF RejectCall, unchangedRequests, TypeOK
  <1>9. ASSUME Pause  PROVE TypeOK'
    <2>1. Message("utility") /\ Head(inputs).id \in Calls
      BY <1>9, MessageFacts DEF Pause
    <2>2. PICK R : /\ flush' = Flushed(R) /\ answers' = Told(R)
                   /\ status' = Marked(R) \/ status' = Reset(Marked(R))
      BY <1>9 DEF Pause
    <2>3. /\ Marked(R) \in [Requests -> Statuses] /\ Reset(Marked(R)) \in [Requests -> Statuses]
          /\ \A r \in Requests : /\ Marked(R)[r] \in Before => status[r] \in Before
                                 /\ Reset(Marked(R))[r] \in Before => status[r] \in Before
      BY StatusType, ResetType DEF Before
    <2>4. call' \in [Calls -> D]
      BY <1>9, AnswerType DEF Pause, TypeOK
    <2>5. idlers' \in SUBSET Calls /\ paused' \in {"no", "new", "all"}
          /\ asleep' \in BOOLEAN /\ calm' \in BOOLEAN
      BY <1>9, <2>1 DEF Pause, TypeOK
    <2> QED
      BY <2>1, <2>2, <2>3, <2>4, <2>5, StatusType, MessageFacts DEF TypeOK
  <1>10. ASSUME Resume  PROVE TypeOK'
    <2>1. Message("utility")
      BY <1>10 DEF Resume
    <2>2. call' \in [Calls -> D]
      BY <1>10, AnswerType DEF Resume
    <2>3. asleep' \in BOOLEAN /\ calm' \in BOOLEAN /\ paused' \in {"no", "new", "all"}
          /\ UNCHANGED idlers
      <3>1. PICK op \in Wakes :
              asleep' \in Woken(op) /\ (paused' = "no" \/ paused' = paused)
        BY <1>10 DEF Resume
      <3> QED
        BY <1>10, <3>1, WokenFacts DEF Resume, TypeOK
    <2> QED
      BY <1>10, <2>1, <2>2, <2>3, MessageFacts DEF Resume, unchangedRequests, TypeOK
  <1>11. ASSUME Schedule  PROVE TypeOK'
    <2>1. PICK A \in SUBSET Ids("waiting") :
            /\ status' = [r \in Requests |-> IF r \in A THEN "running" ELSE status[r]]
            /\ Enqueue(IF paused = "all" THEN {} ELSE Runnable \cup (A \ InFlight))
      BY <1>11 DEF Schedule
    <2> DEFINE S == IF paused = "all" THEN {} ELSE Runnable \cup (A \ InFlight)
    <2>2. PICK b \in Q : queue' = Append(queue, b)
      <3>1. S \in SUBSET Requests
        BY DEF Runnable, Ids
      <3> QED
        BY <2>1, <3>1 DEF Enqueue
    <2>3. queue' \in Seq(Q) /\ queue' # <<>>
      <3>1. queue \in Seq(Q)
        BY DEF TypeOK
      <3> QED
        BY <2>2, <3>1, AppendFacts
    <2>4. status' \in [Requests -> Statuses]
          /\ \A r \in Requests : status'[r] \in Before => status[r] \in Before
      BY <2>1 DEF TypeOK, Statuses, Before, Ids
    <2>5. /\ flush' = FALSE /\ pc' \in {"top", "wait"}
          /\ UNCHANGED <<threads, shutdown, drain, failed, left, paused, idlers, asleep,
                         clients, answers, calm>>
      BY <2>1 DEF Enqueue
    <2> HIDE DEF S
    <2> QED
      BY <2>3, <2>4, <2>5 DEF TypeOK
  <1>12. ASSUME Hold  PROVE TypeOK'
    BY <1>12 DEF Hold, TypeOK
  <1>13. ASSUME Result  PROVE TypeOK'
    <2> DEFINE kept == Marked(aborts)
               ran  == {r \in Head(queue).reqs : kept[r] \in {"waiting", "running"}}
               last == {r \in ran : left[r] = 1}
    <2>1. /\ status' = [r \in Requests |-> IF r \in last THEN "finished" ELSE kept[r]]
          /\ left' = [r \in Requests |-> IF r \in ran THEN left[r] - 1 ELSE left[r]]
          /\ answers' = [r \in Requests |-> IF r \in last THEN answers[r] + 1 ELSE answers[r]]
          /\ flush' = (Flushed(aborts) \/ last # {})
          /\ aborts' = {} /\ queue' = Tail(queue) /\ pc' = "top"
          /\ UNCHANGED <<inputs, posting, waking, shutdown, drain, failed, paused, idlers,
                         asleep, clients, calm>>
      BY <1>13 DEF Result
    <2>2. kept \in [Requests -> Statuses]
          /\ \A r \in Requests : kept[r] \in Before => status[r] = kept[r]
      BY StatusType
    <2>3. \A r \in ran : kept[r] \in Before
      BY DEF Before
    <2>4. queue' \in Seq(Q)
      BY <1>13, <2>1, TailFacts DEF Result, TypeOK
    <2> HIDE DEF kept, ran
    <2>5. \A r \in ran \cap Requests : left[r] # 0 /\ left[r] \in Nat
      BY <2>2, <2>3 DEF TypeOK
    <2>6. left' \in [Requests -> Nat]
      BY <2>1, <2>5 DEF TypeOK
    <2>7. status' \in [Requests -> Statuses] /\ answers' \in [Requests -> Nat]
      BY <2>1, <2>2 DEF TypeOK, Statuses
    <2>8. ASSUME NEW r \in Requests, status'[r] \in Before  PROVE left'[r] # 0
      <3>1. r \notin last /\ status[r] \in Before /\ left[r] # 0
        BY <2>1, <2>2, <2>8 DEF Before, TypeOK
      <3> QED
        BY <2>1, <2>5, <3>1 DEF TypeOK
    <2> QED
      BY <2>1, <2>4, <2>6, <2>7, <2>8 DEF TypeOK
  <1>14. ASSUME ResultFails  PROVE TypeOK'
    BY <1>14 DEF ResultFails, TypeOK
  <1> QED
    BY <1>1, <1>2, <1>3, <1>4, <1>5, <1>6, <1>7, <1>8, <1>9, <1>10, <1>11, <1>12,
       <1>13, <1>14 DEF Engine

(* The executor changes nothing of a batch but that it has run.            *)
LEMMA WorkFacts ==
  ASSUME TypeOK, Work
  PROVE  /\ ~ Ended /\ queue \in Seq([reqs : SUBSET Requests, ran : BOOLEAN])
         /\ queue' \in Seq([reqs : SUBSET Requests, ran : BOOLEAN])
         /\ DOMAIN queue' = DOMAIN queue /\ queue' # <<>>
         /\ \A j \in DOMAIN queue : queue'[j].reqs = queue[j].reqs
         /\ UNCHANGED <<pc, threads, shutdown, drain, failed, scheduler, idlers, asleep,
                        clients, answers, calm>>
  <1> DEFINE Q == [reqs : SUBSET Requests, ran : BOOLEAN]
  <1>1. PICK i \in DOMAIN queue : queue' = [queue EXCEPT ![i].ran = TRUE]
    BY DEF Work
  <1>2. queue \in Seq(Q) /\ DOMAIN queue = 1 .. Len(queue) /\ Len(queue) \in Nat
    BY LenProperties DEF TypeOK
  <1>3. PICK b : b = [queue[i] EXCEPT !.ran = TRUE]
    OBVIOUS
  <1>4. queue[i] \in Q
    BY <1>2, ElementOfSeq
  <1>5. b \in Q /\ b.reqs = queue[i].reqs
    BY <1>3, <1>4
  <1>6. queue' = [queue EXCEPT ![i] = b]
    BY <1>1, <1>3
  <1>7. queue' \in Seq(Q) /\ Len(queue') = Len(queue)
    BY <1>2, <1>5, <1>6, ExceptSeq
  <1>8. DOMAIN queue' = DOMAIN queue /\ queue' # <<>>
    BY <1>1, <1>2, <1>7, LenProperties, EmptySeq
  <1>9. \A j \in DOMAIN queue : queue'[j].reqs = queue[j].reqs
    BY <1>2, <1>5, <1>6
  <1> QED
    BY <1>2, <1>7, <1>8, <1>9 DEF Work

(* Every step keeps the types.                                             *)
LEMMA TypeStep ==
  ASSUME TypeOK, AddsFollowed, [Next]_vars
  PROVE  TypeOK'
  <1> USE DEF threads, clients, scheduler
  <1>1. ASSUME Work  PROVE TypeOK'
    BY <1>1, WorkFacts DEF TypeOK
  <1>2. ASSUME UNCHANGED vars  PROVE TypeOK'
    BY <1>2 DEF vars, TypeOK
  <1> QED
    BY <1>1, <1>2, TypeSenders, TypeEngine DEF Next, Terminated

-----------------------------------------------------------------------------
(* Messages: that AddsFollowed, AbortsEnd, OnlyGoneAborted and SentUnread  *)
(* are kept follows from what a step does to the queue, to who is gone and *)
(* to which requests have been sent and are live.                          *)

MessageInv == AddsFollowed /\ AbortsEnd /\ OnlyGoneAborted /\ SentUnread

(* Nothing is sent or handled.                                             *)
LEMMA NoMessage ==
  ASSUME TypeOK, MessageInv, UNCHANGED <<inputs, posting, gone>>,
         aborts' \subseteq aborts, Ended => Ended',
         \A r \in Requests : /\ status[r] = "sent" <=> status'[r] = "sent"
                             /\ status[r] # "unsent" => status'[r] # "unsent"
                             /\ Live(r)' => Live(r)
  PROVE  MessageInv'
  <1>1. AddsFollowed'
    <2> SUFFICES ASSUME NEW i \in DOMAIN inputs, NEW r, r = inputs[i].id, inputs[i].type = "add"
                 PROVE  /\ status'[r] = "sent"
                        /\ \A j \in DOMAIN inputs : inputs[j] = inputs[i] => j = i
                        /\ r \in gone => AbortComes(r, i)'
      BY DEF AddsFollowed
    <2>1. inputs[i] \in Messages
      BY ElementOfSeq, LenProperties DEF TypeOK
    <2>2. r \in Requests
      BY <2>1 DEF Messages
    <2> QED
      BY <2>2 DEF MessageInv, AddsFollowed, AbortComes
  <1>2. AbortsEnd'
    BY DEF MessageInv, AbortsEnd, AbortComes, TypeOK, Live, Ended
  <1>3. OnlyGoneAborted'
    BY DEF MessageInv, OnlyGoneAborted
  <1>4. SentUnread'
    BY DEF MessageInv, SentUnread, Unread
  <1> QED
    BY <1>1, <1>2, <1>3, <1>4 DEF MessageInv

(* Message m is put in the queue: an abort that is being posted, a request *)
(* that has not been sent before, or neither.                              *)
LEMMA MessageSent ==
  ASSUME TypeOK, MessageInv, NEW m \in Messages, inputs' = Append(inputs, m),
         \/ m.type = "abort" /\ m.id = posting /\ posting' = Nobody
         \/ m.type # "abort" /\ posting' = posting,
         UNCHANGED <<pc, aborts, gone>>,
         m.type = "add" => status[m.id] = "unsent" /\ status' = [status EXCEPT ![m.id] = "sent"],
         m.type # "add" => status' = status
  PROVE  MessageInv'
  <1>1. /\ Len(inputs) \in Nat /\ DOMAIN inputs = 1 .. Len(inputs)
        /\ DOMAIN inputs' = 1 .. Len(inputs) + 1
        /\ \A i \in 1 .. Len(inputs) : inputs'[i] = inputs[i] /\ inputs[i] \in Messages
        /\ inputs'[Len(inputs) + 1] = m
    BY AppendFacts DEF TypeOK
  <1>2. \A r \in Requests, i \in Nat :
            i <= Len(inputs) /\ AbortComes(r, i) => AbortComes(r, i)'
    <2> SUFFICES ASSUME NEW r \in Requests, NEW i \in Nat, i <= Len(inputs), AbortComes(r, i)
                 PROVE  AbortComes(r, i)'
      OBVIOUS
    <2>1. CASE posting = r /\ posting' # r
      <3>1. m = [type |-> "abort", id |-> r]
        BY <2>1 DEF Messages
      <3> QED
        BY <1>1, <3>1 DEF AbortComes
    <2>2. CASE posting' = r
      BY <2>2 DEF AbortComes
    <2>3. CASE posting # r
      BY <1>1, <2>3 DEF AbortComes
    <2> QED
      BY <2>1, <2>2, <2>3
  <1>3. \A r \in Requests : /\ status'[r] = status[r] \/ (status[r] = "unsent" /\ status'[r] = "sent")
                            /\ m.type = "add" /\ m.id = r => status'[r] = "sent"
    BY DEF TypeOK, Messages
  <1>4. AddsFollowed'
    <2> SUFFICES ASSUME NEW i \in DOMAIN inputs', NEW r, r = inputs'[i].id, inputs'[i].type = "add"
                 PROVE  /\ status'[r] = "sent"
                        /\ \A j \in DOMAIN inputs' : inputs'[j] = inputs'[i] => j = i
                        /\ r \in gone => AbortComes(r, i)'
      BY DEF AddsFollowed
    <2>1. CASE i \in 1 .. Len(inputs)
      <3>1. inputs[i].id \in Requests /\ status[inputs[i].id] = "sent"
        BY <1>1, <2>1 DEF MessageInv, AddsFollowed, Messages
      <3>2. inputs'[i] # m
        BY <1>1, <2>1, <3>1
      <3> QED
        BY <1>1, <1>2, <1>3, <2>1, <3>1, <3>2 DEF MessageInv, AddsFollowed
    <2>2. CASE i = Len(inputs) + 1
      <3>1. inputs'[i] = m /\ m.id \in Requests /\ status[m.id] = "unsent"
        BY <1>1, <2>2 DEF Messages
      <3>2. \A j \in 1 .. Len(inputs) : inputs[j] # m
        BY <1>1, <2>2, <3>1 DEF MessageInv, AddsFollowed
      <3>3. m.id \notin gone
        BY <3>1 DEF MessageInv, AbortsEnd
      <3> QED
        BY <1>1, <1>3, <2>2, <3>1, <3>2, <3>3
    <2> QED
      BY <1>1, <2>1, <2>2
  <1>5. AbortsEnd'
    BY <1>2, <1>3 DEF MessageInv, AbortsEnd, Live, Ended, TypeOK
  <1>6. OnlyGoneAborted'
    BY <1>1, ProcAssumption DEF MessageInv, OnlyGoneAborted, Messages, Nobody
  <1>7. SentUnread'
    <2> SUFFICES ASSUME NEW r \in Requests, status'[r] = "sent"
                 PROVE  \E i \in DOMAIN inputs' : inputs'[i] = [type |-> "add", id |-> r]
      BY DEF SentUnread, Unread
    <2>1. CASE status[r] = "sent"
      BY <1>1, <2>1 DEF MessageInv, SentUnread, Unread
    <2>2. CASE status[r] # "sent"
      <3>1. m.type = "add" /\ m.id = r
        BY <2>2 DEF TypeOK
      <3>2. m = [type |-> "add", id |-> r]
        BY <3>1 DEF Messages
      <3> QED
        BY <1>1, <3>2
    <2> QED
      BY <2>1, <2>2
  <1> QED
    BY <1>4, <1>5, <1>6, <1>7 DEF MessageInv

(* The first half of an abort.                                             *)
LEMMA AbortPosted ==
  ASSUME TypeOK, MessageInv, NEW r \in Requests, SendAbort(r)
  PROVE  MessageInv'
  <1>1. /\ posting = Nobody /\ posting' = r /\ status[r] # "unsent" /\ gone' = gone \cup {r}
        /\ aborts' = aborts \cup {r} /\ UNCHANGED <<pc, inputs, status>>
    BY DEF SendAbort, scheduler
  <1>2. \A q \in Requests, i \in Nat : AbortComes(q, i) => AbortComes(q, i)'
    BY <1>1, ProcAssumption DEF AbortComes, Nobody
  <1>3. AddsFollowed'
    <2> SUFFICES ASSUME NEW i \in DOMAIN inputs, NEW q, q = inputs[i].id, inputs[i].type = "add"
                 PROVE  /\ status[q] = "sent"
                        /\ \A j \in DOMAIN inputs : inputs[j] = inputs[i] => j = i
                        /\ q \in gone' => AbortComes(q, i)'
      BY <1>1 DEF AddsFollowed
    <2>1. inputs[i] \in Messages /\ i \in Nat
      BY ElementOfSeq, LenProperties DEF TypeOK
    <2>2. q \in Requests
      BY <2>1 DEF Messages
    <2>3. q = r => AbortComes(q, i)'
      BY <1>1 DEF AbortComes
    <2> QED
      BY <1>1, <1>2, <2>1, <2>2, <2>3 DEF MessageInv, AddsFollowed
  <1>4. AbortsEnd'
    <2>1. AbortComes(r, 0)'
      BY <1>1 DEF AbortComes
    <2> QED
      BY <1>1, <1>2, <2>1 DEF MessageInv, AbortsEnd, Live, Ended, TypeOK
  <1>5. OnlyGoneAborted'
    BY <1>1 DEF MessageInv, OnlyGoneAborted
  <1>6. SentUnread'
    BY <1>1 DEF MessageInv, SentUnread, Unread
  <1> QED
    BY <1>3, <1>4, <1>5, <1>6 DEF MessageInv

(* The first message m is handled: a request that is added may be live     *)
(* from then on, one that is aborted no longer is.                         *)
LEMMA MessageHandled ==
  ASSUME TypeOK, MessageInv, NEW type, Message(type),
         \A r \in Requests :
             /\ status[r] = "sent" /\ Head(inputs) # [type |-> "add", id |-> r]
                  => status'[r] = "sent"
             /\ status'[r] = "sent"
                  => status[r] = "sent" /\ Head(inputs) # [type |-> "add", id |-> r]
             /\ status[r] # "unsent" => status'[r] # "unsent"
             /\ Live(r)' => Live(r) \/ Head(inputs) = [type |-> "add", id |-> r]
             /\ Head(inputs) = [type |-> "abort", id |-> r] => ~ Live(r)'
  PROVE  MessageInv'
  <1> DEFINE m == Head(inputs)
  <1>1. /\ Len(inputs) \in Nat \ {0} /\ DOMAIN inputs = 1 .. Len(inputs)
        /\ m = inputs[1] /\ \A i \in DOMAIN inputs : inputs[i] \in Messages
        /\ DOMAIN inputs' = 1 .. Len(inputs) - 1
        /\ \A i \in 1 .. Len(inputs) - 1 : inputs'[i] = inputs[i + 1]
    BY MessageFacts, TailFacts, ElementOfSeq
  <1>2. ~ Ended /\ UNCHANGED <<aborts, posting, gone>>
    BY MessageFacts DEF Ended
  <1> HIDE DEF m
  <1>3. \A r \in Requests, i \in Nat : AbortComes(r, i + 1) => AbortComes(r, i)'
    <2> SUFFICES ASSUME NEW r \in Requests, NEW i \in Nat, AbortComes(r, i + 1)
                 PROVE  AbortComes(r, i)'
      OBVIOUS
    <2>1. CASE posting = r
      BY <1>2, <2>1 DEF AbortComes
    <2>2. CASE posting # r
      <3>1. PICK j \in DOMAIN inputs : j > i + 1 /\ inputs[j] = [type |-> "abort", id |-> r]
        BY <2>2 DEF AbortComes
      <3>2. j - 1 \in DOMAIN inputs' /\ j - 1 > i /\ inputs'[j - 1] = inputs[j]
        BY <1>1, <3>1
      <3> QED
        BY <3>1, <3>2 DEF AbortComes
    <2> QED
      BY <2>1, <2>2
  <1>4. AddsFollowed'
    <2> SUFFICES ASSUME NEW i \in DOMAIN inputs', NEW r, r = inputs'[i].id, inputs'[i].type = "add"
                 PROVE  /\ status'[r] = "sent"
                        /\ \A j \in DOMAIN inputs' : inputs'[j] = inputs'[i] => j = i
                        /\ r \in gone => AbortComes(r, i)'
      BY <1>2 DEF AddsFollowed
    <2>1. i + 1 \in DOMAIN inputs /\ inputs'[i] = inputs[i + 1] /\ i \in Nat /\ i # 0
      BY <1>1
    <2>2. r \in Requests /\ inputs[i + 1] = [type |-> "add", id |-> r]
      BY <1>1, <2>1 DEF Messages
    <2>3. /\ status[r] = "sent"
          /\ r \in gone => AbortComes(r, i + 1)
          /\ \A j \in DOMAIN inputs : inputs[j] = inputs[i + 1] => j = i + 1
      BY <2>1, <2>2 DEF MessageInv, AddsFollowed
    <2>4. m # [type |-> "add", id |-> r]
      BY <1>1, <2>1, <2>2, <2>3
    <2>5. ASSUME NEW j \in DOMAIN inputs', inputs'[j] = inputs'[i]  PROVE j = i
      <3>1. j \in Nat /\ j + 1 \in DOMAIN inputs /\ inputs'[j] = inputs[j + 1]
        BY <1>1
      <3>2. j + 1 = i + 1
        BY <2>1, <2>3, <2>5, <3>1
      <3> QED
        BY <2>1, <3>1, <3>2
    <2>6. status'[r] = "sent"
      BY <2>2, <2>3, <2>4 DEF m
    <2> QED
      BY <1>3, <2>1, <2>2, <2>3, <2>5, <2>6
  <1>5. AbortsEnd'
    <2> SUFFICES ASSUME NEW r \in gone
                 PROVE  status'[r] # "unsent" /\ (AbortComes(r, 0)' \/ ~ Live(r)')
      BY <1>2 DEF AbortsEnd
    <2>1. r \in Requests /\ status[r] # "unsent" /\ (AbortComes(r, 0) \/ ~ Live(r))
      BY <1>2 DEF MessageInv, AbortsEnd, TypeOK
    <2>2. CASE m = [type |-> "abort", id |-> r]
      BY <2>1, <2>2 DEF m
    <2>3. CASE m = [type |-> "add", id |-> r]
      <3>1. 1 \in DOMAIN inputs /\ inputs[1].type = "add" /\ inputs[1].id = r
        BY <1>1, <2>3
      <3>2. AbortComes(r, 0 + 1)
        BY <3>1 DEF MessageInv, AddsFollowed, AbortComes
      <3>3. AbortComes(r, 0)'
        BY <1>3, <2>1, <3>2
      <3> QED
        BY <2>1, <3>3
    <2>4. CASE m # [type |-> "abort", id |-> r] /\ m # [type |-> "add", id |-> r]
      <3>1. AbortComes(r, 0) => AbortComes(r, 0 + 1)
        BY <1>1, <2>4 DEF AbortComes
      <3>2. AbortComes(r, 0) => AbortComes(r, 0)'
        BY <1>3, <2>1, <3>1
      <3> QED
        BY <2>1, <2>4, <3>2 DEF m
    <2> QED
      BY <2>2, <2>3, <2>4
  <1>6. OnlyGoneAborted'
    <2>1. /\ aborts \subseteq gone /\ (posting # Nobody => posting \in gone)
          /\ \A i \in DOMAIN inputs : inputs[i].type = "abort" => inputs[i].id \in gone
      BY DEF MessageInv, OnlyGoneAborted
    <2>2. ASSUME NEW i \in DOMAIN inputs', inputs'[i].type = "abort"
          PROVE  inputs'[i].id \in gone
      <3>1. i + 1 \in DOMAIN inputs /\ inputs'[i] = inputs[i + 1]
        BY <1>1, <2>2
      <3> QED
        BY <2>1, <2>2, <3>1
    <2> QED
      BY <1>2, <2>1, <2>2 DEF OnlyGoneAborted
  <1>7. SentUnread'
    <2> SUFFICES ASSUME NEW r \in Requests, status'[r] = "sent"
                 PROVE  \E i \in DOMAIN inputs' : inputs'[i] = [type |-> "add", id |-> r]
      BY DEF SentUnread, Unread
    <2>1. status[r] = "sent" /\ m # [type |-> "add", id |-> r]
      BY DEF m
    <2>2. PICK j \in DOMAIN inputs : inputs[j] = [type |-> "add", id |-> r]
      BY <2>1 DEF MessageInv, SentUnread, Unread
    <2>3. j - 1 \in DOMAIN inputs' /\ inputs'[j - 1] = inputs[j]
      BY <1>1, <2>1, <2>2
    <2> QED
      BY <2>2, <2>3
  <1> QED
    BY <1>4, <1>5, <1>6, <1>7 DEF MessageInv

(* Every step keeps them.                                                  *)
LEMMA MessageStep ==
  ASSUME TypeOK, MessageInv, [Next]_vars
  PROVE  MessageInv'
  <1> USE DEF threads, clients, scheduler
  <1>1. ASSUME NEW r \in Requests, SendAdd(r)  PROVE MessageInv'
    <2>1. [type |-> "add", id |-> r] \in Messages
      BY DEF Messages
    <2> QED
      BY <1>1, <2>1, MessageSent DEF SendAdd
  <1>2. ASSUME NEW c \in Calls, NEW op \in Ops, SendCall(c, op)  PROVE MessageInv'
    <2>1. [type |-> "utility", id |-> c] \in Messages
      BY DEF Messages
    <2> QED
      BY <1>2, <2>1, MessageSent DEF SendCall
  <1>3. ASSUME Signal  PROVE MessageInv'
    BY <1>3, NoMessage DEF Signal, Live, Ended
  <1>4. ASSUME ExecutorFails  PROVE MessageInv'
    <2>1. [type |-> "failed", id |-> Nobody] \in Messages
      BY DEF Messages
    <2> QED
      BY <1>4, <2>1, MessageSent DEF ExecutorFails
  <1>5. ASSUME PostAbort  PROVE MessageInv'
    <2>1. [type |-> "abort", id |-> posting] \in Messages
      BY <1>5 DEF Messages, PostAbort, TypeOK
    <2> QED
      BY <1>5, <2>1, MessageSent DEF PostAbort
  <1>6. ASSUME Wakeup  PROVE MessageInv'
    <2>1. [type |-> "wakeup", id |-> Nobody] \in Messages
      BY DEF Messages
    <2> QED
      BY <1>6, <2>1, MessageSent DEF Wakeup
  <1>7. ASSUME HandleShutdown  PROVE MessageInv'
    <2>1. PICK R : status' = Marked(R)
      BY <1>7 DEF HandleShutdown
    <2> QED
      BY <1>7, <2>1, NoMessage DEF HandleShutdown, Marked, Live, Ended, TypeOK
  <1>8. ASSUME Notify  PROVE MessageInv'
    <2>1. status' = status \/ status' = Reset(status)
      BY <1>8 DEF Notify
    <2>2. pc = "input" /\ UNCHANGED <<inputs, aborts, posting, gone>>
      BY <1>8 DEF Notify
    <2> QED
      BY <2>1, <2>2, NoMessage DEF Reset, Live, Ended, TypeOK
  <1>9. ASSUME GoOn \/ Hold \/ ResultFails  PROVE MessageInv'
    <2>1. ~ Ended /\ UNCHANGED <<inputs, posting, gone, aborts, status>>
      BY <1>9 DEF GoOn, Hold, Scheduling, ResultFails, Ended
    <2> QED
      BY <2>1, NoMessage DEF Live
  <1>10. ASSUME ClearAborts  PROVE MessageInv'
    BY <1>10, NoMessage DEF ClearAborts, Live, Ended
  <1>11. ASSUME Schedule  PROVE MessageInv'
    <2>1. PICK A \in SUBSET Ids("waiting") :
            status' = [r \in Requests |-> IF r \in A THEN "running" ELSE status[r]]
      BY <1>11 DEF Schedule
    <2>2. pc = "more" /\ UNCHANGED <<inputs, aborts, posting, gone>>
      BY <1>11 DEF Schedule, Scheduling, Enqueue
    <2>3. \A r \in Requests : r \in A => status[r] = "waiting"
      BY DEF Ids
    <2> QED
      BY <2>1, <2>2, <2>3, NoMessage DEF Live, Ended, TypeOK
  <1>12. ASSUME Result  PROVE MessageInv'
    <2>1. \A r \in Requests :
             status'[r] = status[r] \/ (status'[r] = "finished" /\ Live(r))
      BY <1>12 DEF Result, Marked, Live
    <2>2. pc = "wait" /\ aborts' = {} /\ UNCHANGED <<inputs, posting, gone>>
      BY <1>12 DEF Result
    <2> QED
      BY <2>1, <2>2, NoMessage DEF Live, Ended
  <1>13. ASSUME Work  PROVE MessageInv'
    BY <1>13, WorkFacts, NoMessage DEF Live, Ended
  <1>14. ASSUME HandleAdd  PROVE MessageInv'
    <2>1. Message("add") /\ Head(inputs).type = "add"
      BY <1>14 DEF HandleAdd, Message
    <2>2. PICK r \in Requests : Head(inputs) = [type |-> "add", id |-> r]
      BY <2>1, MessageFacts DEF Messages
    <2>3. \/ status' = [status EXCEPT ![r] = "waiting"]
          \/ status' = [status EXCEPT ![r] = "rejected"]
      BY <1>14, <2>2 DEF HandleAdd
    <2>4. \A q \in Requests : q # r => status'[q] = status[q]
      BY <2>3 DEF TypeOK
    <2>5. status'[r] \notin {"unsent", "sent"} /\ Head(inputs) # [type |-> "abort", id |-> r]
      BY <2>2, <2>3 DEF TypeOK
    <2> QED
      BY <2>1, <2>2, <2>4, <2>5, MessageHandled DEF Live
  <1>15. ASSUME HandleAbort  PROVE MessageInv'
    <2>1. Message("abort") /\ Head(inputs).type = "abort"
      BY <1>15 DEF HandleAbort, Message
    <2>2. status' = Marked({Head(inputs).id})
      BY <1>15 DEF HandleAbort
    <2>3. \A r \in Requests :
            /\ status'[r] = status[r] \/ (status'[r] = "finished" /\ Live(r))
            /\ Head(inputs).id = r => ~ Live(r)'
      BY <2>2 DEF Marked, Live
    <2> QED
      BY <2>1, <2>3, MessageHandled DEF Live
  <1>16. ASSUME HandleNothing \/ RejectCall \/ Resume  PROVE MessageInv'
    BY <1>16, MessageHandled
       DEF HandleNothing, RejectCall, Resume, Message, unchangedRequests, Live
  <1>17. ASSUME Pause  PROVE MessageInv'
    <2>1. PICK R : status' = Marked(R) \/ status' = Reset(Marked(R))
      BY <1>17 DEF Pause
    <2>2. Message("utility") /\ Head(inputs).type = "utility"
      BY <1>17 DEF Pause, Message
    <2>3. \A r \in Requests :
             status'[r] = status[r] \/ (status'[r] \in {"waiting", "finished"} /\ Live(r))
      BY <2>1 DEF Marked, Reset, Live
    <2> QED
      BY <2>2, <2>3, MessageHandled DEF Live
  <1>18. ASSUME UNCHANGED vars  PROVE MessageInv'
    BY <1>18, NoMessage DEF vars, Live, Ended
  <1> QED
    BY <1>1, <1>2, <1>3, <1>4, <1>5, <1>6, <1>7, <1>8, <1>9, <1>10, <1>11, <1>12, <1>13,
       <1>14, <1>15, <1>16, <1>17, <1>18, AbortPosted, ProcAssumption
       DEF Next, Senders, Engine, Terminated

-----------------------------------------------------------------------------
(* Answers to requests.                                                    *)

(* ToldOnce is kept when each request whose end is told has ended now, and *)
(* each that ends untold has been aborted by its client.                   *)
LEMMA ToldKept ==
  ASSUME TypeOK, ToldOnce, gone \subseteq gone',
         \A r \in Requests :
            \/ /\ answers'[r] = answers[r]
               /\ status'[r] \in Before => status[r] \in Before
               /\ status[r] \in Before => status'[r] \in Before \/ r \in gone'
            \/ /\ answers'[r] = answers[r] + 1
               /\ status[r] \in Before /\ status'[r] \notin Before
  PROVE  ToldOnce'
  BY DEF ToldOnce, TypeOK

LEMMA ToldStep ==
  ASSUME TypeOK, MessageInv, ToldOnce, [Next]_vars
  PROVE  ToldOnce'
  <1> USE DEF threads, clients, scheduler
  <1>1. ASSUME NEW r \in Requests, SendAdd(r)  PROVE ToldOnce'
    BY <1>1, ToldKept DEF SendAdd, TypeOK, Before
  <1>2. ASSUME NEW r \in Requests, SendAbort(r)  PROVE ToldOnce'
    BY <1>2, ToldKept DEF SendAbort
  <1>3. CASE UNCHANGED <<status, answers, gone>>
    BY <1>3, ToldKept
  <1>4. ASSUME HandleShutdown  PROVE ToldOnce'
    <2>1. PICK R : /\ status' = Marked(R) /\ answers' = Told(R) /\ gone' = gone
      BY <1>4 DEF HandleShutdown
    <2> QED
      BY <2>1, ToldKept DEF Marked, Told, Live, Before
  <1>5. ASSUME Notify  PROVE ToldOnce'
    <2>1. \A r \in Requests : status'[r] = status[r]
                              \/ (status[r] = "running" /\ status'[r] = "waiting")
      BY <1>5 DEF Notify, Reset
    <2> QED
      BY <1>5, <2>1, ToldKept DEF Notify, Before
  <1>6. ASSUME HandleAdd  PROVE ToldOnce'
    <2>1. Message("add") /\ Head(inputs).type = "add"
      BY <1>6 DEF HandleAdd, Message
    <2>2. PICK r \in Requests : r = Head(inputs).id
      BY <2>1, MessageFacts
    <2>3. status[r] = "sent"
      BY <2>1, <2>2, MessageFacts, TailFacts DEF MessageInv, AddsFollowed
    <2>4. \/ /\ status' = [status EXCEPT ![r] = "waiting"]
             /\ answers' = answers
          \/ /\ status' = [status EXCEPT ![r] = "rejected"]
             /\ answers' = [answers EXCEPT ![r] = @ + 1]
      BY <1>6, <2>2 DEF HandleAdd
    <2>5. gone' = gone
      BY <2>1 DEF Message
    <2> QED
      BY <2>3, <2>4, <2>5, ToldKept DEF TypeOK, Before
  <1>7. ASSUME HandleAbort  PROVE ToldOnce'
    <2>1. Message("abort") /\ Head(inputs).type = "abort"
      BY <1>7 DEF HandleAbort, Message
    <2>2. Head(inputs).id \in gone
      BY <2>1, MessageFacts, TailFacts DEF MessageInv, OnlyGoneAborted
    <2>3. \A r \in Requests : status'[r] = status[r]
                              \/ (Live(r) /\ r \in gone /\ status'[r] = "finished")
      BY <1>7, <2>2 DEF HandleAbort, Marked
    <2>4. gone' = gone /\ answers' = answers
      BY <1>7, <2>1 DEF Message, HandleAbort
    <2> QED
      BY <2>3, <2>4, ToldKept DEF Live, Before
  <1>8. ASSUME Pause  PROVE ToldOnce'
    <2>1. PICK R : answers' = Told(R) /\ (status' = Marked(R) \/ status' = Reset(Marked(R)))
      BY <1>8 DEF Pause
    <2>2. gone' = gone
      BY <1>8 DEF Pause, Message
    <2>3. \A r \in Requests :
            \/ answers'[r] = answers[r] + 1 /\ Live(r) /\ status'[r] = "finished"
            \/ answers'[r] = answers[r] /\ status'[r] = status[r]
            \/ answers'[r] = answers[r] /\ status[r] = "running" /\ status'[r] = "waiting"
      BY <2>1 DEF Marked, Told, Reset, Live
    <2> QED
      BY <2>2, <2>3, ToldKept DEF Live, Before
  <1>9. ASSUME Schedule  PROVE ToldOnce'
    <2>1. PICK A \in SUBSET Ids("waiting") :
            status' = [r \in Requests |-> IF r \in A THEN "running" ELSE status[r]]
      BY <1>9 DEF Schedule
    <2>2. UNCHANGED <<answers, gone>>
      BY <1>9 DEF Schedule, Enqueue
    <2> QED
      BY <2>1, <2>2, ToldKept DEF Ids, Before
  <1>10. ASSUME Result  PROVE ToldOnce'
    <2>1. \A r \in Requests :
            \/ answers'[r] = answers[r] + 1 /\ Live(r) /\ status'[r] = "finished"
            \/ answers'[r] = answers[r] /\ status'[r] = status[r]
            \/ answers'[r] = answers[r] /\ status'[r] = "finished" /\ r \in aborts
      BY <1>10 DEF Result, Marked, Live
    <2>2. gone' = gone /\ aborts \subseteq gone
      BY <1>10 DEF Result, MessageInv, OnlyGoneAborted
    <2> QED
      BY <2>1, <2>2, ToldKept DEF Live, Before
  <1>11. ASSUME \/ Signal \/ ExecutorFails \/ PostAbort \/ Wakeup \/ GoOn \/ ClearAborts
                \/ Hold \/ ResultFails \/ Work \/ UNCHANGED vars
                \/ \E c \in Calls, op \in Ops : SendCall(c, op)
         PROVE  UNCHANGED <<status, answers, gone>>
    BY <1>11 DEF Signal, ExecutorFails, PostAbort, Wakeup, GoOn, ClearAborts, Hold,
                 ResultFails, Work, vars, SendCall
  <1>12. ASSUME HandleNothing \/ RejectCall \/ Resume
         PROVE  UNCHANGED <<status, answers, gone>>
    BY <1>12 DEF HandleNothing, RejectCall, Resume, Message, unchangedRequests
  <1> QED
    BY <1>1, <1>2, <1>3, <1>4, <1>5, <1>6, <1>7, <1>8, <1>9, <1>10, <1>11, <1>12,
       ProcAssumption DEF Next, Senders, Engine, Terminated

-----------------------------------------------------------------------------
(* Shutdown.                                                               *)

(* A step of a running engine that starts nothing, or is not one of a      *)
(* shutdown, keeps NothingStarts.                                          *)
LEMMA NothingStarted ==
  ASSUME NothingStarts, pc' # "exited" \/ (pc' = pc /\ paused' = paused),
         UNCHANGED <<shutdown, drain>>,
         \A r \in Requests : Live(r)' => Live(r)
  PROVE  NothingStarts'
  BY DEF NothingStarts

LEMMA ShutdownStep ==
  ASSUME TypeOK, NothingStarts, [Next]_vars
  PROVE  NothingStarts'
  <1> USE DEF threads, clients, scheduler
  <1>1. ASSUME NEW r \in Requests, SendAdd(r)  PROVE NothingStarts'
    BY <1>1, NothingStarted DEF SendAdd, Live, TypeOK
  <1>2. ASSUME Signal, ~ Ended  PROVE NothingStarts'
    BY <1>2 DEF Signal, Ended, NothingStarts
  <1>3. CASE UNCHANGED <<status, shutdown, drain>>
             /\ (pc' # "exited" \/ (pc' = pc /\ paused' = paused))
    BY <1>3, NothingStarted DEF Live
  <1>4. ASSUME HandleShutdown  PROVE NothingStarts'
    <2>1. PICK stopped :
            /\ stopped = IF shutdown = "requested" /\ ~ drain' THEN Requests ELSE {}
            /\ status' = Marked(stopped)
            /\ shutdown' = IF shutdown = "requested" THEN "shutting" ELSE shutdown
            /\ pc' = "exited" => ~ HasWork(status', flush', paused) /\ shutdown # "running"
            /\ shutdown # "requested" => drain' = drain
            /\ paused' = paused
      BY <1>4 DEF HandleShutdown
    <2>2. \A r \in Requests : Live(r)' => Live(r) /\ r \notin stopped
      BY <2>1 DEF Marked, Live
    <2>3. shutdown' = "shutting" /\ ~ drain' => \A r \in Requests : ~ Live(r)'
      BY <2>1, <2>2 DEF NothingStarts
    <2>4. pc' = "exited" => shutdown' = "shutting"
      BY <2>1 DEF TypeOK
    <2>5. pc' = "exited" /\ paused' = "no" => \A r \in Requests : ~ Live(r)'
      BY <2>1 DEF HasWork, HasRequests, Counted, Live
    <2> QED
      BY <2>3, <2>4, <2>5 DEF NothingStarts
  <1>5. ASSUME HandleAdd  PROVE NothingStarts'
    <2>1. pc' # "exited" /\ UNCHANGED <<shutdown, drain>>
      BY <1>5, MessageFacts DEF HandleAdd
    <2>2. CASE shutdown = "running"
      BY <2>1, <2>2 DEF NothingStarts
    <2>3. CASE shutdown # "running"
      <3>1. status' = [status EXCEPT ![Head(inputs).id] = "rejected"]
        BY <1>5, <2>3 DEF HandleAdd
      <3>2. \A r \in Requests : Live(r)' => Live(r)
        BY <3>1 DEF Live, TypeOK
      <3> QED
        BY <2>1, <3>2, NothingStarted
    <2> QED
      BY <2>2, <2>3
  <1>6. ASSUME HandleAbort  PROVE NothingStarts'
    <2>1. pc' # "exited" /\ UNCHANGED <<shutdown, drain>>
      BY <1>6, MessageFacts DEF HandleAbort
    <2>2. \A r \in Requests : Live(r)' => Live(r)
      BY <1>6 DEF HandleAbort, Marked, Live
    <2> QED
      BY <2>1, <2>2, NothingStarted
  <1>7. ASSUME Pause  PROVE NothingStarts'
    <2>1. pc' # "exited" /\ UNCHANGED <<shutdown, drain>>
      BY <1>7, MessageFacts DEF Pause
    <2>2. PICK R : status' = Marked(R) \/ status' = Reset(Marked(R))
      BY <1>7 DEF Pause
    <2>3. \A r \in Requests : Live(r)' => Live(r)
      BY <2>2 DEF Marked, Reset, Live
    <2> QED
      BY <2>1, <2>3, NothingStarted
  <1>8. ASSUME HandleNothing \/ RejectCall \/ Resume
        PROVE  UNCHANGED <<status, shutdown, drain>> /\ pc' # "exited"
    BY <1>8 DEF HandleNothing, RejectCall, Resume, Message, unchangedRequests
  <1>9. ASSUME Notify \/ Result  PROVE NothingStarts'
    <2>1. pc' # "exited" /\ UNCHANGED <<shutdown, drain>>
      BY <1>9 DEF Notify, Result
    <2>2. \A r \in Requests : Live(r)' => Live(r)
      BY <1>9 DEF Notify, Reset, Result, Marked, Live
    <2> QED
      BY <2>1, <2>2, NothingStarted
  <1>10. ASSUME Schedule  PROVE NothingStarts'
    <2>1. pc' # "exited" /\ UNCHANGED <<shutdown, drain>>
      BY <1>10 DEF Schedule, Enqueue
    <2>2. \A r \in Requests : Live(r)' => Live(r)
      BY <1>10 DEF Schedule, Ids, Live
    <2> QED
      BY <2>1, <2>2, NothingStarted
  <1>11. ASSUME \/ ExecutorFails \/ PostAbort \/ Wakeup \/ GoOn \/ ClearAborts
                \/ Hold \/ ResultFails \/ Work \/ UNCHANGED vars
                \/ \E c \in Calls, op \in Ops : SendCall(c, op)
                \/ \E r \in Requests : SendAbort(r)
         PROVE  UNCHANGED <<status, shutdown, drain>>
                /\ (pc' # "exited" \/ (pc' = pc /\ paused' = paused))
    BY <1>11 DEF ExecutorFails, PostAbort, Wakeup, GoOn, ClearAborts, Hold,
                 ResultFails, Work, vars, SendCall, SendAbort
  <1> QED
    BY <1>1, <1>2, <1>3, <1>4, <1>5, <1>6, <1>7, <1>8, <1>9, <1>10, <1>11,
       ProcAssumption DEF Next, Senders, Engine, Terminated

-----------------------------------------------------------------------------
(* Pauses.                                                                 *)

(* The requests in flight are those of the batches in the queue.           *)
LEMMA InFlightOf ==
  /\ \A r : r \in InFlight <=> \E i \in DOMAIN queue : r \in queue[i].reqs
  /\ \A r : r \in InFlight' <=> \E i \in DOMAIN queue' : r \in queue'[i].reqs
  BY DEF InFlight

(* While a pause holds nothing is put in flight and nothing begins to run, *)
(* whatever the step: what follows is whether the pause is taken back.     *)
LEMMA StillStep ==
  ASSUME TypeOK, Still, [Next]_vars
  PROVE  InFlight' = {} /\ Ids("running")' \subseteq Ids("running")
  <1> USE DEF threads, clients, scheduler
  <1>0. InFlight = {}
    BY DEF Still
  <1>1. CASE /\ queue' = queue
             /\ \A r \in Requests : status'[r] = "running" => status[r] = "running"
    <2>1. InFlight' = InFlight /\ Ids("running")' \subseteq Ids("running")
      BY <1>1 DEF InFlight, Ids
    <2> QED
      BY <1>0, <2>1
  <1>2. ASSUME Notify  PROVE /\ queue' = queue
                             /\ \A r \in Requests : status'[r] = "running" => status[r] = "running"
    <2>1. queue' = queue /\ (status' = status \/ status' = Reset(status))
      BY <1>2 DEF Notify
    <2> QED
      BY <2>1 DEF Reset
  <1>3. ASSUME Pause  PROVE /\ queue' = queue
                            /\ \A r \in Requests : status'[r] = "running" => status[r] = "running"
    <2>1. PICK R : status' = Marked(R) \/ status' = Reset(Marked(R))
      BY <1>3 DEF Pause
    <2>2. queue' = queue
      BY <1>3 DEF Pause, Message
    <2> QED
      BY <2>1, <2>2 DEF Reset, Marked
  <1>4. ASSUME Schedule  PROVE InFlight' = {} /\ Ids("running")' \subseteq Ids("running")
    <2>1. PICK A \in SUBSET Ids("waiting") :
            /\ paused # "no" => A = {}
            /\ status' = [r \in Requests |-> IF r \in A THEN "running" ELSE status[r]]
            /\ Enqueue(IF paused = "all" THEN {} ELSE Runnable \cup (A \ InFlight))
      BY <1>4 DEF Schedule
    <2>2. A = {} /\ (paused = "all" \/ Ids("running") = {})
      BY <2>1 DEF Still, TypeOK
    <2>3. Ids("running")' \subseteq Ids("running")
      BY <2>1, <2>2 DEF Ids
    <2>4. paused # "all" => Runnable \cup (A \ InFlight) = {}
      BY <2>2 DEF Runnable
    <2>5. queue' = Append(queue, [reqs |-> {}, ran |-> FALSE])
      BY <2>1, <2>4 DEF Enqueue
    <2>6. [reqs |-> {}, ran |-> FALSE] \in [reqs : SUBSET Requests, ran : BOOLEAN]
      OBVIOUS
    <2>7. ASSUME NEW r \in InFlight'  PROVE r \in InFlight
      <3>1. PICK i \in DOMAIN queue' : r \in queue'[i].reqs
        BY <2>7, InFlightOf
      <3>2. /\ Len(queue) \in Nat /\ DOMAIN queue = 1 .. Len(queue)
            /\ DOMAIN queue' = 1 .. Len(queue) + 1
            /\ \A k \in 1 .. Len(queue) : queue'[k] = queue[k]
            /\ queue'[Len(queue) + 1].reqs = {}
        BY <2>5, <2>6, AppendFacts DEF TypeOK
      <3>3. i \in DOMAIN queue /\ r \in queue[i].reqs
        BY <3>1, <3>2
      <3> QED
        BY <3>3, InFlightOf
    <2> QED
      BY <1>0, <2>3, <2>7
  <1>5. ASSUME Result  PROVE InFlight' = {} /\ Ids("running")' \subseteq Ids("running")
    <2>1. queue # <<>> /\ queue' = Tail(queue)
      BY <1>5 DEF Result, TypeOK
    <2>2. ASSUME NEW r \in InFlight'  PROVE r \in InFlight
      <3>1. PICK i \in DOMAIN queue' : r \in queue'[i].reqs
        BY <2>2, InFlightOf
      <3>2. i + 1 \in DOMAIN queue /\ queue'[i] = queue[i + 1]
        BY <2>1, <3>1, TailFacts DEF TypeOK
      <3> QED
        BY <3>1, <3>2, InFlightOf
    <2>3. Ids("running")' \subseteq Ids("running")
      BY <1>5 DEF Result, Marked, Ids
    <2> QED
      BY <1>0, <2>2, <2>3
  <1>6. ASSUME Work  PROVE InFlight' = {} /\ Ids("running")' \subseteq Ids("running")
    <2>1. \A r : r \in InFlight' => r \in InFlight
      BY <1>6, WorkFacts, InFlightOf
    <2>2. Ids("running")' = Ids("running")
      BY <1>6, WorkFacts DEF Ids
    <2> QED
      BY <1>0, <2>1, <2>2
  <1>7. ASSUME \/ ExecutorFails \/ PostAbort \/ Wakeup \/ Signal \/ GoOn \/ ClearAborts
               \/ Hold \/ ResultFails \/ UNCHANGED vars
               \/ \E c \in Calls, op \in Ops : SendCall(c, op)
               \/ \E r \in Requests : SendAdd(r) \/ SendAbort(r)
        PROVE  /\ queue' = queue
               /\ \A r \in Requests : status'[r] = "running" => status[r] = "running"
    BY <1>7 DEF ExecutorFails, PostAbort, Wakeup, Signal, GoOn, ClearAborts, Hold,
                ResultFails, vars, SendCall, SendAdd, SendAbort, TypeOK
  <1>8. ASSUME \/ HandleShutdown \/ HandleAdd \/ HandleAbort \/ HandleNothing
               \/ RejectCall \/ Resume
        PROVE  /\ queue' = queue
               /\ \A r \in Requests : status'[r] = "running" => status[r] = "running"
    BY <1>8 DEF HandleShutdown, HandleAdd, HandleAbort, HandleNothing, RejectCall, Resume,
                Message, Marked, unchangedRequests, unchangedPause, TypeOK
  <1> QED
    BY <1>1, <1>2, <1>3, <1>4, <1>5, <1>6, <1>7, <1>8,
       ProcAssumption DEF Next, Senders, Engine, Terminated

(* The callbacks of an idle engine: nothing is in flight, nothing that the *)
(* pause leaves can run, and what a callback that clears the caches finds  *)
(* running is preempted.                                                   *)
LEMMA IdleFacts ==
  ASSUME NEW s, NEW f, NEW p, ~ HasWork(s, f, p)
  PROVE  /\ queue = <<>> /\ InFlight = {}
         /\ p = "new" => \A r \in Requests : s[r] # "running"
         /\ \A r \in Requests : Reset(s)[r] # "running"
  <1>1. queue = <<>>
    BY DEF HasWork
  <1>2. \A r : r \notin InFlight
    BY <1>1, InFlightOf
  <1>3. p = "new" => \A r \in Requests : s[r] # "running"
    BY DEF HasWork, HasRequests, Counted
  <1>4. \A r \in Requests : Reset(s)[r] # "running"
    BY DEF Reset
  <1> QED
    BY <1>1, <1>2, <1>3, <1>4

LEMMA NotifyFacts ==
  ASSUME Notify
  PROVE  /\ InFlight' = {} /\ paused' = paused
         /\ paused = "new" => Ids("running")' = {}
         /\ PutsToSleep(idlers) => Ids("running")' = {}
         /\ calm' = (calm \/ (idlers # {} /\ paused # "no"))
         /\ asleep' = (asleep \/ PutsToSleep(idlers))
  <1>1. /\ queue' = queue /\ paused' = paused /\ ~ HasWork(status, flush, paused)
        /\ status' = IF \E c \in idlers : Clears(call[c].op) THEN Reset(status) ELSE status
    BY DEF Notify, Busy, scheduler
  <1>2. InFlight' = {}
    BY <1>1, IdleFacts DEF InFlight
  <1>3. paused = "new" => Ids("running")' = {}
    BY <1>1, IdleFacts DEF Ids, Reset
  <1>4. PutsToSleep(idlers) => \E c \in idlers : Clears(call[c].op)
    BY DEF PutsToSleep, Sleeps, Clears
  <1>5. PutsToSleep(idlers) => Ids("running")' = {}
    BY <1>1, <1>4, IdleFacts DEF Ids
  <1> QED
    BY <1>1, <1>2, <1>3, <1>5 DEF Notify

(* A pause that finds the engine idle begins to hold, and when it sleeps   *)
(* what ran is preempted; one that does not find it idle waits.            *)
LEMMA PauseFacts ==
  ASSUME TypeOK, Pause
  PROVE  \E op \in Utilities \cup {Nothing}, idle \in BOOLEAN :
           /\ op = call[Head(inputs).id].op /\ op \notin Wakes
           /\ paused' \in {"new", "all"} /\ inputs # <<>> /\ Head(inputs).type = "utility"
           /\ idlers' = IF idle THEN idlers ELSE idlers \cup {Head(inputs).id}
           /\ asleep' = (asleep \/ (idle /\ Sleeps(op)))
           /\ calm' = (idle \/ (calm /\ (paused' = "all" \/ paused = "new")))
           /\ idle => InFlight' = {} /\ (paused' = "new" => Ids("running")' = {})
           /\ idle /\ Sleeps(op) => Ids("running")' = {}
  <1> DEFINE op   == call[Head(inputs).id].op
             stop == IF op \in Aborting THEN Requests ELSE {}
             idle == ~ HasWork(Marked(stop), flush', paused')
  <1>1. /\ op \notin Wakes /\ Message("utility") /\ paused' \in {"new", "all"}
        /\ status' = IF idle /\ Clears(op) THEN Reset(Marked(stop)) ELSE Marked(stop)
        /\ idlers' = IF idle THEN idlers ELSE idlers \cup {Head(inputs).id}
        /\ asleep' = (asleep \/ (idle /\ Sleeps(op)))
        /\ calm' = (idle \/ (calm /\ (paused' = "all" \/ paused = "new")))
    BY DEF Pause
  <1>2. inputs # <<>> /\ Head(inputs).type = "utility" /\ queue' = queue
    BY <1>1 DEF Message
  <1>3. op \in Utilities \cup {Nothing} /\ idle \in BOOLEAN
    <2>1. Head(inputs).id \in Calls
      BY <1>1, MessageFacts
    <2>2. op \in Utilities \cup {Nothing}
      BY <2>1 DEF TypeOK
    <2>3. idle \in BOOLEAN
      BY DEF HasWork, HasRequests
    <2> QED
      BY <2>2, <2>3
  <1>4. idle => InFlight' = {} /\ (paused' = "new" => Ids("running")' = {})
    BY <1>1, <1>2, IdleFacts DEF InFlight, Ids, Reset
  <1>5. Sleeps(op) => Clears(op)
    BY DEF Sleeps, Clears
  <1>6. idle /\ Sleeps(op) => Ids("running")' = {}
    BY <1>1, <1>5, IdleFacts DEF Ids
  <1> HIDE DEF idle
  <1> QED
    BY <1>1, <1>2, <1>3, <1>4, <1>6

LEMMA PauseStep ==
  ASSUME TypeOK, PauseHolds, [Next]_vars
  PROVE  PauseHolds'
  <1> USE DEF threads, clients, scheduler
  <1>1. CASE (calm' => calm) /\ (paused' = paused \/ ~ calm')
    BY <1>1, StillStep DEF PauseHolds, Still
  <1>2. ASSUME Notify  PROVE PauseHolds'
    <2>1. CASE idlers # {} /\ paused # "no"
      BY <1>2, <2>1, NotifyFacts DEF PauseHolds, Still
    <2>2. CASE ~ (idlers # {} /\ paused # "no")
      BY <1>1, <1>2, <2>2, NotifyFacts
    <2> QED
      BY <2>1, <2>2
  <1>3. ASSUME Pause  PROVE PauseHolds'
    <2>1. PICK idle \in BOOLEAN :
            /\ paused' \in {"new", "all"}
            /\ calm' = (idle \/ (calm /\ (paused' = "all" \/ paused = "new")))
            /\ idle => InFlight' = {} /\ (paused' = "new" => Ids("running")' = {})
      BY <1>3, PauseFacts
    <2>2. CASE idle
      BY <2>1, <2>2 DEF PauseHolds, Still
    <2>3. CASE ~ idle
      BY <2>1, <2>3, StillStep DEF PauseHolds, Still
    <2> QED
      BY <2>2, <2>3
  <1>4. ASSUME Resume  PROVE (calm' => calm) /\ (paused' = paused \/ ~ calm')
    BY <1>4 DEF Resume
  <1>5. ASSUME \/ ExecutorFails \/ PostAbort \/ Wakeup \/ Signal \/ GoOn \/ ClearAborts
               \/ Hold \/ ResultFails \/ Schedule \/ Result \/ Work \/ UNCHANGED vars
               \/ \E c \in Calls, op \in Ops : SendCall(c, op)
               \/ \E r \in Requests : SendAdd(r) \/ SendAbort(r)
        PROVE  UNCHANGED <<paused, calm>>
    BY <1>5 DEF ExecutorFails, PostAbort, Wakeup, Signal, GoOn, ClearAborts, Hold, Schedule,
                Enqueue, Result, Work, ResultFails, vars, SendCall, SendAdd, SendAbort
  <1>6. ASSUME HandleShutdown \/ HandleAdd \/ HandleAbort \/ HandleNothing \/ RejectCall
        PROVE  UNCHANGED <<paused, calm>>
    BY <1>6 DEF HandleShutdown, HandleAdd, HandleAbort, HandleNothing, RejectCall,
                unchangedPause
  <1> QED
    BY <1>1, <1>2, <1>3, <1>4, <1>5, <1>6,
       ProcAssumption DEF Next, Senders, Engine, Terminated

-----------------------------------------------------------------------------
(* Calls; and what wakes up and resumes, for patient clients.              *)

unchangedCalls == UNCHANGED <<call, idlers, asleep>>

(* Steps that neither send nor handle a call.                              *)
LEMMA CallsKept ==
  ASSUME CallsOnce, unchangedCalls, inputs' = inputs
  PROVE  CallsOnce' /\ (WakesFirst => WakesFirst')
  BY DEF CallsOnce, WakesFirst, unchangedCalls

LEMMA OtherSent ==
  ASSUME TypeOK, CallsOnce, unchangedCalls,
         NEW m \in Messages, m.type # "utility", inputs' = Append(inputs, m)
  PROVE  CallsOnce' /\ (WakesFirst => WakesFirst')
  <1>1. /\ Len(inputs) \in Nat /\ DOMAIN inputs = 1 .. Len(inputs)
        /\ DOMAIN inputs' = 1 .. Len(inputs) + 1
        /\ \A i \in 1 .. Len(inputs) : inputs'[i] = inputs[i]
        /\ inputs'[Len(inputs) + 1] = m
    BY AppendFacts DEF TypeOK
  <1>2. CallsOnce'
    BY <1>1 DEF CallsOnce, unchangedCalls
  <1>3. WakesFirst => WakesFirst'
    BY <1>1 DEF WakesFirst, unchangedCalls
  <1> QED
    BY <1>2, <1>3

(* The first message is handled, a call or not: only what it called may    *)
(* have been answered, wait from now on or have put the executor to sleep. *)
LEMMA CallHandled ==
  ASSUME TypeOK, CallsOnce, NEW type, Message(type),
         \A c \in Calls : call'[c].op = call[c].op,
         \A c \in Calls : Head(inputs) # [type |-> "utility", id |-> c] =>
                            /\ call'[c].answer = call[c].answer
                            /\ c \in idlers' => c \in idlers,
         idlers' \subseteq {c \in Calls : ~ call'[c].answer},
         asleep' => asleep \/ \E c \in Calls : /\ Head(inputs) = [type |-> "utility", id |-> c]
                                               /\ Sleeps(call[c].op)
  PROVE  CallsOnce' /\ (WakesFirst => WakesFirst')
  <1>1. /\ Len(inputs) \in Nat \ {0} /\ DOMAIN inputs = 1 .. Len(inputs)
        /\ Head(inputs) = inputs[1] /\ \A i \in DOMAIN inputs : inputs[i] \in Messages
        /\ DOMAIN inputs' = 1 .. Len(inputs) - 1
        /\ \A i \in 1 .. Len(inputs) - 1 : inputs'[i] = inputs[i + 1]
    BY MessageFacts, TailFacts, ElementOfSeq
  <1>2. ASSUME NEW i \in DOMAIN inputs', inputs'[i].type = "utility", NEW c, c = inputs'[i].id
        PROVE  /\ i + 1 \in DOMAIN inputs /\ inputs[i + 1] = inputs'[i]
               /\ c \in Calls /\ inputs'[i] = [type |-> "utility", id |-> c]
               /\ call[c].op # Nothing /\ ~ call[c].answer /\ c \notin idlers
               /\ \A j \in DOMAIN inputs : inputs[j] = inputs'[i] => j = i + 1
               /\ Head(inputs) # [type |-> "utility", id |-> c]
    <2>1. i + 1 \in DOMAIN inputs /\ inputs[i + 1] = inputs'[i]
      BY <1>1, <1>2
    <2>2. c \in Calls /\ inputs'[i] = [type |-> "utility", id |-> c]
      BY <1>1, <1>2, <2>1 DEF Messages
    <2>3. /\ call[c].op # Nothing /\ ~ call[c].answer /\ c \notin idlers
          /\ \A j \in DOMAIN inputs : inputs[j] = inputs[i + 1] => j = i + 1
      BY <1>2, <2>1 DEF CallsOnce
    <2>4. i \in Nat \ {0} /\ 1 \in DOMAIN inputs
      BY <1>1
    <2>5. inputs[1] # inputs[i + 1]
      BY <2>3, <2>4
    <2> QED
      BY <1>1, <2>1, <2>2, <2>3, <2>5
  <1>3. CallsOnce'
    <2>1. ASSUME NEW i \in DOMAIN inputs', inputs'[i].type = "utility", NEW c, c = inputs'[i].id
          PROVE  /\ call'[c].op # Nothing /\ ~ call'[c].answer /\ c \notin idlers'
                 /\ \A j \in DOMAIN inputs' : inputs'[j] = inputs'[i] => j = i
      <3>1. call'[c].op # Nothing /\ ~ call'[c].answer /\ c \notin idlers'
        BY <1>2, <2>1
      <3>2. \A j \in DOMAIN inputs : inputs[j] = inputs'[i] => j = i + 1
        BY <1>2, <2>1
      <3>3. \A j \in DOMAIN inputs' : j + 1 \in DOMAIN inputs /\ inputs'[j] = inputs[j + 1]
        BY <1>1
      <3>4. DOMAIN inputs' \subseteq Nat
        BY <1>1
      <3> QED
        BY <3>1, <3>2, <3>3, <3>4
    <2>2. ASSUME NEW c \in Calls, c \in idlers' \/ call'[c].answer
          PROVE  call'[c].op # Nothing
      <3>1. CASE Head(inputs) = [type |-> "utility", id |-> c]
        BY <1>1, <3>1 DEF CallsOnce
      <3>2. CASE Head(inputs) # [type |-> "utility", id |-> c]
        BY <2>2, <3>2 DEF CallsOnce
      <3> QED
        BY <3>1, <3>2
    <2> QED
      BY <2>1, <2>2 DEF CallsOnce
  <1>4. WakesFirst => WakesFirst'
    <2> SUFFICES ASSUME WakesFirst, NEW i \in DOMAIN inputs', NEW d, d = inputs'[i].id,
                        inputs'[i].type = "utility", call'[d].op \in Wakes
                 PROVE  /\ \A c \in Calls : Sleeps(call'[c].op) /\ ~ call'[c].answer =>
                             \E j \in DOMAIN inputs' :
                               j > i /\ inputs'[j] = [type |-> "utility", id |-> c]
                        /\ call'[d].op = "resume" => ~ asleep'
      BY DEF WakesFirst
    <2>1. /\ i + 1 \in DOMAIN inputs /\ inputs[i + 1].type = "utility" /\ inputs[i + 1].id = d
          /\ i \in Nat /\ call[d].op \in Wakes /\ call'[d].op = call[d].op
      <3>1. d \in Calls /\ i + 1 \in DOMAIN inputs /\ inputs[i + 1] = inputs'[i]
        BY <1>2
      <3>2. i \in Nat
        BY <1>1
      <3> QED
        BY <3>1, <3>2
    <2>2. ASSUME NEW c \in Calls, Sleeps(call[c].op), ~ call[c].answer
          PROVE  \E j \in DOMAIN inputs :
                   j > i + 1 /\ inputs[j] = [type |-> "utility", id |-> c]
      BY <2>1, <2>2 DEF WakesFirst
    <2>3. ASSUME NEW c \in Calls, Sleeps(call[c].op), Head(inputs) = [type |-> "utility", id |-> c]
          PROVE  FALSE
      <3>1. /\ ~ call[c].answer
            /\ \A j \in DOMAIN inputs : inputs[j] = [type |-> "utility", id |-> c] => j = 1
        BY <1>1, <2>3 DEF CallsOnce
      <3> QED
        BY <2>1, <2>2, <2>3, <3>1
    <2>4. ASSUME NEW c \in Calls, Sleeps(call'[c].op), ~ call'[c].answer
          PROVE  \E j \in DOMAIN inputs' : j > i /\ inputs'[j] = [type |-> "utility", id |-> c]
      <3>1. Sleeps(call[c].op) /\ ~ call[c].answer
        BY <2>3, <2>4
      <3>2. PICK j \in DOMAIN inputs : j > i + 1 /\ inputs[j] = [type |-> "utility", id |-> c]
        BY <2>2, <3>1
      <3>3. j - 1 \in DOMAIN inputs' /\ j - 1 > i /\ inputs'[j - 1] = inputs[j]
        BY <1>1, <2>1, <3>2
      <3> QED
        BY <3>2, <3>3
    <2>5. call[d].op = "resume" => ~ asleep'
      BY <2>1, <2>3 DEF WakesFirst
    <2> QED
      BY <2>1, <2>4, <2>5
  <1> QED
    BY <1>3, <1>4

(* A new call is the last message; patient clients send none that wakes    *)
(* while a sleep is not answered.                                          *)
LEMMA CallSent ==
  ASSUME TypeOK, CallsOnce, NEW c \in Calls, NEW op \in Ops, SendCall(c, op)
  PROVE  CallsOnce' /\ (Patient /\ WakesFirst => WakesFirst')
  <1> DEFINE m == [type |-> "utility", id |-> c]
  <1>1. /\ Len(inputs) \in Nat /\ DOMAIN inputs = 1 .. Len(inputs)
        /\ \A i \in 1 .. Len(inputs) : inputs'[i] = inputs[i] /\ inputs[i] \in Messages
        /\ DOMAIN inputs' = 1 .. Len(inputs) + 1
        /\ inputs'[Len(inputs) + 1] = m
    BY AppendFacts DEF SendCall, Messages, TypeOK
  <1>2. /\ call' = [call EXCEPT ![c].op = op] /\ call[c].op = Nothing /\ op # Nothing
        /\ Sensible(op) /\ UNCHANGED <<idlers, paused, asleep, calm>>
    BY OpsFacts DEF SendCall, scheduler
  <1>3. /\ \A d \in Calls : /\ call'[d].answer = call[d].answer
                            /\ d # c => call'[d].op = call[d].op
        /\ call'[c].op = op /\ ~ call[c].answer
    BY <1>2 DEF TypeOK, CallsOnce
  <1>4. \A i \in 1 .. Len(inputs) : inputs[i].type = "utility" =>
            inputs[i].id \in Calls /\ inputs[i].id # c
    BY <1>1, <1>2 DEF CallsOnce, Messages
  <1>5. c \notin idlers
    BY <1>2 DEF CallsOnce
  <1>6. CallsOnce'
    <2>1. ASSUME NEW i \in DOMAIN inputs', inputs'[i].type = "utility", NEW d, d = inputs'[i].id
          PROVE  /\ call'[d].op # Nothing /\ ~ call'[d].answer /\ d \notin idlers'
                 /\ \A j \in DOMAIN inputs' : inputs'[j] = inputs'[i] => j = i
      <3>1. CASE i = Len(inputs) + 1
        <4>1. d = c /\ \A j \in 1 .. Len(inputs) : inputs'[j] # m
          BY <1>1, <1>4, <2>1, <3>1
        <4> QED
          BY <1>1, <1>2, <1>3, <1>5, <3>1, <4>1
      <3>2. CASE i \in 1 .. Len(inputs)
        <4>1. d \in Calls /\ d # c /\ inputs'[i] = inputs[i] /\ inputs'[i] # m
          BY <1>1, <1>4, <2>1, <3>2
        <4>2. /\ call[d].op # Nothing /\ ~ call[d].answer /\ d \notin idlers
              /\ \A j \in DOMAIN inputs : inputs[j] = inputs[i] => j = i
          BY <1>1, <2>1, <3>2, <4>1 DEF CallsOnce
        <4> QED
          BY <1>1, <1>2, <1>3, <3>2, <4>1, <4>2
      <3> QED
        BY <1>1, <3>1, <3>2
    <2>2. ASSUME NEW d \in Calls, d \in idlers' \/ call'[d].answer
          PROVE  call'[d].op # Nothing /\ (d \in idlers' => ~ call'[d].answer)
      BY <1>2, <1>3, <2>2 DEF CallsOnce
    <2> QED
      BY <1>2, <2>1, <2>2 DEF CallsOnce, TypeOK
  <1>7. Patient /\ WakesFirst => WakesFirst'
    <2> SUFFICES ASSUME Patient, WakesFirst,
                        NEW i \in DOMAIN inputs', NEW d, d = inputs'[i].id,
                        inputs'[i].type = "utility", call'[d].op \in Wakes
                 PROVE  /\ \A e \in Calls : Sleeps(call'[e].op) /\ ~ call'[e].answer =>
                             \E j \in DOMAIN inputs' :
                               j > i /\ inputs'[j] = [type |-> "utility", id |-> e]
                        /\ call'[d].op = "resume" => ~ asleep'
      BY DEF WakesFirst
    <2>1. CASE i = Len(inputs) + 1
      <3>0. d = c /\ op \in Wakes
        BY <1>1, <1>3, <2>1
      <3>1. d = c /\ op \in Wakes /\ ~ Sleeps(op)
        BY <3>0, WokenFacts
      <3>2. \A e \in Calls : Sleeps(call[e].op) => call[e].answer
        BY <1>2, <3>1 DEF Sensible
      <3>3. op = "resume" => ~ asleep
        BY <1>2, <3>1 DEF Sensible
      <3> QED
        BY <1>2, <1>3, <3>1, <3>2, <3>3
    <2>2. CASE i \in 1 .. Len(inputs)
      <3>1. /\ d \in Calls /\ d # c /\ inputs[i].type = "utility" /\ inputs[i].id = d
            /\ call[d].op \in Wakes
        BY <1>1, <1>3, <1>4, <2>2
      <3>2. call[d].op = "resume" => ~ asleep
        BY <1>1, <2>2, <3>1 DEF WakesFirst
      <3>3. ASSUME NEW e \in Calls, Sleeps(call'[e].op), ~ call'[e].answer
            PROVE  \E j \in DOMAIN inputs' :
                     j > i /\ inputs'[j] = [type |-> "utility", id |-> e]
        <4>1. CASE e = c
          BY <1>1, <2>2, <4>1
        <4>2. CASE e # c
          <5>1. PICK j \in DOMAIN inputs : j > i /\ inputs[j] = [type |-> "utility", id |-> e]
            BY <1>1, <1>3, <2>2, <3>1, <3>3, <4>2 DEF WakesFirst
          <5> QED
            BY <1>1, <5>1
        <4> QED
          BY <4>1, <4>2
      <3> QED
        BY <1>2, <1>3, <3>1, <3>2, <3>3
    <2> QED
      BY <1>1, <2>1, <2>2
  <1> QED
    BY <1>6, <1>7

LEMMA CallStep ==
  ASSUME TypeOK, CallsOnce, [Next]_vars
  PROVE  CallsOnce' /\ (Patient /\ WakesFirst => WakesFirst')
  <1> USE DEF threads, clients, scheduler
  <1> DEFINE Goal == CallsOnce' /\ (Patient /\ WakesFirst => WakesFirst')
  <1>1. ASSUME NEW r \in Requests, SendAdd(r)  PROVE Goal
    <2>1. [type |-> "add", id |-> r] \in Messages
      BY DEF Messages
    <2> QED
      BY <1>1, <2>1, OtherSent DEF SendAdd, unchangedCalls
  <1>2. ASSUME ExecutorFails  PROVE Goal
    <2>1. [type |-> "failed", id |-> Nobody] \in Messages
      BY DEF Messages
    <2> QED
      BY <1>2, <2>1, OtherSent DEF ExecutorFails, unchangedCalls
  <1>3. ASSUME PostAbort  PROVE Goal
    <2>1. [type |-> "abort", id |-> posting] \in Messages
      BY <1>3 DEF Messages, PostAbort, TypeOK
    <2> QED
      BY <1>3, <2>1, OtherSent DEF PostAbort, unchangedCalls
  <1>4. ASSUME Wakeup  PROVE Goal
    <2>1. [type |-> "wakeup", id |-> Nobody] \in Messages
      BY DEF Messages
    <2> QED
      BY <1>4, <2>1, OtherSent DEF Wakeup, unchangedCalls
  <1>5. CASE inputs' = inputs /\ unchangedCalls
    BY <1>5, CallsKept
  <1>6. ASSUME Notify  PROVE Goal
    <2>1. /\ inputs' = inputs /\ idlers' = {} /\ Answer(idlers)
          /\ asleep' = (asleep \/ PutsToSleep(idlers))
      BY <1>6 DEF Notify
    <2>2. \A c \in Calls : /\ call'[c].op = call[c].op
                           /\ call'[c].answer = (call[c].answer \/ c \in idlers)
      BY <2>1, AnswerType
    <2>3. CallsOnce'
      <3>1. ASSUME NEW i \in DOMAIN inputs, inputs[i].type = "utility", NEW c, c = inputs[i].id
            PROVE  /\ call'[c].op # Nothing /\ ~ call'[c].answer /\ c \notin idlers'
                   /\ \A j \in DOMAIN inputs : inputs[j] = inputs[i] => j = i
        <4>1. inputs[i] \in Messages
          BY ElementOfSeq, LenProperties DEF TypeOK
        <4>2. c \in Calls
          BY <3>1, <4>1 DEF Messages
        <4> QED
          BY <2>1, <2>2, <3>1, <4>2 DEF CallsOnce
      <3>2. \A c \in Calls : call'[c].answer => call'[c].op # Nothing
        BY <2>2 DEF CallsOnce
      <3> QED
        BY <2>1, <3>1, <3>2 DEF CallsOnce
    <2>4. ASSUME WakesFirst, NEW i \in DOMAIN inputs, NEW d, d = inputs[i].id,
                 inputs[i].type = "utility", call'[d].op \in Wakes
          PROVE  /\ \A c \in Calls : Sleeps(call'[c].op) /\ ~ call'[c].answer =>
                      \E j \in DOMAIN inputs :
                        j > i /\ inputs[j] = [type |-> "utility", id |-> c]
                 /\ call'[d].op = "resume" => ~ asleep'
      <3>1. inputs[i] \in Messages
        BY ElementOfSeq, LenProperties DEF TypeOK
      <3>2. d \in Calls /\ call[d].op = call'[d].op
        BY <2>2, <2>4, <3>1 DEF Messages
      <3>3. \A c \in Calls : Sleeps(call[c].op) /\ ~ call[c].answer =>
                 \E j \in DOMAIN inputs :
                   j > i /\ inputs[j] = [type |-> "utility", id |-> c]
        BY <2>4, <3>2 DEF WakesFirst
      <3>4. \A c \in idlers : c \in Calls /\ ~ Sleeps(call[c].op)
        BY <3>3 DEF CallsOnce, TypeOK
      <3>5. call'[d].op = "resume" => ~ asleep'
        BY <2>1, <2>4, <3>2, <3>4 DEF WakesFirst, PutsToSleep
      <3> QED
        BY <2>2, <3>3, <3>5
    <2> QED
      BY <2>1, <2>3, <2>4 DEF WakesFirst
  <1>7. ASSUME HandleAdd \/ HandleAbort \/ HandleNothing  PROVE Goal
    <2>1. PICK type : type # "utility" /\ Message(type)
      BY <1>7 DEF HandleAdd, HandleAbort, HandleNothing
    <2>2. unchangedCalls
      BY <1>7 DEF HandleAdd, HandleAbort, HandleNothing, unchangedPause, unchangedCalls
    <2>3. Head(inputs).type # "utility"
      BY <2>1 DEF Message
    <2>4. idlers' \subseteq {c \in Calls : ~ call'[c].answer}
      BY <2>2 DEF unchangedCalls, CallsOnce, TypeOK
    <2> QED
      BY <2>1, <2>2, <2>3, <2>4, CallHandled DEF unchangedCalls
  <1>8. ASSUME RejectCall \/ Pause \/ Resume  PROVE Goal
    <2>1. Message("utility")
      BY <1>8 DEF RejectCall, Pause, Resume
    <2>2. PICK c \in Calls : /\ c = Head(inputs).id
                             /\ Head(inputs) = [type |-> "utility", id |-> c]
      BY <2>1, MessageFacts DEF Message, Messages
    <2>3. ~ call[c].answer /\ \A d \in idlers : d \in Calls /\ ~ call[d].answer /\ d # c
      BY <2>1, <2>2, MessageFacts, TailFacts DEF CallsOnce, TypeOK
    <2>4. CASE Answer({c}) /\ idlers' = idlers
               /\ (asleep' => asleep \/ Sleeps(call[c].op))
      <3>1. /\ \A d \in Calls : call'[d].op = call[d].op
            /\ \A d \in Calls : call'[d].answer = (call[d].answer \/ d \in {c})
        BY <2>4, AnswerType
      <3>2. \A d \in Calls : d # c => call'[d].answer = call[d].answer
        BY <3>1 DEF TypeOK
      <3>3. idlers' \subseteq {d \in Calls : ~ call'[d].answer}
        BY <2>3, <2>4, <3>2
      <3> QED
        BY <2>1, <2>2, <2>4, <3>1, <3>2, <3>3, CallHandled
    <2>5. CASE call' = call /\ idlers' = idlers \cup {c} /\ asleep' = asleep
      <3>1. idlers' \subseteq {d \in Calls : ~ call'[d].answer}
        BY <2>3, <2>5
      <3> QED
        BY <2>1, <2>2, <2>5, <3>1, CallHandled
    <2>6. ASSUME RejectCall  PROVE Answer({c}) /\ idlers' = idlers /\ asleep' = asleep
      BY <2>2, <2>6 DEF RejectCall
    <2>7. ASSUME Resume
          PROVE  Answer({c}) /\ idlers' = idlers /\ (asleep' => asleep)
      <3>1. Answer({c}) /\ idlers' = idlers /\ call[c].op \in Wakes
            /\ asleep' \in Woken(call[c].op)
        BY <2>2, <2>7 DEF Resume
      <3> QED
        BY <3>1, WokenFacts
    <2>8. ASSUME Pause
          PROVE  \/ Answer({c}) /\ idlers' = idlers
                    /\ (asleep' => asleep \/ Sleeps(call[c].op))
                 \/ call' = call /\ idlers' = idlers \cup {c} /\ asleep' = asleep
      <3> DEFINE op   == call[c].op
                 stop == IF op \in Aborting THEN Requests ELSE {}
                 idle == ~ HasWork(Marked(stop), flush', paused')
      <3>1. /\ idlers' = IF idle THEN idlers ELSE idlers \cup {c}
            /\ IF idle THEN Answer({c}) ELSE UNCHANGED call
            /\ asleep' = (asleep \/ (idle /\ Sleeps(op)))
        BY <2>2, <2>8 DEF Pause
      <3>2. asleep \in BOOLEAN
        BY DEF TypeOK
      <3> HIDE DEF idle
      <3>3. CASE idle
        BY <3>1, <3>3
      <3>4. CASE ~ idle
        BY <3>1, <3>2, <3>4
      <3> QED
        BY <3>3, <3>4
    <2> QED
      BY <1>8, <2>4, <2>5, <2>6, <2>7, <2>8
  <1>9. ASSUME \/ Signal \/ HandleShutdown \/ GoOn \/ ClearAborts \/ Schedule
               \/ Hold \/ Result \/ ResultFails \/ Work \/ UNCHANGED vars
               \/ \E r \in Requests : SendAbort(r)
        PROVE  inputs' = inputs /\ unchangedCalls
    BY <1>9 DEF Signal, HandleShutdown, GoOn, ClearAborts, Schedule, Enqueue, Hold, Result,
                ResultFails, Work, vars, SendAbort, unchangedCalls
  <1>10. ASSUME NEW c \in Calls, NEW op \in Ops, SendCall(c, op)  PROVE Goal
    BY <1>10, CallSent
  <1> HIDE DEF Goal
  <1>11. Goal
    BY <1>1, <1>2, <1>3, <1>4, <1>5, <1>6, <1>7, <1>8, <1>9, <1>10,
       ProcAssumption DEF Next, Senders, Engine, Terminated, Goal
  <1> QED
    BY <1>11 DEF Goal

(* Who sleeps, or waits to, keeps the scheduler paused: a wake_up that     *)
(* resumes has woken the executor, a resume finds it awake, and a sleep is *)
(* answered when what ran has been preempted.                              *)
LEMMA SleepersStep ==
  ASSUME TypeOK, CallsOnce, SleepInv, [Next]_vars
  PROVE  SleepersPaused'
  <1> USE DEF threads, clients, scheduler
  <1>0. asleep => Still /\ Ids("running") = {}
    BY DEF SleepInv, SleepersPaused
  <1>1. ASSUME asleep, paused' # "no"  PROVE Still' /\ Ids("running")' = {}
    <2>1. InFlight' = {} /\ Ids("running")' = {}
      BY <1>0, <1>1, StillStep
    <2> QED
      BY <1>1, <2>1 DEF Still
  <1>2. CASE /\ paused' = paused /\ (asleep' => asleep)
             /\ \A c \in idlers' : c \in idlers /\ call'[c].op = call[c].op
    <2>1. asleep' => Still' /\ Ids("running")' = {}
      BY <1>0, <1>1, <1>2 DEF Still
    <2> QED
      BY <1>2, <2>1 DEF SleepInv, SleepersPaused
  <1>3. ASSUME Notify  PROVE SleepersPaused'
    <2>1. idlers' = {}
      BY <1>3 DEF Notify
    <2>2. CASE PutsToSleep(idlers)
      <3>1. paused' # "no"
        BY <1>3, <2>2, NotifyFacts DEF PutsToSleep, SleepInv, SleepersPaused
      <3> QED
        BY <1>3, <2>1, <2>2, <3>1, NotifyFacts DEF SleepersPaused, Still
    <2>3. CASE ~ PutsToSleep(idlers)
      BY <1>2, <1>3, <2>1, <2>3, NotifyFacts
    <2> QED
      BY <2>2, <2>3
  <1>4. ASSUME Pause  PROVE SleepersPaused'
    <2>1. PICK op \in Utilities \cup {Nothing}, idle \in BOOLEAN :
            /\ paused' \in {"new", "all"} /\ asleep' = (asleep \/ (idle /\ Sleeps(op)))
            /\ idle => InFlight' = {}
            /\ idle /\ Sleeps(op) => Ids("running")' = {}
      BY <1>4, PauseFacts
    <2>2. CASE idle /\ Sleeps(op)
      BY <2>1, <2>2 DEF SleepersPaused, Still
    <2>3. CASE ~ (idle /\ Sleeps(op))
      BY <1>1, <2>1, <2>3 DEF SleepersPaused
    <2> QED
      BY <2>2, <2>3
  <1>5. ASSUME Resume  PROVE SleepersPaused'
    <2>1. PICK c \in Calls : /\ c = Head(inputs).id
                             /\ call[c].op \in Wakes /\ asleep' \in Woken(call[c].op)
                             /\ paused' = IF call[c].op # "resume" /\ asleep'
                                          THEN paused ELSE "no"
                             /\ Answer({c}) /\ idlers' = idlers
      BY <1>5, MessageFacts DEF Resume
    <2>2. 1 \in DOMAIN inputs /\ inputs[1].type = "utility" /\ inputs[1].id = c
      <3>1. Message("utility") /\ Head(inputs).type = "utility"
        BY <1>5 DEF Resume, Message
      <3> QED
        BY <2>1, <3>1, MessageFacts, TailFacts
    <2>3. /\ call[c].op = "resume" => ~ asleep
          /\ \A d \in Calls : Sleeps(call[d].op) /\ ~ call[d].answer =>
               \E j \in DOMAIN inputs :
                 j > 1 /\ inputs[j] = [type |-> "utility", id |-> d]
      BY <2>1, <2>2 DEF SleepInv, WakesFirst
    <2>4. \A d \in idlers : ~ Sleeps(call[d].op)
      BY <2>3 DEF CallsOnce, TypeOK
    <2>5. \A d \in idlers' : ~ Sleeps(call'[d].op)
      BY <2>1, <2>4, AnswerType DEF TypeOK
    <2>6. ASSUME asleep'  PROVE Still' /\ Ids("running")' = {}
      <3>1. asleep /\ call[c].op # "resume"
        BY <2>1, <2>3, <2>6, WokenFacts
      <3>2. paused' = paused
        BY <2>1, <2>6, <3>1
      <3> QED
        BY <1>0, <1>1, <3>1, <3>2 DEF Still
    <2> QED
      BY <2>5, <2>6 DEF SleepersPaused
  <1>6. ASSUME RejectCall
        PROVE  /\ paused' = paused /\ asleep' = asleep
               /\ \A c \in idlers' : c \in idlers /\ call'[c].op = call[c].op
    <2>1. PICK c : Answer({c}) /\ UNCHANGED <<paused, asleep, idlers>>
      BY <1>6 DEF RejectCall
    <2> QED
      BY <2>1, AnswerType DEF TypeOK
  <1>7. ASSUME NEW c \in Calls, NEW op \in Ops, SendCall(c, op)
        PROVE  /\ paused' = paused /\ asleep' = asleep
               /\ \A d \in idlers' : d \in idlers /\ call'[d].op = call[d].op
    <2>1. /\ call' = [call EXCEPT ![c].op = op] /\ call[c].op = Nothing
          /\ UNCHANGED <<paused, asleep, idlers>>
      BY <1>7 DEF SendCall
    <2>2. \A d \in idlers : d \in Calls /\ d # c
      BY <2>1 DEF CallsOnce, TypeOK
    <2> QED
      BY <2>1, <2>2 DEF TypeOK
  <1>8. ASSUME \/ ExecutorFails \/ PostAbort \/ Wakeup \/ Signal \/ GoOn \/ ClearAborts
               \/ Hold \/ ResultFails \/ Schedule \/ Result \/ Work \/ UNCHANGED vars
               \/ HandleShutdown \/ HandleAdd \/ HandleAbort \/ HandleNothing
               \/ \E r \in Requests : SendAdd(r) \/ SendAbort(r)
        PROVE  UNCHANGED <<paused, asleep, idlers, call>>
    BY <1>8 DEF ExecutorFails, PostAbort, Wakeup, Signal, GoOn, ClearAborts, Hold, Schedule,
                Enqueue, Result, Work, ResultFails, vars, SendAdd, SendAbort, HandleShutdown,
                HandleAdd, HandleAbort, HandleNothing, unchangedPause
  <1> QED
    BY <1>2, <1>3, <1>4, <1>5, <1>6, <1>7, <1>8,
       ProcAssumption DEF Next, Senders, Engine, Terminated

-----------------------------------------------------------------------------
(* The theorems.                                                           *)

LEMMA InvInit == Init => IInv
  <1> SUFFICES ASSUME Init  PROVE IInv
    OBVIOUS
  <1>1. inputs = <<>> /\ DOMAIN inputs = {} /\ DOMAIN queue = {} /\ idlers = {} /\ ~ asleep
        /\ gone = {} /\ aborts = {} /\ posting = Nobody /\ ~ calm
        /\ pc = "top" /\ shutdown = "running"
    BY DEF Init
  <1>2. \A r \in Requests : status[r] = "unsent" /\ answers[r] = 0
    BY DEF Init
  <1>3. \A c \in Calls : call[c].answer = FALSE
    BY DEF Init
  <1>4. RequestInv
    BY <1>1, <1>2 DEF RequestInv, AddsFollowed, AbortsEnd, OnlyGoneAborted, SentUnread,
                      ToldOnce, NothingStarts, Before, Nobody
  <1>5. CallsOnce /\ PauseHolds /\ SleepInv
    BY <1>1, <1>3 DEF PauseHolds, SleepInv, CallsOnce, WakesFirst, SleepersPaused
  <1> QED
    BY <1>4, <1>5, TypeInit DEF IInv

LEMMA InvStep == IInv /\ [Next]_vars => IInv'
  <1> SUFFICES ASSUME IInv, [Next]_vars  PROVE IInv'
    OBVIOUS
  <1>1. TypeOK /\ MessageInv /\ ToldOnce /\ NothingStarts /\ CallsOnce /\ PauseHolds
    BY DEF IInv, RequestInv, MessageInv
  <1>2. TypeOK'
    BY <1>1, TypeStep DEF MessageInv
  <1>3. RequestInv'
    BY <1>1, MessageStep, ToldStep, ShutdownStep DEF RequestInv, MessageInv
  <1>4. PauseHolds'
    BY <1>1, PauseStep
  <1>5. CallsOnce'
    BY <1>1, CallStep
  <1>6. ASSUME Patient  PROVE SleepInv'
    <2>1. SleepInv
      BY <1>6 DEF IInv
    <2>2. WakesFirst'
      BY <1>1, <1>6, <2>1, CallStep DEF SleepInv
    <2>3. SleepersPaused'
      BY <1>1, <2>1, SleepersStep
    <2> QED
      BY <2>2, <2>3 DEF SleepInv
  <1> QED
    BY <1>2, <1>3, <1>4, <1>5, <1>6 DEF IInv

(* The engine's invariant holds in every behaviour, whatever the clients   *)
(* send, however the threads interleave and whenever a signal or a failure *)
(* comes.  Of its parts only SleepInv, which says who keeps a sleeping     *)
(* executor idle, asks for patient clients.                                *)
THEOREM Invariant == Spec => []IInv
  BY InvInit, InvStep, PTL DEF Spec

(* An abort holds: once the engine has handled what a client has sent, a   *)
(* request the client has given up is neither run nor kept.                *)
THEOREM AbortsAlwaysHold == Spec => []AbortsHold
  <1>1. IInv => AbortsHold
    <2> SUFFICES ASSUME IInv, NEW r \in gone, posting # r,
                        \A i \in DOMAIN inputs : inputs[i] # [type |-> "abort", id |-> r]
                 PROVE  ~ Live(r) \/ Ended
      BY DEF AbortsHold
    <2> QED
      BY DEF IInv, RequestInv, AbortsEnd, AbortComes
  <1> QED
    BY <1>1, Invariant, PTL

(* The answer to a pause is true until a call resumes, or until a pause in *)
(* another mode lets the requests run that an earlier one kept: nothing is *)
(* in flight and nothing can be scheduled.                                 *)
THEOREM PausesAlwaysHold == Spec => []PauseHolds
  <1>1. IInv => PauseHolds
    BY DEF IInv
  <1> QED
    BY <1>1, Invariant, PTL

(* No client is told twice; and an engine that exits has told every client *)
(* whose request it has seen, unless the client has given it up or what it *)
(* was to drain was paused.                                                *)
THEOREM NobodyForgotten == Spec => []NoneForgotten
  <1>1. IInv => NoneForgotten
    <2> SUFFICES ASSUME IInv, NEW r \in Requests
                 PROVE  /\ answers[r] <= 1
                        /\ pc = "exited" /\ ~ (drain /\ paused # "no") /\ r \notin gone
                             => answers[r] = 1 \/ status[r] = "unsent" \/ Unread(r)
      BY DEF NoneForgotten
    <2>1. answers[r] <= 1 /\ (status[r] \notin Before /\ r \notin gone => answers[r] = 1)
      BY DEF IInv, RequestInv, ToldOnce
    <2>2. pc = "exited" /\ ~ (drain /\ paused # "no") => ~ Live(r)
      BY DEF IInv, RequestInv, NothingStarts
    <2>3. status[r] = "sent" => Unread(r)
      BY DEF IInv, RequestInv, SentUnread
    <2> QED
      BY <2>1, <2>2, <2>3 DEF Before, Live
  <1> QED
    BY <1>1, Invariant, PTL

(* When clients wait for the answers of sleep() before they wake up or     *)
(* resume, and resume only an executor that is awake, no request runs, and *)
(* none can be scheduled, while the executor sleeps.  The code asks them   *)
(* for neither.                                                            *)
THEOREM AlwaysResidentToRun ==
  ASSUME Patient
  PROVE  Spec => []ResidentToRun
  <1>1. IInv => ResidentToRun
    BY Patient DEF IInv, SleepInv, SleepersPaused, Still, ResidentToRun
  <1> QED
    BY <1>1, Invariant, PTL
=============================================================================
