---------------------- MODULE RdnaCustomAllreduceProofs ----------------------
(***************************************************************************)
(* RdnaCustomAllreduce keeps its invariants and implements GroupSwitch,    *)
(* for any ranks and peers, whatever fails, and whatever is repeated.      *)
(***************************************************************************)
EXTENDS RdnaCustomAllreduceInv, SequenceTheorems, TLAPS

(* The collectives a rank has entered.                                     *)
LEMMA LogFacts ==
  ASSUME TypeOK, NEW r \in Rank
  PROVE  /\ Len(log[r]) \in Nat /\ DOMAIN log[r] = 1 .. Len(log[r])
         /\ \A n \in 1 .. Len(log[r]) : log[r][n] \in Entries
  BY LenProperties, ElementOfSeq DEF TypeOK

(* One more.                                                               *)
LEMMA EnterFacts ==
  ASSUME TypeOK, NEW r \in Rank, NEW s \in Sites, NEW v \in Reports, Enter(r, s, v)
  PROVE  /\ log' \in [Rank -> Seq(Entries)]
         /\ \A q \in Rank : q # r => log'[q] = log[q]
         /\ Len(log'[r]) = Len(log[r]) + 1
         /\ DOMAIN log'[r] = 1 .. Len(log[r]) + 1
         /\ \A n \in 1 .. Len(log[r]) : log'[r][n] = log[r][n]
         /\ log'[r][Len(log[r]) + 1] = [site |-> s, value |-> v]
  <1> DEFINE e == [site |-> s, value |-> v]
  <1>1. e \in Entries /\ log[r] \in Seq(Entries)
    BY DEF Entries, TypeOK
  <1>2. log' = [log EXCEPT ![r] = Append(log[r], e)]
    BY DEF Enter
  <1>3. /\ log'[r] = Append(log[r], e)
        /\ \A q \in Rank : q # r => log'[q] = log[q]
    BY <1>2 DEF TypeOK
  <1> HIDE DEF e
  <1>4. /\ Append(log[r], e) \in Seq(Entries)
        /\ Len(Append(log[r], e)) = Len(log[r]) + 1
        /\ \A n \in 1 .. Len(log[r]) : Append(log[r], e)[n] = log[r][n]
        /\ Append(log[r], e)[Len(log[r]) + 1] = e
    BY <1>1, AppendProperties
  <1>5. DOMAIN Append(log[r], e) = 1 .. Len(log[r]) + 1
    BY <1>4, LenProperties
  <1>6. log' \in [Rank -> Seq(Entries)]
    BY <1>2, <1>4 DEF TypeOK
  <1> QED
    BY <1>3, <1>4, <1>5, <1>6 DEF e

-----------------------------------------------------------------------------
(* Types.                                                                  *)

LEMMA TypeInit == Init => TypeOK
  <1> SUFFICES ASSUME Init  PROVE TypeOK
    OBVIOUS
  <1>1. <<>> \in Seq(Entries) /\ <<>> \in Seq(Rank)
    BY EmptySeq
  <1>2. hooked \in BOOLEAN
    BY DEF Init
  <1>3. work \in Nat
    BY GroupAssumption DEF Init
  <1> QED
    BY <1>1, <1>2, <1>3 DEF Init, TypeOK, Places

(* Some of rank r's peers, from the m-th to the n-th of those it has.      *)
LEMMA SubSeqType ==
  ASSUME NEW s \in Seq(Rank), NEW m \in 1 .. Len(s) + 1, NEW n \in 0 .. Len(s)
  PROVE  SubSeq(s, m, n) \in Seq(Rank)
  BY SubSeqProperties, LenProperties

LEMMA PeersType ==
  ASSUME NEW r \in Rank
  PROVE  /\ Peers[r] \in Seq(Rank) /\ Len(Peers[r]) \in Nat
         /\ SubSeq(Peers[r], 1, Len(Peers[r])) = Peers[r]
         /\ \A n \in 0 .. Len(Peers[r]) : SubSeq(Peers[r], 1, n) \in Seq(Rank)
  <1>1. Peers[r] \in Seq(Rank \ {r})
    BY GroupAssumption
  <1>2. Len(Peers[r]) \in Nat /\ \A n \in 1 .. Len(Peers[r]) : Peers[r][n] \in Rank
    BY <1>1, LenProperties, ElementOfSeq
  <1>3. Peers[r] \in Seq(Rank)
    BY <1>1, <1>2, LenProperties, SeqDef
  <1> QED
    BY <1>2, <1>3, SubSeqType, SubSeqFull

LEMMA TypeStep ==
  ASSUME TypeOK, [Next]_vars
  PROVE  TypeOK'
  <1> USE DEF unchangedResources, unchangedUse, Goto, Places
  <1>1. ASSUME NEW r \in Rank, Skip(r)  PROVE TypeOK'
    BY <1>1 DEF Skip, TypeOK
  <1>2. ASSUME NEW r \in Rank, Construct(r)  PROVE TypeOK'
    <2>1. option[r] \in Reports /\ "settings" \in Sites
      BY DEF TypeOK, Reports, Sites
    <2> QED
      BY <1>2, <2>1, EnterFacts DEF Construct, TypeOK, Sites
  <1>3. ASSUME NEW r \in Rank, Identify(r)  PROVE TypeOK'
    <2>1. log' \in [Rank -> Seq(Entries)]
      <3>1. CASE UNCHANGED log
        BY <3>1 DEF TypeOK
      <3>2. CASE ~ UNCHANGED log
        <4>1. PICK v \in {<<>>, <<Arch[r], Gpu[r]>>} : Enter(r, "identity", v)
          BY <1>3, <3>2 DEF Identify
        <4>2. v \in Reports /\ "identity" \in Sites
          BY DEF Reports, Sites
        <4> QED
          BY <4>1, <4>2, EnterFacts
      <3> QED
        BY <3>1, <3>2
    <2>2. pc' \in [Rank -> Sites \cup Places]
      <3>1. \E place \in {"off", "identity"} : Goto(r, place)
        BY <1>3 DEF Identify
      <3> QED
        BY <3>1 DEF TypeOK, Sites, Places
    <2> QED
      BY <1>3, <2>1, <2>2 DEF Identify, TypeOK
  <1>4. ASSUME NEW r \in Rank, ProbeAccess(r)  PROVE TypeOK'
    <2>1. log' \in [Rank -> Seq(Entries)]
      <3>1. CASE UNCHANGED log
        BY <3>1 DEF TypeOK
      <3>2. CASE ~ UNCHANGED log
        <4>1. PICK v \in {"ok", "error"} : Enter(r, "access", v)
          BY <1>4, <3>2 DEF ProbeAccess
        <4>2. v \in Reports /\ "access" \in Sites
          BY DEF Reports, Sites
        <4> QED
          BY <4>1, <4>2, EnterFacts
      <3> QED
        BY <3>1, <3>2
    <2>2. pc' \in [Rank -> Sites \cup Places]
      BY <1>4 DEF ProbeAccess, TypeOK, Sites
    <2> QED
      BY <1>4, <2>1, <2>2 DEF ProbeAccess, TypeOK
  <1>5. ASSUME NEW r \in Rank, Allocate(r)  PROVE TypeOK'
    <2>1. log' \in [Rank -> Seq(Entries)]
      <3>1. CASE UNCHANGED log
        BY <3>1 DEF TypeOK
      <3>2. CASE ~ UNCHANGED log
        <4>1. PICK v \in {"ok", "error"} : Enter(r, "allocate", v)
          BY <1>5, <3>2 DEF Allocate
        <4>2. v \in Reports /\ "allocate" \in Sites
          BY DEF Reports, Sites
        <4> QED
          BY <4>1, <4>2, EnterFacts
      <3> QED
        BY <3>1, <3>2
    <2>2. pc' \in [Rank -> Sites \cup Places]
      <3>1. \E place \in {"off", "allocate"} : Goto(r, place)
        BY <1>5 DEF Allocate
      <3> QED
        BY <3>1 DEF TypeOK, Sites, Places
    <2> QED
      BY <1>5, <2>1, <2>2 DEF Allocate, TypeOK
  <1>6. ASSUME NEW r \in Rank, ExchangeHandles(r)  PROVE TypeOK'
    <2>1. log' \in [Rank -> Seq(Entries)]
      <3>1. CASE UNCHANGED log
        BY <3>1 DEF TypeOK
      <3>2. CASE ~ UNCHANGED log
        <4>1. PICK v \in {"handle"} : Enter(r, "handles", v)
          BY <1>6, <3>2 DEF ExchangeHandles
        <4>2. v \in Reports /\ "handles" \in Sites
          BY DEF Reports, Sites
        <4> QED
          BY <4>1, <4>2, EnterFacts
      <3> QED
        BY <3>1, <3>2
    <2>2. pc' \in [Rank -> Sites \cup Places]
      <3>1. \E place \in {"closing", "handles"} : Goto(r, place)
        BY <1>6 DEF ExchangeHandles
      <3> QED
        BY <3>1 DEF TypeOK, Sites
    <2> QED
      BY <1>6, <2>1, <2>2 DEF ExchangeHandles, TypeOK
  <1>7. ASSUME NEW r \in Rank, OpenPeers(r)  PROVE TypeOK'
    <2>1. {"ok", "error"} \subseteq Reports /\ "open" \in Sites
      BY DEF Reports, Sites
    <2>2. PICK report \in {"ok", "error"}, opened \in 0 .. Len(Peers[r]), built \in BOOLEAN :
            /\ mapped' = [mapped EXCEPT ![r] = SubSeq(Peers[r], 1, opened)]
            /\ context' = [context EXCEPT ![r] = built]
            /\ Enter(r, "open", report)
      BY <1>7 DEF OpenPeers
    <2>3. log' \in [Rank -> Seq(Entries)]
      BY <2>1, <2>2, EnterFacts
    <2>4. mapped' \in [Rank -> Seq(Rank)]
      BY <2>2, PeersType DEF TypeOK
    <2> QED
      BY <1>7, <2>2, <2>3, <2>4 DEF OpenPeers, TypeOK, Sites
  <1>8. ASSUME NEW r \in Rank, Enable(r)  PROVE TypeOK'
    BY <1>8 DEF Enable, TypeOK
  <1>9. ASSUME NEW r \in Rank, Replay(r) \/ Finish(r)  PROVE TypeOK'
    <2>1. CASE Replay(r)
      BY <2>1 DEF Replay, TypeOK
    <2>2. CASE Finish(r)
      BY <2>2 DEF Finish, TypeOK
    <2> QED
      BY <1>9, <2>1, <2>2
  <1>10. ASSUME NEW r \in Rank, Close(r) \/ CloseAgain(r)  PROVE TypeOK'
    BY <1>10 DEF Close, CloseAgain, TypeOK
  <1>11. ASSUME NEW r \in Rank, Quiesce(r)  PROVE TypeOK'
    <2>1. "barrier" \in Reports /\ "quiet" \in Sites
      BY DEF Reports, Sites
    <2> QED
      BY <1>11, <2>1, EnterFacts DEF Quiesce, TypeOK, Sites
  <1>12. ASSUME NEW r \in Rank, Unmap(r)  PROVE TypeOK'
    <2>1. "barrier" \in Reports /\ "unmapped" \in Sites /\ <<>> \in Seq(Rank)
      BY EmptySeq DEF Reports, Sites
    <2> QED
      BY <1>12, <2>1, EnterFacts DEF Unmap, TypeOK, Sites
  <1>13. ASSUME NEW r \in Rank, UnmapFails(r)  PROVE TypeOK'
    <2>1. PICK n \in DOMAIN mapped[r] :
            mapped' = [mapped EXCEPT ![r] = SubSeq(mapped[r], n, Len(mapped[r]))]
      BY <1>13 DEF UnmapFails
    <2>2. mapped[r] \in Seq(Rank)
      BY DEF TypeOK
    <2>3. SubSeq(mapped[r], n, Len(mapped[r])) \in Seq(Rank)
      BY <2>2, SubSeqType, LenProperties
    <2> QED
      BY <1>13, <2>1, <2>3 DEF UnmapFails, TypeOK
  <1>14. ASSUME NEW r \in Rank, Free(r)  PROVE TypeOK'
    BY <1>14 DEF Free, TypeOK
  <1>15. ASSUME NEW r \in Rank, FreeFails(r)  PROVE TypeOK'
    BY <1>15 DEF FreeFails, TypeOK
  <1>16. ASSUME UNCHANGED vars  PROVE TypeOK'
    BY <1>16 DEF vars, TypeOK
  <1> QED
    BY <1>1, <1>2, <1>3, <1>4, <1>5, <1>6, <1>7, <1>8, <1>9, <1>10, <1>11, <1>12,
       <1>13, <1>14, <1>15, <1>16 DEF Next, Step, Terminated

-----------------------------------------------------------------------------
(* The itinerary of a rank.                                                *)

(* Where it goes without a collective, and where it enters one: the name   *)
(* of the place is that of the collective.                                 *)
Silent ==
    {<<"new", "absent">>, <<"settings", "off">>, <<"identity", "off">>, <<"access", "off">>,
     <<"allocate", "closing">>, <<"open", "ready">>, <<"open", "closing">>,
     <<"ready", "closing">>, <<"quiet", "raised">>, <<"raised", "closing">>,
     <<"unmapped", "closed">>, <<"unmapped", "unfreed">>, <<"unfreed", "closing">>}

Entering ==
    {<<"new", "settings">>, <<"settings", "identity">>, <<"identity", "access">>,
     <<"access", "allocate">>, <<"allocate", "handles">>, <<"handles", "open">>,
     <<"closing", "quiet">>, <<"quiet", "unmapped">>}

Stays(r)  == pc'[r] = pc[r] /\ log'[r] = log[r]
Leaves(r) == <<pc[r], pc'[r]>> \in Silent /\ log'[r] = log[r]
Enters(r) ==
    /\ <<pc[r], pc'[r]>> \in Entering
    /\ Len(log'[r]) = Len(log[r]) + 1
    /\ DOMAIN log'[r] = 1 .. Len(log[r]) + 1
    /\ \A n \in 1 .. Len(log[r]) : log'[r][n] = log[r][n]
    /\ log'[r][Len(log[r]) + 1].site = pc'[r]

(* A rank moves alone, and only from a collective that is complete.        *)
LEMMA Walk ==
  ASSUME TypeOK, NEW r \in Rank, Step(r)
  PROVE  /\ \A q \in Rank : q # r => pc'[q] = pc[q] /\ log'[q] = log[q]
         /\ Stays(r) \/ Leaves(r) \/ Enters(r)
         /\ pc'[r] = pc[r] \/ pc[r] \in {"new", "ready", "raised", "unfreed", "closing"} \/ Gathered(r)
  <1> USE DEF unchangedResources, unchangedUse
  <1> DEFINE Aside == \A q \in Rank : q # r => pc'[q] = pc[q] /\ log'[q] = log[q]
  <1>1. ASSUME NEW place, Goto(r, place), UNCHANGED log, <<pc[r], place>> \in Silent
        PROVE  Aside /\ Leaves(r)
    BY <1>1 DEF Goto, TypeOK, Leaves
  <1>2. ASSUME NEW place \in Sites, NEW v \in Reports, Goto(r, place), Enter(r, place, v),
               <<pc[r], place>> \in Entering
        PROVE  Aside /\ Enters(r)
    <2>1. pc'[r] = place /\ \A q \in Rank : q # r => pc'[q] = pc[q]
      BY <1>2 DEF Goto, TypeOK
    <2>2. /\ \A q \in Rank : q # r => log'[q] = log[q]
          /\ Len(log'[r]) = Len(log[r]) + 1
          /\ DOMAIN log'[r] = 1 .. Len(log[r]) + 1
          /\ \A n \in 1 .. Len(log[r]) : log'[r][n] = log[r][n]
          /\ log'[r][Len(log[r]) + 1] = [site |-> place, value |-> v]
      BY <1>2, EnterFacts
    <2> QED
      BY <1>2, <2>1, <2>2 DEF Enters
  <1>3. ASSUME UNCHANGED <<pc, log>>
        PROVE  Aside /\ Stays(r)
    BY <1>3 DEF Stays
  <1> HIDE DEF Aside
  <1>4. {"ok", "error", "handle", "barrier", <<>>, <<Arch[r], Gpu[r]>>, option[r]} \subseteq Reports
    BY DEF Reports, TypeOK
  <1>5. CASE Skip(r)
    BY <1>5, <1>1 DEF Skip, Silent, Aside
  <1>6. CASE Construct(r)
    BY <1>6, <1>2, <1>4 DEF Construct, Entering, Sites, Aside
  <1>7. CASE Identify(r)
    <2>1. CASE Goto(r, "off") /\ UNCHANGED log
      BY <1>7, <2>1, <1>1 DEF Identify, Silent, Aside
    <2>2. CASE \E v \in {<<>>, <<Arch[r], Gpu[r]>>} : Enter(r, "identity", v) /\ Goto(r, "identity")
      BY <1>7, <2>2, <1>2, <1>4 DEF Identify, Entering, Sites, Aside
    <2> QED
      BY <1>7, <2>1, <2>2 DEF Identify
  <1>8. CASE ProbeAccess(r)
    <2>1. CASE Goto(r, "off") /\ UNCHANGED log
      BY <1>8, <2>1, <1>1 DEF ProbeAccess, Silent, Aside
    <2>2. CASE \E v \in {"ok", "error"} : Enter(r, "access", v) /\ Goto(r, "access")
      BY <1>8, <2>2, <1>2, <1>4 DEF ProbeAccess, Entering, Sites, Aside
    <2> QED
      BY <1>8, <2>1, <2>2 DEF ProbeAccess
  <1>9. CASE Allocate(r)
    <2>1. CASE Goto(r, "off") /\ UNCHANGED log
      BY <1>9, <2>1, <1>1 DEF Allocate, Silent, Aside
    <2>2. CASE \E v \in {"ok", "error"} : Enter(r, "allocate", v) /\ Goto(r, "allocate")
      BY <1>9, <2>2, <1>2, <1>4 DEF Allocate, Entering, Sites, Aside
    <2> QED
      BY <1>9, <2>1, <2>2 DEF Allocate
  <1>10. CASE ExchangeHandles(r)
    <2>1. CASE Goto(r, "closing") /\ UNCHANGED log
      BY <1>10, <2>1, <1>1 DEF ExchangeHandles, Silent, Aside
    <2>2. CASE Enter(r, "handles", "handle") /\ Goto(r, "handles")
      BY <1>10, <2>2, <1>2, <1>4 DEF ExchangeHandles, Entering, Sites, Aside
    <2> QED
      BY <1>10, <2>1, <2>2 DEF ExchangeHandles
  <1>11. CASE OpenPeers(r)
    <2>1. PICK v \in {"ok", "error"} : Enter(r, "open", v)
      BY <1>11 DEF OpenPeers
    <2> QED
      BY <1>11, <2>1, <1>2, <1>4 DEF OpenPeers, Entering, Sites, Aside
  <1>12. CASE Enable(r)
    BY <1>12, <1>1 DEF Enable, Silent, Aside
  <1>13. CASE Replay(r) \/ Finish(r)
    BY <1>13, <1>3 DEF Replay, Finish, Aside, Stays
  <1>14. CASE Close(r) \/ CloseAgain(r)
    BY <1>14, <1>1 DEF Close, CloseAgain, Silent, Aside
  <1>15. CASE Quiesce(r)
    BY <1>15, <1>2, <1>4 DEF Quiesce, Entering, Sites, Aside
  <1>16. CASE Unmap(r)
    BY <1>16, <1>2, <1>4 DEF Unmap, Entering, Sites, Aside
  <1>17. CASE UnmapFails(r)
    BY <1>17, <1>1 DEF UnmapFails, Silent, Aside
  <1>18. CASE Free(r)
    BY <1>18, <1>1 DEF Free, Silent, Aside
  <1>19. CASE FreeFails(r)
    BY <1>19, <1>1 DEF FreeFails, Silent, Aside
  <1> QED
    BY <1>5, <1>6, <1>7, <1>8, <1>9, <1>10, <1>11, <1>12, <1>13, <1>14, <1>15, <1>16,
       <1>17, <1>18, <1>19 DEF Step

(* What moves keep: the collectives already entered.                       *)
LEMMA LogsGrow ==
  ASSUME TypeOK, NEW r \in Rank, Step(r), NEW q \in Rank
  PROVE  /\ Len(log'[q]) \in Nat /\ DOMAIN log'[q] = 1 .. Len(log'[q])
         /\ Len(log'[q]) >= Len(log[q])
         /\ \A n \in 1 .. Len(log[q]) : log'[q][n] = log[q][n]
         /\ Len(log[q]) >= 5 => (Long(q)' <=> Long(q))
  <1>1. Len(log[q]) \in Nat /\ DOMAIN log[q] = 1 .. Len(log[q])
    BY LogFacts
  <1>2. /\ Len(log'[q]) \in Nat /\ DOMAIN log'[q] = 1 .. Len(log'[q])
        /\ Len(log'[q]) >= Len(log[q])
        /\ \A n \in 1 .. Len(log[q]) : log'[q][n] = log[q][n]
    <2>1. CASE log'[q] = log[q]
      BY <1>1, <2>1
    <2>2. CASE q = r /\ Enters(r)
      BY <1>1, <2>2 DEF Enters
    <2> QED
      BY <2>1, <2>2, Walk DEF Stays, Leaves
  <1> QED
    BY <1>1, <1>2 DEF Long

LEMMA PlaceFacts ==
  ASSUME TypeOK, Progress, NEW r \in Rank
  PROVE  /\ pc[r] \in {"new", "settings", "identity", "access"} => Len(log[r]) <= 3
         /\ pc[r] = "closing" => Len(log[r]) >= 4
         /\ pc[r] \in {"handles", "open", "ready", "raised", "quiet"} \cup Passed =>
              Len(log[r]) >= 5
         /\ pc[r] \in {"ready", "raised"} => Len(log[r]) >= 6 /\ Long(r)
  <1> DEFINE n == Len(log[r])
  <1>1. n \in Nat
    BY LogFacts
  <1>2. /\ pc[r] = "closing" => n = 4 \/ n >= 6
        /\ pc[r] = "handles" => n = 5
        /\ pc[r] \in {"open", "ready"} => n = 6
        /\ pc[r] \in {"ready", "raised"} => Long(r)
    BY DEF Progress
  <1>0. /\ pc[r] = "new" => n = 0
        /\ pc[r] = "settings" => n = 1
        /\ pc[r] = "identity" => n = 2
        /\ pc[r] = "access" => n = 3
    BY DEF Progress
  <1>3. /\ pc[r] = "quiet" => n = 5 \/ n >= 7
        /\ pc[r] = "raised" => n >= 7
        /\ pc[r] \in Passed => n = 6 \/ n >= 8
    BY DEF Progress
  <1> HIDE DEF n
  <1>4. pc[r] \in {"ready", "raised"} => n >= 6 /\ Long(r)
    BY <1>1, <1>2, <1>3
  <1>5. pc[r] = "closing" => n >= 4
    BY <1>1, <1>2
  <1>6. pc[r] \in {"handles", "open", "ready", "raised", "quiet"} \cup Passed => n >= 5
    BY <1>1, <1>2, <1>3
  <1>7. pc[r] \in {"new", "settings", "identity", "access"} => n <= 3
    BY <1>0
  <1> QED
    BY <1>4, <1>5, <1>6, <1>7 DEF n

LEMMA GatheredFacts ==
  ASSUME NEW r \in Rank, Gathered(r)
  PROVE  \A q \in Rank : Len(log[q]) >= Len(log[r])
  BY DEF Gathered

(* The two ways out of the fourth collective, and a failed close.          *)
LEMMA ProgressStep ==
  ASSUME TypeOK, Progress, Enabled, Holdings, NEW r \in Rank, Step(r)
  PROVE  Progress'
  <1> USE DEF Passed
  <1> SUFFICES ASSUME NEW q \in Rank
               PROVE  LET n == Len(log'[q]) IN
                      /\ pc'[q] \in {"new", "absent"} => n = 0
                      /\ pc'[q] = "off" => n \in 1 .. 3
                      /\ pc'[q] = "settings" => n = 1
                      /\ pc'[q] = "identity" => n = 2
                      /\ pc'[q] = "access" => n = 3
                      /\ pc'[q] = "allocate" => n = 4
                      /\ pc'[q] = "handles" => n = 5 /\ Long(q)'
                      /\ pc'[q] \in {"open", "ready"} => n = 6 /\ Long(q)'
                      /\ pc'[q] = "closing" => n = 4 \/ (n >= 6 /\ Long(q)')
                      /\ pc'[q] = "quiet" => (n = 5 /\ ~ Long(q)') \/ (n >= 7 /\ Long(q)')
                      /\ pc'[q] = "raised" => n >= 7 /\ Long(q)'
                      /\ pc'[q] \in Passed =>
                           (n = 6 /\ ~ Long(q)') \/ (n >= 8 /\ Long(q)')
    BY DEF Progress
  <1>1. Len(log[q]) \in Nat /\ Len(log'[q]) \in Nat /\ DOMAIN log'[q] = 1 .. Len(log'[q])
    BY LogFacts, LogsGrow
  <1>2. Len(log[q]) >= 5 => (Long(q)' <=> Long(q))
    BY LogsGrow
  <1>3. CASE pc'[q] = pc[q] /\ log'[q] = log[q]
    <2>1. Long(q)' <=> Long(q)
      BY <1>3 DEF Long
    <2> QED
      BY <1>3, <2>1 DEF Progress
  <1>4. CASE Leaves(q)
    <2>1. Len(log'[q]) = Len(log[q])
      BY <1>4 DEF Leaves
    <2>2. Long(q)' <=> Long(q)
      BY <1>4 DEF Long, Leaves
    <2>3. pc[q] = "quiet" /\ pc'[q] = "raised" => Long(q)
      <3> SUFFICES ASSUME pc[q] = "quiet", pc'[q] = "raised"  PROVE Long(q)
        OBVIOUS
      <3>1. q = r
        BY Walk
      <3>2. UnmapFails(r)
        BY <3>1, Walk DEF Step, Skip, Construct, Identify, ProbeAccess, Allocate, ExchangeHandles,
           OpenPeers, Enable, Replay, Finish, Close, Quiesce, Unmap, CloseAgain, Free, FreeFails,
           Goto, TypeOK
      <3>3. mapped[r] # <<>>
        BY <3>2 DEF UnmapFails
      <3> QED
        BY <3>1, <3>3 DEF Holdings
    <2>4. CASE pc[q] = "new" /\ pc'[q] = "absent"
      <3>1. Len(log[q]) = 0
        BY <2>4 DEF Progress
      <3> QED
        BY <2>1, <2>2, <2>4, <3>1
    <2>5. CASE pc[q] = "settings" /\ pc'[q] = "off"
      <3>1. Len(log[q]) = 1
        BY <2>5 DEF Progress
      <3> QED
        BY <2>1, <2>2, <2>5, <3>1
    <2>6. CASE pc[q] = "identity" /\ pc'[q] = "off"
      <3>1. Len(log[q]) = 2
        BY <2>6 DEF Progress
      <3> QED
        BY <2>1, <2>2, <2>6, <3>1
    <2>7. CASE pc[q] = "access" /\ pc'[q] = "off"
      <3>1. Len(log[q]) = 3
        BY <2>7 DEF Progress
      <3> QED
        BY <2>1, <2>2, <2>7, <3>1
    <2>8. CASE pc[q] = "allocate" /\ pc'[q] = "closing"
      <3>1. Len(log[q]) = 4
        BY <2>8 DEF Progress
      <3> QED
        BY <2>1, <2>2, <2>8, <3>1
    <2>9. CASE pc[q] = "open" /\ pc'[q] = "ready"
      <3>1. Len(log[q]) = 6 /\ Long(q)
        BY <2>9 DEF Progress
      <3> QED
        BY <2>1, <2>2, <2>9, <3>1
    <2>10. CASE pc[q] = "open" /\ pc'[q] = "closing"
      <3>1. Len(log[q]) = 6 /\ Long(q)
        BY <2>10 DEF Progress
      <3> QED
        BY <2>1, <2>2, <2>10, <3>1
    <2>11. CASE pc[q] = "ready" /\ pc'[q] = "closing"
      <3>1. Len(log[q]) = 6 /\ Long(q)
        BY <2>11 DEF Progress
      <3> QED
        BY <2>1, <2>2, <2>11, <3>1
    <2>12. CASE pc[q] = "quiet" /\ pc'[q] = "raised"
      BY <1>1, <2>1, <2>2, <2>3, <2>12 DEF Progress
    <2>13. CASE pc[q] = "raised" /\ pc'[q] = "closing"
      BY <1>1, <2>1, <2>2, <2>13 DEF Progress
    <2>14. CASE pc[q] = "unmapped" /\ pc'[q] \in {"closed", "unfreed"}
      BY <1>1, <2>1, <2>2, <2>14 DEF Progress, Passed
    <2>15. CASE pc[q] = "unfreed" /\ pc'[q] = "closing"
      <3>1. q = r
        BY <2>15, Walk
      <3>2. CloseAgain(r)
        BY <2>15, <3>1, Walk DEF Step, Skip, Construct, Identify, ProbeAccess, Allocate,
           ExchangeHandles, OpenPeers, Enable, Replay, Finish, Close, Quiesce, Unmap, UnmapFails,
           Free, FreeFails, Goto, TypeOK
      <3>3. Long(q)
        BY <3>1, <3>2 DEF CloseAgain, Enabled
      <3>4. Len(log[q]) >= 8
        BY <1>1, <2>15, <3>3 DEF Progress, Passed
      <3> QED
        BY <1>1, <2>1, <2>2, <2>15, <3>3, <3>4
    <2> QED
      BY <1>4, <2>4, <2>5, <2>6, <2>7, <2>8, <2>9, <2>10, <2>11, <2>12, <2>13, <2>14, <2>15
         DEF Leaves, Silent
  <1>5. CASE Enters(q)
    <2>1. Len(log'[q]) = Len(log[q]) + 1 /\ log'[q][Len(log[q]) + 1].site = pc'[q]
      BY <1>5 DEF Enters
    <2>2. CASE pc[q] = "new" /\ pc'[q] = "settings"
      <3>1. Len(log[q]) = 0
        BY <2>2 DEF Progress
      <3>2. Len(log'[q]) = 1
        BY <2>1, <3>1
      <3> QED
        BY <2>2, <3>1, <3>2
    <2>3. CASE pc[q] = "settings" /\ pc'[q] = "identity"
      <3>1. Len(log[q]) = 1
        BY <2>3 DEF Progress
      <3>2. Len(log'[q]) = 2
        BY <2>1, <3>1
      <3> QED
        BY <2>3, <3>1, <3>2
    <2>4. CASE pc[q] = "identity" /\ pc'[q] = "access"
      <3>1. Len(log[q]) = 2
        BY <2>4 DEF Progress
      <3>2. Len(log'[q]) = 3
        BY <2>1, <3>1
      <3> QED
        BY <2>4, <3>1, <3>2
    <2>5. CASE pc[q] = "access" /\ pc'[q] = "allocate"
      <3>1. Len(log[q]) = 3
        BY <2>5 DEF Progress
      <3>2. Len(log'[q]) = 4
        BY <2>1, <3>1
      <3> QED
        BY <2>5, <3>1, <3>2
    <2>6. CASE pc[q] = "allocate" /\ pc'[q] = "handles"
      <3>1. Len(log[q]) = 4
        BY <2>6 DEF Progress
      <3>2. Len(log'[q]) = 5 /\ log'[q][5].site = "handles"
        BY <2>1, <2>6, <3>1
      <3> QED
        BY <2>6, <3>2 DEF Long
    <2>7. CASE pc[q] = "handles" /\ pc'[q] = "open"
      <3>1. Len(log[q]) = 5 /\ Long(q)
        BY <2>7 DEF Progress
      <3>2. Len(log'[q]) = 6
        BY <2>1, <3>1
      <3> QED
        BY <1>2, <2>7, <3>1, <3>2
    <2>8. CASE pc[q] = "closing" /\ pc'[q] = "quiet"
      <3>1. CASE Len(log[q]) = 4
        <4>1. Len(log'[q]) = 5 /\ log'[q][5].site = "quiet"
          BY <2>1, <2>8, <3>1
        <4> QED
          BY <2>8, <4>1 DEF Long
      <3>2. CASE Len(log[q]) >= 6 /\ Long(q)
        BY <1>1, <1>2, <2>1, <2>8, <3>2
      <3> QED
        BY <2>8, <3>1, <3>2 DEF Progress
    <2>9. CASE pc[q] = "quiet" /\ pc'[q] = "unmapped"
      <3>1. (Len(log[q]) = 5 /\ ~ Long(q)) \/ (Len(log[q]) >= 7 /\ Long(q))
        BY <2>9 DEF Progress
      <3>2. (Len(log'[q]) = 6 /\ ~ Long(q)') \/ (Len(log'[q]) >= 8 /\ Long(q)')
        <4>1. CASE Len(log[q]) = 5 /\ ~ Long(q)
          <5>1. Len(log'[q]) = 6
            BY <2>1, <4>1
          <5> QED
            BY <1>2, <4>1, <5>1
        <4>2. CASE Len(log[q]) >= 7 /\ Long(q)
          <5>1. Len(log'[q]) >= 8
            BY <1>1, <2>1, <4>2
          <5>2. Long(q)'
            BY <1>1, <1>2, <4>2
          <5> QED
            BY <5>1, <5>2
        <4> QED
          BY <3>1, <4>1, <4>2
      <3> QED
        BY <2>9, <3>2 DEF Passed
    <2> QED
      BY <1>5, <2>2, <2>3, <2>4, <2>5, <2>6, <2>7, <2>8, <2>9 DEF Enters, Entering
  <1> QED
    BY <1>3, <1>4, <1>5, Walk DEF Stays

LEMMA ItineraryStep ==
  ASSUME TypeOK, Progress, Progress', Itinerary, NEW r \in Rank, Step(r)
  PROVE  Itinerary'
  <1> SUFFICES ASSUME NEW q \in Rank, NEW n \in DOMAIN log'[q]
               PROVE  LET site == log'[q][n].site IN
                      /\ n <= 4 => site = Opening[n]
                      /\ n = 5 => site = IF Long(q)' THEN "handles" ELSE "quiet"
                      /\ n = 6 => site = IF Long(q)' THEN "open" ELSE "unmapped"
                      /\ n >= 7 => \/ site = "quiet"
                                   \/ site = "unmapped" /\ n >= 8 /\ log'[q][n - 1].site = "quiet"
                      /\ n >= 7 /\ n = Len(log'[q]) =>
                           /\ pc'[q] \in {"quiet", "raised"} => site = "quiet"
                           /\ pc'[q] \in Passed => site = "unmapped"
    BY DEF Itinerary
  <1>1. /\ Len(log[q]) \in Nat /\ DOMAIN log[q] = 1 .. Len(log[q])
        /\ Len(log'[q]) \in Nat /\ DOMAIN log'[q] = 1 .. Len(log'[q])
    BY LogFacts, LogsGrow
  <1>2. Len(log[q]) >= 5 => (Long(q)' <=> Long(q))
    BY LogsGrow
  <1>3. ASSUME log'[q] = log[q],
               pc'[q] \in {"quiet", "raised"} => pc[q] \in {"quiet", "raised"},
               pc'[q] \in Passed => pc[q] \in Passed
        PROVE  LET site == log'[q][n].site IN
               /\ n <= 4 => site = Opening[n]
               /\ n = 5 => site = IF Long(q)' THEN "handles" ELSE "quiet"
               /\ n = 6 => site = IF Long(q)' THEN "open" ELSE "unmapped"
               /\ n >= 7 => \/ site = "quiet"
                            \/ site = "unmapped" /\ n >= 8 /\ log'[q][n - 1].site = "quiet"
               /\ n >= 7 /\ n = Len(log'[q]) =>
                    /\ pc'[q] \in {"quiet", "raised"} => site = "quiet"
                    /\ pc'[q] \in Passed => site = "unmapped"
    <2>1. Long(q)' <=> Long(q)
      BY <1>3 DEF Long
    <2>2. n \in DOMAIN log[q]
      BY <1>3
    <2>3. LET site == log[q][n].site IN
          /\ n <= 4 => site = Opening[n]
          /\ n = 5 => site = IF Long(q) THEN "handles" ELSE "quiet"
          /\ n = 6 => site = IF Long(q) THEN "open" ELSE "unmapped"
          /\ n >= 7 => \/ site = "quiet"
                       \/ site = "unmapped" /\ n >= 8 /\ log[q][n - 1].site = "quiet"
          /\ n >= 7 /\ n = Len(log[q]) =>
               /\ pc[q] \in {"quiet", "raised"} => site = "quiet"
               /\ pc[q] \in Passed => site = "unmapped"
      BY <2>2 DEF Itinerary
    <2> QED
      BY <1>3, <2>1, <2>3
  <1>4. CASE Enters(q)
    <2>1. /\ Len(log'[q]) = Len(log[q]) + 1 /\ log'[q][Len(log[q]) + 1].site = pc'[q]
          /\ \A k \in 1 .. Len(log[q]) : log'[q][k] = log[q][k]
      BY <1>4 DEF Enters
    <2>2. CASE n \in 1 .. Len(log[q])
      <3>1. log'[q][n] = log[q][n]
        BY <2>1, <2>2
      <3>2. n # Len(log'[q])
        BY <1>1, <2>1, <2>2
      <3>3. /\ n <= 4 => log[q][n].site = Opening[n]
            /\ n = 5 => log[q][n].site = IF Long(q) THEN "handles" ELSE "quiet"
            /\ n = 6 => log[q][n].site = IF Long(q) THEN "open" ELSE "unmapped"
            /\ n >= 7 => \/ log[q][n].site = "quiet"
                         \/ /\ log[q][n].site = "unmapped" /\ n >= 8
                            /\ log[q][n - 1].site = "quiet"
        BY <1>1, <2>2 DEF Itinerary
      <3>4. n >= 5 => (Long(q)' <=> Long(q))
        BY <1>1, <1>2, <2>2
      <3>5. n = 5 \/ n = 6 => n >= 5
        OBVIOUS
      <3>6. n >= 8 => log'[q][n - 1] = log[q][n - 1]
        BY <1>1, <2>1, <2>2
      <3> QED
        BY <3>1, <3>2, <3>3, <3>4, <3>5, <3>6
    <2>3. CASE n = Len(log[q]) + 1
      <3>1. log'[q][n].site = pc'[q] /\ n = Len(log'[q])
        BY <2>1, <2>3
      <3>2. CASE pc'[q] \in {"settings", "identity", "access", "allocate"}
        <4> Opening[1] = "settings" /\ Opening[2] = "identity" /\ Opening[3] = "access"
              /\ Opening[4] = "allocate"
          BY DEF Opening
        <4>1. CASE pc'[q] = "settings"
          <5>1. n = 1
            BY <3>1, <4>1 DEF Progress
          <5> QED
            BY <3>1, <4>1, <5>1
        <4>2. CASE pc'[q] = "identity"
          <5>1. n = 2
            BY <3>1, <4>2 DEF Progress
          <5> QED
            BY <3>1, <4>2, <5>1
        <4>3. CASE pc'[q] = "access"
          <5>1. n = 3
            BY <3>1, <4>3 DEF Progress
          <5> QED
            BY <3>1, <4>3, <5>1
        <4>4. CASE pc'[q] = "allocate"
          <5>1. n = 4
            BY <3>1, <4>4 DEF Progress
          <5> QED
            BY <3>1, <4>4, <5>1
        <4> QED
          BY <3>2, <4>1, <4>2, <4>3, <4>4
      <3>3. CASE pc'[q] = "handles"
        <4>1. n = 5 /\ Long(q)'
          BY <3>1, <3>3 DEF Progress
        <4> QED
          BY <3>1, <3>3, <4>1
      <3>4. CASE pc'[q] = "open"
        <4>1. n = 6 /\ Long(q)'
          BY <3>1, <3>4 DEF Progress
        <4> QED
          BY <3>1, <3>4, <4>1
      <3>5. CASE pc'[q] = "quiet"
        <4>1. (n = 5 /\ ~ Long(q)') \/ n >= 7
          BY <3>1, <3>5 DEF Progress
        <4>3. CASE n = 5 /\ ~ Long(q)'
          BY <3>1, <3>5, <4>3
        <4>4. CASE n >= 7
          <5>1. ~ (n <= 4) /\ n # 5 /\ n # 6
            BY <1>1, <4>4
          <5> QED
            BY <3>1, <3>5, <5>1 DEF Passed
        <4> QED
          BY <4>1, <4>3, <4>4
      <3>6. CASE pc'[q] = "unmapped"
        <4>1. (n = 6 /\ ~ Long(q)') \/ n >= 8
          BY <3>1, <3>6 DEF Progress, Passed
        <4>3. CASE n = 6 /\ ~ Long(q)'
          BY <3>1, <3>6, <4>3
        <4>4. CASE n >= 8
          <5>1. ~ (n <= 4) /\ n # 5 /\ n # 6
            BY <1>1, <4>4
          <5>2. pc[q] = "quiet"
            BY <1>4, <3>6 DEF Enters, Entering
          <5>3. Len(log[q]) = n - 1 /\ n - 1 >= 7 /\ n - 1 \in DOMAIN log[q]
            BY <1>1, <2>3, <4>4
          <5>4. log[q][n - 1].site = "quiet"
            BY <5>2, <5>3 DEF Itinerary
          <5>5. log'[q][n - 1] = log[q][n - 1]
            BY <1>1, <2>1, <5>3
          <5> QED
            BY <3>1, <3>6, <4>4, <5>1, <5>4, <5>5
        <4> QED
          BY <4>1, <4>3, <4>4
      <3> QED
        BY <1>4, <3>2, <3>3, <3>4, <3>5, <3>6 DEF Enters, Entering
    <2> QED
      BY <1>1, <2>1, <2>2, <2>3
  <1>5. CASE Leaves(q)
    <2>1. /\ pc'[q] \in {"quiet", "raised"} => pc[q] \in {"quiet", "raised"}
          /\ pc'[q] \in Passed => pc[q] \in Passed
      BY <1>5 DEF Leaves, Silent, Passed
    <2> QED
      BY <1>3, <1>5, <2>1 DEF Leaves
  <1>6. CASE pc'[q] = pc[q] /\ log'[q] = log[q]
    BY <1>3, <1>6
  <1> QED
    BY <1>4, <1>5, <1>6, Walk DEF Stays

LEMMA InStepStep ==
  ASSUME TypeOK, Progress, InStep, NEW r \in Rank, Step(r)
  PROVE  InStep'
  <1> SUFFICES ASSUME NEW a \in Rank, NEW b \in Rank
               PROVE  /\ Len(log'[b]) >= Len(log'[a]) - 1
                      /\ pc'[a] \in {"off", "ready", "closing", "raised", "unfreed", "closed"} =>
                           Len(log'[b]) >= Len(log'[a])
    BY DEF InStep
  <1>1. /\ Len(log[a]) \in Nat /\ Len(log[b]) \in Nat
        /\ Len(log'[a]) \in Nat /\ Len(log'[b]) \in Nat
        /\ Len(log'[b]) >= Len(log[b])
    BY LogFacts, LogsGrow
  <1>2. /\ Len(log[b]) >= Len(log[a]) - 1
        /\ pc[a] \in {"off", "ready", "closing", "raised", "unfreed", "closed"} => Len(log[b]) >= Len(log[a])
    BY DEF InStep
  <1>3. CASE pc'[a] = pc[a] /\ log'[a] = log[a]
    BY <1>1, <1>2, <1>3
  <1>4. CASE a = r /\ pc'[a] # pc[a]
    <2>1. Len(log[b]) >= Len(log[a])
      <3>1. CASE pc[a] \in {"ready", "raised", "unfreed", "closing"}
        BY <1>2, <3>1
      <3>2. CASE pc[a] = "new"
        BY <1>1, <3>2 DEF Progress
      <3>3. CASE Gathered(a)
        BY <3>3 DEF Gathered
      <3> QED
        BY <1>4, <3>1, <3>2, <3>3, Walk
    <2>2. CASE Leaves(a)
      BY <1>1, <2>1, <2>2 DEF Leaves
    <2>3. CASE Enters(a)
      <3>1. pc'[a] \notin {"off", "ready", "closing", "raised", "unfreed", "closed"}
        BY <2>3 DEF Enters, Entering
      <3>2. Len(log'[a]) = Len(log[a]) + 1
        BY <2>3 DEF Enters
      <3> QED
        BY <1>1, <2>1, <3>1, <3>2
    <2> QED
      BY <1>4, <2>2, <2>3, Walk DEF Stays
  <1>5. pc'[a] = pc[a] => log'[a] = log[a]
    BY Walk DEF Stays, Leaves, Enters, Silent, Entering
  <1> QED
    BY <1>3, <1>4, <1>5, Walk

-----------------------------------------------------------------------------
(* The decisions.                                                          *)

(* The fourth and the sixth collective are left by what everybody said.    *)
LEMMA Decisions ==
  ASSUME TypeOK, NEW r \in Rank, Step(r)
  PROVE  /\ pc[r] = "allocate" /\ pc'[r] = "handles" => Gathered(r) /\ Agree(r)
         /\ pc[r] = "allocate" /\ pc'[r] = "closing" => Gathered(r) /\ ~ Agree(r)
         /\ pc[r] = "open" /\ pc'[r] = "ready" => Gathered(r) /\ Agree(r) /\ held'[r]
         /\ pc[r] = "open" /\ pc'[r] = "closing" => Gathered(r) /\ ~ Agree(r)
         /\ ~ (pc[r] = "open" /\ pc'[r] = "ready") => held'[r] = held[r]
         /\ \A q \in Rank : q # r => held'[q] = held[q] /\ disabled'[q] = disabled[q]
         /\ disabled[r] = (pc[r] # "ready") => disabled'[r] = (pc'[r] # "ready")
  <1> USE DEF unchangedResources, unchangedUse, Goto, TypeOK
  <1>1. CASE Skip(r)
    BY <1>1 DEF Skip
  <1>2. CASE Construct(r)
    BY <1>2 DEF Construct
  <1>3. CASE Identify(r)
    BY <1>3 DEF Identify
  <1>4. CASE ProbeAccess(r)
    BY <1>4 DEF ProbeAccess
  <1>5. CASE Allocate(r)
    BY <1>5 DEF Allocate
  <1>6. CASE ExchangeHandles(r)
    BY <1>6 DEF ExchangeHandles
  <1>7. CASE OpenPeers(r)
    BY <1>7 DEF OpenPeers
  <1>8. CASE Enable(r)
    BY <1>8 DEF Enable
  <1>9. CASE Replay(r)
    BY <1>9 DEF Replay
  <1>10. CASE Finish(r)
    BY <1>10 DEF Finish
  <1>11. CASE Close(r)
    BY <1>11 DEF Close
  <1>12. CASE Quiesce(r)
    BY <1>12 DEF Quiesce
  <1>13. CASE Unmap(r)
    BY <1>13 DEF Unmap
  <1>14. CASE UnmapFails(r)
    BY <1>14 DEF UnmapFails
  <1>15. CASE CloseAgain(r)
    BY <1>15 DEF CloseAgain
  <1>16. CASE Free(r)
    BY <1>16 DEF Free
  <1>17. CASE FreeFails(r)
    BY <1>17 DEF FreeFails
  <1> QED
    BY <1>1, <1>2, <1>3, <1>4, <1>5, <1>6, <1>7, <1>8, <1>9, <1>10, <1>11, <1>12, <1>13,
       <1>14, <1>15, <1>16, <1>17 DEF Step

(* What it is that everybody said, or somebody did not.                    *)
LEMMA AgreeFacts ==
  ASSUME NEW r \in Rank
  PROVE  /\ Agree(r) => \A q \in Rank : log[q][Len(log[r])].value = "ok"
         /\ ~ Agree(r) => \E q \in Rank : log[q][Len(log[r])].value # "ok"
  BY GroupAssumption DEF Agree, Values

LEMMA DecidedStep ==
  ASSUME TypeOK, Progress, Itinerary, InStep, Decided, NEW r \in Rank, Step(r)
  PROVE  Decided'
  <1> SUFFICES ASSUME NEW a \in Rank
               PROVE  /\ Long(a)' => \A q \in Rank : log'[q][4].value = "ok"
                      /\ (Len(log'[a]) >= 5 \/ pc'[a] = "closing") /\ ~ Long(a)' =>
                           \E q \in Rank : log'[q][4].value # "ok"
    BY DEF Decided
  <1>1. Len(log[a]) \in Nat /\ Len(log'[a]) \in Nat
    BY LogFacts, LogsGrow
  <1>2. ASSUME \A q \in Rank : Len(log[q]) >= 4
        PROVE  \A q \in Rank : log'[q][4] = log[q][4]
    <2> TAKE q \in Rank
    <2>1. Len(log[q]) \in Nat /\ Len(log[q]) >= 4
      BY <1>2, LogFacts
    <2> QED
      BY <2>1, LogsGrow
  <1>3. ASSUME Len(log[a]) >= 5 \/ pc[a] = "closing"
        PROVE  \A q \in Rank : Len(log[q]) >= 4
    <2> TAKE q \in Rank
    <2>1. Len(log[q]) \in Nat
      BY LogFacts
    <2>2. Len(log[q]) >= Len(log[a]) - 1 /\ (pc[a] = "closing" => Len(log[q]) >= Len(log[a]))
      BY DEF InStep
    <2>3. pc[a] = "closing" => Len(log[a]) >= 4
      BY PlaceFacts
    <2> QED
      BY <1>1, <1>3, <2>1, <2>2, <2>3
  <1>4. CASE Len(log[a]) >= 5 \/ (pc[a] = "closing" /\ pc'[a] = "closing")
    <2>1. \A q \in Rank : log'[q][4] = log[q][4]
      BY <1>2, <1>3, <1>4
    <2>2. Len(log[a]) >= 5 => (Long(a)' <=> Long(a))
      BY LogsGrow
    <2>3. log'[a] = log[a] => (Long(a)' <=> Long(a))
      BY DEF Long
    <2>4. pc[a] = "closing" /\ pc'[a] = "closing" => log'[a] = log[a]
      BY Walk DEF Stays, Leaves, Enters, Silent, Entering
    <2> QED
      BY <1>4, <2>1, <2>2, <2>3, <2>4 DEF Decided
  <1>5. CASE Len(log[a]) < 5 /\ ~ (pc[a] = "closing" /\ pc'[a] = "closing")
    <2>1. CASE Len(log'[a]) < 5 /\ pc'[a] # "closing"
      BY <1>1, <2>1 DEF Long
    <2>2. CASE a = r /\ pc[a] = "allocate" /\ (pc'[a] = "handles" \/ pc'[a] = "closing")
      <3>1. Len(log[a]) = 4
        BY <2>2 DEF Progress
      <3>2. \A q \in Rank : Len(log[q]) >= 4
        BY <2>2, <3>1, Decisions, GatheredFacts
      <3>3. \A q \in Rank : log'[q][4] = log[q][4]
        BY <1>2, <3>2
      <3>4. CASE pc'[a] = "handles"
        <4>1. Agree(a)
          BY <2>2, <3>4, Decisions
        <4>2. \A q \in Rank : log[q][4].value = "ok"
          BY <3>1, <4>1, AgreeFacts
        <4>3. Enters(a)
          BY <2>2, <3>4, Walk DEF Stays, Leaves, Silent
        <4>4. Long(a)'
          BY <3>1, <3>4, <4>3 DEF Enters, Long
        <4> QED
          BY <3>3, <4>2, <4>4
      <3>5. CASE pc'[a] = "closing"
        <4>1. ~ Agree(a)
          BY <2>2, <3>5, Decisions
        <4>2. \E q \in Rank : log[q][4].value # "ok"
          BY <3>1, <4>1, AgreeFacts
        <4>3. Leaves(a)
          BY <2>2, <3>5, Walk DEF Stays, Enters, Entering
        <4>4. ~ Long(a)'
          BY <3>1, <4>3 DEF Leaves, Long
        <4> QED
          BY <3>3, <4>2, <4>4
      <3> QED
        BY <2>2, <3>4, <3>5
    <2>3. CASE pc[a] = "closing" /\ pc'[a] = "quiet"
      <3>1. Len(log[a]) = 4
        BY <1>1, <1>5, <2>3 DEF Progress
      <3>2. \A q \in Rank : log'[q][4] = log[q][4]
        BY <1>2, <1>3, <2>3
      <3>3. \E q \in Rank : log[q][4].value # "ok"
        BY <2>3, <3>1 DEF Decided, Long
      <3>4. Enters(a)
        BY <2>3, Walk DEF Stays, Leaves, Silent
      <3>5. ~ Long(a)'
        BY <2>3, <3>1, <3>4 DEF Enters, Long
      <3> QED
        BY <3>2, <3>3, <3>5
    <2>4. \/ Len(log'[a]) < 5 /\ pc'[a] # "closing"
          \/ a = r /\ pc[a] = "allocate" /\ (pc'[a] = "handles" \/ pc'[a] = "closing")
          \/ pc[a] = "closing" /\ pc'[a] = "quiet"
      <3>1. CASE pc'[a] = pc[a] /\ log'[a] = log[a]
        BY <1>5, <3>1
      <3>2. CASE a = r /\ Leaves(a)
        <4>1. pc[a] \in {"open", "ready", "raised", "quiet", "unmapped", "unfreed"} =>
                Len(log[a]) >= 5
          BY PlaceFacts DEF Passed
        <4> QED
          BY <1>1, <1>5, <3>2, <4>1 DEF Leaves, Silent
      <3>3. CASE a = r /\ Enters(a)
        <4>1. Len(log'[a]) = Len(log[a]) + 1 /\ <<pc[a], pc'[a]>> \in Entering
          BY <3>3 DEF Enters
        <4>2. CASE pc[a] \in {"new", "settings", "identity", "access"}
          <5>1. Len(log[a]) <= 3
            BY <4>2, PlaceFacts
          <5>2. Len(log'[a]) < 5
            BY <1>1, <4>1, <5>1
          <5> QED
            BY <4>1, <4>2, <5>2 DEF Entering
        <4>3. CASE pc[a] \in {"handles", "quiet"}
          BY <1>1, <1>5, <4>3, PlaceFacts
        <4>4. CASE pc[a] \notin {"new", "settings", "identity", "access", "handles", "quiet"}
          BY <3>3, <4>1, <4>4 DEF Entering
        <4> QED
          BY <4>2, <4>3, <4>4
      <3> QED
        BY <3>1, <3>2, <3>3, Walk DEF Stays
    <2> QED
      BY <2>1, <2>2, <2>3, <2>4
  <1> QED
    BY <1>1, <1>4, <1>5

LEMMA EnabledStep ==
  ASSUME TypeOK, Progress, Progress', InStep, Enabled, NEW r \in Rank, Step(r)
  PROVE  Enabled'
  <1> SUFFICES ASSUME NEW a \in Rank
               PROVE  /\ held'[a] => Long(a)' /\ Len(log'[a]) >= 6 /\ pc'[a] # "open"
                      /\ held'[a] => \A q \in Rank : Len(log'[q]) >= 6 /\ log'[q][6].value = "ok"
                      /\ Long(a)' /\ (Len(log'[a]) >= 7 \/ pc'[a] = "closing") /\ ~ held'[a] =>
                           \E q \in Rank : log'[q][6].value # "ok"
                      /\ pc'[a] = "ready" => held'[a]
                      /\ disabled'[a] = (pc'[a] # "ready")
    BY DEF Enabled
  <1>1. Len(log[a]) \in Nat /\ Len(log'[a]) \in Nat /\ Len(log'[a]) >= Len(log[a])
    BY LogFacts, LogsGrow
  <1>2. disabled'[a] = (pc'[a] # "ready")
    <2>1. disabled[a] = (pc[a] # "ready")
      BY DEF Enabled
    <2> QED
      BY <2>1, Decisions, Walk
  <1>3. ASSUME NEW q \in Rank, Len(log[q]) >= 6
        PROVE  Len(log'[q]) >= 6 /\ log'[q][6] = log[q][6]
    <2>1. Len(log[q]) \in Nat
      BY LogFacts
    <2> QED
      BY <1>3, <2>1, LogsGrow
  <1>4. CASE a = r /\ pc[a] = "open" /\ pc'[a] \in {"ready", "closing"}
    <2>1. Len(log[a]) = 6 /\ Long(a) /\ log'[a] = log[a]
      <3>1. Len(log[a]) = 6 /\ Long(a)
        BY <1>4 DEF Progress
      <3>2. log'[a] = log[a]
        BY <1>4, Walk DEF Stays, Leaves, Enters, Entering
      <3> QED
        BY <3>1, <3>2
    <2>2. \A q \in Rank : Len(log[q]) >= 6
      BY <1>4, <2>1, Decisions, GatheredFacts
    <2>3. \A q \in Rank : Len(log'[q]) >= 6 /\ log'[q][6] = log[q][6]
      BY <1>3, <2>2
    <2>4. CASE pc'[a] = "ready"
      <3>1. \A q \in Rank : log[q][6].value = "ok"
        <4>1. Agree(a)
          BY <1>4, <2>4, Decisions
        <4> QED
          BY <2>1, <4>1, AgreeFacts
      <3>2. held'[a]
        BY <1>4, <2>4, Decisions
      <3>3. Long(a)'
        BY <2>1 DEF Long
      <3>4. \A q \in Rank : Len(log'[q]) >= 6 /\ log'[q][6].value = "ok"
        BY <2>3, <3>1
      <3>5. Len(log'[a]) >= 6
        BY <3>4
      <3> QED
        BY <1>2, <2>4, <3>2, <3>3, <3>4, <3>5
    <2>5. CASE pc'[a] = "closing"
      <3>1. \E q \in Rank : log[q][6].value # "ok"
        <4>1. ~ Agree(a)
          BY <1>4, <2>5, Decisions
        <4> QED
          BY <2>1, <4>1, AgreeFacts
      <3>2. ~ held[a]
        BY <1>4 DEF Enabled
      <3>3. held'[a] = held[a]
        BY <1>4, <2>5, Decisions
      <3> QED
        BY <1>2, <2>3, <2>5, <3>1, <3>2, <3>3
    <2> QED
      BY <1>4, <2>4, <2>5
  <1>5. CASE ~ (a = r /\ pc[a] = "open" /\ pc'[a] \in {"ready", "closing"})
    <2>1. held'[a] = held[a]
      BY <1>5, Decisions
    <2>2. pc'[a] = "ready" => pc[a] = "ready"
      BY <1>5, Walk DEF Stays, Leaves, Enters, Silent, Entering
    <2>3. pc'[a] = "open" => pc[a] \in {"open", "handles"}
      BY <1>5, Walk DEF Stays, Leaves, Enters, Silent, Entering
    <2>4. CASE held[a]
      <3>1. Long(a) /\ Len(log[a]) >= 6 /\ pc[a] # "open" /\ pc[a] # "handles"
        BY <2>4 DEF Enabled, Progress
      <3>2. \A q \in Rank : Len(log[q]) >= 6 /\ log[q][6].value = "ok"
        BY <2>4 DEF Enabled
      <3>3. \A q \in Rank : Len(log'[q]) >= 6 /\ log'[q][6].value = "ok"
        BY <1>3, <3>2
      <3>4. Long(a)'
        BY <1>1, <3>1, LogsGrow
      <3> QED
        BY <1>2, <2>1, <2>3, <2>4, <3>1, <3>3, <3>4
    <2>5. CASE ~ held[a] /\ Long(a)' /\ (Len(log'[a]) >= 7 \/ pc'[a] = "closing")
      <3>1. Long(a) /\ (Len(log[a]) >= 7 \/ pc[a] = "closing")
        <4>1. CASE pc'[a] = pc[a] /\ log'[a] = log[a]
          BY <2>5, <4>1 DEF Long
        <4>2. CASE Leaves(a)
          <5>1. Long(a) /\ Len(log'[a]) = Len(log[a])
            BY <2>5, <4>2 DEF Leaves, Long
          <5>2. pc[a] = "allocate" => ~ Long(a)
            BY DEF Progress, Long
          <5>3. pc[a] = "ready" => held[a]
            BY DEF Enabled
          <5>4. a = r \/ pc'[a] = pc[a]
            BY Walk
          <5>5. pc[a] \in {"raised", "unfreed"} => Len(log[a]) >= 7
            BY <1>1, <5>1 DEF Progress, Passed
          <5> QED
            BY <1>5, <2>5, <4>2, <5>1, <5>2, <5>3, <5>4, <5>5 DEF Leaves, Silent
        <4>3. CASE Enters(a)
          <5>1. Len(log'[a]) = Len(log[a]) + 1 /\ <<pc[a], pc'[a]>> \in Entering
            BY <4>3 DEF Enters
          <5>2. pc'[a] # "closing"
            BY <5>1 DEF Entering
          <5>3. Len(log[a]) >= 6
            BY <1>1, <2>5, <5>1, <5>2
          <5>4. Long(a)
            BY <1>1, <2>5, <5>3, LogsGrow
          <5>5. CASE pc[a] = "closing"
            BY <5>4, <5>5
          <5>6. CASE pc[a] \in {"new", "settings", "identity", "access"}
            BY <1>1, <5>3, <5>6, PlaceFacts
          <5>7. CASE pc[a] \in {"allocate", "handles"}
            <6>1. CASE Len(log[a]) = 4
              BY <5>3, <6>1
            <6>2. CASE Len(log[a]) = 5
              BY <5>3, <6>2
            <6> QED
              BY <5>7, <6>1, <6>2 DEF Progress
          <5>8. CASE pc[a] = "quiet"
            BY <5>4, <5>8 DEF Progress
          <5> QED
            BY <5>1, <5>5, <5>6, <5>7, <5>8 DEF Entering
        <4> QED
          BY <4>1, <4>2, <4>3, Walk DEF Stays
      <3>2. \A q \in Rank : Len(log[q]) >= 6
        <4> TAKE q \in Rank
        <4>1. Len(log[q]) >= Len(log[a]) - 1 /\ (pc[a] = "closing" => Len(log[q]) >= Len(log[a]))
          BY DEF InStep
        <4>2. Len(log[q]) \in Nat
          BY LogFacts
        <4>3. CASE Len(log[a]) >= 7
          BY <1>1, <4>1, <4>2, <4>3
        <4>4. CASE pc[a] = "closing"
          <5>1. Len(log[a]) >= 6
            <6>1. Len(log[a]) = 4 => ~ Long(a)
              BY DEF Long
            <6> QED
              BY <3>1, <4>4, <6>1 DEF Progress
          <5> QED
            BY <1>1, <4>1, <4>2, <4>4, <5>1
        <4> QED
          BY <3>1, <4>3, <4>4
      <3>3. \E q \in Rank : log[q][6].value # "ok"
        BY <2>5, <3>1 DEF Enabled
      <3>4. \E q \in Rank : log'[q][6].value # "ok"
        BY <1>3, <3>2, <3>3
      <3>5. pc[a] # "ready"
        BY <2>5 DEF Enabled
      <3> QED
        BY <1>2, <2>1, <2>2, <2>5, <3>4, <3>5
    <2>6. CASE ~ held[a] /\ ~ (Long(a)' /\ (Len(log'[a]) >= 7 \/ pc'[a] = "closing"))
      <3>1. pc[a] # "ready"
        BY <2>6 DEF Enabled
      <3> QED
        BY <1>2, <2>1, <2>2, <2>6, <3>1
    <2> QED
      BY <2>4, <2>5, <2>6
  <1> QED
    BY <1>4, <1>5

LEMMA AnswersStep ==
  ASSUME TypeOK, Progress, Answers, NEW r \in Rank, Step(r)
  PROVE  Answers'
  <1> SUFFICES ASSUME NEW q \in Rank, Len(log'[q]) >= 6, Long(q)'
               PROVE  log'[q][6].value \in {"ok", "error"}
    BY DEF Answers
  <1>1. Len(log[q]) \in Nat
    BY LogFacts
  <1>2. CASE Len(log[q]) >= 6
    <2>1. log'[q][6] = log[q][6]
      BY <1>1, <1>2, LogsGrow
    <2>2. Len(log[q]) >= 5
      BY <1>1, <1>2
    <2>3. Long(q)
      BY <2>2, LogsGrow
    <2> QED
      BY <1>2, <2>1, <2>3 DEF Answers
  <1>3. CASE Len(log[q]) < 6
    <2>1. q = r /\ Enters(q)
      <3>1. CASE log'[q] = log[q]
        BY <1>1, <1>3, <3>1
      <3>2. CASE log'[q] # log[q]
        BY <3>2, Walk DEF Stays, Leaves
      <3> QED
        BY <3>1, <3>2
    <2>2. Len(log[q]) = 5
      <3> DEFINE n == Len(log[q])
                 m == Len(log'[q])
      <3>1. m = n + 1
        BY <2>1 DEF Enters
      <3>2. n \in Nat /\ n < 6 /\ m >= 6
        BY <1>1, <1>3
      <3> HIDE DEF n, m
      <3>3. n = 5
        BY <3>1, <3>2
      <3> QED
        BY <3>3 DEF n
    <2>3. Long(q)
      <3>1. Len(log[q]) >= 5
        BY <2>2
      <3> QED
        BY <3>1, LogsGrow
    <2>4. <<pc[q], pc'[q]>> \in Entering
      BY <2>1 DEF Enters
    <2>5. pc[q] = "handles" /\ pc'[q] = "open"
      <3>1. pc[q] \notin {"new", "settings", "identity", "access", "allocate"}
        <4> DEFINE n == Len(log[q])
        <4>1. /\ pc[q] = "new" => n = 0
              /\ pc[q] = "settings" => n = 1
              /\ pc[q] = "identity" => n = 2
              /\ pc[q] = "access" => n = 3
              /\ pc[q] = "allocate" => n = 4
          BY DEF Progress
        <4>2. n = 5
          BY <2>2
        <4> HIDE DEF n
        <4> QED
          BY <4>1, <4>2
      <3>2. pc[q] = "closing" \/ pc[q] = "quiet" => FALSE
        <4> DEFINE n == Len(log[q])
        <4>1. pc[q] = "closing" \/ pc[q] = "quiet" => n = 4 \/ n >= 6 \/ n >= 7
          BY <2>3 DEF Progress
        <4>2. n = 5
          BY <2>2
        <4> HIDE DEF n
        <4> QED
          BY <4>1, <4>2
      <3> QED
        BY <2>4, <3>1, <3>2 DEF Entering
    <2>6. OpenPeers(r)
      BY <2>1, <2>5 DEF Step, Skip, Construct, Identify, ProbeAccess, Allocate, ExchangeHandles,
         Enable, Replay, Finish, Close, Quiesce, Unmap, UnmapFails, CloseAgain, Free, FreeFails
    <2>7. PICK report \in {"ok", "error"} : Enter(r, "open", report)
      BY <2>6 DEF OpenPeers
    <2>8. report \in Reports /\ "open" \in Sites
      BY DEF Reports, Sites
    <2>9. log'[r][Len(log[r]) + 1] = [site |-> "open", value |-> report]
      BY <2>7, <2>8, EnterFacts
    <2> QED
      BY <2>1, <2>2, <2>9
  <1> QED
    BY <1>1, <1>2, <1>3

-----------------------------------------------------------------------------
(* What the ranks hold.                                                    *)

LEMMA OthersHold ==
  ASSUME TypeOK, NEW r \in Rank, Step(r), NEW q \in Rank, q # r
  PROVE  /\ shared'[q] = shared[q] /\ mapped'[q] = mapped[q] /\ context'[q] = context[q]
         /\ calls'[q] = calls[q] /\ done'[q] = done[q]
  <1> USE DEF unchangedResources, unchangedUse, TypeOK
  <1>1. CASE Skip(r) \/ Construct(r) \/ Identify(r) \/ ProbeAccess(r)
    BY <1>1 DEF Skip, Construct, Identify, ProbeAccess
  <1>2. CASE Allocate(r)
    BY <1>2 DEF Allocate
  <1>3. CASE ExchangeHandles(r) \/ Enable(r) \/ Replay(r) \/ Finish(r)
    BY <1>3 DEF ExchangeHandles, Enable, Replay, Finish
  <1>4. CASE OpenPeers(r)
    BY <1>4 DEF OpenPeers
  <1>5. CASE Close(r) \/ Quiesce(r) \/ CloseAgain(r) \/ Free(r) \/ FreeFails(r)
    BY <1>5 DEF Close, Quiesce, CloseAgain, Free, FreeFails
  <1>6. CASE Unmap(r) \/ UnmapFails(r)
    BY <1>6 DEF Unmap, UnmapFails
  <1> QED
    BY <1>1, <1>2, <1>3, <1>4, <1>5, <1>6 DEF Step

Holding(r) ==
  LET n == Len(log[r]) IN
  /\ n < 4 => shared[r] = "none"
  /\ n >= 4 /\ log[r][4].value = "ok" /\ pc[r] # "closed" => shared[r] = "allocated"
  /\ IF pc[r] = "closed" THEN shared[r] # "allocated" ELSE shared[r] # "freed"
  /\ n < 6 \/ ~ Long(r) \/ pc[r] \in Passed \/ log[r][n].site = "unmapped" =>
       mapped[r] = <<>> /\ ~ context[r]
  /\ n = 6 /\ Long(r) /\ log[r][6].value = "ok" => mapped[r] = Peers[r]

LEMMA HoldingsStep ==
  ASSUME TypeOK, Progress, Progress', Itinerary, Holdings, NEW r \in Rank, Step(r)
  PROVE  Holdings'
  <1>0. ASSUME NEW q \in Rank, q # r  PROVE Holding(q)'
    <2>1. /\ pc'[q] = pc[q] /\ log'[q] = log[q] /\ shared'[q] = shared[q]
          /\ mapped'[q] = mapped[q] /\ context'[q] = context[q]
      BY <1>0, Walk, OthersHold
    <2>2. Long(q)' <=> Long(q)
      BY <2>1 DEF Long
    <2>3. Holding(q)
      BY DEF Holdings, Holding
    <2> QED
      BY <2>1, <2>2, <2>3 DEF Holding
  <1> SUFFICES Holding(r)'
    BY <1>0 DEF Holdings, Holding
  <1> DEFINE Kept == shared'[r] = shared[r] /\ mapped'[r] = mapped[r] /\ context'[r] = context[r]
  <1>1. /\ Len(log[r]) \in Nat /\ Len(log'[r]) \in Nat
        /\ \A n \in 1 .. Len(log[r]) : log'[r][n] = log[r][n]
        /\ Len(log[r]) >= 5 => (Long(r)' <=> Long(r))
    BY LogFacts, LogsGrow
  <1>2. Holding(r)
    BY DEF Holdings, Holding
  <1>3. ASSUME Kept, log'[r] = log[r],
               \/ pc'[r] = pc[r]
               \/ "closed" \notin {pc[r], pc'[r]} /\ (pc'[r] \in Passed => pc[r] \in Passed)
        PROVE  Holding(r)'
    <2>1. Long(r)' <=> Long(r)
      BY <1>3 DEF Long
    <2> QED
      BY <1>2, <1>3, <2>1 DEF Holding
  <1>4. ASSUME Kept, Enters(r), pc[r] # "access", pc[r] # "handles", pc[r] # "quiet"
        PROVE  Holding(r)'
    <2> DEFINE n == Len(log[r])
               m == Len(log'[r])
    <2>1. /\ n \in Nat /\ m = n + 1 /\ <<pc[r], pc'[r]>> \in Entering
          /\ \A k \in 1 .. n : log'[r][k] = log[r][k]
      BY <1>1, <1>4 DEF Enters
    <2>2. n # 3 /\ n # 5
      <3>1. pc[r] \in {"new", "settings", "identity", "allocate", "closing"}
        BY <1>4, <2>1 DEF Entering
      <3>2. CASE pc[r] = "closing"
        <4>1. n = 4 \/ n >= 6
          BY <3>2 DEF Progress
        <4> HIDE DEF n, m
        <4> QED
          BY <2>1, <4>1
      <3>3. CASE pc[r] # "closing"
        <4>1. n = 0 \/ n = 1 \/ n = 2 \/ n = 4
          BY <3>1, <3>3 DEF Progress
        <4> HIDE DEF n, m
        <4> QED
          BY <4>1
      <3> QED
        BY <3>2, <3>3
    <2>3. pc[r] # "closed" /\ pc'[r] \notin Passed /\ log'[r][m].site # "unmapped"
      BY <1>4, <2>1 DEF Enters, Entering, Passed
    <2>4. n >= 4 => log'[r][4] = log[r][4]
      BY <2>1
    <2>5. n >= 5 => (Long(r)' <=> Long(r))
      BY <1>1
    <2>6. /\ n < 4 => shared[r] = "none"
          /\ n >= 4 /\ log[r][4].value = "ok" => shared[r] = "allocated"
          /\ shared[r] # "freed"
          /\ n < 6 \/ ~ Long(r) => mapped[r] = <<>> /\ ~ context[r]
      BY <1>2, <2>3 DEF Holding
    <2> HIDE DEF n, m
    <2>7. (m < 4 => n < 4) /\ (m >= 4 => n >= 4) /\ m # 6 /\ (n < 6 \/ n >= 5)
      BY <2>1, <2>2
    <2>8. m < 6 \/ ~ Long(r)' => n < 6 \/ ~ Long(r)
      <3>1. m < 6 => n < 6
        BY <2>1
      <3> QED
        BY <2>5, <2>7, <3>1
    <2>9. /\ m < 4 => shared'[r] = "none"
          /\ m >= 4 /\ log'[r][4].value = "ok" => shared'[r] = "allocated"
          /\ shared'[r] # "freed"
          /\ m < 6 \/ ~ Long(r)' => mapped'[r] = <<>> /\ ~ context'[r]
      BY <1>4, <2>4, <2>6, <2>7, <2>8
    <2> QED
      BY <2>3, <2>7, <2>9 DEF Holding, Passed, m
  <1> HIDE DEF Kept
  <1> USE DEF unchangedResources, unchangedUse
  <1>5. CASE Skip(r)
    BY <1>3, <1>5 DEF Skip, Goto, TypeOK, Kept, Passed
  <1>6. CASE Construct(r) \/ Identify(r) \/ ProbeAccess(r) \/ ExchangeHandles(r) \/ Quiesce(r)
    <2>1. Kept
      BY <1>6 DEF Construct, Identify, ProbeAccess, ExchangeHandles, Quiesce, Kept
    <2>2. pc[r] \in {"new", "settings", "identity", "allocate", "closing"}
      BY <1>6 DEF Construct, Identify, ProbeAccess, ExchangeHandles, Quiesce
    <2>3. CASE Stays(r)
      BY <1>3, <2>1, <2>3 DEF Stays
    <2>4. CASE Leaves(r)
      BY <1>3, <2>1, <2>2, <2>4 DEF Leaves, Silent, Passed
    <2>5. CASE Enters(r)
      BY <1>4, <2>1, <2>2, <2>5
    <2> QED
      BY <2>3, <2>4, <2>5, Walk
  <1>7. CASE Allocate(r)
    <2>1. CASE Goto(r, "off")
      <3>1. Kept
        BY <1>7, <2>1 DEF Allocate, Goto, TypeOK, Kept
      <3>2. pc'[r] = "off" /\ pc[r] = "access"
        BY <1>7, <2>1 DEF Allocate, Goto, TypeOK
      <3>3. log'[r] = log[r]
        BY <3>2, Walk DEF Stays, Leaves, Enters, Entering
      <3> QED
        BY <1>3, <3>1, <3>2, <3>3 DEF Passed
    <2>2. CASE ~ Goto(r, "off")
      <3>1. PICK report \in {"ok", "error"}, buffer \in {"none", "allocated"} :
              /\ report = "ok" => buffer = "allocated"
              /\ shared' = [shared EXCEPT ![r] = buffer]
              /\ Enter(r, "allocate", report)
        BY <1>7, <2>2 DEF Allocate
      <3>2. Len(log[r]) = 3
        BY <1>7 DEF Allocate, Progress
      <3>3. report \in Reports /\ "allocate" \in Sites
        BY DEF Reports, Sites
      <3>4. Len(log'[r]) = 4 /\ log'[r][4].value = report
        <4>1. Len(log'[r]) = Len(log[r]) + 1
              /\ log'[r][Len(log[r]) + 1] = [site |-> "allocate", value |-> report]
          BY <3>1, <3>3, EnterFacts
        <4> QED
          BY <3>2, <4>1
      <3>5. pc'[r] = "allocate" /\ shared'[r] = buffer
            /\ mapped'[r] = mapped[r] /\ context'[r] = context[r]
        BY <1>7, <2>2, <3>1 DEF Allocate, Goto, TypeOK
      <3>6. mapped[r] = <<>> /\ ~ context[r]
        BY <1>2, <3>2 DEF Holding
      <3> QED
        BY <3>1, <3>4, <3>5, <3>6 DEF Holding
    <2> QED
      BY <2>1, <2>2
  <1>8. CASE OpenPeers(r)
    <2>1. PICK report \in {"ok", "error"}, opened \in 0 .. Len(Peers[r]), built \in BOOLEAN :
            /\ report = "ok" => built
            /\ built => opened = Len(Peers[r])
            /\ mapped' = [mapped EXCEPT ![r] = SubSeq(Peers[r], 1, opened)]
            /\ Enter(r, "open", report)
      BY <1>8 DEF OpenPeers
    <2>2. Len(log[r]) = 5 /\ Long(r) /\ pc[r] = "handles"
      BY <1>8 DEF OpenPeers, Progress
    <2>3. report \in Reports /\ "open" \in Sites
      BY DEF Reports, Sites
    <2>4. /\ Len(log'[r]) = 6 /\ log'[r][6].value = report /\ log'[r][6].site = "open"
          /\ log'[r][4] = log[r][4]
      <3>1. Len(log'[r]) = Len(log[r]) + 1
            /\ log'[r][Len(log[r]) + 1] = [site |-> "open", value |-> report]
        BY <2>1, <2>3, EnterFacts
      <3> QED
        BY <1>1, <2>2, <3>1
    <2>5. Long(r)'
      BY <1>1, <2>2
    <2>6. pc'[r] = "open" /\ shared'[r] = shared[r] /\ mapped'[r] = SubSeq(Peers[r], 1, opened)
      BY <1>8, <2>1 DEF OpenPeers, Goto, TypeOK
    <2>7. report = "ok" => mapped'[r] = Peers[r]
      BY <2>1, <2>6, PeersType
    <2>8. shared[r] # "freed" /\ (log[r][4].value = "ok" => shared[r] = "allocated")
      BY <1>2, <2>2 DEF Holding
    <2> QED
      BY <2>4, <2>5, <2>6, <2>7, <2>8 DEF Holding, Passed
  <1>9. CASE Enable(r) \/ Close(r) \/ CloseAgain(r)
    <2>1. Kept
      BY <1>9 DEF Enable, Close, CloseAgain, Kept
    <2>2. /\ pc[r] \in {"open", "ready", "raised", "unfreed"} /\ log'[r] = log[r]
          /\ pc'[r] \in {"ready", "closing"}
      BY <1>9 DEF Enable, Close, CloseAgain, Goto, TypeOK
    <2> QED
      BY <1>3, <2>1, <2>2 DEF Passed
  <1>10. CASE Replay(r) \/ Finish(r)
    BY <1>3, <1>10 DEF Replay, Finish, Kept
  <1>11. CASE Unmap(r)
    <2>1. pc[r] = "quiet" /\ pc'[r] = "unmapped" /\ shared'[r] = shared[r]
          /\ mapped'[r] = <<>> /\ context'[r] = FALSE
      BY <1>11 DEF Unmap, Goto, TypeOK
    <2>2. Len(log[r]) >= 5
      BY <2>1, PlaceFacts
    <2>3. Len(log'[r]) >= 5 /\ ~ (Len(log'[r]) < 4) /\ log'[r][4] = log[r][4]
      BY <1>1, <2>2, LogsGrow
    <2>4. ~ (Len(log'[r]) = 6 /\ Long(r)')
      <3> DEFINE m == Len(log'[r])
      <3>1. m \in Nat
        BY <1>1
      <3>2. (m = 6 /\ ~ Long(r)') \/ m >= 8
        BY <2>1 DEF Progress, Passed
      <3> HIDE DEF m
      <3>3. m = 6 => ~ Long(r)'
        BY <3>1, <3>2
      <3> QED
        BY <3>3 DEF m
    <2>5. shared[r] # "freed" /\ (log[r][4].value = "ok" => shared[r] = "allocated")
      <3>1. Len(log[r]) >= 4
        BY <1>1, <2>2
      <3> QED
        BY <1>2, <2>1, <3>1 DEF Holding
    <2> QED
      BY <2>1, <2>3, <2>4, <2>5 DEF Holding
  <1>12. CASE UnmapFails(r)
    <2>1. pc[r] = "quiet" /\ pc'[r] = "raised" /\ shared'[r] = shared[r] /\ log'[r] = log[r]
      BY <1>12 DEF UnmapFails, Goto, TypeOK
    <2>2. Len(log'[r]) >= 7 /\ Long(r)'
      BY <2>1 DEF Progress
    <2>3. ~ (Len(log'[r]) < 4) /\ ~ (Len(log'[r]) < 6) /\ Len(log'[r]) # 6 /\ Len(log[r]) >= 4
      <3> DEFINE m == Len(log'[r])
      <3>1. m \in Nat /\ m >= 7
        BY <1>1, <2>1, <2>2
      <3>2. m = Len(log[r])
        BY <2>1
      <3> HIDE DEF m
      <3>3. ~ (m < 4) /\ ~ (m < 6) /\ m # 6 /\ m >= 4
        BY <3>1
      <3> QED
        BY <3>2, <3>3 DEF m
    <2>4. shared[r] # "freed" /\ (log[r][4].value = "ok" => shared[r] = "allocated")
      BY <1>2, <2>1, <2>3 DEF Holding
    <2>5. log'[r][Len(log'[r])].site # "unmapped"
      <3>1. Len(log[r]) >= 7 /\ Len(log[r]) \in DOMAIN log[r]
        BY <1>1, <2>1, <2>2, LogFacts
      <3>2. log[r][Len(log[r])].site = "quiet"
        BY <2>1, <3>1 DEF Itinerary
      <3> QED
        BY <2>1, <3>2
    <2> QED
      BY <2>1, <2>2, <2>3, <2>4, <2>5 DEF Holding, Passed
  <1>13. CASE Free(r)
    <2>1. pc[r] = "unmapped" /\ pc'[r] = "closed" /\ log'[r] = log[r] /\ shared'[r] # "allocated"
          /\ mapped'[r] = mapped[r] /\ context'[r] = context[r]
      BY <1>13 DEF Free, Goto, TypeOK
    <2>2. mapped[r] = <<>> /\ ~ context[r]
      BY <1>2, <2>1 DEF Holding, Passed
    <2>3. Len(log[r]) >= 5 /\ ~ (Len(log[r]) < 4)
      BY <1>1, <2>1, PlaceFacts DEF Passed
    <2>4. ~ (Len(log'[r]) = 6 /\ Long(r)')
      <3> DEFINE m == Len(log'[r])
      <3>1. m \in Nat
        BY <1>1
      <3>2. (m = 6 /\ ~ Long(r)') \/ m >= 8
        BY <2>1 DEF Progress, Passed
      <3> HIDE DEF m
      <3>3. m = 6 => ~ Long(r)'
        BY <3>1, <3>2
      <3> QED
        BY <3>3 DEF m
    <2> QED
      BY <2>1, <2>2, <2>3, <2>4 DEF Holding
  <1>14. CASE FreeFails(r)
    <2>1. Kept /\ log'[r] = log[r]
      BY <1>14 DEF FreeFails, Kept
    <2>2. pc[r] = "unmapped" /\ pc'[r] = "unfreed"
      BY <1>14 DEF FreeFails, Goto, TypeOK
    <2> QED
      BY <1>3, <2>1, <2>2 DEF Passed
  <1> QED
    BY <1>5, <1>6, <1>7, <1>8, <1>9, <1>10, <1>11, <1>12, <1>13, <1>14 DEF Step

LEMMA KernelsRunStep ==
  ASSUME TypeOK, Progress, Progress', Enabled, Enabled', KernelsRun, NEW r \in Rank, Step(r)
  PROVE  KernelsRun'
  <1> SUFFICES ASSUME NEW q \in Rank
               PROVE  /\ done'[q] <= calls'[q]
                      /\ done'[q] < calls'[q] =>
                           held'[q] /\ Len(log'[q]) = 6 /\ pc'[q] \in {"ready", "closing"}
    BY DEF KernelsRun
  <1>1. /\ done[q] <= calls[q]
        /\ done[q] < calls[q] => held[q] /\ Len(log[q]) = 6 /\ pc[q] \in {"ready", "closing"}
    BY DEF KernelsRun
  <1>2. done[q] \in Nat /\ calls[q] \in Nat
    BY DEF TypeOK
  <1>3. CASE q # r
    BY <1>1, <1>3, Walk, OthersHold, Decisions
  <1>4. CASE q = r /\ Replay(r)
    <2>1. calls'[q] = calls[q] + 1 /\ done'[q] = done[q] /\ pc'[q] = "ready"
      BY <1>4 DEF Replay, TypeOK
    <2>2. held'[q] /\ Len(log'[q]) = 6
      BY <2>1 DEF Enabled, Progress
    <2> QED
      BY <1>1, <1>2, <2>1, <2>2
  <1>5. CASE q = r /\ Finish(r)
    <2>1. done'[q] = done[q] + 1 /\ calls'[q] = calls[q] /\ done[q] < calls[q]
      BY <1>5 DEF Finish, TypeOK
    <2>2. pc'[q] = pc[q] /\ held'[q] = held[q] /\ log'[q] = log[q]
      BY <1>5 DEF Finish
    <2> QED
      BY <1>1, <1>2, <2>1, <2>2
  <1>6. CASE q = r /\ ~ Replay(r) /\ ~ Finish(r)
    <2>1. done'[q] = done[q] /\ calls'[q] = calls[q]
      BY <1>6 DEF Step, Skip, Construct, Identify, ProbeAccess, Allocate, ExchangeHandles,
         OpenPeers, Enable, Close, Quiesce, Unmap, UnmapFails, CloseAgain, Free, FreeFails,
         unchangedUse
    <2>2. CASE done[q] = calls[q]
      BY <1>2, <2>1, <2>2
    <2>3. CASE done[q] < calls[q] /\ pc'[q] = pc[q]
      <3>1. log'[q] = log[q] /\ held'[q] = held[q]
        BY <2>3, Walk, Decisions, <1>6 DEF Stays, Leaves, Enters, Silent, Entering
      <3> QED
        BY <1>1, <2>1, <2>3, <3>1
    <2>4. CASE done[q] < calls[q] /\ pc'[q] # pc[q]
      <3>1. held[q] /\ Len(log[q]) = 6 /\ pc[q] \in {"ready", "closing"}
        BY <1>1, <2>4
      <3>2. ~ Quiesce(r)
        BY <1>2, <1>6, <2>4 DEF Quiesce
      <3>3. Close(r)
        BY <1>6, <2>4, <3>1, <3>2 DEF Step, Skip, Construct, Identify, ProbeAccess, Allocate,
           ExchangeHandles, OpenPeers, Enable, Unmap, UnmapFails, CloseAgain, Free, FreeFails
      <3>4. pc'[q] = "closing" /\ log'[q] = log[q] /\ held'[q] = held[q]
        BY <1>6, <3>3 DEF Close, Goto, TypeOK, unchangedUse
      <3> QED
        BY <1>1, <2>1, <3>1, <3>4
    <2> QED
      BY <1>1, <1>2, <2>2, <2>3, <2>4
  <1> QED
    BY <1>3, <1>4, <1>5, <1>6

-----------------------------------------------------------------------------
(* The invariant.                                                          *)

LEMMA InvInit == Init => IInv
  <1> SUFFICES ASSUME Init  PROVE IInv
    OBVIOUS
  <1>1. TypeOK
    BY TypeInit
  <1>2. \A r \in Rank : pc[r] = "new" /\ log[r] = <<>> /\ Len(log[r]) = 0 /\ DOMAIN log[r] = {}
    BY EmptySeq DEF Init
  <1>3. \A r \in Rank : ~ Long(r)
    BY <1>2 DEF Long
  <1>4. Progress /\ Itinerary
    BY <1>2 DEF Progress, Itinerary, Passed
  <1>5. InStep
    BY <1>2 DEF InStep
  <1>6. Decided
    BY <1>2, <1>3 DEF Decided
  <1>7. Enabled
    BY <1>2, <1>3 DEF Enabled, Init
  <1>8. Holdings
    BY <1>2, <1>3 DEF Holdings, Init
  <1>9. KernelsRun
    BY DEF KernelsRun, Init
  <1>10. Answers
    BY <1>3 DEF Answers
  <1> QED
    BY <1>1, <1>4, <1>5, <1>6, <1>7, <1>8, <1>9, <1>10 DEF IInv

LEMMA InvStep == IInv /\ [Next]_vars => IInv'
  <1> SUFFICES ASSUME IInv, [Next]_vars  PROVE IInv'
    OBVIOUS
  <1>1. TypeOK /\ Progress /\ Itinerary /\ InStep /\ Decided /\ Enabled
        /\ Answers /\ Holdings /\ KernelsRun
    BY DEF IInv
  <1>2. CASE UNCHANGED vars
    BY <1>2 DEF vars, IInv, TypeOK, Progress, Long, Itinerary, InStep, Decided, Enabled,
       Answers, Holdings, KernelsRun
  <1>3. ASSUME NEW r \in Rank, Step(r)  PROVE IInv'
    <2>1. TypeOK'
      BY <1>1, <1>3, TypeStep DEF Next
    <2>2. Progress'
      BY <1>1, <1>3, ProgressStep
    <2>3. Itinerary'
      BY <1>1, <1>3, <2>2, ItineraryStep
    <2>4. InStep'
      BY <1>1, <1>3, InStepStep
    <2>5. Decided'
      BY <1>1, <1>3, DecidedStep
    <2>6. Enabled'
      BY <1>1, <1>3, <2>2, EnabledStep
    <2>7. Holdings'
      BY <1>1, <1>3, <2>2, HoldingsStep
    <2>8. KernelsRun'
      BY <1>1, <1>3, <2>2, <2>6, KernelsRunStep
    <2>9. Answers'
      BY <1>1, <1>3, AnswersStep
    <2> QED
      BY <2>1, <2>2, <2>3, <2>4, <2>5, <2>6, <2>7, <2>8, <2>9 DEF IInv
  <1> QED
    BY <1>2, <1>3 DEF Next, Terminated

(* The communicator keeps IInv: what a rank of construct, capture and close *)
(* has entered, decided and holds agrees with what the others have.        *)
THEOREM Invariant == Spec => []IInv
  BY InvInit, InvStep, PTL DEF Spec

-----------------------------------------------------------------------------
(* What the invariant says.                                                *)

LEMMA LongAgree ==
  ASSUME IInv, NEW r \in Rank, NEW q \in Rank, Len(log[r]) >= 5, Len(log[q]) >= 5
  PROVE  Long(r) <=> Long(q)
  BY DEF IInv, Decided

(* Until a close is repeated the seventh collective is the first barrier   *)
(* of close() and the eighth the second, which is the last.                *)
LEMMA OneClose ==
  ASSUME IInv, ~ Retried, NEW r \in Rank, Len(log[r]) >= 7
  PROVE  /\ Long(r) /\ log[r][7].site = "quiet" /\ Len(log[r]) \in {7, 8}
         /\ Len(log[r]) = 8 => log[r][8].site = "unmapped"
  <1> DEFINE n == Len(log[r])
  <1>1. TypeOK /\ Progress /\ Itinerary
    BY DEF IInv
  <1>2. n \in Nat /\ n >= 7 /\ DOMAIN log[r] = 1 .. n
    BY <1>1, LogFacts
  <1>3. /\ pc[r] = "off" => n \in 1 .. 3
        /\ pc[r] \in {"new", "absent"} => n = 0
        /\ pc[r] = "settings" => n = 1
        /\ pc[r] = "identity" => n = 2
        /\ pc[r] = "access" => n = 3
        /\ pc[r] = "allocate" => n = 4
    BY <1>1 DEF Progress
  <1>4. /\ pc[r] = "handles" => n = 5
        /\ pc[r] \in {"open", "ready"} => n = 6
        /\ pc[r] = "closing" => n = 4 \/ Long(r)
        /\ pc[r] = "quiet" => n = 5 \/ Long(r)
        /\ pc[r] = "raised" => Long(r)
        /\ pc[r] \in Passed => n = 6 \/ Long(r)
    BY <1>1 DEF Progress
  <1>5. \A k \in 1 .. n : k >= 7 =>
           \/ log[r][k].site = "quiet"
           \/ log[r][k].site = "unmapped" /\ k >= 8 /\ log[r][k - 1].site = "quiet"
    BY <1>1, <1>2 DEF Itinerary
  <1>6. \A j, k \in 1 .. n :
           j < k => ~ (log[r][j].site = "quiet" /\ log[r][k].site = "quiet")
    BY <1>2 DEF Retried
  <1>7. pc[r] \in Sites \cup Places
    BY <1>1 DEF TypeOK
  <1> HIDE DEF n
  <1>8. Long(r)
    BY <1>2, <1>3, <1>4, <1>7 DEF Sites, Places, Passed
  <1>9. log[r][7].site = "quiet"
    BY <1>2, <1>5
  <1>10. n >= 8 => log[r][8].site = "unmapped"
    BY <1>2, <1>5, <1>6, <1>9
  <1>11. ~ (n >= 9)
    <2> SUFFICES ASSUME n >= 9  PROVE FALSE
      OBVIOUS
    <2>1. log[r][9].site # "quiet"
      BY <1>2, <1>6, <1>9
    <2>2. log[r][8].site = "quiet"
      BY <1>2, <1>5, <2>1
    <2> QED
      BY <1>2, <1>10, <2>2
  <1>12. n \in {7, 8}
    BY <1>2, <1>11
  <1> QED
    BY <1>8, <1>9, <1>10, <1>12 DEF n

LEMMA Match == IInv => CollectivesMatch
  <1> SUFFICES ASSUME IInv, ~ Retried, NEW r \in Rank, NEW q \in Rank,
                      NEW n \in DOMAIN log[r] \cap DOMAIN log[q]
               PROVE  log[r][n].site = log[q][n].site
    BY DEF CollectivesMatch
  <1>1. TypeOK /\ Itinerary
    BY DEF IInv
  <1>2. /\ n \in Nat /\ n >= 1
        /\ Len(log[r]) \in Nat /\ n <= Len(log[r]) /\ Len(log[q]) \in Nat /\ n <= Len(log[q])
    BY <1>1, LogFacts
  <1>3. CASE n <= 4
    BY <1>1, <1>3 DEF Itinerary
  <1>4. CASE n = 5 \/ n = 6
    <2>1. Len(log[r]) >= 5 /\ Len(log[q]) >= 5
      BY <1>2, <1>4
    <2>2. Long(r) <=> Long(q)
      BY <2>1, LongAgree
    <2> QED
      BY <1>1, <1>4, <2>2 DEF Itinerary
  <1>5. CASE n >= 7
    <2>1. Len(log[r]) >= 7 /\ Len(log[q]) >= 7
      BY <1>2, <1>5
    <2>2. /\ log[r][7].site = "quiet" /\ Len(log[r]) \in {7, 8}
          /\ Len(log[r]) = 8 => log[r][8].site = "unmapped"
          /\ log[q][7].site = "quiet" /\ Len(log[q]) \in {7, 8}
          /\ Len(log[q]) = 8 => log[q][8].site = "unmapped"
      BY <2>1, OneClose
    <2>3. n = 7 \/ (n = 8 /\ Len(log[r]) = 8 /\ Len(log[q]) = 8)
      BY <1>2, <1>5, <2>2
    <2> QED
      BY <2>2, <2>3
  <1> QED
    BY <1>2, <1>3, <1>4, <1>5

(* The collectives construction and close enter are matched by order only: *)
(* ranks that meet in the n-th are at the same call site, whatever fails.  *)
THEOREM MatchAlways == Spec => []CollectivesMatch
  BY Invariant, Match, PTL

LEMMA FreeLast == IInv => ExportersFreeLast
  <1> SUFFICES ASSUME IInv, ~ Retried, NEW r \in Rank, NEW k \in DOMAIN mapped[r],
                      shared[mapped[r][k]] = "freed"
               PROVE  FALSE
    BY DEF ExportersFreeLast
  <1>1. TypeOK /\ Progress /\ InStep /\ Holdings
    BY DEF IInv
  <1> DEFINE p == mapped[r][k]
  <1>2. p \in Rank /\ mapped[r] # <<>>
    BY <1>1, ElementOfSeq, LenProperties DEF TypeOK
  <1>3. shared[p] = "freed"
    OBVIOUS
  <1> HIDE DEF p
  <1>4. pc[p] = "closed"
    BY <1>1, <1>2, <1>3 DEF Holdings
  <1>5. Len(log[r]) >= Len(log[p]) /\ Len(log[r]) \in Nat /\ Len(log[p]) \in Nat
    BY <1>1, <1>2, <1>4, LogFacts DEF InStep
  <1>6. Long(r) /\ log[r][Len(log[r])].site # "unmapped"
    BY <1>1, <1>2 DEF Holdings
  <1>7. Len(log[p]) >= 5
    BY <1>1, <1>2, <1>4, PlaceFacts DEF Passed
  <1>8. Len(log[r]) >= 5
    BY <1>5, <1>7
  <1>9. Long(p)
    BY <1>2, <1>6, <1>7, <1>8, LongAgree
  <1>10. Len(log[p]) >= 8
    BY <1>1, <1>2, <1>4, <1>9, LogFacts DEF Progress, Passed
  <1>11. Len(log[r]) >= 7
    BY <1>5, <1>10
  <1>12. CASE Len(log[r]) = 7
    BY <1>5, <1>10, <1>12
  <1>13. CASE Len(log[r]) = 8
    BY <1>6, <1>11, <1>13, OneClose
  <1> QED
    BY <1>11, <1>12, <1>13, OneClose

(* close() frees the exported buffer only when no peer has it mapped.      *)
THEOREM FreeLastAlways == Spec => []ExportersFreeLast
  BY Invariant, FreeLast, PTL

LEMMA Live == IInv => KernelMemoryLive
  <1> SUFFICES ASSUME IInv, NEW r \in Rank, done[r] < calls[r]
               PROVE  /\ shared[r] = "allocated" /\ mapped[r] = Peers[r]
                      /\ \A n \in DOMAIN Peers[r] : shared[Peers[r][n]] = "allocated"
    BY DEF KernelMemoryLive
  <1>1. TypeOK /\ Progress /\ InStep /\ Decided /\ Enabled /\ Holdings /\ KernelsRun
    BY DEF IInv
  <1>2. held[r] /\ Len(log[r]) = 6
    BY <1>1 DEF KernelsRun
  <1>3. Long(r) /\ \A q \in Rank : Len(log[q]) >= 6 /\ log[q][6].value = "ok"
    BY <1>1, <1>2 DEF Enabled
  <1>4. \A q \in Rank : log[q][4].value = "ok"
    BY <1>1, <1>3 DEF Decided
  <1>5. mapped[r] = Peers[r]
    BY <1>1, <1>2, <1>3 DEF Holdings
  <1>6. ASSUME NEW q \in Rank  PROVE shared[q] = "allocated"
    <2>1. Len(log[q]) \in Nat /\ Len(log[q]) >= 6
      BY <1>1, <1>3, LogFacts
    <2>2. Len(log[q]) >= 5 /\ Len(log[q]) >= 4 /\ Len(log[r]) >= 5
      BY <1>2, <2>1
    <2>3. Long(q)
      BY <1>3, <2>2, LongAgree
    <2>4. pc[q] # "closed"
      <3> SUFFICES ASSUME pc[q] = "closed"  PROVE FALSE
        OBVIOUS
      <3>1. Len(log[q]) >= 8
        BY <1>1, <2>1, <2>3 DEF Progress, Passed
      <3>2. Len(log[r]) >= Len(log[q])
        BY <1>1 DEF InStep
      <3> QED
        BY <1>2, <2>1, <3>1, <3>2
    <2> QED
      BY <1>1, <1>4, <2>2, <2>4 DEF Holdings
  <1>7. \A n \in DOMAIN Peers[r] : Peers[r][n] \in Rank
    BY PeersType, ElementOfSeq, LenProperties
  <1> QED
    BY <1>5, <1>6, <1>7

(* No kernel in flight touches memory that close() has already unmapped or *)
(* freed, here or on a peer.                                               *)
THEOREM LiveAlways == Spec => []KernelMemoryLive
  BY Invariant, Live, PTL

LEMMA NoLeak == IInv => NothingLeaks
  <1> SUFFICES ASSUME IInv, NEW r \in Rank, Ended(r)
               PROVE  shared[r] # "allocated" /\ mapped[r] = <<>> /\ ~ context[r]
    BY DEF NothingLeaks
  <1>1. TypeOK /\ Progress /\ Holdings
    BY DEF IInv
  <1>2. CASE pc[r] = "closed"
    BY <1>1, <1>2 DEF Holdings, Passed
  <1>3. CASE pc[r] \in {"absent", "off"}
    <2> DEFINE n == Len(log[r])
    <2>0. n = 0 \/ n \in 1 .. 3
      BY <1>1, <1>3 DEF Progress
    <2> HIDE DEF n
    <2>1. n < 4 /\ n < 6
      BY <2>0
    <2> USE DEF n
    <2> QED
      BY <1>1, <2>1 DEF Holdings
  <1> QED
    BY <1>2, <1>3 DEF Ended

(* A rank whose construction failed, or that has closed, holds no mapping, *)
(* no context and no exported buffer.                                      *)
THEOREM NoLeakAlways == Spec => []NothingLeaks
  BY Invariant, NoLeak, PTL

-----------------------------------------------------------------------------
(* The group-wide switch.                                                  *)

(* Where a rank stands with the group, place by place.                     *)
Positions ==
  \A r \in Rank :
    /\ pc[r] \in {"new", "settings", "identity", "access", "allocate", "handles"} =>
         Standing(r) = "undecided"
    /\ pc[r] \in {"absent", "off"} => Standing(r) = "off"
    /\ pc[r] = "open" => Standing(r) = IF log[r][6].value = "error" THEN "off" ELSE "prepared"
    /\ pc[r] = "ready" => Standing(r) = "on"
    /\ pc[r] \in {"closing", "quiet", "raised", "unmapped", "unfreed", "closed"} =>
         Standing(r) = IF ~ held[r] THEN "off" ELSE IF pc[r] = "closed" THEN "gone" ELSE "left"

LEMMA StandingOf == IInv => Positions
  <1> SUFFICES ASSUME IInv, NEW r \in Rank
               PROVE
    /\ pc[r] \in {"new", "settings", "identity", "access", "allocate", "handles"} =>
         Standing(r) = "undecided"
    /\ pc[r] \in {"absent", "off"} => Standing(r) = "off"
    /\ pc[r] = "open" => Standing(r) = IF log[r][6].value = "error" THEN "off" ELSE "prepared"
    /\ pc[r] = "ready" => Standing(r) = "on"
    /\ pc[r] \in {"closing", "quiet", "raised", "unmapped", "unfreed", "closed"} =>
         Standing(r) = IF ~ held[r] THEN "off" ELSE IF pc[r] = "closed" THEN "gone" ELSE "left"
    BY DEF Positions
  <1>1. TypeOK /\ Progress /\ Itinerary /\ Enabled
    BY DEF IInv
  <1>2. Len(log[r]) \in Nat /\ DOMAIN log[r] = 1 .. Len(log[r])
    BY <1>1, LogFacts
  <1>3. Reported(r) <=> Len(log[r]) >= 6 /\ Long(r)
    <2>1. CASE Len(log[r]) >= 6
      <3>1. 6 \in DOMAIN log[r]
        BY <1>2, <2>1
      <3>2. log[r][6].site = IF Long(r) THEN "open" ELSE "unmapped"
        BY <1>1, <3>1 DEF Itinerary
      <3> QED
        BY <2>1, <3>2 DEF Reported
    <2> QED
      BY <2>1 DEF Reported
  <1>4. disabled[r] = (pc[r] # "ready")
    BY <1>1 DEF Enabled
  <1>5. held[r] => Reported(r) /\ ~ Refused(r)
    BY <1>1, <1>3 DEF Enabled, Refused
  <1>6. CASE pc[r] \in {"new", "settings", "identity", "access", "allocate", "handles"}
    <2>1. ~ (Len(log[r]) >= 6)
      <3> DEFINE n == Len(log[r])
      <3>1. n = 0 \/ n = 1 \/ n = 2 \/ n = 3 \/ n = 4 \/ n = 5
        BY <1>1, <1>6 DEF Progress
      <3> HIDE DEF n
      <3>2. ~ (n >= 6)
        BY <3>1
      <3> QED
        BY <3>2 DEF n
    <2> QED
      BY <1>3, <1>6, <2>1 DEF Standing, Refused
  <1>7. CASE pc[r] \in {"absent", "off"}
    BY <1>7 DEF Standing
  <1>8. CASE pc[r] = "open"
    <2>1. Len(log[r]) = 6 /\ Long(r)
      BY <1>1, <1>8 DEF Progress
    <2>2. Reported(r)
      BY <1>3, <2>1
    <2> QED
      BY <1>8, <2>2 DEF Standing, Refused
  <1>9. CASE pc[r] = "ready"
    <2>1. held[r]
      BY <1>1, <1>9 DEF Enabled
    <2> QED
      BY <1>4, <1>5, <1>9, <2>1 DEF Standing
  <1>10. CASE pc[r] \in {"closing", "quiet", "raised", "unmapped", "unfreed", "closed"}
    <2>1. CASE held[r]
      BY <1>4, <1>5, <1>10, <2>1 DEF Standing
    <2>2. CASE ~ held[r] /\ Reported(r)
      BY <1>4, <1>10, <2>2 DEF Standing
    <2>3. CASE ~ held[r] /\ ~ Reported(r)
      <3>1. pc[r] # "raised"
        <4>1. pc[r] = "raised" => Len(log[r]) >= 6 /\ Long(r)
          BY <1>1, PlaceFacts
        <4> QED
          BY <1>3, <2>3, <4>1
      <3> QED
        BY <1>10, <2>3, <3>1 DEF Standing
    <2> QED
      BY <2>1, <2>2, <2>3
  <1> QED
    BY <1>6, <1>7, <1>8, <1>9, <1>10

(* A rank still on the way to its sixth collective: nobody has been on.    *)
LEMMA NobodyOn ==
  ASSUME IInv, ~ \E q \in Rank : held[q], NEW q \in Rank
  PROVE  Standing(q) \in {"undecided", "prepared", "off"}
  <1>1. TypeOK /\ Enabled /\ Positions
    BY StandingOf DEF IInv
  <1>2. pc[q] # "ready"
    BY <1>1 DEF Enabled
  <1> QED
    BY <1>1, <1>2 DEF Positions, TypeOK, Sites, Places

(* When every report is "ok" nobody that has left the sixth is off.        *)
LEMMA EverybodyOn ==
  ASSUME IInv, \A p \in Rank : Len(log[p]) >= 6 /\ log[p][6].value = "ok",
         NEW r \in Rank, Long(r), NEW q \in Rank
  PROVE  /\ Long(q)
         /\ pc[q] \in {"open", "ready", "closing", "quiet", "raised", "unmapped", "unfreed", "closed"}
         /\ Standing(q) \in {"prepared", "on", "left", "gone"}
         /\ pc[q] # "open" => held[q]
  <1>1. TypeOK /\ Progress /\ Enabled /\ Positions
    BY StandingOf DEF IInv
  <1>2. Len(log[q]) \in Nat /\ Len(log[q]) >= 6 /\ Len(log[r]) \in Nat /\ Len(log[r]) >= 6
    BY <1>1, LogFacts
  <1>3. Long(q)
    <2>1. Len(log[q]) >= 5 /\ Len(log[r]) >= 5
      BY <1>2
    <2> QED
      BY <2>1, LongAgree
  <1>4. pc[q] \notin {"new", "absent", "off", "settings", "identity", "access", "allocate", "handles"}
    <2> SUFFICES ASSUME pc[q] \in {"new", "absent", "off", "settings", "identity", "access",
                                   "allocate", "handles"}
                 PROVE  FALSE
      OBVIOUS
    <2> DEFINE n == Len(log[q])
    <2>1. n = 0 \/ n \in 1 .. 3 \/ n = 1 \/ n = 2 \/ n = 3 \/ n = 4 \/ n = 5
      BY <1>1 DEF Progress
    <2>2. n >= 6
      BY <1>2
    <2> HIDE DEF n
    <2> QED
      BY <2>1, <2>2
  <1>5. pc[q] \in {"open", "ready", "closing", "quiet", "raised", "unmapped", "unfreed", "closed"}
    BY <1>1, <1>4 DEF TypeOK, Sites, Places
  <1>6. pc[q] # "open" => held[q]
    <2> SUFFICES ASSUME pc[q] # "open", ~ held[q]  PROVE FALSE
      BY DEF TypeOK
    <2>1. pc[q] # "ready"
      BY <1>1 DEF Enabled
    <2>2. pc[q] = "closing" \/ Len(log[q]) >= 7
      <3> DEFINE n == Len(log[q])
      <3>1. n \in Nat
        BY <1>2
      <3>2. pc[q] # "closing" => n >= 7 \/ n >= 8
        BY <1>1, <1>3, <1>5, <2>1 DEF Progress, Passed
      <3> HIDE DEF n
      <3>3. pc[q] # "closing" => n >= 7
        BY <3>1, <3>2
      <3> QED
        BY <3>3 DEF n
    <2> QED
      BY <1>1, <1>3, <2>2 DEF Enabled
  <1>7. Standing(q) \in {"prepared", "on", "left", "gone"}
    BY <1>1, <1>5, <1>6 DEF Positions
  <1> QED
    BY <1>3, <1>5, <1>6, <1>7

LEMMA SwitchInit == Init => Switch!Init
  BY DEF Init, Switch!Init, Standing, Reported, Refused

(* Only the rank that moves changes its standing.                          *)
LEMMA OthersStand ==
  ASSUME TypeOK, NEW r \in Rank, Step(r), NEW q \in Rank, q # r
  PROVE  Standing(q)' = Standing(q)
  <1>1. /\ pc'[q] = pc[q] /\ log'[q] = log[q]
        /\ disabled'[q] = disabled[q] /\ held'[q] = held[q]
    BY Walk, Decisions
  <1>2. Standing(q)' = IF pc'[q] \in {"off", "absent"} \/ Refused(q)' THEN "off"
                       ELSE IF ~ Reported(q)' THEN
                           IF pc'[q] \in {"closing", "quiet", "unmapped", "unfreed", "closed"} THEN "off"
                           ELSE "undecided"
                       ELSE IF pc'[q] = "open" THEN "prepared"
                       ELSE IF ~ disabled'[q] THEN "on"
                       ELSE IF ~ held'[q] THEN "off"
                       ELSE IF pc'[q] = "closed" THEN "gone" ELSE "left"
    BY DEF Standing
  <1>3. (Refused(q)' <=> Refused(q)) /\ (Reported(q)' <=> Reported(q))
    BY <1>1 DEF Refused, Reported
  <1> QED
    BY <1>1, <1>2, <1>3 DEF Standing

Group == [r \in Rank |-> Standing(r)]

LEMMA GroupStep ==
  ASSUME TypeOK, NEW r \in Rank, Step(r), NEW v, Standing(r)' = v
  PROVE  Group' = [Group EXCEPT ![r] = v]
  <1>1. \A q \in Rank : Standing(q)' = IF q = r THEN v ELSE Standing(q)
    BY OthersStand
  <1> QED
    BY <1>1 DEF Group

LEMMA SwitchStep == IInv /\ IInv' /\ [Next]_vars => [Switch!Next]_Group
  <1> SUFFICES ASSUME IInv, IInv', [Next]_vars  PROVE [Switch!Next]_Group
    OBVIOUS
  <1>1. TypeOK /\ Progress /\ InStep /\ Decided /\ Enabled /\ Positions /\ Positions'
    BY StandingOf, PTL DEF IInv
  <1>2. CASE UNCHANGED vars
    <2>1. \A q \in Rank : Standing(q)' = Standing(q)
      BY <1>2 DEF vars, Standing, Refused, Reported
    <2> QED
      BY <2>1 DEF Group
  <1>3. ASSUME NEW r \in Rank, Step(r)  PROVE [Switch!Next]_Group
    <2>1. ASSUME Standing(r)' = Standing(r)  PROVE [Switch!Next]_Group
      <3>1. \A q \in Rank : Standing(q)' = Standing(q)
        BY <1>1, <1>3, <2>1, OthersStand
      <3> QED
        BY <3>1 DEF Group
    <2>2. ASSUME ~ \E q \in Rank : held[q], Standing(r) \in {"undecided", "prepared"},
                 Standing(r)' = "off", \E q \in Rank : Standing(q) \in {"undecided", "off"}
          PROVE  [Switch!Next]_Group
      <3>1. Group' = [Group EXCEPT ![r] = "off"]
        BY <1>1, <1>3, <2>2, GroupStep
      <3>2. \A q \in Rank : Standing(q) \in {"undecided", "prepared", "off"}
        BY <2>2, NobodyOn
      <3>3. Switch!StayOff(r)
        BY <2>2, <3>1, <3>2 DEF Switch!StayOff, Group
      <3> QED
        BY <3>3 DEF Switch!Next
    <2>3. /\ held'[r] = held[r] \/ (pc[r] = "open" /\ pc'[r] = "ready")
          /\ pc'[r] = pc[r] \/ <<pc[r], pc'[r]>> \in Silent \cup Entering
      BY <1>1, <1>3, Decisions, Walk DEF Stays, Leaves, Enters
    <2>4. CASE pc[r] \in {"new", "settings", "identity", "access", "allocate", "handles"}
      <3>1. Standing(r) = "undecided"
        BY <1>1, <2>4 DEF Positions
      <3>2. ~ \E q \in Rank : held[q]
        <4> SUFFICES ASSUME NEW q \in Rank, held[q]  PROVE FALSE
          OBVIOUS
        <4> DEFINE n == Len(log[r])
        <4>1. n >= 6
          BY <1>1 DEF Enabled
        <4>2. n = 0 \/ n = 1 \/ n = 2 \/ n = 3 \/ n = 4 \/ n = 5
          BY <1>1, <2>4 DEF Progress
        <4> HIDE DEF n
        <4> QED
          BY <4>1, <4>2
      <3>3. ~ held'[r]
        BY <2>3, <2>4, <3>2
      <3>4. pc'[r] \in {"new", "settings", "identity", "access", "allocate", "handles",
                        "absent", "off", "open", "closing"}
        BY <2>3, <2>4 DEF Silent, Entering
      <3>5. Standing(r)' \in {"undecided", "off", "prepared"}
        BY <1>1, <3>3, <3>4 DEF Positions
      <3>6. CASE Standing(r)' = "prepared"
        <4>1. Group' = [Group EXCEPT ![r] = "prepared"]
          BY <1>1, <1>3, <3>6, GroupStep
        <4>2. Switch!Prepare(r)
          BY <3>1, <4>1 DEF Switch!Prepare, Group
        <4> QED
          BY <4>2 DEF Switch!Next
      <3> QED
        BY <2>1, <2>2, <3>1, <3>2, <3>5, <3>6
    <2>5. CASE pc[r] \in {"absent", "off"}
      <3>1. pc'[r] = pc[r]
        BY <2>3, <2>5 DEF Silent, Entering
      <3> QED
        BY <1>1, <2>1, <2>5, <3>1 DEF Positions
    <2>6. CASE pc[r] = "open"
      <3>1. Len(log[r]) = 6 /\ Long(r) /\ ~ held[r]
        BY <1>1, <2>6 DEF Progress, Enabled
      <3>2. Standing(r) = IF log[r][6].value = "error" THEN "off" ELSE "prepared"
        BY <1>1, <2>6 DEF Positions
      <3>3. CASE pc'[r] = pc[r]
        <4>1. log'[r] = log[r]
          BY <1>1, <1>3, <2>6, <3>3, Walk DEF Stays, Leaves, Enters, Silent, Entering
        <4> QED
          BY <1>1, <2>1, <2>6, <3>2, <3>3, <4>1 DEF Positions
      <3>4. CASE pc'[r] = "ready"
        <4>1. Gathered(r) /\ Agree(r)
          BY <1>1, <1>3, <2>6, <3>4, Decisions
        <4>2. \A q \in Rank : Len(log[q]) >= 6 /\ log[q][6].value = "ok"
          BY <3>1, <4>1, AgreeFacts, GatheredFacts
        <4>3. Standing(r) = "prepared" /\ Standing(r)' = "on"
          BY <1>1, <3>2, <3>4, <4>2 DEF Positions
        <4>4. ASSUME NEW q \in Rank  PROVE Standing(q) \in {"prepared", "on", "left"}
          <5>1. Standing(q) \in {"prepared", "on", "left", "gone"} /\ Long(q)
                /\ pc[q] \in {"open", "ready", "closing", "quiet", "raised", "unmapped", "unfreed", "closed"}
            BY <3>1, <4>2, EverybodyOn
          <5>2. pc[q] # "closed"
            <6> SUFFICES ASSUME pc[q] = "closed"  PROVE FALSE
              OBVIOUS
            <6>1. Len(log[q]) >= 8 /\ Len(log[q]) \in Nat
              BY <1>1, <5>1, LogFacts DEF Progress, Passed
            <6>2. Len(log[r]) >= Len(log[q]) - 1
              BY <1>1 DEF InStep
            <6> QED
              BY <3>1, <6>1, <6>2
          <5> QED
            BY <1>1, <5>1, <5>2 DEF Positions
        <4>5. Group' = [Group EXCEPT ![r] = "on"]
          BY <1>1, <1>3, <4>3, GroupStep
        <4>6. Switch!SwitchOn(r)
          BY <4>3, <4>4, <4>5 DEF Switch!SwitchOn, Group
        <4> QED
          BY <4>6 DEF Switch!Next
      <3>5. CASE pc'[r] = "closing"
        <4>1. Gathered(r) /\ ~ Agree(r)
          BY <1>1, <1>3, <2>6, <3>5, Decisions
        <4>2. PICK q \in Rank : log[q][6].value # "ok"
          BY <3>1, <4>1, AgreeFacts
        <4>3. ~ \E p \in Rank : held[p]
          BY <1>1, <4>2 DEF Enabled
        <4>4. ~ held'[r]
          BY <2>3, <3>1, <3>5
        <4>5. Standing(r)' = "off"
          BY <1>1, <3>5, <4>4 DEF Positions
        <4>6. Standing(q) = "off"
          <5>1. Len(log[q]) \in Nat /\ Len(log[q]) >= 6 /\ DOMAIN log[q] = 1 .. Len(log[q])
            BY <1>1, <3>1, <4>1, LogFacts, GatheredFacts
          <5>2. Len(log[q]) >= 5 /\ Len(log[r]) >= 5 /\ 6 \in DOMAIN log[q]
            BY <3>1, <5>1
          <5>3. Long(q)
            BY <3>1, <5>2, LongAgree
          <5>4. log[q][6].site = "open"
            BY <5>2, <5>3 DEF IInv, Itinerary
          <5>5. log[q][6].value = "error"
            BY <4>2, <5>1, <5>3 DEF IInv, Answers
          <5> QED
            BY <5>1, <5>4, <5>5 DEF Standing, Refused, Reported
        <4> QED
          BY <2>1, <2>2, <3>2, <4>3, <4>5, <4>6
      <3> QED
        BY <2>3, <2>6, <3>3, <3>4, <3>5 DEF Silent, Entering
    <2>7. CASE pc[r] = "ready"
      <3>1. Standing(r) = "on" /\ held[r]
        BY <1>1, <2>7 DEF Positions, Enabled
      <3>2. CASE pc'[r] = pc[r]
        BY <1>1, <2>1, <2>7, <3>1, <3>2 DEF Positions
      <3>3. CASE pc'[r] = "closing"
        <4>1. held'[r]
          BY <2>3, <2>7, <3>1
        <4>2. Standing(r)' = "left"
          BY <1>1, <3>3, <4>1 DEF Positions
        <4>3. Group' = [Group EXCEPT ![r] = "left"]
          BY <1>1, <1>3, <4>2, GroupStep
        <4>4. Switch!Leave(r)
          BY <3>1, <4>3 DEF Switch!Leave, Group
        <4> QED
          BY <4>4 DEF Switch!Next
      <3> QED
        BY <2>3, <2>7, <3>2, <3>3 DEF Silent, Entering
    <2>8. CASE pc[r] \in {"closing", "quiet", "raised", "unmapped", "unfreed", "closed"}
      <3>1. pc'[r] \in {"closing", "quiet", "raised", "unmapped", "unfreed", "closed"} /\ held'[r] = held[r]
            /\ (pc'[r] = "closed" => pc[r] \in {"unmapped", "closed"})
            /\ (pc[r] = "closed" => pc'[r] = "closed")
        BY <2>3, <2>8 DEF Silent, Entering
      <3>2. CASE ~ held[r] \/ pc[r] = "closed" \/ pc'[r] # "closed"
        BY <1>1, <2>1, <2>8, <3>1, <3>2 DEF Positions
      <3>3. CASE held[r] /\ pc[r] = "unmapped" /\ pc'[r] = "closed"
        <4>1. Standing(r) = "left" /\ Standing(r)' = "gone"
          BY <1>1, <3>1, <3>3 DEF Positions
        <4>2. Long(r) /\ \A q \in Rank : Len(log[q]) >= 6 /\ log[q][6].value = "ok"
          BY <1>1, <3>3 DEF Enabled
        <4>3. ASSUME NEW q \in Rank  PROVE Standing(q) \in {"left", "gone"}
          <5>1. Standing(q) \in {"prepared", "on", "left", "gone"}
                /\ pc[q] \in {"open", "ready", "closing", "quiet", "raised", "unmapped", "unfreed", "closed"}
                /\ (pc[q] # "open" => held[q])
            BY <4>2, EverybodyOn
          <5>2. pc[q] \notin {"open", "ready"}
            <6> SUFFICES ASSUME pc[q] \in {"open", "ready"}  PROVE FALSE
              OBVIOUS
            <6>1. Len(log[q]) = 6 /\ Len(log[r]) \in Nat
              BY <1>1, LogFacts DEF Progress
            <6>2. Len(log[r]) >= 8
              BY <1>1, <3>3, <4>2, LogFacts DEF Progress, Passed
            <6>3. Len(log[q]) >= Len(log[r])
              BY <1>1, <1>3, <3>3, Walk, GatheredFacts
            <6> QED
              BY <6>1, <6>2, <6>3
          <5> QED
            BY <1>1, <5>1, <5>2 DEF Positions
        <4>4. Group' = [Group EXCEPT ![r] = "gone"]
          BY <1>1, <1>3, <4>1, GroupStep
        <4>5. Switch!GiveUp(r)
          BY <4>1, <4>3, <4>4 DEF Switch!GiveUp, Group
        <4> QED
          BY <4>5 DEF Switch!Next
      <3> QED
        BY <3>1, <3>2, <3>3
    <2> QED
      BY <1>1, <2>4, <2>5, <2>6, <2>7, <2>8 DEF TypeOK, Sites, Places
  <1> QED
    BY <1>2, <1>3 DEF Next, Terminated

(* The communicator implements GroupSwitch: all ranks enable it or none    *)
(* does, and none uses it after one has begun to close.                    *)
THEOREM Refinement == Spec => Implements
  <1>1. Init => Switch!Init
    BY SwitchInit
  <1>2. IInv /\ IInv' /\ [Next]_vars => [Switch!Next]_Group
    BY SwitchStep
  <1> QED
    BY <1>1, <1>2, Invariant, PTL DEF Spec, Implements, Switch!Spec, Group
=============================================================================
