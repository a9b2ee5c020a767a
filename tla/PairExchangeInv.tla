-------------------------- MODULE PairExchangeInv --------------------------
(***************************************************************************)
(* The inductive invariant of PairExchange: why two buffer halves and one  *)
(* counter per block and peer are enough.                                  *)
(*                                                                         *)
(* The argument.  A counter a rank finds in its start array never exceeds  *)
(* what the peer has published (StartBound), and the counters of partners  *)
(* at the same point of the same call are equal (FlagSync).  So a CTA that *)
(* passes the handshake of round k knows that its partner has sent round k *)
(* of the same call (Handshake); block 0 takes part in every call, hence a *)
(* rank that has finished a call knows that its partners have begun it,    *)
(* and partners stay within one call of each other (PeersAdjacent).        *)
(* Epochs advance once per call on both sides (EpochSync), so a chunk's    *)
(* half alternates between the two calls partners can be in, and a payload *)
(* written for one call survives the whole of the next (Payload).          *)
(***************************************************************************)
EXTENDS PairExchange

(* 2^32 handshakes have not been made: the counters have not wrapped.      *)
NoWrap == MaxCalls * Rounds < FlagMod

Active(r, b) == call[r] > 0 /\ b < Grid(call[r])

(* CTA b of r's current call has passed the handshake of round k.          *)
Passed(r, b, k) ==
    /\ Active(r, b)
    /\ \/ pc[r][b] = "idle"
       \/ round[r][b] > k
       \/ round[r][b] = k /\ pc[r][b] = "reduce"

(* CTA b of q has published round k of call c.                             *)
Sent(q, b, k, c) ==
    \/ call[q] > c
    \/ call[q] = c /\ Passed(q, b, k)
    \/ call[q] = c /\ round[q][b] = k /\ pc[q][b] = "wait"

(* Handshakes CTA b of r has passed in its current call, the value of its  *)
(* counter when the call began, and when it will have ended.               *)
Done(r, b) ==
    IF ~ Active(r, b) THEN 0
    ELSE IF pc[r][b] = "idle" THEN Rounds
    ELSE IF pc[r][b] = "reduce" THEN round[r][b]
    ELSE round[r][b] - 1

Base(r, b) == flag[r][b] - Done(r, b)
End(r, b)  == Base(r, b) + (IF Active(r, b) THEN Rounds ELSE 0)

(* The epoch of block b when r's current call began, and what the call     *)
(* adds to it.                                                             *)
Advances(c, b) == AdvanceAll \/ b < Grid(c)

Advanced(r, b) ==
    /\ call[r] > 0
    /\ Advances(call[r], b)
    /\ pc[r][IF b < Grid(call[r]) THEN b ELSE 0] = "idle"

Epoch0(r, b) == epoch[r][b] - (IF Advanced(r, b) THEN 1 ELSE 0)

EpochEnd(r, b) ==
    Epoch0(r, b) + (IF call[r] > 0 /\ Advances(call[r], b) THEN 1 ELSE 0)

-----------------------------------------------------------------------------

(* Only the CTAs of the grid run, and they store only their own chunks.    *)
Shape ==
    \A r \in Rank, b \in Blocks :
        /\ pc[r][b] # "idle" => Active(r, b)
        /\ pc[r][b] = "push" => posted[r][b] \subseteq Owned(call[r], b)
        /\ pc[r][b] \in {"wait", "reduce"} => posted[r][b] = {}

FlagBound ==
    \A r \in Rank, b \in Blocks :
        /\ 0 <= Base(r, b)
        /\ call[r] = 0 => flag[r][b] = 0
        /\ call[r] > 0 => Base(r, b) <= (call[r] - 1) * Rounds

StartBound ==
    \A r, q \in Rank, b \in Blocks :
        start[r][b][q] <= flag[q][b] + (IF pc[q][b] = "wait" THEN 1 ELSE 0)

FlagSync ==
    \A r \in Rank, k \in 1 .. Rounds, b \in Blocks :
        LET q == Peer[k][r] IN
        /\ call[r] = call[q] => Base(r, b) = Base(q, b)
        /\ call[r] = call[q] + 1 => Base(r, b) = End(q, b)

Handshake ==
    \A r \in Rank, k \in 1 .. Rounds, b \in Blocks :
        Passed(r, b, k) => Sent(Peer[k][r], b, k, call[r])

EpochSync ==
    \A r \in Rank, k \in 1 .. Rounds, b \in Blocks :
        LET q == Peer[k][r] IN
        /\ call[r] = call[q] => Epoch0(r, b) = Epoch0(q, b)
        /\ call[r] = call[q] + 1 => Epoch0(r, b) = EpochEnd(q, b)

(* RDNA4: every block is on the epoch of the call.                         *)
EpochIsCall ==
    \A r \in Rank, b \in Blocks :
        /\ call[r] = 0 => epoch[r][b] = 0
        /\ AdvanceAll /\ call[r] > 0 => Epoch0(r, b) = call[r] - 1

(* What the kernel itself holds.                                           *)
OwnSums ==
    \A r \in Rank : call[r] > 0 =>
        \A i \in 0 .. plan[call[r]] - 1 :
            LET b == Owner(call[r], i) IN
            acc[r][i] =
              Partial[call[r]][IF pc[r][b] = "idle" THEN Rounds ELSE round[r][b] - 1][r]

(* What rank q has landed in the memory of its partners in this call, and  *)
(* what it landed there in the call before.                                *)
Landed(q, b, k, i) ==
    \/ Passed(q, b, k)
    \/ /\ round[q][b] = k
       /\ \/ pc[q][b] = "wait"
          \/ pc[q][b] = "push" /\ i \notin posted[q][b]

Payload ==
    \A q \in Rank, k \in 1 .. Rounds : call[q] > 0 =>
        \A i \in 0 .. plan[call[q]] - 1 :
            LET b == Owner(call[q], i) IN
            Landed(q, b, k, i) =>
                buf[Peer[k][q]][<<Epoch0(q, b) % 2, k, i>>] =
                    Partial[call[q]][k - 1][q]

OldPayload ==
    \A q \in Rank, k \in 1 .. Rounds : call[q] > 1 =>
        \A i \in 0 .. plan[call[q] - 1] - 1 :
            LET b == Owner(call[q] - 1, i) IN
            buf[Peer[k][q]][<<(Epoch0(q, b) - 1) % 2, k, i>>] =
                Partial[call[q] - 1][k - 1][q]

ControlInv == /\ TypeOK /\ Shape /\ FlagBound /\ StartBound
              /\ FlagSync /\ Handshake /\ PeersAdjacent

EpochInv == EpochSync /\ EpochIsCall

DataInv == OwnSums /\ Payload /\ OldPayload

(* The inductive invariant.                                                *)
IInv == ControlInv /\ EpochInv /\ DataInv

(* What AllReduce asks of the calls, on top of it: nobody is more than one *)
(* call ahead of anybody, partner or not, and who has finished a call is   *)
(* not ahead at all.  Handshake gives it: the partners of the last round   *)
(* have passed the round before, their partners of that round the one      *)
(* before it, and so on until everybody has begun.                         *)
Everyone ==
    \A r, q \in Rank : call[r] <= call[q] + 1 /\ (Idle(r) => call[r] <= call[q])
=============================================================================
