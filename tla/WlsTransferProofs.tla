-------------------------- MODULE WlsTransferProofs --------------------------
(*************************************************************************)
(* For every size of the queues, every number of blocks and both wake-up *)
(* modes: the semaphore holds what is_irq promises and a reader never    *)
(* sleeps over a block (WakeInv); every block put is at exactly one      *)
(* place, and in order until a queue overruns (OnceInv).                 *)
(*************************************************************************)
EXTENDS WlsTransfer, SequenceTheorems, TLAPS

\* There are two contexts, each the peer of the other.
LEMMA PeerFacts ==
    /\ \A c \in Ctx : Peer(c) \in Ctx /\ Peer(c) # c /\ Peer(Peer(c)) = c
    /\ \A c, d \in Ctx : d # c => d = Peer(c)
<1>1. PICK x, y \in Ctx : x # y /\ Ctx = {x, y}
  BY CtxAssumption
<1>2. \A c \in Ctx : \E d \in Ctx : d # c
  BY <1>1
<1>3. \A c \in Ctx : Peer(c) \in Ctx /\ Peer(c) # c
  BY <1>2 DEF Peer
<1> QED
  BY <1>1, <1>3

LEMMA WakeInit == Init => WakeInv
<1> SUFFICES ASSUME Init PROVE WakeInv
  OBVIOUS
<1>1. <<>> \in Seq(Nat)
  OBVIOUS
<1>2. WakeTypes
  BY <1>1 DEF Init, WakeTypes
<1>3. \A c \in Ctx : irq[c] = 0 /\ sem[c] = 0 /\ Posting(c) = 0
  BY PeerFacts DEF Init, Posting
<1>4. TokensCoverWakeUps
  BY <1>3 DEF Init, TokensCoverWakeUps, Covered
<1>5. \A c \in Ctx : ReaderSafe(c)
  BY DEF Init, ReaderSafe
<1> QED
  BY <1>2, <1>4, <1>5 DEF WakeInv

\* The wake-up mode is fixed when the interface is opened.
LEMMA ModeKept == Next => semaWakeUp' = semaWakeUp
BY DEF Next, Sender, Waker, Reader, linkVars, PutHold, PutCommit, XferMove, XferFull,
       XferDone, WakeNobody, WakeSaturated, WakePeer, WakeInc, WakePost, WakeUpCall, WakeUpInc,
       WakeUpPost, GetBlock, GetNothing, WGetNull, WaitPending, WaitBlock, SemWait, Recheck,
       WaitDec, Close

\* What the semaphore owes a context, spelt out.
LEMMA TokensNow ==
    ASSUME WakeInv, semaWakeUp, NEW d \in Ctx
    PROVE  /\ irq[d] \in Nat /\ sem[d] \in Nat
           /\ irq[d] <= sem[d] + (IF sPc[Peer(d)] = "post" THEN 1 ELSE 0)
                               + (IF kPc[d] = "post" THEN 1 ELSE 0)
                               + (IF rPc[d] \in {"recheck", "dec"} THEN 1 ELSE 0)
<1>1. irq[d] \in Nat /\ sem[d] \in Nat
  BY DEF WakeInv, WakeTypes
<1>2. irq[d] <= sem[d] + ((IF sPc[Peer(d)] = "post" THEN 1 ELSE 0)
                         + (IF kPc[d] = "post" THEN 1 ELSE 0))
                      + (IF rPc[d] \in {"recheck", "dec"} THEN 1 ELSE 0)
  <2>1. Covered(d)
    BY DEF WakeInv, TokensCoverWakeUps
  <2> QED BY <2>1 DEF Covered, Posting
<1> QED BY <1>1, <1>2

\* A sender's step.
LEMMA WakeSender ==
    ASSUME WakeInv, NEW c \in Ctx, Sender(c), semaWakeUp' = semaWakeUp PROVE WakeInv'
<1> USE DEF queueVars, linkVars, semaVars, wakerVars, histVars
<1>a. WakeTypes /\ \A d \in Ctx : ReaderSafe(d)
  BY DEF WakeInv
<1>1. CASE PutHold(c)
  <2>1. WakeTypes'
    <3>1. putQ' \in [Ctx -> Seq(Nat)] /\ sent' \in [Ctx -> Nat]
      BY <1>a, <1>1 DEF PutHold, PutOwn, WakeTypes
    <3>2. UNCHANGED <<getQ, irq, sem, pid, semaWakeUp, sPc, kPc, rPc>>
      BY <1>1 DEF PutHold
    <3> QED BY <1>a, <3>1, <3>2 DEF WakeTypes
  <2>2. semaWakeUp => \A d \in Ctx : Covered(d)'
    BY <1>1, PeerFacts DEF PutHold, WakeInv, WakeTypes, TokensCoverWakeUps, Covered, Posting
  <2>3. \A d \in Ctx : ReaderSafe(d)'
    BY <1>a, <1>1, PeerFacts DEF PutHold, PutOwn, MayPut, WakeTypes, ReaderSafe
  <2> QED
    BY <2>1, <2>2, <2>3 DEF WakeInv, TokensCoverWakeUps
<1>2. CASE PutCommit(c)
  <2>1. WakeTypes'
    <3>1. putQ' \in [Ctx -> Seq(Nat)] /\ sent' \in [Ctx -> Nat]
      BY <1>a, <1>2 DEF PutCommit, PutOwn, WakeTypes
    <3>2. sPc' \in [Ctx -> {"idle", "xfer", "wake", "inc", "post"}]
      BY <1>a, <1>2 DEF PutCommit, WakeTypes
    <3>3. UNCHANGED <<getQ, irq, sem, pid, semaWakeUp, kPc, rPc>>
      BY <1>2 DEF PutCommit
    <3> QED BY <1>a, <3>1, <3>2, <3>3 DEF WakeTypes
  <2>2. ASSUME semaWakeUp, NEW d \in Ctx PROVE Covered(d)'
    <3>1. /\ irq[d] \in Nat /\ sem[d] \in Nat
          /\ irq[d] <= sem[d] + (IF sPc[Peer(d)] = "post" THEN 1 ELSE 0)
                              + (IF kPc[d] = "post" THEN 1 ELSE 0)
                              + (IF rPc[d] \in {"recheck", "dec"} THEN 1 ELSE 0)
      BY <2>2, TokensNow
    <3>2. CASE d = c
      BY <1>a, <1>2, <3>1, <3>2, PeerFacts DEF PutCommit, WakeTypes, ReaderSafe, Covered, Posting
    <3>3. CASE d # c
      <4>1. d = Peer(c) /\ Peer(d) = c
        BY <3>3, PeerFacts
      <4>2. sem' = sem /\ irq' = irq /\ rPc' = rPc /\ kPc' = kPc
        BY <1>2 DEF PutCommit
      <4>3. sPc[c] = "idle" /\ sPc'[c] = "xfer"
        BY <1>a, <1>2 DEF PutCommit, MayPut, WakeTypes
      <4> QED
        BY <3>1, <4>1, <4>2, <4>3 DEF Covered, Posting
    <3> QED
      BY <3>2, <3>3
  <2>3. \A d \in Ctx : ReaderSafe(d)'
    BY <1>a, <1>2, PeerFacts DEF PutCommit, PutOwn, MayPut, WakeTypes, ReaderSafe
  <2> QED
    BY <2>1, <2>2, <2>3 DEF WakeInv, TokensCoverWakeUps
<1>3. CASE XferMove(c)
  <2>1. WakeTypes'
    <3>1. Head(putQ[c]) \in Nat /\ Tail(putQ[c]) \in Seq(Nat)
      BY <1>a, <1>3 DEF XferMove, WakeTypes
    <3>2. Append(getQ[Peer(c)], Head(putQ[c])) \in Seq(Nat)
      BY <1>a, <3>1, PeerFacts DEF WakeTypes
    <3>3. getQ' \in [Ctx -> Seq(Nat)]
      BY <1>a, <1>3, <3>2, PeerFacts DEF XferMove, WakeTypes
    <3>4. putQ' \in [Ctx -> Seq(Nat)]
      BY <1>a, <1>3, <3>1 DEF XferMove, WakeTypes
    <3>5. UNCHANGED <<sent, irq, sem, pid, semaWakeUp, sPc, kPc, rPc>>
      BY <1>3 DEF XferMove, linkVars, semaVars, wakerVars, histVars
    <3> QED
      BY <1>a, <3>3, <3>4, <3>5 DEF WakeTypes
  <2>2. semaWakeUp => \A d \in Ctx : Covered(d)'
    BY <1>3, PeerFacts DEF XferMove, WakeInv, WakeTypes, TokensCoverWakeUps, Covered, Posting
  <2>3. \A d \in Ctx : ReaderSafe(d)'
    BY <1>a, <1>3, PeerFacts DEF XferMove, GetRoom, WakeTypes, ReaderSafe
  <2> QED
    BY <2>1, <2>2, <2>3 DEF WakeInv, TokensCoverWakeUps
<1>4. CASE XferFull(c)
  <2>1. WakeTypes'
    <3>1. Append(Tail(putQ[c]), Head(putQ[c])) \in Seq(Nat)
      <4>1. putQ[c] \in Seq(Nat) /\ putQ[c] # <<>>
        BY <1>a, <1>4 DEF XferFull, WakeTypes
      <4> QED BY <4>1
    <3>2. putQ' \in [Ctx -> Seq(Nat)]
      <4>1. putQ' = [putQ EXCEPT ![c] = Append(Tail(putQ[c]), Head(putQ[c]))]
        BY <1>4 DEF XferFull
      <4> QED BY <1>a, <3>1, <4>1 DEF WakeTypes
    <3>3. sPc' \in [Ctx -> {"idle", "xfer", "wake", "inc", "post"}]
      BY <1>a, <1>4 DEF XferFull, WakeTypes
    <3>4. UNCHANGED <<getQ, sent, irq, sem, pid, semaWakeUp, kPc, rPc>>
      BY <1>4 DEF XferFull
    <3> QED BY <1>a, <3>2, <3>3, <3>4 DEF WakeTypes
  <2>2. semaWakeUp => \A d \in Ctx : Covered(d)'
    BY <1>4, PeerFacts DEF XferFull, WakeInv, WakeTypes, TokensCoverWakeUps, Covered, Posting
  <2>3. \A d \in Ctx : ReaderSafe(d)'
    BY <1>a, <1>4, PeerFacts DEF XferFull, WakeTypes, ReaderSafe
  <2> QED
    BY <2>1, <2>2, <2>3 DEF WakeInv, TokensCoverWakeUps
<1>5. CASE XferDone(c)
  <2>1. WakeTypes'
    BY <1>a, <1>5, PeerFacts DEF XferDone, WakeTypes
  <2>2. semaWakeUp => \A d \in Ctx : Covered(d)'
    BY <1>5, PeerFacts DEF XferDone, WakeInv, WakeTypes, TokensCoverWakeUps, Covered, Posting
  <2>3. \A d \in Ctx : ReaderSafe(d)'
    BY <1>a, <1>5, PeerFacts DEF XferDone, WakeTypes, ReaderSafe
  <2> QED
    BY <2>1, <2>2, <2>3 DEF WakeInv, TokensCoverWakeUps
<1>6. CASE WakeNobody(c)
  <2>1. WakeTypes'
    BY <1>a, <1>6, PeerFacts DEF WakeNobody, WakeTypes
  <2>2. semaWakeUp => \A d \in Ctx : Covered(d)'
    BY <1>6, PeerFacts DEF WakeNobody, WakeInv, WakeTypes, TokensCoverWakeUps, Covered, Posting
  <2>3. \A d \in Ctx : ReaderSafe(d)'
    BY <1>a, <1>6, PeerFacts DEF WakeNobody, WakeTypes, ReaderSafe
  <2> QED
    BY <2>1, <2>2, <2>3 DEF WakeInv, TokensCoverWakeUps
<1>7. CASE WakeSaturated(c)
  <2>1. WakeTypes'
    BY <1>a, <1>7, PeerFacts DEF WakeSaturated, WakeTypes
  <2>2. semaWakeUp => \A d \in Ctx : Covered(d)'
    BY <1>7, PeerFacts DEF WakeSaturated, WakeInv, WakeTypes, TokensCoverWakeUps, Covered, Posting
  <2>3. ASSUME NEW d \in Ctx PROVE ReaderSafe(d)'
    <3>1. irq[d] \in Nat /\ ReaderSafe(d)
      BY DEF WakeInv, WakeTypes
    <3>2. CASE d = c
      BY <1>a, <1>7, <3>1, <3>2, PeerFacts, BoundsAssumption DEF WakeSaturated, WakeTypes, ReaderSafe
    <3>3. CASE d # c
      BY <1>a, <1>7, <3>1, <3>3, PeerFacts, BoundsAssumption DEF WakeSaturated, WakeTypes, ReaderSafe
    <3> QED
      BY <3>2, <3>3
  <2> QED
    BY <2>1, <2>2, <2>3 DEF WakeInv, TokensCoverWakeUps
<1>8. CASE WakePeer(c)
  <2>1. WakeTypes'
    BY <1>a, <1>8, PeerFacts DEF WakePeer, WakeTypes
  <2>2. semaWakeUp => \A d \in Ctx : Covered(d)'
    BY <1>8, PeerFacts DEF WakePeer, WakeInv, WakeTypes, TokensCoverWakeUps, Covered, Posting
  <2>3. \A d \in Ctx : ReaderSafe(d)'
    BY <1>a, <1>8, PeerFacts DEF WakePeer, WakeTypes, ReaderSafe
  <2> QED
    BY <2>1, <2>2, <2>3 DEF WakeInv, TokensCoverWakeUps
<1>9. CASE WakeInc(c)
  <2>1. WakeTypes'
    <3>1. Peer(c) \in Ctx /\ irq[Peer(c)] + 1 \in Nat
      BY <1>a, PeerFacts DEF WakeTypes
    <3>2. irq' \in [Ctx -> Nat] /\ sPc' \in [Ctx -> {"idle", "xfer", "wake", "inc", "post"}]
      BY <1>a, <1>9, <3>1 DEF WakeInc, WakeTypes
    <3>3. UNCHANGED <<getQ, putQ, sent, sem, pid, semaWakeUp, kPc, rPc>>
      BY <1>9 DEF WakeInc
    <3> QED BY <1>a, <3>2, <3>3 DEF WakeTypes
  <2>2. ASSUME semaWakeUp, NEW d \in Ctx PROVE Covered(d)'
    <3>1. /\ irq[d] \in Nat /\ sem[d] \in Nat
          /\ irq[d] <= sem[d] + (IF sPc[Peer(d)] = "post" THEN 1 ELSE 0)
                              + (IF kPc[d] = "post" THEN 1 ELSE 0)
                              + (IF rPc[d] \in {"recheck", "dec"} THEN 1 ELSE 0)
      BY <2>2, TokensNow
    <3>2. CASE d = c
      <4>1. irq'[d] = irq[d] /\ sPc'[Peer(d)] = sPc[Peer(d)] /\ UNCHANGED <<sem, kPc, rPc>>
        BY <1>a, <1>9, <3>2, PeerFacts DEF WakeInc, WakeTypes
      <4> QED BY <3>1, <4>1 DEF Covered, Posting
    <3>3. CASE d # c
      <4>1. d = Peer(c) /\ Peer(d) = c
        BY <3>3, PeerFacts
      <4>2. /\ irq'[d] = irq[d] + 1 /\ sPc[c] = "inc" /\ sPc'[c] = "post"
            /\ UNCHANGED <<sem, kPc, rPc>>
        BY <1>a, <1>9, <4>1 DEF WakeInc, WakeTypes
      <4> QED BY <3>1, <4>1, <4>2 DEF Covered, Posting
    <3> QED
      BY <3>2, <3>3
  <2>3. ASSUME NEW d \in Ctx PROVE ReaderSafe(d)'
    <3>1. irq[d] \in Nat /\ ReaderSafe(d)
      BY DEF WakeInv, WakeTypes
    <3>2. CASE d = c
      BY <1>a, <1>9, <3>1, <3>2, PeerFacts DEF WakeInc, WakeTypes, ReaderSafe
    <3>3. CASE d # c
      BY <1>a, <1>9, <3>1, <3>3, PeerFacts DEF WakeInc, WakeTypes, ReaderSafe
    <3> QED
      BY <3>2, <3>3
  <2> QED
    BY <2>1, <2>2, <2>3 DEF WakeInv, TokensCoverWakeUps
<1>10. CASE WakePost(c)
  <2>1. WakeTypes'
    <3>1. Peer(c) \in Ctx /\ sem[Peer(c)] + 1 \in Nat
      BY <1>a, PeerFacts DEF WakeTypes
    <3>2. sem' \in [Ctx -> Nat] /\ sPc' \in [Ctx -> {"idle", "xfer", "wake", "inc", "post"}]
      BY <1>a, <1>10, <3>1 DEF WakePost, WakeTypes
    <3>3. UNCHANGED <<getQ, putQ, sent, irq, pid, semaWakeUp, kPc, rPc>>
      BY <1>10 DEF WakePost
    <3> QED BY <1>a, <3>2, <3>3 DEF WakeTypes
  <2>2. ASSUME semaWakeUp, NEW d \in Ctx PROVE Covered(d)'
    <3>1. /\ irq[d] \in Nat /\ sem[d] \in Nat
          /\ irq[d] <= sem[d] + (IF sPc[Peer(d)] = "post" THEN 1 ELSE 0)
                              + (IF kPc[d] = "post" THEN 1 ELSE 0)
                              + (IF rPc[d] \in {"recheck", "dec"} THEN 1 ELSE 0)
      BY <2>2, TokensNow
    <3>2. CASE d = c
      BY <1>a, <1>10, <3>1, <3>2, PeerFacts DEF WakePost, WakeTypes, ReaderSafe, Covered, Posting
    <3>3. CASE d # c
      <4>1. d = Peer(c) /\ Peer(d) = c
        BY <3>3, PeerFacts
      <4>2. sem'[d] = sem[d] + 1 /\ irq'[d] = irq[d] /\ rPc' = rPc /\ kPc' = kPc
        BY <1>a, <1>10, <2>2, <4>1 DEF WakePost, WakeTypes
      <4>3. sPc[c] = "post" /\ sPc'[c] = "idle"
        BY <1>a, <1>10 DEF WakePost, WakeTypes
      <4> QED
        BY <3>1, <4>1, <4>2, <4>3 DEF Covered, Posting
    <3> QED
      BY <3>2, <3>3
  <2>3. \A d \in Ctx : ReaderSafe(d)'
    BY <1>a, <1>10, PeerFacts DEF WakePost, WakeTypes, ReaderSafe
  <2> QED
    BY <2>1, <2>2, <2>3 DEF WakeInv, TokensCoverWakeUps
<1> QED
  BY <1>1, <1>2, <1>3, <1>4, <1>5, <1>6, <1>7, <1>8, <1>9, <1>10 DEF Sender

\* A step of the caller of WLS_WakeUp.
LEMMA WakeWaker ==
    ASSUME WakeInv, NEW c \in Ctx, Waker(c), semaWakeUp' = semaWakeUp PROVE WakeInv'
<1> USE DEF queueVars, linkVars, semaVars, wakerVars, histVars
<1>a. WakeTypes /\ \A d \in Ctx : ReaderSafe(d)
  BY DEF WakeInv
<1>1. CASE WakeUpCall(c)
  <2>1. WakeTypes'
    BY <1>a, <1>1, PeerFacts DEF WakeUpCall, WakeTypes
  <2>2. semaWakeUp => \A d \in Ctx : Covered(d)'
    BY <1>1, PeerFacts DEF WakeUpCall, WakeInv, WakeTypes, TokensCoverWakeUps, Covered, Posting
  <2>3. \A d \in Ctx : ReaderSafe(d)'
    BY <1>a, <1>1, PeerFacts DEF WakeUpCall, WakeTypes, ReaderSafe
  <2> QED
    BY <2>1, <2>2, <2>3 DEF WakeInv, TokensCoverWakeUps
<1>2. CASE WakeUpInc(c)
  <2>1. WakeTypes'
    BY <1>a, <1>2, PeerFacts DEF WakeUpInc, WakeTypes
  <2>2. ASSUME semaWakeUp, NEW d \in Ctx PROVE Covered(d)'
    <3>1. /\ irq[d] \in Nat /\ sem[d] \in Nat
          /\ irq[d] <= sem[d] + (IF sPc[Peer(d)] = "post" THEN 1 ELSE 0)
                              + (IF kPc[d] = "post" THEN 1 ELSE 0)
                              + (IF rPc[d] \in {"recheck", "dec"} THEN 1 ELSE 0)
      BY <2>2, TokensNow
    <3>2. CASE d = c
      <4>1. /\ irq'[d] = irq[d] + 1 /\ kPc[d] = "inc" /\ kPc'[d] = "post"
            /\ UNCHANGED <<sem, sPc, rPc>>
        BY <1>a, <1>2, <3>2 DEF WakeUpInc, WakeTypes
      <4> QED BY <3>1, <4>1 DEF Covered, Posting
    <3>3. CASE d # c
      BY <1>a, <1>2, <3>1, <3>3, PeerFacts DEF WakeUpInc, WakeTypes, Covered, Posting
    <3> QED
      BY <3>2, <3>3
  <2>3. \A d \in Ctx : ReaderSafe(d)'
    <3> SUFFICES ASSUME NEW d \in Ctx PROVE ReaderSafe(d)'
      OBVIOUS
    <3>1. UNCHANGED <<rPc, pid, getQ, sPc, semaWakeUp>>
      BY <1>2 DEF WakeUpInc
    <3>2. irq[d] \in Nat /\ irq'[d] \in {irq[d], irq[d] + 1}
      BY <1>a, <1>2 DEF WakeUpInc, WakeTypes
    <3> QED BY <1>a, <3>1, <3>2 DEF ReaderSafe
  <2> QED
    BY <2>1, <2>2, <2>3 DEF WakeInv, TokensCoverWakeUps
<1>3. CASE WakeUpPost(c)
  <2>1. WakeTypes'
    BY <1>a, <1>3, PeerFacts DEF WakeUpPost, WakeTypes
  <2>2. ASSUME semaWakeUp, NEW d \in Ctx PROVE Covered(d)'
    <3>1. /\ irq[d] \in Nat /\ sem[d] \in Nat
          /\ irq[d] <= sem[d] + (IF sPc[Peer(d)] = "post" THEN 1 ELSE 0)
                              + (IF kPc[d] = "post" THEN 1 ELSE 0)
                              + (IF rPc[d] \in {"recheck", "dec"} THEN 1 ELSE 0)
      BY <2>2, TokensNow
    <3>2. CASE d = c
      BY <1>a, <1>3, <2>2, <3>1, <3>2, PeerFacts DEF WakeUpPost, WakeTypes, Covered, Posting
    <3>3. CASE d # c
      BY <1>a, <1>3, <3>1, <3>3, PeerFacts DEF WakeUpPost, WakeTypes, Covered, Posting
    <3> QED
      BY <3>2, <3>3
  <2>3. \A d \in Ctx : ReaderSafe(d)'
    BY <1>a, <1>3, PeerFacts DEF WakeUpPost, WakeTypes, ReaderSafe
  <2> QED
    BY <2>1, <2>2, <2>3 DEF WakeInv, TokensCoverWakeUps
<1> QED
  BY <1>1, <1>2, <1>3 DEF Waker

\* A step of the reader.
LEMMA WakeReader ==
    ASSUME WakeInv, NEW c \in Ctx, Reader(c), semaWakeUp' = semaWakeUp PROVE WakeInv'
<1> USE DEF queueVars, linkVars, semaVars, wakerVars, histVars
<1>a. WakeTypes /\ \A d \in Ctx : ReaderSafe(d)
  BY DEF WakeInv
<1>1. CASE GetBlock(c)
  <2>1. WakeTypes'
    BY <1>a, <1>1, PeerFacts DEF GetBlock, Take, WakeTypes
  <2>2. semaWakeUp => \A d \in Ctx : Covered(d)'
    BY <1>1, PeerFacts DEF GetBlock, WakeInv, WakeTypes, TokensCoverWakeUps, Covered, Posting
  <2>3. \A d \in Ctx : ReaderSafe(d)'
    BY <1>a, <1>1, PeerFacts DEF GetBlock, Take, WakeTypes, ReaderSafe
  <2> QED
    BY <2>1, <2>2, <2>3 DEF WakeInv, TokensCoverWakeUps
<1>2. CASE GetNothing(c)
  <2>1. WakeTypes'
    BY <1>a, <1>2, PeerFacts DEF GetNothing, WakeTypes
  <2>2. semaWakeUp => \A d \in Ctx : Covered(d)'
    BY <1>2, PeerFacts DEF GetNothing, WakeInv, WakeTypes, TokensCoverWakeUps, Covered, Posting
  <2>3. \A d \in Ctx : ReaderSafe(d)'
    BY <1>a, <1>2, PeerFacts DEF GetNothing, WakeTypes, ReaderSafe
  <2> QED
    BY <2>1, <2>2, <2>3 DEF WakeInv, TokensCoverWakeUps
<1>3. CASE WGetNull(c)
  <2>1. WakeTypes'
    BY <1>a, <1>3, PeerFacts DEF WGetNull, WakeTypes
  <2>2. semaWakeUp => \A d \in Ctx : Covered(d)'
    BY <1>3, PeerFacts DEF WGetNull, WakeInv, WakeTypes, TokensCoverWakeUps, Covered, Posting
  <2>3. \A d \in Ctx : ReaderSafe(d)'
    BY <1>a, <1>3, PeerFacts DEF WGetNull, WakeTypes, ReaderSafe
  <2> QED
    BY <2>1, <2>2, <2>3 DEF WakeInv, TokensCoverWakeUps
<1>4. CASE WaitPending(c)
  <2>1. WakeTypes'
    BY <1>a, <1>4, PeerFacts DEF WaitPending, WakeTypes
  <2>2. ASSUME semaWakeUp, NEW d \in Ctx PROVE Covered(d)'
    <3>1. /\ irq[d] \in Nat /\ sem[d] \in Nat
          /\ irq[d] <= sem[d] + (IF sPc[Peer(d)] = "post" THEN 1 ELSE 0)
                              + (IF kPc[d] = "post" THEN 1 ELSE 0)
                              + (IF rPc[d] \in {"recheck", "dec"} THEN 1 ELSE 0)
      BY <2>2, TokensNow
    <3>2. UNCHANGED <<irq, sem, sPc, kPc>> /\ rPc[c] = "wait"
      BY <1>4 DEF WaitPending
    <3>3. CASE d = c
      <4>1. rPc'[d] = "dec"
        BY <1>a, <1>4, <3>3 DEF WaitPending, WakeTypes
      <4> QED BY <3>1, <3>2, <3>3, <4>1 DEF Covered, Posting
    <3>4. CASE d # c
      <4>1. rPc'[d] = rPc[d]
        BY <1>a, <1>4, <3>4 DEF WaitPending, WakeTypes
      <4> QED BY <3>1, <3>2, <4>1 DEF Covered, Posting
    <3> QED
      BY <3>3, <3>4
  <2>3. \A d \in Ctx : ReaderSafe(d)'
    BY <1>a, <1>4, PeerFacts DEF WaitPending, WakeTypes, ReaderSafe
  <2> QED
    BY <2>1, <2>2, <2>3 DEF WakeInv, TokensCoverWakeUps
<1>5. CASE WaitBlock(c)
  <2>1. WakeTypes'
    BY <1>a, <1>5, PeerFacts DEF WaitBlock, WakeTypes
  <2>2. semaWakeUp => \A d \in Ctx : Covered(d)'
    BY <1>5, PeerFacts DEF WaitBlock, WakeInv, WakeTypes, TokensCoverWakeUps, Covered, Posting
  <2>3. \A d \in Ctx : ReaderSafe(d)'
    BY <1>a, <1>5, PeerFacts DEF WaitBlock, WakeTypes, ReaderSafe
  <2> QED
    BY <2>1, <2>2, <2>3 DEF WakeInv, TokensCoverWakeUps
<1>6. CASE SemWait(c)
  <2>1. WakeTypes'
    BY <1>a, <1>6, PeerFacts DEF SemWait, WakeTypes
  <2>2. ASSUME semaWakeUp, NEW d \in Ctx PROVE Covered(d)'
    <3>1. /\ irq[d] \in Nat /\ sem[d] \in Nat
          /\ irq[d] <= sem[d] + (IF sPc[Peer(d)] = "post" THEN 1 ELSE 0)
                              + (IF kPc[d] = "post" THEN 1 ELSE 0)
                              + (IF rPc[d] \in {"recheck", "dec"} THEN 1 ELSE 0)
      BY <2>2, TokensNow
    <3>2. UNCHANGED <<irq, sPc, kPc>> /\ rPc[c] = "blocked"
      BY <1>6 DEF SemWait
    <3>3. CASE d = c
      <4>1. sem'[d] = sem[d] - 1 /\ rPc'[d] = "recheck"
        BY <1>a, <1>6, <3>3 DEF SemWait, WakeTypes
      <4> QED BY <3>1, <3>2, <3>3, <4>1 DEF Covered, Posting
    <3>4. CASE d # c
      <4>1. sem'[d] = sem[d] /\ rPc'[d] = rPc[d]
        BY <1>a, <1>6, <3>4 DEF SemWait, WakeTypes
      <4> QED BY <3>1, <3>2, <4>1 DEF Covered, Posting
    <3> QED
      BY <3>3, <3>4
  <2>3. \A d \in Ctx : ReaderSafe(d)'
    BY <1>a, <1>6, PeerFacts DEF SemWait, WakeTypes, ReaderSafe
  <2> QED
    BY <2>1, <2>2, <2>3 DEF WakeInv, TokensCoverWakeUps
<1>7. CASE Recheck(c)
  <2>1. WakeTypes'
    BY <1>a, <1>7, PeerFacts DEF Recheck, WakeTypes
  <2>2. ASSUME semaWakeUp, NEW d \in Ctx PROVE Covered(d)'
    <3>1. /\ irq[d] \in Nat /\ sem[d] \in Nat
          /\ irq[d] <= sem[d] + (IF sPc[Peer(d)] = "post" THEN 1 ELSE 0)
                              + (IF kPc[d] = "post" THEN 1 ELSE 0)
                              + (IF rPc[d] \in {"recheck", "dec"} THEN 1 ELSE 0)
      BY <2>2, TokensNow
    <3>2. UNCHANGED <<irq, sem, sPc, kPc>> /\ rPc[c] = "recheck"
      BY <1>7 DEF Recheck
    <3>3. CASE d = c
      <4>1. rPc'[d] = "dec" \/ (irq[d] = 0 /\ rPc'[d] = "again")
        BY <1>a, <1>7, <3>3 DEF Recheck, WakeTypes
      <4> QED BY <3>1, <3>2, <3>3, <4>1 DEF Covered, Posting
    <3>4. CASE d # c
      <4>1. rPc'[d] = rPc[d]
        BY <1>a, <1>7, <3>4 DEF Recheck, WakeTypes
      <4> QED BY <3>1, <3>2, <4>1 DEF Covered, Posting
    <3> QED
      BY <3>3, <3>4
  <2>3. \A d \in Ctx : ReaderSafe(d)'
    BY <1>a, <1>7, PeerFacts DEF Recheck, WakeTypes, ReaderSafe
  <2> QED
    BY <2>1, <2>2, <2>3 DEF WakeInv, TokensCoverWakeUps
<1>8. CASE WaitDec(c)
  <2>1. WakeTypes'
    BY <1>a, <1>8 DEF WaitDec, WakeTypes, ReaderSafe
  <2>2. ASSUME semaWakeUp, NEW d \in Ctx PROVE Covered(d)'
    <3>1. /\ irq[d] \in Nat /\ sem[d] \in Nat
          /\ irq[d] <= sem[d] + (IF sPc[Peer(d)] = "post" THEN 1 ELSE 0)
                              + (IF kPc[d] = "post" THEN 1 ELSE 0)
                              + (IF rPc[d] \in {"recheck", "dec"} THEN 1 ELSE 0)
      BY <2>2, TokensNow
    <3>2. UNCHANGED <<sem, sPc, kPc>> /\ rPc[c] = "dec"
      BY <1>8 DEF WaitDec
    <3>3. CASE d = c
      <4>1. irq'[d] = irq[d] - 1 /\ rPc'[d] = "again"
        BY <1>a, <1>8, <3>3 DEF WaitDec, WakeTypes
      <4> QED BY <3>1, <3>2, <3>3, <4>1 DEF Covered, Posting
    <3>4. CASE d # c
      <4>1. irq'[d] = irq[d] /\ rPc'[d] = rPc[d]
        BY <1>a, <1>8, <3>4 DEF WaitDec, WakeTypes
      <4> QED BY <3>1, <3>2, <4>1 DEF Covered, Posting
    <3> QED
      BY <3>3, <3>4
  <2>3. \A d \in Ctx : ReaderSafe(d)'
    BY <1>a, <1>8, PeerFacts DEF WaitDec, WakeTypes, ReaderSafe
  <2> QED
    BY <2>1, <2>2, <2>3 DEF WakeInv, TokensCoverWakeUps
<1> QED
  BY <1>1, <1>2, <1>3, <1>4, <1>5, <1>6, <1>7, <1>8 DEF Reader

\* A close: of the contexts it zeroes nobody waits, and the one it leaves open
\* keeps what it had.
LEMMA WakeClose ==
    ASSUME WakeInv, NEW c \in Ctx, Close(c), semaWakeUp' = semaWakeUp PROVE WakeInv'
<1> USE DEF wakerVars, histVars
<1>a. WakeTypes /\ \A d \in Ctx : ReaderSafe(d)
  BY DEF WakeInv
<1>1. WakeTypes'
  <2>1. /\ UNCHANGED <<semaWakeUp, sPc, kPc, rPc, sent>>
        /\ pid' = [pid EXCEPT ![c] = FALSE] /\ irq' = [irq EXCEPT ![c] = 0]
        /\ sem' = [sem EXCEPT ![c] = 0]
        /\ putQ' = [putQ EXCEPT ![c] = <<>>] /\ getQ' = [getQ EXCEPT ![c] = <<>>]
    BY DEF Close
  <2>2. putQ' \in [Ctx -> Seq(Nat)] /\ getQ' \in [Ctx -> Seq(Nat)]
    <3>1. <<>> \in Seq(Nat)
      OBVIOUS
    <3> QED BY <1>a, <2>1, <3>1 DEF WakeTypes
  <2>3. irq' \in [Ctx -> Nat] /\ sem' \in [Ctx -> Nat] /\ pid' \in [Ctx -> BOOLEAN]
    BY <1>a, <2>1 DEF WakeTypes
  <2> QED BY <1>a, <2>1, <2>2, <2>3 DEF WakeTypes
<1>2. ASSUME semaWakeUp, NEW d \in Ctx PROVE Covered(d)'
  <2>1. /\ irq[d] \in Nat /\ sem[d] \in Nat
        /\ irq[d] <= sem[d] + (IF sPc[Peer(d)] = "post" THEN 1 ELSE 0)
                            + (IF kPc[d] = "post" THEN 1 ELSE 0)
                            + (IF rPc[d] \in {"recheck", "dec"} THEN 1 ELSE 0)
    BY <1>2, TokensNow
  <2>2. sPc' = sPc /\ kPc' = kPc /\ rPc' = rPc
    BY DEF Close
  <2>3. CASE d = c
    <3>1. irq'[d] = 0 /\ sem'[d] = 0
      BY <1>a, <2>3 DEF Close, WakeTypes
    <3> QED
      BY <3>1 DEF Covered, Posting
  <2>4. CASE d # c
    <3>1. irq'[d] = irq[d] /\ sem'[d] = sem[d]
      BY <1>a, <2>4 DEF Close, WakeTypes
    <3> QED
      BY <2>1, <2>2, <3>1 DEF Covered, Posting
  <2> QED
    BY <2>3, <2>4
<1>3. \A d \in Ctx : ReaderSafe(d)'
  <2> SUFFICES ASSUME NEW d \in Ctx PROVE ReaderSafe(d)'
    OBVIOUS
  <2>1. ReaderSafe(d) /\ Peer(d) \in Ctx
    BY <1>a, PeerFacts
  <2>2. UNCHANGED <<sPc, rPc, semaWakeUp>>
    BY DEF Close
  <2>3. CASE d # c
    <3>1. irq'[d] = irq[d] /\ pid'[d] = pid[d] /\ getQ'[d] = getQ[d]
      BY <1>a, <2>3 DEF Close, WakeTypes
    <3> QED BY <2>1, <2>2, <3>1 DEF ReaderSafe
  <2>4. CASE d = c
    BY <2>2, <2>4 DEF Close, ReaderSafe
  <2> QED BY <2>3, <2>4
<1> QED
  BY <1>1, <1>2, <1>3 DEF WakeInv, TokensCoverWakeUps

\* The invariant holds throughout.
THEOREM WakeInvariant == Spec => []WakeInv
<1>1. Init => WakeInv
  BY WakeInit
<1>2. WakeInv /\ [Next]_vars => WakeInv'
  <2> SUFFICES ASSUME WakeInv, [Next]_vars PROVE WakeInv'
    OBVIOUS
  <2>1. CASE UNCHANGED vars
    BY <2>1 DEF vars, queueVars, linkVars, semaVars, wakerVars, histVars, WakeInv, WakeTypes,
       TokensCoverWakeUps, Covered, Posting, ReaderSafe
  <2>2. CASE Next
    BY <2>2, ModeKept, WakeSender, WakeWaker, WakeReader, WakeClose DEF Next
  <2> QED
    BY <2>1, <2>2
<1> QED
  BY <1>1, <1>2, PTL DEF Spec

\* wls_wait never consumes a wake-up the semaphore does not hold: is_irq is
\* covered by the semaphore, for every FIFO_LEN and every number of blocks.
THEOREM TokensCover == Spec => []TokensCoverWakeUps
BY WakeInvariant, PTL DEF WakeInv

\* A reader asleep in sem_wait over a block has a wake-up due to it.
THEOREM NoWakeUpLost == Spec => []NoLostWakeUp
<1>1. WakeInv => NoLostWakeUp
  <2> SUFFICES ASSUME WakeInv, NEW c \in Ctx, rPc[c] = "blocked", getQ[c] # <<>>,
                      sPc[Peer(c)] = "idle", kPc[c] # "post"
               PROVE sem[c] > 0
    BY DEF NoLostWakeUp
  <2>1. semaWakeUp /\ irq[c] > 0
    BY DEF WakeInv, ReaderSafe
  <2>2. Posting(c) = 0
    BY PeerFacts DEF Posting
  <2>3. irq[c] <= sem[c]
    <3>1. irq[c] \in Nat /\ sem[c] \in Nat /\ Covered(c)
      BY <2>1 DEF WakeInv, WakeTypes, TokensCoverWakeUps
    <3> QED
      BY <2>2, <3>1 DEF Covered
  <2> QED
    BY <2>1, <2>3 DEF WakeInv, WakeTypes
<1> QED
  BY <1>1, WakeInvariant, PTL

------------------------------------------------------------------------------
(* Types. *)

Raising(c) ==
    (IF sPc[Peer(c)] = "inc" THEN 1 ELSE 0) + (IF kPc[c] = "inc" THEN 1 ELSE 0)

\* Two threads can have passed the check of FIFO_LEN, one after the other one
\* raised is_irq to it.
RaisedInBounds == \A c \in Ctx : irq[c] + Raising(c) <= FifoLen + 1

Blocks == Seq(1 .. MaxSent)

QueueTypes ==
    /\ putQ \in [Ctx -> Blocks] /\ \A c \in Ctx : Len(putQ[c]) <= PutCap
    /\ getQ \in [Ctx -> Blocks] /\ \A c \in Ctx : Len(getQ[c]) <= GetCap
    /\ taken \in [Ctx -> Blocks]
    /\ sent \in [Ctx -> 0 .. MaxSent] /\ dropped \in [Ctx -> SUBSET (1 .. MaxSent)]
    /\ overrun \in [Ctx -> BOOLEAN]
CountTypes == left \in [Ctx -> 0 .. PutCap] /\ kCalls \in 0 .. MaxWakeUps
LinkTypes == dst \in [Ctx -> BOOLEAN]

LEMMA TypeParts ==
    TypeOK <=> /\ QueueTypes /\ CountTypes /\ LinkTypes
               /\ irq \in [Ctx -> 0 .. FifoLen + 1] /\ sem \in [Ctx -> Nat]
               /\ pid \in [Ctx -> BOOLEAN] /\ semaWakeUp \in BOOLEAN
               /\ sPc \in [Ctx -> {"idle", "xfer", "wake", "inc", "post"}]
               /\ kPc \in [Ctx -> {"idle", "inc", "post"}]
               /\ rPc \in [Ctx -> {"get", "wait", "blocked", "recheck", "dec", "again"}]
  BY Zenon DEF TypeOK, QueueTypes, CountTypes, LinkTypes, Blocks

LEMMA BlocksFacts ==
    /\ <<>> \in Blocks /\ Len(<<>>) = 0
    /\ \A s \in Blocks : Len(s) \in Nat
    /\ \A s \in Blocks, b \in 1 .. MaxSent :
          Append(s, b) \in Blocks /\ Len(Append(s, b)) = Len(s) + 1
    /\ \A s \in Blocks : s # <<>> =>
          /\ Head(s) \in 1 .. MaxSent /\ Tail(s) \in Blocks
          /\ Len(Tail(s)) = Len(s) - 1 /\ Len(s) > 0
  <1>1. <<>> \in Blocks /\ Len(<<>>) = 0
    BY DEF Blocks
  <1>2. ASSUME NEW s \in Blocks PROVE Len(s) \in Nat
    BY DEF Blocks
  <1>3. ASSUME NEW s \in Blocks, NEW b \in 1 .. MaxSent
        PROVE  Append(s, b) \in Blocks /\ Len(Append(s, b)) = Len(s) + 1
    BY AppendProperties DEF Blocks
  <1>4. ASSUME NEW s \in Blocks, s # <<>>
        PROVE  /\ Head(s) \in 1 .. MaxSent /\ Tail(s) \in Blocks
               /\ Len(Tail(s)) = Len(s) - 1 /\ Len(s) > 0
    <2>1. /\ Head(s) \in 1 .. MaxSent /\ Tail(s) \in Blocks
          /\ Len(Tail(s)) = Len(s) - 1
      BY <1>4, HeadTailProperties DEF Blocks
    <2>2. Len(s) \in Nat \ {0}
      BY <1>4, EmptySeq DEF Blocks
    <2> QED BY <2>1, <2>2
  <1> QED BY <1>1, <1>2, <1>3, <1>4

\* A put adds a block to a queue with room for it.
LEMMA PutTypes ==
    ASSUME QueueTypes, NEW c \in Ctx, MayPut(c), PutOwn(c), getQ' = getQ, taken' = taken
    PROVE  QueueTypes' /\ Len(putQ'[c]) \in 0 .. PutCap
  <1> DEFINE b == sent[c] + 1
             full == Len(putQ[c]) >= PutCap
             put == IF full THEN putQ[c] ELSE Append(putQ[c], b)
             drop == IF full THEN dropped[c] \cup {b} ELSE dropped[c]
  <1>1. b \in 1 .. MaxSent
    BY BoundsAssumption DEF QueueTypes, MayPut
  <1>2. put \in Blocks /\ Len(put) <= PutCap
    <2>1. putQ[c] \in Blocks /\ Len(putQ[c]) \in Nat /\ Len(putQ[c]) <= PutCap
      BY BlocksFacts DEF QueueTypes
    <2>2. PutCap \in Nat
      BY BoundsAssumption
    <2>3. CASE full
      BY <2>1, <2>3
    <2>4. CASE ~full
      <3>1. put = Append(putQ[c], b)
        BY <2>4
      <3>2. Append(putQ[c], b) \in Blocks /\ Len(Append(putQ[c], b)) = Len(putQ[c]) + 1
        BY <1>1, <2>1, BlocksFacts
      <3>3. Len(putQ[c]) + 1 <= PutCap
        BY <2>1, <2>2, <2>4
      <3> QED BY <3>1, <3>2, <3>3
    <2> QED BY <2>3, <2>4
  <1>3. drop \subseteq 1 .. MaxSent
    BY <1>1 DEF QueueTypes
  <1>4. /\ putQ' = [putQ EXCEPT ![c] = put] /\ dropped' = [dropped EXCEPT ![c] = drop]
        /\ sent' = [sent EXCEPT ![c] = b] /\ overrun' = [overrun EXCEPT ![c] = overrun[c] \/ full]
    BY DEF PutOwn
  <1> HIDE DEF b, put, drop, full
  <1>5. putQ' \in [Ctx -> Blocks] /\ \A d \in Ctx : Len(putQ'[d]) <= PutCap
    BY <1>2, <1>4 DEF QueueTypes
  <1>6. /\ sent' \in [Ctx -> 0 .. MaxSent] /\ dropped' \in [Ctx -> SUBSET (1 .. MaxSent)]
    BY <1>1, <1>3, <1>4 DEF QueueTypes
  <1>7. overrun' \in [Ctx -> BOOLEAN]
    BY <1>4 DEF QueueTypes
  <1>8. Len(putQ'[c]) \in 0 .. PutCap
    BY <1>5, BlocksFacts, BoundsAssumption
  <1> QED BY <1>5, <1>6, <1>7, <1>8 DEF QueueTypes

LEMMA MoveTypes ==
    ASSUME QueueTypes, CountTypes, NEW c \in Ctx, XferMove(c)
    PROVE  QueueTypes' /\ CountTypes'
  <1> DEFINE g == Append(getQ[Peer(c)], Head(putQ[c]))
             t == Tail(putQ[c])
  <1>1. /\ putQ[c] \in Blocks /\ putQ[c] # <<>> /\ Len(putQ[c]) <= PutCap
        /\ getQ[Peer(c)] \in Blocks /\ Len(getQ[Peer(c)]) < GetCap /\ Peer(c) \in Ctx
    BY PeerFacts DEF XferMove, GetRoom, QueueTypes
  <1>2. g \in Blocks /\ Len(g) <= GetCap /\ t \in Blocks /\ Len(t) <= PutCap
    <2>1. /\ Head(putQ[c]) \in 1 .. MaxSent /\ t \in Blocks
          /\ Len(t) = Len(putQ[c]) - 1 /\ Len(putQ[c]) \in Nat
      BY <1>1, BlocksFacts
    <2>2. /\ g \in Blocks /\ Len(g) = Len(getQ[Peer(c)]) + 1
          /\ Len(getQ[Peer(c)]) \in Nat
      BY <1>1, <2>1, BlocksFacts
    <2>3. PutCap \in Nat /\ GetCap \in Nat
      BY BoundsAssumption
    <2> QED BY <1>1, <2>1, <2>2, <2>3
  <1>3. /\ getQ' = [getQ EXCEPT ![Peer(c)] = g] /\ putQ' = [putQ EXCEPT ![c] = t]
        /\ left' = [left EXCEPT ![c] = left[c] - 1] /\ left[c] > 0
        /\ UNCHANGED <<kCalls, histVars>>
    BY DEF XferMove, wakerVars
  <1> HIDE DEF g, t
  <1>4. CountTypes'
    BY <1>3, BoundsAssumption DEF CountTypes
  <1>5. putQ' \in [Ctx -> Blocks] /\ \A d \in Ctx : Len(putQ'[d]) <= PutCap
    BY <1>2, <1>3 DEF QueueTypes
  <1>6. getQ' \in [Ctx -> Blocks] /\ \A d \in Ctx : Len(getQ'[d]) <= GetCap
    BY <1>1, <1>2, <1>3 DEF QueueTypes
  <1> QED BY <1>3, <1>4, <1>5, <1>6 DEF QueueTypes, histVars

LEMMA RequeueTypes ==
    ASSUME QueueTypes, NEW c \in Ctx, XferFull(c)
    PROVE  QueueTypes'
  <1> DEFINE r == Append(Tail(putQ[c]), Head(putQ[c]))
  <1>1. putQ[c] \in Blocks /\ putQ[c] # <<>> /\ Len(putQ[c]) <= PutCap
    BY DEF XferFull, QueueTypes
  <1>2. r \in Blocks /\ Len(r) = Len(putQ[c])
    BY <1>1, BlocksFacts
  <1>3. /\ putQ' = [putQ EXCEPT ![c] = r] /\ overrun' = [overrun EXCEPT ![c] = TRUE]
        /\ UNCHANGED <<getQ, sent, dropped, taken>>
    BY DEF XferFull
  <1> HIDE DEF r
  <1> QED BY <1>1, <1>2, <1>3 DEF QueueTypes

LEMMA TakeTypes ==
    ASSUME QueueTypes, NEW c \in Ctx, GetBlock(c)
    PROVE  QueueTypes'
  <1> DEFINE g == Tail(getQ[c])
             t == Append(taken[c], Head(getQ[c]))
  <1>1. getQ[c] \in Blocks /\ getQ[c] # <<>> /\ Len(getQ[c]) <= GetCap /\ taken[c] \in Blocks
    BY DEF GetBlock, QueueTypes
  <1>2. g \in Blocks /\ Len(g) <= GetCap /\ t \in Blocks
    BY <1>1, BlocksFacts, BoundsAssumption
  <1>3. /\ getQ' = [getQ EXCEPT ![c] = g] /\ taken' = [taken EXCEPT ![c] = t]
        /\ UNCHANGED <<putQ, sent, dropped, overrun>>
    BY DEF GetBlock, Take
  <1> HIDE DEF g, t
  <1> QED BY <1>2, <1>3 DEF QueueTypes

LEMMA CloseTypes ==
    ASSUME QueueTypes, LinkTypes, NEW c \in Ctx, Close(c)
    PROVE  QueueTypes' /\ LinkTypes'
  <1>1. /\ putQ' = [putQ EXCEPT ![c] = <<>>] /\ getQ' = [getQ EXCEPT ![c] = <<>>]
        /\ UNCHANGED <<sent, dropped, overrun, taken>>
    BY DEF Close, histVars
  <1>2. QueueTypes'
    <2>1. putQ' \in [Ctx -> Blocks] /\ getQ' \in [Ctx -> Blocks]
      BY <1>1, BlocksFacts DEF QueueTypes
    <2>2. 0 <= PutCap /\ 0 <= GetCap
      BY BoundsAssumption
    <2>3. ASSUME NEW d \in Ctx PROVE Len(putQ'[d]) <= PutCap /\ Len(getQ'[d]) <= GetCap
      <3>1. CASE d = c
        <4>1. putQ'[d] = <<>> /\ getQ'[d] = <<>>
          BY <1>1, <3>1 DEF QueueTypes
        <4> QED BY <2>2, <4>1, BlocksFacts
      <3>2. CASE d # c
        BY <1>1, <3>2 DEF QueueTypes
      <3> QED BY <3>1, <3>2
    <2> QED BY <1>1, <2>1, <2>3 DEF QueueTypes
  <1>3. LinkTypes'
    BY DEF LinkTypes, Close
  <1> QED BY <1>2, <1>3

TypeInv == TypeOK /\ RaisedInBounds

\* What a step must establish of the rest.
LEMMA TypeInvNext ==
    ASSUME QueueTypes', CountTypes', LinkTypes', WakeTypes', RaisedInBounds'
    PROVE  TypeInv'
  <1>1. irq' \in [Ctx -> 0 .. FifoLen + 1]
    <2>1. ASSUME NEW c \in Ctx PROVE irq'[c] \in 0 .. FifoLen + 1
      <3>1. irq'[c] \in Nat /\ Raising(c)' \in {0, 1, 2} /\ irq'[c] + Raising(c)' <= FifoLen + 1
        BY DEF WakeTypes, RaisedInBounds, Raising
      <3>2. FifoLen \in Nat
        BY BoundsAssumption
      <3> QED BY <3>1, <3>2
    <2> QED BY <2>1 DEF WakeTypes
  <1>2. TypeOK'
    BY <1>1, Zenon DEF TypeOK, QueueTypes, CountTypes, LinkTypes, Blocks, WakeTypes
  <1> QED BY <1>2 DEF TypeInv

LEMMA TypeInit == Init => TypeInv
  <1> SUFFICES ASSUME Init PROVE TypeInv
    OBVIOUS
  <1>1. QueueTypes
    <2>1. 0 <= PutCap /\ 0 <= GetCap /\ 0 \in 0 .. MaxSent
      BY BoundsAssumption
    <2>2. \A c \in Ctx : putQ[c] = <<>> /\ getQ[c] = <<>>
      BY DEF Init
    <2> QED BY <2>1, <2>2, BlocksFacts DEF Init, QueueTypes
  <1>2. CountTypes /\ LinkTypes
    BY BoundsAssumption DEF Init, CountTypes, LinkTypes
  <1>3. 0 \in 0 .. FifoLen + 1 /\ 0 <= FifoLen + 1
    BY BoundsAssumption
  <1>4. RaisedInBounds
    BY <1>3, PeerFacts DEF Init, RaisedInBounds, Raising
  <1>5. TypeOK
    BY <1>1, <1>2, <1>3, TypeParts DEF Init
  <1> QED BY <1>4, <1>5 DEF TypeInv

\* Steps that raise no is_irq and start no raising keep the bound.
LEMMA RaisedFrame ==
    ASSUME RaisedInBounds, WakeTypes, WakeTypes',
           \A d \in Ctx : /\ irq'[d] <= irq[d]
                          /\ sPc'[d] = "inc" => sPc[d] = "inc"
                          /\ kPc'[d] = "inc" => kPc[d] = "inc"
    PROVE  RaisedInBounds'
  <1> SUFFICES ASSUME NEW d \in Ctx PROVE irq'[d] + Raising(d)' <= FifoLen + 1
    BY DEF RaisedInBounds
  <1>1. irq'[d] \in Nat /\ irq[d] \in Nat /\ irq'[d] <= irq[d] /\ Peer(d) \in Ctx
    BY PeerFacts DEF WakeTypes
  <1>2. irq[d] + Raising(d) <= FifoLen + 1
    BY DEF RaisedInBounds
  <1>3. FifoLen \in Nat
    BY BoundsAssumption
  <1> QED BY <1>1, <1>2, <1>3 DEF Raising

\* Steps that leave is_irq and the PHY's waker alone and start no raising.
LEMMA RaisedStill ==
    ASSUME RaisedInBounds, WakeTypes, WakeTypes', irq' = irq, kPc' = kPc,
           \A d \in Ctx : sPc'[d] = "inc" => sPc[d] = "inc"
    PROVE  RaisedInBounds'
  <1>1. \A d \in Ctx : irq'[d] <= irq[d]
    BY DEF WakeTypes
  <1> QED BY <1>1, RaisedFrame

LEMMA SenderTypes ==
    ASSUME TypeInv, WakeInv, WakeInv', NEW c \in Ctx, Sender(c)
    PROVE  TypeInv'
  <1>1. /\ QueueTypes /\ CountTypes /\ LinkTypes /\ RaisedInBounds /\ WakeTypes /\ WakeTypes'
        /\ FifoLen \in Nat
    BY TypeParts, BoundsAssumption DEF TypeInv, WakeInv
  <1>2. LinkTypes'
    BY <1>1 DEF Sender, PutHold, PutCommit, XferMove, XferFull, XferDone, WakeNobody,
       WakeSaturated, WakePeer, WakeInc, WakePost, linkVars, LinkTypes
  <1>3. CASE PutHold(c)
    <2>1. QueueTypes'
      BY <1>1, <1>3, PutTypes DEF PutHold
    <2>2. CountTypes'
      BY <1>1, <1>3 DEF PutHold, wakerVars, CountTypes
    <2>3. RaisedInBounds'
      <3>1. UNCHANGED <<irq, kPc, sPc>>
        BY <1>3 DEF PutHold, semaVars, wakerVars
      <3> QED BY <1>1, <3>1, RaisedStill
    <2> QED BY <1>1, <1>2, <2>1, <2>2, <2>3, TypeInvNext
  <1>4. CASE PutCommit(c)
    <2>1. QueueTypes' /\ Len(putQ'[c]) \in 0 .. PutCap
      BY <1>1, <1>4, PutTypes DEF PutCommit
    <2>2. CountTypes'
      BY <1>1, <1>4, <2>1 DEF PutCommit, wakerVars, CountTypes
    <2>3. RaisedInBounds'
      <3>1. UNCHANGED <<irq, kPc>> /\ sPc' = [sPc EXCEPT ![c] = "xfer"]
        BY <1>4 DEF PutCommit, semaVars, wakerVars
      <3>2. \A d \in Ctx : sPc'[d] = "inc" => sPc[d] = "inc"
        BY <1>1, <3>1 DEF WakeTypes
      <3> QED BY <1>1, <3>1, <3>2, RaisedStill
    <2> QED BY <1>1, <1>2, <2>1, <2>2, <2>3, TypeInvNext
  <1>5. CASE XferMove(c)
    <2>1. QueueTypes' /\ CountTypes'
      BY <1>1, <1>5, MoveTypes
    <2>2. UNCHANGED <<irq, sPc, kPc>>
      BY <1>5 DEF XferMove, semaVars, wakerVars
    <2>3. \A d \in Ctx : irq'[d] <= irq[d]
      BY <1>1, <2>2 DEF WakeTypes
    <2>4. RaisedInBounds'
      BY <1>1, <2>2, <2>3, RaisedFrame
    <2> QED BY <1>1, <1>2, <2>1, <2>4, TypeInvNext
  <1>6. CASE XferFull(c)
    <2>1. QueueTypes' /\ CountTypes'
      BY <1>1, <1>6, RequeueTypes DEF XferFull, wakerVars, CountTypes
    <2>2. RaisedInBounds'
      <3>1. UNCHANGED <<irq, kPc>>
        BY <1>6 DEF XferFull, semaVars, wakerVars
      <3>2. \A d \in Ctx : sPc'[d] = "inc" => sPc[d] = "inc"
        BY <1>1, <1>6 DEF XferFull, WakeTypes
      <3> QED BY <1>1, <3>1, <3>2, RaisedStill
    <2> QED BY <1>1, <1>2, <2>1, <2>2, TypeInvNext
  <1>7. CASE XferDone(c) \/ WakeNobody(c) \/ WakeSaturated(c) \/ WakePost(c)
    <2>1. UNCHANGED <<queueVars, histVars, left, wakerVars, irq>>
      BY <1>7 DEF XferDone, WakeNobody, WakeSaturated, WakePost, semaVars
    <2>2. QueueTypes' /\ CountTypes'
      BY <1>1, <2>1 DEF QueueTypes, CountTypes, queueVars, histVars, wakerVars
    <2>3. \A d \in Ctx : sPc'[d] = "inc" => sPc[d] = "inc"
      BY <1>1, <1>7 DEF XferDone, WakeNobody, WakeSaturated, WakePost, WakeTypes
    <2>4. RaisedInBounds'
      <3>1. irq' = irq /\ kPc' = kPc
        BY <2>1 DEF wakerVars
      <3>2. \A d \in Ctx : irq'[d] <= irq[d]
        BY <1>1, <3>1 DEF WakeTypes
      <3> QED BY <1>1, <2>3, <3>1, <3>2, RaisedFrame
    <2> QED BY <1>1, <1>2, <2>2, <2>4, TypeInvNext
  <1>8. CASE WakePeer(c) \/ WakeInc(c)
    <2>1. UNCHANGED <<queueVars, histVars, left, wakerVars>>
      BY <1>8 DEF WakePeer, WakeInc
    <2>2. QueueTypes' /\ CountTypes'
      BY <1>1, <2>1 DEF QueueTypes, CountTypes, queueVars, histVars, wakerVars
    <2>3. ASSUME NEW d \in Ctx PROVE irq'[d] + Raising(d)' <= FifoLen + 1
      <3>1. /\ irq[d] \in Nat /\ irq[d] + Raising(d) <= FifoLen + 1
            /\ kPc' = kPc /\ Peer(d) \in Ctx /\ Peer(Peer(d)) = d
        BY <1>1, <2>1, PeerFacts DEF RaisedInBounds, WakeTypes, wakerVars
      <3>2. CASE Peer(d) # c
        <4>1. Peer(c) # d /\ irq'[d] = irq[d] /\ sPc'[Peer(d)] = sPc[Peer(d)]
          <5>1. Peer(c) # d /\ Peer(c) \in Ctx
            BY <3>1, <3>2, PeerFacts
          <5>2. CASE WakePeer(c)
            BY <1>1, <3>1, <3>2, <5>1, <5>2 DEF WakePeer, semaVars, WakeTypes
          <5>3. CASE WakeInc(c)
            BY <1>1, <3>1, <3>2, <5>1, <5>3 DEF WakeInc, WakeTypes
          <5> QED BY <1>8, <5>2, <5>3
        <4> QED BY <3>1, <4>1 DEF Raising
      <3>3. CASE Peer(d) = c /\ WakePeer(c)
        <4>1. Peer(c) = d /\ irq[d] < FifoLen /\ irq' = irq /\ sPc'[c] = "inc"
          BY <1>1, <3>1, <3>3 DEF WakePeer, semaVars, WakeTypes
        <4> QED BY <1>1, <3>1, <3>3, <4>1 DEF Raising
      <3>4. CASE Peer(d) = c /\ WakeInc(c)
        <4>1. /\ Peer(c) = d /\ irq'[d] = irq[d] + 1
              /\ sPc[c] = "inc" /\ sPc'[c] = "post"
          BY <1>1, <3>1, <3>4 DEF WakeInc, WakeTypes
        <4> QED BY <1>1, <3>1, <3>4, <4>1 DEF Raising
      <3> QED BY <1>8, <3>2, <3>3, <3>4
    <2> QED BY <1>1, <1>2, <2>2, <2>3, TypeInvNext DEF RaisedInBounds
  <1> QED BY <1>3, <1>4, <1>5, <1>6, <1>7, <1>8 DEF Sender

LEMMA WakerTypes ==
    ASSUME TypeInv, WakeInv, WakeInv', NEW c \in Ctx, Waker(c)
    PROVE  TypeInv'
  <1>1. /\ QueueTypes /\ CountTypes /\ LinkTypes /\ RaisedInBounds /\ WakeTypes /\ WakeTypes'
        /\ FifoLen \in Nat
    BY TypeParts, BoundsAssumption DEF TypeInv, WakeInv
  <1>2. UNCHANGED <<queueVars, linkVars, sPc, left, histVars>>
    BY DEF Waker, WakeUpCall, WakeUpInc, WakeUpPost
  <1>3. QueueTypes' /\ LinkTypes'
    BY <1>1, <1>2 DEF QueueTypes, LinkTypes, queueVars, linkVars, histVars
  <1>4. CountTypes'
    BY <1>1, <1>2, BoundsAssumption
       DEF CountTypes, Waker, WakeUpCall, WakeUpInc, WakeUpPost
  <1>5. ASSUME NEW d \in Ctx PROVE irq'[d] + Raising(d)' <= FifoLen + 1
    <2>1. irq[d] \in Nat /\ irq[d] + Raising(d) <= FifoLen + 1 /\ sPc' = sPc
      BY <1>1, <1>2 DEF RaisedInBounds, WakeTypes
    <2>2. CASE d # c \/ WakeUpPost(c)
      <3>1. irq'[d] = irq[d] /\ (kPc'[d] = "inc" => kPc[d] = "inc")
        <4>1. CASE WakeUpCall(c) /\ d # c
          BY <1>1, <4>1 DEF WakeUpCall, semaVars, WakeTypes
        <4>2. CASE WakeUpInc(c) /\ d # c
          BY <1>1, <4>2 DEF WakeUpInc, WakeTypes
        <4>3. CASE WakeUpPost(c)
          BY <1>1, <4>3 DEF WakeUpPost, WakeTypes
        <4> QED BY <2>2, <4>1, <4>2, <4>3 DEF Waker
      <3> QED BY <1>1, <2>1, <3>1 DEF Raising
    <2>3. CASE d = c /\ WakeUpCall(c)
      <3>1. irq' = irq /\ (kPc'[d] = "inc" => irq[d] < FifoLen)
        BY <1>1, <2>3 DEF WakeUpCall, semaVars, WakeTypes
      <3> QED BY <1>1, <2>1, <3>1 DEF Raising
    <2>4. CASE d = c /\ WakeUpInc(c)
      <3>1. irq'[d] = irq[d] + 1 /\ kPc[d] = "inc" /\ kPc'[d] = "post"
        BY <1>1, <2>4 DEF WakeUpInc, WakeTypes
      <3> QED BY <1>1, <2>1, <3>1 DEF Raising
    <2> QED BY <2>2, <2>3, <2>4 DEF Waker
  <1> QED BY <1>1, <1>3, <1>4, <1>5, TypeInvNext DEF RaisedInBounds

LEMMA ReaderTypes ==
    ASSUME TypeInv, WakeInv, WakeInv', NEW c \in Ctx, Reader(c)
    PROVE  TypeInv'
  <1>1. /\ QueueTypes /\ CountTypes /\ LinkTypes /\ RaisedInBounds /\ WakeTypes /\ WakeTypes'
    BY TypeParts DEF TypeInv, WakeInv
  <1>2. UNCHANGED <<linkVars, sPc, left, wakerVars>>
    BY DEF Reader, GetBlock, GetNothing, WGetNull, WaitPending, WaitBlock, SemWait, Recheck,
       WaitDec
  <1>3. CountTypes' /\ LinkTypes'
    BY <1>1, <1>2 DEF CountTypes, LinkTypes, linkVars, wakerVars
  <1>4. QueueTypes'
    <2>1. CASE UNCHANGED <<queueVars, histVars>>
      BY <1>1, <2>1 DEF QueueTypes, queueVars, histVars
    <2> QED BY <1>1, <2>1, TakeTypes DEF Reader, GetNothing, WGetNull, WaitPending, WaitBlock,
               SemWait, Recheck, WaitDec
  <1>5. \A d \in Ctx : irq'[d] <= irq[d]
    <2>1. CASE irq' = irq
      BY <1>1, <2>1 DEF WakeTypes
    <2>2. CASE WaitDec(c)
      <3>1. irq \in [Ctx -> Nat] /\ irq' \in [Ctx -> Nat] /\ irq' = [irq EXCEPT ![c] = @ - 1]
        BY <1>1, <2>2 DEF WaitDec, WakeTypes
      <3>2. irq'[c] = irq[c] - 1 /\ \A d \in Ctx \ {c} : irq'[d] = irq[d]
        BY <3>1
      <3> QED BY <3>1, <3>2
    <2>3. GetBlock(c) \/ GetNothing(c) \/ WGetNull(c) => irq' = irq
      BY DEF GetBlock, GetNothing, WGetNull, semaVars
    <2>4. WaitPending(c) \/ WaitBlock(c) => irq' = irq
      BY DEF WaitPending, WaitBlock, semaVars
    <2>5. SemWait(c) \/ Recheck(c) => irq' = irq
      BY DEF SemWait, Recheck, semaVars
    <2> QED BY <2>1, <2>2, <2>3, <2>4, <2>5 DEF Reader
  <1>6. RaisedInBounds'
    BY <1>1, <1>2, <1>5, RaisedFrame DEF wakerVars, WakeTypes
  <1> QED BY <1>1, <1>3, <1>4, <1>6, TypeInvNext

LEMMA TypeStep ==
    ASSUME TypeInv, WakeInv, WakeInv', [Next]_vars
    PROVE  TypeInv'
  <1>1. ASSUME NEW c \in Ctx, Close(c) PROVE TypeInv'
    <2>1. /\ QueueTypes /\ CountTypes /\ LinkTypes /\ RaisedInBounds /\ WakeTypes /\ WakeTypes'
      BY TypeParts DEF TypeInv, WakeInv
    <2>2. QueueTypes' /\ LinkTypes'
      BY <1>1, <2>1, CloseTypes
    <2>3. CountTypes'
      BY <1>1, <2>1 DEF CountTypes, Close, wakerVars
    <2>4. RaisedInBounds'
      <3>1. UNCHANGED <<sPc, kPc>> /\ irq' = [irq EXCEPT ![c] = 0]
        BY <1>1 DEF Close, wakerVars
      <3>2. irq \in [Ctx -> Nat]
        BY <2>1 DEF WakeTypes
      <3>3. \A d \in Ctx : irq'[d] <= irq[d]
        BY <3>1, <3>2
      <3> QED BY <2>1, <3>1, <3>3, RaisedFrame
    <2> QED BY <2>1, <2>2, <2>3, <2>4, TypeInvNext
  <1>2. CASE UNCHANGED vars
    BY <1>2 DEF vars, queueVars, linkVars, semaVars, wakerVars, histVars, TypeInv, TypeOK,
       RaisedInBounds, Raising
  <1> QED BY <1>1, <1>2, SenderTypes, WakerTypes, ReaderTypes DEF Next

\* The types hold for all sizes: no queue overflows its ring, no more than one
\* wake-up beyond FIFO_LEN is ever pending, and is_irq never drops below zero.
THEOREM TransferTypes == Spec => []TypeOK
  <1>1. Init => TypeInv
    BY TypeInit
  <1>2. TypeInv /\ WakeInv /\ WakeInv' /\ [Next]_vars => TypeInv'
    BY TypeStep
  <1>3. TypeInv => TypeOK
    BY DEF TypeInv
  <1> QED BY <1>1, <1>2, <1>3, WakeInvariant, PTL DEF Spec

------------------------------------------------------------------------------
(* Sequences without repetition. *)

LEMMA ConcatMembers ==
    ASSUME NEW S, NEW s \in Seq(S), NEW t \in Seq(S)
    PROVE  /\ s \o t \in Seq(S)
           /\ Range(s \o t) = Range(s) \cup Range(t)
           /\ IsInjective(s \o t) <=>
                 IsInjective(s) /\ IsInjective(t) /\ Range(s) \cap Range(t) = {}
  <1> DEFINE u == s \o t
             m == Len(s)
             n == Len(t)
  <1>1. /\ u \in Seq(S) /\ Len(u) = m + n /\ m \in Nat /\ n \in Nat
        /\ DOMAIN u = 1 .. m + n /\ DOMAIN s = 1 .. m /\ DOMAIN t = 1 .. n
    BY ConcatProperties, LenProperties
  <1>2. \A i \in 1 .. m + n : u[i] = IF i <= m THEN s[i] ELSE t[i - m]
    BY ConcatProperties
  <1> HIDE DEF u, m, n
  <1>3. (\A i \in 1 .. m : i \in 1 .. m + n /\ u[i] = s[i])
        /\ \A i \in 1 .. n : m + i \in 1 .. m + n /\ u[m + i] = t[i]
    BY <1>1, <1>2
  <1>4. Range(u) = Range(s) \cup Range(t)
    <2>1. ASSUME NEW x \in Range(u) PROVE x \in Range(s) \cup Range(t)
      <3>1. PICK i \in 1 .. m + n : x = u[i]
        BY <1>1, <2>1 DEF Range
      <3>2. CASE i <= m
        <4>1. i \in 1 .. m /\ x = s[i]
          BY <1>1, <1>2, <3>1, <3>2
        <4> QED BY <1>1, <4>1 DEF Range
      <3>3. CASE i > m
        <4>1. i - m \in 1 .. n /\ x = t[i - m]
          BY <1>1, <1>2, <3>1, <3>3
        <4> QED BY <1>1, <4>1 DEF Range
      <3> QED BY <1>1, <3>2, <3>3
    <2>2. ASSUME NEW x \in Range(s) \cup Range(t) PROVE x \in Range(u)
      <3>1. CASE x \in Range(s)
        <4>1. PICK i \in 1 .. m : x = s[i]
          BY <1>1, <3>1 DEF Range
        <4> QED BY <1>1, <1>3, <4>1 DEF Range
      <3>2. CASE x \in Range(t)
        <4>1. PICK i \in 1 .. n : x = t[i]
          BY <1>1, <3>2 DEF Range
        <4> QED BY <1>1, <1>3, <4>1 DEF Range
      <3> QED BY <2>2, <3>1, <3>2
    <2> QED BY <2>1, <2>2
  <1>5. ASSUME IsInjective(u)
        PROVE  IsInjective(s) /\ IsInjective(t) /\ Range(s) \cap Range(t) = {}
    <2>1. \A i, j \in 1 .. m + n : u[i] = u[j] => i = j
      BY <1>1, <1>5 DEF IsInjective
    <2>2. \A i, j \in 1 .. m : s[i] = s[j] => i = j
      BY <1>3, <2>1
    <2>3. ASSUME NEW i \in 1 .. n, NEW j \in 1 .. n, t[i] = t[j] PROVE i = j
      <3>1. m + i = m + j
        BY <1>3, <2>1, <2>3
      <3> QED BY <1>1, <3>1
    <2>4. ASSUME NEW i \in 1 .. m, NEW j \in 1 .. n, s[i] = t[j] PROVE FALSE
      <3>1. i = m + j
        BY <1>3, <2>1, <2>4
      <3> QED BY <1>1, <3>1
    <2>5. Range(s) \cap Range(t) = {}
      BY <1>1, <2>4 DEF Range
    <2> QED BY <1>1, <2>2, <2>3, <2>5 DEF IsInjective
  <1>6. ASSUME IsInjective(s), IsInjective(t), Range(s) \cap Range(t) = {}
        PROVE  IsInjective(u)
    <2> SUFFICES ASSUME NEW i \in 1 .. m + n, NEW j \in 1 .. m + n, u[i] = u[j]
                 PROVE  i = j
      BY <1>1 DEF IsInjective
    <2>1. \A k \in 1 .. m, l \in 1 .. n : s[k] # t[l]
      BY <1>1, <1>6 DEF Range
    <2>2. CASE i <= m /\ j <= m
      <3>1. i \in 1 .. m /\ j \in 1 .. m /\ s[i] = s[j]
        BY <1>1, <1>2, <2>2
      <3> QED BY <1>1, <1>6, <3>1 DEF IsInjective
    <2>3. CASE i > m /\ j > m
      <3>1. i - m \in 1 .. n /\ j - m \in 1 .. n /\ t[i - m] = t[j - m]
        BY <1>1, <1>2, <2>3
      <3>2. i - m = j - m
        BY <1>1, <1>6, <3>1 DEF IsInjective
      <3> QED BY <1>1, <3>2
    <2>4. CASE i <= m /\ j > m
      <3>1. i \in 1 .. m /\ j - m \in 1 .. n /\ s[i] = t[j - m]
        BY <1>1, <1>2, <2>4
      <3> QED BY <2>1, <3>1
    <2>5. CASE i > m /\ j <= m
      <3>1. j \in 1 .. m /\ i - m \in 1 .. n /\ s[j] = t[i - m]
        BY <1>1, <1>2, <2>5
      <3> QED BY <2>1, <3>1
    <2> QED BY <1>1, <2>2, <2>3, <2>4, <2>5
  <1> QED BY <1>1, <1>4, <1>5, <1>6 DEF u

LEMMA SingleMember ==
    ASSUME NEW S, NEW e \in S
    PROVE  <<e>> \in Seq(S) /\ Range(<<e>>) = {e} /\ IsInjective(<<e>>)
  BY DEF Range, IsInjective

LEMMA EmptyMembers ==
    ASSUME NEW S
    PROVE  <<>> \in Seq(S) /\ Range(<<>>) = {} /\ IsInjective(<<>>)
  BY DEF Range, IsInjective

\* What has a head is its head and its tail; a block appended is a sequence of
\* one at the end.
LEMMA HeadAndTail ==
    ASSUME NEW S, NEW s \in Seq(S), s # <<>>
    PROVE  Head(s) \in S /\ Tail(s) \in Seq(S) /\ s = <<Head(s)>> \o Tail(s)
  OBVIOUS

LEMMA AppendMembers ==
    ASSUME NEW S, NEW s \in Seq(S), NEW e \in S
    PROVE  /\ Append(s, e) \in Seq(S)
           /\ Range(Append(s, e)) = Range(s) \cup {e}
           /\ IsInjective(Append(s, e)) <=> IsInjective(s) /\ e \notin Range(s)
  <1>1. Append(s, e) = s \o <<e>>
    BY AppendIsConcat
  <1> DEFINE w == <<e>>
  <1>2. w \in Seq(S) /\ Range(w) = {e} /\ IsInjective(w)
    BY SingleMember
  <1> HIDE DEF w
  <1>3. /\ s \o w \in Seq(S) /\ Range(s \o w) = Range(s) \cup Range(w)
        /\ IsInjective(s \o w) <=>
              IsInjective(s) /\ IsInjective(w) /\ Range(s) \cap Range(w) = {}
    BY <1>2, ConcatMembers
  <1>4. Append(s, e) = s \o w
    BY <1>1 DEF w
  <1> QED BY <1>2, <1>3, <1>4

\* The first block of a queue moved to the end of the one before it.
LEMMA MoveAlong ==
    ASSUME NEW S, NEW s \in Seq(S), NEW t \in Seq(S), t # <<>>
    PROVE  Append(s, Head(t)) \o Tail(t) = s \o t
  OBVIOUS

\* A block appended to the last queue is appended to the line.
LEMMA AppendAtEnd ==
    ASSUME NEW S, NEW s \in Seq(S), NEW t \in Seq(S), NEW e \in S
    PROVE  s \o Append(t, e) = Append(s \o t, e)
  OBVIOUS

\* A queue whose first block goes to its end has the same blocks.
LEMMA Rotation ==
    ASSUME NEW S, NEW t \in Seq(S), t # <<>>
    PROVE  LET r == Append(Tail(t), Head(t)) IN
           /\ r \in Seq(S) /\ Range(r) = Range(t)
           /\ IsInjective(r) <=> IsInjective(t)
  <1>1. Head(t) \in S /\ Tail(t) \in Seq(S) /\ t = <<Head(t)>> \o Tail(t)
    BY HeadAndTail
  <1>2. <<Head(t)>> \in Seq(S) /\ Range(<<Head(t)>>) = {Head(t)} /\ IsInjective(<<Head(t)>>)
    BY <1>1, SingleMember
  <1>3. /\ Range(t) = {Head(t)} \cup Range(Tail(t))
        /\ IsInjective(t) <=> IsInjective(Tail(t)) /\ Head(t) \notin Range(Tail(t))
    <2>1. /\ Range(<<Head(t)>> \o Tail(t)) = Range(<<Head(t)>>) \cup Range(Tail(t))
          /\ IsInjective(<<Head(t)>> \o Tail(t)) <=>
                IsInjective(<<Head(t)>>) /\ IsInjective(Tail(t))
                /\ Range(<<Head(t)>>) \cap Range(Tail(t)) = {}
      BY <1>1, <1>2, ConcatMembers
    <2> QED BY <1>1, <1>2, <2>1
  <1>4. /\ Append(Tail(t), Head(t)) \in Seq(S)
        /\ Range(Append(Tail(t), Head(t))) = Range(Tail(t)) \cup {Head(t)}
        /\ IsInjective(Append(Tail(t), Head(t))) <=>
              IsInjective(Tail(t)) /\ Head(t) \notin Range(Tail(t))
    BY <1>1, AppendMembers
  <1> QED BY <1>3, <1>4

\* The sequence 1, 2, ... n, and a number more.
LEMMA Counting ==
    ASSUME NEW n \in Nat
    PROVE  /\ [i \in 1 .. n |-> i] \in Seq(1 .. n + 1)
           /\ Append([i \in 1 .. n |-> i], n + 1) = [i \in 1 .. n + 1 |-> i]
  OBVIOUS

------------------------------------------------------------------------------
(* No block twice, none lost. *)

\* What the blocks p still in existence, those dropped, d, and the number n put
\* so far have to do with one another; over: a queue has been full; open:
\* neither context is closed.
Account(p, d, n, over, open) ==
    /\ IsInjective(p)
    /\ Range(p) \cap d = {}
    /\ Range(p) \cup d \subseteq 1 .. n
    /\ open => 1 .. n \subseteq Range(p) \cup d
    /\ open /\ ~over => p = [i \in 1 .. n |-> i]

OnceInv ==
    \A c \in Ctx : Account(Pipeline(c), dropped[c], sent[c], overrun[c], AllOpen)

LEMMA AccountPut ==
    ASSUME NEW S, NEW p \in Seq(S), NEW d, NEW n \in Nat, n + 1 \in S, NEW over, NEW open,
           Account(p, d, n, over, open)
    PROVE  Account(Append(p, n + 1), d, n + 1, over, open)
  <1>1. /\ Range(Append(p, n + 1)) = Range(p) \cup {n + 1}
        /\ IsInjective(Append(p, n + 1)) <=> IsInjective(p) /\ n + 1 \notin Range(p)
    BY AppendMembers
  <1>2. n + 1 \notin 1 .. n /\ 1 .. n + 1 = (1 .. n) \cup {n + 1}
    OBVIOUS
  <1>3. n + 1 \notin Range(p) /\ n + 1 \notin d
    BY <1>2 DEF Account
  <1>4. IsInjective(Append(p, n + 1)) /\ Range(Append(p, n + 1)) \cap d = {}
    BY <1>1, <1>3 DEF Account
  <1>5. /\ Range(Append(p, n + 1)) \cup d \subseteq 1 .. n + 1
        /\ open => 1 .. n + 1 \subseteq Range(Append(p, n + 1)) \cup d
    BY <1>1, <1>2 DEF Account
  <1>6. ASSUME open, ~over PROVE Append(p, n + 1) = [i \in 1 .. n + 1 |-> i]
    <2>1. p = [i \in 1 .. n |-> i]
      BY <1>6 DEF Account
    <2> QED BY <2>1, Counting
  <1> QED BY <1>4, <1>5, <1>6 DEF Account

LEMMA AccountDrop ==
    ASSUME NEW p, NEW d, NEW n \in Nat, NEW over, NEW open, Account(p, d, n, over, open)
    PROVE  Account(p, d \cup {n + 1}, n + 1, TRUE, open)
  <1>1. n + 1 \notin 1 .. n /\ 1 .. n + 1 = (1 .. n) \cup {n + 1}
    OBVIOUS
  <1> QED BY <1>1 DEF Account

LEMMA AccountRotate ==
    ASSUME NEW S, NEW s \in Seq(S), NEW t \in Seq(S), t # <<>>,
           NEW d, NEW n, NEW over, NEW open, Account(s \o t, d, n, over, open)
    PROVE  Account(s \o Append(Tail(t), Head(t)), d, n, TRUE, open)
  <1> DEFINE r == Append(Tail(t), Head(t))
  <1>1. r \in Seq(S) /\ Range(r) = Range(t) /\ (IsInjective(r) <=> IsInjective(t))
    BY Rotation
  <1> HIDE DEF r
  <1>2. /\ Range(s \o t) = Range(s) \cup Range(t)
        /\ IsInjective(s \o t) <=>
              IsInjective(s) /\ IsInjective(t) /\ Range(s) \cap Range(t) = {}
    BY ConcatMembers
  <1>3. /\ Range(s \o r) = Range(s) \cup Range(r)
        /\ IsInjective(s \o r) <=>
              IsInjective(s) /\ IsInjective(r) /\ Range(s) \cap Range(r) = {}
    BY <1>1, ConcatMembers
  <1>4. Range(s \o r) = Range(s \o t) /\ (IsInjective(s \o r) <=> IsInjective(s \o t))
    BY <1>1, <1>2, <1>3
  <1>5. Account(s \o r, d, n, TRUE, open)
    BY <1>4 DEF Account
  <1> QED BY <1>5 DEF r

\* What a closing context leaves is part of what there was.
LEMMA AccountCut ==
    ASSUME NEW S, NEW s \in Seq(S), NEW t \in Seq(S), NEW u \in Seq(S),
           NEW d, NEW n, NEW over, NEW open, Account((s \o t) \o u, d, n, over, open)
    PROVE  /\ Account((s \o t) \o <<>>, d, n, over, FALSE)
           /\ Account((s \o <<>>) \o u, d, n, over, FALSE)
  <1>1. s \o t \in Seq(S) /\ Range(s \o t) = Range(s) \cup Range(t)
    BY ConcatMembers
  <1>2. /\ Range((s \o t) \o u) = Range(s \o t) \cup Range(u)
        /\ IsInjective((s \o t) \o u) =>
              IsInjective(s \o t) /\ IsInjective(u) /\ Range(s \o t) \cap Range(u) = {}
    BY <1>1, ConcatMembers
  <1>3. IsInjective(s \o t) => IsInjective(s)
    BY ConcatMembers
  <1>4. (s \o t) \o <<>> = s \o t /\ s \o <<>> = s
    BY <1>1, ConcatEmptySeq
  <1>5. /\ Range(s \o u) = Range(s) \cup Range(u)
        /\ IsInjective(s) /\ IsInjective(u) /\ Range(s) \cap Range(u) = {}
              => IsInjective(s \o u)
    BY ConcatMembers
  <1>6. IsInjective(s \o t) /\ IsInjective(s \o u)
    BY <1>1, <1>2, <1>3, <1>5 DEF Account
  <1>7. Range(s \o t) \subseteq Range((s \o t) \o u) /\ Range(s \o u) \subseteq Range((s \o t) \o u)
    BY <1>1, <1>2, <1>5
  <1>8. Account(s \o t, d, n, over, FALSE) /\ Account(s \o u, d, n, over, FALSE)
    BY <1>6, <1>7 DEF Account
  <1> QED BY <1>4, <1>8

\* The queues as sequences of block numbers.
LEMMA PipelineTypes ==
    ASSUME TypeOK, NEW c \in Ctx
    PROVE  /\ taken[Peer(c)] \in Seq(1 .. MaxSent) /\ getQ[Peer(c)] \in Seq(1 .. MaxSent)
           /\ putQ[c] \in Seq(1 .. MaxSent)
           /\ taken[Peer(c)] \o getQ[Peer(c)] \in Seq(1 .. MaxSent)
           /\ Pipeline(c) \in Seq(1 .. MaxSent)
  <1>1. /\ taken[Peer(c)] \in Seq(1 .. MaxSent) /\ getQ[Peer(c)] \in Seq(1 .. MaxSent)
        /\ putQ[c] \in Seq(1 .. MaxSent)
    BY PeerFacts DEF TypeOK
  <1>2. taken[Peer(c)] \o getQ[Peer(c)] \in Seq(1 .. MaxSent)
    BY <1>1, ConcatProperties
  <1> QED BY <1>1, <1>2, ConcatProperties DEF Pipeline

\* A step that only moves blocks along keeps the account.
LEMMA OnceFrame ==
    ASSUME OnceInv, \A d \in Ctx : Pipeline(d)' = Pipeline(d),
           UNCHANGED <<pid, sent, dropped, overrun>>
    PROVE  OnceInv'
  <1>1. AllOpen' = AllOpen
    BY DEF AllOpen
  <1> QED BY <1>1 DEF OnceInv

\* A step on the line of one sender, seen from the other.
LEMMA OnceOthers ==
    ASSUME OnceInv, NEW c \in Ctx, AllOpen' = AllOpen, UNCHANGED <<getQ, taken>>,
           Account(Pipeline(c)', dropped'[c], sent'[c], overrun'[c], AllOpen'),
           \A d \in Ctx \ {c} : /\ putQ'[d] = putQ[d] /\ dropped'[d] = dropped[d]
                                /\ sent'[d] = sent[d] /\ overrun'[d] = overrun[d]
    PROVE  OnceInv'
  <1>1. ASSUME NEW d \in Ctx \ {c}
        PROVE  Account(Pipeline(d)', dropped'[d], sent'[d], overrun'[d], AllOpen')
    <2>1. Account(Pipeline(d), dropped[d], sent[d], overrun[d], AllOpen)
      BY DEF OnceInv
    <2>2. Pipeline(d)' = Pipeline(d)
      BY DEF Pipeline
    <2> QED BY <2>1, <2>2
  <1> QED BY <1>1 DEF OnceInv

\* WLS_Put itself: the block joins the end of the line or is dropped.
LEMMA OncePut ==
    ASSUME TypeOK, OnceInv, NEW c \in Ctx, MayPut(c), PutOwn(c), UNCHANGED <<getQ, taken, pid>>
    PROVE  OnceInv'
  <1> DEFINE S == 1 .. MaxSent
             b == sent[c] + 1
             s == taken[Peer(c)] \o getQ[Peer(c)]
  <1>1. /\ sent[c] \in Nat /\ b \in S /\ AllOpen' = AllOpen
        /\ sent \in [Ctx -> 0 .. MaxSent] /\ dropped \in [Ctx -> SUBSET S]
        /\ overrun \in [Ctx -> BOOLEAN] /\ putQ \in [Ctx -> Seq(S)]
    BY BoundsAssumption DEF TypeOK, MayPut, AllOpen
  <1>2. Account(Pipeline(c), dropped[c], sent[c], overrun[c], AllOpen)
    BY DEF OnceInv
  <1>3. s \in Seq(S) /\ putQ[c] \in Seq(S) /\ Pipeline(c) \in Seq(S)
    BY PipelineTypes
  <1>4. /\ Pipeline(c) = s \o putQ[c] /\ Pipeline(c)' = s \o putQ'[c]
        /\ sent'[c] = b
    BY <1>1 DEF Pipeline, PutOwn
  <1>7. \A d \in Ctx \ {c} : /\ putQ'[d] = putQ[d] /\ dropped'[d] = dropped[d]
                              /\ sent'[d] = sent[d] /\ overrun'[d] = overrun[d]
    BY <1>1 DEF PutOwn
  <1> HIDE DEF s, b, S
  <1>5. CASE Len(putQ[c]) >= PutCap
    <2>1. putQ'[c] = putQ[c] /\ dropped'[c] = dropped[c] \cup {b} /\ overrun'[c] = TRUE
      BY <1>1, <1>5 DEF PutOwn, b
    <2>2. Account(Pipeline(c), dropped[c] \cup {sent[c] + 1}, sent[c] + 1, TRUE, AllOpen)
      BY <1>1, <1>2, AccountDrop
    <2>3. Account(Pipeline(c)', dropped'[c], sent'[c], overrun'[c], AllOpen')
      BY <1>1, <1>4, <2>1, <2>2 DEF b
    <2> QED BY <2>3, <1>1, <1>7, OnceOthers
  <1>6. CASE ~(Len(putQ[c]) >= PutCap)
    <2>1. putQ'[c] = Append(putQ[c], b) /\ dropped'[c] = dropped[c] /\ overrun'[c] = overrun[c]
      BY <1>1, <1>6 DEF PutOwn, b
    <2>2. Account(Append(Pipeline(c), sent[c] + 1), dropped[c], sent[c] + 1, overrun[c], AllOpen)
      BY <1>1, <1>2, <1>3, AccountPut DEF b
    <2>3. s \o Append(putQ[c], b) = Append(s \o putQ[c], b)
      BY <1>1, <1>3, AppendAtEnd
    <2>4. Account(Pipeline(c)', dropped'[c], sent'[c], overrun'[c], AllOpen')
      BY <1>1, <1>4, <2>1, <2>2, <2>3 DEF b
    <2> QED BY <2>4, <1>1, <1>7, OnceOthers
  <1> QED BY <1>5, <1>6
LEMMA Regroup ==
    ASSUME NEW S, NEW a \in Seq(S), NEW b \in Seq(S), NEW c \in Seq(S)
    PROVE  (a \o b) \o c = a \o (b \o c)
  OBVIOUS

\* One block from the sender's put_queue to the peer's get_queue.
LEMMA OnceMove ==
    ASSUME TypeOK, OnceInv, NEW c \in Ctx, XferMove(c)
    PROVE  OnceInv'
  <1> DEFINE S == 1 .. MaxSent
             t == taken[Peer(c)]
             g == getQ[Peer(c)]
             q == putQ[c]
  <1>1. /\ putQ[c] # <<>> /\ UNCHANGED <<pid, taken, sent, dropped, overrun>>
        /\ getQ' = [getQ EXCEPT ![Peer(c)] = Append(g, Head(q))]
        /\ putQ' = [putQ EXCEPT ![c] = Tail(q)]
    BY DEF XferMove, linkVars, histVars
  <1>2. t \in Seq(S) /\ g \in Seq(S) /\ q \in Seq(S)
    BY PipelineTypes
  <1>3. /\ getQ'[Peer(c)] = Append(g, Head(q)) /\ putQ'[c] = Tail(q) /\ taken' = taken
        /\ \A d \in Ctx \ {c} : putQ'[d] = putQ[d] /\ getQ'[Peer(d)] = getQ[Peer(d)]
    <2>1. /\ putQ \in [Ctx -> Seq(S)] /\ getQ \in [Ctx -> Seq(S)] /\ Peer(c) \in Ctx
          /\ \A d \in Ctx \ {c} : Peer(d) \in Ctx /\ Peer(d) # Peer(c)
      <3>1. putQ \in [Ctx -> Seq(S)] /\ getQ \in [Ctx -> Seq(S)]
        BY DEF TypeOK
      <3> QED BY <3>1, PeerFacts
    <2> HIDE DEF t, g, q, S
    <2> QED BY <1>1, <2>1
  <1>4. (t \o Append(g, Head(q))) \o Tail(q) = (t \o g) \o q
    <2>1. t \in Seq(S) /\ g \in Seq(S) /\ q \in Seq(S) /\ q # <<>>
      BY <1>1, <1>2
    <2> DEFINE front == Append(g, Head(q))
               rest == Tail(q)
    <2> HIDE DEF t, g, q, S
    <2>2. front \in Seq(S) /\ rest \in Seq(S)
      BY <2>1
    <2>3. front \o rest = g \o q
      BY <2>1
    <2> HIDE DEF front, rest
    <2>r. \A x, y, z \in Seq(S) : (x \o y) \o z = x \o (y \o z)
      BY Regroup
    <2>4. (t \o front) \o rest = t \o (front \o rest)
      BY <2>1, <2>2, <2>r, Zenon
    <2>5. (t \o g) \o q = t \o (g \o q)
      BY <2>1, <2>r, Zenon
    <2>6. (t \o front) \o rest = (t \o g) \o q
      BY <2>3, <2>4, <2>5, Zenon
    <2> QED BY <2>6 DEF front, rest
  <1>5. Pipeline(c)' = Pipeline(c)
    BY <1>1, <1>3, <1>4 DEF Pipeline
  <1>6. \A d \in Ctx \ {c} : Pipeline(d)' = Pipeline(d)
    BY <1>3 DEF Pipeline
  <1> QED BY <1>1, <1>5, <1>6, OnceFrame

\* The peer has no room: the block goes to the end of the line.
LEMMA OnceRequeue ==
    ASSUME TypeOK, OnceInv, NEW c \in Ctx, XferFull(c)
    PROVE  OnceInv'
  <1> DEFINE S == 1 .. MaxSent
             s == taken[Peer(c)] \o getQ[Peer(c)]
             q == putQ[c]
  <1>1. /\ q # <<>> /\ UNCHANGED <<pid, getQ, taken, sent, dropped>>
        /\ putQ' = [putQ EXCEPT ![c] = Append(Tail(q), Head(q))]
        /\ overrun' = [overrun EXCEPT ![c] = TRUE]
    BY DEF XferFull, linkVars
  <1>2. s \in Seq(S) /\ q \in Seq(S)
    BY PipelineTypes
  <1>3. /\ putQ'[c] = Append(Tail(q), Head(q)) /\ overrun'[c] = TRUE
        /\ \A d \in Ctx \ {c} : putQ'[d] = putQ[d] /\ overrun'[d] = overrun[d]
    BY <1>1 DEF TypeOK
  <1>4. Account(s \o q, dropped[c], sent[c], overrun[c], AllOpen)
    BY DEF OnceInv, Pipeline
  <1>5. Pipeline(c)' = s \o Append(Tail(q), Head(q)) /\ AllOpen' = AllOpen
    BY <1>1, <1>3 DEF Pipeline, AllOpen
  <1> HIDE DEF s, q, S
  <1>6. Account(s \o Append(Tail(q), Head(q)), dropped[c], sent[c], TRUE, AllOpen)
    BY <1>1, <1>2, <1>4, AccountRotate
  <1>7. Account(Pipeline(c)', dropped'[c], sent'[c], overrun'[c], AllOpen')
    BY <1>1, <1>3, <1>5, <1>6
  <1> QED BY <1>1, <1>3, <1>5, <1>7, OnceOthers

\* WLS_WGet hands out the first block of the line.
LEMMA OnceTake ==
    ASSUME TypeOK, OnceInv, NEW c \in Ctx, GetBlock(c)
    PROVE  OnceInv'
  <1> DEFINE S == 1 .. MaxSent
             t == taken[c]
             g == getQ[c]
  <1>1. /\ g # <<>> /\ UNCHANGED <<pid, putQ, sent, dropped, overrun>>
        /\ getQ' = [getQ EXCEPT ![c] = Tail(g)]
        /\ taken' = [taken EXCEPT ![c] = Append(t, Head(g))]
    BY DEF GetBlock, Take, linkVars
  <1>2. t \in Seq(S) /\ g \in Seq(S)
    BY DEF TypeOK
  <1>3. Append(t, Head(g)) \o Tail(g) = t \o g
    BY <1>1, <1>2, MoveAlong
  <1>4. ASSUME NEW d \in Ctx PROVE Pipeline(d)' = Pipeline(d)
    <2>1. CASE Peer(d) = c
      <3>1. getQ'[c] = Tail(g) /\ taken'[c] = Append(t, Head(g)) /\ putQ'[d] = putQ[d]
        BY <1>1 DEF TypeOK
      <3> QED BY <1>3, <2>1, <3>1 DEF Pipeline
    <2>2. CASE Peer(d) # c
      <3>1. getQ'[Peer(d)] = getQ[Peer(d)] /\ taken'[Peer(d)] = taken[Peer(d)] /\ putQ' = putQ
        BY <1>1, <2>2, PeerFacts DEF TypeOK
      <3> QED BY <3>1 DEF Pipeline
    <2> QED BY <2>1, <2>2
  <1> QED BY <1>1, <1>4, OnceFrame

\* A closing context takes its two queues with it; nothing is duplicated.
LEMMA OnceClose ==
    ASSUME TypeOK, OnceInv, NEW c \in Ctx, Close(c)
    PROVE  OnceInv'
  <1>1. /\ UNCHANGED <<taken, sent, dropped, overrun>>
        /\ putQ' = [putQ EXCEPT ![c] = <<>>] /\ getQ' = [getQ EXCEPT ![c] = <<>>]
        /\ AllOpen' = FALSE
    BY DEF Close, histVars, TypeOK, AllOpen
  <1>2. ASSUME NEW d \in Ctx
        PROVE  Account(Pipeline(d)', dropped[d], sent[d], overrun[d], FALSE)
    <2> DEFINE t == taken[Peer(d)]
               g == getQ[Peer(d)]
               q == putQ[d]
    <2>1. t \in Seq(1 .. MaxSent) /\ g \in Seq(1 .. MaxSent) /\ q \in Seq(1 .. MaxSent)
      BY PipelineTypes
    <2>2. Account((t \o g) \o q, dropped[d], sent[d], overrun[d], AllOpen)
      BY DEF OnceInv, Pipeline
    <2> HIDE DEF t, g, q
    <2>3. /\ Account((t \o g) \o <<>>, dropped[d], sent[d], overrun[d], FALSE)
          /\ Account((t \o <<>>) \o q, dropped[d], sent[d], overrun[d], FALSE)
      BY <2>1, <2>2, AccountCut
    <2>4. CASE d = c
      <3>1. putQ'[d] = <<>> /\ getQ'[Peer(d)] = getQ[Peer(d)]
        BY <1>1, <2>4, PeerFacts DEF TypeOK
      <3>2. Pipeline(d)' = (t \o g) \o <<>>
        BY <1>1, <3>1 DEF Pipeline, t, g
      <3> QED BY <2>3, <3>2
    <2>5. CASE d # c
      <3>1. putQ'[d] = putQ[d] /\ getQ'[Peer(d)] = <<>>
        BY <1>1, <2>5, PeerFacts DEF TypeOK
      <3>2. Pipeline(d)' = (t \o <<>>) \o q
        BY <1>1, <3>1 DEF Pipeline, t, q
      <3> QED BY <2>3, <3>2
    <2> QED BY <2>4, <2>5
  <1>3. \A d \in Ctx : dropped'[d] = dropped[d] /\ sent'[d] = sent[d] /\ overrun'[d] = overrun[d]
    BY <1>1
  <1> QED BY <1>1, <1>2, <1>3 DEF OnceInv

LEMMA OnceInit == Init => OnceInv
  <1> SUFFICES ASSUME Init, NEW c \in Ctx
               PROVE  Account(Pipeline(c), dropped[c], sent[c], overrun[c], AllOpen)
    BY DEF OnceInv
  <1>1. taken[Peer(c)] = <<>> /\ getQ[Peer(c)] = <<>> /\ putQ[c] = <<>>
    BY PeerFacts DEF Init
  <1>2. Pipeline(c) = <<>>
    BY <1>1, EmptyMembers, ConcatEmptySeq DEF Pipeline
  <1>3. dropped[c] = {} /\ sent[c] = 0 /\ 1 .. 0 = {}
    BY DEF Init
  <1>4. [i \in 1 .. 0 |-> i] = <<>>
    OBVIOUS
  <1> QED BY <1>2, <1>3, <1>4, EmptyMembers DEF Account

LEMMA OnceStep ==
    ASSUME TypeOK, OnceInv, [Next]_vars
    PROVE  OnceInv'
  <1> USE DEF queueVars, linkVars, histVars
  <1>1. ASSUME UNCHANGED <<putQ, getQ, taken, pid, sent, dropped, overrun>> PROVE OnceInv'
    <2>1. \A d \in Ctx : Pipeline(d)' = Pipeline(d)
      BY <1>1 DEF Pipeline
    <2> QED BY <1>1, <2>1, OnceFrame
  <1>2. ASSUME NEW c \in Ctx, Sender(c) PROVE OnceInv'
    <2>1. CASE PutHold(c) \/ PutCommit(c)
      BY <2>1, OncePut DEF PutHold, PutCommit
    <2>2. CASE XferMove(c)
      BY <2>2, OnceMove
    <2>3. CASE XferFull(c)
      BY <2>3, OnceRequeue
    <2>4. CASE XferDone(c) \/ WakeNobody(c) \/ WakeSaturated(c) \/ WakePeer(c) \/ WakeInc(c)
               \/ WakePost(c)
      BY <1>1, <2>4 DEF XferDone, WakeNobody, WakeSaturated, WakePeer, WakeInc, WakePost
    <2> QED BY <1>2, <2>1, <2>2, <2>3, <2>4 DEF Sender
  <1>3. ASSUME NEW c \in Ctx, Waker(c) PROVE OnceInv'
    BY <1>1, <1>3 DEF Waker, WakeUpCall, WakeUpInc, WakeUpPost
  <1>4. ASSUME NEW c \in Ctx, Reader(c) PROVE OnceInv'
    <2>1. CASE GetBlock(c)
      BY <2>1, OnceTake
    <2>2. CASE ~GetBlock(c)
      BY <1>1, <1>4, <2>2 DEF Reader, GetNothing, WGetNull, WaitPending, WaitBlock, SemWait,
         Recheck, WaitDec
    <2> QED BY <2>1, <2>2
  <1>5. CASE UNCHANGED vars
    BY <1>1, <1>5 DEF vars
  <1> QED BY <1>2, <1>3, <1>4, <1>5, OnceClose DEF Next

LEMMA OnceInvariant == Spec => []OnceInv
  <1>1. TypeOK /\ OnceInv /\ [Next]_vars => OnceInv'
    BY OnceStep
  <1> QED BY <1>1, OnceInit, TransferTypes, PTL DEF Spec

\* For queues of every size and however puts, transfers, reads and a close
\* interleave: no block is in two places, and while both processes are open
\* each block put is in a queue, was taken, or found the put_queue full.
THEOREM BlocksExactlyOnce == Spec => []ExactlyOnce
  <1>1. OnceInv => ExactlyOnce
    <2> SUFFICES ASSUME OnceInv, NEW c \in Ctx
                 PROVE  /\ IsInjective(Pipeline(c)) /\ Range(Pipeline(c)) \cap dropped[c] = {}
                        /\ AllOpen => Range(Pipeline(c)) \cup dropped[c] = 1 .. sent[c]
      BY DEF ExactlyOnce
    <2>1. Account(Pipeline(c), dropped[c], sent[c], overrun[c], AllOpen)
      BY DEF OnceInv
    <2> QED BY <2>1 DEF Account
  <1> QED BY <1>1, OnceInvariant, PTL

\* Until a queue first runs full the peer's caller gets the blocks in the order
\* they were put, whatever the sizes: what was taken, what waits in the
\* get_queue and what waits in the put_queue are 1, 2, ..., sent in a row.
THEOREM BlocksInOrder == Spec => []InOrderUntilOverrun
  <1>1. OnceInv => InOrderUntilOverrun
    BY DEF OnceInv, InOrderUntilOverrun, Account
  <1> QED BY <1>1, OnceInvariant, PTL
=============================================================================
