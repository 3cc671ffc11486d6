----------------------------- MODULE XranLbmProofs -----------------------------
(*************************************************************************)
(* A supervised link, for any number of ports and ranges, any timeout,   *)
(* period and number of retransmissions: what the PHY knows of it, what  *)
(* it takes to bring it up or down, and what the O-RU counts as out of   *)
(* order. The worker decides in one step and writes in a later one; the  *)
(* invariant therefore speaks of the link as it will be once the pending *)
(* write is done.                                                        *)
(*************************************************************************)
EXTENDS XranLbm, TLAPS

\* The link once the decision of the worker is written.
LinkAfter(p) ==
    IF pend[p] = "up" THEN TRUE ELSE IF pend[p] = "down" THEN FALSE ELSE linkStatus[p]

\* What OAM was told is the link to be.
KnownInv == \A p \in Ports : ~torn[p] => notified[p] = LinkAfter(p)

\* A reply flag, and a link that is or is going up, come from a reply.
EarnedInv ==
    \A p \in Ports :
       /\ LBRreceived[p] => heard[p]
       /\ ~torn[p] /\ (linkStatus[p] \/ pend[p] = "up") => heard[p]

\* Every retransmission counted was sent or is about to be.
TriedInv ==
    \A p \in Ports :
       /\ pend[p] = "none" /\ lbmState[p] = "WAITING" => tries[p] >= numRetries[p] + 1
       /\ pend[p] = "send" => tries[p] >= numRetries[p]
       /\ pend[p] = "down" => tries[p] = NumRetransmissions + 1

IInv == TypeOK /\ KnownInv /\ EarnedInv /\ TriedInv

USE DEF AllPorts

LEMMA InitOK == ASSUME Init PROVE IInv
  <1>1. TypeOK
    BY LbmAssumption DEF Init, TypeOK, States, Ids
  <1>2. KnownInv /\ EarnedInv /\ TriedInv
    BY DEF Init, KnownInv, EarnedInv, TriedInv, LinkAfter
  <1> QED BY <1>1, <1>2 DEF IInv

-----------------------------------------------------------------------------
(* Type correctness, action by action. *)

LEMMA ProcessLbmType ==
  ASSUME TypeOK, NEW r \in Ranges, ProcessLbm(r) PROVE TypeOK'
  <1>1. UNCHANGED <<pend, LBRreceived, linkStatus, numRetries, passLeft, lbmEnable,
                    oamPc, toDu, heard, notified, torn, nextLBMtransID, toRu, gap,
                    tries, expectedTransID>>
    BY DEF ProcessLbm, sendVars
  <1>2. firstCall' \in BOOLEAN
    BY DEF ProcessLbm, KickStart, StartRound, TypeOK
  <1>3. lbmLeft' \in 0..LBMPeriodicity
    BY LbmAssumption DEF ProcessLbm, KickStart, StartRound, TypeOK
  <1>4. todo' \in [Ranges -> SUBSET Ports]
    <2>1. r \in SUBSET Ports
      BY LbmAssumption
    <2> QED BY <2>1 DEF ProcessLbm, KickStart, StartRound, TypeOK
  <1>5. lbmState' \in [Ports -> States]
    <2>1. CASE KickStart(r)
      BY <2>1 DEF KickStart, TypeOK, States
    <2> QED BY <2>1 DEF ProcessLbm, StartRound, TypeOK
  <1>6. xmitEnable' \in [Ports -> BOOLEAN]
    <2>1. CASE KickStart(r)
      BY <2>1, Zenon DEF KickStart
    <2>2. CASE StartRound(r) /\ lbmLeft = 0
      BY <2>2, Zenon DEF StartRound
    <2>3. CASE StartRound(r) /\ lbmLeft # 0
      BY <2>3 DEF StartRound, TypeOK
    <2> QED BY <2>1, <2>2, <2>3 DEF ProcessLbm
  <1> QED BY <1>1, <1>2, <1>3, <1>4, <1>5, <1>6 DEF TypeOK

LEMMA DecideType ==
  ASSUME TypeOK, NEW r \in Ranges, NEW p \in Ports, Decide(r, p) PROVE TypeOK'
  <1>1. UNCHANGED <<firstCall, xmitEnable, linkStatus, lbmLeft, passLeft, lbmEnable,
                    oamPc, nextLBMtransID, toRu, gap, toDu, heard, torn,
                    expectedTransID>>
    BY DEF Decide, timeVars
  <1>2. todo' \in [Ranges -> SUBSET Ports]
    BY DEF Decide, TypeOK
  <1>3. pend' \in [Ports -> {"none", "send", "up", "down"}]
    <2>1. pend' = pend \/ \E d \in {"send", "up", "down"} : pend' = [pend EXCEPT ![p] = d]
      BY DEF Decide
    <2>2. pend \in [Ports -> {"none", "send", "up", "down"}]
      BY DEF TypeOK
    <2> QED BY <2>1, <2>2
  <1>4. lbmState' \in [Ports -> States]
    <2>1. lbmState' = lbmState \/ lbmState' = [lbmState EXCEPT ![p] = "TRANSMITTING"]
      BY DEF Decide
    <2>2. lbmState \in [Ports -> States]
      BY DEF TypeOK
    <2> QED BY <2>1, <2>2 DEF States
  <1>5. numRetries' \in [Ports -> 0..NumRetransmissions]
    <2>1. CASE Retries(p) /\ numRetries' = [numRetries EXCEPT ![p] = @ + 1]
      <3>1. numRetries[p] + 1 \in 0..NumRetransmissions
        BY <2>1, LbmAssumption DEF Retries, TypeOK
      <3> QED BY <2>1, <3>1 DEF TypeOK
    <2>2. CASE numRetries' = [numRetries EXCEPT ![p] = 0]
      BY <2>2, LbmAssumption DEF TypeOK
    <2> QED BY <2>1, <2>2 DEF Decide, TypeOK
  <1>6. LBRreceived' \in [Ports -> BOOLEAN]
    <2>1. LBRreceived' = LBRreceived \/ LBRreceived' = [LBRreceived EXCEPT ![p] = FALSE]
      BY DEF Decide
    <2>2. LBRreceived \in [Ports -> BOOLEAN]
      BY DEF TypeOK
    <2> QED BY <2>1, <2>2
  <1>7. tries' \in [Ports -> 0..(NumRetransmissions + 1)]
    <2>1. tries' = tries \/ tries' = [tries EXCEPT ![p] = 0]
      BY DEF Decide
    <2>2. 0 \in 0..(NumRetransmissions + 1)
      BY LbmAssumption
    <2> QED BY <2>1, <2>2 DEF TypeOK
  <1>8. notified' \in [Ports -> BOOLEAN]
    <2>1. Answered(p) \in BOOLEAN
      BY DEF Answered, TypeOK
    <2> QED BY <2>1 DEF Decide, TypeOK, Notify
  <1> QED BY <1>1, <1>2, <1>3, <1>4, <1>5, <1>6, <1>7, <1>8 DEF TypeOK

LEMMA NextIdIsId == \A i \in Ids : (i + 1) % IdModulus \in Ids
  <1>1. IdModulus \in Nat \ {0}
    BY LbmAssumption
  <1> QED BY <1>1 DEF Ids

LEMMA ApplyType ==
  ASSUME TypeOK, NEW p \in Ports, Apply(p) PROVE TypeOK'
  <1> USE LbmAssumption
  <1>1. /\ pend' \in [Ports -> {"none", "send", "up", "down"}]
        /\ UNCHANGED <<firstCall, lbmLeft, todo, LBRreceived, numRetries, lbmEnable,
                       oamPc, toDu, heard, notified, torn, expectedTransID>>
    BY DEF Apply, TypeOK
  <1>2. CASE SendLbm(p)
    <2>1. nextLBMtransID' \in [Ports -> Ids]
      <3>1. nextLBMtransID[p] \in Ids
        BY DEF TypeOK
      <3>2. (nextLBMtransID[p] + 1) % IdModulus \in Ids
        BY <3>1, NextIdIsId
      <3>3. /\ nextLBMtransID \in [Ports -> Ids]
            /\ nextLBMtransID' = [nextLBMtransID EXCEPT ![p] = (@ + 1) % IdModulus]
        BY <1>2 DEF SendLbm, TypeOK
      <3> QED BY <3>2, <3>3
    <2>2. toRu' \in [Ports -> Seq(Lbm)] /\ gap' \in [Ports -> BOOLEAN]
      <3>1. [id |-> nextLBMtransID[p], gap |-> gap[p]] \in Lbm
        BY DEF TypeOK, Lbm
      <3> QED BY <1>2, <3>1 DEF SendLbm, TypeOK
    <2>3. tries' \in [Ports -> 0..(NumRetransmissions + 1)]
      <3> DEFINE T == 0..(NumRetransmissions + 1)
      <3>1. /\ tries \in [Ports -> T]
            /\ tries' = [tries EXCEPT ![p] = Upto(@ + 1, NumRetransmissions + 1)]
        BY <1>2 DEF SendLbm, TypeOK
      <3>2. NumRetransmissions \in Nat /\ tries[p] \in 0..(NumRetransmissions + 1)
        BY <3>1
      <3>3. Upto(tries[p] + 1, NumRetransmissions + 1) \in T
        BY <3>2 DEF Upto
      <3> HIDE DEF T
      <3>4. tries' \in [Ports -> T]
        BY <3>1, <3>3
      <3> QED BY <3>4 DEF T
    <2>4. /\ passLeft' \in [Ports -> -1..LBRTimeOut]
          /\ lbmState' \in [Ports -> States]
          /\ UNCHANGED <<linkStatus, xmitEnable>>
      <3>1. passLeft \in [Ports -> -1..LBRTimeOut] /\ lbmState \in [Ports -> States]
        BY DEF TypeOK
      <3>2. /\ passLeft' = [passLeft EXCEPT ![p] = LBRTimeOut]
            /\ lbmState' = [lbmState EXCEPT ![p] = "WAITING"]
            /\ UNCHANGED <<linkStatus, xmitEnable>>
        BY <1>2 DEF SendLbm
      <3>3. LBRTimeOut \in -1..LBRTimeOut /\ "WAITING" \in States
        BY DEF States
      <3> QED BY <3>1, <3>2, <3>3
    <2> QED BY <1>1, <2>1, <2>2, <2>3, <2>4 DEF TypeOK
  <1>3. CASE EndExchange(p)
    BY <1>1, <1>3 DEF EndExchange, TypeOK, States, sendVars
  <1> QED BY <1>2, <1>3 DEF Apply

LEMMA ParseType ==
  ASSUME TypeOK, NEW p \in Ports, ParseLbr(p) \/ ParseLbm(p) PROVE TypeOK'
  <1> USE LbmAssumption
  <1>1. CASE ParseLbr(p)
    <2>1. toDu' \in [Ports -> 0..NetMax]
      <3>1. toDu \in [Ports -> 0..NetMax] /\ toDu[p] > 0 /\ toDu' = [toDu EXCEPT ![p] = @ - 1]
        BY <1>1 DEF ParseLbr, TypeOK
      <3>2. toDu[p] - 1 \in 0..NetMax
        BY <3>1
      <3> QED BY <3>1, <3>2
    <2>2. LBRreceived' \in [Ports -> BOOLEAN]
      <3>1. \/ LBRreceived' = LBRreceived
            \/ LBRreceived' = [LBRreceived EXCEPT ![p] = TRUE]
        BY <1>1 DEF ParseLbr
      <3> QED BY <3>1 DEF TypeOK
    <2>4. heard' \in [Ports -> BOOLEAN]
      <3>1. heard' = heard \/ heard' = [heard EXCEPT ![p] = TRUE]
        BY <1>1 DEF ParseLbr
      <3> QED BY <3>1 DEF TypeOK
    <2>3. UNCHANGED <<firstCall, lbmLeft, todo, pend, lbmState, xmitEnable, linkStatus,
                      numRetries, passLeft, lbmEnable, oamPc, notified, torn,
                      nextLBMtransID, toRu, gap, tries, expectedTransID>>
      BY <1>1 DEF ParseLbr, workerVars, sendVars
    <2> QED BY <2>1, <2>2, <2>3, <2>4 DEF TypeOK
  <1>2. CASE ParseLbm(p)
    <2>1. toRu[p] \in Seq(Lbm) /\ toRu[p] # <<>>
      BY <1>2 DEF ParseLbm, TypeOK
    <2>2. toRu' \in [Ports -> Seq(Lbm)]
      BY <1>2, <2>1 DEF ParseLbm, TypeOK
    <2>3. NextExpected(p) \in Ids
      <3>1. Head(toRu[p]) \in Lbm
        BY <2>1
      <3>2. Head(toRu[p]).id \in Int
        BY <3>1 DEF Lbm, Ids
      <3> QED BY <3>2 DEF Ids, NextExpected
    <2>4. expectedTransID' \in [Ports -> Ids]
      BY <1>2, <2>3 DEF ParseLbm, TypeOK
    <2>5. toDu' \in [Ports -> 0..NetMax]
      <3>1. toDu \in [Ports -> 0..NetMax]
        BY DEF TypeOK
      <3>2. Upto(toDu[p] + 1, NetMax) \in 0..NetMax
        BY <3>1 DEF Upto
      <3>3. \/ toDu' = toDu
            \/ \E n \in 0..NetMax : toDu' = [toDu EXCEPT ![p] = n]
        BY <1>2, <3>2 DEF ParseLbm
      <3> QED BY <3>1, <3>3
    <2>6. UNCHANGED <<firstCall, lbmLeft, todo, pend, lbmState, xmitEnable,
                      LBRreceived, linkStatus, numRetries, passLeft, lbmEnable, oamPc,
                      nextLBMtransID, gap, tries, heard, notified, torn>>
      BY <1>2 DEF ParseLbm, workerVars
    <2> QED BY <2>2, <2>4, <2>5, <2>6 DEF TypeOK
  <1> QED BY <1>1, <1>2

LEMMA OamType ==
  ASSUME TypeOK, NEW p \in Ports, Oam(p) PROVE TypeOK'
  <1>1. UNCHANGED <<firstCall, lbmLeft, todo, pend, passLeft, toDu, nextLBMtransID,
                    toRu, gap, tries, expectedTransID>>
    BY DEF Oam, workerVars, sendVars
  <1>2. /\ lbmEnable' \in [Ports -> BOOLEAN]
        /\ oamPc' \in [Ports -> {"idle", "resetting", "enabling"}]
    <2>1. /\ lbmEnable' = lbmEnable \/ \E b \in BOOLEAN :
                                         lbmEnable' = [lbmEnable EXCEPT ![p] = b]
          /\ \E o \in {"idle", "resetting", "enabling"} :
                oamPc' = [oamPc EXCEPT ![p] = o]
      BY DEF Oam, OamDisable, OamDisabled, OamEnable, OamEnabled
    <2>2. lbmEnable' \in [Ports -> BOOLEAN]
      BY <2>1 DEF TypeOK
    <2>3. oamPc' \in [Ports -> {"idle", "resetting", "enabling"}]
      BY <2>1 DEF TypeOK
    <2> QED BY <2>2, <2>3
  <1>3. CASE OamDisable(p) \/ OamEnabled(p)
    <2>1. UNCHANGED <<linkStatus, LBRreceived, lbmState, numRetries, xmitEnable, heard,
                      notified, torn>>
      BY <1>3 DEF OamDisable, OamEnabled
    <2> QED BY <1>1, <1>2, <2>1 DEF TypeOK
  <1>4. CASE OamDisabled(p) \/ OamEnable(p)
    <2>1. ResetCtx(p)
      BY <1>4 DEF OamDisabled, OamEnable
    <2>2. /\ linkStatus' \in [Ports -> BOOLEAN] /\ LBRreceived' \in [Ports -> BOOLEAN]
          /\ xmitEnable' \in [Ports -> BOOLEAN] /\ heard' \in [Ports -> BOOLEAN]
          /\ notified' \in [Ports -> BOOLEAN]
      BY <2>1 DEF ResetCtx, TypeOK
    <2>3. torn' \in [Ports -> BOOLEAN]
      BY <2>1 DEF ResetCtx, TypeOK
    <2>4. lbmState' \in [Ports -> States]
      BY <2>1 DEF ResetCtx, TypeOK, States
    <2>5. numRetries' \in [Ports -> 0..NumRetransmissions]
      BY <2>1, LbmAssumption DEF ResetCtx, TypeOK
    <2> QED BY <1>1, <1>2, <2>2, <2>3, <2>4, <2>5 DEF TypeOK
  <1> QED BY <1>3, <1>4 DEF Oam

LEMMA TickType ==
  ASSUME TypeOK, Tick PROVE TypeOK'
  <1>1. lbmLeft' \in 0..LBMPeriodicity /\ passLeft' \in [Ports -> -1..LBRTimeOut]
    BY LbmAssumption DEF Tick, TypeOK
  <1>2. UNCHANGED <<firstCall, todo, pend, lbmState, xmitEnable, LBRreceived,
                    linkStatus, numRetries, lbmEnable, oamPc, toDu, heard, notified,
                    torn, nextLBMtransID, toRu, gap, tries, expectedTransID>>
    BY DEF Tick, sendVars
  <1> QED BY <1>1, <1>2 DEF TypeOK
-----------------------------------------------------------------------------
(* The three parts of the invariant. *)

\* Steps of the network, of the O-RU and of time touch none of what they speak of.
InvVars == <<pend, lbmState, LBRreceived, linkStatus, numRetries, tries, heard,
             notified, torn>>

LEMMA Untouched ==
  ASSUME KnownInv /\ EarnedInv /\ TriedInv, UNCHANGED InvVars
  PROVE  KnownInv' /\ EarnedInv' /\ TriedInv'
  <1>1. KnownInv'
    BY DEF InvVars, KnownInv, LinkAfter
  <1>2. EarnedInv'
    BY DEF InvVars, EarnedInv
  <1>3. TriedInv'
    BY DEF InvVars, TriedInv
  <1> QED BY <1>1, <1>2, <1>3

\* A decision leaves everything of the other ports as it was.
LEMMA DecideParts ==
  ASSUME IInv, NEW r \in Ranges, NEW p \in r, p \in Ports, Decide(r, p)
  PROVE  KnownInv' /\ EarnedInv' /\ TriedInv'
  <1> USE DEF IInv
  <1>1. pend[p] = "none" /\ UNCHANGED <<linkStatus, heard, torn>>
    BY DEF Decide
  <1>2. CASE UNCHANGED <<pend, lbmState, numRetries, LBRreceived, tries, notified>>
    BY <1>1, <1>2, Untouched DEF InvVars
  <1>3. CASE /\ StartsExchange(p) /\ pend' = [pend EXCEPT ![p] = "send"]
             /\ lbmState' = [lbmState EXCEPT ![p] = "TRANSMITTING"]
             /\ numRetries' = [numRetries EXCEPT ![p] = 0]
             /\ LBRreceived' = [LBRreceived EXCEPT ![p] = FALSE]
             /\ tries' = [tries EXCEPT ![p] = 0]
             /\ UNCHANGED notified
    <2>1. KnownInv'
      BY <1>1, <1>3 DEF KnownInv, LinkAfter, TypeOK
    <2>2. EarnedInv'
      BY <1>1, <1>3 DEF EarnedInv, TypeOK
    <2>3. TriedInv'
      BY <1>1, <1>3 DEF TriedInv, TypeOK
    <2> QED BY <2>1, <2>2, <2>3
  <1>4. CASE /\ Retries(p) /\ pend' = [pend EXCEPT ![p] = "send"]
             /\ lbmState' = [lbmState EXCEPT ![p] = "TRANSMITTING"]
             /\ numRetries' = [numRetries EXCEPT ![p] = @ + 1]
             /\ UNCHANGED <<LBRreceived, tries, notified>>
    <2>1. KnownInv'
      BY <1>1, <1>4 DEF KnownInv, LinkAfter, TypeOK
    <2>2. EarnedInv'
      BY <1>1, <1>4 DEF EarnedInv, TypeOK
    <2>3. TriedInv'
      BY <1>1, <1>4 DEF TriedInv, TypeOK, Retries, TimedOut
    <2> QED BY <2>1, <2>2, <2>3
  <1>5. CASE /\ Answered(p) \/ GivesUp(p)
             /\ pend' = [pend EXCEPT ![p] = IF Answered(p) THEN "up" ELSE "down"]
             /\ Notify(p, Answered(p))
             /\ UNCHANGED <<lbmState, numRetries, LBRreceived, tries>>
    <2>1. Answered(p) \in BOOLEAN /\ (GivesUp(p) => ~Answered(p))
      BY DEF Answered, GivesUp, TimedOut, TypeOK
    <2>2. CASE Answered(p)
      <3>1. pend' = [pend EXCEPT ![p] = "up"] /\ LBRreceived[p]
        BY <1>5, <2>2 DEF Answered
      <3>2. /\ notified' \in [Ports -> BOOLEAN]
            /\ \A q \in Ports \ {p} : notified'[q] = notified[q]
            /\ ~torn[p] => notified'[p] = TRUE
        BY <1>1, <1>5, <2>2 DEF KnownInv, LinkAfter, TypeOK, Notify
      <3>3. KnownInv'
        BY <1>1, <3>1, <3>2 DEF KnownInv, LinkAfter, TypeOK
      <3>4. EarnedInv'
        BY <1>1, <1>5, <3>1 DEF EarnedInv, TypeOK
      <3>5. TriedInv'
        BY <1>1, <1>5, <3>1 DEF TriedInv, TypeOK
      <3> QED BY <3>3, <3>4, <3>5
    <2>3. CASE ~Answered(p)
      <3>1. pend' = [pend EXCEPT ![p] = "down"] /\ GivesUp(p)
        BY <1>5, <2>3
      <3>2. /\ notified' \in [Ports -> BOOLEAN]
            /\ \A q \in Ports \ {p} : notified'[q] = notified[q]
            /\ ~torn[p] => notified'[p] = FALSE
        BY <1>1, <1>5, <2>1, <2>3 DEF KnownInv, LinkAfter, TypeOK, Notify
      <3>3. KnownInv'
        BY <1>1, <3>1, <3>2 DEF KnownInv, LinkAfter, TypeOK
      <3>4. EarnedInv'
        BY <1>1, <1>5, <3>1 DEF EarnedInv, TypeOK
      <3>5. tries[p] = NumRetransmissions + 1
        BY <1>1, <3>1, LbmAssumption DEF TriedInv, TypeOK, GivesUp, TimedOut
      <3>6. TriedInv'
        BY <1>1, <1>5, <3>1, <3>5 DEF TriedInv, TypeOK
      <3> QED BY <3>3, <3>4, <3>6
    <2> QED BY <2>2, <2>3
  <1> QED BY <1>2, <1>3, <1>4, <1>5 DEF Decide

LEMMA ApplyParts ==
  ASSUME IInv, NEW p \in Ports, Apply(p)
  PROVE  KnownInv' /\ EarnedInv' /\ TriedInv'
  <1> USE DEF IInv
  <1>1. /\ pend' = [pend EXCEPT ![p] = "none"]
        /\ UNCHANGED <<LBRreceived, numRetries, heard, notified, torn>>
    BY DEF Apply
  <1>2. CASE SendLbm(p)
    <2>1. /\ pend[p] = "send" /\ UNCHANGED linkStatus
          /\ lbmState' = [lbmState EXCEPT ![p] = "WAITING"]
          /\ tries' = [tries EXCEPT ![p] = Upto(@ + 1, NumRetransmissions + 1)]
      BY <1>2 DEF SendLbm
    <2>2. KnownInv'
      BY <1>1, <2>1 DEF KnownInv, LinkAfter, TypeOK
    <2>3. EarnedInv'
      BY <1>1, <2>1 DEF EarnedInv, TypeOK
    <2>4. Upto(tries[p] + 1, NumRetransmissions + 1) >= numRetries[p] + 1
      <3>1. /\ numRetries[p] \in 0..NumRetransmissions /\ tries[p] \in 0..(NumRetransmissions + 1)
            /\ tries[p] >= numRetries[p] /\ NumRetransmissions \in Nat
        BY <2>1, LbmAssumption DEF TriedInv, TypeOK
      <3> QED BY <3>1 DEF Upto
    <2>5. TriedInv'
      BY <1>1, <2>1, <2>4 DEF TriedInv, TypeOK
    <2> QED BY <2>2, <2>3, <2>5
  <1>3. CASE EndExchange(p)
    <2>1. /\ pend[p] \in {"up", "down"} /\ UNCHANGED tries
          /\ linkStatus' = [linkStatus EXCEPT ![p] = (pend[p] = "up")]
          /\ lbmState' = [lbmState EXCEPT ![p] = "IDLE"]
      BY <1>3 DEF EndExchange, sendVars
    <2>2. KnownInv'
      BY <1>1, <2>1 DEF KnownInv, LinkAfter, TypeOK
    <2>3. EarnedInv'
      BY <1>1, <2>1 DEF EarnedInv, TypeOK
    <2>4. TriedInv'
      BY <1>1, <2>1 DEF TriedInv, TypeOK
    <2> QED BY <2>2, <2>3, <2>4
  <1> QED BY <1>2, <1>3 DEF Apply

LEMMA ProcessLbmParts ==
  ASSUME IInv, NEW r \in Ranges, ProcessLbm(r)
  PROVE  KnownInv' /\ EarnedInv' /\ TriedInv'
  <1>1. UNCHANGED <<pend, LBRreceived, linkStatus, numRetries, tries, heard, notified,
                    torn>>
    BY DEF ProcessLbm, sendVars
  <1>2. \A p \in Ports : lbmState'[p] = "WAITING" => lbmState[p] = "WAITING"
    BY DEF ProcessLbm, KickStart, StartRound, IInv, TypeOK
  <1>3. KnownInv' /\ EarnedInv'
    BY <1>1 DEF IInv, KnownInv, EarnedInv, LinkAfter
  <1>4. TriedInv'
    BY <1>1, <1>2 DEF IInv, TriedInv
  <1> QED BY <1>3, <1>4

LEMMA ParseLbrParts ==
  ASSUME IInv, NEW p \in Ports, ParseLbr(p)
  PROVE  KnownInv' /\ EarnedInv' /\ TriedInv'
  <1> USE DEF IInv
  <1>1. UNCHANGED <<pend, lbmState, linkStatus, numRetries, tries, notified, torn>>
    BY DEF ParseLbr, workerVars, sendVars
  <1>2. \/ UNCHANGED <<LBRreceived, heard>>
        \/ /\ LBRreceived' = [LBRreceived EXCEPT ![p] = TRUE]
           /\ heard' = [heard EXCEPT ![p] = TRUE]
    BY DEF ParseLbr
  <1>3. KnownInv' /\ TriedInv'
    BY <1>1 DEF KnownInv, TriedInv, LinkAfter
  <1>4. EarnedInv'
    BY <1>1, <1>2 DEF EarnedInv, TypeOK
  <1> QED BY <1>3, <1>4

LEMMA ResetParts ==
  ASSUME IInv, NEW p \in Ports, ResetCtx(p), UNCHANGED <<pend, tries>>
  PROVE  KnownInv' /\ EarnedInv' /\ TriedInv'
  <1> USE DEF IInv, ResetCtx
  <1>1. KnownInv'
    BY DEF KnownInv, LinkAfter, TypeOK
  <1>2. EarnedInv'
    BY DEF EarnedInv, TypeOK
  <1>3. TriedInv'
    BY DEF TriedInv, TypeOK
  <1> QED BY <1>1, <1>2, <1>3

LEMMA OamParts ==
  ASSUME IInv, NEW p \in Ports, Oam(p)
  PROVE  KnownInv' /\ EarnedInv' /\ TriedInv'
  <1>1. UNCHANGED <<pend, tries>>
    BY DEF Oam, workerVars, sendVars
  <1>2. CASE OamDisable(p) \/ OamEnabled(p)
    BY <1>1, <1>2, Untouched DEF OamDisable, OamEnabled, InvVars, IInv
  <1>3. CASE OamDisabled(p) \/ OamEnable(p)
    BY <1>1, <1>3, ResetParts DEF OamDisabled, OamEnable
  <1> QED BY <1>2, <1>3 DEF Oam

-----------------------------------------------------------------------------
LEMMA StepOK == ASSUME IInv, [Next]_vars PROVE IInv'
  <1> USE DEF IInv
  <1>1. ASSUME NEW r \in Ranges, ProcessLbm(r) PROVE IInv'
    BY <1>1, ProcessLbmType, ProcessLbmParts
  <1>2. ASSUME NEW r \in Ranges, NEW p \in r, Decide(r, p) PROVE IInv'
    <2>1. p \in Ports
      BY LbmAssumption
    <2> QED BY <1>2, <2>1, DecideType, DecideParts
  <1>3. ASSUME NEW p \in Ports, Apply(p) PROVE IInv'
    BY <1>3, ApplyType, ApplyParts
  <1>4. ASSUME NEW p \in Ports, ParseLbr(p) PROVE IInv'
    BY <1>4, ParseType, ParseLbrParts
  <1>5. ASSUME NEW p \in Ports, ParseLbm(p) PROVE IInv'
    <2>1. UNCHANGED InvVars
      BY <1>5 DEF ParseLbm, InvVars, workerVars
    <2> QED BY <1>5, <2>1, ParseType, Untouched
  <1>6. ASSUME NEW p \in Ports, Oam(p) PROVE IInv'
    BY <1>6, OamType, OamParts
  <1>7. CASE Tick
    <2>1. UNCHANGED InvVars
      BY <1>7 DEF Tick, InvVars, sendVars
    <2> QED BY <1>7, <2>1, TickType, Untouched
  <1>8. CASE UNCHANGED vars
    <2>1. TypeOK'
      BY <1>8 DEF vars, TypeOK
    <2>2. UNCHANGED InvVars
      BY <1>8 DEF vars, InvVars
    <2> QED BY <2>1, <2>2, Untouched
  <1>9. \A r \in Ranges : \A p \in r : p \in Ports
    BY LbmAssumption
  <1> QED BY <1>1, <1>2, <1>3, <1>4, <1>5, <1>6, <1>7, <1>8, <1>9 DEF Next, Worker

THEOREM Inductive == Spec => []IInv
  BY InitOK, StepOK, PTL DEF Spec

\* The record of every port and the timers stay in range.
THEOREM TypeCorrect == Spec => []TypeOK
  <1>1. IInv => TypeOK
    BY DEF IInv
  <1> QED BY <1>1, Inductive, PTL

\* The PHY is told of every change of the link it does not make itself, however
\* its own calls interleave with the workers, resets in mid-step excepted.
THEOREM OamIsTold == Spec => []OamKnowsLink
  <1>1. IInv => OamKnowsLink
    BY DEF IInv, KnownInv, LinkAfter, OamKnowsLink
  <1> QED BY <1>1, Inductive, PTL

\* No port is reported up on the strength of replies from before a reset.
THEOREM LinkIsEarned == Spec => []UpIsEarned
  <1>1. IInv => UpIsEarned
    BY DEF IInv, EarnedInv, UpIsEarned
  <1> QED BY <1>1, Inductive, PTL

\* Both halves together: the link status means the same to PHY and O-RU.
THEOREM LinkIsTrusted == Spec => []LinkTrusted
  BY OamIsTold, LinkIsEarned, PTL DEF LinkTrusted

\* A link is taken down by the worker only after all of its retransmissions,
\* whatever was switched off and on in between.
THEOREM DownIsPatient == Spec => DownTakesAllRetries
  <1> DEFINE Step == \A p \in Ports :
          linkStatus[p] /\ ~linkStatus'[p] =>
             oamPc'[p] # oamPc[p] \/ tries[p] = NumRetransmissions + 1
  <1>1. ASSUME IInv, Next PROVE Step
    <2> USE DEF IInv
    <2>1. SUFFICES ASSUME NEW p \in Ports, linkStatus[p], ~linkStatus'[p],
                          oamPc'[p] = oamPc[p]
                   PROVE  tries[p] = NumRetransmissions + 1
      OBVIOUS
    <2>2. ASSUME NEW r \in Ranges, ProcessLbm(r) PROVE FALSE
      BY <2>1, <2>2 DEF ProcessLbm
    <2>3. ASSUME NEW r \in Ranges, NEW q \in r, Decide(r, q) PROVE FALSE
      BY <2>1, <2>3 DEF Decide
    <2>4. ASSUME NEW q \in Ports, Apply(q) PROVE tries[p] = NumRetransmissions + 1
      <3>1. CASE SendLbm(q)
        BY <2>1, <3>1 DEF SendLbm
      <3>2. CASE EndExchange(q)
        <4>1. linkStatus' = [linkStatus EXCEPT ![q] = (pend[q] = "up")]
          BY <3>2 DEF EndExchange
        <4>2. linkStatus \in [Ports -> BOOLEAN]
          BY <1>1 DEF TypeOK
        <4>3. p = q
          BY <2>1, <4>1, <4>2
        <4>4. pend[q] # "up"
          BY <2>1, <4>1, <4>2, <4>3
        <4>5. pend[p] = "down"
          BY <3>2, <4>3, <4>4 DEF EndExchange
        <4> QED BY <1>1, <4>5 DEF TriedInv
      <3> QED BY <2>4, <3>1, <3>2 DEF Apply
    <2>5. ASSUME NEW q \in Ports, ParseLbr(q) \/ ParseLbm(q) PROVE FALSE
      BY <2>1, <2>5 DEF ParseLbr, ParseLbm
    <2>6. ASSUME NEW q \in Ports, Oam(q) PROVE FALSE
      <3>1. oamPc'[q] # oamPc[q]
        BY <1>1, <2>6 DEF Oam, OamDisable, OamDisabled, OamEnable, OamEnabled, TypeOK
      <3>2. p # q
        BY <2>1, <3>1
      <3>3. UNCHANGED linkStatus \/ linkStatus' = [linkStatus EXCEPT ![q] = FALSE]
        BY <2>6 DEF Oam, OamDisable, OamDisabled, OamEnable, OamEnabled, ResetCtx
      <3> QED BY <1>1, <2>1, <3>2, <3>3 DEF TypeOK
    <2>7. CASE Tick
      BY <2>1, <2>7 DEF Tick
    <2>8. \A r \in Ranges : \A q \in r : q \in Ports
      BY LbmAssumption
    <2> QED BY <1>1, <2>2, <2>3, <2>4, <2>5, <2>6, <2>7, <2>8 DEF Next, Worker
  <1>2. ASSUME IInv, [Next]_vars PROVE [Step]_vars
    BY <1>1, <1>2
  <1> QED BY <1>2, Inductive, PTL DEF Spec, DownTakesAllRetries
-----------------------------------------------------------------------------
(* The transaction identifiers on their way to the O-RU. *)

\* LBMs s under way to an O-RU that expects e, from a sender whose next
\* identifier is n; g: the last LBM it sent was lost.  Each LBM that follows its
\* predecessor without a loss carries the next identifier.
Chained(s, e, n, g) ==
    /\ s # <<>> /\ ~s[1].gap => s[1].id = e
    /\ \A i \in 1 .. Len(s) : i + 1 <= Len(s) /\ ~s[i + 1].gap =>
          s[i + 1].id = (s[i].id + 1) % IdModulus
    /\ ~g => n = IF s = <<>> THEN e ELSE (s[Len(s)].id + 1) % IdModulus

ChainInv ==
    \A p \in Ports :
       Chained(toRu[p], expectedTransID[p], nextLBMtransID[p], gap[p])

LEMMA ChainSend ==
  ASSUME NEW s \in Seq(Lbm), NEW e, NEW n, NEW g \in BOOLEAN, Chained(s, e, n, g)
  PROVE  Chained(Append(s, [id |-> n, gap |-> g]), e, (n + 1) % IdModulus, FALSE)
  <1> DEFINE m == [id |-> n, gap |-> g]
             t == Append(s, m)
  <1>1. /\ Len(s) \in Nat /\ Len(t) = Len(s) + 1 /\ t # <<>>
        /\ \A i \in 1 .. Len(s) : t[i] = s[i]
        /\ t[Len(s) + 1] = m /\ m.id = n /\ m.gap = g
        /\ s = <<>> <=> Len(s) = 0
    OBVIOUS
  <1> HIDE DEF m, t
  <1>2. ~t[1].gap => t[1].id = e
    <2>1. CASE s = <<>>
      BY <1>1, <2>1 DEF Chained
    <2>2. CASE s # <<>>
      BY <1>1, <2>2 DEF Chained
    <2> QED BY <2>1, <2>2
  <1>3. ASSUME NEW i \in 1 .. Len(t), i + 1 <= Len(t), ~t[i + 1].gap
        PROVE  t[i + 1].id = (t[i].id + 1) % IdModulus
    <2>1. CASE i + 1 <= Len(s)
      BY <1>1, <1>3, <2>1 DEF Chained
    <2>2. CASE i = Len(s)
      <3>1. s # <<>> /\ t[i + 1] = m /\ t[i] = s[Len(s)] /\ ~g
        BY <1>1, <1>3, <2>2
      <3>2. n = (s[Len(s)].id + 1) % IdModulus
        BY <3>1 DEF Chained
      <3> QED BY <1>1, <3>1, <3>2
    <2> QED BY <1>1, <1>3, <2>1, <2>2
  <1>4. (n + 1) % IdModulus = (t[Len(t)].id + 1) % IdModulus
    BY <1>1
  <1>5. Chained(t, e, (n + 1) % IdModulus, FALSE)
    BY <1>1, <1>2, <1>3, <1>4 DEF Chained
  <1> QED BY <1>5 DEF m, t

\* After a loss nothing is known of the next identifier, and need not be.
LEMMA ChainLose ==
  ASSUME NEW s, NEW e, NEW n, NEW g, NEW k, Chained(s, e, n, g)
  PROVE  Chained(s, e, k, TRUE)
  BY DEF Chained

LEMMA ChainReceive ==
  ASSUME NEW s \in Seq(Lbm), s # <<>>, NEW e, NEW n, NEW g, Chained(s, e, n, g)
  PROVE  Chained(Tail(s), (Head(s).id + 1) % IdModulus, n, g)
  <1> DEFINE t == Tail(s)
             f == (Head(s).id + 1) % IdModulus
  <1>1. /\ Len(s) \in Nat \ {0} /\ Len(t) = Len(s) - 1
        /\ \A i \in 1 .. Len(t) : t[i] = s[i + 1]
        /\ Head(s) = s[1] /\ (t = <<>> <=> Len(t) = 0)
    <2>1. /\ Len(s) \in Nat /\ Len(s) # 0 /\ t \in Seq(Lbm) /\ Len(t) = Len(s) - 1
          /\ Head(s) = s[1]
      OBVIOUS
    <2>2. \A i \in 1 .. Len(t) : t[i] = s[i + 1]
      OBVIOUS
    <2> HIDE DEF t
    <2>3. t = <<>> <=> Len(t) = 0
      BY <2>1
    <2> QED BY <2>1, <2>2, <2>3
  <1>2. f = (s[1].id + 1) % IdModulus
    BY <1>1
  <1> HIDE DEF t, f
  <1>3. t # <<>> /\ ~t[1].gap => t[1].id = f
    BY <1>1, <1>2 DEF Chained
  <1>4. ASSUME NEW i \in 1 .. Len(t), i + 1 <= Len(t), ~t[i + 1].gap
        PROVE  t[i + 1].id = (t[i].id + 1) % IdModulus
    <2>1. /\ i + 1 \in 1 .. Len(s) /\ (i + 1) + 1 <= Len(s)
          /\ t[i + 1] = s[(i + 1) + 1] /\ t[i] = s[i + 1]
      BY <1>1, <1>4
    <2> QED BY <1>4, <2>1 DEF Chained
  <1>5. ASSUME ~g PROVE n = IF t = <<>> THEN f ELSE (t[Len(t)].id + 1) % IdModulus
    <2>1. n = (s[Len(s)].id + 1) % IdModulus
      BY <1>1, <1>5 DEF Chained
    <2>2. CASE t = <<>>
      <3>1. Len(s) = 1
        BY <1>1, <2>2
      <3>2. n = f
        BY <1>2, <2>1, <3>1
      <3> QED BY <2>2, <3>2
    <2>3. CASE t # <<>>
      <3>1. t[Len(t)] = s[Len(s)]
        BY <1>1, <2>3
      <3> QED BY <2>1, <2>3, <3>1
    <2> QED BY <2>2, <2>3
  <1>6. Chained(t, f, n, g)
    BY <1>3, <1>4, <1>5 DEF Chained
  <1> QED BY <1>6 DEF t, f

LEMMA ChainStep == ASSUME TypeOK, ChainInv, [Next]_vars PROVE ChainInv'
  <1>1. ASSUME UNCHANGED <<toRu, expectedTransID, nextLBMtransID, gap>> PROVE ChainInv'
    BY <1>1 DEF ChainInv
  <1>2. ASSUME NEW p \in Ports, SendLbm(p), expectedTransID' = expectedTransID
        PROVE  ChainInv'
    <2> SUFFICES ASSUME NEW q \in Ports
                 PROVE  Chained(toRu'[q], expectedTransID'[q], nextLBMtransID'[q], gap'[q])
      BY DEF ChainInv
    <2>1. Chained(toRu[q], expectedTransID[q], nextLBMtransID[q], gap[q])
      BY DEF ChainInv
    <2>2. PICK lost \in BOOLEAN :
             /\ toRu' = IF lost THEN toRu
                        ELSE [toRu EXCEPT ![p] =
                                Append(@, [id |-> nextLBMtransID[p], gap |-> gap[p]])]
             /\ gap' = [gap EXCEPT ![p] = lost]
      BY <1>2 DEF SendLbm
    <2>3. nextLBMtransID' = [nextLBMtransID EXCEPT ![p] = (@ + 1) % IdModulus]
      BY <1>2 DEF SendLbm
    <2>4. CASE q # p
      <3>1. /\ toRu'[q] = toRu[q] /\ gap'[q] = gap[q]
            /\ nextLBMtransID'[q] = nextLBMtransID[q]
        BY <2>2, <2>3, <2>4 DEF TypeOK
      <3> QED BY <1>2, <2>1, <3>1
    <2>5. CASE q = p /\ lost
      <3>1. toRu'[q] = toRu[q] /\ gap'[q] = TRUE
        BY <2>2, <2>5 DEF TypeOK
      <3> QED BY <1>2, <2>1, <3>1, ChainLose
    <2>6. CASE q = p /\ ~lost
      <3>1. /\ toRu'[q] = Append(toRu[q], [id |-> nextLBMtransID[q], gap |-> gap[q]])
            /\ gap'[q] = FALSE
            /\ nextLBMtransID'[q] = (nextLBMtransID[q] + 1) % IdModulus
        BY <2>2, <2>3, <2>6 DEF TypeOK
      <3>2. toRu[q] \in Seq(Lbm) /\ gap[q] \in BOOLEAN
        BY DEF TypeOK
      <3>3. Chained(Append(toRu[q], [id |-> nextLBMtransID[q], gap |-> gap[q]]),
                    expectedTransID[q], (nextLBMtransID[q] + 1) % IdModulus, FALSE)
        BY <2>1, <3>2, ChainSend
      <3> QED BY <1>2, <3>1, <3>3
    <2> QED BY <2>4, <2>5, <2>6
  <1>3. ASSUME NEW p \in Ports, ParseLbm(p) PROVE ChainInv'
    <2>1. /\ toRu[p] # <<>> /\ toRu' = [toRu EXCEPT ![p] = Tail(@)]
          /\ expectedTransID' = [expectedTransID EXCEPT ![p] = (Head(toRu[p]).id + 1) % IdModulus]
          /\ UNCHANGED <<nextLBMtransID, gap>>
      BY <1>3 DEF ParseLbm, NextExpected
    <2> SUFFICES ASSUME NEW q \in Ports
                 PROVE  Chained(toRu'[q], expectedTransID'[q], nextLBMtransID'[q], gap'[q])
      BY DEF ChainInv
    <2>2. Chained(toRu[q], expectedTransID[q], nextLBMtransID[q], gap[q])
      BY DEF ChainInv
    <2>3. CASE q # p
      BY <2>1, <2>2, <2>3 DEF TypeOK
    <2>4. CASE q = p
      <3>1. toRu'[q] = Tail(toRu[q]) /\ expectedTransID'[q] = (Head(toRu[q]).id + 1) % IdModulus
        BY <2>1, <2>4 DEF TypeOK
      <3>2. toRu[q] \in Seq(Lbm) /\ toRu[q] # <<>>
        BY <2>1, <2>4 DEF TypeOK
      <3>3. Chained(Tail(toRu[q]), (Head(toRu[q]).id + 1) % IdModulus, nextLBMtransID[q], gap[q])
        BY <2>2, <3>2, ChainReceive
      <3> QED BY <2>1, <3>1, <3>3
    <2> QED BY <2>3, <2>4
  <1>4. ASSUME NEW p \in Ports, Apply(p) PROVE ChainInv'
    <2>1. CASE SendLbm(p)
      BY <1>2, <1>4, <2>1 DEF Apply
    <2>2. CASE EndExchange(p)
      BY <1>1, <1>4, <2>2 DEF Apply, EndExchange, sendVars
    <2> QED BY <1>4, <2>1, <2>2 DEF Apply
  <1>5. ASSUME NEW r \in Ranges, NEW p \in r, Decide(r, p) PROVE ChainInv'
    BY <1>1, <1>5 DEF Decide
  <1>6. ASSUME NEW r \in Ranges, ProcessLbm(r) PROVE ChainInv'
    BY <1>1, <1>6 DEF ProcessLbm, sendVars
  <1>7. ASSUME NEW p \in Ports, ParseLbr(p) \/ Oam(p) PROVE ChainInv'
    BY <1>1, <1>7 DEF ParseLbr, Oam, sendVars
  <1>8. CASE Tick \/ UNCHANGED vars
    BY <1>1, <1>8 DEF Tick, sendVars, vars
  <1>9. \A r \in Ranges : \A p \in r : p \in Ports
    BY LbmAssumption
  <1> QED BY <1>3, <1>4, <1>5, <1>6, <1>7, <1>8, <1>9 DEF Next, Worker

\* The O-RU counts an LBM as out of order only after a loss, for every number of
\* identifiers and of packets under way: retransmissions, timeouts, resets by the
\* OAM thread and the wrap of the identifier never break the sequence.
THEOREM OrderBrokenByLossOnly == Spec => []OutOfOrderMeansLoss
  <1>1. Init => ChainInv
    BY DEF Init, ChainInv, Chained
  <1>2. TypeOK /\ ChainInv /\ [Next]_vars => ChainInv'
    BY ChainStep
  <1>3. TypeOK /\ ChainInv => OutOfOrderMeansLoss
    <2> SUFFICES ASSUME TypeOK, ChainInv, NEW p \in Ports, toRu[p] # <<>>, ~Head(toRu[p]).gap
                 PROVE  Head(toRu[p]).id = expectedTransID[p]
      BY DEF OutOfOrderMeansLoss
    <2>1. toRu[p] \in Seq(Lbm) /\ Head(toRu[p]) = toRu[p][1]
      BY DEF TypeOK
    <2> QED BY <2>1 DEF ChainInv, Chained
  <1> QED BY <1>1, <1>2, <1>3, TypeCorrect, PTL DEF Spec
=============================================================================
