------------------------------- MODULE XranLbm -------------------------------
(* Link supervision of the fronthaul ports (IEEE 802.1Q loopback messages).  *)
(* The O-DU sends an LBM on every port once per period, waits for the O-RU's *)
(* LBR, retransmits after a timeout, and after the last retransmission takes *)
(* the link for down.  Three threads share a port's record, unlocked:        *)
(*   - the workers that do the I/O (xran_process_lbm, xran_lbm_state_machine)*)
(*     each for the range of ports it is called with;                        *)
(*   - the thread that receives packets (xran_parse_lbr);                    *)
(*   - the OAM thread of the PHY, which switches the supervision of a port   *)
(*     on and off (xran_oam_phy2xran_manage_lbm).                            *)
(*                                                                           *)
(* The two times are kept as what is left of them: passLeft is nextPass      *)
(* minus the time, lbmLeft is nextLBMtime minus the time, in ticks and no    *)
(* lower than what the comparisons tell apart.  A packet is delayed at will  *)
(* and may be lost; one that will be lost is lost when it is sent.  The      *)
(* interface is XRAN_RUNNING, and CLOCK_REALTIME is not set back.            *)
EXTENDS Integers, Sequences, FiniteSets

CONSTANTS
    Ports,              \* the VFs, io_cfg.num_vfs of them
    Ranges,             \* the ranges of ports xran_process_lbm is called with
    LBRTimeOut,         \* ticks to wait for a reply
    LBMPeriodicity,     \* ticks between two exchanges
    NumRetransmissions,
    IdModulus,          \* 2^32, transaction identifiers
    NetMax              \* bound: packets under way per port and direction

ASSUME LbmAssumption ==
    /\ {LBRTimeOut, LBMPeriodicity, NumRetransmissions} \subseteq Nat
    /\ {IdModulus, NetMax} \subseteq Nat \ {0}
    /\ UNION Ranges = Ports
    /\ \A r, s \in Ranges : r # s => r \cap s = {}

VARIABLES
    firstCall,          \* static first_call
    lbmLeft,            \* nextLBMtime - now, at least 0
    todo,               \* per range: ports the current call has still to visit
    pend,               \* per port: what the worker has decided and not yet written
    (* struct xran_lbm_port_info of the O-DU *)
    lbmState, xmitEnable, LBRreceived, nextLBMtransID, linkStatus, numRetries,
    passLeft,           \* nextPass - now, at least -1
    lbmEnable,
    oamPc,              \* where the OAM thread is in its call for a port
    toRu, toDu,         \* LBMs and number of LBRs under way
    expectedTransID,    \* expectedLBRtransID of the O-RU
    (* history, read by no step *)
    gap,                \* the last LBM of the port was lost
    tries,              \* LBMs of the current exchange, at most 1 + NumRetransmissions
    heard,              \* a reply was accepted since the context was reset
    notified,           \* the link status the PHY was told last
    torn                \* the context was reset while the worker was at it

workerVars == <<firstCall, lbmLeft, todo, pend>>
timeVars == <<lbmLeft, passLeft>>
sendVars == <<nextLBMtransID, toRu, gap, tries>>
vars == <<firstCall, lbmLeft, todo, pend, lbmState, xmitEnable, LBRreceived,
          nextLBMtransID, linkStatus, numRetries, passLeft, lbmEnable, oamPc,
          toRu, toDu, expectedTransID, gap, tries, heard, notified, torn>>

States == {"INIT", "IDLE", "TRANSMITTING", "WAITING"}
Ids == 0..(IdModulus - 1)
Lbm == [id : Ids, gap : BOOLEAN]
Upto(a, b) == IF a < b THEN a ELSE b

\* The record types and the ranges of the timers and history variables.
TypeOK ==
    /\ firstCall \in BOOLEAN /\ lbmLeft \in 0..LBMPeriodicity
    /\ todo \in [Ranges -> SUBSET Ports]
    /\ pend \in [Ports -> {"none", "send", "up", "down"}]
    /\ lbmState \in [Ports -> States]
    /\ xmitEnable \in [Ports -> BOOLEAN] /\ LBRreceived \in [Ports -> BOOLEAN]
    /\ nextLBMtransID \in [Ports -> Ids] /\ linkStatus \in [Ports -> BOOLEAN]
    /\ numRetries \in [Ports -> 0..NumRetransmissions]
    /\ passLeft \in [Ports -> -1..LBRTimeOut]
    /\ lbmEnable \in [Ports -> BOOLEAN]
    /\ oamPc \in [Ports -> {"idle", "resetting", "enabling"}]
    /\ toRu \in [Ports -> Seq(Lbm)] /\ toDu \in [Ports -> 0..NetMax]
    /\ expectedTransID \in [Ports -> Ids]
    /\ gap \in [Ports -> BOOLEAN] /\ tries \in [Ports -> 0..(NumRetransmissions + 1)]
    /\ heard \in [Ports -> BOOLEAN] /\ notified \in [Ports -> BOOLEAN]
    /\ torn \in [Ports -> BOOLEAN]

AllPorts(v) == [p \in Ports |-> v]

\* xran_init with lbmEnable
Init ==
    /\ firstCall = TRUE /\ lbmLeft = 0 /\ todo = [r \in Ranges |-> {}]
    /\ pend = AllPorts("none") /\ lbmState = AllPorts("INIT")
    /\ xmitEnable = AllPorts(FALSE) /\ LBRreceived = AllPorts(FALSE)
    /\ nextLBMtransID = AllPorts(0) /\ linkStatus = AllPorts(FALSE)
    /\ numRetries = AllPorts(0) /\ passLeft = AllPorts(-1)
    /\ lbmEnable = AllPorts(TRUE) /\ oamPc = AllPorts("idle")
    /\ toRu = AllPorts(<<>>) /\ toDu = AllPorts(0)
    /\ expectedTransID = AllPorts(0)
    /\ gap = AllPorts(FALSE) /\ tries = AllPorts(0) /\ heard = AllPorts(FALSE)
    /\ notified = AllPorts(FALSE) /\ torn = AllPorts(FALSE)

-----------------------------------------------------------------------------
(* The workers of the O-DU. *)

\* xran_process_lbm, the call that finds first_call set: it prepares the ports
\* of its own range and returns.
KickStart(r) ==
    /\ firstCall
    /\ firstCall' = FALSE
    /\ lbmState' = [p \in Ports |-> IF p \in r /\ lbmState[p] = "INIT"
                                     THEN "IDLE" ELSE lbmState[p]]
    /\ xmitEnable' = [p \in Ports |-> xmitEnable[p]
                                       /\ ~(p \in r /\ lbmState[p] = "INIT")]
    /\ lbmLeft' = LBMPeriodicity
    /\ UNCHANGED todo

\* Only links that are up are supervised further.
WakesIfUp(p, r) == p \in r /\ lbmEnable[p] /\ lbmState[p] = "IDLE" /\ linkStatus[p]
\* Ports that the period's end makes transmit.
Wakes(p, r) == p \in r /\ lbmEnable[p] /\ lbmState[p] = "IDLE"

\* xran_process_lbm, any later call: the end of a period enables transmission,
\* then the state machine of every port of the range is run.
StartRound(r) ==
    /\ ~firstCall
    /\ IF lbmLeft = 0
       THEN /\ xmitEnable' = [p \in Ports |-> xmitEnable[p] \/ Wakes(p, r)]
            /\ lbmLeft' = LBMPeriodicity
       ELSE UNCHANGED <<xmitEnable, lbmLeft>>
    /\ todo' = [todo EXCEPT ![r] = r]
    /\ UNCHANGED <<firstCall, lbmState>>

ProcessLbm(r) ==
    /\ todo[r] = {}
    /\ KickStart(r) \/ StartRound(r)
    /\ UNCHANGED <<pend, LBRreceived, linkStatus, numRetries, passLeft, lbmEnable,
                   oamPc, toDu, heard, notified, torn, sendVars, expectedTransID>>

\* What the state machine makes of the port.
StartsExchange(p) == lbmState[p] = "IDLE" /\ xmitEnable[p]
Answered(p) ==
    /\ lbmState[p] = "WAITING" /\ LBRreceived[p] /\ passLeft[p] >= 0
    /\ numRetries[p] <= NumRetransmissions
TimedOut(p) == lbmState[p] = "WAITING" /\ ~Answered(p) /\ passLeft[p] < 0
\* One retransmission too many.
RetriesOnceMore(p) == TimedOut(p) /\ numRetries[p] <= NumRetransmissions
Retries(p) == TimedOut(p) /\ numRetries[p] < NumRetransmissions
\* The last timeout is never reached.
GivesUpTooLate(p) == TimedOut(p) /\ numRetries[p] > NumRetransmissions
GivesUp(p) == TimedOut(p) /\ numRetries[p] >= NumRetransmissions

\* oam_notify_cb, called when the status will change
Notify(p, up) ==
    notified' = IF linkStatus[p] # up THEN [notified EXCEPT ![p] = up] ELSE notified

\* xran_lbm_state_machine up to the packet or the notification: IDLE with
\* xmitEnable starts an exchange, WAITING ends it or retransmits.  A port that
\* is disabled is passed over.
Decide(r, p) ==
    /\ p \in todo[r] /\ \A q \in r : pend[q] = "none"
    /\ todo' = [todo EXCEPT ![r] = @ \ {p}]
    /\ IF ~lbmEnable[p]
       THEN UNCHANGED <<pend, lbmState, numRetries, LBRreceived, tries, notified>>
       ELSE \/ /\ StartsExchange(p)
               /\ pend' = [pend EXCEPT ![p] = "send"]
               /\ lbmState' = [lbmState EXCEPT ![p] = "TRANSMITTING"]
               /\ numRetries' = [numRetries EXCEPT ![p] = 0]
               /\ LBRreceived' = [LBRreceived EXCEPT ![p] = FALSE]
               /\ tries' = [tries EXCEPT ![p] = 0]
               /\ UNCHANGED notified
            \/ /\ Retries(p)
               /\ pend' = [pend EXCEPT ![p] = "send"]
               /\ lbmState' = [lbmState EXCEPT ![p] = "TRANSMITTING"]
               /\ numRetries' = [numRetries EXCEPT ![p] = @ + 1]
               /\ UNCHANGED <<LBRreceived, tries, notified>>
            \/ /\ Answered(p) \/ GivesUp(p)
               /\ pend' = [pend EXCEPT ![p] = IF Answered(p) THEN "up" ELSE "down"]
               /\ Notify(p, Answered(p))
               /\ UNCHANGED <<lbmState, numRetries, LBRreceived, tries>>
            \/ /\ ~(StartsExchange(p) \/ Answered(p) \/ TimedOut(p))
               /\ UNCHANGED <<pend, lbmState, numRetries, LBRreceived, tries, notified>>
    /\ UNCHANGED <<firstCall, xmitEnable, linkStatus, timeVars, lbmEnable, oamPc,
                   nextLBMtransID, toRu, gap, toDu, heard, torn, expectedTransID>>

\* xran_create_and_send_lbm_packet, then the new deadline.  The worker drains
\* the transmit ring itself, later: no reply can precede WAITING.
SendLbm(p) ==
    /\ pend[p] = "send"
    /\ \E lost \in BOOLEAN :
          /\ Len(toRu[p]) = NetMax => lost
          /\ toRu' = IF lost THEN toRu
                     ELSE [toRu EXCEPT ![p] =
                             Append(@, [id |-> nextLBMtransID[p], gap |-> gap[p]])]
          /\ gap' = [gap EXCEPT ![p] = lost]
    /\ nextLBMtransID' = [nextLBMtransID EXCEPT ![p] = (@ + 1) % IdModulus]
    /\ passLeft' = [passLeft EXCEPT ![p] = LBRTimeOut]
    /\ lbmState' = [lbmState EXCEPT ![p] = "WAITING"]
    /\ tries' = [tries EXCEPT ![p] = Upto(@ + 1, NumRetransmissions + 1)]
    /\ UNCHANGED <<linkStatus, xmitEnable>>

\* End of an exchange: the decision reaches linkStatus after the notification.
EndExchange(p) ==
    /\ pend[p] \in {"up", "down"}
    /\ linkStatus' = [linkStatus EXCEPT ![p] = (pend[p] = "up")]
    /\ xmitEnable' = [xmitEnable EXCEPT ![p] = FALSE]
    /\ lbmState' = [lbmState EXCEPT ![p] = "IDLE"]
    /\ UNCHANGED <<passLeft, sendVars>>

Apply(p) ==
    /\ SendLbm(p) \/ EndExchange(p)
    /\ pend' = [pend EXCEPT ![p] = "none"]
    /\ UNCHANGED <<firstCall, lbmLeft, todo, LBRreceived, numRetries, lbmEnable,
                   oamPc, toDu, heard, notified, torn, expectedTransID>>

Worker(r) == ProcessLbm(r) \/ (\E p \in r : Decide(r, p) \/ Apply(p))

-----------------------------------------------------------------------------
(* The other threads, the O-RU, and time. *)

\* xran_handle_rx_pkts and xran_parse_lbr: any reply is taken while the port waits,
\* whatever transaction it carries.  Its test and its store are one step: a late
\* store does what a late reply does, or is wiped when the next exchange starts.
ParseLbr(p) ==
    /\ toDu[p] > 0
    /\ toDu' = [toDu EXCEPT ![p] = @ - 1]
    /\ IF lbmEnable[p] /\ lbmState[p] = "WAITING"
       THEN /\ LBRreceived' = [LBRreceived EXCEPT ![p] = TRUE]
            /\ heard' = [heard EXCEPT ![p] = TRUE]
       ELSE UNCHANGED <<LBRreceived, heard>>
    /\ UNCHANGED <<workerVars, lbmState, xmitEnable, linkStatus, numRetries, passLeft,
                   lbmEnable, oamPc, notified, torn, sendVars, expectedTransID>>

\* No resynchronisation after a loss.
NextExpectedCounts(p) == (expectedTransID[p] + 1) % IdModulus
\* xran_parse_lbm: both branches leave the successor of what was received.
NextExpected(p) == (Head(toRu[p]).id + 1) % IdModulus

\* xran_parse_lbm on the O-RU: an identifier other than expectedLBRtransID is
\* counted as out of order, and the next one is expected to follow it.  Reply.
ParseLbm(p) ==
    /\ toRu[p] # <<>>
    /\ toRu' = [toRu EXCEPT ![p] = Tail(@)]
    /\ expectedTransID' = [expectedTransID EXCEPT ![p] = NextExpected(p)]
    /\ \/ toDu' = [toDu EXCEPT ![p] = Upto(@ + 1, NetMax)]
       \/ UNCHANGED toDu                            \* the reply is lost
    /\ UNCHANGED <<workerVars, lbmState, xmitEnable, LBRreceived, linkStatus,
                   numRetries, passLeft, lbmEnable, oamPc, nextLBMtransID, gap,
                   tries, heard, notified, torn>>

\* The link status survives a reset.
ResetCtxKeepsLink(p) ==
    /\ UNCHANGED linkStatus
    /\ LBRreceived' = [LBRreceived EXCEPT ![p] = FALSE]
    /\ lbmState' = [lbmState EXCEPT ![p] = "IDLE"]
    /\ numRetries' = [numRetries EXCEPT ![p] = 0]
    /\ xmitEnable' = [xmitEnable EXCEPT ![p] = FALSE]
    /\ heard' = [heard EXCEPT ![p] = FALSE]
    /\ notified' = [notified EXCEPT ![p] = FALSE]
    /\ torn' = [torn EXCEPT ![p] = (pend[p] # "none")]

\* xran_reset_lbm_ctx
ResetCtx(p) ==
    /\ linkStatus' = [linkStatus EXCEPT ![p] = FALSE]
    /\ LBRreceived' = [LBRreceived EXCEPT ![p] = FALSE]
    /\ lbmState' = [lbmState EXCEPT ![p] = "IDLE"]
    /\ numRetries' = [numRetries EXCEPT ![p] = 0]
    /\ xmitEnable' = [xmitEnable EXCEPT ![p] = FALSE]
    /\ heard' = [heard EXCEPT ![p] = FALSE]
    /\ notified' = [notified EXCEPT ![p] = FALSE]
    /\ torn' = [torn EXCEPT ![p] = (pend[p] # "none")]

\* xran_oam_phy2xran_manage_lbm, to disable: first disable ...
OamDisable(p) ==
    /\ oamPc[p] = "idle" /\ lbmEnable[p]
    /\ lbmEnable' = [lbmEnable EXCEPT ![p] = FALSE]
    /\ oamPc' = [oamPc EXCEPT ![p] = "resetting"]
    /\ UNCHANGED <<linkStatus, LBRreceived, lbmState, numRetries, xmitEnable, heard,
                   notified, torn>>
\* ... then reset
OamDisabled(p) ==
    /\ oamPc[p] = "resetting"
    /\ ResetCtx(p)
    /\ oamPc' = [oamPc EXCEPT ![p] = "idle"]
    /\ UNCHANGED lbmEnable

\* To enable: first reset ...
OamEnable(p) ==
    /\ oamPc[p] = "idle" /\ ~lbmEnable[p]
    /\ ResetCtx(p)
    /\ oamPc' = [oamPc EXCEPT ![p] = "enabling"]
    /\ UNCHANGED lbmEnable
\* ... then enable
OamEnabled(p) ==
    /\ oamPc[p] = "enabling"
    /\ lbmEnable' = [lbmEnable EXCEPT ![p] = TRUE]
    /\ oamPc' = [oamPc EXCEPT ![p] = "idle"]
    /\ UNCHANGED <<linkStatus, LBRreceived, lbmState, numRetries, xmitEnable, heard,
                   notified, torn>>

Oam(p) ==
    /\ OamDisable(p) \/ OamDisabled(p) \/ OamEnable(p) \/ OamEnabled(p)
    /\ UNCHANGED <<workerVars, passLeft, toDu, sendVars, expectedTransID>>

Tick ==
    /\ lbmLeft' = IF lbmLeft > 0 THEN lbmLeft - 1 ELSE 0
    /\ passLeft' = [p \in Ports |-> IF passLeft[p] >= 0 THEN passLeft[p] - 1 ELSE -1]
    /\ UNCHANGED <<firstCall, todo, pend, lbmState, xmitEnable, LBRreceived,
                   linkStatus, numRetries, lbmEnable, oamPc, toDu, heard, notified,
                   torn, sendVars, expectedTransID>>

Next ==
    \/ \E r \in Ranges : Worker(r)
    \/ \E p \in Ports : ParseLbr(p) \/ ParseLbm(p) \/ Oam(p)
    \/ Tick

\* The workers poll for ever and time passes; the network, the O-RU and the OAM
\* thread owe nothing.
Fairness == WF_vars(Tick) /\ \A r \in Ranges : WF_vars(Worker(r))

Spec == Init /\ [][Next]_vars /\ Fairness

-----------------------------------------------------------------------------
(* Properties. *)

\* The PHY's idea of the link is right whenever no step of the worker is under
\* way: linkStatus never changes without oam_notify_cb or a reset by the OAM
\* thread itself.  The exception is a reset that hit the worker in mid-step.
OamKnowsLink ==
    \A p \in Ports : pend[p] = "none" /\ ~torn[p] => notified[p] = linkStatus[p]

\* A link is up only if the O-RU has replied since the supervision of the port
\* was last reset: nothing of the time before a reset survives it.
UpIsEarned ==
    \A p \in Ports : linkStatus[p] /\ ~torn[p] => heard[p]

\* linkStatus can be trusted from both sides: the PHY holds the same, and the
\* O-RU has earned it, however resets fall between the worker's steps.
LinkTrusted == OamKnowsLink /\ UpIsEarned

\* The worker takes a link down only after the first LBM of an exchange and
\* every retransmission went unanswered.
DownTakesAllRetries ==
    [][\A p \in Ports :
          linkStatus[p] /\ ~linkStatus'[p] =>
             oamPc'[p] # oamPc[p] \/ tries[p] = NumRetransmissions + 1]_vars

\* The O-RU counts an LBM as out of order only if one was lost before it: the
\* identifiers go on across retransmissions, timeouts and resets.
OutOfOrderMeansLoss ==
    \A p \in Ports :
       toRu[p] # <<>> /\ ~Head(toRu[p]).gap => Head(toRu[p]).id = expectedTransID[p]

\* An O-RU that stays silent is noticed: no port that is supervised remains up
\* for ever without a reply.
DeadLinkNoticed ==
    \A p \in Ports : []<>(~lbmEnable[p] \/ ~linkStatus[p] \/ LBRreceived[p])

\* A port with supervision on is probed again and again, as the period between
\* two LBM transmissions says.
Probed ==
    \A p \in Ports : []<>(~lbmEnable[p] \/ lbmState[p] = "TRANSMITTING")
=============================================================================
