-------------------------------- MODULE XranRx --------------------------------
(* Reception of U-plane packets by the O-DU.  A packet's frame number, slot  *)
(* and symbol choose the record it is linked into, one of XRAN_N_FE_BUF_LEN  *)
(* per antenna and symbol; a slot's record is read by the PHY from the full- *)
(* slot deadline callback on and emptied by the callback of the next slot.   *)
(* Three threads meet there without a lock:                                  *)
(*   - the timing thread, whose clock the reception window is checked with;  *)
(*   - the worker that receives (process_mbuf, process_mbuf_batch);          *)
(*   - the worker that runs the callback (rx_ul_deadline_full_cb and the     *)
(*     application's function behind it).                                    *)
(* The model follows one carrier, antenna and symbol of the slot (sym), so   *)
(* that a record is one struct xran_rx_packet_ctl.  Slots count from frame 0 *)
(* on; time is the timing thread's, in symbols.                              *)
EXTENDS Integers, FiniteSets

CONSTANTS
    Mbufs,          \* bound: the pool of packet buffers
    None,           \* null
    N,              \* XRAN_NUM_OF_SYMBOL_PER_SLOT
    Syms,           \* bound: the symbols that can be followed
    BufLen,         \* XRAN_N_FE_BUF_LEN
    MaxPkt,         \* XRAN_MAX_RX_PKT_PER_SYM
    SecSlots,       \* slots in a second, 100 frames
    SfnSlots,       \* slots in xran_max_frame + 1 frames
    WrapSlots,      \* slots in 256 frames, what a packet's frame number tells
    Lb, Ub,         \* sym_up_ul_lb, sym_up_ul_ub
    Slack,          \* bound: symbols the workers take for a packet or a callback
    MaxLate         \* bound: symbols a packet can be late

ASSUME RxAssumption ==
    /\ {N, BufLen, MaxPkt, SecSlots, SfnSlots, WrapSlots, Ub} \subseteq Nat \ {0}
    /\ {Lb, Slack, MaxLate} \subseteq Nat
    /\ None \notin Mbufs
    /\ Syms \subseteq 0..(N - 1)
    /\ Lb <= Ub

\* What the window check needs to tell an early packet from a late one over the
\* wrap of the frame number: the window is no longer than a slot, no packet is
\* nearly 256 frames late and the SFN counts whole turns of 256 frames (not so
\* with an xran_max_frame of 99).
WindowFits ==
    /\ Ub <= N /\ WrapSlots > 2
    /\ MaxLate <= (WrapSlots - 1) * N
    /\ \E turns \in 1..SfnSlots : SfnSlots = WrapSlots * turns

\* What keeps the two workers off each other's records, which no lock does: a worker
\* is done within a slot, the records outlast a slot's window, its time with the PHY
\* and the callback, the SFN counts whole turns of them, and no packet is so late that
\* a clock read while the second changes makes it seem in time.
RecordsLast ==
    /\ Ub < N /\ Slack < N /\ SecSlots > 1
    /\ BufLen * N > 2 * N + Ub + Slack
    /\ \E turns \in 1..SfnSlots : SfnSlots = BufLen * turns
    /\ MaxLate <= (WrapSlots - 1 - SecSlots) * N

\* The numbers of slots that share a record are told apart: there are more slots than
\* records.
SlotsOutnumber == SfnSlots > BufLen

VARIABLES
    (* the timing thread *)
    sfnSecStart,    \* xran_SFN_at_Sec_Start, in slots
    symIdx,         \* xran_lib_ota_sym_idx_mu
    rolling,        \* the second has begun, symIdx is not yet reset
    (* the records, by slot modulo BufLen and packet *)
    nRxPkt, pData, pCtrl,
    (* the workers *)
    rx,             \* the receiving worker and its locals
    cb,             \* the callback's worker and its locals
    phySlot,        \* the slot last reported to the PHY, or NoSlot
    (* modes, fixed at the start *)
    sym,            \* the symbol followed
    dropPacketsUp,  \* packets outside their window are dropped
    bbu,            \* the application is app_bbu_main, not app_io_fh_xran
    (* history *)
    life,           \* what each mbuf is to the library
    slotOf          \* the slot an mbuf in use belongs to, else 0

clockVars == <<sfnSecStart, symIdx, rolling>>
recordVars == <<nRxPkt, pData, pCtrl>>
modeVars == <<sym, dropPacketsUp, bbu>>
mbufVars == <<life, slotOf>>
vars == <<clockVars, recordVars, rx, cb, phySlot, modeVars, mbufVars>>

Bufs == 0..(BufLen - 1)
Entries == 0..(MaxPkt - 1)
Slots == 0..(SfnSlots - 1)
NoSlot == -1

Idle == [pc |-> "idle", m |-> None, slot |-> 0, first |-> TRUE,
         batch |-> FALSE, idx |-> 0, at |-> 0, n |-> 0, ticks |-> 0]
CbIdle == [pc |-> "idle", slot |-> 0, i |-> 0, ticks |-> 0]

RxStates ==
    [pc : {"idle", "clock", "count", "publish", "replace", "fill"},
     m : Mbufs \cup {None}, slot : Slots, first : BOOLEAN, batch : BOOLEAN,
     idx : 0..(SecSlots * N - 1), at : 0..(SfnSlots * N - 1), n : Entries,
     ticks : 0..Slack]
CbStates ==
    [pc : {"idle", "armed", "free", "clear", "zero"}, slot : Slots, i : 0..MaxPkt,
     ticks : 0..Slack]

TypeOK ==
    /\ sfnSecStart \in Slots /\ symIdx \in 0..(SecSlots * N - 1) /\ rolling \in BOOLEAN
    /\ nRxPkt \in [Bufs -> 0..MaxPkt]
    /\ pData \in [Bufs -> [Entries -> Mbufs \cup {None}]]
    /\ pCtrl \in [Bufs -> [Entries -> Mbufs \cup {None}]]
    /\ rx \in RxStates /\ cb \in CbStates
    /\ phySlot \in Slots \cup {NoSlot}
    /\ sym \in Syms /\ dropPacketsUp \in BOOLEAN /\ bbu \in BOOLEAN
    /\ life \in [Mbufs -> {"free", "rx", "held", "done"}] /\ slotOf \in [Mbufs -> Slots]

Init ==
    /\ sfnSecStart = 0 /\ symIdx = 0 /\ rolling = FALSE
    /\ nRxPkt = [b \in Bufs |-> 0]
    /\ pData = [b \in Bufs |-> [e \in Entries |-> None]] /\ pCtrl = pData
    /\ rx = Idle /\ cb = CbIdle /\ phySlot = NoSlot
    /\ sym \in Syms /\ dropPacketsUp \in BOOLEAN /\ bbu \in BOOLEAN
    /\ life = [m \in Mbufs |-> "free"] /\ slotOf = [m \in Mbufs |-> 0]

-----------------------------------------------------------------------------
(* The timing thread. *)

\* The symbol on the air.
Now == (sfnSecStart * N + (IF rolling THEN 0 ELSE symIdx)) % (SfnSlots * N)

\* Symbols since the symbol of a packet of this slot.
Late(slot, at) == (at - (slot * N + sym)) % (SfnSlots * N)

\* deadline_slot_advance[XRAN_SLOT_FULL_CB]
SlotAdvance == IF Ub > N THEN Ub \div N ELSE 0

\* The callback of the first symbol after the window of a slot's last symbol.
DeadlineSym == Ub % N

\* The slot before the first is not taken round.
FullSlotPlain(idx) == sfnSecStart + idx \div N - 1 - SlotAdvance
\* The slot that rx_ul_deadline_full_cb reports, armed in symbol idx.
FullSlot(idx) ==
    (sfnSecStart + idx \div N + SfnSlots - 1 - SlotAdvance) % SfnSlots

\* A worker needs no more than Slack symbols for what it has begun.
WorkersKeepUp ==
    /\ rx.pc # "idle" => rx.ticks < Slack
    /\ cb.pc # "idle" => cb.ticks < Slack
Aged(worker) == [worker EXCEPT !.ticks = IF worker.pc = "idle" THEN 0 ELSE @ + 1]

\* Symbol idx begins; its callback is armed, runs on another core and is done
\* before the next slot's is armed.
SymbolBegins(idx) ==
    /\ symIdx' = idx
    /\ rx' = IF rolling THEN rx ELSE Aged(rx)
    /\ IF idx % N = DeadlineSym
       THEN /\ cb.pc = "idle"
            /\ cb' = [CbIdle EXCEPT !.pc = "armed", !.slot = FullSlot(idx)]
       ELSE cb' = IF rolling THEN cb ELSE Aged(cb)

\* xran_timingsource_poll_next_tick, the same second
NextSymbol ==
    /\ ~rolling /\ symIdx + 1 < SecSlots * N /\ WorkersKeepUp
    /\ SymbolBegins(symIdx + 1)
    /\ UNCHANGED <<sfnSecStart, rolling, phySlot, recordVars, modeVars, mbufVars>>

\* A new second: xran_updateSfnSecStart first ...
NewSecond ==
    /\ ~rolling /\ symIdx + 1 = SecSlots * N /\ WorkersKeepUp
    /\ sfnSecStart' = (sfnSecStart + SecSlots) % SfnSlots
    /\ rolling' = TRUE
    /\ rx' = Aged(rx) /\ cb' = Aged(cb)
    /\ UNCHANGED <<symIdx, phySlot, recordVars, modeVars, mbufVars>>

\* ... then the counters
ResetCounters ==
    /\ rolling
    /\ rolling' = FALSE
    /\ SymbolBegins(0)
    /\ UNCHANGED <<sfnSecStart, phySlot, recordVars, modeVars, mbufVars>>

-----------------------------------------------------------------------------
(* The receiving worker. *)

Buf == rx.slot % BufLen

\* The network delivers a packet of one or two sections, as late as it likes
\* when late packets are dropped, else before its slot's record is emptied.
Delivered(slot) ==
    Late(slot, Now) <= (IF dropPacketsUp THEN MaxLate ELSE N + Ub - Slack)

\* xran_handle_rx_pkts up to the load of the symbol counter
Receive(m, slot) ==
    /\ rx.pc = "idle" /\ life[m] = "free" /\ Delivered(slot)
    /\ rx' = [Idle EXCEPT !.pc = "clock", !.m = m, !.slot = slot, !.idx = symIdx, !.at = Now]
    /\ life' = [life EXCEPT ![m] = "rx"]
    /\ slotOf' = [slotOf EXCEPT ![m] = slot]
    /\ UNCHANGED <<clockVars, recordVars, cb, phySlot, modeVars>>

\* otaTti after the load of the second's frame number
OtaTti == (sfnSecStart + rx.idx \div N) % WrapSlots
PktTti == rx.slot % WrapSlots
\* The clock taken as it is.
OtaSymIdxPlain == OtaTti * N + (rx.idx % N)
\* otaSymIdx: a clock in the first slot of 256 frames is moved behind a packet of
\* any other slot.
OtaSymIdx ==
    (IF OtaTti = 0 /\ PktTti # 0 THEN WrapSlots ELSE OtaTti) * N + (rx.idx % N)

\* xran_rx_timing_window_check, of an O-DU
OnTime ==
    /\ PktTti * N + sym + Ub >= OtaSymIdx
    /\ PktTti * N + sym + Lb <= OtaSymIdx

\* The packet is not kept: MBUF_FREE.
Drop ==
    /\ rx' = Idle
    /\ life' = [life EXCEPT ![rx.m] = "free"]
    /\ slotOf' = [slotOf EXCEPT ![rx.m] = 0]
    /\ UNCHANGED recordVars

\* process_mbuf up to the PRB check, which may refuse any packet, as may the checks
\* of the carrier, the numerology and the lengths.  One of a batch
\* of sixteen data packets is treated like any other up to here.
CheckWindow ==
    /\ rx.pc = "clock"
    /\ \/ Drop
       \/ /\ OnTime \/ ~dropPacketsUp
          /\ rx' = [rx EXCEPT !.pc = "count", !.idx = 0]
          /\ UNCHANGED <<recordVars, mbufVars>>

\* The end of a section that is not linked: of the first, the packet is freed; of
\* the second, it stays with the first.
GiveUp ==
    IF rx.first THEN Drop
    ELSE /\ rx' = Idle
         /\ UNCHANGED <<recordVars, mbufVars>>

Room(b) == nRxPkt[b] < MaxPkt

\* xran_process_rx_sym and the batch: the section's checks and its place
TakePlace ==
    /\ rx.pc = "count"
    /\ \/ GiveUp
       \/ /\ Room(Buf)
          /\ \E batch \in IF rx.first THEN BOOLEAN ELSE {rx.batch} :
                rx' = [rx EXCEPT !.pc = IF batch THEN "replace" ELSE "publish",
                                 !.batch = batch, !.n = nRxPkt[Buf]]
          /\ UNCHANGED <<recordVars, mbufVars>>

\* The packet had one section, or its second follows.
SectionDone ==
    \/ rx' = Idle
    \/ rx.first /\ rx' = [rx EXCEPT !.pc = "count", !.first = FALSE]

\* nRxPkt counts the entry: before it is filled, but in a batch after.
Publish ==
    /\ rx.pc = "publish"
    /\ nRxPkt' = [nRxPkt EXCEPT ![Buf] = rx.n + 1]
    /\ IF rx.batch THEN SectionDone ELSE rx' = [rx EXCEPT !.pc = "replace"]
    /\ UNCHANGED <<pData, pCtrl, mbufVars>>

\* The mbuf that the entry held is forgotten.
KeepOld == UNCHANGED mbufVars
\* rte_pktmbuf_free of the mbuf of the entry's last use
FreeOld ==
    LET old == pCtrl[Buf][rx.n] IN
    IF old = None THEN UNCHANGED mbufVars
    ELSE /\ life' = [life EXCEPT ![old] = "free"]
         /\ slotOf' = [slotOf EXCEPT ![old] = 0]

Replace ==
    /\ rx.pc = "replace"
    /\ FreeOld
    /\ rx' = [rx EXCEPT !.pc = "fill"]
    /\ UNCHANGED recordVars

\* The entry: pData of any section, pCtrl of the first only.  The two stores are one
\* step, and packets of a batch come one by one: WorkersKeepUp bounds the time
\* from the check to the last store, in which no callback empties the record.
Fill ==
    /\ rx.pc = "fill"
    /\ pData' = [pData EXCEPT ![Buf][rx.n] = rx.m]
    /\ pCtrl' = [pCtrl EXCEPT ![Buf][rx.n] = IF rx.first THEN rx.m ELSE None]
    /\ life' = [life EXCEPT ![rx.m] = "held"]
    /\ IF rx.batch THEN rx' = [rx EXCEPT !.pc = "publish"] ELSE SectionDone
    /\ UNCHANGED <<nRxPkt, slotOf>>

ProcessMbuf ==
    /\ CheckWindow \/ TakePlace \/ Publish \/ Replace \/ Fill
    /\ UNCHANGED <<clockVars, cb, phySlot, modeVars>>

-----------------------------------------------------------------------------
(* The callback's worker. *)

\* The record of the slot reported.
ReportedBuf(slot) == slot % BufLen
\* ntti: the application empties the record of the slot before the one reported.
EmptiedBuf(slot) == (slot + BufLen - 1) % BufLen

\* rx_ul_deadline_full_cb and the application's callback up to the loops: the PHY
\* is given the slot (test_func_gen).
Report ==
    /\ cb.pc = "armed"
    /\ phySlot' = cb.slot
    /\ cb' = [cb EXCEPT !.pc = IF bbu THEN "free" ELSE "zero"]
    /\ UNCHANGED <<recordVars, mbufVars>>

\* app_io_xran_fh_bbu_rx_callback: the loop over the packets
FreeNext ==
    /\ cb.pc = "free"
    /\ LET b == EmptiedBuf(cb.slot)
           mb == pCtrl[b][cb.i] IN
       IF cb.i >= nRxPkt[b]
       THEN /\ cb' = [cb EXCEPT !.pc = "zero"]
            /\ UNCHANGED mbufVars
       ELSE IF mb = None
       THEN /\ cb' = [cb EXCEPT !.i = @ + 1]
            /\ UNCHANGED mbufVars
       ELSE /\ life' = [life EXCEPT ![mb] = "free"]
            /\ slotOf' = [slotOf EXCEPT ![mb] = 0]
            /\ cb' = [cb EXCEPT !.pc = "clear"]
    /\ UNCHANGED <<phySlot, recordVars>>

ClearFreed ==
    /\ cb.pc = "clear"
    /\ LET b == EmptiedBuf(cb.slot) IN
       /\ pCtrl' = [pCtrl EXCEPT ![b][cb.i] = None]
       /\ pData' = [pData EXCEPT ![b][cb.i] = None]
    /\ cb' = [cb EXCEPT !.pc = "free", !.i = @ + 1]
    /\ UNCHANGED <<phySlot, nRxPkt, mbufVars>>

\* The mbufs the record still owns; app_io_fh_xran leaves them to their next use.
Owned(b) == {pCtrl[b][e] : e \in Entries} \ {None}

\* The packets stay counted.
KeepCount(b) == nRxPkt[b]
\* The count that the callback leaves.
EmptyCount(b) == 0

\* The end of both applications' callbacks.
Empty ==
    /\ cb.pc = "zero"
    /\ LET b == EmptiedBuf(cb.slot) IN
       /\ nRxPkt' = [nRxPkt EXCEPT ![b] = EmptyCount(b)]
       /\ life' = [m \in Mbufs |-> IF m \in Owned(b) THEN "done" ELSE life[m]]
       /\ slotOf' = [m \in Mbufs |-> IF m \in Owned(b) THEN 0 ELSE slotOf[m]]
    /\ cb' = CbIdle
    /\ UNCHANGED <<phySlot, pData, pCtrl>>

FullSlotCallback ==
    /\ Report \/ FreeNext \/ ClearFreed \/ Empty
    /\ UNCHANGED <<clockVars, rx, modeVars>>

-----------------------------------------------------------------------------
Next ==
    \/ NextSymbol \/ NewSecond \/ ResetCounters
    \/ \E m \in Mbufs, slot \in Slots : Receive(m, slot)
    \/ ProcessMbuf
    \/ FullSlotCallback

Spec == Init /\ [][Next]_vars

-----------------------------------------------------------------------------
(* Properties. *)

\* Entries that own mbuf m; one that FreeNext or Replace has freed, and that is
\* not yet cleared or filled, does no more.
Owners(m) ==
    ({be \in Bufs \X Entries : pCtrl[be[1]][be[2]] = m}
       \ (IF cb.pc = "clear" THEN {<<EmptiedBuf(cb.slot), cb.i>>} ELSE {}))
       \ (IF rx.pc = "fill" THEN {<<Buf, rx.n>>} ELSE {})

\* No packet buffer is leaked, linked twice or freed while it is linked, whatever
\* order records are refilled, emptied and reused in: an mbuf in the pool is in no
\* entry, one that the worker has not linked yet is in none, and any other is
\* owned by exactly one entry.
MbufHasOneOwner ==
    \A m \in Mbufs :
       CASE life[m] = "free" -> Owners(m) = {}
         [] life[m] = "rx" -> Owners(m) = {} /\ rx.m = m
         [] OTHER -> Cardinality(Owners(m)) = 1

\* Packets of different slots are never counted together: when neither worker is
\* at it, what a record counts was received for one slot, since that slot began;
\* provided no packet is later than Delivered lets it be, which the library sees
\* to with dropPacketsUp and the network without it.
RecordsArePure ==
    \A b \in Bufs :
       (rx.pc # "idle" /\ Buf = b) \/ cb.pc # "idle" \/
       \E s \in {t \in Slots : t % BufLen = b} :
          \A e \in Entries : e < nRxPkt[b] =>
             pData[b][e] # None /\ life[pData[b][e]] = "held" /\ slotOf[pData[b][e]] = s

\* What the PHY has been given is complete: every packet kept for the slot is
\* counted, and every entry counted is a packet of the slot that is not freed,
\* except the packet of a worker that the end of the symbol, or of the packet's
\* window, overtook.
PhyReadsItsSlot ==
    phySlot # NoSlot =>
       LET b == ReportedBuf(phySlot)
           overtaken == /\ rx.pc # "idle" /\ rx.slot = phySlot
                        /\ rx.ticks > 0 \/ Late(rx.slot, rx.at) > Ub IN
       /\ \A e \in Entries :
             e < nRxPkt[b] /\ ~(overtaken /\ e = rx.n) =>
                pData[b][e] # None /\ life[pData[b][e]] = "held"
                /\ slotOf[pData[b][e]] = phySlot
       /\ \A m \in Mbufs :
             life[m] = "held" /\ slotOf[m] = phySlot /\ ~(overtaken /\ rx.m = m) =>
                \E e \in Entries : e < nRxPkt[b] /\ pCtrl[b][e] = m

\* The window check accepts a packet if and only if it came between Lb and Ub
\* symbols after its own, over the second, the 256 frames of a packet's frame
\* number and the frames of the SFN, whenever the two loads of the clock gave a
\* moment it has shown.
WindowExact ==
    rx.pc = "clock" /\ OtaTti * N + (rx.idx % N) = rx.at % (WrapSlots * N) =>
       (OnTime <=> Late(rx.slot, rx.at) \in Lb..Ub)

-----------------------------------------------------------------------------
(* The mailboxes. *)

\* The packet is owned by an entry that its slot's record counts.
Counted(m) ==
    LET b == slotOf[m] % BufLen IN \E e \in Entries : e < nRxPkt[b] /\ pCtrl[b][e] = m

\* Where an mbuf is; linked and not yet counted, it is still on its way.
Place(m) ==
    CASE life[m] = "free" -> "pool"
      [] life[m] = "done" -> "spent"
      [] life[m] = "held" /\ Counted(m) -> "mail"
      [] OTHER -> "carried"

\* The slot last reported; the first to be is the last before frame 0.
Given == IF phySlot = NoSlot THEN SfnSlots - 2 ELSE phySlot

Box == INSTANCE XranMailbox WITH
          place <- [m \in Mbufs |-> Place(m)], slot <- slotOf, given <- Given,
          Reach <- BufLen - 1

\* The records implement the mailboxes: the PHY is given every slot, in order; a packet
\* is counted for a slot only until the PHY is done with it; the callback takes packets
\* of the slot before and no others, and leaves none of it when the next slot is given;
\* what the next use of an entry frees is in no mailbox.
ImplementsMailbox == Box!Spec

\* No packet stays in a record beyond its slot: what is counted is of the slot with the
\* PHY, of one of the next, or of the slot before, which is being emptied.
MailIsRecent == Box!Recent
=============================================================================
