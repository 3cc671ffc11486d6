------------------------------ MODULE XranTiming ------------------------------
(* The O-RAN fronthaul library keeps time in one polling thread              *)
(* (xran_timingsource_thread) and does its slot work in callbacks that the   *)
(* thread arms as timers of worker cores.  The thread turns CLOCK_REALTIME   *)
(* into symbol, slot and frame counters, one set per numerology; the workers *)
(* read those counters whenever they get to run.                             *)
(*                                                                           *)
(* Time is counted in symbols of the highest numerology, TimerMu, within a   *)
(* second; seconds are counted modulo SecondsCycle, after which the system   *)
(* frame number at the start of a second repeats.  That a second holds       *)
(* exactly SymsPerSecond(TimerMu) ticks of the nanosecond arithmetic is      *)
(* theorem SecondHoldsItsSymbols of XranTimingProofs.  Not modelled: the     *)
(* one-way delay measurement's state, the division of symbols, NB-IoT.       *)
EXTENDS Integers, Sequences, FiniteSets

CONSTANTS
    N,                  \* N_SYM_PER_SLOT, 14
    SubframesPerFrame,  \* SUBFRAMES_PER_SYSTEMFRAME, 10
    FramesPerSecond,    \* NUM_OF_FRAMES_PER_SECOND, 100
    SfnModulus,         \* 0x3FF + 1
    MaxFrame,           \* xran_max_frame, 1023 or 99
    TimerMu,            \* numerology of the timing source, the highest in use
    Mus,                \* numerologies of the RU
    PartTimeMus,        \* numerologies that activeMUs may have inactive in a slot
    DlCpProcBurst,      \* dlCpProcBurst # 0: DL C-plane is sent when it is due
    DlCpSyms,           \* symbols of a slot on which tx_cp_dl_cb is armed
    T1aSyms,            \* T1a_max_cp_dl in symbols, per numerology
    SkipTtis,           \* skipTtiNum that the application may register
    TimeDiffs,          \* possible time_diff_nSymb, per numerology
    SecondsCycle,       \* seconds after which SFNs repeat
    MaxLag,             \* bound: symbols the timing thread may be late
    MaxPending,         \* bound: callbacks waiting for the workers
    WorkerSlack,        \* bound: symbols a callback may wait
    MaxCalls            \* bound: calls of the application

ASSUME TimingAssumption ==
    /\ {N, SubframesPerFrame, FramesPerSecond, SecondsCycle} \subseteq Nat \ {0}
    /\ N > 4 /\ N % 4 # 0     \* no two deadlines fall on the same symbol
    /\ SfnModulus \in Nat \ {0} /\ MaxFrame \in Nat
    /\ MaxFrame + 1 \in {SfnModulus, FramesPerSecond}
    /\ (SecondsCycle * FramesPerSecond) % (MaxFrame + 1) = 0
    /\ SecondsCycle > 2
    /\ TimerMu \in 0..3 /\ TimerMu \in Mus /\ Mus \subseteq 0..TimerMu
    /\ PartTimeMus \subseteq Mus
    /\ DlCpProcBurst \in BOOLEAN /\ DlCpSyms \subseteq 0..(N - 1)
    /\ T1aSyms \in [Mus -> Nat \ {0}] /\ TimeDiffs \subseteq [Mus -> Nat]
    /\ SkipTtis \subseteq Nat
    /\ {MaxLag, MaxPending, WorkerSlack, MaxCalls} \subseteq Nat

-----------------------------------------------------------------------------
(* Frame structure. *)

\* slots_per_subframe, for the numerologies that a timing source can have
SlotsPerSubframe(mu) == <<1, 2, 4, 8>>[mu + 1]

SlotsPerFrame(mu) == SubframesPerFrame * SlotsPerSubframe(mu)
SlotsPerSecond(mu) == SlotsPerFrame(mu) * FramesPerSecond

\* xran_timingsource_get_max_ota_sym_idx
SymsPerSecond(mu) == N * SlotsPerSecond(mu)

\* xran_fs_get_max_slot: slots of one period of the system frame number.
MaxSlot(mu) == (MaxFrame + 1) * SlotsPerFrame(mu)

\* xran_updateSfnSecStart
SfnAtStartOf(sec) == (sec * FramesPerSecond) % (MaxFrame + 1)

\* XranGetFrameNum, for a slot counted from the start of a second whose SFN is sfn.
FrameNum(mu, slot, sfn) == (slot \div SlotsPerFrame(mu) + sfn) % SfnModulus

\* Slot counted from frame 0: what xran_get_slot_idx's frame, subframe and
\* slot number are put together to.
SlotOfSfnPeriod(mu, slot, sfn) ==
    FrameNum(mu, slot, sfn) * SlotsPerFrame(mu) + (slot % SlotsPerFrame(mu))

\* Symbol of numerology mu at symbol s of TimerMu.
Coarser(mu, s) == s \div SlotsPerSubframe(TimerMu - mu)

\* The thread is less than a second late.
ASSUME LagAssumption == MaxLag <= SymsPerSecond(TimerMu)

\* C-plane is sent less than a second ahead: T1a_max_cp_dl is 16 bits of us.
ASSUME LeadAssumption == \A mu \in Mus : T1aSyms[mu] < SymsPerSecond(mu)

-----------------------------------------------------------------------------
(* The nanosecond arithmetic of xran_timingsource_poll_next_tick.            *)

NsecPerSec == 1000000000
Threshold == 35     \* a tick is taken up to this early

\* interval_us * 1000 / N_SYM_PER_SLOT, a slot's microseconds being whole
IntervalNs(mu) == (1000000 \div SlotsPerSubframe(mu)) \div 14

\* fine_tuning; numerology 2 has none
FineTuning(mu) == CASE mu = 0 -> <<71428, 71429>>
                    [] mu = 1 -> <<35714, 35715>>
                    [] mu = 3 -> <<8928, 8929>>

\* What the tick numbered symCnt in its second adds to sym_acc.
Adjustment(mu, symCnt) ==
    (IF symCnt % 2 = 1 THEN FineTuning(mu)[1] ELSE FineTuning(mu)[2])
      + (IF symCnt % 13 = 0 THEN 1 ELSE 0)

\* sym_acc after n ticks of a second
SymAcc(mu, n) ==
    (n \div 2) * (FineTuning(mu)[1] + FineTuning(mu)[2])
      + (n % 2) * FineTuning(mu)[2] + (n + 12) \div 13

-----------------------------------------------------------------------------
VARIABLES
    clkSec, clkSym,     \* CLOCK_REALTIME
    lastSec, lastSym,   \* p_last_time, the symbol the thread works on
    currentSecond,      \* xran_timerCtx.current_second
    sfnSecStart,        \* xran_SFN_at_Sec_Start
    symIdx,             \* xran_lib_ota_sym_idx_mu, symbol of the second
    sym,                \* xran_lib_ota_sym_mu, symbol of a slot to process next
    tti,                \* xran_lib_ota_tti_mu of the RU
    ttiBase,            \* xran_lib_ota_tti_base
    timerCtx,           \* timer_ctx[2].tti_to_process, per numerology
    deadlineTti,        \* cb_timer_ctx[timer_get].tti_to_process, per numerology
    timeDiff,           \* time_diff_nSymb, Ta4_max in symbols, per numerology
    pc, todo,           \* where the timing thread is; numerologies still to serve
    tmState,            \* xran_timerCtx.state
    ifState, nStart,    \* xran_if_current_state; starts minus stops
    activeCcs,          \* active_nCC of the RU
    ruOpen,             \* the RU is active and its buffers are configured
    ttiCb, skipTti,     \* ttiCb and SkipTti of XRAN_CB_TTI
    firstCall,          \* first_call: the PHY is being served
    jobs,               \* armed callbacks waiting for a worker, per job type
    calls,              \* application calls made, at most MaxCalls
    aligned,            \* history: a second began with the RU served since it
                        \* was last started and had carriers activated
    disturbed,          \* history: a TTI callback ran after its slot, or a stop
    served              \* history: TTIs since first_call, those skipped for the
                        \* PHY included, modulo the period of the SFN; 0 once
                        \* disturbed

clockVars == <<clkSec, clkSym>>
tickVars == <<lastSec, lastSym, currentSecond, sfnSecStart, symIdx>>
slotVars == <<sym, tti, ttiBase, timerCtx, deadlineTti>>
threadVars == <<pc, todo, tmState>>
lifeVars == <<ifState, nStart, activeCcs, ruOpen, calls>>
phyVars == <<ttiCb, skipTti, firstCall, disturbed, served>>
vars == <<clockVars, tickVars, slotVars, threadVars, lifeVars, phyVars,
          timeDiff, jobs, aligned>>

JobTypes == {"TTI", "CP_DL", "DEADLINE"}
DeadlineKinds == {"full", "quarter", "half", "threeQuarters"}

Job(kind, mu) == [kind |-> kind, mu |-> mu, sec |-> lastSec, sym |-> lastSym]

Pending == UNION {{jobs[t][i] : i \in DOMAIN jobs[t]} : t \in JobTypes}
PendingCount == Len(jobs["TTI"]) + Len(jobs["CP_DL"]) + Len(jobs["DEADLINE"])

\* Symbols the thread is behind the clock.
Lag == IF clkSec = lastSec THEN clkSym - lastSym
       ELSE SymsPerSecond(TimerMu) - lastSym + clkSym

Age(job) == ((lastSec - job.sec) % SecondsCycle) * SymsPerSecond(TimerMu)
              + lastSym - job.sym

\* Slot of the second, and symbol of it, that the counters stand at.
OtaSlot(mu) == symIdx[mu] \div N
OtaSymbol(mu) == symIdx[mu] % N
Due(mu) == OtaSymbol(mu) = sym[mu]

SlotOf(job) == Coarser(job.mu, job.sym) \div N
InItsSlot(job) == lastSec = job.sec /\ OtaSlot(job.mu) = SlotOf(job)

-----------------------------------------------------------------------------
(* The deadline callbacks of xran_timing_create_cbs: symbols after the       *)
(* start of a slot, on which symbol of a slot each is armed, and how many    *)
(* slots back the slot it reports lies (deadline_slot_advance, and the one   *)
(* more of rx_ul_deadline_full_cb).                                          *)

DeadlineOffset(kind, mu) ==
    timeDiff[mu] + CASE kind = "full"          -> 0
                     [] kind = "quarter"       -> 1 * (N \div 4)
                     [] kind = "half"          -> N \div 2
                     [] kind = "threeQuarters" -> 4 * (N \div 4)

DeadlineSym(kind, mu) == DeadlineOffset(kind, mu) % N

SlotAdvance(kind, mu) ==
    LET offset == DeadlineOffset(kind, mu) IN
    IF offset > N \/ kind = "threeQuarters" THEN offset \div N ELSE 0

\* MUTANT of ReportedSlot: the full-slot deadline reports the slot in which it fires
ReportedSlotCurrent(kind, mu) ==
    (deadlineTti[mu] + MaxSlot(mu) - SlotAdvance(kind, mu)) % MaxSlot(mu)

\* slotiId that rx_ul_deadline_*_cb hands to the PHY.
ReportedSlot(kind, mu) ==
    (deadlineTti[mu] + MaxSlot(mu) - (IF kind = "full" THEN 1 ELSE 0)
        - SlotAdvance(kind, mu)) % MaxSlot(mu)

\* MUTANT of DlCpSlots: the slot on the air is left out
DlCpSlotsNextOnly(mu) == {timerCtx[mu][1 - (tti[mu] % 2)] % MaxSlot(mu)}

\* The slots whose DL C-plane tx_cp_dl_cb looks at: the next one and, unless
\* each callback sends its share of that one, the one on the air.
DlCpSlots(mu) ==
    LET next == timerCtx[mu][1 - (tti[mu] % 2)]
    IN  {next % MaxSlot(mu)}
          \cup (IF DlCpProcBurst THEN {(next + MaxSlot(mu) - 1) % MaxSlot(mu)} ELSE {})

\* xran_check_cp_dl_sym_to_send, for what starts at symbol q of a slot.
DlCpDue(mu, slot, q) ==
    symIdx[mu] + T1aSyms[mu] = (IF slot = 0 THEN MaxSlot(mu) ELSE slot) * N + q

\* get_f_sf_slot: the slot as the message names it (with all of the SFN's bits,
\* of which eCPRI carries 8).
NamedSlot(mu, slot) ==
    ((FrameNum(mu, slot, sfnSecStart) + (IF slot = 0 THEN FramesPerSecond ELSE 0))
        % SfnModulus) * SlotsPerFrame(mu) + (slot % SlotsPerFrame(mu))

\* The slots and start symbols whose DL C-plane tx_cp_dl_cb sends when it runs.
\* Without the burst any start symbol of the slot may be among its share.
SentDlCp(mu) ==
    {<<NamedSlot(mu, d[1]), d[2]>> :
        d \in {x \in DlCpSlots(mu) \X (0..(N - 1)) :
                  DlCpProcBurst => DlCpDue(mu, x[1], x[2])}}

\* MUTANT of AtLastSlotOfSfn: the first slot of the last frame
AtFirstSlotOfLastFrame ==
    /\ FrameNum(TimerMu, OtaSlot(TimerMu), sfnSecStart) = MaxFrame
    /\ OtaSlot(TimerMu) % SlotsPerFrame(TimerMu) = 0

\* tti_to_phy_cb: the last slot of the frame numbered xran_max_frame.
AtLastSlotOfSfn ==
    /\ FrameNum(TimerMu, OtaSlot(TimerMu), sfnSecStart) = MaxFrame
    /\ OtaSlot(TimerMu) % SlotsPerFrame(TimerMu) = SlotsPerFrame(TimerMu) - 1

-----------------------------------------------------------------------------
(* The thread starts at the top of a second and has made its first reading   *)
(* of the clock, with the RU open and nothing started.                       *)
Init ==
    /\ clkSec \in 0..(SecondsCycle - 1) /\ clkSym = 0
    /\ lastSec = clkSec /\ lastSym = 0
    /\ currentSecond = clkSec /\ sfnSecStart = 0
    /\ symIdx = [mu \in Mus |-> 0]
    /\ sym = [mu \in Mus |-> 0] /\ tti = [mu \in Mus |-> 0] /\ ttiBase = 0
    /\ timerCtx = [mu \in Mus |-> [i \in 0..1 |-> 0]]
    /\ deadlineTti = [mu \in Mus |-> 0]
    /\ timeDiff \in TimeDiffs
    /\ pc = "poll" /\ todo = {} /\ tmState = "RUN"
    /\ ifState = "INIT" /\ nStart = 0 /\ activeCcs = 1 /\ ruOpen = TRUE
    /\ firstCall = FALSE
    /\ ttiCb \in BOOLEAN /\ skipTti \in (IF ttiCb THEN SkipTtis ELSE {0})
    /\ jobs = [t \in JobTypes |-> <<>>]
    /\ calls = 0
    /\ aligned = FALSE /\ disturbed = FALSE /\ served = 0

\* Only the poll reads the clock, so the time that the rest of an iteration
\* takes passes here, at the poll that follows.
ClockAdvance ==
    /\ pc = "poll" /\ Lag < MaxLag
    /\ IF clkSym + 1 < SymsPerSecond(TimerMu)
         THEN clkSym' = clkSym + 1 /\ clkSec' = clkSec
         ELSE clkSym' = 0 /\ clkSec' = (clkSec + 1) % SecondsCycle
    /\ UNCHANGED <<tickVars, slotVars, threadVars, lifeVars, phyVars, timeDiff,
                   jobs, aligned>>

-----------------------------------------------------------------------------
(* The timing thread. *)

\* Bound: a callback waits less than WorkerSlack symbols for its worker.
WorkersKeepUp == \A job \in Pending : Age(job) < WorkerSlack

\* xran_timingsource_poll_next_tick, with a new second: the counters restart
\* and the symbols left of the old second, if any, are skipped.
PollNewSecond ==
    /\ pc = "poll" /\ clkSec # currentSecond /\ WorkersKeepUp
    /\ currentSecond' = clkSec
    /\ sfnSecStart' = SfnAtStartOf(clkSec)
    /\ sym' = [mu \in Mus |-> 0] /\ symIdx' = [mu \in Mus |-> 0]
    /\ tti' = [mu \in Mus |-> 0] /\ ttiBase' = 0
    /\ lastSec' = clkSec /\ lastSym' = 0
    /\ pc' = "dispatch"
    /\ aligned' = (ifState = "RUNNING" /\ activeCcs > 0 /\ ruOpen)
    /\ UNCHANGED <<clockVars, timerCtx, deadlineTti, todo, tmState, lifeVars,
                   phyVars, timeDiff, jobs>>

\* MUTANT of NextSymIdx: the index wraps one symbol early
NextSymIdxEarly == IF symIdx[TimerMu] >= SymsPerSecond(TimerMu) - 2
                     THEN 0 ELSE symIdx[TimerMu] + 1

\* XranIncrementSymIdx
NextSymIdx == IF symIdx[TimerMu] >= SymsPerSecond(TimerMu) - 1
                THEN 0 ELSE symIdx[TimerMu] + 1

\* xran_timingsource_poll_next_tick within the second: one symbol, however
\* late the thread is.
PollSymbol ==
    /\ pc = "poll" /\ clkSec = currentSecond /\ Lag > 0 /\ WorkersKeepUp
    /\ symIdx' = [mu \in Mus |-> Coarser(mu, NextSymIdx)]
    /\ lastSym' = lastSym + 1
    /\ pc' = "dispatch"
    /\ UNCHANGED <<clockVars, lastSec, currentSecond, sfnSecStart, slotVars,
                   todo, tmState, lifeVars, phyVars, timeDiff, jobs, aligned>>

\* The thread polls again, or leaves once it has been told to stop.
Loop == IF tmState = "RUN" THEN pc' = "poll" /\ tmState' = tmState
        ELSE pc' = "exit" /\ tmState' = "EXIT"

\* The body of xran_timingsource_thread's loop after the poll, with tti_ota_cb.
Dispatch ==
    /\ pc = "dispatch" /\ ifState = "RUNNING"
    /\ IF Due(TimerMu) /\ OtaSymbol(TimerMu) = 0
         THEN /\ IF ttiCb
                   THEN /\ PendingCount < MaxPending
                        /\ jobs' = [jobs EXCEPT !["TTI"] = Append(@, Job("tti", TimerMu))]
                   ELSE jobs' = jobs
              /\ ttiBase' = IF ttiBase + 1 >= MaxSlot(TimerMu) THEN 0 ELSE ttiBase + 1
         ELSE UNCHANGED <<jobs, ttiBase>>
    /\ todo' = IF ruOpen /\ activeCcs > 0 THEN {mu \in Mus : Due(mu)} ELSE {}
    /\ pc' = "symbols"
    /\ UNCHANGED <<clockVars, tickVars, sym, tti, timerCtx, deadlineTti, tmState,
                   lifeVars, phyVars, timeDiff, aligned>>

DispatchIdle ==
    /\ pc = "dispatch" /\ ifState # "RUNNING"
    /\ Loop
    /\ UNCHANGED <<clockVars, tickVars, slotVars, todo, lifeVars, phyVars,
                   timeDiff, jobs, aligned>>

\* sym_ota_cb: at symbol 0 the two-entry tti context is written and the slot
\* counter moves on.  Then, if activeMUs has the numerology active in the slot
\* (the application's choice), the callbacks registered for the symbol are
\* armed, which xran_timer_arm_* do only while the interface runs.
StartSlot(mu) ==
    /\ timerCtx' = [timerCtx EXCEPT ![mu] =
          [i \in 0..1 |-> IF i = 1 - (tti[mu] % 2) THEN tti[mu] ELSE tti[mu] + 1]]
    /\ tti' = [tti EXCEPT ![mu] = IF @ + 1 >= MaxSlot(mu) THEN 0 ELSE @ + 1]

ArmedDeadlines(mu) == {k \in DeadlineKinds : DeadlineSym(k, mu) = OtaSymbol(mu)}

ArmSymbol(mu) ==
    /\ PendingCount + Cardinality(ArmedDeadlines(mu))
         + (IF OtaSymbol(mu) \in DlCpSyms THEN 1 ELSE 0) <= MaxPending
    /\ deadlineTti' = [deadlineTti EXCEPT ![mu] =
           IF ArmedDeadlines(mu) = {} THEN @
           ELSE SlotOfSfnPeriod(mu, OtaSlot(mu), sfnSecStart)]
    /\ jobs' = IF ifState # "RUNNING" THEN jobs ELSE
         [jobs EXCEPT
            !["CP_DL"] = IF OtaSymbol(mu) \in DlCpSyms
                           THEN Append(@, Job("cpDl", mu)) ELSE @,
            !["DEADLINE"] = IF ArmedDeadlines(mu) = {} THEN @
               ELSE Append(@, Job(CHOOSE k \in ArmedDeadlines(mu) : TRUE, mu))]

SymOtaCb(mu) ==
    /\ pc = "symbols" /\ mu \in todo
    /\ todo' = todo \ {mu}
    /\ IF activeCcs > 0 /\ OtaSymbol(mu) = 0
         THEN StartSlot(mu) ELSE UNCHANGED <<timerCtx, tti>>
    /\ \E active \in (IF mu \in PartTimeMus THEN BOOLEAN ELSE {TRUE}) :
          IF activeCcs > 0 /\ active
            THEN ArmSymbol(mu) ELSE UNCHANGED <<deadlineTti, jobs>>
    /\ UNCHANGED <<clockVars, tickVars, sym, ttiBase, pc, tmState, lifeVars,
                   phyVars, timeDiff, aligned>>

\* MUTANT of AdvanceSyms: the symbol number is not brought back to 0 at the end of a slot
AdvanceSymsUnwrapped ==
    /\ pc = "symbols" /\ todo = {}
    /\ sym' = [mu \in Mus |-> IF Due(mu) THEN sym[mu] + 1 ELSE sym[mu]]
    /\ Loop
    /\ UNCHANGED <<clockVars, tickVars, tti, ttiBase, timerCtx, deadlineTti, todo,
                   lifeVars, phyVars, timeDiff, jobs, aligned>>

\* MUTANT of AdvanceSyms: every numerology moves on with every symbol of the highest one
AdvanceSymsAll ==
    /\ pc = "symbols" /\ todo = {}
    /\ sym' = [mu \in Mus |-> (sym[mu] + 1) % N]
    /\ Loop
    /\ UNCHANGED <<clockVars, tickVars, tti, ttiBase, timerCtx, deadlineTti, todo,
                   lifeVars, phyVars, timeDiff, jobs, aligned>>

\* Every numerology whose symbol was due moves on to the next symbol.
AdvanceSyms ==
    /\ pc = "symbols" /\ todo = {}
    /\ sym' = [mu \in Mus |-> IF Due(mu) THEN (sym[mu] + 1) % N ELSE sym[mu]]
    /\ Loop
    /\ UNCHANGED <<clockVars, tickVars, tti, ttiBase, timerCtx, deadlineTti, todo,
                   lifeVars, phyVars, timeDiff, jobs, aligned>>

-----------------------------------------------------------------------------
(* The workers. *)

Take(type) == /\ jobs[type] # <<>>
              /\ jobs' = [jobs EXCEPT ![type] = Tail(@)]

\* tti_to_phy_cb: once first_call is set the PHY is called, but for the first
\* SkipTti times; first_call is set in the last slot of the last frame.
TtiToPhy ==
    /\ Take("TTI")
    /\ firstCall' = (firstCall \/ (ttiCb /\ AtLastSlotOfSfn))
    /\ skipTti' = IF firstCall /\ ttiCb /\ skipTti > 0 THEN skipTti - 1 ELSE skipTti
    /\ disturbed' = (disturbed \/ ~InItsSlot(Head(jobs["TTI"])))
    /\ served' = IF disturbed' \/ ~firstCall THEN 0
                 ELSE (served + 1) % MaxSlot(TimerMu)
    /\ UNCHANGED <<clockVars, tickVars, slotVars, threadVars, lifeVars, ttiCb,
                   timeDiff, aligned>>

\* tx_cp_dl_cb sends SentDlCp.
TxCpDl ==
    /\ Take("CP_DL")
    /\ UNCHANGED <<clockVars, tickVars, slotVars, threadVars, lifeVars, phyVars,
                   timeDiff, aligned>>

\* rx_ul_deadline_*_cb hands ReportedSlot to the PHY.
RxUlDeadline ==
    /\ Take("DEADLINE")
    /\ UNCHANGED <<clockVars, tickVars, slotVars, threadVars, lifeVars, phyVars,
                   timeDiff, aligned>>

-----------------------------------------------------------------------------
(* The application. *)

Call == calls < MaxCalls /\ calls' = calls + 1

\* xran_start: the first start of all RUs makes the interface run.
XranStart ==
    /\ Call
    /\ nStart' = nStart + 1
    /\ ifState' = IF nStart = 0 THEN "RUNNING" ELSE ifState
    /\ UNCHANGED <<clockVars, tickVars, slotVars, threadVars, phyVars, activeCcs,
                   ruOpen, timeDiff, jobs, aligned>>

\* xran_stop: an RU without carriers is closed; the last stop ends the run.
XranStop ==
    /\ Call /\ ifState # "STOPPED"
    /\ nStart' = nStart - 1
    /\ ifState' = IF nStart = 1 THEN "STOPPED" ELSE ifState
    /\ ruOpen' = (ruOpen /\ activeCcs > 0)
    /\ aligned' = FALSE /\ disturbed' = TRUE /\ served' = 0
    /\ UNCHANGED <<clockVars, tickVars, slotVars, threadVars, ttiCb, skipTti,
                   firstCall, activeCcs, timeDiff, jobs>>

\* xran_timingsource_reg_tticb
RegTtiCb ==
    /\ Call /\ ifState # "RUNNING"
    /\ ttiCb' = TRUE /\ skipTti' \in SkipTtis
    /\ UNCHANGED <<clockVars, tickVars, slotVars, threadVars, ifState, nStart,
                   activeCcs, ruOpen, firstCall, disturbed, served, timeDiff,
                   jobs, aligned>>

ActivateCc ==
    /\ Call /\ activeCcs = 0 /\ activeCcs' = 1
    /\ UNCHANGED <<clockVars, tickVars, slotVars, threadVars, phyVars, ifState,
                   nStart, ruOpen, timeDiff, jobs, aligned>>

DeactivateCc ==
    /\ Call /\ activeCcs = 1 /\ activeCcs' = 0
    /\ aligned' = FALSE
    /\ UNCHANGED <<clockVars, tickVars, slotVars, threadVars, phyVars, ifState,
                   nStart, ruOpen, timeDiff, jobs>>

\* xran_timingsource_stop: the thread leaves at the end of its iteration.
TimingStop ==
    /\ Call /\ tmState = "RUN" /\ tmState' = "STOP"
    /\ UNCHANGED <<clockVars, tickVars, slotVars, pc, todo, phyVars, ifState,
                   nStart, activeCcs, ruOpen, timeDiff, jobs, aligned>>

\* xran_timingsource_start once the old thread has left, for which
\* xran_timingsource_stop has waited; while that one lives the launch of
\* another panics.  The new thread waits for the top of the next second; the
\* clock readings of the old one and SkipTti remain.
TimingStart ==
    /\ Call /\ tmState = "EXIT" /\ tmState' = "RUN"
    /\ ifState' = "INIT" /\ firstCall' = FALSE
    /\ sym' = [mu \in Mus |-> 0] /\ symIdx' = [mu \in Mus |-> 0]
    /\ tti' = [mu \in Mus |-> 0] /\ ttiBase' = 0
    /\ clkSec' = (clkSec + 1) % SecondsCycle /\ clkSym' = 0
    /\ pc' = "poll"
    /\ aligned' = FALSE /\ served' = 0
    /\ UNCHANGED <<lastSec, lastSym, currentSecond, sfnSecStart, timerCtx,
                   deadlineTti, todo, nStart, activeCcs, ruOpen, ttiCb, skipTti,
                   disturbed, timeDiff, jobs>>

-----------------------------------------------------------------------------
Next ==
    \/ ClockAdvance
    \/ PollNewSecond \/ PollSymbol
    \/ Dispatch \/ DispatchIdle
    \/ \E mu \in Mus : SymOtaCb(mu)
    \/ AdvanceSyms
    \/ TtiToPhy \/ TxCpDl \/ RxUlDeadline
    \/ XranStart \/ XranStop \/ RegTtiCb \/ ActivateCc \/ DeactivateCc
    \/ TimingStop \/ TimingStart

Spec == Init /\ [][Next]_vars

-----------------------------------------------------------------------------
(* Properties. *)

\* Every variable has its type; the counters of xran_timer.c stay in range.
TypeOK ==
    /\ {clkSec, lastSec, currentSecond} \subseteq 0..(SecondsCycle - 1)
    /\ {clkSym, lastSym} \subseteq 0..(SymsPerSecond(TimerMu) - 1)
    /\ sfnSecStart \in 0..MaxFrame
    /\ symIdx \in [Mus -> Nat] /\ sym \in [Mus -> 0..(N - 1)]
    /\ \A mu \in Mus : /\ symIdx[mu] < SymsPerSecond(mu)
                       /\ tti[mu] < MaxSlot(mu)
    /\ tti \in [Mus -> Nat] /\ ttiBase \in 0..(MaxSlot(TimerMu) - 1)
    /\ timerCtx \in [Mus -> [0..1 -> Nat]]
    /\ deadlineTti \in [Mus -> Nat] /\ timeDiff \in TimeDiffs
    /\ pc \in {"poll", "dispatch", "symbols", "exit"} /\ todo \subseteq Mus
    /\ tmState \in {"RUN", "STOP", "EXIT"}
    /\ ifState \in {"INIT", "RUNNING", "STOPPED"} /\ nStart \in Int
    /\ activeCcs \in 0..1 /\ calls \in 0..MaxCalls
    /\ {ruOpen, ttiCb, firstCall, aligned, disturbed} \subseteq BOOLEAN
    /\ skipTti \in Nat /\ served \in 0..(MaxSlot(TimerMu) - 1)
    /\ jobs \in [JobTypes -> Seq([kind : DeadlineKinds \cup {"tti", "cpDl"},
                                  mu : Mus, sec : 0..(SecondsCycle - 1),
                                  sym : 0..(SymsPerSecond(TimerMu) - 1)])]
    /\ PendingCount <= MaxPending

\* Frame and slot numbers are right at every moment because the symbol index
\* is the symbol of the second the thread has reached, and the thread is never
\* ahead of the clock: also when it is late, when it falls behind over the end
\* of a second and when it is started anew (xran_timer.c:266-336).
InStep ==
    /\ currentSecond = lastSec
    /\ \A mu \in Mus : symIdx[mu] = Coarser(mu, symIdx[TimerMu])
    /\ symIdx[TimerMu] = lastSym \/ (pc = "poll" /\ clkSec # lastSec)
    /\ clkSec = lastSec => clkSym >= lastSym

\* Between two symbols, once a second has begun with the RU being served, each
\* numerology has processed exactly the symbols up to the current one and the
\* slot counter is one past the current slot, although sym_ota_cb only counts
\* the slots whose symbol 0 it sees (xran_timer.c:578-591, xran_main.c:647-668).
CountersAgree ==
    pc = "poll" /\ aligned /\ ifState = "RUNNING" =>
        \A mu \in Mus : /\ sym[mu] = (OtaSymbol(mu) + 1) % N
                        /\ tti[mu] = (OtaSlot(mu) + 1) % MaxSlot(mu)

\* Slot number sl of second sec, counted over the period of the SFN.
TrueSlot(mu, sec, sl) ==
    (SfnAtStartOf(sec) * SlotsPerFrame(mu) + sl) % MaxSlot(mu)

\* What tx_cp_dl_cb owes the air when it runs at the current symbol: without
\* the burst the C-plane of the next slot, else what starts T1a after this
\* symbol, if that is in this slot or in the next one.  What starts in slot 0
\* of the running second is lost, see DlCpIsOnTime.
OwedDlCp(mu) ==
    LET due  == symIdx[mu] + T1aSyms[mu]
        slot == due \div N
        Air(sl) == TrueSlot(mu, currentSecond, sl)
    IN  IF ~DlCpProcBurst THEN {Air(OtaSlot(mu) + 1)} \X (0..(N - 1))
        ELSE IF slot \in {OtaSlot(mu), OtaSlot(mu) + 1} \ {0}
               THEN {<<Air(slot), due % N>>} ELSE {}

\* A DL C-plane callback that runs in the slot in which it was armed sends what
\* is due at that moment and nothing else, with the slot and frame number it
\* will have on the air, over the end of a second too (xran_main.c:647-668,
\* 1235-1264, xran_cp_proc.c:271-292, 723-739).  Two kinds of C-plane are never
\* due: what is to be sent more than a slot ahead of the next one, and in slot
\* 0 of a second what its own slot should send, since the check takes slot 0
\* for the one after the last.
DlCpIsOnTime ==
    [][TxCpDl /\ firstCall /\ aligned /\ InItsSlot(Head(jobs["CP_DL"])) =>
         LET mu == Head(jobs["CP_DL"]).mu IN SentDlCp(mu) = OwedDlCp(mu)]_vars

\* Symbols of a slot that a deadline vouches for.
Covered(kind) == CASE kind = "full"          -> N
                   [] kind = "quarter"       -> N \div 4
                   [] kind = "half"          -> N \div 2
                   [] kind = "threeQuarters" -> 3 * (N \div 4)

\* Symbols on the air since the start of the slot that the callback reports.
Elapsed(job) ==
    ((TrueSlot(job.mu, job.sec, SlotOf(job)) - ReportedSlot(job.kind, job.mu))
        % MaxSlot(job.mu)) * N + (Coarser(job.mu, job.sym) % N)

ReportsEndedWindow(job) ==
    LET due == timeDiff[job.mu] + Covered(job.kind)
    IN  Elapsed(job) \in due..(due + N - 1)

\* A deadline callback that runs in the slot in which it was armed reports the
\* slot whose covered symbols, plus Ta4_max, have just passed: never earlier,
\* and less than a slot later; except when its offset is a whole slot.
DeadlineCoversWindow ==
    [][RxUlDeadline /\ ruOpen /\ aligned =>
         LET job == Head(jobs["DEADLINE"]) IN
         InItsSlot(job) /\ DeadlineOffset(job.kind, job.mu) # N =>
            ReportsEndedWindow(job)]_vars

\* The same without the exception, as xran_dev.h:291 has it: "if CB for
\* deadline should be in next slot but reflect current slot".
DeadlineAlwaysCoversWindow ==
    [][RxUlDeadline /\ ruOpen /\ aligned =>
         LET job == Head(jobs["DEADLINE"]) IN
         InItsSlot(job) => ReportsEndedWindow(job)]_vars

\* Once first_call is set the TTI callbacks are for slot 0 of frame 0 and, one
\* by one, for the slots that follow, so the PHY's first call is for the slot
\* whose number is that of the calls skipped and none is missing after it: as
\* long as no TTI callback was late by a slot and the interface was not stopped
\* (xran_main.c:2199-2234).
TtisFollowSfn ==
    [][TtiToPhy /\ firstCall /\ ~disturbed =>
         LET job == Head(jobs["TTI"]) IN
         InItsSlot(job) => TrueSlot(TimerMu, job.sec, SlotOf(job)) = served]_vars

=============================================================================
