# Verification of o-du-phy

TLA+ models of the O-DU High PHY interface software in this repository: the
Wireless Subsystem Interface (`src/wls_lib`), the 5G FAPI translator
(`src/fapi_5g`) and the O-RAN fronthaul library (`src/fhi_lib`). The models
follow the C code; TLC checks them on small instances and TLAPS proves the
central safety properties for all values of the constants.

Every definition that stands for code names its lines in `PROJECT.json` ("map").
Constants that only bound the exploration are marked *bound* where they are
declared. `cd tla; tlc -config X.cfg M` runs configuration `X` on module `M`,
`tlapm M.tla` checks the proofs of a `*Proofs` module.

## 1. The system

```
   MAC  <-- WLS -->  fapi_5g  <-- WLS -->  L1 (closed source)  <-->  fhi_lib  <-- Ethernet --> O-RU
```

### wls_lib: shared memory between two processes

| part | state | operations | hard behaviour |
|---|---|---|---|
| message rings (`syslib.c`) | `put`, `get`, `size`, storage of handles | `WLS_MsgDefineQueue`, `WLS_MsgEnqueue`, `WLS_MsgDequeue` | one writer and one reader in different processes, no lock; the handle is four fields |
| transfer (`wls_lib_dpdk.c`) | `put_queue` and `get_queue` of each context, `dst_user_va`, `sema.is_irq`, `sema.sem` | `WLS_Put`, `WLS_Get`, `WLS_Wait`, `WLS_WGet`, `WLS_WakeUp` | full queues, wake-ups counted in two places, the peer closing meanwhile |
| sessions (`wls_lib_dpdk.c`) | the memory zone, `nWlsClients`, the table of contexts and its links | `WLS_Open*`, `WLS_Close*`, `WLS_Alloc`, `WLS_Free`, `WLS_Ready` | lookup and creation of the zone are not under the mutex; a context's index is the client count |
| free blocks, addresses | `ul_free_block_pq`, the hugepage table | `WLS_EnqueueBlock`, `WLS_DequeueBlock`, `WLS_VA2PA`, `WLS_PA2VA` | the queue has the ring's code; translation is arithmetic |

### fapi_5g: between the MAC's FAPI and the PHY's IAPI

Two worker threads, `mac2phy` and `phy2mac`, poll WLS on their own cores; with
URLLC two more process urgent lists.

| part | state | operations | hard behaviour |
|---|---|---|---|
| control plane (P5) | `phy_instance[]`: `state`, `phy_id`, `shutdown_retries` | CONFIG, START, STOP, PARAM, SHUTDOWN and their answers | both threads write the records without a lock; the stop is a chain over both threads and the PHY |
| list towards the PHY | `fapi2phy_q` head and tail | add, send | used by both threads without a lock |
| lists towards the MAC | `fapi2mac_q[]` | add header, add message, send | a header and its messages are added in different functions |
| URLLC hand-over | one slot, a mutex, two semaphores | callback, worker | started before the semaphores are initialised |
| buffers | block pool, rings of lists to free later | alloc, free, free after N TTIs | freed by time, not by use |
| configuration translation | the vendor message of CONFIG.request | TLV loop, TDD pattern, FFT size | data from the MAC |
| data plane (P7) translation | `ul_slot_info` ring | DL_TTI, UL_TTI, UL_DCI, TX_DATA, RX_DATA, CRC, UCI, RACH, SRS | field-by-field copies; the slot table is shared |
| statistics, logging, command line | counters | printing, input | none |

### fhi_lib: O-RAN fronthaul (xRAN)

| part | state | operations | hard behaviour |
|---|---|---|---|
| timer (`xran_timer.c`) | last tick, `xran_lib_ota_sym_idx_mu[]`, `xran_SFN_at_Sec_Start`, drift accumulator | poll, thread, start, stop, GPS offset | late polls, the roll-over of the second, several numerologies on one clock |
| callbacks (`xran_cb_proc.c`, `xran_main.c`) | timer rings armed by symbol, deadline callbacks | arm, fire, TTI and symbol callbacks | deadlines across slot and second boundaries |
| link supervision (`xran_ethdi.c`) | per port: `struct xran_lbm_port_info`; `nextLBMtime`, `first_call` for all | loopback messages and replies, retransmission, switching by the OAM thread | three threads on a port's record without a lock, lost and late replies, ports divided between workers |
| delay measurement (`xran_delay_measurement.c`) | one record per port: state, sequence, samples | the four eCPRI one-way delay procedures | never runs: see 4 |
| C-plane (`xran_cp_api.c`, `xran_cp_proc.c`) | section database per direction, context and antenna | store and find sections, compose and parse messages | contexts reused every few slots |
| receive (`xran_rx_proc.c`, `xran_common.c`, `xran_handle_rx_pkts`) | `xran_rx_packet_ctl` per slot (modulo 20), antenna and symbol; sequence and packet counters | parse, check the window, link; report and empty in the deadline callback | records reused without a lock, late packets, the frame number of a packet wrapping |
| transmit (`xran_tx_proc.c`, `xran_up_api.c`) | rings to worker cores, sections | compose and send per symbol | late symbols |
| device life cycle (`xran_main.c`, `xran_dev.c`) | interface state, per-port contexts, active carriers | open, start, activate, deactivate, stop, close | calls in wrong order, the timing thread reading meanwhile |
| memory manager (`xran_mem_mgr.c`) | pools per sector | init, allocate, release | limits |
| compression, Ethernet, sample application | samples, DPDK ports, test configuration | | arithmetic on samples, I/O |

## 2. The models

### WlsMsgQueue, WlsFifo

`WlsMsgQueue` is `WLS_MsgEnqueue` against `WLS_MsgDequeue`, one shared load or
store per step: read the other side's index and test, move the handle, publish
the own index. A slot being written holds `Garbage` until the last field is in.
`WlsFifo` is what a ring promises: a bounded FIFO of capacity `Size - 1`.

Properties: `SlotExclusive` (writer and reader never in one slot), `NoTornRead`,
and `ImplementsFifo`: the ring refines `WlsFifo`, the queue being the slots from
`get` to `put`. The instance has a ring of four and three messages, so both indices
wrap in every relative position. Assumes the store order of x86, which the code,
with plain volatile indices, relies on too.

### WlsTransfer

Both contexts of one interface, using the FIFOs the rings implement. The sender
(`PutHold`, `PutCommit`, `Xfer*`, `Wake*`) is `wls_put` with
`wls_process_put` and `wls_wake_up_user_thread`; the reader (`Get*`, `WGetNull`,
`Wait*`, `SemWait`, `Recheck`) is `WLS_WGet` with `wls_wait`; `WakeUp*` is
`WLS_WakeUp` from a thread of its own; `Close` is `WLS_Close` of a process that has
no call inside the library. One process has one interface: `sema_shared`
(`wls_lib_dpdk.c:249-253`, 370-376, 401-407), by which a master's second interface uses
the semaphore of its first, is left out. `is_irq` and the semaphore are separate, as are the
load, the test and the sleep. `semaWakeUp` is the mode of the interface, either
one initially.

The run `WlsTransfer` has rings of two, FIFO_LEN 1, four blocks and one
`WLS_WakeUp`: queues overflow, wake-ups saturate and tokens are left over, and
either side may close at any moment. It checks that a block is never in two
places nor lost while both are open (`ExactlyOnce`), that order holds until a
queue first overflows (`InOrderUntilOverrun`), that `is_irq` never promises what the
semaphore will not deliver (`TokensCoverWakeUps`), that no reader sleeps over a
block whose wake-up is not due (`NoLostWakeUp`), and, with weak fairness of the
reader and of calls already inside the library, that a block in a `get_queue` is
taken (`Delivered`). Nobody is obliged to put, wake or close.

### WlsSession

Opening, linking, waiting for the peer, freeing, asking for readiness and closing,
for three processes of which two are slaves (may create the zone). The table is
under `mng_mutex`, so creating and destroying a context are one step; lookup,
reservation, formatting, storing the mode and freeing the zone are steps of their
own. `OpensOverlap` FALSE keeps the opens and closes of different processes apart
(the code has no protection there: a process that finds a zone before its creator
has formatted it loses its registration); everything else interleaves.

The run `WlsSession`, two opens per process and two contexts, checks that the
client count stays in the table, that the zone outlives every client however they
close (`ZoneOutlivesClients`), and, as long as the newest context is the one that closes, that each
client keeps its context (`RegisteredInOrder`). `WlsSessionReuse`, with four contexts, drops that condition and
finds a client's context given to another: a finding.

### FapiControl

Two PHY instances, the two worker threads, the MAC and the PHY. An action is a
handler, or a part of one up to the next shared write the other thread could see
in between: `CleanId` and `CleanState` are the two writes of `nr5g_fapi_clean`,
`ParamResponse` adds before `ParamSend` sends. The MAC and the PHY are external: the
PHY answers in order, success or failure at choice (to CONFIG and SHUTDOWN any status
but success is a failure), and may tick at any time once
started; to START and STOP it may also answer with a status that the code expects
nowhere, which leaves the MAC without an answer (see 4). The MAC sends the lists of
`FapiControlMC`; a START with a mode beyond the four known is dropped like one without
the vendor message, and is not told apart from it. `careless` counts the lists a
MAC that keeps to the state machine would not have sent (without the vendor
message, while a request is outstanding, in a wrong state, or a PARAM.request) and
the answers with such a status; the run allows one, anywhere. What holds only for a
careful MAC and PHY says so (`careless = 0`). A list of the MAC has one request for each instance it is for
(`OneRequestEach`, which TLC evaluates for the lists of `FapiControlMC`).

`TypeOK` bounds the shutdown retries, `ActiveNamed` says that an instance that is
not IDLE carries its own number whatever the MAC sends, `HeaderFirst` that lists to
the MAC are well formed, `AgreesWithMac` that FAPI and the MAC agree on the state
whenever nothing is outstanding, `RequestNamesItsCarrier` that a request reaches the
PHY under its own instance's number, `Answered` that every request is answered,
`ErrorAfterAllTries` that the MAC is told of a failed shutdown after the PHY has refused
the first try and all three further ones of this stop, never earlier, and of a stop that
is done only if it did not refuse them all.
Fairness: both threads poll for ever on their cores, the MAC reads and the PHY
answers. Four lists allow a full configure, start, stop, configure cycle.

### FapiUrllc

One direction of the URLLC hand-over: receiving thread, worker, slot, mutex,
`urllc_sem_done` and `urllc_sem_process`, with the start-up order of
`nr5g_fapi_framework_init`: receiving threads first, then the semaphores, then the
workers. A receiver asleep on a semaphore that is then initialised is forgotten
(`"forgotten"`). Twelve lists are far more than the two the hand-over can hold.
Checked: a list is never stored over another (`NeverOverwritten`), lists are
processed once and in order (`InOrder`) and, with the threads running and a mutex
that is eventually granted (strong fairness of the two locks), every list is
processed unless its receiver was forgotten (`AllProcessed`).

### FapiPhyQueue

The list towards the PHY, one load or store per step. The only run is the finding
`FapiPhyQueueShared`: the two worker threads both use the list, and TLC shows a
message that is neither in the list nor sent (`ListedUntilSent`): both threads find the
list empty and store their message as tail and head, and the head stored last replaces
the other. The other orders (a message linked to a list between its put and its clear, a
tail cleared after it was tested) are steps of the model too; the counterexample needs
none of them.

### XranTiming

The timing thread of the fronthaul library (`Poll*`, `Dispatch*`, `SymOtaCb`,
`AdvanceSyms`: one iteration of `xran_timingsource_thread` cut where another core
can see a difference), the callbacks it arms on worker cores (`TtiToPhy`, `TxCpDl`,
`RxUlDeadline`) and the application's calls (`RegTtiCb`, `XranStart`, `XranStop`,
`ActivateCc`,
`DeactivateCc`, `TimingStop`, `TimingStart`). The counters have the source's names
without prefix: `symIdx`, `sym`, `tti`, `ttiBase` for `xran_lib_ota_sym_idx_mu`,
`_sym_mu`, `_tti_mu`, `_tti_base`. Time is counted in symbols of the highest
numerology. `ClockAdvance` is the clock; only the poll reads it, so time passes
there. A poll that finds a new second restarts all counters and drops the symbols
left of the old one (`PollNewSecond`), any other advances by one symbol
(`PollSymbol`). A callback keeps the moment it was armed (`Job`), and may run up to
`WorkerSlack` symbols later.

Checked: the symbol counters follow the clock however late the thread is
(`InStep`); the two counters that only count what they see, the symbol to process
and the slot, agree with it (`CountersAgree`) from the first second that begins
while the RU is served (`aligned`: before it, after a start in mid-second, they do
not); a DL C-plane callback sends what starts T1a after the symbol it runs in and
nothing else, in the slot on the air or the next one, under that slot's frame number,
also over the second (`DlCpIsOnTime`; what the code never finds due is in `OwedDlCp` and
in 4); a reception deadline
reports a slot whose symbols, plus Ta4_max, have just passed
(`DeadlineCoversWindow`); once `first_call` is set, the TTI callbacks are for slot 0 of
frame 0 and then for each slot in turn, so that after `SkipTti` calls left out the PHY is
called first for the slot of that number and misses none (`TtisFollowSfn`, until a TTI
callback is late by a slot or the interface is stopped). The callbacks' properties ask only of those that run in
the slot they were armed in, since the code reads the counters when the callback
runs. `XranTimingDeadline` drops the one exception of `DeadlineCoversWindow`: a
finding.

What `dlCpProcBurst` decides is a constant: TRUE, the callbacks of the symbols `DlCpSyms`
look at two slots and send what is due (`DlCpSlots`, `DlCpDue`); FALSE, a callback sends a
share of the next slot, and which share is not modelled. A numerology of `PartTimeMus`
may be inactive in any slot (`activeMUs`), and then arms nothing.

Bounds: slots of 5 symbols keep the four deadlines' offsets (0, 1, 2 and 4) on
different symbols, as 0, 3, 7 and 12 are of 14; two numerologies, the lower one active at
the application's choice; C-plane in burst mode, callbacks on every symbol of a slot, 3 symbols ahead in
one numerology (the slot itself and the next) and 7 in the other (the next, and beyond
it); one TTI to skip; two frames a
second and SFNs modulo 3, so that three seconds (`SecondsCycle`) are a full period
and every frame number starts a second once; the thread one symbol late, so that it drops a second's last
one; two callbacks waiting up to three symbols, so that those armed late in a slot run in
the next; three calls of the application. A thread and callbacks that are later still are
in the theorems, which hold for every bound named in section 3. `MCTimeDiffs` puts deadlines into the slot itself, the next and the
one after. The thread may have been told to leave and the calls be used up, so the
system may stop.

### XranLbm

The supervision of the fronthaul ports by loopback messages. The workers
(`ProcessLbm`, `Decide`, `SendLbm`, `EndExchange`: `xran_process_lbm` and the state
machine of a port, cut between what it decides, the notification and the store of
`linkStatus`), the receiving thread (`ParseLbr`), the O-RU (`ParseLbm`, the same
library) and the OAM thread (`OamDisable`, `OamDisabled`, `OamEnable`, `OamEnabled`:
`xran_oam_phy2xran_manage_lbm`, cut between the flag and the reset). A reset may fall
between a worker's decision and its store; `torn` marks the port then. The network
delays at will; a packet that will be lost is lost when it is sent, and `gap` says so.

Checked: the PHY knows the status of a link (`OamKnowsLink`) and a link is up only if
a reply came since the last reset (`UpIsEarned`), both unless `torn` and together
`LinkTrusted`; an LBM counts as out of order only after a loss
(`OutOfOrderMeansLoss`); and, since workers poll for ever and time passes (weak
fairness of `Tick` and of each worker, nothing else: no packet need arrive and no O-RU
need answer), an O-RU gone silent is noticed (`DeadLinkNoticed`) and an enabled port is
probed again and again (`Probed`). That a worker takes a link down only after the LBM
and all its retransmissions (`DownTakesAllRetries`) is proved and not run.

Bounds: one port, a timeout of one tick, a period of two, one retransmission: the
retransmission then also falls on the end of the next period. Identifiers modulo 2 make a
stale reply carry the identifier awaited, two packets may be under way each way.
`XranLbmRanges` has two ports, each with a worker of its own, as `process_dpdk_io_port_id`
has for more than two ports: a finding.

### XranRx, XranMailbox, XranRxMC

Reception of U-plane packets by the O-DU, for one antenna and symbol: the timing thread,
whose clock the window check reads in two loads while a new second changes it in two
stores (`NewSecond`, `ResetCounters`); the worker that receives (`Receive`,
`CheckWindow`, `TakePlace`, `Publish`, `Replace`, `Fill`: `process_mbuf` with
`xran_process_rx_sym`, which counts an entry before filling it, and
`process_mbuf_batch`, which counts it after); and the worker that runs
`rx_ul_deadline_full_cb` and the application's callback (`Report`, `FreeNext`,
`ClearFreed`, `Empty`), which gives the PHY a slot and empties the record of the slot
before. The two applications differ (`bbu`): one frees the packets, the other leaves
them to be freed at the entry's next use. `life` and `slotOf` are history: what an mbuf
is to the library, and the slot it belongs to.

Checked: an mbuf has one owner, so none leaks and none is freed twice
(`MbufHasOneOwner`); what a record counts belongs to one slot, that of its present use
(`RecordsArePure`); the PHY is given every packet of the slot and only live packets of
the slot, except one that the deadline overtook (`PhyReadsItsSlot`); the window check
accepts a packet iff Lb to Ub symbols have passed since its own, if it read a clock that
was ever shown (`WindowExact`). `TypeOK` holds the limit of packets per symbol.

What the environment owes: a worker needs at most `Slack` symbols for what it has begun;
and if `dropPacketsUp` is 0 (the default), no packet comes more than a slot and its
window late, less the slack: later ones are linked into a record that is being emptied
(see 4). With `dropPacketsUp` 1 a packet may come `MaxLate` symbols late, which is beyond
the reuse of its record.

Bounds: slots of three symbols, the first or the last followed; three records and three
mbufs, two per record, so that entries are reused while others are held; a second of two
slots and six slots of frame numbers, so that seconds and wraps meet in every way; a
window of two symbols that begins with the packet's own (`Lb` 0, so that no packet is
early: theorem `WindowIsExact` has the other windows). Mbufs are interchangeable (symmetry). Larger windows and any
frame structure: theorem `WindowIsExact`. Any number of records, packets and mbufs, under
`RecordsLast`: the theorems of XranRxProofs that follow it.

`XranMailbox` is what all this promises, without rings, counts or clocks: one mailbox per
slot. Slots are given to the PHY one after the other (`Give`); a packet is delivered to a
slot that is with the PHY or comes within the ring's length after it (`Deliver`), or is
refused; only packets of the slot before are taken back, one by one or all at once
(`TakeBack`, `CloseBox`), and all of them before the next slot is given; what the next use
of an entry frees is in no mailbox (`Recycle`). `XranRx` implements it
(`ImplementsMailbox`): an mbuf is in a mailbox when an entry that its slot's record counts
owns it (`Counted`); linked and not yet counted, it is still on its way; `app_io_fh_xran`
leaves it spent. `MailIsRecent`, proved of the mailboxes, then says of the records that
nothing stays counted beyond its slot. Both are
proved (section 3). No run of the list has them: the refinement is evaluated on every
step, and on the instance of run `XranRx` that takes TLC more than five minutes instead of one.
It was checked so before it was proved, and fails when the callback empties the record it
reports; `PROPERTY ImplementsMailbox` added to `XranRx.cfg` repeats it.

`RecordsLast` names what keeps the two workers apart, for there is no lock: the window
ends within a slot, a worker is done in less than a slot, `XRAN_N_FE_BUF_LEN` slots (20 or
10) are longer than two slots, the window and the slack together, and the frame numbers
are whole turns of the records. TLC evaluates it for the instance it checks.
`SlotsOutnumber`, that there are more slots than records, is what numbers of slots need to
be told apart, and is only used for the mailboxes.

## 3. Proofs

| module | theorem | argument |
|---|---|---|
| WlsMsgQueueProofs | `TypeCorrect`, `SlotsExclusive`, `NeverTorn` | inductive invariant: the queue is the slots from `get` to `put`; the writer's place is the free one at `put`, the reader's the one at `get`, and the pre-tests of full and empty stay true until the own index moves because only the other side makes room |
| | `RingImplementsFifo` | the same invariant, and a step of either index is an enqueue or dequeue of the abstract queue; modular arithmetic is isolated in lemmas about the successor index |
| WlsTransferProofs | `TokensCover`, `NoWakeUpLost` | `WakeInv`: what `is_irq` counts is in the semaphore, being posted, or just taken; and a reader about to sleep over a block has a non-zero `is_irq` or a sender that has not yet raised it. Neither half is inductive alone |
| | `TransferTypes`, `BlocksExactlyOnce`, `BlocksInOrder` | `OnceInv`: the places a block can be in (a queue of either context, the hands of a sender or reader) are followed as sets, and the queues hold no block twice; joining and taking from queues are lemmas about their sets |
| WlsSessionProofs | `SessionTypes`, `ZoneOutlives`, `NotShared` | for any processes and sizes, if opens and closes of different processes do not overlap (`~OpensOverlap`, the only case in which the code promises anything): the clients counted are the contexts used, a process between two steps of an open or close is the only one there, and what it has looked up is still so |
| FapiUrllcProofs | `UrllcTypeCorrect`, `SlotNeverOverwritten`, `ListsInOrder` | `UrllcInv`: exactly one permission to use the slot exists, in a semaphore or in a thread's hands |
| FapiControlProofs | `ControlTypeCorrect`, `ActiveNumbered` | for any set of instances and any lists, without any assumption on the MAC: only CONFIG.request of an IDLE instance sets its number, only the clean-up clears it, and it clears the state next |
| | `ListsWellFormed`, `ViewsAgree`, `RequestsNamed` | for a MAC whose lists have one request for each instance (`OneRequestEach`) and that has kept to the state machine so far. `CarefulInv` follows the one request an instance has under way through the places it can be in: a list of the MAC, the hands of `mac2phy`, the queue to the PHY, the PHY's answer, the handler of `phy2mac`, the list to the MAC, and what was sent to it. In each place it says what the state, the number and the MAC's view are, and that the request is nowhere else; SLOT.indications follow beside it (`Ticks`) |
| | `TriesBeforeError` | the same invariant, with `Tries`: FAPI has counted every refusal of the shutdown but the one on its way back, and counts nothing while no shutdown is under way, whatever ended the one before; a careful PHY's answers have no third status (`StatusInv`) |
| XranTimingProofs | `SymAccAccumulates`, `SecondHoldsItsSymbols`, `DriftBounded` | the closed form `SymAcc` of what the thread accumulates starts at 0 and grows by what each tick adds, which is what an induction would need; then linear arithmetic for each numerology. They justify counting time in symbols: a second has exactly its symbols, and boundaries are late by less than 8.2 us |
| | `CountersInStep` | `StepInv`: `InStep`, the ranges of the clock readings, and that the thread is behind a second only while it polls, so that the wrap-around of `XranIncrementSymIdx` is never taken: the second always changes first |
| | `TimingTypes`, `CountersMatchSymbols` | the slot and the symbol to process, counted one by one from the first second served, are the symbol counter's quotient and remainder; the slot counter is followed through the three stores of a slot's beginning |
| | `DlCpOnTime` | a callback that runs in the slot it was armed in finds the counters of that slot, so the two slots it looks at are that one and the next, and what is due in them starts where the symbol index plus T1a says; assumes that a callback is less than a second late and that the SFN has the full modulus (see 4) |
| | `DeadlinesCoverWindows` | the slot a deadline reports is the one its symbol, less the deadline's offset and slots of advance, lies in; for windows of at most a slot (`ShortWindows`) except the one of exactly a slot, the finding |
| | `TtisCountFromSfnZero` | `FirstInv`: `first_call` is set in the last slot of the last frame, and from there the slot of the TTI callback armed or next to be armed is the one counted, over the second and the wrap of the SFN (`FirstCallAssumption` bounds the lag of the thread and the waiting of a callback) |
| XranLbmProofs | `TypeCorrect`, `OamIsTold`, `LinkIsEarned`, together `LinkIsTrusted`; `DownIsPatient` | for any ports and ranges, timeouts, periods and numbers of retransmissions. What the worker has decided and not yet stored is part of the invariant: the status last told is the stored one or the one about to be; a reply flag and a link going up come from a reply; the retransmissions counted were sent, or one is about to be |
| | `OrderBrokenByLossOnly` | the messages under way of a port are consecutive unless one was lost: what the counter of the receiver expects, the packets in order, and what the sender sends next make one sequence |
| XranRxProofs | `TypeCorrect` | the entry being cleared is within the record (`EntryInRange`), which the loop's test establishes a step earlier |
| | `WindowIsExact` | if the window is no longer than a slot, the SFN counts whole turns of 256 frames and no packet is nearly 256 frames late (`WindowFits`). The clock of 256 frames is the packet's symbol plus its lateness (`ClockOfPacket`, division with remainder); then either nothing wraps, or the clock is in the first slot and is corrected, or it is beyond it and the packet is late by more than the window (`WindowArithmetic`) |
| | `MbufsHaveOneOwner` | if `WindowFits` and `RecordsLast`. `ClockInv` says at what symbol of a slot each worker can be at work, modulo the frame numbers' wrap (`Same`); a clock read while the second changes only makes a packet seem later (`OnTimeIsInWindow`). So the two are never in one record (`Apart`), and `OwnerInv` can follow each mbuf: in the pool, in the worker's hands, or owned by exactly one entry that no one has released |
| | `RecordsStayPure` | same hypotheses. A record that counts anything has one present slot, whose window or whose callback has not ended (`Timed`), and two slots of one record are never present together (`OneSlot`); what an entry counts is carried from step to step until the callback of the next slot empties it (`Carry`), and that callback empties no other record (`DueRecord`) |
| | `PhyGetsItsSlot` | same hypotheses. Besides, a linked packet counts in its slot's record or is about to (`HeldInv`), and the slot last reported is in the symbols from its window's end to the next callback (`PhyInv`); a worker still filling one of its entries has then been overtaken (`Overtaken`). While the callback is armed, the slot with the PHY is the one due to be emptied next |
| | `RecordsAreMailboxes` | same hypotheses and `SlotsOutnumber`. `BoxInv` is the invariant of the two theorems above with two facts more: an mbuf that is linked belongs to a slot that is present (`HeldTimed`), one that is not in use to none (`UnusedInv`). Under it where an mbuf is can be told without the records (`PlaceIsWhere`), so a step maps to the move of one mbuf; the worker's slot is at most the ring's length ahead of the PHY's (`WorkingAhead`), what the callback owns is of the slot before and nothing else is (`EmptiesDueSlot`, `DueOwned`), and when the next slot is given no slot before is present (`NothingLeft`) |
| | `MailStaysRecent` | an invariant of the abstract mailboxes: giving the next slot moves every other one nearer by one (`AheadNext`); it reaches the records through the refinement |

The proofs assume what the modules' ASSUMEs say of the constants; a theorem that needs
more states it as a hypothesis, named above. Only model-checked are the liveness
properties (`Delivered`, `AllProcessed`, `Answered`, `DeadLinkNoticed`, `Probed`), whose
fairness speaks of ENABLED.

## 4. Divergences met while modelling

Shown by a run: closing out of order gives a live context away
(`WlsSessionReuse`); `fapi2phy_q` is shared without a lock (`FapiPhyQueueShared`); a
reception deadline exactly one slot after its slot's start reports the slot that
is only just beginning (`XranTimingDeadline`); with ports divided between workers, a
port is never probed (`XranLbmRanges`).

Met in the source, without a run of their own:

* `WLS_Put` answers 0 also for a block that found the `put_queue` full and was dropped
  (`wls_lib.h:136-137`: 0 "if successful"; `wls_put` ignores the result of
  `WLS_MsgEnqueue`). `dropped` of WlsTransfer counts such blocks.
* `WLS_WakeUp` wakes the caller's context, not "remote peer" (`wls_lib.h:206`).
* `WLS_WGet` may return NULL on a left-over wake-up, although it "waits till next
  memory block" (`wls_lib.h:224-225`).
* `WLS_Ready` answers 0 for a ready peer, not 1 (`wls_lib.h:84-87`), and dereferences
  a null link after the peer has closed.
* A close in any pair unlinks contexts 0 and 1 (`wls_lib_dpdk.c:283-288`).
* A request in a wrong state is dropped without the ERROR.indication that
  `nr5g_fapi_internal.h:76-77` describes; a STOP.request alone, while RUNNING, fails
  the ordering check and is dropped as well.
* STOP.indication is sent with the instance IDLE, not "CONFIGURED"
  (`nr5g_fapi_proc_stop_ind.c:39-40`).
* The answer to a PARAM.request can be lost to the other thread's send.
* A START or STOP that the PHY answers with a status other than 0 and 1 gets no answer at
  all (`nr5g_fapi_proc_start_resp.c:121-125`, `nr5g_fapi_proc_stop_ind.c:128-132`): a log
  line, and the MAC waits on. `Answered` excepts it (`careless`).
* `xran_lib_ota_tti_mu` is not "set to the ota slot" (`xran_main.c:648`) but counted
  from it: started in mid-second, it is off until the next second begins.
* DL C-plane in burst mode looks at the slot on the air and the next one only
  (`xran_main.c:1245`), as its comment (1240-1244) says for a T1a of less than a slot. What
  is due further ahead is never sent; `app/usecase/cat_b/mu1_100mhz` has T1a_max_cp_dl=669,
  more than a slot of 500 us.
* `xran_cp_proc.c:728-731` takes slot 0 for the slot after the last, which is right ahead
  of the second; in slot 0 of every second itself, what its symbols from T1a on should
  send for that slot is never due, and is lost.
* A C-plane callback that runs a symbol late misses what was due in its symbol
  (`xran_cp_proc.c:733` is an equality), and the next one's is sent twice. A deadline
  callback that is overtaken by the next deadline reports that one's slot
  (`xran_cb_proc.c:107`). The properties ask only of callbacks in their slot.
* The deadline of three quarters of a slot is armed after 12 of 14 symbols
  (`xran_cb_proc.c:436-444`: `4*(N_SYM_PER_SLOT/4)`).
* `fine_tuning` of numerology 1 lets symbol boundaries drift by 8.15 us, almost a
  quarter of a symbol, until the second corrects them (`DriftBounded`); those of 0
  and 3 stay within 0.1 and 0.7 us.

* The supervision of a link, beside the run: a worker notifies the PHY of a link that
  comes up and then stores it (`xran_ethdi.c:818-829`); if the OAM thread disables and
  resets the port in between, the link stays up that the PHY takes for down. A reply is
  judged when the worker polls, not when it is "received in time" (1111), and its
  transaction identifier is not compared (`xran_fh_o_du.h:643`), so a stale reply
  counts. `first_call` is not set again by a second `xran_init`.
* The eCPRI delay measurement never runs: its configuration
  (`app_io_fh_xran.c:3295-3324`) is not copied into `xran_device_ctx.eowd_cmn`
  (`xran_dev.h:526`), which keeps its defaults (`xran_main.c:2449-2458`), so `xran_start`
  (5006) finds it off. `xran_timer.c:548-557` does read the configuration and
  shifts windows by an average of 0.
* With `xran_max_frame` 99, the "old compatibility mode" (`xran_main.c:114`) of 22
  configurations under `app/usecase`, the frame number restarts every second, but
  `xran_common.c:251-253` corrects the clock by 256 frames: a packet of a second's last
  slot that arrives, in time, in the first slot of the next counts as late. This is the
  third condition of `WindowFits`.
* With `xran_max_frame` 99 the DL C-plane of the first slot of a second is sent with frame
  number 100, not 0: `xran_main.c:1264` takes the frame modulo 1024, not modulo
  `xran_max_frame + 1`. `DlCpOnTime` therefore assumes the full modulus.
* The window check with a window longer than a slot misjudges packets in the second slot
  after a wrap of 256 frames (the first condition of `WindowFits`). Read while a second
  begins, the clock is that of a second later for a moment, and a packet in its window
  counts as late or early.
* With `dropPacketsUp` 0, a packet more than a slot late is linked into a record that was
  or is being emptied, and counts for the slot that uses the record next; in
  `app_bbu_main` it can be freed by both workers.
* An O-DU counts received C-plane messages as dropped and never frees their mbufs
  (`xran_main.c:2405-2410`).
* A section whose identifier the PRB map does not hold is taken for the map's first
  element (`xran_rx_proc.c:523-548`: `prb_elem_id` starts at 0); the batch path checks no
  antenna number.

## 5. Not modelled

IQ-sample, core-binding and DEBUG_MODE messages of fapi_5g, its statistics, logging
and command line; P7 payload copies; DPDK, Ethernet, compression kernels, the sample
application, the test suites and the closed L1. Of the timing thread: the division of
symbols, the one-way-delay state of the interface, the debug stop, the GPS offset, the
eBBU variant (POLL_EBBU_OFFLOAD), NB-IoT, UL C-plane, static SRS and user symbol
callbacks, how DL C-plane without `dlCpProcBurst` is spread over a slot's symbols, and
the messages that the callbacks compose. Of WLS: a second interface in one process. Of reception: PRACH, SRS and CSI-RS packets
(the code of PRACH and PUSCH is the same), the sequence identifiers, which only count,
the O-RU's side and the first three deadlines. The delay measurement, which the code
cannot start. The MAC, the PHY and the operating
system's semaphores and mutexes are modelled from their use.

## 6. Plan

1. `XranSections`: sections stored per slot context against lookups by the transmitting
   workers (`xran_cp_api.c`, `xran_tx_proc.c`); late symbols.
2. Pure operators: TLV loop, TDD pattern, FFT size, frame structure and the frame
   number macros against reference definitions.
3. `FapiBuffers`: the deferred-free rings against the URLLC worker's use.
