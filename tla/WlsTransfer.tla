----------------------------- MODULE WlsTransfer -----------------------------
(***************************************************************************)
(* Moving blocks between the two clients of a WLS interface                *)
(* (wls_lib/wls_lib_dpdk.c): WLS_Put with its scatter/gather flags, the    *)
(* transfer from the sender's put_queue to the peer's get_queue, the       *)
(* wake-up of the peer's thread and WLS_WGet / WLS_Wait on the other side. *)
(*                                                                         *)
(* Queues are the bounded FIFOs of WlsFifo, which the rings implement.     *)
(* WLS_Put runs under wls_put_lock, one call at a time per process, but    *)
(* the peer reads its get_queue, waits and wakes up, or closes the         *)
(* interface, at any step of it.  A block is its number in the order its   *)
(* sender put it.  One process has one interface: sema_shared, by which a  *)
(* master's second one would use the semaphore of its first, is left out.  *)
(***************************************************************************)
EXTENDS Integers, Sequences, SequencesExt

CONSTANTS
    Ctx,         \* the two contexts of the interface, p_wls_us_ctx[0 .. 1]
    Senders,     \* the contexts whose process sends
    Wakers,      \* the contexts whose process calls WLS_WakeUp
    Closers,     \* the contexts whose process may close the interface
    PutCap,      \* WLS_PUT_QUEUE_N_ELEMENTS - 1
    GetCap,      \* WLS_GET_QUEUE_N_ELEMENTS - 1
    FifoLen,     \* FIFO_LEN, the bound on pending wake-ups
    MaxSent,     \* bound: blocks a sender puts
    MaxWakeUps   \* bound: calls of WLS_WakeUp

ASSUME CtxAssumption ==
    /\ \E x, y \in Ctx : x # y /\ Ctx = {x, y}
    /\ Senders \subseteq Ctx /\ Wakers \subseteq Ctx /\ Closers \subseteq Ctx
ASSUME BoundsAssumption ==
    /\ PutCap \in Nat \ {0} /\ GetCap \in Nat \ {0} /\ FifoLen \in Nat \ {0}
    /\ MaxSent \in Nat /\ MaxWakeUps \in Nat

VARIABLES
    putQ,     \* put_queue of each context
    getQ,     \* get_queue of each context
    dst,      \* dst_user_va # 0
    pid,      \* wls_us_private.pid # 0: the context is open
    semaWakeUp, \* nWlsSemaWakeUp: semaphore, or polling of is_irq
    irq,      \* sema.is_irq
    sem,      \* value of sema.sem
    sPc,      \* the sender in wls_put / wls_process_put / wake_up_user_thread
    left,     \* n of wls_process_put
    kPc,      \* the caller of WLS_WakeUp in wls_wake_up_user_thread
    kCalls,   \* calls of WLS_WakeUp so far
    rPc,      \* the reader in WLS_WGet / wls_wait
    sent,     \* history: blocks handed to WLS_Put
    dropped,  \* history: those the put_queue had no room for
    overrun,  \* history: a queue was full when the sender needed it
    taken     \* history: blocks WLS_Get returned, in order

queueVars == <<putQ, getQ>>
linkVars == <<dst, pid, semaWakeUp>>
semaVars == <<irq, sem>>
wakerVars == <<kPc, kCalls>>
histVars == <<sent, dropped, overrun, taken>>
vars == <<queueVars, linkVars, semaVars, sPc, left, wakerVars, rPc, histVars>>

\* p_wls_us_ctx[idx ^ 1]
Peer(c) == CHOOSE d \in Ctx : d # c

Init ==
    /\ putQ = [c \in Ctx |-> <<>>]
    /\ getQ = [c \in Ctx |-> <<>>]
    /\ dst = [c \in Ctx |-> TRUE]
    /\ pid = [c \in Ctx |-> TRUE]
    /\ semaWakeUp \in BOOLEAN
    /\ irq = [c \in Ctx |-> 0]
    /\ sem = [c \in Ctx |-> 0]
    /\ sPc = [c \in Ctx |-> "idle"]
    /\ left = [c \in Ctx |-> 0]
    /\ kPc = [c \in Ctx |-> "idle"]
    /\ kCalls = 0
    /\ rPc = [c \in Ctx |-> "get"]
    /\ sent = [c \in Ctx |-> 0]
    /\ dropped = [c \in Ctx |-> {}]
    /\ overrun = [c \in Ctx |-> FALSE]
    /\ taken = [c \in Ctx |-> <<>>]

------------------------------------------------------------------------------
(* WLS_Put. *)

\* WLS_MsgEnqueue on the own put_queue; its result is not looked at, so a
\* block that finds the queue full is gone.
PutOwn(c) ==
    LET b == sent[c] + 1
        full == Len(putQ[c]) >= PutCap
    IN  /\ sent' = [sent EXCEPT ![c] = b]
        /\ putQ' = [putQ EXCEPT ![c] = IF full THEN @ ELSE Append(@, b)]
        /\ dropped' = [dropped EXCEPT ![c] = IF full THEN @ \cup {b} ELSE @]
        /\ overrun' = [overrun EXCEPT ![c] = @ \/ full]

MayPut(c) == c \in Senders /\ pid[c] /\ sPc[c] = "idle" /\ sent[c] < MaxSent

\* WLS_SG_FIRST, WLS_SG_NEXT, and every call on an interface without a peer:
\* the block is only queued.
PutHold(c) ==
    /\ MayPut(c)
    /\ PutOwn(c)
    /\ UNCHANGED <<getQ, linkVars, semaVars, sPc, left, wakerVars, rPc, taken>>

\* WLS_SG_LAST and single blocks: queued, then everything is transferred.
PutCommit(c) ==
    /\ MayPut(c)
    /\ dst[c]
    /\ PutOwn(c)
    /\ sPc' = [sPc EXCEPT ![c] = "xfer"]
    /\ left' = [left EXCEPT ![c] = Len(putQ'[c])]
    /\ UNCHANGED <<getQ, linkVars, semaVars, wakerVars, rPc, taken>>

(* wls_process_put. *)

\* A closed context is zeroed memory: a ring of size 0 has no room.
GetRoom(c) == pid[c] /\ Len(getQ[c]) < GetCap

\* MUTANT of XferMove: the put_queue is read but not advanced
XferMoveAgain(c) ==
    /\ sPc[c] = "xfer"
    /\ left[c] > 0 /\ putQ[c] # <<>>
    /\ GetRoom(Peer(c))
    /\ getQ' = [getQ EXCEPT ![Peer(c)] = Append(@, Head(putQ[c]))]
    /\ left' = [left EXCEPT ![c] = @ - 1]
    /\ UNCHANGED <<putQ, linkVars, semaVars, sPc, wakerVars, rPc, histVars>>

\* MUTANT of XferMove: the newest block of the put_queue goes first
XferMoveNewest(c) ==
    /\ sPc[c] = "xfer"
    /\ left[c] > 0 /\ putQ[c] # <<>>
    /\ GetRoom(Peer(c))
    /\ getQ' = [getQ EXCEPT ![Peer(c)] = Append(@, Last(putQ[c]))]
    /\ putQ' = [putQ EXCEPT ![c] = Front(@)]
    /\ left' = [left EXCEPT ![c] = @ - 1]
    /\ UNCHANGED <<linkVars, semaVars, sPc, wakerVars, rPc, histVars>>

XferMove(c) ==
    /\ sPc[c] = "xfer"
    /\ left[c] > 0 /\ putQ[c] # <<>>
    /\ GetRoom(Peer(c))
    /\ getQ' = [getQ EXCEPT ![Peer(c)] = Append(@, Head(putQ[c]))]
    /\ putQ' = [putQ EXCEPT ![c] = Tail(@)]
    /\ left' = [left EXCEPT ![c] = @ - 1]
    /\ UNCHANGED <<linkVars, semaVars, sPc, wakerVars, rPc, histVars>>

\* The peer has no room: the block goes back to the tail of the put_queue.
XferFull(c) ==
    /\ sPc[c] = "xfer"
    /\ left[c] > 0 /\ putQ[c] # <<>>
    /\ ~GetRoom(Peer(c))
    /\ putQ' = [putQ EXCEPT ![c] = Append(Tail(@), Head(@))]
    /\ overrun' = [overrun EXCEPT ![c] = TRUE]
    /\ sPc' = [sPc EXCEPT ![c] = "wake"]
    /\ UNCHANGED <<getQ, linkVars, semaVars, left, wakerVars, rPc, sent, dropped,
                   taken>>

XferDone(c) ==
    /\ sPc[c] = "xfer"
    /\ left[c] = 0
    /\ sPc' = [sPc EXCEPT ![c] = "wake"]
    /\ UNCHANGED <<queueVars, linkVars, semaVars, left, wakerVars, rPc, histVars>>

\* The peer has gone: no wake-up, and the call returns -1.
WakeNobody(c) ==
    /\ sPc[c] = "wake"
    /\ ~pid[Peer(c)]
    /\ sPc' = [sPc EXCEPT ![c] = "idle"]
    /\ UNCHANGED <<queueVars, linkVars, semaVars, left, wakerVars, rPc, histVars>>

\* MUTANT of WakeSaturated: the limit is one too low
WakeSaturatedEarly(c) ==
    /\ sPc[c] = "wake"
    /\ pid[Peer(c)]
    /\ irq[Peer(c)] >= FifoLen - 1
    /\ sPc' = [sPc EXCEPT ![c] = "idle"]
    /\ UNCHANGED <<queueVars, linkVars, semaVars, left, wakerVars, rPc, histVars>>

\* wls_wake_up_user_thread: enough wake-ups are pending already
WakeSaturated(c) ==
    /\ sPc[c] = "wake"
    /\ pid[Peer(c)]
    /\ irq[Peer(c)] >= FifoLen
    /\ sPc' = [sPc EXCEPT ![c] = "idle"]
    /\ UNCHANGED <<queueVars, linkVars, semaVars, left, wakerVars, rPc, histVars>>

WakePeer(c) ==
    /\ sPc[c] = "wake"
    /\ pid[Peer(c)]
    /\ irq[Peer(c)] < FifoLen
    /\ sPc' = [sPc EXCEPT ![c] = "inc"]
    /\ UNCHANGED <<queueVars, linkVars, semaVars, left, wakerVars, rPc, histVars>>

\* rte_atomic16_inc(&semap->is_irq)
WakeInc(c) ==
    /\ sPc[c] = "inc"
    /\ irq' = [irq EXCEPT ![Peer(c)] = @ + 1]
    /\ sPc' = [sPc EXCEPT ![c] = "post"]
    /\ UNCHANGED <<queueVars, linkVars, sem, left, wakerVars, rPc, histVars>>

\* MUTANT of WakePost: the semaphore is posted only for the first wake-up
WakePostOnce(c) ==
    /\ sPc[c] = "post"
    /\ sem' = [sem EXCEPT ![Peer(c)] = IF semaWakeUp /\ irq[Peer(c)] = 1 THEN @ + 1 ELSE @]
    /\ sPc' = [sPc EXCEPT ![c] = "idle"]
    /\ UNCHANGED <<queueVars, linkVars, irq, left, wakerVars, rPc, histVars>>

WakePost(c) ==
    /\ sPc[c] = "post"
    /\ sem' = [sem EXCEPT ![Peer(c)] = IF semaWakeUp THEN @ + 1 ELSE @]
    /\ sPc' = [sPc EXCEPT ![c] = "idle"]
    /\ UNCHANGED <<queueVars, linkVars, irq, left, wakerVars, rPc, histVars>>

Sender(c) ==
    \/ PutHold(c) \/ PutCommit(c)
    \/ XferMove(c) \/ XferFull(c) \/ XferDone(c)
    \/ WakeNobody(c) \/ WakeSaturated(c) \/ WakePeer(c) \/ WakeInc(c) \/ WakePost(c)

------------------------------------------------------------------------------
(* WLS_WakeUp: the same wake-up, on the semaphore of the caller's context. *)

WakeUpCall(c) ==
    /\ c \in Wakers /\ pid[c]
    /\ kPc[c] = "idle" /\ kCalls < MaxWakeUps
    /\ kCalls' = kCalls + 1
    /\ kPc' = [kPc EXCEPT ![c] = IF irq[c] >= FifoLen THEN "idle" ELSE "inc"]
    /\ UNCHANGED <<queueVars, linkVars, semaVars, sPc, left, rPc, histVars>>

WakeUpInc(c) ==
    /\ kPc[c] = "inc"
    /\ irq' = [irq EXCEPT ![c] = @ + 1]
    /\ kPc' = [kPc EXCEPT ![c] = "post"]
    /\ UNCHANGED <<queueVars, linkVars, sem, sPc, left, kCalls, rPc, histVars>>

WakeUpPost(c) ==
    /\ kPc[c] = "post"
    /\ sem' = [sem EXCEPT ![c] = IF semaWakeUp THEN @ + 1 ELSE @]
    /\ kPc' = [kPc EXCEPT ![c] = "idle"]
    /\ UNCHANGED <<queueVars, linkVars, irq, sPc, left, kCalls, rPc, histVars>>

Waker(c) == WakeUpCall(c) \/ WakeUpInc(c) \/ WakeUpPost(c)

------------------------------------------------------------------------------
(* The reader: WLS_WGet in a loop. *)

Take(c) ==
    /\ getQ' = [getQ EXCEPT ![c] = Tail(@)]
    /\ taken' = [taken EXCEPT ![c] = Append(@, Head(getQ[c]))]

\* WLS_Get finds a block and WLS_WGet returns it.
GetBlock(c) ==
    /\ rPc[c] \in {"get", "again"}
    /\ getQ[c] # <<>>
    /\ Take(c)
    /\ rPc' = [rPc EXCEPT ![c] = "get"]
    /\ UNCHANGED <<putQ, linkVars, semaVars, sPc, left, wakerVars, sent, dropped,
                   overrun>>

\* Nothing there: WLS_Wait.
GetNothing(c) ==
    /\ rPc[c] = "get" /\ pid[c]
    /\ getQ[c] = <<>>
    /\ rPc' = [rPc EXCEPT ![c] = "wait"]
    /\ UNCHANGED <<queueVars, linkVars, semaVars, sPc, left, wakerVars, histVars>>

\* WLS_Get after the wait finds nothing: WLS_WGet returns NULL.
WGetNull(c) ==
    /\ rPc[c] = "again"
    /\ getQ[c] = <<>>
    /\ rPc' = [rPc EXCEPT ![c] = "get"]
    /\ UNCHANGED <<queueVars, linkVars, semaVars, sPc, left, wakerVars, histVars>>

(* wls_wait. *)

\* A pending wake-up: go on without touching the semaphore.
WaitPending(c) ==
    /\ rPc[c] = "wait"
    /\ irq[c] # 0
    /\ rPc' = [rPc EXCEPT ![c] = "dec"]
    /\ UNCHANGED <<queueVars, linkVars, semaVars, sPc, left, wakerVars, histVars>>

\* Semaphore mode, none pending: sem_wait.
WaitBlock(c) ==
    /\ rPc[c] = "wait"
    /\ semaWakeUp /\ irq[c] = 0
    /\ rPc' = [rPc EXCEPT ![c] = "blocked"]
    /\ UNCHANGED <<queueVars, linkVars, semaVars, sPc, left, wakerVars, histVars>>

SemWait(c) ==
    /\ rPc[c] = "blocked"
    /\ sem[c] > 0
    /\ sem' = [sem EXCEPT ![c] = @ - 1]
    /\ rPc' = [rPc EXCEPT ![c] = "recheck"]
    /\ UNCHANGED <<queueVars, linkVars, irq, sPc, left, wakerVars, histVars>>

\* MUTANT of Recheck: is_irq is not read again after sem_wait
RecheckBlind(c) ==
    /\ rPc[c] = "recheck"
    /\ rPc' = [rPc EXCEPT ![c] = "dec"]
    /\ UNCHANGED <<queueVars, linkVars, semaVars, sPc, left, wakerVars, histVars>>

\* sem_wait returned: a token left over from an earlier wake-up ends the wait
\* with -1, which wls_process_wait ignores.
Recheck(c) ==
    /\ rPc[c] = "recheck"
    /\ rPc' = [rPc EXCEPT ![c] = IF irq[c] = 0 THEN "again" ELSE "dec"]
    /\ UNCHANGED <<queueVars, linkVars, semaVars, sPc, left, wakerVars, histVars>>

WaitDec(c) ==
    /\ rPc[c] = "dec"
    /\ irq' = [irq EXCEPT ![c] = @ - 1]
    /\ rPc' = [rPc EXCEPT ![c] = "again"]
    /\ UNCHANGED <<queueVars, linkVars, sem, sPc, left, wakerVars, histVars>>

Reader(c) ==
    \/ GetBlock(c) \/ GetNothing(c) \/ WGetNull(c)
    \/ WaitPending(c) \/ WaitBlock(c) \/ SemWait(c) \/ Recheck(c) \/ WaitDec(c)

------------------------------------------------------------------------------
(* WLS_Close of a process none of whose threads is inside the library: both *)
(* contexts are unlinked and its own is zeroed, while the peer may be in    *)
(* the middle of a transfer to it.                                          *)
Close(c) ==
    /\ c \in Closers /\ pid[c]
    /\ sPc[c] = "idle" /\ kPc[c] = "idle" /\ rPc[c] = "get"
    /\ pid' = [pid EXCEPT ![c] = FALSE]
    /\ dst' = IF pid[Peer(c)] THEN [d \in Ctx |-> FALSE] ELSE [dst EXCEPT ![c] = FALSE]
    /\ putQ' = [putQ EXCEPT ![c] = <<>>]
    /\ getQ' = [getQ EXCEPT ![c] = <<>>]
    /\ irq' = [irq EXCEPT ![c] = 0]
    /\ sem' = [sem EXCEPT ![c] = 0]
    /\ UNCHANGED <<semaWakeUp, sPc, left, wakerVars, rPc, histVars>>

Next == \E c \in Ctx : Sender(c) \/ Waker(c) \/ Reader(c) \/ Close(c)

\* A call that has entered the library runs on, and the reader keeps calling
\* WLS_WGet; nobody is obliged to put, wake up or close.
Fairness ==
    \A c \in Ctx :
        /\ WF_vars(XferMove(c) \/ XferFull(c) \/ XferDone(c) \/ WakeNobody(c)
                   \/ WakeSaturated(c) \/ WakePeer(c) \/ WakeInc(c) \/ WakePost(c))
        /\ WF_vars(WakeUpInc(c) \/ WakeUpPost(c))
        /\ WF_vars(Reader(c))

Spec == Init /\ [][Next]_vars
FairSpec == Spec /\ Fairness

------------------------------------------------------------------------------
(* Properties. *)

\* Every variable has its type: a queue never holds more than its ring can,
\* pending wake-ups stay within FIFO_LEN and the two that can race past the
\* check of it, and is_irq, an unsigned count to its readers, never drops
\* below zero.
TypeOK ==
    /\ putQ \in [Ctx -> Seq(1 .. MaxSent)] /\ \A c \in Ctx : Len(putQ[c]) <= PutCap
    /\ getQ \in [Ctx -> Seq(1 .. MaxSent)] /\ \A c \in Ctx : Len(getQ[c]) <= GetCap
    /\ dst \in [Ctx -> BOOLEAN] /\ pid \in [Ctx -> BOOLEAN] /\ semaWakeUp \in BOOLEAN
    /\ irq \in [Ctx -> 0 .. FifoLen + 1] /\ sem \in [Ctx -> Nat]
    /\ sPc \in [Ctx -> {"idle", "xfer", "wake", "inc", "post"}]
    /\ left \in [Ctx -> 0 .. PutCap]
    /\ kPc \in [Ctx -> {"idle", "inc", "post"}] /\ kCalls \in 0 .. MaxWakeUps
    /\ rPc \in [Ctx -> {"get", "wait", "blocked", "recheck", "dec", "again"}]
    /\ sent \in [Ctx -> 0 .. MaxSent]
    /\ dropped \in [Ctx -> SUBSET (1 .. MaxSent)]
    /\ overrun \in [Ctx -> BOOLEAN]
    /\ taken \in [Ctx -> Seq(1 .. MaxSent)]

\* The blocks c has put that still exist, nearest to the peer's caller first.
Pipeline(c) == taken[Peer(c)] \o getQ[Peer(c)] \o putQ[c]

AllOpen == \A c \in Ctx : pid[c]

\* A block is never in two places, whatever the two processes interleave and
\* even when one of them closes; and while both are open every block put is
\* in a queue, was taken, or found the put_queue full.
ExactlyOnce ==
    \A c \in Ctx :
        /\ IsInjective(Pipeline(c))
        /\ Range(Pipeline(c)) \cap dropped[c] = {}
        /\ AllOpen => Range(Pipeline(c)) \cup dropped[c] = 1 .. sent[c]

\* Until a queue first runs full blocks arrive in the order they were put.
\* (Afterwards wls_process_put requeues at the tail and the order is gone.)
InOrderUntilOverrun ==
    \A c \in Ctx :
        AllOpen /\ ~overrun[c] => Pipeline(c) = [i \in 1 .. sent[c] |-> i]

\* Wake-ups on their way to c: is_irq raised, the semaphore not yet posted.
Posting(c) ==
    (IF sPc[Peer(c)] = "post" THEN 1 ELSE 0) + (IF kPc[c] = "post" THEN 1 ELSE 0)

Covered(c) ==
    irq[c] <= sem[c] + Posting(c) + (IF rPc[c] \in {"recheck", "dec"} THEN 1 ELSE 0)

\* is_irq never promises a wake-up that the semaphore does not hold, is not
\* about to get, or has not just given: wls_wait may leave tokens behind (it
\* skips sem_wait when is_irq is set) but never takes one too many.
TokensCoverWakeUps == semaWakeUp => \A c \in Ctx : Covered(c)

\* A reader never sleeps in sem_wait over a block in its get_queue unless its
\* wake-up is still to come: the check of is_irq, the test of the queue and
\* the sleep are three separate steps and no lock spans them.
NoLostWakeUp ==
    \A c \in Ctx :
        rPc[c] = "blocked" /\ getQ[c] # <<>> =>
            \/ sem[c] > 0
            \/ sPc[Peer(c)] # "idle"
            \/ kPc[c] = "post"

\* A block that reached the peer's get_queue is eventually handed to the
\* peer's caller, unless one of the two closes the interface.
Delivered ==
    \A c \in Ctx, n \in 1 .. MaxSent :
        n \in Range(getQ[c]) ~> n \in Range(taken[c]) \/ ~AllOpen

(* The inductive invariant behind TokensCoverWakeUps and NoLostWakeUp. *)

WakeTypes ==
    /\ getQ \in [Ctx -> Seq(Nat)] /\ putQ \in [Ctx -> Seq(Nat)] /\ sent \in [Ctx -> Nat]
    /\ irq \in [Ctx -> Nat] /\ sem \in [Ctx -> Nat] /\ pid \in [Ctx -> BOOLEAN]
    /\ semaWakeUp \in BOOLEAN
    /\ sPc \in [Ctx -> {"idle", "xfer", "wake", "inc", "post"}]
    /\ kPc \in [Ctx -> {"idle", "inc", "post"}]
    /\ rPc \in [Ctx -> {"get", "wait", "blocked", "recheck", "dec", "again"}]

\* What the reader may rely on at each place of wls_wait: it takes off is_irq
\* only what is there, sleeps only in semaphore mode, and never goes to sleep
\* over a block without a wake-up pending or its sender still to raise one.
ReaderSafe(c) ==
    /\ rPc[c] = "dec" => irq[c] > 0
    /\ rPc[c] = "blocked" => semaWakeUp
    /\ ~pid[c] => rPc[c] = "get"
    /\ rPc[c] \in {"wait", "blocked"} /\ getQ[c] # <<>> =>
          irq[c] > 0 \/ sPc[Peer(c)] \in {"xfer", "wake", "inc"}

WakeInv == WakeTypes /\ TokensCoverWakeUps /\ \A c \in Ctx : ReaderSafe(c)
==============================================================================
