----------------------------- MODULE WlsMsgQueue -----------------------------
(***************************************************************************)
(* The lock-free ring of wls_lib/syslib.c: WLS_MSG_QUEUE (message handles) *)
(* and FASTQUEUE (block addresses) share one algorithm.  The ring lives in *)
(* memory that two processes map; one thread enqueues, one dequeues, and   *)
(* nothing but the indices put and get synchronises them.                  *)
(*                                                                         *)
(* An operation is as many steps as it has accesses the other side can     *)
(* see.  The writer reads get, fills the slot (a handle of several words:  *)
(* in between the slot holds Garbage), fences, publishes put.  The reader  *)
(* reads put, copies the slot word by word (a slot that changes under the  *)
(* copy leaves Garbage in the copy), publishes get.  mfence and the total  *)
(* store order of the target keep these steps in program order.            *)
(***************************************************************************)
EXTENDS Naturals, Sequences

CONSTANTS
    Msgs,      \* entries, handed in by the writer
    Size,      \* pq->size, the number of slots
    Garbage,   \* a slot never written, or caught half written
    NoMsg      \* what the reader's caller sees when nothing was dequeued

ASSUME SizeAssumption == Size \in Nat \ {0}
ASSUME MsgsAssumption == Garbage \notin Msgs /\ NoMsg \notin Msgs /\ NoMsg # Garbage

VARIABLES
    slots,   \* pq->pStorage
    put,     \* pq->put, written by the writer only
    get,     \* pq->get, written by the reader only
    wPc,     \* the writer's place in WLS_MsgEnqueue
    wMsg,    \* the entry it is enqueueing
    rPc,     \* the reader's place in WLS_MsgDequeue
    rBuf,    \* *pDestItem, the reader's copy of the slot
    rc,      \* what WLS_MsgEnqueue last returned
    got      \* what WLS_MsgDequeue last handed to its caller

writerVars == <<wPc, wMsg, rc>>
readerVars == <<rPc, rBuf, got>>
vars == <<slots, put, get, wPc, wMsg, rPc, rBuf, rc, got>>

Slot == 0 .. Size - 1

------------------------------------------------------------------------------
(* Index arithmetic. *)

\* MUTANT of NextIdx: the wrap comes one slot late
LateWrap(i) == IF i + 1 > Size THEN 0 ELSE i + 1

NextIdx(i) == IF i + 1 >= Size THEN 0 ELSE i + 1

\* sfl_SafeQueueLevel(put, get, size)
QueueLevel(p, g) == IF p >= g THEN p - g ELSE Size + p - g

\* MUTANT of Full: the test forgets the wrap of the new put index
FullNoWrap == put + 1 = get

Full == NextIdx(put) = get
Empty == put = get

------------------------------------------------------------------------------
(* WLS_MsgDefineQueue, SFL_DefQueue: indices zero, storage as it was. *)
Init ==
    /\ slots = [i \in Slot |-> Garbage]
    /\ put = 0
    /\ get = 0
    /\ wPc = "idle"
    /\ wMsg = NoMsg
    /\ rPc = "idle"
    /\ rBuf = NoMsg
    /\ rc = TRUE
    /\ got = NoMsg

(* The writer: WLS_MsgEnqueue; SFL_WlsEnqueue stores its one word at once. *)

EnqFull ==
    /\ wPc = "idle"
    /\ Full
    /\ rc' = FALSE
    /\ UNCHANGED <<slots, put, get, wPc, wMsg, readerVars>>

EnqBegin(m) ==
    /\ wPc = "idle"
    /\ ~Full
    /\ wMsg' = m
    /\ wPc' = "store"
    /\ UNCHANGED <<slots, put, get, rc, readerVars>>

EnqStore ==
    /\ wPc = "store"
    /\ slots' = [slots EXCEPT ![put] = Garbage]
    /\ wPc' = "fill"
    /\ UNCHANGED <<put, get, wMsg, rc, readerVars>>

\* MUTANT of EnqFill: put is published before the last words of the slot
EnqFillPublished ==
    /\ wPc = "fill"
    /\ slots' = slots
    /\ wPc' = "publish"
    /\ UNCHANGED <<put, get, wMsg, rc, readerVars>>

EnqFill ==
    /\ wPc = "fill"
    /\ slots' = [slots EXCEPT ![put] = wMsg]
    /\ wPc' = "publish"
    /\ UNCHANGED <<put, get, wMsg, rc, readerVars>>

EnqPublish ==
    /\ wPc = "publish"
    /\ put' = NextIdx(put)
    /\ rc' = TRUE
    /\ wPc' = "idle"
    /\ UNCHANGED <<slots, get, wMsg, readerVars>>

(* The reader: WLS_MsgDequeue. *)

DeqEmpty ==
    /\ rPc = "idle"
    /\ Empty
    /\ got' = NoMsg
    /\ UNCHANGED <<slots, put, get, rPc, rBuf, writerVars>>

\* MUTANT of DeqBegin: get is published before the slot has been copied
DeqBeginPublish ==
    /\ rPc = "idle"
    /\ ~Empty
    /\ rBuf' = slots[get]
    /\ get' = NextIdx(get)
    /\ rPc' = "copy"
    /\ UNCHANGED <<slots, put, got, writerVars>>

DeqBegin ==
    /\ rPc = "idle"
    /\ ~Empty
    /\ rBuf' = slots[get]
    /\ rPc' = "copy"
    /\ UNCHANGED <<slots, put, get, got, writerVars>>

DeqCopy ==
    /\ rPc = "copy"
    /\ rBuf' = IF slots[get] = rBuf THEN rBuf ELSE Garbage
    /\ rPc' = "publish"
    /\ UNCHANGED <<slots, put, get, got, writerVars>>

DeqPublish ==
    /\ rPc = "publish"
    /\ get' = NextIdx(get)
    /\ got' = rBuf
    /\ rPc' = "idle"
    /\ UNCHANGED <<slots, put, rBuf, writerVars>>

Writer ==
    \/ EnqFull
    \/ \E m \in Msgs : EnqBegin(m)
    \/ EnqStore
    \/ EnqFill
    \/ EnqPublish

Reader == DeqEmpty \/ DeqBegin \/ DeqCopy \/ DeqPublish

Next == Writer \/ Reader

Spec == Init /\ [][Next]_vars

------------------------------------------------------------------------------
(* Properties. *)

\* Every variable has the type syslib.c gives it; both indices stay in the
\* ring, so the get >= pq->size guard of WLS_MsgDequeue never fires.
TypeOK ==
    /\ slots \in [Slot -> Msgs \cup {Garbage}]
    /\ put \in Slot
    /\ get \in Slot
    /\ wPc \in {"idle", "store", "fill", "publish"}
    /\ wMsg \in Msgs \cup {NoMsg}
    /\ rPc \in {"idle", "copy", "publish"}
    /\ rBuf \in Msgs \cup {Garbage, NoMsg}
    /\ rc \in BOOLEAN
    /\ got \in Msgs \cup {Garbage, NoMsg}

\* The slot the writer is filling is never the slot the reader is copying,
\* although each side checked the other's index only once, before it began.
SlotExclusive ==
    ~ (wPc \in {"store", "fill"} /\ rPc = "copy" /\ put = get)

\* No caller of WLS_MsgDequeue is ever handed a half-written handle.
NoTornRead == got # Garbage

\* The slots from get up to put hold the entries in flight, oldest first.
SlotOf(k) == IF get + k - 1 < Size THEN get + k - 1 ELSE get + k - 1 - Size
InFlight == [k \in 1 .. QueueLevel(put, get) |-> slots[SlotOf(k)]]

\* The ring is a FIFO of Size - 1 entries: an entry is accepted when put is
\* published and taken when get is; failures are reported only when the
\* queue is full, or empty, at that very step.
Fifo == INSTANCE WlsFifo WITH Cap <- Size - 1, queue <- InFlight
ImplementsFifo == Fifo!Spec

(* The inductive invariant behind them. *)

\* Both sides stay inside what they checked: room for the writer, an entry
\* for the reader.
Reserved ==
    /\ wPc # "idle" => ~Full
    /\ rPc # "idle" => ~Empty

\* What each side holds is what the other will find.
Contents ==
    /\ wPc # "idle" => wMsg \in Msgs
    /\ wPc = "publish" => slots[put] = wMsg
    /\ \A k \in 1 .. QueueLevel(put, get) : slots[SlotOf(k)] \in Msgs
    /\ rPc # "idle" => rBuf = slots[get]

RingInv == TypeOK /\ Reserved /\ Contents /\ NoTornRead
==============================================================================
