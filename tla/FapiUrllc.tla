----------------------------- MODULE FapiUrllc -----------------------------
(***************************************************************************)
(* The hand-over of URLLC lists in fapi_5g, one direction of it: a         *)
(* receiving thread (mac2phy or phy2mac) gives each URLLC list it receives *)
(* to a worker thread through one slot, p_urllc_list_elem, a mutex and two *)
(* semaphores (nr5g_fapi_urllc_thread_callback and the two URLLC thread    *)
(* functions, which are the same program up to the handler they call).     *)
(*                                                                         *)
(* The main thread starts the receiving threads before it initialises the  *)
(* semaphores and starts the workers (nr5g_fapi_framework_init), so a list *)
(* may arrive in between; sem_init forgets a thread asleep on the          *)
(* semaphore.  Lists are numbered in the order they are received.          *)
(* Modelled with is_urllc_enabled set; process_exit, which the code sets   *)
(* only on its way to exit(0), is not.                                     *)
(***************************************************************************)
EXTENDS Naturals, Sequences

CONSTANTS
    MaxLists      \* bound: URLLC lists received

ASSUME UrllcAssumption == MaxLists \in Nat

Null == 0         \* p_urllc_list_elem == NULL

VARIABLES
    main,       \* how far nr5g_fapi_framework_init has come
    semDone,    \* urllc_sem_done
    semProcess, \* urllc_sem_process
    lock,       \* who holds the mutex
    slot,       \* p_urllc_list_elem
    rPc, held,  \* the receiving thread and the list it hands over
    wPc,        \* the worker
    taken,      \* lists received so far
    processed   \* lists the worker has processed, in order

recv   == <<rPc, held, taken>>
worker == <<wPc, processed>>
vars   == <<main, semDone, semProcess, lock, slot, recv, worker>>

Init ==
    /\ main = "threads"
    /\ semDone = 0 /\ semProcess = 0      \* zeroed static memory
    /\ lock = "none" /\ slot = Null
    /\ rPc = "recv" /\ held = Null /\ taken = 0
    /\ wPc = "off" /\ processed = <<>>

\* mutant of InitSemaphores: room for two lists
InitSemaphoresTwo ==
    /\ main = "threads"
    /\ semProcess' = 0 /\ semDone' = 2 /\ slot' = Null
    /\ rPc' = IF rPc = "asleep" THEN "forgotten" ELSE rPc
    /\ main' = "semaphores"
    /\ UNCHANGED <<lock, held, taken, worker>>

\* nr5g_fapi_initialise_sempahore: a receiver asleep on urllc_sem_done is not
\* woken, and no later sem_post knows of it
InitSemaphores ==
    /\ main = "threads"
    /\ semProcess' = 0 /\ semDone' = 1 /\ slot' = Null
    /\ rPc' = IF rPc = "asleep" THEN "forgotten" ELSE rPc
    /\ main' = "semaphores"
    /\ UNCHANGED <<lock, held, taken, worker>>

StartWorker ==
    /\ main = "semaphores"
    /\ main' = "up"
    /\ wPc' = "wait"
    /\ UNCHANGED <<semDone, semProcess, lock, slot, recv, processed>>

(***************************************************************************)
(* The receiving thread: nr5g_fapi_fapi2phy_wls_recv or                    *)
(* nr5g_fapi_fapi2mac_wls_recv, then nr5g_fapi_urllc_thread_callback.      *)
(***************************************************************************)
Receive ==
    /\ rPc = "recv" /\ taken < MaxLists
    /\ taken' = taken + 1 /\ held' = taken + 1
    /\ rPc' = "wait"
    /\ UNCHANGED <<main, semDone, semProcess, lock, slot, worker>>

\* sem_wait(&urllc_sem_done)
WaitDone ==
    /\ rPc = "wait"
    /\ IF semDone > 0 THEN semDone' = semDone - 1 /\ rPc' = "lock"
       ELSE rPc' = "asleep" /\ UNCHANGED semDone
    /\ UNCHANGED <<main, semProcess, lock, slot, held, taken, worker>>

RecvLock ==
    /\ rPc = "lock" /\ lock = "none"
    /\ lock' = "receiver"
    /\ rPc' = "store"
    /\ UNCHANGED <<main, semDone, semProcess, slot, held, taken, worker>>

Store ==
    /\ rPc = "store"
    /\ slot' = held
    /\ lock' = "none"
    /\ rPc' = "post"
    /\ UNCHANGED <<main, semDone, semProcess, held, taken, worker>>

\* sem_post(&urllc_sem_process)
PostProcess ==
    /\ rPc = "post"
    /\ IF wPc = "asleep" THEN wPc' = "lock" /\ UNCHANGED semProcess
       ELSE semProcess' = semProcess + 1 /\ UNCHANGED wPc
    /\ rPc' = "recv" /\ held' = Null
    /\ UNCHANGED <<main, semDone, lock, slot, taken, processed>>

(***************************************************************************)
(* The worker: nr5g_fapi_urllc_{mac2phy,phy2mac}_thread_func.              *)
(***************************************************************************)
WaitProcess ==
    /\ wPc = "wait"
    /\ IF semProcess > 0 THEN semProcess' = semProcess - 1 /\ wPc' = "lock"
       ELSE wPc' = "asleep" /\ UNCHANGED semProcess
    /\ UNCHANGED <<main, semDone, lock, slot, recv, processed>>

WorkLock ==
    /\ wPc = "lock" /\ lock = "none"
    /\ lock' = "worker"
    /\ wPc' = "process"
    /\ UNCHANGED <<main, semDone, semProcess, slot, recv, processed>>

\* mutant of Process: the slot is not cleared
ProcessKeeps ==
    /\ wPc = "process"
    /\ IF slot # Null THEN processed' = Append(processed, slot) ELSE UNCHANGED processed
    /\ lock' = "none"
    /\ wPc' = "post"
    /\ UNCHANGED <<main, semDone, semProcess, slot, recv>>

\* the list is handled and its answers sent, under the mutex
Process ==
    /\ wPc = "process"
    /\ IF slot # Null THEN processed' = Append(processed, slot) /\ slot' = Null
       ELSE UNCHANGED <<processed, slot>>
    /\ lock' = "none"
    /\ wPc' = "post"
    /\ UNCHANGED <<main, semDone, semProcess, recv>>

\* mutant of PostDone: nothing is posted when the receiver sleeps
PostDoneForgets ==
    /\ wPc = "post"
    /\ semDone' = IF rPc = "asleep" THEN semDone ELSE semDone + 1
    /\ wPc' = "wait"
    /\ UNCHANGED <<main, semProcess, lock, slot, recv, processed>>

\* sem_post(&urllc_sem_done)
PostDone ==
    /\ wPc = "post"
    /\ IF rPc = "asleep" THEN rPc' = "lock" /\ UNCHANGED semDone
       ELSE semDone' = semDone + 1 /\ UNCHANGED rPc
    /\ wPc' = "wait"
    /\ UNCHANGED <<main, semProcess, lock, slot, held, taken, processed>>

Main     == InitSemaphores \/ StartWorker
Receiver == Receive \/ WaitDone \/ RecvLock \/ Store \/ PostProcess
Worker   == WaitProcess \/ WorkLock \/ Process \/ PostDone

Next == Main \/ Receiver \/ Worker

Spec == Init /\ [][Next]_vars

\* the threads run, and the mutex is held for a bounded time by the other one
FairSpec == Spec /\ WF_vars(Main) /\ WF_vars(Worker) /\ SF_vars(RecvLock) /\ SF_vars(WorkLock)
                 /\ WF_vars(WaitDone) /\ WF_vars(Store) /\ WF_vars(PostProcess)

-----------------------------------------------------------------------------
\* Types; both semaphores are binary in effect, though sem_post never limits them.
TypeOK ==
    /\ main \in {"threads", "semaphores", "up"}
    /\ semDone \in {0, 1} /\ semProcess \in {0, 1}
    /\ lock \in {"none", "receiver", "worker"}
    /\ slot \in 0..MaxLists /\ held \in 0..MaxLists /\ taken \in 0..MaxLists
    /\ rPc \in {"recv", "wait", "asleep", "forgotten", "lock", "store", "post"}
    /\ wPc \in {"off", "wait", "asleep", "lock", "process", "post"}
    /\ processed \in Seq(1..MaxLists)

\* A list is never stored over one the worker has not seen, though the
\* receiver does not look at the slot.
NeverOverwritten == rPc = "store" => slot = Null

\* Lists are processed once each, in the order they were received, and at most
\* two are waiting: one handed over and one in the receiver's hands.
InOrder ==
    /\ \A i \in 1..Len(processed) : processed[i] = i
    /\ Len(processed) <= taken /\ taken <= Len(processed) + 2

\* Every list handed over is processed, and neither side sleeps for ever, unless
\* sem_init found the receiver asleep.
AllProcessed ==
    \A k \in 1..MaxLists : taken >= k ~> Len(processed) >= k \/ rPc = "forgotten"

(***************************************************************************)
(* The inductive invariant behind InOrder and NeverOverwritten.            *)
(***************************************************************************)
One(b) == IF b THEN 1 ELSE 0

\* one permission to use the slot exists, in a semaphore or in a thread's hands
OnePermit == semDone + semProcess + One(rPc \in {"lock", "store", "post"})
                + One(wPc \in {"lock", "process", "post"}) = One(main # "threads")

\* the slot is full exactly while the list is on its way to the worker
SlotFull == slot # Null <=> rPc = "post" \/ semProcess = 1 \/ wPc \in {"lock", "process"}

Carrying == rPc \in {"wait", "asleep", "forgotten", "lock", "store"}

\* every list received is processed, in the slot, or in the receiver's hands
Accounted ==
    /\ taken = Len(processed) + One(slot # Null) + One(Carrying)
    /\ Carrying => held = taken
    /\ slot # Null => slot = Len(processed) + 1
    /\ \A i \in 1..Len(processed) : processed[i] = i

Starting == /\ main # "up" => wPc = "off"
            /\ main = "threads" => rPc \in {"recv", "wait", "asleep"}

UrllcInv == TypeOK /\ OnePermit /\ SlotFull /\ Accounted /\ Starting
=============================================================================
