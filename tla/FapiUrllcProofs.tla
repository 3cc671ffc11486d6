-------------------------- MODULE FapiUrllcProofs --------------------------
(***************************************************************************)
(* Proofs about FapiUrllc, for every number of lists and with or without   *)
(* lists that arrive before the semaphores exist.  One permit circulates   *)
(* through the two semaphores and the two threads (OnePermit); whoever     *)
(* holds it owns the slot (SlotFull); so the lists received are those      *)
(* processed, the one in the slot and the one in the receiver's hands      *)
(* (Accounted).                                                            *)
(***************************************************************************)
EXTENDS FapiUrllc, TLAPS

LEMMA UrllcInit == Init => UrllcInv
BY UrllcAssumption
   DEF Init, UrllcInv, TypeOK, OnePermit, SlotFull, Accounted, Starting, Carrying, One, Null

LEMMA UrllcMain == UrllcInv /\ Main => UrllcInv'
<1> USE UrllcAssumption
<1>1. ASSUME UrllcInv, InitSemaphores PROVE UrllcInv'
    <2> USE <1>1 DEF InitSemaphores, worker, UrllcInv, TypeOK, Null
    <2>1. TypeOK'
        OBVIOUS
    <2>2. OnePermit' /\ SlotFull' /\ Starting'
        BY DEF OnePermit, SlotFull, Starting, One
    <2>3. slot = Null
        BY DEF SlotFull, Starting, OnePermit, One
    <2>4. Carrying' = Carrying
        BY DEF Carrying
    <2>5. Accounted'
        BY <2>3, <2>4 DEF Accounted
    <2> QED BY <2>1, <2>2, <2>5
<1>2. ASSUME UrllcInv, StartWorker PROVE UrllcInv'
    BY <1>2 DEF StartWorker, recv, UrllcInv, TypeOK, OnePermit, SlotFull, Accounted,
                Starting, Carrying, One, Null
<1> QED BY <1>1, <1>2 DEF Main

LEMMA UrllcReceiver == UrllcInv /\ Receiver => UrllcInv'
<1> USE UrllcAssumption
<1> USE DEF worker, UrllcInv, TypeOK, OnePermit, SlotFull, Accounted, Starting, Carrying, One, Null
<1>1. ASSUME UrllcInv, Receive PROVE UrllcInv'
    BY <1>1 DEF Receive
<1>2. ASSUME UrllcInv, WaitDone PROVE UrllcInv'
    <2> USE <1>2 DEF WaitDone
    <2>1. CASE semDone > 0
        BY <2>1
    <2>2. CASE ~(semDone > 0)
        BY <2>2
    <2> QED BY <2>1, <2>2
<1>3. ASSUME UrllcInv, RecvLock PROVE UrllcInv'
    BY <1>3 DEF RecvLock
<1>4. ASSUME UrllcInv, Store PROVE UrllcInv'
    BY <1>4 DEF Store
<1>5. ASSUME UrllcInv, PostProcess PROVE UrllcInv'
    BY <1>5 DEF PostProcess
<1> QED BY <1>1, <1>2, <1>3, <1>4, <1>5 DEF Receiver

LEMMA UrllcWorker == UrllcInv /\ Worker => UrllcInv'
<1> USE UrllcAssumption
<1> USE DEF recv, UrllcInv, TypeOK, OnePermit, SlotFull, Accounted, Starting, Carrying, One, Null
<1>1. ASSUME UrllcInv, WaitProcess PROVE UrllcInv'
    <2> USE <1>1 DEF WaitProcess
    <2>1. CASE semProcess > 0
        <3>1. wPc' = "lock" /\ wPc = "wait" /\ semProcess = 1 /\ semProcess' = 0
            BY <2>1
        <3>2. UNCHANGED <<main, semDone, lock, slot, rPc, held, taken, processed>>
            OBVIOUS
        <3>3. TypeOK' /\ OnePermit' /\ SlotFull' /\ Starting'
            BY <3>1, <3>2
        <3>4. Accounted'
            BY <3>1, <3>2
        <3> QED BY <3>3, <3>4
    <2>2. CASE ~(semProcess > 0)
        BY <2>2
    <2> QED BY <2>1, <2>2
<1>2. ASSUME UrllcInv, WorkLock PROVE UrllcInv'
    <2>1. /\ wPc = "lock" /\ wPc' = "process" /\ lock' = "worker"
          /\ UNCHANGED <<main, semDone, semProcess, slot, rPc, held, taken, processed>>
        BY <1>2 DEF WorkLock
    <2>2. TypeOK /\ OnePermit /\ SlotFull /\ Accounted /\ Starting
        BY <1>2
    <2> HIDE DEF UrllcInv, TypeOK, OnePermit, SlotFull, Accounted, Starting, Carrying, One
    <2>3. TypeOK'
        BY <2>1, <2>2 DEF TypeOK
    <2>4. OnePermit'
        BY <2>1, <2>2 DEF OnePermit
    <2>5. SlotFull' /\ Starting'
        BY <2>1, <2>2 DEF SlotFull, Starting
    <2>6. Accounted'
        BY <2>1, <2>2 DEF Accounted, Carrying
    <2> QED BY <2>3, <2>4, <2>5, <2>6 DEF UrllcInv
<1>3. ASSUME UrllcInv, Process PROVE UrllcInv'
    <2>1. TypeOK /\ OnePermit /\ SlotFull /\ Accounted /\ Starting
        BY <1>3
    <2> HIDE DEF UrllcInv, TypeOK, OnePermit, SlotFull, Accounted, Starting, Carrying, One, Null
    <2>2. wPc = "process" /\ slot # Null
        BY <1>3, <2>1 DEF Process, SlotFull
    <2>3. /\ processed' = Append(processed, slot) /\ slot' = Null
          /\ wPc' = "post" /\ lock' = "none"
          /\ UNCHANGED <<main, semDone, semProcess, rPc, held, taken>>
        BY <1>3, <2>2 DEF Process
    <2>4. /\ slot \in 1..MaxLists /\ Len(processed) \in Nat /\ processed \in Seq(1..MaxLists)
          /\ slot = Len(processed) + 1 /\ \A i \in 1..Len(processed) : processed[i] = i
        BY <2>1, <2>2 DEF TypeOK, Accounted, Null
    <2>5. /\ processed' \in Seq(1..MaxLists) /\ Len(processed') = Len(processed) + 1
          /\ \A i \in 1..Len(processed') : processed'[i] = i
        BY <2>3, <2>4
    <2>6. TypeOK'
        BY <2>1, <2>3, <2>5 DEF TypeOK, Null
    <2>7. OnePermit'
        BY <2>1, <2>2, <2>3 DEF OnePermit
    <2>8. SlotFull' /\ Starting'
        <3>1. rPc # "post" /\ semProcess # 1
            BY <2>1, <2>2 DEF TypeOK, OnePermit, One
        <3> QED BY <2>1, <2>2, <2>3, <3>1 DEF SlotFull, Starting
    <2>9. Accounted'
        <3>1. Carrying' = Carrying
            BY <2>3 DEF Carrying
        <3>2. taken' = Len(processed') + One(slot' # Null) + One(Carrying')
            BY <2>1, <2>2, <2>3, <2>5, <3>1 DEF Accounted, One
        <3> QED BY <2>1, <2>3, <2>5, <3>1, <3>2 DEF Accounted
    <2> QED BY <2>6, <2>7, <2>8, <2>9 DEF UrllcInv
<1>4. ASSUME UrllcInv, PostDone PROVE UrllcInv'
    <2> USE <1>4 DEF PostDone
    <2>1. semDone = 0
        OBVIOUS
    <2>2. CASE rPc = "asleep"
        <3>1. TypeOK' /\ OnePermit' /\ SlotFull' /\ Starting'
            BY <2>1, <2>2
        <3>2. Accounted'
            BY <2>2
        <3> QED BY <3>1, <3>2
    <2>3. CASE rPc # "asleep"
        <3>0. semDone' = 1 /\ wPc' = "wait" /\ wPc = "post"
              /\ UNCHANGED <<main, semProcess, lock, slot, rPc, held, taken, processed>>
            BY <2>1, <2>3
        <3>1. TypeOK'
            BY <3>0
        <3>2. OnePermit'
            BY <2>1, <3>0
        <3>3. SlotFull' /\ Starting'
            BY <3>0
        <3>4. Accounted'
            BY <3>0
        <3> QED BY <3>1, <3>2, <3>3, <3>4
    <2> QED BY <2>2, <2>3
<1> QED BY <1>1, <1>2, <1>3, <1>4 DEF Worker

\* The permit, the slot and the lists are accounted for in every state.
THEOREM UrllcInvariant == Spec => []UrllcInv
<1>1. UrllcInv /\ [Next]_vars => UrllcInv'
    <2>1. ASSUME UrllcInv, UNCHANGED vars PROVE UrllcInv'
        BY <2>1 DEF vars, recv, worker, UrllcInv, TypeOK, OnePermit, SlotFull, Accounted,
                    Starting, Carrying
    <2> QED BY <2>1, UrllcMain, UrllcReceiver, UrllcWorker DEF Next
<1> QED BY UrllcInit, <1>1, PTL DEF Spec

\* The variables keep their types: neither semaphore ever counts to two.
THEOREM UrllcTypeCorrect == Spec => []TypeOK
<1>1. UrllcInv => TypeOK
    BY DEF UrllcInv
<1> QED BY <1>1, UrllcInvariant, PTL

\* The receiver never stores a list over one the worker has not seen.
THEOREM SlotNeverOverwritten == Spec => []NeverOverwritten
<1>1. UrllcInv => NeverOverwritten
    BY DEF UrllcInv, NeverOverwritten, OnePermit, SlotFull, TypeOK, One
<1> QED BY <1>1, UrllcInvariant, PTL

\* URLLC lists are processed once each and in the order they were received.
THEOREM ListsInOrder == Spec => []InOrder
<1>1. ASSUME UrllcInv PROVE InOrder
    <2>1. Len(processed) \in Nat /\ taken \in Nat
        BY <1>1, UrllcAssumption DEF UrllcInv, TypeOK
    <2>2. One(slot # Null) \in {0, 1} /\ One(Carrying) \in {0, 1}
        BY DEF One
    <2>3. taken = Len(processed) + One(slot # Null) + One(Carrying)
        BY <1>1 DEF UrllcInv, Accounted
    <2>4. Len(processed) <= taken /\ taken <= Len(processed) + 2
        BY <2>1, <2>2, <2>3
    <2> QED BY <1>1, <2>4 DEF UrllcInv, Accounted, InOrder
<1> QED BY <1>1, UrllcInvariant, PTL
=============================================================================
