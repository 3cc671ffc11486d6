-------------------------- MODULE WlsMsgQueueProofs --------------------------
(***************************************************************************)
(* Proofs about the ring of WlsMsgQueue, for every ring size and every set *)
(* of entries: the indices stay in range, no half-written handle is ever   *)
(* handed out, and the ring implements the FIFO of WlsFifo.                *)
(***************************************************************************)
EXTENDS WlsMsgQueue, TLAPS

------------------------------------------------------------------------------
(* Index arithmetic. *)

\* The wrapped successor of a slot index is a slot index.
LEMMA NextIdxInRange ==
    ASSUME NEW i \in Slot
    PROVE  NextIdx(i) \in Slot
BY SizeAssumption DEF Slot, NextIdx

\* A level is a count of at most Size - 1 entries, and zero exactly when the
\* indices meet.
LEMMA LevelRange ==
    ASSUME NEW p \in Slot, NEW g \in Slot
    PROVE  /\ QueueLevel(p, g) \in 0 .. Size - 1
           /\ QueueLevel(p, g) = 0 <=> p = g
BY SizeAssumption DEF Slot, QueueLevel

\* Publishing put adds one entry to the level, unless the ring was full.
LEMMA LevelPut ==
    ASSUME NEW p \in Slot, NEW g \in Slot, NextIdx(p) # g
    PROVE  QueueLevel(NextIdx(p), g) = QueueLevel(p, g) + 1
BY SizeAssumption DEF Slot, QueueLevel, NextIdx

\* Publishing get removes one entry from the level, unless the ring was empty.
LEMMA LevelGet ==
    ASSUME NEW p \in Slot, NEW g \in Slot, p # g
    PROVE  QueueLevel(p, NextIdx(g)) = QueueLevel(p, g) - 1
BY SizeAssumption DEF Slot, QueueLevel, NextIdx

\* The ring is full exactly when all but one slot hold entries.
LEMMA LevelFull ==
    ASSUME NEW p \in Slot, NEW g \in Slot
    PROVE  NextIdx(p) = g <=> QueueLevel(p, g) = Size - 1
BY SizeAssumption DEF Slot, QueueLevel, NextIdx

------------------------------------------------------------------------------
(* The inductive invariant. *)

\* Where the k-th entry in flight is, before and after get moves.
At(g, k) == IF g + k - 1 < Size THEN g + k - 1 ELSE g + k - 1 - Size

LEMMA AtFacts ==
    ASSUME NEW p \in Slot, NEW g \in Slot,
           NEW k \in 1 .. QueueLevel(p, g)
    PROVE  /\ At(g, k) \in Slot
           /\ At(g, k) # p
           /\ At(g, 1) = g
           /\ k + 1 \in 1 .. QueueLevel(p, g) => At(NextIdx(g), k) = At(g, k + 1)
BY SizeAssumption DEF Slot, QueueLevel, NextIdx, At

\* The entry a publish of put adds is the last one in flight.
LEMMA AtLast ==
    ASSUME NEW p \in Slot, NEW g \in Slot, NextIdx(p) # g
    PROVE  At(g, QueueLevel(p, g) + 1) = p
BY SizeAssumption DEF Slot, QueueLevel, NextIdx, At

LEMMA SlotOfAt == \A k : SlotOf(k) = At(get, k)
BY DEF SlotOf, At

LEMMA SlotOfAtNext == \A k : SlotOf(k)' = At(get', k)
BY DEF SlotOf, At

LEMMA InitRingInv == Init => RingInv
BY SizeAssumption, MsgsAssumption
   DEF Init, RingInv, TypeOK, Reserved, Contents, NoTornRead, Slot, QueueLevel,
       Full, Empty

\* One step of either side keeps the invariant.  Only two things can go
\* wrong: an index moves (EnqPublish, DeqPublish) and the level with it, or a
\* slot is written (EnqStore, EnqFill) that an entry in flight occupies.
LEMMA NextRingInv == RingInv /\ [Next]_vars => RingInv'
<1> SUFFICES ASSUME RingInv, [Next]_vars
             PROVE  RingInv'
    OBVIOUS
<1> USE DEF RingInv
<1>lvl. QueueLevel(put, get) \in 0 .. Size - 1
    BY LevelRange DEF TypeOK
<1>far. \A k \in 1 .. QueueLevel(put, get) : SlotOf(k) \in Slot /\ SlotOf(k) # put
    BY AtFacts, SlotOfAt DEF TypeOK
<1>1. CASE EnqFull
    BY <1>1 DEF EnqFull, TypeOK, Reserved, Contents, NoTornRead, Full, Empty,
                readerVars, SlotOf
<1>2. ASSUME NEW m \in Msgs, EnqBegin(m)
      PROVE  RingInv'
    BY <1>2 DEF EnqBegin, TypeOK, Reserved, Contents, NoTornRead, Full, Empty,
                readerVars, SlotOf
<1>3. CASE EnqStore
    <2>1. TypeOK'
        BY <1>3 DEF EnqStore, TypeOK, readerVars
    <2>2. Reserved' /\ NoTornRead'
        BY <1>3 DEF EnqStore, Reserved, NoTornRead, Full, Empty, readerVars
    <2>3. \A k \in 1 .. QueueLevel(put, get) : slots'[SlotOf(k)] = slots[SlotOf(k)]
        BY <1>3, <1>far DEF EnqStore, TypeOK
    <2>4. rPc # "idle" => slots'[get] = slots[get]
        BY <1>3 DEF EnqStore, TypeOK, Reserved, Empty
    <2>5. Contents'
        BY <1>3, <2>3, <2>4 DEF EnqStore, Contents, readerVars, SlotOf
    <2> QED BY <2>1, <2>2, <2>5
<1>4. CASE EnqFill
    <2>1. TypeOK'
        BY <1>4 DEF EnqFill, TypeOK, Contents, readerVars
    <2>2. Reserved' /\ NoTornRead'
        BY <1>4 DEF EnqFill, Reserved, NoTornRead, Full, Empty, readerVars
    <2>3. \A k \in 1 .. QueueLevel(put, get) : slots'[SlotOf(k)] = slots[SlotOf(k)]
        BY <1>4, <1>far DEF EnqFill, TypeOK
    <2>4. rPc # "idle" => slots'[get] = slots[get]
        BY <1>4 DEF EnqFill, TypeOK, Reserved, Empty
    <2>5. slots'[put] = wMsg
        BY <1>4 DEF EnqFill, TypeOK
    <2>6. Contents'
        BY <1>4, <2>3, <2>4, <2>5 DEF EnqFill, Contents, readerVars, SlotOf
    <2> QED BY <2>1, <2>2, <2>6
<1>5. CASE EnqPublish
    <2>1. put' \in Slot /\ put' # get
        BY <1>5, NextIdxInRange DEF EnqPublish, TypeOK, Reserved, Full
    <2>2. TypeOK' /\ Reserved' /\ NoTornRead'
        BY <1>5, <2>1 DEF EnqPublish, TypeOK, Reserved, NoTornRead, Full, Empty, readerVars
    <2>3. QueueLevel(put', get) = QueueLevel(put, get) + 1
        BY <1>5, LevelPut DEF EnqPublish, TypeOK, Reserved, Full
    <2>4. SlotOf(QueueLevel(put, get) + 1) = put
        BY <1>5, AtLast, SlotOfAt DEF EnqPublish, TypeOK, Reserved, Full
    <2>5. slots[put] \in Msgs
        BY <1>5 DEF EnqPublish, Contents
    <2>6. ASSUME NEW k \in 1 .. QueueLevel(put, get) + 1
          PROVE  slots[SlotOf(k)] \in Msgs
        <3>1. CASE k \in 1 .. QueueLevel(put, get)
            BY <3>1 DEF Contents
        <3>2. CASE k = QueueLevel(put, get) + 1
            BY <3>2, <2>4, <2>5
        <3> QED BY <3>1, <3>2, <1>lvl
    <2>7. Contents'
        BY <1>5, <2>3, <2>6 DEF EnqPublish, Contents, readerVars, SlotOf
    <2> QED BY <2>2, <2>7
<1>6. CASE DeqEmpty
    BY <1>6, MsgsAssumption
       DEF DeqEmpty, TypeOK, Reserved, Contents, NoTornRead, Full, Empty, writerVars, SlotOf
<1>7. CASE DeqBegin
    BY <1>7 DEF DeqBegin, TypeOK, Reserved, Contents, NoTornRead, Full, Empty,
                writerVars, SlotOf
<1>8. CASE DeqCopy
    BY <1>8 DEF DeqCopy, TypeOK, Reserved, Contents, NoTornRead, Full, Empty,
                writerVars, SlotOf
<1>9. CASE DeqPublish
    <2>1. get' \in Slot
        BY <1>9, NextIdxInRange DEF DeqPublish, TypeOK
    <2>2. put # get
        BY <1>9 DEF DeqPublish, Reserved, Empty
    <2>3. 1 \in 1 .. QueueLevel(put, get) /\ SlotOf(1) = get
        BY <1>lvl, <2>2, LevelRange, AtFacts, SlotOfAt DEF TypeOK
    <2>4. rBuf \in Msgs
        BY <1>9, <2>3 DEF DeqPublish, Contents
    <2>5. QueueLevel(put, get') = QueueLevel(put, get) - 1
        BY <1>9, <2>2, LevelGet DEF DeqPublish, TypeOK
    <2>6. TypeOK' /\ NoTornRead'
        BY <1>9, <2>1, <2>4, MsgsAssumption DEF DeqPublish, TypeOK, NoTornRead, writerVars
    <2>7. Reserved'
        BY <1>9, <2>2, <2>5, <1>lvl, <2>1, LevelFull
           DEF DeqPublish, TypeOK, Reserved, Full, Empty, writerVars
    <2>8. ASSUME NEW k \in 1 .. QueueLevel(put, get) - 1
          PROVE  slots[At(get', k)] \in Msgs
        <3>1. k \in 1 .. QueueLevel(put, get) /\ k + 1 \in 1 .. QueueLevel(put, get)
            BY <1>lvl
        <3>2. At(get', k) = SlotOf(k + 1)
            BY <1>9, <3>1, AtFacts, SlotOfAt DEF DeqPublish, TypeOK
        <3> QED BY <3>1, <3>2 DEF Contents
    <2>9. Contents'
        BY <1>9, <2>5, <2>8, SlotOfAtNext DEF DeqPublish, Contents, writerVars
    <2> QED BY <2>6, <2>7, <2>9
<1>10. CASE UNCHANGED vars
    BY <1>10 DEF vars, TypeOK, Reserved, Contents, NoTornRead, Full, Empty, SlotOf
<1> QED
    BY <1>1, <1>2, <1>3, <1>4, <1>5, <1>6, <1>7, <1>8, <1>9, <1>10
       DEF Next, Writer, Reader

\* The inductive invariant holds in every reachable state of the ring.
THEOREM RingInvariant == Spec => []RingInv
BY InitRingInv, NextRingInv, PTL DEF Spec

\* put and get stay in the ring and every variable keeps its type, whatever
\* the number of slots.
THEOREM TypeCorrect == Spec => []TypeOK
<1>1. RingInv => TypeOK
    BY DEF RingInv
<1> QED BY <1>1, RingInvariant, PTL

\* A handle that WLS_MsgDequeue hands out was completely written before.
THEOREM NeverTorn == Spec => []NoTornRead
<1>1. RingInv => NoTornRead
    BY DEF RingInv
<1> QED BY <1>1, RingInvariant, PTL

\* Reader and writer are never at work on the same slot.
THEOREM SlotsExclusive == Spec => []SlotExclusive
<1>1. RingInv => SlotExclusive
    BY DEF RingInv, Reserved, SlotExclusive, Empty
<1> QED BY <1>1, RingInvariant, PTL

------------------------------------------------------------------------------
(* Refinement: the ring implements the bounded FIFO. *)

\* The entries in flight form a sequence of at most Size - 1 entries.
LEMMA InFlightSeq ==
    ASSUME TypeOK
    PROVE  /\ InFlight \in Seq(Msgs \cup {Garbage})
           /\ Len(InFlight) = QueueLevel(put, get)
           /\ DOMAIN InFlight = 1 .. QueueLevel(put, get)
           /\ \A k \in 1 .. QueueLevel(put, get) : InFlight[k] = slots[SlotOf(k)]
<1>1. QueueLevel(put, get) \in Nat
    BY LevelRange, SizeAssumption DEF TypeOK
<1>2. \A k \in 1 .. QueueLevel(put, get) : slots[SlotOf(k)] \in Msgs \cup {Garbage}
    BY AtFacts, SlotOfAt DEF TypeOK
<1> QED BY <1>1, <1>2 DEF InFlight

\* The FIFO has the same initial state: empty, nothing handed out.
LEMMA FifoInit == Init => Fifo!Init
<1> SUFFICES ASSUME Init PROVE Fifo!Init
    OBVIOUS
<1>1. TypeOK
    BY InitRingInv DEF RingInv
<1>2. InFlight \in Seq(Msgs \cup {Garbage}) /\ Len(InFlight) = 0
    BY <1>1, InFlightSeq DEF Init, QueueLevel
<1>3. InFlight = <<>>
    BY <1>2
<1> QED BY <1>3 DEF Init, Fifo!Init

\* A step that moves neither index and leaves the slots in flight alone does
\* not change the abstract queue.
LEMMA InFlightSame ==
    ASSUME RingInv, put' = put, get' = get,
           \A i \in Slot : i # put => slots'[i] = slots[i]
    PROVE  InFlight' = InFlight
<1>1. \A k \in 1 .. QueueLevel(put, get) : SlotOf(k) \in Slot /\ SlotOf(k) # put
    BY AtFacts, SlotOfAt DEF RingInv, TypeOK
<1>2. \A k \in 1 .. QueueLevel(put, get) : slots'[SlotOf(k)] = slots[SlotOf(k)]
    BY <1>1
<1>3. InFlight' = [k \in 1 .. QueueLevel(put, get) |-> slots'[SlotOf(k)]]
    BY DEF InFlight, QueueLevel, SlotOf
<1> QED BY <1>2, <1>3 DEF InFlight

\* Publishing put is the FIFO's Accept.
LEMMA PublishAccepts == RingInv /\ RingInv' /\ EnqPublish => Fifo!Accept
<1> SUFFICES ASSUME RingInv, RingInv', EnqPublish PROVE Fifo!Accept
    OBVIOUS
<1> DEFINE n == QueueLevel(put, get)
<1>1. TypeOK /\ TypeOK'
    BY DEF RingInv
<1>2. n \in 0 .. Size - 1 /\ n # Size - 1
    BY <1>1, LevelRange, LevelFull DEF RingInv, Reserved, EnqPublish, Full, TypeOK
<1>3. QueueLevel(put', get') = n + 1
    BY <1>1, LevelPut DEF RingInv, Reserved, EnqPublish, Full, TypeOK, readerVars
<1>4. wMsg \in Msgs /\ slots[put] = wMsg
    BY DEF RingInv, Contents, EnqPublish
<1>5. SlotOf(n + 1) = put
    BY <1>1, AtLast, SlotOfAt DEF RingInv, Reserved, EnqPublish, Full, TypeOK
<1>6. InFlight' = [k \in 1 .. n + 1 |-> slots[SlotOf(k)]]
    BY <1>3 DEF InFlight, SlotOf, EnqPublish, readerVars
<1>7. InFlight' = Append(InFlight, wMsg)
    <2>1. InFlight \in Seq(Msgs \cup {Garbage}) /\ Len(InFlight) = n
          /\ \A k \in 1 .. n : InFlight[k] = slots[SlotOf(k)]
        BY <1>1, InFlightSeq
    <2>2. InFlight' \in Seq(Msgs \cup {Garbage}) /\ Len(InFlight') = n + 1
        <3>1. \A k \in 1 .. n + 1 : slots[SlotOf(k)] \in Msgs \cup {Garbage}
            BY <1>2, <1>4, <1>5 DEF RingInv, Contents
        <3> QED BY <1>2, <1>6, <3>1
    <2>3. \A k \in 1 .. n + 1 : InFlight'[k] = Append(InFlight, wMsg)[k]
        BY <1>2, <1>4, <1>5, <1>6, <2>1
    <2>4. Append(InFlight, wMsg) \in Seq(Msgs \cup {Garbage})
          /\ Len(Append(InFlight, wMsg)) = n + 1
        BY <1>4, <2>1
    <2> QED BY <2>2, <2>3, <2>4
<1>8. Len(InFlight) < Size - 1
    BY <1>1, <1>2, InFlightSeq, SizeAssumption
<1> QED BY <1>4, <1>7, <1>8 DEF Fifo!Accept, EnqPublish, readerVars

\* Publishing get is the FIFO's Take.
LEMMA PublishTakes == RingInv /\ RingInv' /\ DeqPublish => Fifo!Take
<1> SUFFICES ASSUME RingInv, RingInv', DeqPublish PROVE Fifo!Take
    OBVIOUS
<1> DEFINE n == QueueLevel(put, get)
<1>1. TypeOK /\ TypeOK' /\ put # get
    BY DEF RingInv, Reserved, DeqPublish, Empty
<1>2. n \in 1 .. Size - 1
    BY <1>1, LevelRange DEF TypeOK
<1>3. QueueLevel(put', get') = n - 1
    BY <1>1, LevelGet DEF DeqPublish, TypeOK
<1>4. InFlight \in Seq(Msgs \cup {Garbage}) /\ Len(InFlight) = n
      /\ \A k \in 1 .. n : InFlight[k] = slots[SlotOf(k)]
    BY <1>1, InFlightSeq
<1>5. Head(InFlight) = rBuf /\ InFlight # <<>>
    <2>1. SlotOf(1) = get
        BY <1>1, <1>2, AtFacts, SlotOfAt DEF TypeOK
    <2> QED BY <1>2, <1>4, <2>1 DEF RingInv, Contents, DeqPublish
<1>6. \A k \in 1 .. n - 1 : SlotOf(k)' = SlotOf(k + 1)
    <2>1. TAKE k \in 1 .. n - 1
    <2>2. k \in 1 .. n /\ k + 1 \in 1 .. n
        BY <1>2
    <2> QED BY <1>1, <2>2, AtFacts, SlotOfAt, SlotOfAtNext DEF DeqPublish, TypeOK
<1>7. InFlight' = [k \in 1 .. n - 1 |-> slots[SlotOf(k)']]
    BY <1>3 DEF InFlight, DeqPublish
<1>8. InFlight' = Tail(InFlight)
    <2>1. InFlight' \in Seq(Msgs \cup {Garbage}) /\ Len(InFlight') = n - 1
        <3>1. \A k \in 1 .. n - 1 : slots[SlotOf(k)'] \in Msgs \cup {Garbage}
            <4>1. TAKE k \in 1 .. n - 1
            <4>2. k + 1 \in 1 .. n
                BY <1>2
            <4> QED BY <1>6, <4>2 DEF RingInv, Contents
        <3> QED BY <1>2, <1>7, <3>1
    <2>2. Tail(InFlight) \in Seq(Msgs \cup {Garbage}) /\ Len(Tail(InFlight)) = n - 1
          /\ \A k \in 1 .. n - 1 : Tail(InFlight)[k] = InFlight[k + 1]
        BY <1>2, <1>4, <1>5
    <2>3. \A k \in 1 .. n - 1 : InFlight'[k] = Tail(InFlight)[k]
        <3>1. TAKE k \in 1 .. n - 1
        <3>2. k + 1 \in 1 .. n
            BY <1>2
        <3>3. InFlight'[k] = slots[SlotOf(k + 1)]
            BY <1>6, <1>7
        <3> QED BY <1>4, <2>2, <3>2, <3>3
    <2> QED BY <2>1, <2>2, <2>3
<1> QED BY <1>5, <1>8 DEF Fifo!Take, DeqPublish, writerVars

\* Every step of the ring is a step of the FIFO or leaves it as it was.
LEMMA FifoStep == RingInv /\ RingInv' /\ [Next]_vars => [Fifo!Next]_Fifo!fifoVars
<1> SUFFICES ASSUME RingInv, RingInv', [Next]_vars
             PROVE  [Fifo!Next]_Fifo!fifoVars
    OBVIOUS
<1>t. TypeOK
    BY DEF RingInv
<1>1. CASE EnqFull
    <2>1. InFlight' = InFlight
        BY <1>1, InFlightSame DEF EnqFull
    <2>2. Len(InFlight) = Size - 1
        BY <1>1, <1>t, InFlightSeq, LevelFull DEF EnqFull, Full, TypeOK
    <2> QED BY <1>1, <2>1, <2>2 DEF EnqFull, readerVars, Fifo!Next, Fifo!Refuse
<1>2. ASSUME NEW m \in Msgs, EnqBegin(m)
      PROVE  UNCHANGED Fifo!fifoVars
    BY <1>2, InFlightSame DEF EnqBegin, readerVars, Fifo!fifoVars
<1>3. CASE EnqStore
    BY <1>3, <1>t, InFlightSame DEF EnqStore, readerVars, Fifo!fifoVars, TypeOK
<1>4. CASE EnqFill
    BY <1>4, <1>t, InFlightSame DEF EnqFill, readerVars, Fifo!fifoVars, TypeOK
<1>5. CASE EnqPublish
    BY <1>5, PublishAccepts DEF Fifo!Next
<1>6. CASE DeqEmpty
    <2>1. InFlight' = InFlight
        BY <1>6, InFlightSame DEF DeqEmpty
    <2>2. InFlight \in Seq(Msgs \cup {Garbage}) /\ Len(InFlight) = 0
        BY <1>6, <1>t, InFlightSeq, LevelRange DEF DeqEmpty, Empty, TypeOK
    <2>3. InFlight = <<>>
        BY <2>2
    <2> QED BY <1>6, <2>1, <2>3 DEF DeqEmpty, writerVars, Fifo!Next, Fifo!Nothing
<1>7. CASE DeqBegin
    BY <1>7, InFlightSame DEF DeqBegin, writerVars, Fifo!fifoVars
<1>8. CASE DeqCopy
    BY <1>8, InFlightSame DEF DeqCopy, writerVars, Fifo!fifoVars
<1>9. CASE DeqPublish
    BY <1>9, PublishTakes DEF Fifo!Next
<1>10. CASE UNCHANGED vars
    BY <1>10, InFlightSame DEF vars, Fifo!fifoVars
<1> QED
    BY <1>1, <1>2, <1>3, <1>4, <1>5, <1>6, <1>7, <1>8, <1>9, <1>10
       DEF Next, Writer, Reader

\* The ring of syslib.c is a FIFO of Size - 1 entries: nothing lost, invented,
\* duplicated or reordered, full and empty reported only when they hold.
THEOREM RingImplementsFifo == Spec => ImplementsFifo
BY FifoInit, FifoStep, RingInvariant, PTL DEF Spec, ImplementsFifo, Fifo!Spec

==============================================================================
