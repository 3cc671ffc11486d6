----------------------------- MODULE XranRxProofs -----------------------------
(* Proofs about XranRx: its types, that the reception window is exact, and,  *)
(* from the times at which the two workers can be at a record, that a packet *)
(* buffer has one owner, that a record holds one slot's packets and that the *)
(* PHY reads its slot's.                                                     *)
EXTENDS XranRx, FiniteSetTheorems, TLAPS

-----------------------------------------------------------------------------
(* Arithmetic of the clock. *)

LEMMA Products ==
    \A a, b \in Nat : /\ a * b \in Nat
                      /\ a > 0 /\ b > 0 => a * b > 0
                      /\ a > 0 => b <= a * b
  OBVIOUS

\* A number is its quotient and remainder, and no other quotient has a remainder
\* below the divisor.
LEMMA Division ==
    ASSUME NEW k \in Nat \ {0}, NEW a \in Int
    PROVE  /\ a % k \in 0..(k - 1) /\ a \div k \in Int
           /\ a = k * (a \div k) + (a % k)
  OBVIOUS

LEMMA Remainder ==
    ASSUME NEW k \in Nat \ {0}, NEW q \in Int, NEW r \in 0..(k - 1)
    PROVE  (k * q + r) % k = r
  <1> DEFINE a == k * q + r
             p == a \div k
             s == a % k
  <1>1. a \in Int /\ p \in Int /\ s \in 0..(k - 1) /\ a = k * p + s
    BY Division
  <1>2. k * q + r = k * p + s
    BY <1>1
  <1>3. k * (q - p) = s - r
    BY <1>1, <1>2
  <1> HIDE DEF p, s, a
  <1>4. q - p >= 1 => k * (q - p) >= k
    BY <1>1
  <1>5. q - p <= -1 => k * (q - p) <= -k
    BY <1>1
  <1>6. q = p
    BY <1>1, <1>3, <1>4, <1>5
  <1> QED BY <1>1, <1>2, <1>6 DEF s, a

LEMMA Turns ==
    ASSUME NEW k \in Nat \ {0}, NEW a \in Int, NEW q \in Int
    PROVE  (k * q + a) % k = a % k
  <1> DEFINE p == a \div k
             r == a % k
  <1>1. p \in Int /\ r \in 0..(k - 1) /\ a = k * p + r
    BY Division
  <1> HIDE DEF p, r
  <1>2. k * q + a = k * (q + p) + r
    BY <1>1
  <1>3. (k * (q + p) + r) % k = r
    BY <1>1, Remainder
  <1> QED BY <1>2, <1>3 DEF r

-----------------------------------------------------------------------------
(* The window. *)

LEMMA Sizes ==
    /\ N \in Nat /\ N > 0 /\ SfnSlots \in Nat /\ SfnSlots > 0
    /\ WrapSlots \in Nat /\ WrapSlots > 0 /\ SecSlots \in Nat /\ SecSlots > 0
    /\ BufLen \in Nat /\ BufLen > 0 /\ MaxPkt \in Nat /\ MaxPkt > 0
    /\ Lb \in Nat /\ Ub \in Nat /\ Ub > 0 /\ Lb <= Ub
    /\ Slack \in Nat /\ MaxLate \in Nat
    /\ SfnSlots * N \in Nat /\ SfnSlots * N > 0
    /\ WrapSlots * N \in Nat /\ WrapSlots * N > 0
    /\ SecSlots * N \in Nat /\ SecSlots * N > 0
  BY RxAssumption, Products

\* A moment L symbols after symbol s of a slot, by the clock of 256 frames.
LEMMA ClockOfPacket ==
    ASSUME WindowFits, NEW slot \in Slots, NEW s \in 0..(N - 1), NEW at \in Int
    PROVE  at % (WrapSlots * N)
             = ((slot % WrapSlots) * N + s + ((at - (slot * N + s)) % (SfnSlots * N)))
                   % (WrapSlots * N)
  <1> DEFINE T == SfnSlots * N
             K == WrapSlots * N
             q == slot * N + s
             d == at - q
             L == d % T
             j == d \div T
             p == slot % WrapSlots
             i == slot \div WrapSlots
  <1>1. PICK turns \in Nat : SfnSlots = WrapSlots * turns
    BY Sizes DEF WindowFits
  <1>2. slot \in Nat /\ slot * N \in Nat /\ s \in Nat
    BY Sizes, Products DEF Slots
  <1>3. /\ L \in Int /\ j \in Int /\ at - q = T * j + L
        /\ p \in Int /\ i \in Int /\ slot = WrapSlots * i + p
    <2>1. d \in Int /\ T \in Nat \ {0}
      BY <1>2, Sizes
    <2>2. slot \in Int /\ WrapSlots \in Nat \ {0}
      BY <1>2, Sizes
    <2> HIDE DEF T, d
    <2>3. L \in Int /\ j \in Int /\ d = T * j + L
      BY <2>1, Division
    <2>4. p \in Int /\ i \in Int /\ slot = WrapSlots * i + p
      BY <2>2, Division
    <2> QED BY <2>3, <2>4 DEF d
  <1>4. T = K * turns
    BY <1>1, Sizes
  <1> HIDE DEF T, L, j, p, i, K
  <1>5. slot * N = (WrapSlots * N) * i + p * N
    BY <1>3, Sizes
  <1>6. at = T * j + L + ((WrapSlots * N) * i + p * N) + s
    BY <1>3, <1>5, <1>2, Sizes DEF T
  <1>7. T * j = (WrapSlots * N) * (turns * j)
    BY <1>1, <1>3, <1>4, Sizes DEF K
  <1>8. at = K * (turns * j + i) + (p * N + s + L)
    BY <1>1, <1>2, <1>3, <1>6, <1>7, Sizes DEF K
  <1>9. turns * j + i \in Int /\ p * N + s + L \in Int
    BY <1>1, <1>2, <1>3, Sizes
  <1>10. (K * (turns * j + i) + (p * N + s + L)) % K = (p * N + s + L) % K
    <2>1. K \in Nat \ {0}
      BY Sizes DEF K
    <2> QED BY <2>1, <1>9, Turns
  <1> QED BY <1>8, <1>10 DEF K, L, T, p

\* The comparison that the check makes, for a packet of slot p and symbol s that
\* came L symbols after its symbol, in symbol u of slot t of the 256 frames.
LEMMA WindowArithmetic ==
    ASSUME WindowFits,
           NEW p \in 0..(WrapSlots - 1), NEW s \in 0..(N - 1),
           NEW t \in 0..(WrapSlots - 1), NEW u \in 0..(N - 1),
           NEW L \in Nat, L <= (WrapSlots - 1) * N,
           t * N + u = (p * N + s + L) % (WrapSlots * N)
    PROVE  LET o == (IF t = 0 /\ p # 0 THEN WrapSlots ELSE t) * N + u IN
           p * N + s + Ub >= o /\ p * N + s + Lb <= o <=> L \in Lb..Ub
  <1> DEFINE K == WrapSlots * N
             P == p * N
             A == t * N + u
  <1>1. /\ K \in Nat /\ P \in Nat /\ A \in Nat /\ t * N \in Nat
        /\ s \in Nat /\ u \in Nat /\ s < N /\ u < N
    BY Sizes, Products
  <1>2. /\ P + N <= K
        /\ p # 0 => P >= N
        /\ p = 0 => P = 0
        /\ t = 0 => A < N
        /\ t # 0 => A >= N
    <2>1. (WrapSlots - 1 - p) * N \in Nat /\ P + N + (WrapSlots - 1 - p) * N = K
      BY Sizes, Products
    <2>2. P + N <= K
      BY <2>1, <1>1, Sizes
    <2>3. p # 0 => P >= N
      BY Sizes, Products
    <2>4. t # 0 => t * N >= N
      BY Sizes, Products
    <2>5. p = 0 => P = 0
      BY Sizes
    <2>6. t = 0 => t * N = 0
      BY Sizes
    <2> QED BY <1>1, <2>2, <2>3, <2>4, <2>5, <2>6, Sizes
  <1>3. (WrapSlots - 1) * N = K - N
    BY Sizes
  <1>4. L + N <= K /\ L \in Nat
    BY <1>1, <1>3, Sizes
  <1> DEFINE o == (IF t = 0 /\ p # 0 THEN WrapSlots ELSE t) * N + u
  <1>5. o = IF t = 0 /\ p # 0 THEN K + A ELSE A
    BY <1>1, Sizes
  <1>6. Ub <= N
    BY DEF WindowFits
  <1>7. CASE P + s + L < K
    <2>1. (K * 0 + (P + s + L)) % K = P + s + L
      BY <1>1, <1>4, <1>7, Sizes, Remainder
    <2>2. A = P + s + L
      BY <2>1, <1>1, Sizes
    <2> HIDE DEF o, A, P, K
    <2>3. o = P + s + L
      BY <2>2, <1>1, <1>2, <1>4, <1>5, Sizes
    <2>4. P + s + Ub >= o /\ P + s + Lb <= o <=> L \in Lb..Ub
      BY <2>3, <1>1, <1>4, Sizes
    <2> QED BY <2>4 DEF o, P
  <1>8. CASE P + s + L >= K
    <2>1. P + s + L - K \in 0..(K - 1)
      BY <1>8, <1>1, <1>2, <1>4, Sizes
    <2>2. (K * 1 + (P + s + L - K)) % K = P + s + L - K
      BY <2>1, <1>1, Sizes, Remainder
    <2>3. A = P + s + L - K
      BY <2>2, <1>1, <1>4, Sizes
    <2> HIDE DEF A, P, K, o
    <2>4. CASE t = 0
      <3>1. p # 0
        BY <1>8, <1>1, <1>2, <1>4, Sizes
      <3>2. o = P + s + L
        BY <2>3, <2>4, <3>1, <1>1, <1>4, <1>5
      <3> QED BY <3>2, <1>1, <1>4, Sizes DEF o, P
    <2>5. CASE t # 0
      <3>1. o = P + s + L - K
        BY <2>3, <2>5, <1>5
      <3>2. L > Ub
        BY <2>3, <2>5, <1>1, <1>2, <1>4, <1>6, Sizes
      <3>3. P + s > o
        BY <3>1, <1>1, <1>4, Sizes
      <3>4. ~(P + s + Ub >= o /\ P + s + Lb <= o) /\ L \notin Lb..Ub
        BY <3>2, <3>3, <3>1, <1>1, <1>4, Sizes
      <3> QED BY <3>4 DEF o, P
    <2> QED BY <2>4, <2>5
  <1> QED BY <1>1, <1>4, <1>7, <1>8, Sizes

-----------------------------------------------------------------------------
(* Types. *)

\* What is being cleared is an entry.
EntryInRange == cb.pc = "clear" => cb.i < MaxPkt

TypeInv == TypeOK /\ EntryInRange

LEMMA TypeInit == Init => TypeInv
  <1> SUFFICES ASSUME Init PROVE TypeInv
    OBVIOUS
  <1> USE Sizes
  <1>1. 0 \in Slots /\ 0 \in Entries /\ 0 \in 0..(SecSlots * N - 1)
        /\ 0 \in 0..(SfnSlots * N - 1)
    BY DEF Slots, Entries
  <1>2. rx \in RxStates
    BY <1>1 DEF Init, Idle, RxStates
  <1>3. cb \in CbStates
    BY <1>1 DEF Init, CbIdle, CbStates
  <1>4. sym \in Syms
    BY DEF Init
  <1>5. EntryInRange
    BY DEF Init, Idle, CbIdle, EntryInRange
  <1>6. nRxPkt \in [Bufs -> 0..MaxPkt]
    BY DEF Init
  <1>7. /\ pData \in [Bufs -> [Entries -> Mbufs \cup {None}]]
        /\ pCtrl \in [Bufs -> [Entries -> Mbufs \cup {None}]]
    BY DEF Init
  <1>8. life \in [Mbufs -> {"free", "rx", "held", "done"}] /\ slotOf \in [Mbufs -> Slots]
    BY <1>1 DEF Init
  <1>9. /\ sfnSecStart \in Slots /\ symIdx \in 0..(SecSlots * N - 1) /\ rolling \in BOOLEAN
        /\ phySlot \in Slots \cup {NoSlot}
        /\ dropPacketsUp \in BOOLEAN /\ bbu \in BOOLEAN
    BY <1>1 DEF Init
  <1>10. TypeOK
    BY <1>2, <1>3, <1>4, <1>6, <1>7, <1>8, <1>9, Zenon DEF TypeOK
  <1> QED BY <1>5, <1>10 DEF TypeInv

LEMMA NowInRange ==
    ASSUME TypeOK
    PROVE  Now \in 0..(SfnSlots * N - 1)
  <1> DEFINE a == sfnSecStart * N + (IF rolling THEN 0 ELSE symIdx)
             T == SfnSlots * N
  <1>1. a \in Int /\ T \in Nat \ {0}
    BY Sizes DEF TypeOK, Slots
  <1> HIDE DEF a, T
  <1>2. a % T \in 0..(T - 1)
    BY <1>1, Division
  <1> QED BY <1>2 DEF a, T, Now

LEMMA AgedTypes ==
    ASSUME TypeOK, WorkersKeepUp
    PROVE  Aged(rx) \in RxStates /\ Aged(cb) \in CbStates
  <1> USE Sizes DEF TypeOK
  <1> DEFINE rt == IF rx.pc = "idle" THEN 0 ELSE rx.ticks + 1
             ct == IF cb.pc = "idle" THEN 0 ELSE cb.ticks + 1
  <1>1. rt \in 0..Slack
    BY DEF WorkersKeepUp, RxStates
  <1>2. ct \in 0..Slack
    BY DEF WorkersKeepUp, CbStates
  <1>3. Aged(rx) = [rx EXCEPT !.ticks = rt] /\ Aged(cb) = [cb EXCEPT !.ticks = ct]
    BY DEF Aged
  <1> HIDE DEF rt, ct
  <1>4. Aged(rx) \in RxStates
    BY <1>1, <1>3 DEF RxStates
  <1>5. Aged(cb) \in CbStates
    BY <1>2, <1>3 DEF CbStates
  <1> QED BY <1>4, <1>5

LEMMA FullSlotInRange ==
    ASSUME TypeOK, NEW idx \in Nat
    PROVE  FullSlot(idx) \in Slots
  <1> DEFINE a == sfnSecStart + idx \div N + SfnSlots - 1 - SlotAdvance
  <1>1. idx \div N \in Int /\ Ub \div N \in Int
    BY Sizes, Division
  <1>2. SlotAdvance \in Int
    BY <1>1 DEF SlotAdvance
  <1>3. a \in Int
    BY <1>1, <1>2, Sizes DEF TypeOK, Slots
  <1> HIDE DEF a
  <1>4. a % SfnSlots \in 0..(SfnSlots - 1)
    BY <1>3, Sizes, Division
  <1> QED BY <1>4 DEF a, FullSlot, Slots

LEMMA SymbolBeginsTypes ==
    ASSUME TypeInv, NEW idx \in 0..(SecSlots * N - 1), SymbolBegins(idx),
           rolling \/ WorkersKeepUp
    PROVE  /\ symIdx' \in 0..(SecSlots * N - 1)
           /\ rx' \in RxStates /\ cb' \in CbStates
           /\ EntryInRange'
  <1> USE Sizes DEF TypeInv, TypeOK, SymbolBegins
  <1>1. idx \in Nat
    OBVIOUS
  <1>2. rx' \in RxStates /\ rx'.pc = rx.pc /\ rx'.n = rx.n
    <2>1. CASE rolling
      BY <2>1
    <2>2. CASE ~rolling
      <3>1. Aged(rx) \in RxStates
        BY <2>2, AgedTypes
      <3>2. Aged(rx).pc = rx.pc /\ Aged(rx).n = rx.n
        BY DEF Aged, RxStates
      <3> QED BY <2>2, <3>1, <3>2
    <2> QED BY <2>1, <2>2
  <1>3. cb' \in CbStates /\ (cb'.pc = "clear" => cb'.i < MaxPkt)
    <2>1. CASE idx % N = DeadlineSym
      <3>1. cb' = [CbIdle EXCEPT !.pc = "armed", !.slot = FullSlot(idx)]
        BY <2>1
      <3>2. FullSlot(idx) \in Slots
        BY <1>1, FullSlotInRange
      <3>3. cb' = [pc |-> "armed", slot |-> FullSlot(idx), i |-> 0, ticks |-> 0]
        BY <3>1 DEF CbIdle
      <3> QED BY <3>2, <3>3 DEF CbStates
    <2>2. CASE idx % N # DeadlineSym /\ rolling
      <3>1. cb' = cb
        BY <2>2
      <3> QED BY <3>1 DEF EntryInRange
    <2>3. CASE idx % N # DeadlineSym /\ ~rolling
      <3>1. Aged(cb) \in CbStates
        BY <2>3, AgedTypes
      <3>2. Aged(cb).pc = cb.pc /\ Aged(cb).i = cb.i
        BY DEF Aged, CbStates
      <3>3. cb' = Aged(cb)
        BY <2>3, Zenon
      <3> QED BY <3>1, <3>2, <3>3 DEF EntryInRange
    <2> QED BY <2>1, <2>2, <2>3
  <1> QED BY <1>2, <1>3 DEF EntryInRange

ClockTypes ==
    sfnSecStart \in Slots /\ symIdx \in 0..(SecSlots * N - 1) /\ rolling \in BOOLEAN
RecordTypes ==
    /\ nRxPkt \in [Bufs -> 0..MaxPkt]
    /\ pData \in [Bufs -> [Entries -> Mbufs \cup {None}]]
    /\ pCtrl \in [Bufs -> [Entries -> Mbufs \cup {None}]]
ModeTypes == sym \in Syms /\ dropPacketsUp \in BOOLEAN /\ bbu \in BOOLEAN
MbufTypes ==
    life \in [Mbufs -> {"free", "rx", "held", "done"}] /\ slotOf \in [Mbufs -> Slots]

LEMMA TypeParts ==
    TypeOK <=> /\ ClockTypes /\ RecordTypes /\ rx \in RxStates /\ cb \in CbStates
               /\ phySlot \in Slots \cup {NoSlot} /\ ModeTypes /\ MbufTypes
  BY Zenon DEF TypeOK, ClockTypes, RecordTypes, ModeTypes, MbufTypes

LEMMA TypePartsNext ==
    /\ ClockTypes' /\ RecordTypes' /\ rx' \in RxStates /\ cb' \in CbStates
    /\ phySlot' \in Slots \cup {NoSlot} /\ ModeTypes' /\ MbufTypes'
    => TypeOK'
  BY Zenon DEF TypeOK, ClockTypes, RecordTypes, ModeTypes, MbufTypes, RxStates, CbStates,
               Slots, Bufs, Entries, NoSlot

LEMMA FrameTypes ==
    /\ ClockTypes /\ UNCHANGED clockVars => ClockTypes'
    /\ RecordTypes /\ UNCHANGED recordVars => RecordTypes'
    /\ ModeTypes /\ UNCHANGED modeVars => ModeTypes'
    /\ MbufTypes /\ UNCHANGED mbufVars => MbufTypes'
  <1>1. ClockTypes /\ UNCHANGED clockVars => ClockTypes'
    BY DEF ClockTypes, clockVars
  <1>2. RecordTypes /\ UNCHANGED recordVars => RecordTypes'
    BY DEF RecordTypes, recordVars
  <1>3. ModeTypes /\ UNCHANGED modeVars => ModeTypes'
    BY DEF ModeTypes, modeVars
  <1>4. MbufTypes /\ UNCHANGED mbufVars => MbufTypes'
    BY DEF MbufTypes, mbufVars
  <1> QED BY <1>1, <1>2, <1>3, <1>4

LEMMA TimingTypes ==
    ASSUME TypeInv, NextSymbol \/ NewSecond \/ ResetCounters
    PROVE  TypeInv'
  <1>1. /\ ClockTypes /\ RecordTypes /\ rx \in RxStates /\ cb \in CbStates
        /\ phySlot \in Slots \cup {NoSlot} /\ ModeTypes /\ MbufTypes
    BY TypeParts DEF TypeInv
  <1>2. UNCHANGED <<phySlot, recordVars, modeVars, mbufVars>>
    BY DEF NextSymbol, NewSecond, ResetCounters
  <1>3. phySlot' \in Slots \cup {NoSlot} /\ RecordTypes' /\ ModeTypes' /\ MbufTypes'
    <2>1. phySlot' = phySlot /\ UNCHANGED recordVars /\ UNCHANGED modeVars /\ UNCHANGED mbufVars
      BY <1>2
    <2> QED BY <1>1, <2>1, FrameTypes
  <1>4. CASE NextSymbol
    <2>1. symIdx + 1 \in 0..(SecSlots * N - 1)
      BY <1>1, <1>4, Sizes DEF NextSymbol, ClockTypes
    <2>2. SymbolBegins(symIdx + 1) /\ WorkersKeepUp /\ sfnSecStart' = sfnSecStart /\ rolling' = rolling
      BY <1>4 DEF NextSymbol
    <2>3. /\ symIdx' \in 0..(SecSlots * N - 1)
          /\ rx' \in RxStates /\ cb' \in CbStates /\ EntryInRange'
      BY <2>1, <2>2, SymbolBeginsTypes
    <2>4. ClockTypes'
      BY <1>1, <2>2, <2>3 DEF ClockTypes
    <2> QED BY <1>3, <2>3, <2>4, TypePartsNext DEF TypeInv
  <1>5. CASE ResetCounters
    <2>1. 0 \in 0..(SecSlots * N - 1)
      BY Sizes
    <2>2. SymbolBegins(0) /\ rolling /\ rolling' = FALSE /\ sfnSecStart' = sfnSecStart
      BY <1>5 DEF ResetCounters
    <2>3. /\ symIdx' \in 0..(SecSlots * N - 1)
          /\ rx' \in RxStates /\ cb' \in CbStates /\ EntryInRange'
      BY <2>1, <2>2, SymbolBeginsTypes
    <2>4. ClockTypes'
      BY <1>1, <2>2, <2>3 DEF ClockTypes
    <2> QED BY <1>3, <2>3, <2>4, TypePartsNext DEF TypeInv
  <1>6. CASE NewSecond
    <2>1. /\ WorkersKeepUp /\ rx' = Aged(rx) /\ cb' = Aged(cb)
          /\ sfnSecStart' = (sfnSecStart + SecSlots) % SfnSlots
          /\ rolling' = TRUE /\ symIdx' = symIdx
      BY <1>6 DEF NewSecond
    <2>2. rx' \in RxStates /\ cb' \in CbStates
      BY <2>1, AgedTypes DEF TypeInv
    <2>3. /\ Aged(rx).pc = rx.pc /\ Aged(rx).n = rx.n
          /\ Aged(cb).pc = cb.pc /\ Aged(cb).i = cb.i
      BY <1>1 DEF Aged, RxStates, CbStates
    <2>4. EntryInRange'
      BY <2>1, <2>3 DEF TypeInv, EntryInRange
    <2> DEFINE next == sfnSecStart + SecSlots
    <2>5. next \in Int
      BY <1>1, Sizes DEF ClockTypes, Slots
    <2> HIDE DEF next
    <2>6. next % SfnSlots \in 0..(SfnSlots - 1)
      BY <2>5, Sizes, Division
    <2>7. ClockTypes'
      BY <1>1, <2>1, <2>6 DEF ClockTypes, Slots, next
    <2> QED BY <1>3, <2>2, <2>4, <2>7, TypePartsNext DEF TypeInv
  <1> QED BY <1>4, <1>5, <1>6

LEMMA ReceiveTypes ==
    ASSUME TypeInv, NEW m \in Mbufs, NEW slot \in Slots, Receive(m, slot)
    PROVE  TypeInv'
  <1>1. /\ ClockTypes /\ RecordTypes /\ rx \in RxStates /\ cb \in CbStates
        /\ phySlot \in Slots \cup {NoSlot} /\ ModeTypes /\ MbufTypes
    BY TypeParts DEF TypeInv
  <1>2. /\ UNCHANGED clockVars /\ UNCHANGED recordVars /\ UNCHANGED modeVars
        /\ cb' = cb /\ phySlot' = phySlot
    BY DEF Receive
  <1>3. rx' = [Idle EXCEPT !.pc = "clock", !.m = m, !.slot = slot, !.idx = symIdx, !.at = Now]
    BY DEF Receive
  <1>4. rx' = [pc |-> "clock", m |-> m, slot |-> slot, first |-> TRUE, batch |-> FALSE,
               idx |-> symIdx, at |-> Now, n |-> 0, ticks |-> 0]
    BY <1>3 DEF Idle
  <1>5. Now \in 0..(SfnSlots * N - 1)
    BY NowInRange DEF TypeInv
  <1>6. rx' \in RxStates
    BY <1>1, <1>4, <1>5, Sizes DEF RxStates, ClockTypes, Entries
  <1>7. EntryInRange'
    BY <1>2, <1>4 DEF TypeInv, EntryInRange
  <1>8. MbufTypes'
    BY <1>1 DEF Receive, MbufTypes
  <1> QED BY <1>1, <1>2, <1>6, <1>7, <1>8, FrameTypes, TypePartsNext DEF TypeInv

\* What an action of the receiving worker must establish.
RxStepTypes == RecordTypes' /\ MbufTypes' /\ rx' \in RxStates

LEMMA RxStep ==
    ASSUME TypeInv, UNCHANGED <<clockVars, cb, phySlot, modeVars>>, RxStepTypes
    PROVE  TypeInv'
  <1>1. /\ ClockTypes /\ cb \in CbStates /\ phySlot \in Slots \cup {NoSlot} /\ ModeTypes
        /\ EntryInRange
    BY TypeParts DEF TypeInv
  <1>2. ClockTypes' /\ ModeTypes'
    BY <1>1, FrameTypes
  <1>3. cb' \in CbStates /\ phySlot' \in Slots \cup {NoSlot}
    BY <1>1
  <1>4. EntryInRange'
    BY <1>1 DEF EntryInRange, RxStepTypes
  <1> QED BY <1>2, <1>3, <1>4, TypePartsNext DEF TypeInv, RxStepTypes

LEMMA RxParts ==
    ASSUME TypeInv
    PROVE  RecordTypes /\ MbufTypes /\ rx \in RxStates /\ Buf \in Bufs
  <1>1. RecordTypes /\ MbufTypes /\ rx \in RxStates /\ EntryInRange
    BY TypeParts DEF TypeInv
  <1>2. rx.slot \in Int
    BY <1>1, Sizes DEF RxStates, Slots
  <1>3. Buf \in Bufs
    BY <1>2, Sizes, Division DEF Buf, Bufs
  <1> QED BY <1>1, <1>3 DEF EntryInRange

LEMMA IdleTypes == Idle \in RxStates /\ Idle.pc = "idle"
  BY Sizes DEF Idle, RxStates, Slots, Entries

LEMMA DropTypes ==
    ASSUME TypeInv, Drop
    PROVE  RxStepTypes
  <1>1. rx' = Idle /\ UNCHANGED recordVars
    BY DEF Drop
  <1>0. 0 \in Slots
    BY Sizes DEF Slots
  <1>2. MbufTypes'
    BY <1>0, RxParts DEF Drop, MbufTypes
  <1> QED BY <1>1, <1>2, RxParts, IdleTypes, FrameTypes DEF RxStepTypes

LEMMA CheckWindowTypes ==
    ASSUME TypeInv, CheckWindow
    PROVE  RxStepTypes
  <1>1. CASE Drop
    BY <1>1, DropTypes
  <1>2. CASE rx' = [rx EXCEPT !.pc = "count", !.idx = 0] /\ UNCHANGED <<recordVars, mbufVars>>
    <2>0. 0 \in 0..(SecSlots * N - 1)
      BY Sizes
    <2>1. rx' \in RxStates /\ rx'.pc = "count"
      BY <1>2, <2>0, RxParts DEF RxStates
    <2>2. RecordTypes' /\ MbufTypes'
      BY <1>2, RxParts, FrameTypes
    <2> QED BY <2>1, <2>2 DEF RxStepTypes
  <1> QED BY <1>1, <1>2 DEF CheckWindow

LEMMA TakePlaceTypes ==
    ASSUME TypeInv, TakePlace
    PROVE  RxStepTypes
  <1>1. CASE Drop
    BY <1>1, DropTypes
  <1>2. CASE rx' = Idle /\ UNCHANGED <<recordVars, mbufVars>>
    BY <1>2, RxParts, IdleTypes, FrameTypes DEF RxStepTypes
  <1>3. ASSUME Room(Buf), UNCHANGED <<recordVars, mbufVars>>,
               NEW batch \in BOOLEAN,
               rx' = [rx EXCEPT !.pc = IF batch THEN "replace" ELSE "publish",
                                !.batch = batch, !.n = nRxPkt[Buf]]
        PROVE  RxStepTypes
    <2>1. nRxPkt[Buf] \in Entries
      <3> DEFINE k == nRxPkt[Buf]
      <3>1. k \in 0..MaxPkt /\ k < MaxPkt /\ MaxPkt \in Nat
        BY <1>3, RxParts, Sizes DEF Room, RecordTypes
      <3> HIDE DEF k
      <3>2. k \in 0..(MaxPkt - 1)
        BY <3>1
      <3> QED BY <3>2 DEF k, Entries
    <2> DEFINE next == IF batch THEN "replace" ELSE "publish"
               n == nRxPkt[Buf]
    <2>2. next \in {"replace", "publish"}
      OBVIOUS
    <2>3. rx' = [rx EXCEPT !.pc = next, !.batch = batch, !.n = n]
      BY <1>3
    <2> HIDE DEF next, n
    <2>4. rx' \in RxStates /\ rx'.n = n
      BY <2>1, <2>2, <2>3, RxParts, Sizes DEF RxStates, n
    <2>5. RecordTypes' /\ MbufTypes'
      BY <1>3, RxParts, FrameTypes
    <2> QED BY <2>1, <2>4, <2>5 DEF RxStepTypes, n
  <1>4. rx.batch \in BOOLEAN
    BY RxParts DEF RxStates
  <1> QED BY <1>1, <1>2, <1>3, <1>4 DEF TakePlace, GiveUp

LEMMA SectionDoneTypes ==
    ASSUME TypeInv, SectionDone
    PROVE  rx' \in RxStates /\ rx'.pc \in {"idle", "count"}
  <1>1. CASE rx' = Idle
    BY <1>1, IdleTypes
  <1>2. CASE rx' = [rx EXCEPT !.pc = "count", !.first = FALSE]
    BY <1>2, RxParts DEF RxStates
  <1> QED BY <1>1, <1>2 DEF SectionDone

LEMMA PublishTypes ==
    ASSUME TypeInv, Publish
    PROVE  RxStepTypes
  <1>1. rx.n < MaxPkt /\ rx.n \in 0..MaxPkt
    BY RxParts, Sizes DEF RxStates, Entries
  <1>2. nRxPkt' \in [Bufs -> 0..MaxPkt]
    <2>1. rx.n + 1 \in 0..MaxPkt
      BY <1>1, Sizes
    <2> QED BY <2>1, RxParts DEF Publish, RecordTypes
  <1>3. RecordTypes'
    BY <1>2, RxParts DEF Publish, RecordTypes
  <1>4. MbufTypes'
    BY RxParts, FrameTypes DEF Publish
  <1>5. CASE SectionDone
    BY <1>3, <1>4, <1>5, SectionDoneTypes DEF RxStepTypes
  <1>6. CASE rx' = [rx EXCEPT !.pc = "replace"]
    <2>1. rx' \in RxStates /\ rx'.n = rx.n
      BY <1>6, RxParts DEF RxStates
    <2> QED BY <1>1, <1>3, <1>4, <2>1 DEF RxStepTypes
  <1> QED BY <1>5, <1>6 DEF Publish

LEMMA ReplaceTypes ==
    ASSUME TypeInv, Replace
    PROVE  RxStepTypes
  <1>1. rx' = [rx EXCEPT !.pc = "fill"]
    BY DEF Replace
  <1>2. rx' \in RxStates
    BY <1>1, RxParts DEF RxStates
  <1>3. RecordTypes'
    BY RxParts, FrameTypes DEF Replace
  <1>4. 0 \in Slots
    BY Sizes DEF Slots
  <1>5. MbufTypes'
    <2>1. CASE UNCHANGED mbufVars
      BY <2>1, RxParts, FrameTypes
    <2>2. ASSUME NEW old, life' = [life EXCEPT ![old] = "free"], slotOf' = [slotOf EXCEPT ![old] = 0]
          PROVE  MbufTypes'
      BY <2>2, <1>4, RxParts DEF MbufTypes
    <2> QED BY <2>1, <2>2 DEF Replace, FreeOld
  <1> QED BY <1>1, <1>2, <1>3, <1>5 DEF RxStepTypes

LEMMA FillTypes ==
    ASSUME TypeInv, Fill
    PROVE  RxStepTypes
  <1>1. rx.m \in Mbufs \cup {None}
    BY RxParts DEF RxStates
  <1>2. rx.n \in Entries
    BY RxParts DEF RxStates
  <1> DEFINE owner == IF rx.first THEN rx.m ELSE None
  <1>3. owner \in Mbufs \cup {None}
    BY <1>1
  <1> HIDE DEF owner
  <1>4. /\ pData' = [pData EXCEPT ![Buf][rx.n] = rx.m]
        /\ pCtrl' = [pCtrl EXCEPT ![Buf][rx.n] = owner]
        /\ nRxPkt' = nRxPkt
    BY DEF Fill, owner
  <1>5. pData' \in [Bufs -> [Entries -> Mbufs \cup {None}]]
    BY <1>1, <1>2, <1>4, RxParts DEF RecordTypes
  <1>6. pCtrl' \in [Bufs -> [Entries -> Mbufs \cup {None}]]
    BY <1>2, <1>3, <1>4, RxParts DEF RecordTypes
  <1>7. RecordTypes'
    BY <1>4, <1>5, <1>6, RxParts DEF RecordTypes
  <1>8. MbufTypes'
    BY RxParts DEF Fill, MbufTypes
  <1>9. CASE SectionDone
    BY <1>7, <1>8, <1>9, SectionDoneTypes DEF RxStepTypes
  <1>10. CASE rx' = [rx EXCEPT !.pc = "publish"]
    <2>1. rx' \in RxStates /\ rx'.n = rx.n
      BY <1>10, RxParts DEF RxStates
    <2> QED BY <1>1, <1>7, <1>8, <2>1 DEF RxStepTypes
  <1> QED BY <1>9, <1>10 DEF Fill

LEMMA ProcessMbufTypes ==
    ASSUME TypeInv, ProcessMbuf
    PROVE  TypeInv'
  <1>1. RxStepTypes
    BY CheckWindowTypes, TakePlaceTypes, PublishTypes, ReplaceTypes, FillTypes DEF ProcessMbuf
  <1>2. UNCHANGED <<clockVars, cb, phySlot, modeVars>>
    BY DEF ProcessMbuf
  <1> QED BY <1>1, <1>2, RxStep

\* What an action of the callback's worker must establish.
CbStepTypes ==
    /\ RecordTypes' /\ MbufTypes' /\ cb' \in CbStates
    /\ phySlot' \in Slots \cup {NoSlot}
    /\ cb'.pc = "clear" => cb'.i < MaxPkt

LEMMA CbParts ==
    ASSUME TypeInv
    PROVE  /\ RecordTypes /\ MbufTypes /\ cb \in CbStates /\ EmptiedBuf(cb.slot) \in Bufs
           /\ phySlot \in Slots \cup {NoSlot}
           /\ cb.pc = "clear" => cb.i < MaxPkt
  <1>1. RecordTypes /\ MbufTypes /\ cb \in CbStates /\ EntryInRange
        /\ phySlot \in Slots \cup {NoSlot}
    BY TypeParts DEF TypeInv
  <1> DEFINE s == cb.slot + BufLen - 1
  <1>2. s \in Int
    BY <1>1, Sizes DEF CbStates, Slots
  <1> HIDE DEF s
  <1>3. s % BufLen \in 0..(BufLen - 1)
    BY <1>2, Sizes, Division
  <1> QED BY <1>1, <1>3 DEF EmptiedBuf, Bufs, s, EntryInRange

LEMMA ReportTypes ==
    ASSUME TypeInv, Report
    PROVE  CbStepTypes
  <1> DEFINE next == IF bbu THEN "free" ELSE "zero"
  <1>1. next \in {"free", "zero"}
    OBVIOUS
  <1>2. cb' = [cb EXCEPT !.pc = next] /\ phySlot' = cb.slot
    BY DEF Report
  <1> HIDE DEF next
  <1>3. cb' \in CbStates /\ cb'.pc = next /\ phySlot' \in Slots
    BY <1>1, <1>2, CbParts DEF CbStates
  <1>4. RecordTypes' /\ MbufTypes'
    BY CbParts, FrameTypes DEF Report
  <1> QED BY <1>1, <1>3, <1>4 DEF CbStepTypes

LEMMA FreeNextTypes ==
    ASSUME TypeInv, FreeNext
    PROVE  CbStepTypes
  <1> DEFINE b == EmptiedBuf(cb.slot)
             mb == pCtrl[b][cb.i]
  <1>1. RecordTypes' /\ phySlot' \in Slots \cup {NoSlot}
    BY CbParts, FrameTypes DEF FreeNext
  <1>2. nRxPkt[b] \in 0..MaxPkt /\ cb.i \in 0..MaxPkt
    BY CbParts DEF RecordTypes, CbStates
  <1>3. CASE cb.i >= nRxPkt[b]
    <2>1. cb' = [cb EXCEPT !.pc = "zero"] /\ UNCHANGED mbufVars
      BY <1>3 DEF FreeNext
    <2>2. cb' \in CbStates /\ cb'.pc = "zero"
      BY <2>1, CbParts DEF CbStates
    <2> QED BY <1>1, <2>1, <2>2, CbParts, FrameTypes DEF CbStepTypes
  <1>4. CASE cb.i < nRxPkt[b] /\ mb = None
    <2>1. cb' = [cb EXCEPT !.i = cb.i + 1] /\ UNCHANGED mbufVars /\ cb.pc = "free"
      BY <1>2, <1>4, Sizes DEF FreeNext
    <2>2. cb.i + 1 \in 0..MaxPkt
      BY <1>2, <1>4, Sizes
    <2>3. cb' \in CbStates /\ cb'.pc = "free"
      BY <2>1, <2>2, CbParts DEF CbStates
    <2> QED BY <1>1, <2>1, <2>3, CbParts, FrameTypes DEF CbStepTypes
  <1>5. CASE cb.i < nRxPkt[b] /\ mb # None
    <2>1. /\ cb' = [cb EXCEPT !.pc = "clear"]
          /\ life' = [life EXCEPT ![mb] = "free"] /\ slotOf' = [slotOf EXCEPT ![mb] = 0]
      BY <1>2, <1>5, Sizes DEF FreeNext
    <2>2. cb' \in CbStates /\ cb'.i = cb.i
      BY <2>1, CbParts DEF CbStates
    <2>3. 0 \in Slots
      BY Sizes DEF Slots
    <2>4. MbufTypes'
      BY <2>1, <2>3, CbParts DEF MbufTypes
    <2>5. cb.i < MaxPkt
      BY <1>2, <1>5, Sizes
    <2> QED BY <1>1, <2>2, <2>4, <2>5 DEF CbStepTypes
  <1>6. cb.i >= nRxPkt[b] \/ cb.i < nRxPkt[b]
    BY <1>2, Sizes
  <1> QED BY <1>3, <1>4, <1>5, <1>6

LEMMA ClearFreedTypes ==
    ASSUME TypeInv, ClearFreed
    PROVE  CbStepTypes
  <1> DEFINE b == EmptiedBuf(cb.slot)
  <1>1. cb.i < MaxPkt /\ cb.i \in 0..MaxPkt
    BY CbParts DEF ClearFreed, CbStates
  <1>2. cb.i + 1 \in 0..MaxPkt
    BY <1>1, Sizes
  <1>3. cb' = [cb EXCEPT !.pc = "free", !.i = cb.i + 1]
    BY DEF ClearFreed
  <1>4. cb' \in CbStates /\ cb'.pc = "free"
    BY <1>2, <1>3, CbParts DEF CbStates
  <1>5. /\ pCtrl' = [pCtrl EXCEPT ![b][cb.i] = None]
        /\ pData' = [pData EXCEPT ![b][cb.i] = None]
        /\ nRxPkt' = nRxPkt
    BY DEF ClearFreed
  <1>6. pCtrl' \in [Bufs -> [Entries -> Mbufs \cup {None}]]
    BY <1>5, CbParts DEF RecordTypes
  <1>7. pData' \in [Bufs -> [Entries -> Mbufs \cup {None}]]
    BY <1>5, CbParts DEF RecordTypes
  <1>8. RecordTypes'
    BY <1>5, <1>6, <1>7, CbParts DEF RecordTypes
  <1>9. MbufTypes' /\ phySlot' \in Slots \cup {NoSlot}
    BY CbParts, FrameTypes DEF ClearFreed
  <1> QED BY <1>4, <1>8, <1>9 DEF CbStepTypes

LEMMA EmptyTypes ==
    ASSUME TypeInv, Empty
    PROVE  CbStepTypes
  <1> DEFINE b == EmptiedBuf(cb.slot)
  <1>1. cb' = CbIdle /\ phySlot' = phySlot /\ pData' = pData /\ pCtrl' = pCtrl
        /\ nRxPkt' = [nRxPkt EXCEPT ![b] = EmptyCount(b)]
    BY DEF Empty
  <1>2. cb' \in CbStates /\ cb'.pc = "idle"
    BY <1>1, Sizes DEF CbIdle, CbStates, Slots
  <1>3. EmptyCount(b) \in 0..MaxPkt
    BY Sizes DEF EmptyCount
  <1>4. RecordTypes'
    BY <1>1, <1>3, CbParts DEF RecordTypes
  <1>5. 0 \in Slots
    BY Sizes DEF Slots
  <1>6. MbufTypes'
    <2>1. life' = [m \in Mbufs |-> IF m \in Owned(b) THEN "done" ELSE life[m]]
      BY DEF Empty
    <2>2. slotOf' = [m \in Mbufs |-> IF m \in Owned(b) THEN 0 ELSE slotOf[m]]
      BY DEF Empty
    <2>3. life' \in [Mbufs -> {"free", "rx", "held", "done"}]
      BY <2>1, CbParts DEF MbufTypes
    <2>4. slotOf' \in [Mbufs -> Slots]
      BY <1>5, <2>2, CbParts DEF MbufTypes
    <2> QED BY <2>3, <2>4 DEF MbufTypes
  <1> QED BY <1>1, <1>2, <1>4, <1>6, CbParts DEF CbStepTypes

LEMMA CallbackTypes ==
    ASSUME TypeInv, FullSlotCallback
    PROVE  TypeInv'
  <1>1. CbStepTypes
    BY ReportTypes, FreeNextTypes, ClearFreedTypes, EmptyTypes DEF FullSlotCallback
  <1>2. UNCHANGED clockVars /\ rx' = rx /\ UNCHANGED modeVars
    BY DEF FullSlotCallback
  <1>3. ClockTypes /\ ModeTypes /\ rx \in RxStates /\ EntryInRange
    BY TypeParts DEF TypeInv
  <1>4. ClockTypes' /\ ModeTypes'
    BY <1>2, <1>3, FrameTypes
  <1>5. EntryInRange'
    BY <1>1, <1>2, <1>3 DEF EntryInRange, CbStepTypes
  <1> QED BY <1>1, <1>2, <1>3, <1>4, <1>5, TypePartsNext DEF TypeInv, CbStepTypes

LEMMA TypeStep == TypeInv /\ [Next]_vars => TypeInv'
  <1> SUFFICES ASSUME TypeInv, [Next]_vars PROVE TypeInv'
    OBVIOUS
  <1>1. CASE Next
    BY <1>1, TimingTypes, ReceiveTypes, ProcessMbufTypes, CallbackTypes DEF Next
  <1>2. CASE UNCHANGED vars
    <2>1. /\ UNCHANGED clockVars /\ UNCHANGED recordVars /\ UNCHANGED modeVars
          /\ UNCHANGED mbufVars /\ rx' = rx /\ cb' = cb /\ phySlot' = phySlot
      BY <1>2 DEF vars
    <2>2. /\ ClockTypes /\ RecordTypes /\ rx \in RxStates /\ cb \in CbStates
          /\ phySlot \in Slots \cup {NoSlot} /\ ModeTypes /\ MbufTypes /\ EntryInRange
      BY TypeParts DEF TypeInv
    <2>3. EntryInRange'
      BY <2>1, <2>2 DEF EntryInRange
    <2> QED BY <2>1, <2>2, <2>3, FrameTypes, TypePartsNext DEF TypeInv
  <1> QED BY <1>1, <1>2

\* Types of the receive path, whatever the sizes of records, slots, seconds and
\* windows: no count exceeds XRAN_MAX_RX_PKT_PER_SYM and no entry is used beyond
\* it (xran_rx_proc.c:575-597, xran_common.c:879-905).
THEOREM TypeCorrect == Spec => []TypeOK
  <1>1. Spec => []TypeInv
    BY TypeInit, TypeStep, PTL DEF Spec
  <1> QED BY <1>1, PTL DEF TypeInv

-----------------------------------------------------------------------------
(* The reception window. *)

\* A packet whose window is being checked is not almost 256 frames late.
NotTooLate == rx.pc = "clock" => Late(rx.slot, rx.at) <= (WrapSlots - 1) * N

LEMMA ClockAndPacket ==
    ASSUME TypeInv
    PROVE  /\ rx \in RxStates /\ rx.slot \in Slots /\ rx.slot \in Nat
           /\ rx.at \in Int /\ rx.idx \in Int
           /\ sfnSecStart \in Int /\ sym \in 0..(N - 1) /\ sym \in Nat
  <1>1. rx \in RxStates /\ sym \in Syms /\ sfnSecStart \in Slots
    BY TypeParts DEF TypeInv, ModeTypes, ClockTypes
  <1>2. sym \in 0..(N - 1)
    BY <1>1, RxAssumption
  <1>3. rx.slot \in Slots /\ rx.at \in Int /\ rx.idx \in Int
    BY <1>1, Sizes DEF RxStates
  <1> QED BY <1>1, <1>2, <1>3, Sizes DEF Slots

LEMMA NotTooLateInit == Init => NotTooLate
  BY DEF Init, Idle, NotTooLate

LEMMA NotTooLateFrame ==
    ASSUME NotTooLate, sym' = sym, rx'.pc = rx.pc, rx'.slot = rx.slot, rx'.at = rx.at
    PROVE  NotTooLate'
  BY DEF NotTooLate, Late

LEMMA NotTooLateStep ==
    ASSUME WindowFits, TypeInv, NotTooLate, [Next]_vars
    PROVE  NotTooLate'
  <1>1. rx \in RxStates /\ sym \in Nat
    BY ClockAndPacket
  <1>2. Aged(rx).pc = rx.pc /\ Aged(rx).slot = rx.slot /\ Aged(rx).at = rx.at
    BY <1>1 DEF Aged, RxStates
  <1>3. CASE NextSymbol \/ NewSecond \/ ResetCounters
    <2>1. rx' = rx \/ rx' = Aged(rx)
      BY <1>3, Zenon DEF NextSymbol, NewSecond, ResetCounters, SymbolBegins
    <2>2. sym' = sym
      BY <1>3 DEF NextSymbol, NewSecond, ResetCounters, modeVars
    <2> QED BY <1>2, <2>1, <2>2, NotTooLateFrame
  <1>4. CASE FullSlotCallback
    BY <1>4, NotTooLateFrame DEF FullSlotCallback, modeVars
  <1>5. CASE UNCHANGED vars
    BY <1>5, NotTooLateFrame DEF vars, modeVars
  <1>6. CASE ProcessMbuf
    <2>1. CASE Drop
      BY <2>1 DEF Drop, Idle, NotTooLate
    <2>2. CASE rx' = Idle
      BY <2>2 DEF Idle, NotTooLate
    <2>3. ASSUME NEW pc \in {"count", "publish", "replace", "fill"}, rx'.pc = pc
          PROVE  NotTooLate'
      BY <2>3 DEF NotTooLate
    <2>4. CASE CheckWindow
      BY <1>1, <2>1, <2>3, <2>4 DEF CheckWindow, RxStates
    <2>5. CASE TakePlace
      <3>1. ASSUME NEW batch \in BOOLEAN,
                   rx' = [rx EXCEPT !.pc = IF batch THEN "replace" ELSE "publish",
                                    !.batch = batch, !.n = nRxPkt[Buf]]
            PROVE  NotTooLate'
        BY <1>1, <3>1 DEF RxStates, NotTooLate
      <3>2. rx.batch \in BOOLEAN
        BY <1>1 DEF RxStates
      <3> QED BY <2>1, <2>2, <2>5, <3>1, <3>2 DEF TakePlace, GiveUp
    <2>6. CASE SectionDone
      BY <1>1, <2>2, <2>3, <2>6 DEF SectionDone, RxStates
    <2>7. CASE Publish
      BY <1>1, <2>3, <2>6, <2>7 DEF Publish, RxStates
    <2>8. CASE Replace
      BY <1>1, <2>3, <2>8 DEF Replace, RxStates
    <2>9. CASE Fill
      BY <1>1, <2>3, <2>6, <2>9 DEF Fill, RxStates
    <2> QED BY <1>6, <2>4, <2>5, <2>7, <2>8, <2>9 DEF ProcessMbuf
  <1>7. ASSUME NEW m \in Mbufs, NEW slot \in Slots, Receive(m, slot)
        PROVE  NotTooLate'
    <2>1. rx'.slot = slot /\ rx'.at = Now /\ sym' = sym
      BY <1>7 DEF Receive, Idle, modeVars
    <2>2. Late(slot, Now) <= IF dropPacketsUp THEN MaxLate ELSE N + Ub - Slack
      BY <1>7 DEF Receive, Delivered
    <2>3. Late(slot, Now) \in Int
      <3> DEFINE d == Now - (slot * N + sym)
                 T == SfnSlots * N
      <3>1. d \in Int /\ T \in Nat \ {0}
        BY <1>1, NowInRange, Sizes DEF TypeInv, Slots
      <3> HIDE DEF d, T
      <3>2. d % T \in 0..(T - 1) /\ T \in Nat
        BY <3>1, Division
      <3> QED BY <3>2 DEF d, T, Late
    <2>4. N + Ub - Slack <= (WrapSlots - 1) * N /\ MaxLate <= (WrapSlots - 1) * N
      <3>1. (WrapSlots - 1) * N = N + N + (WrapSlots - 3) * N
        BY Sizes
      <3>2. (WrapSlots - 3) * N \in Nat
        BY Sizes, Products DEF WindowFits
      <3> QED BY <3>1, <3>2, Sizes DEF WindowFits
    <2>5. (WrapSlots - 1) * N \in Int
      BY Sizes
    <2>6. Late(slot, Now) <= (WrapSlots - 1) * N
      BY <2>2, <2>3, <2>4, <2>5, Sizes
    <2>7. Late(rx.slot, rx.at)' = Late(slot, Now)
      BY <2>1 DEF Late
    <2> QED BY <2>6, <2>7 DEF NotTooLate
  <1> QED BY <1>3, <1>4, <1>5, <1>6, <1>7 DEF Next

LEMMA ExactHere ==
    ASSUME WindowFits, TypeInv, NotTooLate
    PROVE  WindowExact
  <1> SUFFICES ASSUME rx.pc = "clock",
                      OtaTti * N + (rx.idx % N) = rx.at % (WrapSlots * N)
               PROVE  OnTime <=> Late(rx.slot, rx.at) \in Lb..Ub
    BY DEF WindowExact
  <1> DEFINE L == Late(rx.slot, rx.at)
             u == rx.idx % N
  <1>1. /\ rx.slot \in Slots /\ rx.at \in Int /\ rx.idx \in Int /\ sfnSecStart \in Int
        /\ sym \in 0..(N - 1)
    BY ClockAndPacket
  <1>2. u \in 0..(N - 1) /\ rx.idx \div N \in Int
    <2>1. N \in Nat \ {0}
      BY Sizes
    <2> QED BY <1>1, <2>1, Division
  <1>3. OtaTti \in 0..(WrapSlots - 1)
    <2> DEFINE t == sfnSecStart + rx.idx \div N
    <2>1. t \in Int
      BY <1>1, <1>2
    <2> HIDE DEF t
    <2>2. t % WrapSlots \in 0..(WrapSlots - 1)
      <3>1. WrapSlots \in Nat \ {0}
        BY Sizes
      <3> QED BY <2>1, <3>1, Division
    <2> QED BY <2>2 DEF t, OtaTti
  <1>4. PktTti \in 0..(WrapSlots - 1)
    <2>1. WrapSlots \in Nat \ {0} /\ rx.slot \in Int
      BY ClockAndPacket, Sizes
    <2> QED BY <2>1, Division DEF PktTti
  <1>5. L \in Nat /\ L <= (WrapSlots - 1) * N
    <2> DEFINE d == rx.at - (rx.slot * N + sym)
               T == SfnSlots * N
    <2>1. d \in Int /\ T \in Nat \ {0}
      BY <1>1, Sizes DEF Slots
    <2> HIDE DEF d, T
    <2>2. d % T \in Nat
      BY <2>1, Division
    <2>3. L \in Nat
      BY <2>2 DEF d, T, Late
    <2> QED BY <2>3 DEF NotTooLate
  <1>6. rx.at % (WrapSlots * N) = (PktTti * N + sym + L) % (WrapSlots * N)
    BY <1>1, ClockOfPacket DEF PktTti, Late
  <1>7. OtaTti * N + u = (PktTti * N + sym + L) % (WrapSlots * N)
    BY <1>6
  <1> HIDE DEF L, u
  <1>8. LET o == (IF OtaTti = 0 /\ PktTti # 0 THEN WrapSlots ELSE OtaTti) * N + u IN
        PktTti * N + sym + Ub >= o /\ PktTti * N + sym + Lb <= o <=> L \in Lb..Ub
    BY <1>1, <1>2, <1>3, <1>4, <1>5, <1>7, WindowArithmetic
  <1> QED BY <1>8, Zenon DEF OnTime, OtaSymIdx, L, u

\* xran_rx_timing_window_check is exact, for every numerology, position of the
\* second and window that is no longer than a slot: with a consistent reading of
\* the clock it accepts a packet iff Lb..Ub symbols have passed since the
\* packet's own, across the wraps of the second, the 256 frames and the SFN
\* (xran_common.c:221-278).
THEOREM WindowIsExact ==
    ASSUME WindowFits
    PROVE  Spec => []WindowExact
  <1>1. Init => TypeInv /\ NotTooLate
    BY TypeInit, NotTooLateInit
  <1>2. (TypeInv /\ NotTooLate) /\ [Next]_vars => (TypeInv /\ NotTooLate)'
    BY TypeStep, NotTooLateStep
  <1>3. TypeInv /\ NotTooLate => WindowExact
    BY ExactHere
  <1> QED BY <1>1, <1>2, <1>3, PTL DEF Spec

-----------------------------------------------------------------------------
(* Time.  Moments are compared over the frame numbers' wrap. *)

SfnSyms == SfnSlots * N
Same(a, b) == \E k \in Int : a = b + SfnSyms * k

\* The symbol on the air, not reduced.
Tick == sfnSecStart * N + (IF rolling THEN 0 ELSE symIdx)

LEMMA SfnSymsIsNat == SfnSyms \in Nat \ {0}
  BY Sizes DEF SfnSyms

LEMMA SameShift ==
    ASSUME NEW a \in Int, NEW b \in Int, NEW c \in Int, Same(a, b)
    PROVE  Same(a + c, b + c)
  <1>1. PICK k \in Int : a = b + SfnSyms * k
    BY DEF Same
  <1>2. SfnSyms * k \in Int
    BY SfnSymsIsNat
  <1>3. a + c = (b + c) + SfnSyms * k
    BY <1>1, <1>2
  <1> QED BY <1>3 DEF Same

LEMMA SameSymmetric ==
    ASSUME NEW a \in Int, NEW b \in Int, Same(a, b)
    PROVE  Same(b, a)
  <1>1. PICK k \in Int : a = b + SfnSyms * k
    BY DEF Same
  <1>2. SfnSyms * (-k) = -(SfnSyms * k) /\ SfnSyms * k \in Int /\ -k \in Int
    BY SfnSymsIsNat
  <1>3. b = a + SfnSyms * (-k)
    BY <1>1, <1>2
  <1> QED BY <1>2, <1>3 DEF Same

LEMMA SameTransitive ==
    ASSUME NEW a \in Int, NEW b \in Int, NEW c \in Int, Same(a, b), Same(b, c)
    PROVE  Same(a, c)
  <1>1. PICK k \in Int : a = b + SfnSyms * k
    BY DEF Same
  <1>2. PICK j \in Int : b = c + SfnSyms * j
    BY DEF Same
  <1>3. SfnSyms * (k + j) = SfnSyms * k + SfnSyms * j
    BY SfnSymsIsNat
  <1>4. SfnSyms * k \in Int /\ SfnSyms * j \in Int
    BY SfnSymsIsNat
  <1>5. a = c + SfnSyms * (k + j)
    BY <1>1, <1>2, <1>3, <1>4
  <1> QED BY <1>5 DEF Same

LEMMA SameReflexive ==
    ASSUME NEW a \in Int
    PROVE  Same(a, a)
  <1>1. a = a + SfnSyms * 0
    BY SfnSymsIsNat
  <1> QED BY <1>1 DEF Same

\* Equal moments have the same remainder, and a moment is the same as its remainder.
LEMMA SameRemainder ==
    ASSUME NEW a \in Int, NEW b \in Int
    PROVE  /\ Same(a, b) => a % SfnSyms = b % SfnSyms
           /\ Same(a % SfnSyms, a)
  <1>1. ASSUME Same(a, b)
        PROVE  a % SfnSyms = b % SfnSyms
    <2>1. PICK k \in Int : a = b + SfnSyms * k
      BY <1>1 DEF Same
    <2>2. a = SfnSyms * k + b
      BY <2>1, SfnSymsIsNat
    <2> QED BY <2>2, SfnSymsIsNat, Turns
  <1>2. a % SfnSyms \in Int /\ a \div SfnSyms \in Int
        /\ a = SfnSyms * (a \div SfnSyms) + (a % SfnSyms)
    BY SfnSymsIsNat, Division
  <1>3. Same(a, a % SfnSyms)
    <2> DEFINE k == a \div SfnSyms
    <2>1. k \in Int /\ a = (a % SfnSyms) + SfnSyms * k
      BY <1>2, SfnSymsIsNat
    <2> QED BY <2>1 DEF Same
  <1> QED BY <1>1, <1>2, <1>3, SameSymmetric

\* The lateness of a packet, as a number of symbols.
LEMMA Lateness ==
    ASSUME NEW slot \in Slots, sym \in Nat, NEW at \in Int
    PROVE  /\ Late(slot, at) \in 0..(SfnSyms - 1)
           /\ Same(at, slot * N + sym + Late(slot, at))
           /\ \A d \in 0..(SfnSyms - 1) : Same(at, slot * N + sym + d) => Late(slot, at) = d
  <1> DEFINE q == slot * N + sym
             L == Late(slot, at)
  <1>1. q \in Int
    BY Sizes DEF Slots
  <1> HIDE DEF q
  <1>2. L = (at - q) % SfnSyms
    BY DEF Late, SfnSyms, q
  <1>3. L \in 0..(SfnSyms - 1)
    BY <1>1, <1>2, SfnSymsIsNat, Division
  <1>4. Same(at, q + L)
    <2>1. Same(L, at - q)
      BY <1>1, <1>2, SameRemainder
    <2>2. L \in Int /\ at - q \in Int
      BY <1>1, <1>3, SfnSymsIsNat
    <2>3. Same(L + q, (at - q) + q)
      BY <1>1, <2>1, <2>2, SameShift
    <2>4. (at - q) + q = at /\ L + q = q + L /\ q + L \in Int
      BY <1>1, <2>2
    <2> HIDE DEF L
    <2> QED BY <2>3, <2>4, SameSymmetric
  <1>5. ASSUME NEW d \in 0..(SfnSyms - 1), Same(at, q + d)
        PROVE  L = d
    <2>1. d \in Int /\ q + d \in Int /\ -q \in Int
      BY <1>1, SfnSymsIsNat
    <2>2. Same(at + (-q), (q + d) + (-q))
      BY <1>5, <2>1, SameShift
    <2>3. at + (-q) = at - q /\ (q + d) + (-q) = d
      BY <1>1, <2>1
    <2>4. Same(at - q, d)
      BY <2>2, <2>3
    <2>5. (at - q) % SfnSyms = d % SfnSyms
      BY <1>1, <2>1, <2>4, SameRemainder
    <2>6. (SfnSyms * 0 + d) % SfnSyms = d
      BY SfnSymsIsNat, Remainder
    <2>7. SfnSyms * 0 + d = d
      BY SfnSymsIsNat, <2>1
    <2> QED BY <1>2, <2>5, <2>6, <2>7
  <1> QED BY <1>3, <1>4, <1>5 DEF q

\* Two slots that share a record, less than a turn of the records apart, are one.
LEMMA NearSlots ==
    ASSUME RecordsLast, NEW r \in Int, NEW s \in Int, r % BufLen = s % BufLen,
           NEW x \in Int, -(BufLen * N) < x, x < BufLen * N, Same(r * N + x, s * N)
    PROVE  x = 0
  <1> DEFINE i == r \div BufLen
             j == s \div BufLen
             m == r % BufLen
  <1>1. PICK turns \in Nat : SfnSlots = BufLen * turns
    BY Sizes DEF RecordsLast
  <1>2. /\ i \in Int /\ j \in Int /\ m \in Int
        /\ r = BufLen * i + m /\ s = BufLen * j + m
    BY Sizes, Division
  <1>3. PICK k \in Int : r * N + x = s * N + SfnSyms * k
    BY DEF Same
  <1> HIDE DEF i, j, m
  <1> DEFINE B == BufLen * N
             h == j - i + turns * k
  <1>4. B \in Nat /\ B > 0 /\ h \in Int
    BY Sizes, Products, <1>1, <1>2
  <1>5. r * N = B * i + m * N /\ s * N = B * j + m * N
    BY <1>2, Sizes
  <1>6. SfnSyms * k = B * (turns * k)
    BY <1>1, <1>3, Sizes DEF SfnSyms
  <1>7. x = B * h
    <2>1. m * N \in Int /\ B * i \in Int /\ B * j \in Int /\ B * (turns * k) \in Int
      BY <1>1, <1>2, <1>3, <1>4, Sizes
    <2>2. B * h = B * j - B * i + B * (turns * k)
      <3>1. turns * k \in Int
        BY <1>1, <1>3
      <3> HIDE DEF B
      <3> QED BY <1>2, <1>4, <3>1
    <2>3. x = s * N - r * N + B * (turns * k) /\ s * N \in Int /\ r * N \in Int
      <3>1. s * N \in Int /\ r * N \in Int
        BY Sizes
      <3> HIDE DEF B
      <3> QED BY <1>3, <1>6, <2>1, <3>1
    <2> HIDE DEF B, h
    <2>4. x = B * j - B * i + B * (turns * k)
      BY <1>5, <2>1, <2>3
    <2> QED BY <2>2, <2>4
  <1>8. -B < x /\ x < B
    OBVIOUS
  <1> HIDE DEF B, h
  <1>9. h >= 1 => B * h >= B
    BY <1>4
  <1>10. h <= -1 => B * h <= -B
    BY <1>4
  <1>11. h = 0
    BY <1>4, <1>7, <1>8, <1>9, <1>10
  <1> QED BY <1>4, <1>7, <1>11

\* Slots at the same moment are equal.
LEMMA SameSlots ==
    ASSUME NEW r \in Slots, NEW s \in Slots, Same(r * N, s * N)
    PROVE  r = s
  <1>1. r \in Int /\ s \in Int /\ r - s < SfnSlots /\ s - r < SfnSlots
    BY Sizes DEF Slots
  <1>2. PICK k \in Int : r * N = s * N + SfnSyms * k
    BY DEF Same
  <1>3. SfnSyms * k = (SfnSlots * k) * N /\ SfnSlots * k \in Int
    BY <1>2, Sizes DEF SfnSyms
  <1> DEFINE d == r - s - SfnSlots * k
  <1>4. d * N = 0
    <2>1. d * N = r * N - s * N - (SfnSlots * k) * N
      BY <1>1, <1>3, Sizes
    <2> QED BY <1>1, <1>2, <1>3, <2>1, Sizes
  <1>5. d \in Int
    BY <1>1, <1>3
  <1> HIDE DEF d
  <1>6. d = 0
    BY <1>4, <1>5, Sizes
  <1>7. r - s = SfnSlots * k
    BY <1>1, <1>3, <1>6 DEF d
  <1>8. k >= 1 => SfnSlots * k >= SfnSlots
    BY <1>2, Sizes
  <1>9. k <= -1 => SfnSlots * k <= -SfnSlots
    BY <1>2, Sizes
  <1>10. k = 0
    BY <1>1, <1>2, <1>7, <1>8, <1>9, Sizes
  <1> QED BY <1>1, <1>7, <1>10, Sizes

\* A moment less than a slot after a slot's start is a slot's start only if it is the same.
LEMMA SameStart ==
    ASSUME NEW r \in Slots, NEW s \in Slots, NEW x \in Int, 0 <= x, x < N,
           Same(r * N + x, s * N)
    PROVE  x = 0 /\ r = s
  <1>1. r \in Int /\ s \in Int
    BY Sizes DEF Slots
  <1>2. PICK k \in Int : r * N + x = s * N + SfnSyms * k
    BY DEF Same
  <1>3. SfnSyms * k = (SfnSlots * k) * N /\ SfnSlots * k \in Int
    BY <1>2, Sizes DEF SfnSyms
  <1> DEFINE d == s + SfnSlots * k - r
  <1>4. d \in Int /\ d * N = s * N + (SfnSlots * k) * N - r * N
    BY <1>1, <1>3, Sizes
  <1>5. x = d * N
    <2> HIDE DEF d
    <2>1. r * N \in Int /\ s * N \in Int /\ (SfnSlots * k) * N \in Int
      BY <1>1, <1>3, Sizes
    <2> QED BY <1>2, <1>3, <1>4, <2>1
  <1> HIDE DEF d
  <1>6. x = 0
    <2>1. d >= 1 => d * N >= N
      BY <1>4, Sizes
    <2>2. d <= 0 => d * N <= 0
      BY <1>4, Sizes
    <2> QED BY <1>4, <1>5, <2>1, <2>2, Sizes
  <1>7. Same(r * N, s * N)
    <2>1. r * N + x = r * N
      BY <1>1, <1>6, Sizes
    <2> QED BY <2>1
  <1> QED BY <1>6, <1>7, SameSlots

-----------------------------------------------------------------------------
(* The times at which the two workers are at work. *)

\* The receiving worker works at the moment it received the packet, and the callback's
\* one symbol or more after the window of the slot it reports.
RxClock == rx.pc # "idle" => Same(Tick, rx.at + rx.ticks)
CbClock == cb.pc # "idle" => Same(Tick, cb.slot * N + N + Ub + cb.ticks)

\* How late a packet is: what is past the window check is in its window, or is late by
\* what the network may be late.
LateInv == rx.pc # "idle" =>
    Late(rx.slot, rx.at) <= IF ~dropPacketsUp THEN N + Ub - Slack
                            ELSE IF rx.pc = "clock" THEN MaxLate ELSE Ub

\* The clock that the window check will use: that of the packet's arrival, or one of a
\* second later because the second began before the second load, or between the two
\* stores that begin it.
Read == sfnSecStart * N + rx.idx
Second == SecSlots * N
SymOfSecond == IF rolling THEN 0 ELSE symIdx
ReadNow == ~rolling /\ symIdx = rx.idx + rx.ticks /\ Same(Read, rx.at)
ReadOver ==
    rx.idx + rx.ticks = Second + SymOfSecond /\ Same(Read, rx.at + Second)
ReadTorn ==
    rx.idx = Second - 1 /\ rx.ticks = SymOfSecond /\ Same(Read, rx.at + (Second - 1))
ReadInv == rx.pc = "clock" => ReadNow \/ ReadOver \/ ReadTorn

\* The counters are reset next when the second has begun.
RollInv == rolling => symIdx = Second - 1

ClockInv == RxClock /\ CbClock /\ LateInv /\ ReadInv /\ RollInv

LEMMA ClockFacts ==
    ASSUME TypeInv
    PROVE  /\ sfnSecStart \in Slots /\ sfnSecStart \in Nat /\ sfnSecStart * N \in Nat
           /\ symIdx \in Nat /\ symIdx < Second /\ Second \in Nat /\ Second > 0
           /\ rolling \in BOOLEAN /\ SymOfSecond \in Nat /\ SymOfSecond < Second
           /\ Tick \in Nat /\ Tick = sfnSecStart * N + SymOfSecond
           /\ Now = Tick % SfnSyms /\ Now \in 0..(SfnSyms - 1)
           /\ SfnSyms \in Nat /\ SfnSyms > 0
  <1>1. sfnSecStart \in Slots /\ symIdx \in 0..(SecSlots * N - 1) /\ rolling \in BOOLEAN
    BY TypeParts DEF TypeInv, ClockTypes
  <1>2. sfnSecStart \in Nat /\ sfnSecStart * N \in Nat
    BY <1>1, Sizes, Products DEF Slots
  <1>3. Second \in Nat /\ Second > 0 /\ symIdx \in Nat /\ symIdx < Second
    BY <1>1, Sizes DEF Second
  <1>4. SymOfSecond \in Nat /\ SymOfSecond < Second
    BY <1>3 DEF SymOfSecond
  <1>5. Tick = sfnSecStart * N + SymOfSecond /\ Tick \in Nat
    BY <1>2, <1>4 DEF Tick, SymOfSecond
  <1>6. Now = Tick % SfnSyms
    BY DEF Now, Tick, SfnSyms
  <1>7. Now \in 0..(SfnSyms - 1)
    BY NowInRange DEF TypeInv, SfnSyms
  <1> QED BY <1>1, <1>2, <1>3, <1>4, <1>5, <1>6, <1>7, SfnSymsIsNat

LEMMA RxFacts ==
    ASSUME TypeInv
    PROVE  /\ rx.slot \in Slots /\ rx.slot \in Nat /\ rx.slot * N \in Nat
           /\ rx.at \in Nat /\ rx.idx \in Nat /\ rx.idx < Second
           /\ rx.ticks \in Nat /\ rx.ticks <= Slack
           /\ sym \in Nat /\ sym < N /\ Buf \in Bufs
  <1>1. rx \in RxStates /\ sym \in 0..(N - 1) /\ rx.slot \in Slots
    BY ClockAndPacket
  <1>2. rx.at \in 0..(SfnSlots * N - 1) /\ rx.idx \in 0..(SecSlots * N - 1)
        /\ rx.ticks \in 0..Slack
    BY <1>1 DEF RxStates
  <1>3. rx.slot \in Nat /\ rx.slot * N \in Nat
    BY <1>1, Sizes, Products DEF Slots
  <1> QED BY <1>1, <1>2, <1>3, Sizes, RxParts DEF Second

LEMMA CbFacts ==
    ASSUME TypeInv
    PROVE  /\ cb.slot \in Slots /\ cb.slot \in Nat /\ cb.slot * N \in Nat
           /\ cb.ticks \in Nat /\ cb.ticks <= Slack
  <1>1. cb \in CbStates
    BY TypeParts DEF TypeInv
  <1>2. cb.slot \in Slots /\ cb.ticks \in 0..Slack
    BY <1>1 DEF CbStates
  <1>3. cb.slot \in Nat /\ cb.slot * N \in Nat
    BY <1>2, Sizes, Products DEF Slots
  <1> QED BY <1>2, <1>3, Sizes

\* What the timing thread's steps do to the clock and to the workers.
Ticked(worker) == worker' = Aged(worker)

LEMMA AgedFields ==
    ASSUME TypeInv
    PROVE  /\ Aged(rx).pc = rx.pc /\ Aged(rx).slot = rx.slot /\ Aged(rx).at = rx.at
           /\ Aged(rx).m = rx.m /\ Aged(rx).first = rx.first /\ Aged(rx).batch = rx.batch
           /\ Aged(rx).idx = rx.idx /\ Aged(rx).n = rx.n
           /\ rx.pc # "idle" => Aged(rx).ticks = rx.ticks + 1
           /\ Aged(cb).pc = cb.pc /\ Aged(cb).slot = cb.slot /\ Aged(cb).i = cb.i
           /\ cb.pc # "idle" => Aged(cb).ticks = cb.ticks + 1
  <1>1. rx \in RxStates /\ cb \in CbStates
    BY TypeParts DEF TypeInv
  <1> QED BY <1>1 DEF Aged, RxStates, CbStates

LEMMA TickStep ==
    ASSUME TypeInv, NextSymbol \/ NewSecond
    PROVE  /\ Same(Tick', Tick + 1) /\ Tick' \in Int
           /\ ~rolling /\ rx' = Aged(rx) /\ sym' = sym /\ dropPacketsUp' = dropPacketsUp
           /\ WorkersKeepUp
  <1>1. Tick \in Nat /\ SfnSyms \in Nat \ {0} /\ sfnSecStart * N \in Nat
        /\ sfnSecStart \in Nat /\ symIdx \in Nat
    BY ClockFacts
  <1>2. ~rolling /\ rx' = Aged(rx) /\ sym' = sym /\ dropPacketsUp' = dropPacketsUp /\ WorkersKeepUp
    BY DEF NextSymbol, NewSecond, SymbolBegins, modeVars
  <1>3. Same(Tick', Tick + 1) /\ Tick' \in Int
    <2>1. CASE NextSymbol
      <3>1. Tick' = Tick + 1
        BY <1>1, <2>1 DEF NextSymbol, SymbolBegins, Tick
      <3> QED BY <1>1, <3>1, SameReflexive
    <2>2. CASE NewSecond
      <3> DEFINE v == sfnSecStart + SecSlots
                 q == v \div SfnSlots
                 w == v % SfnSlots
      <3>1. w \in Int /\ q \in Int /\ v = SfnSlots * q + w
        BY <1>1, Sizes, Division
      <3>2. Tick' = w * N /\ Tick + 1 = v * N
        <4>1. Tick' = w * N
          BY <2>2, <3>1, Sizes DEF NewSecond, Tick
        <4>2. Tick + 1 = sfnSecStart * N + SecSlots * N
          BY <1>1, <2>2, Sizes DEF NewSecond, Tick
        <4>3. v * N = sfnSecStart * N + SecSlots * N
          BY <1>1, Sizes
        <4> QED BY <4>1, <4>2, <4>3
      <3> HIDE DEF v, q, w
      <3>3. v * N = w * N + SfnSyms * q
        BY <3>1, Sizes DEF SfnSyms
      <3>4. Same(v * N, w * N)
        BY <3>1, <3>3 DEF Same
      <3>5. v * N \in Int /\ w * N \in Int
        BY <1>1, <3>2
      <3> QED BY <3>2, <3>4, <3>5, SameSymmetric
    <2> QED BY <2>1, <2>2
  <1> QED BY <1>1, <1>2, <1>3

LEMMA ResetStep ==
    ASSUME TypeInv, ResetCounters
    PROVE  /\ Tick' = Tick /\ rolling /\ rx' = rx /\ sym' = sym
           /\ dropPacketsUp' = dropPacketsUp /\ SymOfSecond' = SymOfSecond
           /\ sfnSecStart' = sfnSecStart /\ SymbolBegins(0)
  BY DEF ResetCounters, SymbolBegins, Tick, SymOfSecond, modeVars

\* The callback that a symbol arms is for the slot before the one whose window ends.
LEMMA ArmedStep ==
    ASSUME RecordsLast, TypeInv, NEW idx \in 0..(Second - 1), SymbolBegins(idx),
           idx % N = DeadlineSym
    PROVE  /\ cb.pc = "idle" /\ cb'.pc = "armed" /\ cb'.ticks = 0 /\ cb'.slot \in Slots
           /\ Same(sfnSecStart * N + idx, cb'.slot * N + N + Ub)
  <1>1. cb.pc = "idle" /\ cb' = [CbIdle EXCEPT !.pc = "armed", !.slot = FullSlot(idx)]
    BY DEF SymbolBegins
  <1>2. cb'.pc = "armed" /\ cb'.ticks = 0 /\ cb'.slot = FullSlot(idx)
    BY <1>1 DEF CbIdle
  <1>3. idx \in Nat /\ sfnSecStart \in Nat /\ sfnSecStart * N \in Nat
    BY ClockFacts
  <1>4. FullSlot(idx) \in Slots
    BY <1>3, FullSlotInRange DEF TypeInv
  <1>5. DeadlineSym = Ub /\ SlotAdvance = 0
    <2>1. N * 0 + Ub = Ub /\ Ub \in 0..(N - 1)
      BY Sizes DEF RecordsLast
    <2>2. (N * 0 + Ub) % N = Ub
      BY <2>1, Sizes, Remainder
    <2> QED BY <2>1, <2>2, Sizes DEF DeadlineSym, SlotAdvance, RecordsLast
  <1> DEFINE d == idx \div N
             v == sfnSecStart + d + SfnSlots - 1
             q == v \div SfnSlots
             w == v % SfnSlots
  <1>6. d \in Int /\ idx = N * d + Ub
    BY <1>3, <1>5, Sizes, Division
  <1>7. v \in Int
    BY <1>3, <1>6, Sizes
  <1>8. w \in Int /\ q \in Int /\ v = SfnSlots * q + w
    <2> HIDE DEF v
    <2> QED BY <1>7, Sizes, Division
  <1>9. FullSlot(idx) = w
    <2>1. sfnSecStart + d + SfnSlots - 1 - 0 = v
      BY <1>3, <1>6, Sizes
    <2> QED BY <1>5, <2>1 DEF FullSlot
  <1>10. v * N = sfnSecStart * N + N * d + SfnSyms - N
    <2>1. v * N = sfnSecStart * N + d * N + SfnSlots * N - N
      BY <1>3, <1>6, Sizes
    <2> QED BY <2>1, <1>6, Sizes DEF SfnSyms
  <1> HIDE DEF w, q, v, d
  <1>11. v * N = w * N + SfnSyms * q
    BY <1>8, Sizes DEF SfnSyms
  <1>12. SfnSyms * (q - 1) = SfnSyms * q - SfnSyms
    BY <1>8, SfnSymsIsNat
  <1>13. sfnSecStart * N + idx = (w * N + N + Ub) + SfnSyms * (q - 1)
    <2>1. N * d \in Int /\ SfnSyms * q \in Int /\ w * N \in Int
      BY <1>6, <1>8, Sizes, SfnSymsIsNat
    <2> DEFINE x == N * d
               y == SfnSyms * q
               z == w * N
               u == sfnSecStart * N
               p == SfnSyms * (q - 1)
    <2>2. x \in Int /\ y \in Int /\ z \in Int /\ u \in Int /\ SfnSyms \in Int
      BY <2>1, <1>3, SfnSymsIsNat
    <2>3. idx = x + Ub /\ v * N = u + x + SfnSyms - N /\ v * N = z + y /\ p = y - SfnSyms
      BY <1>6, <1>10, <1>11, <1>12
    <2> HIDE DEF x, y, z, u, p
    <2>4. u + idx = (z + N + Ub) + p
      BY <2>2, <2>3, Sizes
    <2> QED BY <2>4 DEF u, z, p
  <1>14. q - 1 \in Int
    BY <1>8
  <1>15. Same(sfnSecStart * N + idx, w * N + N + Ub)
    BY <1>13, <1>14 DEF Same
  <1> QED BY <1>1, <1>2, <1>4, <1>9, <1>15

\* What the receiving worker does to its locals: it is done, or goes on with the same
\* packet.
RxGoesOn ==
    /\ rx.pc # "idle" /\ rx'.pc \in {"count", "publish", "replace", "fill"}
    /\ rx'.at = rx.at /\ rx'.slot = rx.slot /\ rx'.m = rx.m /\ rx'.ticks = rx.ticks
    /\ rx.pc = "clock" => OnTime \/ ~dropPacketsUp

LEMMA RxStepKeeps ==
    ASSUME TypeInv, ProcessMbuf
    PROVE  (rx' = Idle \/ RxGoesOn) /\ rx.pc # "idle" /\ UNCHANGED <<clockVars, cb, phySlot, modeVars>>
  <1>1. rx \in RxStates
    BY ClockAndPacket
  <1>2. UNCHANGED <<clockVars, cb, phySlot, modeVars>>
    BY DEF ProcessMbuf
  <1>3. Drop => rx' = Idle
    BY DEF Drop
  <1>4. CASE CheckWindow
    BY <1>1, <1>2, <1>3, <1>4 DEF CheckWindow, RxStates, RxGoesOn
  <1>5. CASE TakePlace
    <2>1. ASSUME NEW batch,
                 rx' = [rx EXCEPT !.pc = IF batch THEN "replace" ELSE "publish",
                                  !.batch = batch, !.n = nRxPkt[Buf]]
          PROVE  RxGoesOn
      BY <1>1, <1>5, <2>1 DEF RxStates, RxGoesOn, TakePlace
    <2>2. rx.pc # "idle"
      BY <1>5 DEF TakePlace
    <2> QED BY <1>2, <1>3, <1>5, <2>1, <2>2 DEF TakePlace, GiveUp
  <1>6. rx.pc \in {"publish", "replace", "fill"} /\ SectionDone => rx' = Idle \/ RxGoesOn
    BY <1>1 DEF SectionDone, RxStates, RxGoesOn
  <1>7. CASE Publish
    BY <1>1, <1>2, <1>6, <1>7 DEF Publish, RxStates, RxGoesOn
  <1>8. CASE Replace
    BY <1>1, <1>2, <1>8 DEF Replace, RxStates, RxGoesOn
  <1>9. CASE Fill
    BY <1>1, <1>2, <1>6, <1>9 DEF Fill, RxStates, RxGoesOn
  <1> QED BY <1>4, <1>5, <1>7, <1>8, <1>9 DEF ProcessMbuf

LEMMA CbStepKeeps ==
    ASSUME TypeInv, FullSlotCallback
    PROVE  /\ cb.pc # "idle" /\ UNCHANGED <<clockVars, rx, modeVars>>
           /\ \/ cb' = CbIdle
              \/ /\ cb'.pc \in {"free", "clear", "zero"} /\ cb'.slot = cb.slot
                 /\ cb'.ticks = cb.ticks
  <1>1. cb \in CbStates
    BY TypeParts DEF TypeInv
  <1>2. cb.pc # "idle" /\ UNCHANGED <<clockVars, rx, modeVars>>
    BY DEF FullSlotCallback, Report, FreeNext, ClearFreed, Empty
  <1>3. CASE Report
    BY <1>1, <1>2, <1>3 DEF Report, CbStates
  <1>4. CASE FreeNext
    BY <1>1, <1>2, <1>4 DEF FreeNext, CbStates
  <1>5. CASE ClearFreed
    BY <1>1, <1>2, <1>5 DEF ClearFreed, CbStates
  <1>6. CASE Empty
    BY <1>2, <1>6 DEF Empty
  <1> QED BY <1>3, <1>4, <1>5, <1>6 DEF FullSlotCallback

\* A packet that the check lets pass is in its window, whatever moment was read: a clock
\* of a second later makes it seem later than it is.
LEMMA OnTimeIsInWindow ==
    ASSUME WindowFits, RecordsLast, TypeInv, ClockInv, rx.pc = "clock", dropPacketsUp, OnTime
    PROVE  Late(rx.slot, rx.at) <= Ub
  <1> DEFINE L == Late(rx.slot, rx.at)
             u == rx.idx % N
             q == rx.slot * N + sym
  <1>1. /\ rx.slot \in Slots /\ rx.at \in Int /\ rx.idx \in Int /\ sfnSecStart \in Int
        /\ sym \in 0..(N - 1) /\ q \in Nat /\ Second \in Nat \ {0} /\ sym \in Nat
    BY ClockAndPacket, RxFacts, ClockFacts
  <1>2. PICK d \in Int : 0 <= d /\ d <= Second /\ Same(Read, rx.at + d)
    <2>1. CASE ReadNow
      BY <1>1, <2>1 DEF ReadNow
    <2>2. CASE ReadOver
      BY <1>1, <2>2 DEF ReadOver
    <2>3. CASE ReadTorn
      BY <1>1, <2>3 DEF ReadTorn
    <2> QED BY <2>1, <2>2, <2>3 DEF ClockInv, ReadInv
  <1>3. L \in 0..(SfnSyms - 1) /\ Same(rx.at, q + L)
    BY <1>1, Lateness
  <1>4. (WrapSlots - 1) * N < SfnSyms /\ L + d <= (WrapSlots - 1) * N
    <2>1. (WrapSlots - 1 - SecSlots) * N = (WrapSlots - 1) * N - Second /\ (WrapSlots - 1) * N \in Int
      BY Sizes DEF Second
    <2>2. L <= MaxLate
      BY DEF ClockInv, LateInv
    <2>3. L + d <= (WrapSlots - 1) * N
      <3> HIDE DEF L
      <3> QED BY <1>1, <1>2, <1>3, <2>1, <2>2, Sizes, SfnSymsIsNat DEF RecordsLast
    <2>4. PICK turns \in 1..SfnSlots : SfnSlots = WrapSlots * turns
      BY DEF WindowFits
    <2>5. turns \in Nat /\ turns > 0 /\ SfnSyms = (WrapSlots * N) * turns
      BY <2>4, Sizes DEF SfnSyms
    <2>6. (WrapSlots * N) * turns >= WrapSlots * N
      BY <2>5, Sizes
    <2>7. (WrapSlots - 1) * N = WrapSlots * N - N
      BY Sizes
    <2> QED BY <2>3, <2>5, <2>6, <2>7, Sizes
  <1> HIDE DEF L, q
  <1>5. L + d \in 0..(SfnSyms - 1) /\ L \in Nat
    <2>1. (WrapSlots - 1) * N \in Int
      BY Sizes
    <2> QED BY <1>2, <1>3, <1>4, <2>1, SfnSymsIsNat
  <1>6. Same(rx.at + d, q + (L + d))
    <2>1. Same(rx.at + d, (q + L) + d)
      <3>1. q + L \in Int
        BY <1>1, <1>5
      <3> QED BY <1>1, <1>2, <1>3, <3>1, SameShift
    <2>2. (q + L) + d = q + (L + d)
      BY <1>1, <1>2, <1>5
    <2> QED BY <2>1, <2>2
  <1>7. Late(rx.slot, rx.at + d) = L + d
    <2>1. rx.at + d \in Int
      BY <1>1, <1>2
    <2> QED BY <1>1, <1>5, <1>6, <2>1, Lateness DEF q
  <1> DEFINE K == WrapSlots * N
             a == rx.at + d
  <1>8. a % K = (PktTti * N + sym + (L + d)) % K
    <2>1. a \in Int
      BY <1>1, <1>2
    <2>2. a % K = (PktTti * N + sym + ((a - (rx.slot * N + sym)) % (SfnSlots * N))) % K
      BY <1>1, <2>1, ClockOfPacket DEF PktTti
    <2>3. (a - (rx.slot * N + sym)) % (SfnSlots * N) = L + d
      BY <1>7 DEF Late
    <2> QED BY <2>2, <2>3
  <1>9. Read % K = a % K
    <2>1. PICK k \in Int : Read = a + SfnSyms * k
      BY <1>2 DEF Same
    <2>2. PICK turns \in 1..SfnSlots : SfnSlots = WrapSlots * turns
      BY DEF WindowFits
    <2>3. turns \in Nat
      BY <2>2
    <2>4. SfnSyms * k = K * (turns * k) /\ turns * k \in Int
      BY <2>1, <2>2, <2>3, Sizes DEF SfnSyms
    <2>5. a \in Int /\ K \in Nat \ {0}
      BY <1>1, <1>2, Sizes
    <2> HIDE DEF a, K
    <2>6. Read = K * (turns * k) + a
      BY <2>1, <2>4, <2>5, SfnSymsIsNat
    <2> QED BY <2>4, <2>5, <2>6, Turns
  <1>10. u \in 0..(N - 1) /\ rx.idx \div N \in Int /\ rx.idx = N * (rx.idx \div N) + u
    <2>1. N \in Nat \ {0} /\ rx.idx \in Int
      BY <1>1, Sizes
    <2> QED BY <2>1, Division
  <1> HIDE DEF u
  <1>11. OtaTti \in 0..(WrapSlots - 1) /\ OtaTti * N + u = Read % K
    <2> DEFINE e == rx.idx \div N
               t == sfnSecStart + e
               j == t \div WrapSlots
    <2>1. t \in Int
      BY <1>1, <1>10
    <2> HIDE DEF t
    <2>2. t % WrapSlots \in 0..(WrapSlots - 1) /\ j \in Int
          /\ t = WrapSlots * j + (t % WrapSlots)
      BY <2>1, Sizes, Division
    <2>3. OtaTti = t % WrapSlots
      BY DEF OtaTti, t
    <2> HIDE DEF j
    <2>4. t * N = K * j + OtaTti * N
      <3>1. t * N = (WrapSlots * j + OtaTti) * N /\ OtaTti \in Int
        BY <2>2, <2>3
      <3>2. (WrapSlots * j + OtaTti) * N = (WrapSlots * N) * j + OtaTti * N
        BY <2>2, <3>1, Sizes
      <3> QED BY <3>1, <3>2
    <2>5. Read = t * N + u
      <3>1. t * N = sfnSecStart * N + e * N /\ e * N = N * e
        BY <1>1, <1>10, Sizes DEF t
      <3>2. e \in Int /\ N * e \in Int /\ sfnSecStart * N \in Int
        BY <1>1, <1>10, Sizes
      <3>3. Read = sfnSecStart * N + rx.idx /\ rx.idx = N * e + u
        BY <1>10 DEF Read
      <3> HIDE DEF e
      <3> QED BY <1>10, <3>1, <3>2, <3>3, Sizes
    <2>6. OtaTti * N + u \in 0..(K - 1)
      <3>1. OtaTti * N + N <= K /\ OtaTti * N \in Nat
        <4>1. (WrapSlots - 1 - OtaTti) * N \in Nat
              /\ (WrapSlots - 1 - OtaTti) * N = K - N - OtaTti * N
          BY <2>2, <2>3, Sizes, Products
        <4>2. OtaTti * N \in Nat /\ K \in Nat
          BY <2>2, <2>3, Sizes, Products
        <4> HIDE DEF K
        <4> QED BY <4>1, <4>2, Sizes
      <3>2. K \in Nat
        BY Sizes
      <3> HIDE DEF K
      <3> QED BY <1>10, <3>1, <3>2, Sizes
    <2>7. Read = K * j + (OtaTti * N + u)
      <3>1. K * j \in Int /\ OtaTti * N \in Int
        BY <2>2, <2>3, Sizes
      <3> HIDE DEF K
      <3> QED BY <1>10, <2>4, <2>5, <3>1, Sizes
    <2>8. K \in Nat \ {0}
      BY Sizes
    <2> HIDE DEF K
    <2>9. (K * j + (OtaTti * N + u)) % K = OtaTti * N + u
      BY <2>2, <2>6, <2>8, Remainder
    <2> QED BY <2>2, <2>3, <2>7, <2>9
  <1>12. OtaTti * N + u = (PktTti * N + sym + (L + d)) % (WrapSlots * N)
    BY <1>8, <1>9, <1>11
  <1>13. PktTti \in 0..(WrapSlots - 1)
    <2>1. WrapSlots \in Nat \ {0} /\ rx.slot \in Int
      BY RxFacts, Sizes
    <2> QED BY <2>1, Division DEF PktTti
  <1>14. L + d \in Nat /\ L + d <= (WrapSlots - 1) * N
    BY <1>4, <1>5
  <1>15. LET o == (IF OtaTti = 0 /\ PktTti # 0 THEN WrapSlots ELSE OtaTti) * N + u IN
         PktTti * N + sym + Ub >= o /\ PktTti * N + sym + Lb <= o <=> L + d \in Lb..Ub
    BY <1>1, <1>10, <1>11, <1>12, <1>13, <1>14, WindowArithmetic
  <1>16. L + d \in Lb..Ub
    BY <1>15, Zenon DEF OnTime, OtaSymIdx, u
  <1> QED BY <1>2, <1>5, <1>16, Sizes DEF L

LEMMA ClockInvInit == Init => ClockInv
  BY DEF Init, Idle, CbIdle, ClockInv, RxClock, CbClock, LateInv, ReadInv, RollInv

\* Steps of the workers do not move the clock.
LEMMA StillTick ==
    ASSUME UNCHANGED clockVars
    PROVE  Tick' = Tick /\ SymOfSecond' = SymOfSecond
  BY DEF clockVars, Tick, SymOfSecond

LEMMA RxClockStep ==
    ASSUME TypeInv, RxClock, [Next]_vars
    PROVE  RxClock'
  <1>1. Tick \in Int /\ rx.at \in Int /\ rx.ticks \in Int /\ Now = Tick % SfnSyms
        /\ rx.at + rx.ticks \in Int
    BY ClockFacts, RxFacts
  <1>2. CASE NextSymbol \/ NewSecond
    <2>1. /\ Same(Tick', Tick + 1) /\ Tick' \in Int /\ rx' = Aged(rx)
      BY <1>2, TickStep
    <2>2. SUFFICES ASSUME rx'.pc # "idle"
                   PROVE  Same(Tick', rx'.at + rx'.ticks)
      BY DEF RxClock
    <2>3. rx.pc # "idle" /\ rx'.at = rx.at /\ rx'.ticks = rx.ticks + 1
      BY <2>1, <2>2, AgedFields
    <2>4. Same(Tick, rx.at + rx.ticks)
      BY <2>3 DEF RxClock
    <2>5. Same(Tick + 1, (rx.at + rx.ticks) + 1)
      BY <1>1, <2>4, SameShift
    <2>6. Same(Tick', (rx.at + rx.ticks) + 1)
      BY <1>1, <2>1, <2>5, SameTransitive
    <2>7. (rx.at + rx.ticks) + 1 = rx'.at + rx'.ticks
      BY <1>1, <2>3
    <2> QED BY <2>6, <2>7
  <1>3. CASE ResetCounters
    BY <1>3, ResetStep DEF RxClock
  <1>4. ASSUME NEW m \in Mbufs, NEW slot \in Slots, Receive(m, slot)
        PROVE  RxClock'
    <2>1. rx'.at = Now /\ rx'.ticks = 0 /\ Tick' = Tick
      BY <1>4, StillTick DEF Receive, Idle
    <2>2. Same(Now, Tick)
      BY <1>1, SameRemainder
    <2>3. Now \in Int /\ Now + 0 = Now
      BY ClockFacts
    <2>4. Same(Tick, Now)
      BY <1>1, <2>2, <2>3, SameSymmetric
    <2> QED BY <2>1, <2>3, <2>4 DEF RxClock
  <1>5. CASE ProcessMbuf
    <2>1. (rx' = Idle \/ RxGoesOn) /\ Tick' = Tick
      BY <1>5, RxStepKeeps, StillTick
    <2> QED BY <2>1 DEF RxClock, Idle, RxGoesOn
  <1>6. CASE FullSlotCallback
    BY <1>6, CbStepKeeps, StillTick DEF RxClock
  <1>7. CASE UNCHANGED vars
    BY <1>7, StillTick DEF RxClock, vars
  <1> QED BY <1>2, <1>3, <1>4, <1>5, <1>6, <1>7 DEF Next

LEMMA CbClockStep ==
    ASSUME RecordsLast, TypeInv, CbClock, [Next]_vars
    PROVE  CbClock'
  <1>1. Tick \in Int /\ cb.slot * N \in Int /\ cb.ticks \in Int /\ sfnSecStart * N \in Int
        /\ SfnSyms \in Nat \ {0} /\ symIdx \in Int
    BY ClockFacts, CbFacts
  <1>2. ASSUME NEW idx \in 0..(Second - 1), SymbolBegins(idx), idx % N = DeadlineSym,
               Tick' = sfnSecStart * N + idx
        PROVE  CbClock'
    <2>1. cb'.ticks = 0 /\ cb'.slot \in Slots
          /\ Same(sfnSecStart * N + idx, cb'.slot * N + N + Ub)
      BY <1>2, ArmedStep
    <2>2. cb'.slot * N + N + Ub + 0 = cb'.slot * N + N + Ub
      BY <2>1, Sizes DEF Slots
    <2> QED BY <1>2, <2>1, <2>2 DEF CbClock
  <1>3. ASSUME cb' = Aged(cb), Same(Tick', Tick + 1), Tick' \in Int
        PROVE  CbClock'
    <2>1. SUFFICES ASSUME cb'.pc # "idle"
                   PROVE  Same(Tick', cb'.slot * N + N + Ub + cb'.ticks)
      BY DEF CbClock
    <2>2. cb.pc # "idle" /\ cb'.slot = cb.slot /\ cb'.ticks = cb.ticks + 1
      BY <1>3, <2>1, AgedFields
    <2> DEFINE a == cb.slot * N + N + Ub + cb.ticks
    <2>3. Same(Tick, a)
      BY <2>2 DEF CbClock
    <2>4. a \in Int /\ a + 1 = cb'.slot * N + N + Ub + cb'.ticks
      <3> DEFINE y == cb.slot * N
      <3>1. cb'.slot * N = y /\ y \in Int
        BY <1>1, <2>2
      <3> HIDE DEF y
      <3> QED BY <1>1, <2>2, <3>1, Sizes DEF y
    <2> HIDE DEF a
    <2>5. Same(Tick + 1, a + 1)
      BY <1>1, <2>3, <2>4, SameShift
    <2>6. Same(Tick', a + 1)
      BY <1>1, <1>3, <2>4, <2>5, SameTransitive
    <2> QED BY <2>4, <2>6
  <1>4. CASE NextSymbol
    <2>1. Same(Tick', Tick + 1) /\ Tick' \in Int
      BY <1>4, TickStep
    <2>2. symIdx + 1 \in 0..(Second - 1) /\ SymbolBegins(symIdx + 1) /\ ~rolling
          /\ Tick' = sfnSecStart * N + (symIdx + 1)
      BY <1>4, ClockFacts DEF NextSymbol, SymbolBegins, Tick, Second
    <2>3. (symIdx + 1) % N # DeadlineSym => cb' = Aged(cb)
      BY <2>2 DEF SymbolBegins
    <2> QED BY <1>2, <1>3, <2>1, <2>2, <2>3
  <1>5. CASE NewSecond
    <2>1. cb' = Aged(cb)
      BY <1>5 DEF NewSecond
    <2> QED BY <1>3, <1>5, <2>1, TickStep
  <1>6. CASE ResetCounters
    <2>1. Tick' = Tick /\ SymbolBegins(0) /\ rolling /\ Tick = sfnSecStart * N + 0
      BY <1>6, ResetStep DEF Tick
    <2>2. 0 \in 0..(Second - 1)
      BY ClockFacts
    <2>3. 0 % N # DeadlineSym => cb' = cb
      BY <2>1 DEF SymbolBegins
    <2>4. CASE 0 % N = DeadlineSym
      BY <1>2, <2>1, <2>2, <2>4
    <2>5. CASE cb' = cb
      BY <2>1, <2>5 DEF CbClock
    <2> QED BY <2>3, <2>4, <2>5
  <1>7. ASSUME NEW m \in Mbufs, NEW slot \in Slots, Receive(m, slot)
        PROVE  CbClock'
    BY <1>7, StillTick DEF Receive, CbClock
  <1>8. CASE ProcessMbuf
    BY <1>8, StillTick DEF ProcessMbuf, CbClock
  <1>9. CASE FullSlotCallback
    BY <1>9, CbStepKeeps, StillTick DEF CbClock, CbIdle
  <1>10. CASE UNCHANGED vars
    BY <1>10, StillTick DEF CbClock, vars
  <1> QED BY <1>4, <1>5, <1>6, <1>7, <1>8, <1>9, <1>10 DEF Next

LEMMA LateInvStep ==
    ASSUME WindowFits, RecordsLast, TypeInv, ClockInv, [Next]_vars
    PROVE  LateInv'
  <1>1. /\ dropPacketsUp' = dropPacketsUp /\ sym' = sym
    BY DEF Next, NextSymbol, NewSecond, ResetCounters, Receive, ProcessMbuf, FullSlotCallback,
           modeVars, vars
  <1>2. ASSUME rx'.pc = rx.pc, rx'.slot = rx.slot, rx'.at = rx.at
        PROVE  LateInv'
    BY <1>1, <1>2 DEF ClockInv, LateInv, Late
  <1>3. CASE NextSymbol \/ NewSecond
    BY <1>2, <1>3, TickStep, AgedFields
  <1>4. CASE ResetCounters
    BY <1>2, <1>4, ResetStep
  <1>5. ASSUME NEW m \in Mbufs, NEW slot \in Slots, Receive(m, slot)
        PROVE  LateInv'
    <2>1. rx'.slot = slot /\ rx'.at = Now /\ rx'.pc = "clock"
      BY <1>5 DEF Receive, Idle
    <2>2. Late(slot, Now) <= IF dropPacketsUp THEN MaxLate ELSE N + Ub - Slack
      BY <1>5 DEF Receive, Delivered
    <2>3. Late(rx.slot, rx.at)' = Late(slot, Now)
      BY <1>1, <2>1 DEF Late
    <2> QED BY <1>1, <2>1, <2>2, <2>3 DEF LateInv
  <1>6. CASE ProcessMbuf
    <2>1. CASE rx' = Idle
      BY <2>1 DEF Idle, LateInv
    <2>2. CASE RxGoesOn
      <3>1. Late(rx.slot, rx.at)' = Late(rx.slot, rx.at) /\ rx.pc # "idle" /\ rx'.pc # "clock"
        BY <1>1, <2>2 DEF RxGoesOn, Late
      <3>2. dropPacketsUp => Late(rx.slot, rx.at) <= Ub
        BY <2>2, OnTimeIsInWindow DEF RxGoesOn, ClockInv, LateInv
      <3> QED BY <1>1, <3>1, <3>2 DEF ClockInv, LateInv
    <2> QED BY <1>6, <2>1, <2>2, RxStepKeeps
  <1>7. CASE FullSlotCallback
    BY <1>2, <1>7, CbStepKeeps
  <1>8. CASE UNCHANGED vars
    BY <1>2, <1>8 DEF vars
  <1> QED BY <1>3, <1>4, <1>5, <1>6, <1>7, <1>8 DEF Next

LEMMA SlackBelowSecond ==
    ASSUME RecordsLast
    PROVE  Slack < Second /\ Slack <= Second - 1
  <1>1. SecSlots * N >= 2 * N
    BY Sizes DEF RecordsLast
  <1> QED BY <1>1, Sizes DEF RecordsLast, Second

LEMMA RollInvStep ==
    ASSUME TypeInv, RollInv, [Next]_vars
    PROVE  RollInv'
  <1>1. CASE NextSymbol
    BY <1>1 DEF NextSymbol, RollInv
  <1>2. CASE NewSecond
    <2>1. symIdx + 1 = Second /\ symIdx' = symIdx /\ Second' = Second
      BY <1>2 DEF NewSecond, Second
    <2> QED BY <2>1, ClockFacts DEF RollInv
  <1>3. CASE ResetCounters
    BY <1>3 DEF ResetCounters, RollInv
  <1>4. CASE UNCHANGED clockVars
    BY <1>4 DEF clockVars, RollInv, Second
  <1>5. UNCHANGED clockVars \/ NextSymbol \/ NewSecond \/ ResetCounters
    BY DEF Next, Receive, ProcessMbuf, FullSlotCallback, vars
  <1> QED BY <1>1, <1>2, <1>3, <1>4, <1>5

LEMMA ReadInvStep ==
    ASSUME RecordsLast, TypeInv, ReadInv, RollInv, [Next]_vars
    PROVE  ReadInv'
  <1>1. /\ Second \in Nat /\ Second > 0 /\ symIdx \in Nat /\ symIdx < Second
        /\ sfnSecStart \in Nat /\ sfnSecStart * N \in Nat /\ Tick \in Nat
        /\ Now = Tick % SfnSyms /\ Now \in Int /\ rolling \in BOOLEAN
        /\ rx.idx \in Nat /\ rx.idx < Second /\ rx.ticks \in Nat /\ rx.at \in Nat
        /\ rx.ticks <= Slack /\ Slack \in Nat /\ Slack <= Second - 1
        /\ Read \in Int /\ Read = sfnSecStart * N + rx.idx
    <2>1. rx.idx \in Nat /\ sfnSecStart * N \in Nat
      BY ClockFacts, RxFacts
    <2>2. Read \in Int
      BY <2>1 DEF Read
    <2>3. Now \in Int
      BY ClockFacts
    <2> QED BY <2>2, <2>3, ClockFacts, RxFacts, SlackBelowSecond, Sizes DEF Read
  <1>2. ASSUME rx'.pc = rx.pc, rx'.idx = rx.idx, rx'.at = rx.at, rx'.ticks = rx.ticks,
               UNCHANGED clockVars
        PROVE  ReadInv'
    <2>1. Read' = Read /\ SymOfSecond' = SymOfSecond /\ Second' = Second /\ symIdx' = symIdx
          /\ rolling' = rolling
      BY <1>2 DEF Read, SymOfSecond, Second, clockVars
    <2> QED BY <1>2, <2>1, Zenon DEF ReadInv, ReadNow, ReadOver, ReadTorn, Same, SfnSyms
  <1>3. CASE NextSymbol
    <2> SUFFICES ASSUME rx'.pc = "clock"
                 PROVE  ReadNow' \/ ReadOver' \/ ReadTorn'
      BY DEF ReadInv
    <2>1. ~rolling /\ ~rolling' /\ symIdx' = symIdx + 1 /\ sfnSecStart' = sfnSecStart /\ rx' = Aged(rx)
      BY <1>3 DEF NextSymbol, SymbolBegins
    <2>2. rx.pc = "clock" /\ rx'.idx = rx.idx /\ rx'.at = rx.at /\ rx'.ticks = rx.ticks + 1
      BY <2>1, AgedFields
    <2>3. Read' = Read /\ SymOfSecond = symIdx /\ SymOfSecond' = symIdx + 1
      BY <2>1, <2>2 DEF Read, SymOfSecond
    <2>4. CASE ReadNow
      BY <1>1, <2>1, <2>2, <2>3, <2>4 DEF ReadNow
    <2>5. CASE ReadOver
      BY <1>1, <2>1, <2>2, <2>3, <2>5 DEF ReadOver, Second
    <2>6. CASE ReadTorn
      BY <1>1, <2>1, <2>2, <2>3, <2>6 DEF ReadTorn, Second
    <2> QED BY <2>2, <2>4, <2>5, <2>6 DEF ReadInv
  <1>4. CASE NewSecond
    <2> SUFFICES ASSUME rx'.pc = "clock"
                 PROVE  ReadNow' \/ ReadOver' \/ ReadTorn'
      BY DEF ReadInv
    <2>1. /\ ~rolling /\ rolling' /\ symIdx + 1 = Second /\ rx' = Aged(rx) /\ WorkersKeepUp
          /\ sfnSecStart' = (sfnSecStart + SecSlots) % SfnSlots
      BY <1>4 DEF NewSecond, Second
    <2>2. rx.pc = "clock" /\ rx'.idx = rx.idx /\ rx'.at = rx.at /\ rx'.ticks = rx.ticks + 1
      BY <2>1, AgedFields
    <2>3. rx.ticks < Slack /\ SymOfSecond = symIdx /\ SymOfSecond' = 0
      BY <2>1, <2>2 DEF WorkersKeepUp, SymOfSecond
    <2>4. ~ReadOver /\ ~ReadTorn
      BY <1>1, <2>1, <2>3 DEF ReadOver, ReadTorn
    <2>5. ReadNow
      BY <2>2, <2>4 DEF ReadInv
    <2>6. Same(Read', Read + Second) /\ Read' \in Int
      <3> DEFINE v == sfnSecStart + SecSlots
                 q == v \div SfnSlots
                 w == v % SfnSlots
      <3>1. w \in Int /\ q \in Int /\ v = SfnSlots * q + w
        BY <1>1, Sizes, Division
      <3>2. v * N = sfnSecStart * N + Second
        BY <1>1, Sizes DEF Second
      <3>3. Read' = w * N + rx.idx
        BY <2>1, <2>2 DEF Read
      <3> HIDE DEF v, q, w
      <3>4. v * N = w * N + SfnSyms * q
        BY <3>1, Sizes DEF SfnSyms
      <3>5. w * N \in Int /\ SfnSyms * q \in Int
        BY <3>1, Sizes, SfnSymsIsNat
      <3>6. Read + Second = Read' + SfnSyms * q /\ Read' \in Int
        BY <1>1, <3>2, <3>3, <3>4, <3>5
      <3>7. Same(Read + Second, Read')
        BY <3>1, <3>6 DEF Same
      <3>8. Read + Second \in Int
        BY <1>1
      <3> QED BY <3>6, <3>7, <3>8, SameSymmetric
    <2>7. Same(Read + Second, rx.at + Second)
      BY <1>1, <2>5, SameShift DEF ReadNow
    <2>8. Same(Read', rx.at + Second)
      <3>1. Read + Second \in Int /\ rx.at + Second \in Int
        BY <1>1
      <3> QED BY <2>6, <2>7, <3>1, SameTransitive
    <2>9. rx.idx + (rx.ticks + 1) = Second + 0
      BY <1>1, <2>1, <2>5 DEF ReadNow
    <2>10. Second' = Second
      BY DEF Second
    <2> QED BY <2>2, <2>3, <2>8, <2>9, <2>10 DEF ReadOver
  <1>5. CASE ResetCounters
    <2>1. rolling /\ rx' = rx /\ SymOfSecond' = SymOfSecond /\ sfnSecStart' = sfnSecStart
      BY <1>5, ResetStep
    <2>2. Read' = Read /\ Second' = Second
      BY <2>1 DEF Read, Second
    <2> QED BY <2>1, <2>2 DEF ReadInv, ReadNow, ReadOver, ReadTorn
  <1>6. ASSUME NEW m \in Mbufs, NEW slot \in Slots, Receive(m, slot)
        PROVE  ReadInv'
    <2>1. rx'.at = Now /\ rx'.ticks = 0 /\ rx'.idx = symIdx /\ UNCHANGED clockVars
      BY <1>6 DEF Receive, Idle
    <2>2. /\ Read' = sfnSecStart * N + symIdx /\ SymOfSecond' = SymOfSecond
          /\ symIdx' = symIdx /\ rolling' = rolling
      BY <2>1 DEF Read, SymOfSecond, clockVars
    <2>3. Same(Tick, Now)
      BY <1>1, SameRemainder, SameSymmetric
    <2>4. CASE ~rolling
      <3>1. Tick = sfnSecStart * N + symIdx
        BY <2>4 DEF Tick
      <3>2. symIdx = symIdx + 0
        BY <1>1
      <3>3. ReadNow'
        BY <2>1, <2>2, <2>3, <2>4, <3>1, <3>2 DEF ReadNow
      <3> QED BY <3>3 DEF ReadInv
    <2>5. CASE rolling
      <3>1. symIdx = Second - 1 /\ SymOfSecond = 0 /\ Tick = sfnSecStart * N
        BY <1>1, <2>5 DEF RollInv, SymOfSecond, Tick
      <3>2. Same(Tick + (Second - 1), Now + (Second - 1))
        <4>1. Tick \in Int /\ Second - 1 \in Int /\ Now \in Int
          BY <1>1
        <4> QED BY <2>3, <4>1, SameShift
      <3>3. Second' = Second
        BY DEF Second
      <3>4. ReadTorn'
        BY <2>1, <2>2, <3>1, <3>2, <3>3 DEF ReadTorn
      <3> QED BY <3>4 DEF ReadInv
    <2> QED BY <2>4, <2>5
  <1>7. CASE ProcessMbuf
    <2>1. rx' = Idle \/ RxGoesOn
      BY <1>7, RxStepKeeps
    <2> QED BY <2>1 DEF ReadInv, Idle, RxGoesOn
  <1>8. CASE FullSlotCallback
    BY <1>2, <1>8 DEF FullSlotCallback
  <1>9. CASE UNCHANGED vars
    BY <1>2, <1>9 DEF vars
  <1> QED BY <1>3, <1>4, <1>5, <1>6, <1>7, <1>8, <1>9 DEF Next

LEMMA ClockInvStep ==
    ASSUME WindowFits, RecordsLast, TypeInv, ClockInv, [Next]_vars
    PROVE  ClockInv'
  <1>1. RxClock /\ CbClock /\ ReadInv /\ RollInv
    BY DEF ClockInv
  <1> QED BY <1>1, RxClockStep, CbClockStep, LateInvStep, ReadInvStep, RollInvStep DEF ClockInv

\* Past the window check, a packet was received at most so late that it is dealt with
\* before its slot's record is emptied.
Working == rx.pc \notin {"idle", "clock"}

LEMMA WorkingTime ==
    ASSUME RecordsLast, TypeInv, ClockInv, Working
    PROVE  \E d \in Int :
              /\ 0 <= d /\ d <= N + Ub - Slack /\ d = Late(rx.slot, rx.at)
              /\ dropPacketsUp => d <= Ub
              /\ Same(Tick, rx.slot * N + (sym + d + rx.ticks))
  <1> DEFINE d == Late(rx.slot, rx.at)
  <1>1. /\ rx.slot \in Slots /\ rx.slot * N \in Nat /\ rx.at \in Nat /\ rx.ticks \in Nat
        /\ sym \in Nat /\ Tick \in Int
    BY RxFacts, ClockFacts
  <1>2. d \in 0..(SfnSyms - 1) /\ Same(rx.at, rx.slot * N + sym + d)
    BY <1>1, Lateness
  <1>3. d <= N + Ub - Slack /\ (dropPacketsUp => d <= Ub)
    <2>1. d <= IF ~dropPacketsUp THEN N + Ub - Slack ELSE Ub
      BY DEF Working, ClockInv, LateInv
    <2>2. d \in Int
      BY <1>2, SfnSymsIsNat
    <2> HIDE DEF d
    <2> QED BY <2>1, <2>2, Sizes DEF RecordsLast
  <1>4. d \in Int /\ 0 <= d
    BY <1>2, SfnSymsIsNat
  <1> HIDE DEF d
  <1> DEFINE q == rx.slot * N
  <1>5. q \in Int
    BY <1>1
  <1> HIDE DEF q
  <1>6. Same(rx.at, (q + sym) + d) /\ (q + sym) + d \in Int
    BY <1>1, <1>2, <1>4, <1>5 DEF q
  <1>7. Same(rx.at + rx.ticks, ((q + sym) + d) + rx.ticks)
    <2>1. rx.at \in Int /\ rx.ticks \in Int
      BY <1>1
    <2> QED BY <1>6, <2>1, SameShift
  <1>8. ((q + sym) + d) + rx.ticks = q + (sym + d + rx.ticks)
    BY <1>1, <1>4, <1>5
  <1>9. Same(Tick, rx.at + rx.ticks)
    BY DEF Working, ClockInv, RxClock
  <1>10. rx.at + rx.ticks \in Int /\ q + (sym + d + rx.ticks) \in Int
    BY <1>1, <1>4, <1>5
  <1>11. Same(Tick, q + (sym + d + rx.ticks))
    BY <1>1, <1>7, <1>8, <1>9, <1>10, SameTransitive
  <1> QED BY <1>3, <1>4, <1>11 DEF d, q

LEMMA EmptiedRecord ==
    ASSUME TypeInv
    PROVE  /\ EmptiedBuf(cb.slot) \in Bufs
           /\ EmptiedBuf(cb.slot) = (cb.slot - 1) % BufLen
  <1>1. cb.slot \in Int
    BY CbFacts
  <1>2. EmptiedBuf(cb.slot) = (cb.slot + BufLen - 1) % BufLen
    BY DEF EmptiedBuf
  <1> DEFINE a == cb.slot - 1
  <1>3. a \in Int /\ cb.slot + BufLen - 1 = BufLen * 1 + a
    BY <1>1, Sizes
  <1>4. (BufLen * 1 + a) % BufLen = a % BufLen /\ a % BufLen \in 0..(BufLen - 1)
    <2> HIDE DEF a
    <2>1. BufLen \in Nat \ {0} /\ 1 \in Int
      BY Sizes
    <2>2. (BufLen * 1 + a) % BufLen = a % BufLen
      BY <1>3, <2>1, Turns
    <2> QED BY <1>3, <2>1, <2>2, Division
  <1> QED BY <1>2, <1>3, <1>4 DEF Bufs

\* The two workers are never in one record: the callback empties a slot's record at the
\* end of the next slot and its window, when the slot's last packet is done, and is done
\* with it long before the record's next slot.
LEMMA Apart ==
    ASSUME RecordsLast, TypeInv, ClockInv, Working, cb.pc # "idle"
    PROVE  Buf # EmptiedBuf(cb.slot)
  <1> SUFFICES ASSUME Buf = EmptiedBuf(cb.slot)
               PROVE  FALSE
    OBVIOUS
  <1>1. PICK d \in Int : /\ 0 <= d /\ d <= N + Ub - Slack
                         /\ Same(Tick, rx.slot * N + (sym + d + rx.ticks))
    BY WorkingTime
  <1>2. /\ rx.slot \in Int /\ rx.slot * N \in Int /\ rx.ticks \in Nat /\ rx.ticks <= Slack
        /\ sym \in Nat /\ sym < N /\ Tick \in Int
        /\ cb.slot \in Int /\ cb.slot * N \in Int /\ cb.ticks \in Nat /\ cb.ticks <= Slack
    BY RxFacts, CbFacts, ClockFacts
  <1> DEFINE s == cb.slot - 1
             y == sym + d + rx.ticks
             z == 2 * N + Ub + cb.ticks
             x == y - z
             p == rx.slot * N
             c == cb.slot * N
  <1>3. Same(Tick, c + N + Ub + cb.ticks)
    BY DEF ClockInv, CbClock
  <1>4. s * N = c - N /\ s \in Int
    BY <1>2, Sizes
  <1>5. p \in Int /\ c \in Int /\ y \in Int /\ z \in Int /\ x = y - z /\ N \in Int
    BY <1>1, <1>2, Sizes
  <1>6. c + N + Ub + cb.ticks = (c - N) + z
    BY <1>2, Sizes
  <1>7. -(BufLen * N) < x /\ x < 0 /\ BufLen * N > 0
    <2>1. y < 2 * N + Ub /\ y >= 0
      BY <1>1, <1>2, Sizes
    <2>2. z >= 2 * N + Ub /\ z <= 2 * N + Ub + Slack
      BY <1>2, Sizes
    <2>3. BufLen * N > 2 * N + Ub + Slack /\ BufLen * N \in Nat
      BY Sizes, Products DEF RecordsLast
    <2> HIDE DEF y, z
    <2> QED BY <2>1, <2>2, <2>3, Sizes, <1>5
  <1> HIDE DEF x, y, z, p, c
  <1>8. Same(p + y, (c - N) + z)
    <2>1. Same(Tick, p + y)
      BY <1>1 DEF p, y
    <2>2. Same(p + y, Tick)
      BY <1>2, <1>5, <2>1, SameSymmetric
    <2>3. Same(Tick, (c - N) + z)
      BY <1>3, <1>6
    <2>4. p + y \in Int /\ (c - N) + z \in Int
      BY <1>5
    <2> QED BY <1>2, <2>2, <2>3, <2>4, SameTransitive
  <1>9. Same(p + x, c - N)
    <2>1. -z \in Int /\ p + y \in Int /\ (c - N) + z \in Int
      BY <1>5
    <2>2. Same((p + y) + (-z), ((c - N) + z) + (-z))
      BY <1>8, <2>1, SameShift
    <2>3. (p + y) + (-z) = p + x /\ ((c - N) + z) + (-z) = c - N
      BY <1>5
    <2> QED BY <2>2, <2>3
  <1>10. rx.slot % BufLen = s % BufLen
    BY EmptiedRecord DEF Buf
  <1>11. x \in Int /\ Same(rx.slot * N + x, s * N)
    BY <1>4, <1>5, <1>9 DEF p
  <1> HIDE DEF s
  <1>12. BufLen * N \in Int
    BY Sizes
  <1>13. x < BufLen * N
    BY <1>7, <1>11, <1>12
  <1>14. x = 0
    BY <1>2, <1>4, <1>7, <1>10, <1>11, <1>13, NearSlots
  <1> QED BY <1>7, <1>14

-----------------------------------------------------------------------------
(* Ownership. *)

\* The entry's mbuf has been freed, or is about to be overwritten.
Released(b, e) ==
    \/ cb.pc = "clear" /\ b = EmptiedBuf(cb.slot) /\ e = cb.i
    \/ rx.pc = "fill" /\ b = Buf /\ e = rx.n
OwnedBy(b, e, m) == pCtrl[b][e] = m /\ ~Released(b, e)

\* An mbuf is linked or done iff an entry owns it, and then one only.
OwnedInv ==
    /\ \A b \in Bufs, e \in Entries, m \in Mbufs :
          OwnedBy(b, e, m) => life[m] \in {"held", "done"}
    /\ \A b, c \in Bufs, e, f \in Entries, m \in Mbufs :
          OwnedBy(b, e, m) /\ OwnedBy(c, f, m) => b = c /\ e = f
    /\ \A m \in Mbufs : life[m] \in {"held", "done"} =>
          \E b \in Bufs, e \in Entries : OwnedBy(b, e, m)

\* An mbuf in the receiving worker's hands is in its hands only.
HandInv == \A m \in Mbufs : life[m] = "rx" => rx.pc # "idle" /\ rx.m = m

\* The first section of a batch has been linked and not yet counted.
Placed == rx.batch /\ rx.pc = "publish"

\* The worker's packet is linked from its first section on ...
RxMbuf ==
    rx.pc # "idle" =>
       /\ rx.m \in Mbufs /\ slotOf[rx.m] = rx.slot
       /\ rx.pc = "clock" => rx.first
       /\ life[rx.m] = IF rx.first /\ ~Placed THEN "rx" ELSE "held"

\* ... into an entry before the one that the next section takes.
RxPlace ==
    /\ Placed /\ rx.first => pCtrl[Buf][rx.n] = rx.m
    /\ Working /\ ~rx.first =>
          \E e \in Entries :
             OwnedBy(Buf, e, rx.m) /\ e < (IF rx.pc = "count" THEN nRxPkt[Buf] ELSE rx.n)
    /\ rx.pc \in {"replace", "fill"} => nRxPkt[Buf] = IF rx.batch THEN rx.n ELSE rx.n + 1
    /\ rx.pc = "publish" => nRxPkt[Buf] = rx.n

OwnerInv == OwnedInv /\ HandInv /\ RxMbuf /\ RxPlace

\* The types that these proofs need.
LEMMA Shapes ==
    ASSUME TypeInv
    PROVE  /\ nRxPkt \in [Bufs -> 0..MaxPkt] /\ Buf \in Bufs /\ rx.n \in Entries
           /\ pData \in [Bufs -> [Entries -> Mbufs \cup {None}]]
           /\ pCtrl \in [Bufs -> [Entries -> Mbufs \cup {None}]]
           /\ life \in [Mbufs -> {"free", "rx", "held", "done"}] /\ slotOf \in [Mbufs -> Slots]
           /\ rx.m \in Mbufs \cup {None} /\ rx.first \in BOOLEAN /\ rx.batch \in BOOLEAN
           /\ rx.pc \in {"idle", "clock", "count", "publish", "replace", "fill"}
           /\ cb.pc \in {"idle", "armed", "free", "clear", "zero"}
           /\ cb.i \in 0..MaxPkt /\ EmptiedBuf(cb.slot) \in Bufs
           /\ (cb.pc = "clear" => cb.i \in Entries)
           /\ None \notin Mbufs /\ Entries \subseteq Nat /\ NoSlot \notin Slots
           /\ rx \in RxStates /\ cb \in CbStates
  <1>1. /\ RecordTypes /\ MbufTypes /\ rx \in RxStates /\ cb \in CbStates /\ EntryInRange
    BY TypeParts DEF TypeInv
  <1>2. cb.pc = "clear" => cb.i \in Entries
    BY <1>1, Sizes DEF EntryInRange, Entries, CbStates
  <1>3. None \notin Mbufs /\ Entries \subseteq Nat /\ NoSlot \notin Slots
    BY RxAssumption, Sizes DEF Entries, NoSlot, Slots
  <1>4. /\ rx.m \in Mbufs \cup {None} /\ rx.first \in BOOLEAN /\ rx.batch \in BOOLEAN
        /\ rx.pc \in {"idle", "clock", "count", "publish", "replace", "fill"}
        /\ rx.n \in Entries
    BY <1>1 DEF RxStates
  <1>5. cb.pc \in {"idle", "armed", "free", "clear", "zero"} /\ cb.i \in 0..MaxPkt
    BY <1>1 DEF CbStates
  <1> QED BY <1>1, <1>2, <1>3, <1>4, <1>5, RxParts, EmptiedRecord DEF RecordTypes, MbufTypes

\* While nothing moves between the entries and the pool.
LEMMA OwnedFrame ==
    ASSUME OwnedInv,
           \A b \in Bufs, e \in Entries, m \in Mbufs : OwnedBy(b, e, m)' <=> OwnedBy(b, e, m),
           \A m \in Mbufs : life'[m] \in {"held", "done"} <=> life[m] \in {"held", "done"}
    PROVE  OwnedInv'
  <1>1. \A b \in Bufs, e \in Entries, m \in Mbufs :
           OwnedBy(b, e, m)' => life'[m] \in {"held", "done"}
    BY DEF OwnedInv
  <1>2. \A b, c \in Bufs, e, f \in Entries, m \in Mbufs :
           OwnedBy(b, e, m)' /\ OwnedBy(c, f, m)' => b = c /\ e = f
    BY DEF OwnedInv
  <1>3. \A m \in Mbufs : life'[m] \in {"held", "done"} =>
          \E b \in Bufs, e \in Entries : OwnedBy(b, e, m)'
    BY DEF OwnedInv
  <1> QED BY <1>1, <1>2, <1>3 DEF OwnedInv, Bufs, Entries

\* An entry's mbuf is freed.
LEMMA OwnedFreed ==
    ASSUME OwnedInv, TypeInv, NEW b \in Bufs, NEW e \in Entries, ~Released(b, e),
           \A c \in Bufs, f \in Entries, m \in Mbufs :
              OwnedBy(c, f, m)' <=> OwnedBy(c, f, m) /\ ~(c = b /\ f = e),
           life' = IF pCtrl[b][e] = None THEN life
                   ELSE [life EXCEPT ![pCtrl[b][e]] = "free"]
    PROVE  OwnedInv'
  <1> DEFINE old == pCtrl[b][e]
  <1>1. old \in Mbufs \cup {None} /\ None \notin Mbufs
        /\ life \in [Mbufs -> {"free", "rx", "held", "done"}]
    BY Shapes
  <1>2. old \in Mbufs => OwnedBy(b, e, old)
    BY DEF OwnedBy
  <1>3. \A m \in Mbufs : m # old => life'[m] = life[m]
    BY <1>1
  <1>4. \A m \in Mbufs : m = old => life'[m] = "free"
    BY <1>1
  <1>5. \A m \in Mbufs : OwnedBy(b, e, m) => m = old
    BY DEF OwnedBy
  <1>6. ASSUME NEW c \in Bufs, NEW f \in Entries, NEW m \in Mbufs, OwnedBy(c, f, m)'
        PROVE  life'[m] \in {"held", "done"}
    <2>1. OwnedBy(c, f, m) /\ ~(c = b /\ f = e)
      BY <1>6
    <2>2. m # old
      BY <1>2, <2>1 DEF OwnedInv
    <2> QED BY <1>3, <2>1, <2>2 DEF OwnedInv
  <1>7. ASSUME NEW c \in Bufs, NEW f \in Entries, NEW d \in Bufs, NEW g \in Entries,
               NEW m \in Mbufs, OwnedBy(c, f, m)', OwnedBy(d, g, m)'
        PROVE  c = d /\ f = g
    BY <1>7 DEF OwnedInv
  <1>8. ASSUME NEW m \in Mbufs, life'[m] \in {"held", "done"}
        PROVE  \E c \in Bufs, f \in Entries : OwnedBy(c, f, m)'
    <2>1. m # old
      BY <1>4, <1>8
    <2>2. PICK c \in Bufs, f \in Entries : OwnedBy(c, f, m)
      BY <1>3, <1>8, <2>1 DEF OwnedInv
    <2>3. ~(c = b /\ f = e)
      BY <1>5, <2>1, <2>2
    <2> QED BY <2>2, <2>3
  <1> QED BY <1>6, <1>7, <1>8 DEF OwnedInv, Bufs, Entries

\* A packet in the worker's hands is linked into a released entry.
LEMMA OwnedLinked ==
    ASSUME OwnedInv, TypeInv, NEW b \in Bufs, NEW e \in Entries, Released(b, e),
           NEW n \in Mbufs, life[n] \notin {"held", "done"},
           \A c \in Bufs, f \in Entries, m \in Mbufs :
              OwnedBy(c, f, m)' <=> OwnedBy(c, f, m) \/ (c = b /\ f = e /\ m = n),
           life'[n] = "held", \A m \in Mbufs : m # n => life'[m] = life[m]
    PROVE  OwnedInv'
  <1>2. life'[n] = "held" /\ \A m \in Mbufs : m # n => life'[m] = life[m]
    OBVIOUS
  <1>3. \A c \in Bufs, f \in Entries : ~OwnedBy(c, f, n)
    BY DEF OwnedInv
  <1>4. ASSUME NEW c \in Bufs, NEW f \in Entries, NEW m \in Mbufs, OwnedBy(c, f, m)'
        PROVE  life'[m] \in {"held", "done"}
    BY <1>2, <1>4 DEF OwnedInv
  <1>5. ASSUME NEW c \in Bufs, NEW f \in Entries, NEW d \in Bufs, NEW g \in Entries,
               NEW m \in Mbufs, OwnedBy(c, f, m)', OwnedBy(d, g, m)'
        PROVE  c = d /\ f = g
    BY <1>3, <1>5 DEF OwnedInv
  <1>6. ASSUME NEW m \in Mbufs, life'[m] \in {"held", "done"}
        PROVE  \E c \in Bufs, f \in Entries : OwnedBy(c, f, m)'
    BY <1>2, <1>6 DEF OwnedInv
  <1> QED BY <1>4, <1>5, <1>6 DEF OwnedInv, Bufs, Entries

\* The packet in the worker's hands is in no other record.
LEMMA RxOwns ==
    ASSUME RecordsLast, TypeInv, ClockInv, OwnerInv, rx.pc # "idle"
    PROVE  \/ life[rx.m] = "rx"
           \/ /\ life[rx.m] = "held" /\ Working
              /\ \E e \in Entries : OwnedBy(Buf, e, rx.m)
  <1>1. /\ rx.pc = "clock" => rx.first
        /\ life[rx.m] = IF rx.first /\ ~Placed THEN "rx" ELSE "held"
    BY DEF OwnerInv, RxMbuf
  <1>2. CASE rx.first /\ ~Placed
    BY <1>1, <1>2
  <1>3. CASE rx.first /\ Placed
    <2>1. pCtrl[Buf][rx.n] = rx.m /\ rx.n \in Entries /\ rx.pc = "publish"
      BY <1>3, Shapes DEF OwnerInv, RxPlace, Placed
    <2>2. Working
      BY <2>1 DEF Working
    <2>3. ~Released(Buf, rx.n)
      BY <2>1, <2>2, Apart DEF Released
    <2> QED BY <1>1, <1>3, <2>1, <2>2, <2>3 DEF OwnedBy
  <1>4. CASE ~rx.first
    BY <1>1, <1>4 DEF OwnerInv, RxPlace, Working
  <1> QED BY <1>2, <1>3, <1>4

\* The worker's locals but for its age.
RxSame ==
    /\ rx'.pc = rx.pc /\ rx'.m = rx.m /\ rx'.slot = rx.slot /\ rx'.first = rx.first
    /\ rx'.batch = rx.batch /\ rx'.n = rx.n /\ rx'.at = rx.at
CbSame == cb'.pc = cb.pc /\ cb'.slot = cb.slot /\ cb'.i = cb.i

LEMMA ClockKeeps ==
    ASSUME TypeInv, NextSymbol \/ NewSecond \/ ResetCounters
    PROVE  /\ UNCHANGED <<phySlot, recordVars, modeVars, mbufVars>> /\ RxSame
           /\ CbSame \/ (cb.pc = "idle" /\ cb'.pc = "armed")
  <1>1. UNCHANGED <<phySlot, recordVars, modeVars, mbufVars>>
    BY DEF NextSymbol, NewSecond, ResetCounters
  <1>2. rx' = rx \/ rx' = Aged(rx)
    BY TickStep, ResetStep
  <1>3. RxSame
    BY <1>2, AgedFields DEF RxSame
  <1>4. ASSUME NEW idx, SymbolBegins(idx)
        PROVE  CbSame \/ (cb.pc = "idle" /\ cb'.pc = "armed")
    <2>1. CASE idx % N = DeadlineSym
      <3>1. cb.pc = "idle" /\ cb' = [CbIdle EXCEPT !.pc = "armed", !.slot = FullSlot(idx)]
        BY <1>4, <2>1 DEF SymbolBegins
      <3> QED BY <3>1 DEF CbIdle
    <2>2. CASE idx % N # DeadlineSym
      <3>1. cb' = cb \/ cb' = Aged(cb)
        BY <1>4, <2>2 DEF SymbolBegins
      <3> QED BY <3>1, AgedFields DEF CbSame
    <2> QED BY <2>1, <2>2
  <1>5. CASE NextSymbol
    BY <1>1, <1>3, <1>4, <1>5 DEF NextSymbol
  <1>6. CASE ResetCounters
    BY <1>1, <1>3, <1>4, <1>6 DEF ResetCounters
  <1>7. CASE NewSecond
    BY <1>1, <1>3, <1>7, AgedFields DEF NewSecond, CbSame
  <1> QED BY <1>5, <1>6, <1>7

\* A step that leaves the records, the mbufs and what is released alone.
LEMMA OwnerFrame ==
    ASSUME TypeInv, OwnerInv, UNCHANGED <<recordVars, mbufVars>>, RxSame,
           \A b, e : Released(b, e)' <=> Released(b, e)
    PROVE  OwnerInv'
  <1>1. /\ nRxPkt' = nRxPkt /\ pCtrl' = pCtrl /\ life' = life /\ slotOf' = slotOf /\ Buf' = Buf
        /\ (Working' <=> Working) /\ (Placed' <=> Placed)
    BY DEF recordVars, mbufVars, Buf, RxSame, Working, Placed
  <1>2. \A b \in Bufs, e \in Entries, m \in Mbufs : OwnedBy(b, e, m)' <=> OwnedBy(b, e, m)
    BY <1>1 DEF OwnedBy
  <1>3. OwnedInv'
    BY <1>1, <1>2, OwnedFrame DEF OwnerInv
  <1>4. HandInv' /\ RxMbuf'
    BY <1>1 DEF OwnerInv, HandInv, RxMbuf, RxSame
  <1>5. ASSUME Working', ~rx'.first
        PROVE  \E e \in Entries :
                  OwnedBy(Buf, e, rx.m)' /\ e < (IF rx'.pc = "count" THEN nRxPkt'[Buf'] ELSE rx'.n)
    <2>1. rx'.pc = rx.pc /\ rx'.m = rx.m /\ rx'.first = rx.first /\ rx'.n = rx.n
      BY DEF RxSame
    <2>2. PICK e \in Entries :
             OwnedBy(Buf, e, rx.m) /\ e < (IF rx.pc = "count" THEN nRxPkt[Buf] ELSE rx.n)
      BY <1>1, <1>5, <2>1 DEF OwnerInv, RxPlace
    <2>3. OwnedBy(Buf, e, rx.m)'
      BY <1>1, <2>1, <2>2 DEF OwnedBy
    <2> QED BY <1>1, <2>1, <2>2, <2>3
  <1>6. /\ (Placed' /\ rx'.first => pCtrl'[Buf'][rx'.n] = rx'.m)
        /\ (rx'.pc \in {"replace", "fill"} =>
              nRxPkt'[Buf'] = IF rx'.batch THEN rx'.n ELSE rx'.n + 1)
        /\ (rx'.pc = "publish" => nRxPkt'[Buf'] = rx'.n)
    BY <1>1 DEF OwnerInv, RxPlace, RxSame
  <1>7. RxPlace'
    BY <1>5, <1>6 DEF RxPlace, Entries
  <1> QED BY <1>3, <1>4, <1>7 DEF OwnerInv

LEMMA OwnerClock ==
    ASSUME TypeInv, OwnerInv, NextSymbol \/ NewSecond \/ ResetCounters
    PROVE  OwnerInv'
  <1>1. /\ UNCHANGED <<recordVars, mbufVars>> /\ RxSame
        /\ CbSame \/ (cb.pc = "idle" /\ cb'.pc = "armed")
    BY ClockKeeps
  <1>2. \A b, e : Released(b, e)' <=> Released(b, e)
    BY <1>1 DEF Released, RxSame, CbSame, Buf, EmptiedBuf
  <1> QED BY <1>1, <1>2, OwnerFrame

LEMMA OwnerReceive ==
    ASSUME TypeInv, OwnerInv, NEW m \in Mbufs, NEW slot \in Slots, Receive(m, slot)
    PROVE  OwnerInv'
  <1>1. /\ rx.pc = "idle" /\ life[m] = "free" /\ UNCHANGED recordVars /\ cb' = cb
        /\ rx'.pc = "clock" /\ rx'.m = m /\ rx'.slot = slot /\ rx'.first /\ ~rx'.batch
        /\ life' = [life EXCEPT ![m] = "rx"] /\ slotOf' = [slotOf EXCEPT ![m] = slot]
    BY DEF Receive, Idle
  <1>2. life \in [Mbufs -> {"free", "rx", "held", "done"}] /\ slotOf \in [Mbufs -> Slots]
    BY Shapes
  <1>3. life'[m] = "rx" /\ slotOf'[m] = slot /\ \A n \in Mbufs : n # m => life'[n] = life[n]
    BY <1>1, <1>2
  <1>4. \A b \in Bufs, e \in Entries, n \in Mbufs : OwnedBy(b, e, n)' <=> OwnedBy(b, e, n)
    BY <1>1 DEF OwnedBy, Released, recordVars
  <1>5. \A n \in Mbufs : life'[n] \in {"held", "done"} <=> life[n] \in {"held", "done"}
    BY <1>1, <1>3
  <1>6. OwnedInv'
    BY <1>4, <1>5, OwnedFrame DEF OwnerInv
  <1>7. HandInv'
    BY <1>1, <1>3 DEF OwnerInv, HandInv
  <1>8. RxMbuf'
    BY <1>1, <1>3 DEF RxMbuf, Placed
  <1>9. RxPlace'
    BY <1>1 DEF RxPlace, Placed, Working
  <1> QED BY <1>6, <1>7, <1>8, <1>9 DEF OwnerInv

\* The worker is done with its packet.
LEMMA OwnerIdle ==
    ASSUME OwnedInv', HandInv', rx' = Idle
    PROVE  OwnerInv'
  BY DEF OwnerInv, RxMbuf, RxPlace, Idle, Placed, Working

LEMMA OwnerDrop ==
    ASSUME TypeInv, OwnerInv, Drop, rx.pc \in {"clock", "count"}, rx.first, cb' = cb
    PROVE  OwnerInv'
  <1>1. /\ rx' = Idle /\ UNCHANGED recordVars /\ life' = [life EXCEPT ![rx.m] = "free"]
    BY DEF Drop
  <1>2. rx.m \in Mbufs /\ life[rx.m] = "rx"
    BY DEF OwnerInv, RxMbuf, Placed
  <1>3. life \in [Mbufs -> {"free", "rx", "held", "done"}]
    BY Shapes
  <1>4. life'[rx.m] = "free" /\ \A n \in Mbufs : n # rx.m => life'[n] = life[n]
    BY <1>1, <1>2, <1>3
  <1>5. \A b \in Bufs, e \in Entries, n \in Mbufs : OwnedBy(b, e, n)' <=> OwnedBy(b, e, n)
    BY <1>1 DEF OwnedBy, Released, recordVars, Idle
  <1>6. \A n \in Mbufs : life'[n] \in {"held", "done"} <=> life[n] \in {"held", "done"}
    BY <1>2, <1>4
  <1>7. OwnedInv'
    BY <1>5, <1>6, OwnedFrame DEF OwnerInv
  <1>8. HandInv'
    BY <1>4 DEF OwnerInv, HandInv
  <1> QED BY <1>1, <1>7, <1>8, OwnerIdle

LEMMA OwnerCheckWindow ==
    ASSUME TypeInv, OwnerInv, CheckWindow, cb' = cb
    PROVE  OwnerInv'
  <1>1. rx.pc = "clock" /\ rx.first /\ rx \in RxStates
    BY Shapes DEF CheckWindow, OwnerInv, RxMbuf
  <1>2. CASE Drop
    BY <1>1, <1>2, OwnerDrop
  <1>3. CASE rx' = [rx EXCEPT !.pc = "count", !.idx = 0] /\ UNCHANGED <<recordVars, mbufVars>>
    <2>1. /\ rx'.pc = "count" /\ rx'.m = rx.m /\ rx'.slot = rx.slot /\ rx'.first
          /\ rx'.batch = rx.batch
      BY <1>1, <1>3 DEF RxStates
    <2>2. UNCHANGED <<nRxPkt, pCtrl, life, slotOf>>
      BY <1>3 DEF recordVars, mbufVars
    <2>3. \A b \in Bufs, e \in Entries, n \in Mbufs : OwnedBy(b, e, n)' <=> OwnedBy(b, e, n)
      BY <1>1, <2>1, <2>2 DEF OwnedBy, Released
    <2>4. OwnedInv'
      BY <2>2, <2>3, OwnedFrame DEF OwnerInv
    <2>5. HandInv' /\ RxMbuf'
      BY <1>1, <2>1, <2>2 DEF OwnerInv, HandInv, RxMbuf, Placed
    <2>6. RxPlace'
      BY <2>1 DEF RxPlace, Placed, Working
    <2> QED BY <2>4, <2>5, <2>6 DEF OwnerInv
  <1> QED BY <1>2, <1>3 DEF CheckWindow

LEMMA OwnerTakePlace ==
    ASSUME TypeInv, OwnerInv, TakePlace, cb' = cb
    PROVE  OwnerInv'
  <1>1. rx.pc = "count" /\ rx \in RxStates /\ nRxPkt \in [Bufs -> 0..MaxPkt] /\ Buf \in Bufs
        /\ Working /\ rx.batch \in BOOLEAN
    BY Shapes DEF TakePlace, Working
  <1>2. CASE GiveUp /\ rx.first
    BY <1>1, <1>2, OwnerDrop DEF GiveUp
  <1>3. CASE GiveUp /\ ~rx.first
    <2>1. rx' = Idle /\ UNCHANGED <<nRxPkt, pCtrl, life, slotOf>>
      BY <1>3 DEF GiveUp, recordVars, mbufVars
    <2>2. \A b \in Bufs, e \in Entries, n \in Mbufs : OwnedBy(b, e, n)' <=> OwnedBy(b, e, n)
      BY <1>1, <2>1 DEF OwnedBy, Released, Idle
    <2>3. OwnedInv'
      BY <2>1, <2>2, OwnedFrame DEF OwnerInv
    <2>4. life[rx.m] = "held"
      BY <1>1, <1>3 DEF OwnerInv, RxMbuf, Placed
    <2>5. HandInv'
      BY <2>1, <2>4 DEF OwnerInv, HandInv
    <2> QED BY <2>1, <2>3, <2>5, OwnerIdle
  <1>4. ASSUME NEW batch \in BOOLEAN,
               rx' = [rx EXCEPT !.pc = IF batch THEN "replace" ELSE "publish",
                                !.batch = batch, !.n = nRxPkt[Buf]],
               UNCHANGED <<recordVars, mbufVars>>
        PROVE  OwnerInv'
    <2>1. /\ rx'.pc = IF batch THEN "replace" ELSE "publish"
          /\ rx'.m = rx.m /\ rx'.slot = rx.slot /\ rx'.first = rx.first
          /\ rx'.batch = batch /\ rx'.n = nRxPkt[Buf]
      BY <1>1, <1>4 DEF RxStates
    <2>2. UNCHANGED <<nRxPkt, pCtrl, life, slotOf>> /\ Buf' = Buf
      BY <1>4, <2>1 DEF recordVars, mbufVars, Buf
    <2>3. \A b, e : Released(b, e)' <=> Released(b, e)
      BY <1>1, <2>1, <2>2 DEF Released
    <2>4. \A b \in Bufs, e \in Entries, n \in Mbufs : OwnedBy(b, e, n)' <=> OwnedBy(b, e, n)
      BY <2>2, <2>3 DEF OwnedBy
    <2>5. OwnedInv'
      BY <2>2, <2>4, OwnedFrame DEF OwnerInv
    <2>6. ~Placed' /\ ~Placed
      BY <1>1, <2>1 DEF Placed
    <2>7. HandInv' /\ RxMbuf'
      BY <1>1, <2>1, <2>2, <2>6 DEF OwnerInv, HandInv, RxMbuf
    <2>8. ASSUME ~rx'.first
          PROVE  \E e \in Entries : OwnedBy(Buf, e, rx.m)' /\ e < rx'.n
      <3>1. PICK e \in Entries : OwnedBy(Buf, e, rx.m) /\ e < nRxPkt[Buf]
        BY <1>1, <2>1, <2>8 DEF OwnerInv, RxPlace
      <3>2. OwnedBy(Buf, e, rx.m)'
        BY <2>1, <2>2, <2>3, <3>1 DEF OwnedBy
      <3> QED BY <2>1, <3>1, <3>2
    <2>9. RxPlace'
      BY <2>1, <2>2, <2>6, <2>8 DEF RxPlace, Entries
    <2> QED BY <2>5, <2>7, <2>9 DEF OwnerInv
  <1> QED BY <1>1, <1>2, <1>3, <1>4 DEF TakePlace

\* The worker goes on to the packet's second section, which is counted after the first.
LEMMA OwnerSecond ==
    ASSUME TypeInv, OwnedInv', HandInv', cb' = cb, cb.pc = "clear" => EmptiedBuf(cb.slot) # Buf,
           rx.pc \in {"publish", "fill"}, rx.m \in Mbufs, slotOf'[rx.m] = rx.slot,
           rx' = [rx EXCEPT !.pc = "count", !.first = FALSE],
           pCtrl'[Buf][rx.n] = rx.m, life'[rx.m] = "held", nRxPkt'[Buf] = rx.n + 1
    PROVE  OwnerInv'
  <1>1. rx \in RxStates /\ rx.n \in Entries /\ Buf \in Bufs /\ rx.n \in Nat
    BY Shapes
  <1>2. /\ rx'.pc = "count" /\ rx'.m = rx.m /\ rx'.slot = rx.slot /\ ~rx'.first
        /\ Buf' = Buf
    BY <1>1 DEF RxStates, Buf
  <1>3. RxMbuf'
    BY <1>2 DEF RxMbuf
  <1>4. PICK e \in Entries : e = rx.n
    BY <1>1
  <1>5. OwnedBy(Buf, e, rx.m)'
    <2>1. ~Released(Buf, e)'
      BY <1>2 DEF Released
    <2> QED BY <1>2, <1>4, <2>1 DEF OwnedBy
  <1>6. e < nRxPkt'[Buf']
    BY <1>1, <1>2, <1>4
  <1>7. RxPlace'
    BY <1>2, <1>5, <1>6 DEF RxPlace, Placed, Entries
  <1> QED BY <1>3, <1>7 DEF OwnerInv

LEMMA OwnerPublish ==
    ASSUME RecordsLast, TypeInv, ClockInv, OwnerInv, Publish, cb' = cb
    PROVE  OwnerInv'
  <1>1. /\ rx.pc = "publish" /\ rx \in RxStates /\ nRxPkt \in [Bufs -> 0..MaxPkt] /\ Buf \in Bufs
        /\ Working /\ rx.batch \in BOOLEAN /\ rx.first \in BOOLEAN /\ rx.n \in Entries
        /\ rx.n \in Nat /\ nRxPkt[Buf] = rx.n
        /\ rx.m \in Mbufs /\ slotOf[rx.m] = rx.slot
        /\ life[rx.m] = IF rx.first /\ ~Placed THEN "rx" ELSE "held"
    BY Shapes DEF Publish, Working, OwnerInv, RxMbuf, RxPlace
  <1>2. nRxPkt' = [nRxPkt EXCEPT ![Buf] = rx.n + 1] /\ nRxPkt'[Buf] = rx.n + 1
        /\ UNCHANGED <<pCtrl, life, slotOf>>
    BY <1>1 DEF Publish, mbufVars
  <1>3. cb.pc = "clear" => EmptiedBuf(cb.slot) # Buf
    BY <1>1, Apart
  <1>4. ASSUME rx'.pc # "fill"
        PROVE  OwnedInv'
    <2>1. \A b \in Bufs, e \in Entries, n \in Mbufs : OwnedBy(b, e, n)' <=> OwnedBy(b, e, n)
      BY <1>1, <1>2, <1>4 DEF OwnedBy, Released
    <2> QED BY <1>2, <2>1, OwnedFrame DEF OwnerInv
  <1>5. CASE ~rx.batch
    <2>1. rx' = [rx EXCEPT !.pc = "replace"]
      BY <1>5 DEF Publish
    <2>2. /\ rx'.pc = "replace" /\ rx'.m = rx.m /\ rx'.slot = rx.slot /\ rx'.first = rx.first
          /\ rx'.batch = rx.batch /\ rx'.n = rx.n /\ Buf' = Buf
      BY <1>1, <2>1 DEF RxStates, Buf
    <2>3. OwnedInv'
      BY <1>4, <2>2
    <2>4. ~Placed' /\ ~Placed
      BY <1>5, <2>2 DEF Placed
    <2>5. HandInv' /\ RxMbuf'
      BY <1>1, <1>2, <2>2, <2>4 DEF OwnerInv, HandInv, RxMbuf
    <2>6. ASSUME ~rx'.first
          PROVE  \E e \in Entries : OwnedBy(Buf, e, rx.m)' /\ e < rx'.n
      <3>1. PICK e \in Entries : OwnedBy(Buf, e, rx.m) /\ e < rx.n
        BY <1>1, <2>2, <2>6 DEF OwnerInv, RxPlace
      <3>2. OwnedBy(Buf, e, rx.m)'
        BY <1>1, <1>2, <2>2, <3>1 DEF OwnedBy, Released
      <3> QED BY <2>2, <3>1, <3>2
    <2>7. RxPlace'
      BY <1>2, <1>5, <2>2, <2>4, <2>6 DEF RxPlace, Entries
    <2> QED BY <2>3, <2>5, <2>7 DEF OwnerInv
  <1>6. CASE rx.batch
    <2>1. SectionDone
      BY <1>6 DEF Publish
    <2>2. Placed /\ life[rx.m] = "held"
      BY <1>1, <1>6 DEF Placed
    <2>3. HandInv'
      BY <1>2, <2>2 DEF OwnerInv, HandInv
    <2>4. CASE rx' = Idle
      <3>1. OwnedInv'
        BY <1>4, <2>4 DEF Idle
      <3> QED BY <2>3, <2>4, <3>1, OwnerIdle
    <2>5. CASE rx.first /\ rx' = [rx EXCEPT !.pc = "count", !.first = FALSE]
      <3>1. pCtrl[Buf][rx.n] = rx.m
        BY <2>2, <2>5 DEF OwnerInv, RxPlace
      <3>2. rx'.pc = "count"
        BY <1>1, <2>5 DEF RxStates
      <3>3. OwnedInv'
        BY <1>4, <3>2
      <3> QED BY <1>1, <1>2, <1>3, <2>2, <2>3, <2>5, <3>1, <3>3, OwnerSecond
    <2> QED BY <2>1, <2>4, <2>5 DEF SectionDone
  <1> QED BY <1>1, <1>5, <1>6

LEMMA OwnerReplace ==
    ASSUME RecordsLast, TypeInv, ClockInv, OwnerInv, Replace, cb' = cb
    PROVE  OwnerInv'
  <1> DEFINE old == pCtrl[Buf][rx.n]
  <1>1. /\ rx.pc = "replace" /\ rx \in RxStates /\ Buf \in Bufs
        /\ Working /\ rx.n \in Entries /\ rx.n \in Nat
        /\ rx.m \in Mbufs /\ slotOf[rx.m] = rx.slot
        /\ life[rx.m] = (IF rx.first THEN "rx" ELSE "held") /\ ~Placed
        /\ life \in [Mbufs -> {"free", "rx", "held", "done"}] /\ slotOf \in [Mbufs -> Slots]
        /\ old \in Mbufs \cup {None} /\ None \notin Mbufs
    BY Shapes DEF Replace, Working, OwnerInv, RxMbuf, RxPlace, Placed
  <1>2. rx' = [rx EXCEPT !.pc = "fill"] /\ UNCHANGED <<nRxPkt, pCtrl>>
    BY DEF Replace, recordVars
  <1>3. /\ rx'.pc = "fill" /\ rx'.m = rx.m /\ rx'.slot = rx.slot /\ rx'.first = rx.first
        /\ rx'.batch = rx.batch /\ rx'.n = rx.n /\ Buf' = Buf
    BY <1>1, <1>2 DEF RxStates, Buf
  <1>4. /\ life' = IF old = None THEN life ELSE [life EXCEPT ![old] = "free"]
        /\ slotOf' = IF old = None THEN slotOf ELSE [slotOf EXCEPT ![old] = 0]
    BY DEF Replace, FreeOld, mbufVars
  <1>5. ~Released(Buf, rx.n)
    BY <1>1, Apart DEF Released
  <1>6. \A c \in Bufs, f \in Entries, m \in Mbufs :
           OwnedBy(c, f, m)' <=> OwnedBy(c, f, m) /\ ~(c = Buf /\ f = rx.n)
    BY <1>1, <1>2, <1>3 DEF OwnedBy, Released
  <1>7. OwnedInv'
    <2>1. PICK b \in Bufs, e \in Entries : b = Buf /\ e = rx.n
      BY <1>1
    <2>2. ~Released(b, e) /\ pCtrl[b][e] = old
      BY <1>5, <2>1
    <2>3. \A c \in Bufs, f \in Entries, m \in Mbufs :
             OwnedBy(c, f, m)' <=> OwnedBy(c, f, m) /\ ~(c = b /\ f = e)
      BY <1>6, <2>1
    <2>4. life' = IF pCtrl[b][e] = None THEN life
                  ELSE [life EXCEPT ![pCtrl[b][e]] = "free"]
      BY <1>4, <2>2
    <2> QED BY <2>2, <2>3, <2>4, OwnedFreed DEF OwnerInv
  <1>8. old \in Mbufs => OwnedBy(Buf, rx.n, old)
    BY <1>5 DEF OwnedBy
  <1>9. ~rx.first => \E e \in Entries : OwnedBy(Buf, e, rx.m) /\ e < rx.n
    BY <1>1 DEF OwnerInv, RxPlace
  <1>10. old # rx.m
    <2>1. CASE rx.first
      BY <1>1, <1>8, <2>1 DEF OwnerInv, OwnedInv
    <2>2. CASE ~rx.first
      <3>1. PICK e \in Entries : OwnedBy(Buf, e, rx.m) /\ e < rx.n
        BY <1>9, <2>2
      <3>2. e # rx.n
        BY <1>1, <3>1
      <3> QED BY <1>1, <1>8, <3>1, <3>2 DEF OwnerInv, OwnedInv
    <2> QED BY <2>1, <2>2
  <1>11. life'[rx.m] = life[rx.m] /\ slotOf'[rx.m] = slotOf[rx.m]
    BY <1>1, <1>4, <1>10
  <1>12. \A m \in Mbufs : life'[m] = "rx" => life[m] = "rx"
    BY <1>1, <1>4
  <1>13. HandInv'
    BY <1>1, <1>3, <1>12 DEF OwnerInv, HandInv
  <1>14. RxMbuf'
    BY <1>1, <1>3, <1>11 DEF RxMbuf, Placed
  <1>15. ASSUME ~rx'.first
         PROVE  \E e \in Entries : OwnedBy(Buf, e, rx.m)' /\ e < rx'.n
    <2>1. PICK e \in Entries : OwnedBy(Buf, e, rx.m) /\ e < rx.n
      BY <1>3, <1>9, <1>15
    <2>2. e # rx.n
      BY <1>1, <2>1
    <2>3. OwnedBy(Buf, e, rx.m)'
      BY <1>1, <1>2, <1>3, <2>1, <2>2 DEF OwnedBy, Released
    <2> QED BY <1>3, <2>1, <2>3
  <1>16. RxPlace'
    BY <1>1, <1>2, <1>3, <1>15 DEF RxPlace, Placed, Entries, OwnerInv
  <1> QED BY <1>7, <1>13, <1>14, <1>16 DEF OwnerInv

LEMMA OwnerFill ==
    ASSUME RecordsLast, TypeInv, ClockInv, OwnerInv, Fill, cb' = cb
    PROVE  OwnerInv'
  <1>1. /\ rx.pc = "fill" /\ rx \in RxStates /\ Buf \in Bufs
        /\ Working /\ rx.n \in Entries /\ rx.n \in Nat
        /\ rx.m \in Mbufs /\ slotOf[rx.m] = rx.slot
        /\ life[rx.m] = (IF rx.first THEN "rx" ELSE "held") /\ ~Placed
        /\ life \in [Mbufs -> {"free", "rx", "held", "done"}]
        /\ pCtrl \in [Bufs -> [Entries -> Mbufs \cup {None}]] /\ None \notin Mbufs
        /\ nRxPkt[Buf] = (IF rx.batch THEN rx.n ELSE rx.n + 1)
    BY Shapes DEF Fill, Working, OwnerInv, RxMbuf, RxPlace, Placed
  <1>2. /\ pCtrl' = [pCtrl EXCEPT ![Buf][rx.n] = IF rx.first THEN rx.m ELSE None]
        /\ life' = [life EXCEPT ![rx.m] = "held"]
        /\ nRxPkt' = nRxPkt /\ slotOf' = slotOf
    BY DEF Fill
  <1>3. PICK b \in Bufs, e \in Entries : b = Buf /\ e = rx.n
    BY <1>1
  <1> DEFINE new == IF rx.first THEN rx.m ELSE None
  <1>4. /\ pCtrl'[b][e] = new
        /\ \A c \in Bufs, f \in Entries : ~(c = b /\ f = e) => pCtrl'[c][f] = pCtrl[c][f]
    <2> HIDE DEF new
    <2>1. pCtrl' = [pCtrl EXCEPT ![b] = [pCtrl[b] EXCEPT ![e] = new]]
      BY <1>2, <1>3 DEF new
    <2>2. pCtrl'[b] = [pCtrl[b] EXCEPT ![e] = new]
          /\ \A c \in Bufs : c # b => pCtrl'[c] = pCtrl[c]
      BY <1>1, <2>1
    <2>3. pCtrl[b] \in [Entries -> Mbufs \cup {None}]
      BY <1>1
    <2>4. pCtrl'[b][e] = new /\ \A f \in Entries : f # e => pCtrl'[b][f] = pCtrl[b][f]
      BY <2>2, <2>3
    <2> QED BY <2>2, <2>4
  <1>5. life'[rx.m] = "held" /\ \A m \in Mbufs : m # rx.m => life'[m] = life[m]
    BY <1>1, <1>2
  <1>6. rx'.pc # "fill"
    <2>1. \/ rx' = Idle
          \/ rx' = [rx EXCEPT !.pc = "count", !.first = FALSE]
          \/ rx' = [rx EXCEPT !.pc = "publish"]
      BY DEF Fill, SectionDone
    <2>2. rx \in RxStates
      BY <1>1
    <2>3. CASE rx' = Idle
      BY <2>3 DEF Idle
    <2>4. CASE rx' = [rx EXCEPT !.pc = "count", !.first = FALSE]
      BY <2>2, <2>4 DEF RxStates
    <2>5. CASE rx' = [rx EXCEPT !.pc = "publish"]
      BY <2>2, <2>5 DEF RxStates
    <2> QED BY <2>1, <2>3, <2>4, <2>5
  <1>7. cb.pc = "clear" => EmptiedBuf(cb.slot) # Buf
    BY <1>1, Apart
  <1>8. Released(b, e) /\ ~Released(b, e)'
    BY <1>1, <1>3, <1>6, <1>7 DEF Released
  <1>9. \A c \in Bufs, f \in Entries : ~(c = b /\ f = e) => (Released(c, f)' <=> Released(c, f))
    BY <1>1, <1>3, <1>6 DEF Released
  <1>10. OwnedInv'
    <2>1. CASE rx.first
      <3>1. new = rx.m /\ life[rx.m] = "rx"
        BY <1>1, <2>1
      <3> HIDE DEF new
      <3>2. \A c \in Bufs, f \in Entries, m \in Mbufs :
               OwnedBy(c, f, m)' <=> OwnedBy(c, f, m) \/ (c = b /\ f = e /\ m = rx.m)
        BY <1>1, <1>4, <1>8, <1>9, <3>1 DEF OwnedBy
      <3>3. PICK n \in Mbufs : n = rx.m
        BY <1>1
      <3>4. \A c \in Bufs, f \in Entries, m \in Mbufs :
               OwnedBy(c, f, m)' <=> OwnedBy(c, f, m) \/ (c = b /\ f = e /\ m = n)
        BY <3>2, <3>3
      <3>5. /\ life[n] \notin {"held", "done"} /\ life'[n] = "held"
            /\ \A m \in Mbufs : m # n => life'[m] = life[m]
        BY <1>5, <3>1, <3>3
      <3>6. OwnedInv /\ Released(b, e)
        BY <1>8 DEF OwnerInv
      <3> QED BY <3>4, <3>5, <3>6, OwnedLinked
    <2>2. CASE ~rx.first
      <3>1. new = None /\ life[rx.m] = "held"
        BY <1>1, <2>2
      <3> HIDE DEF new
      <3>2. \A c \in Bufs, f \in Entries, m \in Mbufs : OwnedBy(c, f, m)' <=> OwnedBy(c, f, m)
        BY <1>1, <1>4, <1>8, <1>9, <3>1 DEF OwnedBy
      <3>3. \A m \in Mbufs : life'[m] = life[m]
        BY <1>5, <3>1
      <3> QED BY <3>2, <3>3, OwnedFrame DEF OwnerInv
    <2> QED BY <2>1, <2>2
  <1>11. HandInv'
    BY <1>5 DEF OwnerInv, HandInv
  <1>12. CASE rx' = Idle
    BY <1>10, <1>11, <1>12, OwnerIdle
  <1>13. CASE ~rx.batch /\ rx.first /\ rx' = [rx EXCEPT !.pc = "count", !.first = FALSE]
    <2>1. pCtrl'[Buf][rx.n] = rx.m /\ nRxPkt'[Buf] = rx.n + 1 /\ slotOf'[rx.m] = rx.slot
      BY <1>1, <1>2, <1>3, <1>4, <1>13
    <2> QED BY <1>1, <1>5, <1>7, <1>10, <1>11, <1>13, <2>1, OwnerSecond
  <1>14. CASE rx.batch /\ rx' = [rx EXCEPT !.pc = "publish"]
    <2>1. /\ rx'.pc = "publish" /\ rx'.m = rx.m /\ rx'.slot = rx.slot /\ rx'.first = rx.first
          /\ rx'.batch = rx.batch /\ rx'.n = rx.n /\ Buf' = Buf
      BY <1>1, <1>14 DEF RxStates, Buf
    <2>2. RxMbuf'
      BY <1>1, <1>2, <1>5, <1>14, <2>1 DEF RxMbuf, Placed
    <2>3. ASSUME ~rx'.first
          PROVE  \E f \in Entries : OwnedBy(Buf, f, rx.m)' /\ f < rx'.n
      <3>1. PICK f \in Entries : OwnedBy(Buf, f, rx.m) /\ f < rx.n
        BY <1>1, <2>1, <2>3 DEF OwnerInv, RxPlace
      <3>2. f # e
        BY <1>1, <1>3, <3>1
      <3>3. pCtrl'[b][f] = pCtrl[b][f] /\ (Released(b, f)' <=> Released(b, f))
        BY <1>3, <1>4, <1>9, <3>2
      <3>4. OwnedBy(Buf, f, rx.m)'
        BY <1>3, <2>1, <3>1, <3>3 DEF OwnedBy, Released
      <3> QED BY <2>1, <3>1, <3>4
    <2>4. RxPlace'
      BY <1>1, <1>2, <1>3, <1>4, <1>14, <2>1, <2>3 DEF RxPlace, Placed, Entries
    <2> QED BY <1>10, <1>11, <2>2, <2>4 DEF OwnerInv
  <1>15. \/ rx' = Idle
         \/ ~rx.batch /\ rx.first /\ rx' = [rx EXCEPT !.pc = "count", !.first = FALSE]
         \/ rx.batch /\ rx' = [rx EXCEPT !.pc = "publish"]
    BY DEF Fill, SectionDone
  <1> QED BY <1>12, <1>13, <1>14, <1>15

\* What the callback leaves alone for the receiving worker.
LEMMA OwnerBeside ==
    ASSUME TypeInv, OwnerInv, OwnedInv', rx' = rx,
           rx.pc # "idle" => life'[rx.m] = life[rx.m] /\ slotOf'[rx.m] = slotOf[rx.m],
           Working => /\ nRxPkt'[Buf] = nRxPkt[Buf] /\ pCtrl'[Buf] = pCtrl[Buf]
                      /\ \A e \in Entries : Released(Buf, e)' <=> Released(Buf, e),
           \A m \in Mbufs : life'[m] = "rx" => life[m] = "rx"
    PROVE  OwnerInv'
  <1>1. Buf' = Buf /\ (Working' <=> Working) /\ (Placed' <=> Placed)
    BY DEF Buf, Working, Placed
  <1>2. HandInv' /\ RxMbuf'
    BY <1>1 DEF OwnerInv, HandInv, RxMbuf
  <1>3. ASSUME Working, ~rx.first
        PROVE  \E e \in Entries :
                  OwnedBy(Buf, e, rx.m)' /\ e < (IF rx.pc = "count" THEN nRxPkt'[Buf] ELSE rx.n)
    <2>1. PICK e \in Entries :
             OwnedBy(Buf, e, rx.m) /\ e < (IF rx.pc = "count" THEN nRxPkt[Buf] ELSE rx.n)
      BY <1>3 DEF OwnerInv, RxPlace
    <2>2. OwnedBy(Buf, e, rx.m)'
      BY <1>1, <1>3, <2>1 DEF OwnedBy
    <2> QED BY <1>3, <2>1, <2>2
  <1>4. Placed \/ rx.pc \in {"publish", "replace", "fill"} => Working
    BY DEF Placed, Working
  <1>5. RxPlace'
    BY <1>1, <1>3, <1>4 DEF OwnerInv, RxPlace, Entries
  <1> QED BY <1>2, <1>5 DEF OwnerInv

LEMMA OwnerReport ==
    ASSUME TypeInv, OwnerInv, Report, rx' = rx
    PROVE  OwnerInv'
  <1>1. cb.pc = "armed" /\ cb \in CbStates /\ UNCHANGED <<nRxPkt, pCtrl, life, slotOf>>
    BY Shapes DEF Report, recordVars, mbufVars
  <1>2. cb'.pc \in {"free", "zero"}
    BY <1>1 DEF Report, CbStates
  <1>3. Buf' = Buf
    BY DEF Buf
  <1>4. \A b, e : Released(b, e)' <=> Released(b, e)
    BY <1>1, <1>2, <1>3 DEF Released
  <1>5. \A b \in Bufs, e \in Entries, n \in Mbufs : OwnedBy(b, e, n)' <=> OwnedBy(b, e, n)
    BY <1>1, <1>4 DEF OwnedBy
  <1>6. OwnedInv'
    BY <1>1, <1>5, OwnedFrame DEF OwnerInv
  <1>7. \A e \in Entries : Released(Buf, e)' <=> Released(Buf, e)
    BY <1>2, <1>1, <1>3 DEF Released
  <1> QED BY <1>1, <1>6, <1>7, OwnerBeside

\* An entry below the count of a buffer.
LEMMA EntryBelow ==
    ASSUME NEW b \in Bufs, NEW i \in 0..MaxPkt, nRxPkt \in [Bufs -> 0..MaxPkt], i < nRxPkt[b]
    PROVE  i \in Entries /\ nRxPkt[b] \in 0..MaxPkt
  <1> DEFINE n == nRxPkt[b]
  <1>1. n \in 0..MaxPkt /\ i < n /\ MaxPkt \in Nat
    BY Sizes
  <1> HIDE DEF n
  <1>2. i \in 0..(MaxPkt - 1)
    BY <1>1
  <1> QED BY <1>1, <1>2 DEF n, Entries

LEMMA OwnerFreeNext ==
    ASSUME RecordsLast, TypeInv, ClockInv, OwnerInv, FreeNext, rx' = rx
    PROVE  OwnerInv'
  <1> DEFINE b == EmptiedBuf(cb.slot)
             mb == pCtrl[b][cb.i]
  <1>1. /\ cb.pc = "free" /\ cb \in CbStates /\ UNCHANGED <<nRxPkt, pCtrl>> /\ Buf' = Buf
        /\ b \in Bufs /\ rx.n \in Entries /\ nRxPkt \in [Bufs -> 0..MaxPkt]
        /\ life \in [Mbufs -> {"free", "rx", "held", "done"}] /\ slotOf \in [Mbufs -> Slots]
        /\ pCtrl \in [Bufs -> [Entries -> Mbufs \cup {None}]] /\ None \notin Mbufs
        /\ cb.i \in 0..MaxPkt /\ Buf \in Bufs
    BY Shapes DEF FreeNext, recordVars, Buf
  <1>2. CASE UNCHANGED mbufVars /\ cb'.pc \in {"zero", "free"}
    <2>1. life' = life /\ slotOf' = slotOf
      BY <1>2 DEF mbufVars
    <2>2. \A c, e : Released(c, e)' <=> Released(c, e)
      BY <1>1, <1>2 DEF Released
    <2>3. \A c \in Bufs, e \in Entries, n \in Mbufs : OwnedBy(c, e, n)' <=> OwnedBy(c, e, n)
      BY <1>1, <2>2 DEF OwnedBy
    <2>4. OwnedInv'
      BY <2>1, <2>3, OwnedFrame DEF OwnerInv
    <2>5. \A e \in Entries : Released(Buf, e)' <=> Released(Buf, e)
      BY <1>1, <1>2 DEF Released
    <2> QED BY <1>1, <2>1, <2>4, <2>5, OwnerBeside
  <1>3. CASE /\ cb.i < nRxPkt[b] /\ mb # None /\ cb' = [cb EXCEPT !.pc = "clear"]
             /\ life' = [life EXCEPT ![mb] = "free"]
             /\ slotOf' = [slotOf EXCEPT ![mb] = 0]
    <2>1. cb'.pc = "clear" /\ cb'.slot = cb.slot /\ cb'.i = cb.i
      BY <1>1, <1>3 DEF CbStates
    <2>2. cb.i \in Entries /\ nRxPkt[b] \in 0..MaxPkt
      BY <1>1, <1>3, EntryBelow
    <2>3. PICK c \in Bufs, e \in Entries : c = b /\ e = cb.i
      BY <1>1, <2>2
    <2> HIDE DEF b
    <2>4. mb \in Mbufs
      BY <1>1, <1>3, <2>2
    <2>5. Working => Buf # b
      BY <1>1, Apart DEF b
    <2>6. ~Released(c, e)
      BY <1>1, <2>3, <2>5 DEF Released, Working
    <2>7. \A d \in Bufs, f \in Entries, m \in Mbufs :
             OwnedBy(d, f, m)' <=> OwnedBy(d, f, m) /\ ~(d = c /\ f = e)
      <3>1. \A d \in Bufs, f \in Entries :
               Released(d, f)' <=> Released(d, f) \/ (d = c /\ f = e)
        BY <1>1, <2>1, <2>3 DEF Released, b
      <3> QED BY <1>1, <3>1 DEF OwnedBy
    <2>8. pCtrl[c][e] = mb /\ OwnedBy(c, e, mb)
      BY <2>3, <2>6 DEF OwnedBy
    <2>9. life' = IF pCtrl[c][e] = None THEN life ELSE [life EXCEPT ![pCtrl[c][e]] = "free"]
      BY <1>3, <2>8
    <2>10. OwnedInv'
      <3>1. OwnedInv
        BY DEF OwnerInv
      <3> QED BY <2>6, <2>7, <2>9, <3>1, OwnedFreed
    <2>11. rx.pc # "idle" => rx.m # mb /\ rx.m \in Mbufs
      <3> SUFFICES ASSUME rx.pc # "idle"
                   PROVE  rx.m # mb /\ rx.m \in Mbufs
        OBVIOUS
      <3>1. rx.m \in Mbufs
        BY DEF OwnerInv, RxMbuf
      <3>2. CASE life[rx.m] = "rx"
        BY <2>4, <2>8, <3>1, <3>2 DEF OwnerInv, OwnedInv
      <3>3. CASE Working /\ \E f \in Entries : OwnedBy(Buf, f, rx.m)
        BY <1>1, <2>3, <2>4, <2>5, <2>8, <3>1, <3>3 DEF OwnerInv, OwnedInv
      <3> QED BY <3>1, <3>2, <3>3, RxOwns
    <2>12. rx.pc # "idle" => life'[rx.m] = life[rx.m] /\ slotOf'[rx.m] = slotOf[rx.m]
      BY <1>1, <1>3, <2>4, <2>11
    <2>13. \A m \in Mbufs : life'[m] = "rx" => life[m] = "rx"
      BY <1>1, <1>3, <2>4
    <2>14. Working => \A f \in Entries : Released(Buf, f)' <=> Released(Buf, f)
      BY <1>1, <2>1, <2>5 DEF Released, b
    <2> QED BY <1>1, <2>10, <2>12, <2>13, <2>14, OwnerBeside
  <1>4. \/ UNCHANGED mbufVars /\ cb' = [cb EXCEPT !.pc = "zero"]
        \/ UNCHANGED mbufVars /\ cb' = [cb EXCEPT !.i = @ + 1]
        \/ /\ ~(cb.i >= nRxPkt[b]) /\ mb # None /\ cb' = [cb EXCEPT !.pc = "clear"]
           /\ life' = [life EXCEPT ![mb] = "free"]
           /\ slotOf' = [slotOf EXCEPT ![mb] = 0]
    BY DEF FreeNext
  <1>5. ~(cb.i >= nRxPkt[b]) => cb.i < nRxPkt[b]
    <2>1. nRxPkt[b] \in Int /\ cb.i \in Int
      BY <1>1, Sizes
    <2> QED BY <2>1
  <1>6. cb' = [cb EXCEPT !.pc = "zero"] \/ cb' = [cb EXCEPT !.i = @ + 1]
           => cb'.pc \in {"zero", "free"}
    BY <1>1 DEF CbStates
  <1> HIDE DEF b, mb
  <1> QED BY <1>2, <1>3, <1>4, <1>5, <1>6

LEMMA OwnerClearFreed ==
    ASSUME RecordsLast, TypeInv, ClockInv, OwnerInv, ClearFreed, rx' = rx
    PROVE  OwnerInv'
  <1>1. /\ cb.pc = "clear" /\ cb \in CbStates /\ UNCHANGED <<nRxPkt, life, slotOf>> /\ Buf' = Buf
        /\ EmptiedBuf(cb.slot) \in Bufs /\ cb.i \in Entries /\ Buf \in Bufs
        /\ pCtrl \in [Bufs -> [Entries -> Mbufs \cup {None}]] /\ None \notin Mbufs
    BY Shapes DEF ClearFreed, mbufVars, Buf
  <1>2. PICK b \in Bufs, e \in Entries : b = EmptiedBuf(cb.slot) /\ e = cb.i
    BY <1>1
  <1>3. pCtrl' = [pCtrl EXCEPT ![b] = [pCtrl[b] EXCEPT ![e] = None]]
    BY <1>2 DEF ClearFreed
  <1>4. pCtrl'[b] = [pCtrl[b] EXCEPT ![e] = None] /\ \A c \in Bufs : c # b => pCtrl'[c] = pCtrl[c]
    BY <1>1, <1>3
  <1>5. pCtrl[b] \in [Entries -> Mbufs \cup {None}]
    BY <1>1
  <1>6. pCtrl'[b][e] = None /\ \A f \in Entries : f # e => pCtrl'[b][f] = pCtrl[b][f]
    BY <1>4, <1>5
  <1>7. cb'.pc = "free"
    BY <1>1 DEF ClearFreed, CbStates
  <1>8. Released(b, e)
    BY <1>1, <1>2 DEF Released
  <1>9. \A c \in Bufs, f \in Entries : ~(c = b /\ f = e) => (Released(c, f)' <=> Released(c, f))
    BY <1>1, <1>2, <1>7 DEF Released
  <1>10. \A c \in Bufs, f \in Entries, n \in Mbufs : OwnedBy(c, f, n)' <=> OwnedBy(c, f, n)
    <2>1. ASSUME NEW c \in Bufs, NEW f \in Entries, NEW n \in Mbufs
          PROVE  OwnedBy(c, f, n)' <=> OwnedBy(c, f, n)
      <3>1. CASE c = b /\ f = e
        BY <1>1, <1>6, <1>8, <3>1 DEF OwnedBy
      <3>2. CASE ~(c = b /\ f = e)
        <4>1. pCtrl'[c][f] = pCtrl[c][f]
          BY <1>4, <1>6, <3>2
        <4> QED BY <1>9, <3>2, <4>1 DEF OwnedBy
      <3> QED BY <3>1, <3>2
    <2> QED BY <2>1
  <1>11. OwnedInv'
    BY <1>1, <1>10, OwnedFrame DEF OwnerInv
  <1>12. Working => Buf # b
    BY <1>1, <1>2, Apart
  <1>13. Working => pCtrl'[Buf] = pCtrl[Buf]
                    /\ \A f \in Entries : Released(Buf, f)' <=> Released(Buf, f)
    BY <1>1, <1>2, <1>4, <1>7, <1>12 DEF Released
  <1> QED BY <1>1, <1>11, <1>13, OwnerBeside

LEMMA OwnerEmpty ==
    ASSUME RecordsLast, TypeInv, ClockInv, OwnerInv, Empty, rx' = rx
    PROVE  OwnerInv'
  <1> DEFINE b == EmptiedBuf(cb.slot)
  <1>1. /\ cb.pc = "zero" /\ UNCHANGED pCtrl /\ Buf' = Buf /\ cb'.pc = "idle"
        /\ b \in Bufs /\ Buf \in Bufs /\ nRxPkt \in [Bufs -> 0..MaxPkt]
        /\ nRxPkt' = [nRxPkt EXCEPT ![b] = EmptyCount(b)]
        /\ life' = [m \in Mbufs |-> IF m \in Owned(b) THEN "done" ELSE life[m]]
        /\ slotOf' = [m \in Mbufs |-> IF m \in Owned(b) THEN 0 ELSE slotOf[m]]
    BY Shapes DEF Empty, CbIdle, Buf
  <1>2. Working => Buf # b
    BY <1>1, Apart
  <1> HIDE DEF b
  <1>3. \A m \in Mbufs : m \in Owned(b) => \E e \in Entries : OwnedBy(b, e, m)
    <2>1. \A e \in Entries : ~Released(b, e)
      BY <1>1, <1>2 DEF Released, Working
    <2> QED BY <2>1 DEF Owned, OwnedBy
  <1>4. \A m \in Mbufs : m \in Owned(b) => life[m] \in {"held", "done"}
    BY <1>1, <1>3 DEF OwnerInv, OwnedInv
  <1>5. \A m \in Mbufs : life'[m] \in {"held", "done"} <=> life[m] \in {"held", "done"}
    BY <1>1, <1>4
  <1>6. \A c \in Bufs, e \in Entries, n \in Mbufs : OwnedBy(c, e, n)' <=> OwnedBy(c, e, n)
    BY <1>1 DEF OwnedBy, Released
  <1>7. OwnedInv'
    BY <1>5, <1>6, OwnedFrame DEF OwnerInv
  <1>8. ASSUME rx.pc # "idle"
        PROVE  rx.m \notin Owned(b) /\ rx.m \in Mbufs
    <2>1. rx.m \in Mbufs
      BY <1>8 DEF OwnerInv, RxMbuf
    <2>2. CASE life[rx.m] = "rx"
      BY <1>4, <2>1, <2>2
    <2>3. CASE Working /\ \E f \in Entries : OwnedBy(Buf, f, rx.m)
      BY <1>1, <1>2, <1>3, <2>1, <2>3 DEF OwnerInv, OwnedInv
    <2> QED BY <1>8, <2>1, <2>2, <2>3, RxOwns
  <1>9. rx.pc # "idle" => life'[rx.m] = life[rx.m] /\ slotOf'[rx.m] = slotOf[rx.m]
    BY <1>1, <1>8
  <1>10. Working => nRxPkt'[Buf] = nRxPkt[Buf]
                    /\ \A f \in Entries : Released(Buf, f)' <=> Released(Buf, f)
    BY <1>1, <1>2 DEF Released
  <1>11. \A m \in Mbufs : life'[m] = "rx" => life[m] = "rx"
    BY <1>1
  <1> QED BY <1>1, <1>7, <1>9, <1>10, <1>11, OwnerBeside

LEMMA OwnerInit == Init => OwnerInv
  BY RxAssumption DEF Init, Idle, CbIdle, OwnerInv, OwnedInv, OwnedBy, HandInv, RxMbuf, RxPlace, Placed,
         Working

LEMMA OwnerStep ==
    ASSUME RecordsLast, TypeInv, ClockInv, OwnerInv, [Next]_vars
    PROVE  OwnerInv'
  <1>1. CASE NextSymbol \/ NewSecond \/ ResetCounters
    BY <1>1, OwnerClock
  <1>2. ASSUME NEW m \in Mbufs, NEW slot \in Slots, Receive(m, slot)
        PROVE  OwnerInv'
    BY <1>2, OwnerReceive
  <1>3. CASE ProcessMbuf
    BY <1>3, OwnerCheckWindow, OwnerTakePlace, OwnerPublish, OwnerReplace, OwnerFill
       DEF ProcessMbuf
  <1>4. CASE FullSlotCallback
    BY <1>4, OwnerReport, OwnerFreeNext, OwnerClearFreed, OwnerEmpty DEF FullSlotCallback
  <1>5. CASE UNCHANGED vars
    <2>1. UNCHANGED <<recordVars, mbufVars>> /\ rx' = rx /\ cb' = cb
      BY <1>5 DEF vars
    <2>2. RxSame /\ \A b, e : Released(b, e)' <=> Released(b, e)
      BY <2>1 DEF RxSame, Released, Buf
    <2> QED BY <2>1, <2>2, OwnerFrame
  <1> QED BY <1>1, <1>2, <1>3, <1>4, <1>5 DEF Next

LEMMA OwnersHere ==
    ASSUME TypeInv, NEW m \in Mbufs
    PROVE  Owners(m) = {be \in Bufs \X Entries : OwnedBy(be[1], be[2], m)}
  <1>1. ASSUME NEW be \in Bufs \X Entries
        PROVE  be \in Owners(m) <=> OwnedBy(be[1], be[2], m)
    <2>1. PICK b \in Bufs, e \in Entries : be = <<b, e>>
      BY <1>1
    <2>2. be[1] = b /\ be[2] = e
      BY <2>1
    <2>3. be \in Owners(m) <=>
             /\ pCtrl[b][e] = m
             /\ ~(cb.pc = "clear" /\ be = <<EmptiedBuf(cb.slot), cb.i>>)
             /\ ~(rx.pc = "fill" /\ be = <<Buf, rx.n>>)
      BY <2>2 DEF Owners
    <2>4. /\ be = <<EmptiedBuf(cb.slot), cb.i>> <=> b = EmptiedBuf(cb.slot) /\ e = cb.i
          /\ be = <<Buf, rx.n>> <=> b = Buf /\ e = rx.n
      BY <2>1
    <2> QED BY <2>2, <2>3, <2>4 DEF OwnedBy, Released
  <1>2. Owners(m) \subseteq Bufs \X Entries
    BY DEF Owners
  <1> QED BY <1>1, <1>2

LEMMA OneOwner ==
    ASSUME TypeInv, OwnerInv
    PROVE  MbufHasOneOwner
  <1> SUFFICES ASSUME NEW m \in Mbufs
               PROVE  CASE life[m] = "free" -> Owners(m) = {}
                        [] life[m] = "rx" -> Owners(m) = {} /\ rx.m = m
                        [] OTHER -> Cardinality(Owners(m)) = 1
    BY DEF MbufHasOneOwner
  <1>1. life[m] \in {"free", "rx", "held", "done"}
    BY Shapes
  <1>2. Owners(m) = {be \in Bufs \X Entries : OwnedBy(be[1], be[2], m)}
    BY OwnersHere
  <1>3. CASE life[m] \in {"free", "rx"}
    <2>1. \A b \in Bufs, e \in Entries : ~OwnedBy(b, e, m)
      BY <1>3 DEF OwnerInv, OwnedInv
    <2>2. Owners(m) = {}
      BY <1>2, <2>1
    <2>3. life[m] = "rx" => rx.m = m
      BY DEF OwnerInv, HandInv
    <2> QED BY <1>3, <2>2, <2>3
  <1>4. CASE life[m] \in {"held", "done"}
    <2>1. PICK b \in Bufs, e \in Entries : OwnedBy(b, e, m)
      BY <1>4 DEF OwnerInv, OwnedInv
    <2>2. \A c \in Bufs, f \in Entries : OwnedBy(c, f, m) => c = b /\ f = e
      BY <2>1 DEF OwnerInv, OwnedInv
    <2>3. Owners(m) = {<<b, e>>}
      BY <1>2, <2>1, <2>2
    <2>4. Cardinality({<<b, e>>}) = 1
      BY FS_Singleton
    <2> QED BY <1>4, <2>3, <2>4
  <1> QED BY <1>1, <1>3, <1>4

\* Every packet buffer has one owner, whatever order records are refilled, emptied and
\* reused in, if no worker takes longer than a slot and the records are enough for the
\* window (RecordsLast): none is leaked, linked twice, or freed while it is linked
\* (xran_rx_proc.c:575-597, xran_common.c:879-905, app_io_fh_xran.c, app_bbu_main.c).
THEOREM MbufsHaveOneOwner ==
    ASSUME WindowFits, RecordsLast
    PROVE  Spec => []MbufHasOneOwner
  <1> DEFINE I == TypeInv /\ ClockInv /\ OwnerInv
  <1>1. Init => I
    BY TypeInit, ClockInvInit, OwnerInit
  <1>2. I /\ [Next]_vars => I'
    BY TypeStep, ClockInvStep, OwnerStep
  <1>3. I => MbufHasOneOwner
    BY OneOwner
  <1> QED BY <1>1, <1>2, <1>3, PTL DEF Spec

-----------------------------------------------------------------------------
(* What a record counts. *)

\* The slot's record is not yet due to be emptied, or the callback is there that does.
Fresh(s) == \E a \in Int : 0 <= a /\ a < 2 * N + Ub /\ Same(Tick, s * N + a)
Due(s) == cb.pc # "idle" /\ Same(cb.slot * N, s * N + N)
Timed(s) == Fresh(s) \/ Due(s)

\* Either way it is its record's present slot.
InTime(s) == \E a \in Int : 0 <= a /\ a <= 2 * N + Ub + Slack /\ Same(Tick, s * N + a)

LEMMA DueTime ==
    ASSUME TypeInv, ClockInv, NEW s \in Slots, Due(s)
    PROVE  Same(Tick, s * N + (2 * N + Ub + cb.ticks))
  <1>1. /\ s * N \in Int /\ cb.slot * N \in Int /\ cb.ticks \in Int /\ Tick \in Int
        /\ N \in Int /\ Ub \in Int
    BY CbFacts, ClockFacts, Sizes DEF Slots
  <1> DEFINE p == s * N
             c == cb.slot * N
             w == N + Ub + cb.ticks
  <1>2. p \in Int /\ c \in Int /\ w \in Int /\ p + N \in Int /\ c + w \in Int
    BY <1>1
  <1>3. Same(Tick, c + w)
    <2>1. c + N + Ub + cb.ticks = c + w
      BY <1>1
    <2> QED BY <2>1 DEF ClockInv, CbClock, Due
  <1>4. Same(c, p + N)
    BY DEF Due
  <1>5. s * N + (2 * N + Ub + cb.ticks) = (p + N) + w
    <2> HIDE DEF p
    <2>1. p + (2 * N + Ub + cb.ticks) = (p + N) + w
      BY <1>1, <1>2
    <2> QED BY <2>1 DEF p
  <1> HIDE DEF p, c, w
  <1>6. Same(c + w, (p + N) + w)
    BY <1>2, <1>4, SameShift
  <1>7. (p + N) + w \in Int
    BY <1>2
  <1>8. Same(Tick, (p + N) + w)
    BY <1>1, <1>2, <1>3, <1>6, <1>7, SameTransitive
  <1> QED BY <1>5, <1>8

LEMMA TimedInTime ==
    ASSUME TypeInv, ClockInv, NEW s \in Slots, Timed(s)
    PROVE  InTime(s)
  <1>1. CASE Fresh(s)
    BY <1>1, Sizes DEF Fresh, InTime
  <1>2. CASE Due(s)
    <2> DEFINE a == 2 * N + Ub + cb.ticks
    <2>1. a \in Int /\ 0 <= a /\ a <= 2 * N + Ub + Slack
      BY CbFacts, Sizes
    <2>2. Same(Tick, s * N + a)
      BY <1>2, DueTime
    <2> HIDE DEF a
    <2> QED BY <2>1, <2>2 DEF InTime
  <1> QED BY <1>1, <1>2 DEF Timed

LEMMA WorkingFresh ==
    ASSUME RecordsLast, TypeInv, ClockInv, Working
    PROVE  Fresh(rx.slot)
  <1>1. PICK d \in Int : /\ 0 <= d /\ d <= N + Ub - Slack
                         /\ Same(Tick, rx.slot * N + (sym + d + rx.ticks))
    BY WorkingTime
  <1> DEFINE a == sym + d + rx.ticks
  <1>2. a \in Int /\ 0 <= a /\ a < 2 * N + Ub
    BY <1>1, RxFacts, Sizes
  <1>3. Same(Tick, rx.slot * N + a)
    BY <1>1
  <1> HIDE DEF a
  <1> QED BY <1>2, <1>3 DEF Fresh

\* Two moments of one record's slots.
LEMMA NearMoments ==
    ASSUME RecordsLast, TypeInv, NEW r \in Slots, NEW s \in Slots, r % BufLen = s % BufLen,
           NEW a \in Int, NEW c \in Int, 0 <= a, a <= 2 * N + Ub + Slack,
           0 <= c, c <= 2 * N + Ub + Slack,
           Same(Tick, r * N + a), Same(Tick, s * N + c)
    PROVE  r = s /\ a = c
  <1> DEFINE p == r * N
             q == s * N
             x == a - c
  <1>1. p \in Int /\ q \in Int /\ x \in Int /\ Tick \in Int /\ r \in Int /\ s \in Int
        /\ p + a \in Int /\ q + c \in Int /\ -c \in Int
    BY ClockFacts, Sizes DEF Slots
  <1>2. -(BufLen * N) < x /\ x < BufLen * N
    <2>1. BufLen * N > 2 * N + Ub + Slack /\ BufLen * N \in Nat
      BY Sizes, Products DEF RecordsLast
    <2> QED BY <2>1, Sizes
  <1>3. Same(Tick, p + a) /\ Same(Tick, q + c)
    OBVIOUS
  <1>4. (p + a) + (-c) = p + x /\ (q + c) + (-c) = q
    <2> HIDE DEF p, q
    <2> QED BY <1>1
  <1> HIDE DEF p, q
  <1>5. Same(p + a, Tick)
    BY <1>1, <1>3, SameSymmetric
  <1>6. Same(p + a, q + c)
    BY <1>1, <1>3, <1>5, SameTransitive
  <1>7. Same(p + x, q)
    BY <1>1, <1>4, <1>6, SameShift
  <1> HIDE DEF x
  <1>8. x = 0
    BY <1>1, <1>2, <1>7, NearSlots DEF p, q
  <1>9. Same(p, q)
    <2>1. p + x = p
      BY <1>1, <1>8
    <2> QED BY <1>7, <2>1
  <1>10. r = s
    BY <1>9, SameSlots DEF p, q
  <1> QED BY <1>8, <1>10 DEF x

LEMMA OneSlot ==
    ASSUME RecordsLast, TypeInv, NEW r \in Slots, NEW s \in Slots, r % BufLen = s % BufLen,
           InTime(r), InTime(s)
    PROVE  r = s
  <1>1. PICK a \in Int : 0 <= a /\ a <= 2 * N + Ub + Slack /\ Same(Tick, r * N + a)
    BY DEF InTime
  <1>2. PICK c \in Int : 0 <= c /\ c <= 2 * N + Ub + Slack /\ Same(Tick, s * N + c)
    BY DEF InTime
  <1> QED BY <1>1, <1>2, NearMoments

LEMMA WorkingSlot ==
    ASSUME RecordsLast, TypeInv, ClockInv, Working, NEW s \in Slots, s % BufLen = Buf, Timed(s)
    PROVE  rx.slot = s
  <1>1. rx.slot \in Slots /\ rx.slot % BufLen = Buf
    BY RxFacts DEF Buf
  <1>2. InTime(rx.slot)
    BY <1>1, WorkingFresh, TimedInTime DEF Timed
  <1> QED BY <1>1, <1>2, TimedInTime, OneSlot

\* The callback empties the record of the slot that is due.
LEMMA DueRecord ==
    ASSUME RecordsLast, TypeInv, NEW s \in Slots, Due(s)
    PROVE  EmptiedBuf(cb.slot) = s % BufLen
  <1>1. s \in Int /\ cb.slot \in Int
    BY CbFacts, Sizes DEF Slots
  <1>2. PICK k \in Int : cb.slot * N = (s * N + N) + SfnSyms * k
    BY DEF Due, Same
  <1>3. PICK turns \in Nat : SfnSlots = BufLen * turns
    BY Sizes DEF RecordsLast
  <1> DEFINE h == cb.slot - 1 - s - SfnSlots * k
  <1>4. h \in Int /\ SfnSlots * k \in Int
    BY <1>1, <1>2, Sizes
  <1>5. h * N = 0
    <2>1. h * N = cb.slot * N - N - s * N - (SfnSlots * k) * N
      BY <1>1, <1>4, Sizes
    <2>2. (SfnSlots * k) * N = SfnSyms * k
      BY <1>2, Sizes DEF SfnSyms
    <2>3. cb.slot * N \in Int /\ s * N \in Int /\ SfnSyms * k \in Int
      BY <1>1, <1>2, Sizes, SfnSymsIsNat
    <2> HIDE DEF h
    <2> QED BY <1>2, <2>1, <2>2, <2>3, Sizes
  <1> HIDE DEF h
  <1>6. h = 0
    BY <1>4, <1>5, Sizes
  <1>7. cb.slot - 1 = SfnSlots * k + s
    BY <1>1, <1>4, <1>6 DEF h
  <1> DEFINE j == turns * k
  <1>8. SfnSlots * k = BufLen * j /\ j \in Int
    BY <1>2, <1>3, Sizes
  <1> HIDE DEF j
  <1>9. (BufLen * j + s) % BufLen = s % BufLen
    <2>1. BufLen \in Nat \ {0}
      BY Sizes
    <2> QED BY <1>1, <1>8, <2>1, Turns
  <1> QED BY <1>7, <1>8, <1>9, EmptiedRecord

\* A moment that ends a slot's window is the deadline's symbol.
LEMMA WindowEnds ==
    ASSUME RecordsLast, TypeInv, NEW s \in Slots, NEW sfn \in Nat, NEW idx \in Nat,
           Same(sfn * N + idx, s * N + (2 * N + Ub))
    PROVE  idx % N = DeadlineSym /\ DeadlineSym = Ub
  <1>1. Ub \in 0..(N - 1) /\ (N * 0 + Ub) % N = Ub /\ N * 0 + Ub = Ub
    <2>1. Ub \in 0..(N - 1) /\ N \in Nat \ {0}
      BY Sizes DEF RecordsLast
    <2> QED BY <2>1, Sizes, Remainder
  <1>2. PICK k \in Int : sfn * N + idx = (s * N + (2 * N + Ub)) + SfnSyms * k
    BY DEF Same
  <1>3. s \in Int
    BY Sizes DEF Slots
  <1> DEFINE h == s + 2 + SfnSlots * k - sfn
  <1>4. h \in Int /\ N * h = s * N + 2 * N + SfnSyms * k - sfn * N
    BY <1>2, <1>3, Sizes DEF SfnSyms
  <1>5. idx = N * h + Ub
    <2> HIDE DEF h
    <2>1. s * N \in Int /\ SfnSyms * k \in Int /\ sfn * N \in Int
      BY <1>2, <1>3, Sizes, SfnSymsIsNat
    <2> QED BY <1>2, <1>4, <2>1, Sizes
  <1> HIDE DEF h
  <1>6. idx % N = Ub
    BY <1>1, <1>4, <1>5, Sizes, Remainder
  <1> QED BY <1>1, <1>6 DEF DeadlineSym

\* A symbol later in a slot's window; its end arms the next slot's callback.
LEMMA WindowStep ==
    ASSUME RecordsLast, TypeInv, NextSymbol \/ NewSecond, NEW s \in Slots,
           NEW a \in Int, a < 2 * N + Ub, Same(Tick, s * N + a)
    PROVE  \/ a + 1 < 2 * N + Ub /\ Same(Tick', s * N + (a + 1))
           \/ cb'.pc = "armed" /\ Due(s)'
  <1> DEFINE p == s * N
  <1>2. p \in Int /\ Tick \in Int /\ N \in Int /\ Ub \in Int /\ sfnSecStart \in Nat /\ symIdx \in Nat
    BY ClockFacts, Sizes DEF Slots
  <1>3. Same(Tick, p + a)
    OBVIOUS
  <1> HIDE DEF p
  <1>4. Same(Tick', p + (a + 1)) /\ Tick' \in Int
    <2>1. Same(Tick', Tick + 1) /\ Tick' \in Int
      BY TickStep
    <2> DEFINE q == p + a
    <2>2. q \in Int /\ Tick + 1 \in Int /\ q + 1 \in Int /\ q + 1 = p + (a + 1) /\ Same(Tick, q)
      BY <1>2, <1>3
    <2> HIDE DEF q
    <2>3. Same(Tick + 1, q + 1)
      BY <1>2, <2>2, SameShift
    <2>4. Same(Tick', q + 1)
      BY <2>1, <2>2, <2>3, SameTransitive
    <2> QED BY <2>1, <2>2, <2>4
  <1>5. CASE a + 1 < 2 * N + Ub
    BY <1>4, <1>5 DEF p
  <1>6. CASE a + 1 = 2 * N + Ub
    <2>1. Same(Tick', p + (2 * N + Ub))
      BY <1>4, <1>6
    <2>2. CASE NextSymbol
      <3>1. PICK idx \in 0..(Second - 1) : idx = symIdx + 1
        BY <1>2, <2>2, Sizes DEF NextSymbol, Second
      <3>2. SymbolBegins(idx) /\ Tick' = sfnSecStart * N + idx /\ idx \in Nat
        BY <1>2, <2>2, <3>1 DEF NextSymbol, SymbolBegins, Tick
      <3>3. Same(sfnSecStart * N + idx, s * N + (2 * N + Ub))
        BY <2>1, <3>2 DEF p
      <3>4. idx % N = DeadlineSym
        BY <1>2, <3>2, <3>3, WindowEnds
      <3>5. cb'.pc = "armed" /\ cb'.slot \in Slots
            /\ Same(sfnSecStart * N + idx, cb'.slot * N + N + Ub)
        BY <3>2, <3>4, ArmedStep
      <3>6. PICK r \in Slots : r = cb'.slot
        BY <3>5
      <3> DEFINE c == r * N
      <3>7. c \in Int
        BY Sizes DEF Slots
      <3>8. Same(Tick', c + N + Ub)
        BY <3>2, <3>5, <3>6
      <3> HIDE DEF c
      <3>9. Same(c + N + Ub, p + (2 * N + Ub))
        <4>1. c + N + Ub \in Int /\ p + (2 * N + Ub) \in Int
          BY <1>2, <3>7
        <4> QED BY <1>4, <2>1, <3>8, <4>1, SameSymmetric, SameTransitive
      <3>10. Same(c, p + N)
        <4> DEFINE w == -(N + Ub)
        <4>1. c + N + Ub \in Int /\ p + (2 * N + Ub) \in Int /\ w \in Int
              /\ (c + N + Ub) + w = c /\ (p + (2 * N + Ub)) + w = p + N
          BY <1>2, <3>7
        <4> HIDE DEF w
        <4> QED BY <3>9, <4>1, SameShift
      <3>11. Due(s)'
        BY <3>5, <3>6, <3>10 DEF Due, c, p
      <3> QED BY <3>5, <3>11
    <2>3. CASE NewSecond
      <3>1. Tick' = sfnSecStart' * N + 0 /\ sfnSecStart' \in Nat
        BY <1>2, <2>3, Sizes DEF NewSecond, Tick
      <3>2. PICK sfn \in Nat : sfn = sfnSecStart'
        BY <3>1
      <3>3. PICK idx \in Nat : idx = 0
        OBVIOUS
      <3>4. Same(sfn * N + idx, s * N + (2 * N + Ub))
        BY <2>1, <3>1, <3>2, <3>3 DEF p
      <3>5. idx % N = DeadlineSym /\ DeadlineSym = Ub
        BY <3>4, WindowEnds
      <3>6. 0 % N = 0
        <4>1. N \in Nat \ {0} /\ 0 \in 0..(N - 1) /\ N * 0 + 0 = 0
          BY Sizes
        <4>2. (N * 0 + 0) % N = 0
          BY <4>1, Remainder
        <4> QED BY <4>1, <4>2
      <3> QED BY <3>3, <3>5, <3>6, Sizes
    <2> QED BY <2>2, <2>3
  <1>7. a + 1 < 2 * N + Ub \/ a + 1 = 2 * N + Ub
    BY <1>2
  <1> QED BY <1>5, <1>6, <1>7

LEMMA FreshStep ==
    ASSUME RecordsLast, TypeInv, NextSymbol \/ NewSecond, NEW s \in Slots, Fresh(s)
    PROVE  Timed(s)'
  <1>1. PICK a \in Int : 0 <= a /\ a < 2 * N + Ub /\ Same(Tick, s * N + a)
    BY DEF Fresh
  <1>2. a + 1 \in Int /\ 0 <= a + 1
    BY <1>1
  <1> QED BY <1>1, <1>2, WindowStep DEF Timed, Fresh

\* A record's present slot is its slot until the callback empties it.
LEMMA TimedStep ==
    ASSUME RecordsLast, TypeInv, [Next]_vars, NEW s \in Slots, Timed(s), ~(Empty /\ Due(s))
    PROVE  Timed(s)'
  <1>1. ASSUME Tick' = Tick, Fresh(s)
        PROVE  Timed(s)'
    BY <1>1 DEF Timed, Fresh
  <1>2. ASSUME cb.pc # "idle" => cb'.pc # "idle" /\ cb'.slot = cb.slot, Due(s)
        PROVE  Timed(s)'
    BY <1>2 DEF Timed, Due
  <1>3. CASE NextSymbol \/ NewSecond \/ ResetCounters
    <2>1. CASE Fresh(s)
      BY <1>1, <1>3, <2>1, FreshStep, ResetStep
    <2>2. CASE Due(s)
      <3>1. CbSame
        BY <1>3, <2>2, ClockKeeps DEF Due
      <3> QED BY <1>2, <2>2, <3>1 DEF CbSame
    <2> QED BY <2>1, <2>2 DEF Timed
  <1>4. ASSUME UNCHANGED <<clockVars, cb>>
        PROVE  Timed(s)'
    <2>1. Tick' = Tick /\ cb' = cb
      BY <1>4, StillTick
    <2> QED BY <1>1, <1>2, <2>1 DEF Timed
  <1>5. ASSUME NEW m \in Mbufs, NEW slot \in Slots, Receive(m, slot)
        PROVE  Timed(s)'
    BY <1>4, <1>5 DEF Receive
  <1>6. CASE ProcessMbuf
    BY <1>4, <1>6 DEF ProcessMbuf
  <1>7. CASE FullSlotCallback
    <2>1. Tick' = Tick
      BY <1>7, StillTick DEF FullSlotCallback
    <2>2. CASE Report \/ FreeNext \/ ClearFreed
      <3>1. cb \in CbStates
        BY Shapes
      <3>2. cb'.pc # "idle" /\ cb'.slot = cb.slot
        BY <2>2, <3>1 DEF Report, FreeNext, ClearFreed, CbStates
      <3> QED BY <1>1, <1>2, <2>1, <3>2 DEF Timed
    <2>3. CASE Empty
      BY <1>1, <2>1, <2>3 DEF Timed
    <2> QED BY <1>7, <2>2, <2>3 DEF FullSlotCallback
  <1>8. CASE UNCHANGED vars
    BY <1>4, <1>8 DEF vars
  <1> QED BY <1>3, <1>5, <1>6, <1>7, <1>8 DEF Next

-----------------------------------------------------------------------------
(* What a record counts is carried from step to step. *)

\* The callback is at the record.
Emptying(b) == cb.pc \in {"free", "clear", "zero"} /\ EmptiedBuf(cb.slot) = b

\* The entry is counted and not yet filled.
Filling(b, e) == rx.pc \in {"replace", "fill"} /\ ~rx.batch /\ b = Buf /\ e = rx.n

\* A counted entry that owns a packet.
Counts(b, f, m) ==
    f < nRxPkt[b] /\ ~Filling(b, f) /\ OwnedBy(b, f, m) /\ life[m] = "held"

\* It goes on to count, unless the callback empties the record.
Carried(b, f, m) ==
    Counts(b, f, m) => \/ Counts(b, f, m)' /\ slotOf'[m] = slotOf[m]
                       \/ Emptying(b) /\ life'[m] # "held"
Carry == \A b \in Bufs, f \in Entries, m \in Mbufs : Carried(b, f, m)

\* Steps that let no entry go.
LEMMA CarryFrame ==
    ASSUME UNCHANGED <<nRxPkt, pCtrl>>,
           \A b, e : Released(b, e)' => Released(b, e),
           \A b, e : Filling(b, e)' => Filling(b, e),
           \A m \in Mbufs : life[m] = "held" => life'[m] = "held" /\ slotOf'[m] = slotOf[m]
    PROVE  Carry
  <1> SUFFICES ASSUME NEW b \in Bufs, NEW f \in Entries, NEW m \in Mbufs, Counts(b, f, m)
               PROVE  Counts(b, f, m)' /\ slotOf'[m] = slotOf[m]
    BY DEF Carry, Carried
  <1>1. OwnedBy(b, f, m)'
    BY DEF Counts, OwnedBy
  <1> QED BY <1>1 DEF Counts

LEMMA CarryClock ==
    ASSUME TypeInv, NextSymbol \/ NewSecond \/ ResetCounters
    PROVE  Carry
  <1>1. /\ UNCHANGED <<recordVars, mbufVars>> /\ RxSame
        /\ CbSame \/ (cb.pc = "idle" /\ cb'.pc = "armed")
    BY ClockKeeps
  <1>2. \A b, e : Released(b, e)' => Released(b, e)
    BY <1>1 DEF Released, RxSame, CbSame, Buf, EmptiedBuf
  <1>3. \A b, e : Filling(b, e)' => Filling(b, e)
    BY <1>1 DEF Filling, RxSame, Buf
  <1>4. nRxPkt' = nRxPkt /\ pCtrl' = pCtrl /\ life' = life /\ slotOf' = slotOf
    BY <1>1 DEF recordVars, mbufVars
  <1> QED BY <1>2, <1>3, <1>4, CarryFrame

LEMMA CarryReceive ==
    ASSUME TypeInv, NEW m \in Mbufs, NEW slot \in Slots, Receive(m, slot)
    PROVE  Carry
  <1>1. /\ rx.pc = "idle" /\ life[m] = "free" /\ UNCHANGED recordVars /\ cb' = cb
        /\ rx'.pc = "clock"
        /\ life' = [life EXCEPT ![m] = "rx"] /\ slotOf' = [slotOf EXCEPT ![m] = slot]
    BY DEF Receive, Idle
  <1>2. life \in [Mbufs -> {"free", "rx", "held", "done"}] /\ slotOf \in [Mbufs -> Slots]
    BY Shapes
  <1>3. \A n \in Mbufs : life[n] = "held" => life'[n] = "held" /\ slotOf'[n] = slotOf[n]
    BY <1>1, <1>2
  <1>4. \A b, e : (Released(b, e)' => Released(b, e)) /\ (Filling(b, e)' => Filling(b, e))
    BY <1>1 DEF Released, Filling
  <1>5. UNCHANGED <<nRxPkt, pCtrl>>
    BY <1>1 DEF recordVars
  <1> QED BY <1>3, <1>4, <1>5, CarryFrame

LEMMA CarryDrop ==
    ASSUME TypeInv, OwnerInv, Drop, rx.pc \in {"clock", "count"}, rx.first, cb' = cb
    PROVE  Carry
  <1>1. /\ rx' = Idle /\ UNCHANGED recordVars /\ life' = [life EXCEPT ![rx.m] = "free"]
        /\ slotOf' = [slotOf EXCEPT ![rx.m] = 0]
    BY DEF Drop
  <1>2. rx.m \in Mbufs /\ life[rx.m] = "rx"
    BY DEF OwnerInv, RxMbuf, Placed
  <1>3. life \in [Mbufs -> {"free", "rx", "held", "done"}] /\ slotOf \in [Mbufs -> Slots]
    BY Shapes
  <1>4. \A n \in Mbufs : life[n] = "held" => life'[n] = "held" /\ slotOf'[n] = slotOf[n]
    BY <1>1, <1>2, <1>3
  <1>5. \A b, e : (Released(b, e)' => Released(b, e)) /\ (Filling(b, e)' => Filling(b, e))
    BY <1>1 DEF Released, Filling, Idle
  <1>6. UNCHANGED <<nRxPkt, pCtrl>>
    BY <1>1 DEF recordVars
  <1> QED BY <1>4, <1>5, <1>6, CarryFrame

LEMMA CarryCheckWindow ==
    ASSUME TypeInv, OwnerInv, CheckWindow, cb' = cb
    PROVE  Carry
  <1>1. rx.pc = "clock" /\ rx.first /\ rx \in RxStates
    BY Shapes DEF CheckWindow, OwnerInv, RxMbuf
  <1>2. CASE Drop
    BY <1>1, <1>2, CarryDrop
  <1>3. CASE rx' = [rx EXCEPT !.pc = "count", !.idx = 0] /\ UNCHANGED <<recordVars, mbufVars>>
    <2>1. rx'.pc = "count"
      BY <1>1, <1>3 DEF RxStates
    <2>2. UNCHANGED <<nRxPkt, pCtrl, life, slotOf>>
      BY <1>3 DEF recordVars, mbufVars
    <2>3. \A b, e : (Released(b, e)' => Released(b, e)) /\ (Filling(b, e)' => Filling(b, e))
      BY <2>1 DEF Released, Filling
    <2> QED BY <2>2, <2>3, CarryFrame
  <1> QED BY <1>2, <1>3 DEF CheckWindow

LEMMA CarryTakePlace ==
    ASSUME TypeInv, OwnerInv, TakePlace, cb' = cb
    PROVE  Carry
  <1>1. rx.pc = "count" /\ rx \in RxStates /\ nRxPkt \in [Bufs -> 0..MaxPkt] /\ Buf \in Bufs
        /\ rx.batch \in BOOLEAN
    BY Shapes DEF TakePlace
  <1>2. CASE GiveUp /\ rx.first
    BY <1>1, <1>2, CarryDrop DEF GiveUp
  <1>3. ASSUME rx'.pc # "fill", ~(rx'.pc = "replace" /\ ~rx'.batch),
               UNCHANGED <<recordVars, mbufVars>>
        PROVE  Carry
    <2>1. UNCHANGED <<nRxPkt, pCtrl, life, slotOf>>
      BY <1>3 DEF recordVars, mbufVars
    <2>2. \A b, e : (Released(b, e)' => Released(b, e)) /\ (Filling(b, e)' => Filling(b, e))
      BY <1>3 DEF Released, Filling
    <2> QED BY <2>1, <2>2, CarryFrame
  <1>4. CASE GiveUp /\ ~rx.first
    BY <1>3, <1>4 DEF GiveUp, Idle
  <1>5. ASSUME NEW batch \in BOOLEAN,
               rx' = [rx EXCEPT !.pc = IF batch THEN "replace" ELSE "publish",
                                !.batch = batch, !.n = nRxPkt[Buf]],
               UNCHANGED <<recordVars, mbufVars>>
        PROVE  Carry
    <2>1. rx'.pc = (IF batch THEN "replace" ELSE "publish") /\ rx'.batch = batch
      BY <1>1, <1>5 DEF RxStates
    <2> QED BY <1>3, <1>5, <2>1
  <1> QED BY <1>1, <1>2, <1>4, <1>5 DEF TakePlace

LEMMA CarryPublish ==
    ASSUME TypeInv, OwnerInv, Publish, cb' = cb
    PROVE  Carry
  <1>1. /\ rx.pc = "publish" /\ rx \in RxStates /\ nRxPkt \in [Bufs -> 0..MaxPkt] /\ Buf \in Bufs
        /\ rx.n \in Nat /\ nRxPkt[Buf] = rx.n /\ Entries \subseteq Nat /\ rx.batch \in BOOLEAN
    BY Shapes DEF Publish, OwnerInv, RxPlace
  <1>2. nRxPkt' = [nRxPkt EXCEPT ![Buf] = rx.n + 1] /\ UNCHANGED <<pCtrl, life, slotOf>>
    BY DEF Publish, mbufVars
  <1>3. /\ rx'.pc # "fill"
        /\ rx'.pc = "replace" => rx'.n = rx.n /\ Buf' = Buf
    <2>1. \/ rx' = Idle
          \/ rx' = [rx EXCEPT !.pc = "count", !.first = FALSE]
          \/ rx' = [rx EXCEPT !.pc = "replace"]
      BY DEF Publish, SectionDone
    <2>2. CASE rx' = Idle
      BY <2>2 DEF Idle
    <2>3. CASE rx' = [rx EXCEPT !.pc = "count", !.first = FALSE]
      BY <1>1, <2>3 DEF RxStates
    <2>4. CASE rx' = [rx EXCEPT !.pc = "replace"]
      BY <1>1, <2>4 DEF RxStates, Buf
    <2> QED BY <2>1, <2>2, <2>3, <2>4
  <1> SUFFICES ASSUME NEW b \in Bufs, NEW f \in Entries, NEW m \in Mbufs, Counts(b, f, m)
               PROVE  Counts(b, f, m)' /\ slotOf'[m] = slotOf[m]
    BY DEF Carry, Carried
  <1>4. f < nRxPkt[b] /\ OwnedBy(b, f, m) /\ life[m] = "held" /\ f \in Nat
    BY <1>1 DEF Counts
  <1>5. f < nRxPkt'[b]
    <2>1. CASE b = Buf
      BY <1>1, <1>2, <1>4, <2>1
    <2>2. CASE b # Buf
      BY <1>1, <1>2, <1>4, <2>2
    <2> QED BY <2>1, <2>2
  <1>6. ~Filling(b, f)'
    BY <1>1, <1>3, <1>4 DEF Filling
  <1>7. OwnedBy(b, f, m)'
    BY <1>1, <1>2, <1>3, <1>4 DEF OwnedBy, Released
  <1> QED BY <1>2, <1>4, <1>5, <1>6, <1>7 DEF Counts

LEMMA CarryReplace ==
    ASSUME RecordsLast, TypeInv, ClockInv, OwnerInv, Replace, cb' = cb
    PROVE  Carry
  <1> DEFINE old == pCtrl[Buf][rx.n]
  <1>1. /\ rx.pc = "replace" /\ rx \in RxStates /\ Buf \in Bufs
        /\ Working /\ rx.n \in Entries /\ rx.n \in Nat /\ Entries \subseteq Nat
        /\ life \in [Mbufs -> {"free", "rx", "held", "done"}] /\ slotOf \in [Mbufs -> Slots]
        /\ old \in Mbufs \cup {None} /\ None \notin Mbufs
        /\ (rx.batch => nRxPkt[Buf] = rx.n)
    BY Shapes DEF Replace, Working, OwnerInv, RxPlace
  <1>2. rx' = [rx EXCEPT !.pc = "fill"] /\ UNCHANGED <<nRxPkt, pCtrl>>
    BY DEF Replace, recordVars
  <1>3. rx'.pc = "fill" /\ rx'.batch = rx.batch /\ rx'.n = rx.n /\ Buf' = Buf
    BY <1>1, <1>2 DEF RxStates, Buf
  <1>4. /\ life' = IF old = None THEN life ELSE [life EXCEPT ![old] = "free"]
        /\ slotOf' = IF old = None THEN slotOf ELSE [slotOf EXCEPT ![old] = 0]
    BY DEF Replace, FreeOld, mbufVars
  <1>5. ~Released(Buf, rx.n)
    BY <1>1, Apart DEF Released
  <1> SUFFICES ASSUME NEW b \in Bufs, NEW f \in Entries, NEW m \in Mbufs, Counts(b, f, m)
               PROVE  Counts(b, f, m)' /\ slotOf'[m] = slotOf[m]
    BY DEF Carry, Carried
  <1>6. f < nRxPkt[b] /\ ~Filling(b, f) /\ OwnedBy(b, f, m) /\ life[m] = "held" /\ f \in Nat
    BY <1>1 DEF Counts
  <1>7. ~(b = Buf /\ f = rx.n)
    <2>1. CASE rx.batch
      BY <1>1, <1>6, <2>1
    <2>2. CASE ~rx.batch
      BY <1>1, <1>6, <2>2 DEF Filling
    <2> QED BY <2>1, <2>2
  <1>8. m # old
    <2>1. ASSUME m = old
          PROVE  FALSE
      <3>1. PICK c \in Bufs, e \in Entries : c = Buf /\ e = rx.n
        BY <1>1
      <3>2. OwnedBy(c, e, m)
        BY <1>5, <2>1, <3>1 DEF OwnedBy
      <3>3. c = b /\ e = f
        BY <1>6, <3>2 DEF OwnerInv, OwnedInv
      <3> QED BY <1>7, <3>1, <3>3
    <2> QED BY <2>1
  <1>9. life'[m] = "held" /\ slotOf'[m] = slotOf[m]
    BY <1>1, <1>4, <1>6, <1>8
  <1>10. ~Filling(b, f)' /\ OwnedBy(b, f, m)'
    BY <1>1, <1>2, <1>3, <1>6, <1>7 DEF Filling, OwnedBy, Released
  <1> QED BY <1>2, <1>6, <1>9, <1>10 DEF Counts

\* What filling an entry does to the records.
LEMMA FillEntry ==
    ASSUME TypeInv, OwnerInv, Fill
    PROVE  /\ pCtrl'[Buf][rx.n] = (IF rx.first THEN rx.m ELSE None)
           /\ pData'[Buf][rx.n] = rx.m
           /\ \A c \in Bufs, f \in Entries : ~(c = Buf /\ f = rx.n) =>
                 pCtrl'[c][f] = pCtrl[c][f] /\ pData'[c][f] = pData[c][f]
           /\ life'[rx.m] = "held" /\ \A m \in Mbufs : m # rx.m => life'[m] = life[m]
           /\ rx'.pc \notin {"replace", "fill"}
           /\ rx' = Idle \/ (rx'.slot = rx.slot /\ rx'.m = rx.m /\ rx'.n = rx.n /\ Buf' = Buf)
  <1>1. /\ rx.pc = "fill" /\ rx \in RxStates /\ Buf \in Bufs
        /\ rx.n \in Entries /\ rx.m \in Mbufs
        /\ life \in [Mbufs -> {"free", "rx", "held", "done"}]
        /\ pCtrl \in [Bufs -> [Entries -> Mbufs \cup {None}]]
        /\ pData \in [Bufs -> [Entries -> Mbufs \cup {None}]]
    BY Shapes DEF Fill, OwnerInv, RxMbuf
  <1>2. PICK b \in Bufs, e \in Entries : b = Buf /\ e = rx.n
    BY <1>1
  <1>4. /\ pCtrl' = [pCtrl EXCEPT ![Buf][rx.n] = IF rx.first THEN rx.m ELSE None]
        /\ pData' = [pData EXCEPT ![Buf][rx.n] = rx.m]
        /\ life' = [life EXCEPT ![rx.m] = "held"]
    BY DEF Fill
  <1> DEFINE new == IF rx.first THEN rx.m ELSE None
  <1>5. /\ pCtrl'[b][e] = new
        /\ \A c \in Bufs, f \in Entries : ~(c = b /\ f = e) => pCtrl'[c][f] = pCtrl[c][f]
    <2> HIDE DEF new
    <2>1. pCtrl' = [pCtrl EXCEPT ![b] = [pCtrl[b] EXCEPT ![e] = new]]
      BY <1>2, <1>4 DEF new
    <2>2. pCtrl'[b] = [pCtrl[b] EXCEPT ![e] = new] /\ \A c \in Bufs : c # b => pCtrl'[c] = pCtrl[c]
      BY <1>1, <2>1
    <2>3. pCtrl[b] \in [Entries -> Mbufs \cup {None}]
      BY <1>1
    <2>4. pCtrl'[b][e] = new /\ \A f \in Entries : f # e => pCtrl'[b][f] = pCtrl[b][f]
      BY <2>2, <2>3
    <2> QED BY <2>2, <2>4
  <1>6. /\ pData'[b][e] = rx.m
        /\ \A c \in Bufs, f \in Entries : ~(c = b /\ f = e) => pData'[c][f] = pData[c][f]
    <2>1. pData' = [pData EXCEPT ![b] = [pData[b] EXCEPT ![e] = rx.m]]
      BY <1>2, <1>4
    <2>2. pData'[b] = [pData[b] EXCEPT ![e] = rx.m] /\ \A c \in Bufs : c # b => pData'[c] = pData[c]
      BY <1>1, <2>1
    <2>3. pData[b] \in [Entries -> Mbufs \cup {None}]
      BY <1>1
    <2>4. pData'[b][e] = rx.m /\ \A f \in Entries : f # e => pData'[b][f] = pData[b][f]
      BY <2>2, <2>3
    <2> QED BY <2>2, <2>4
  <1>7. life'[rx.m] = "held" /\ \A m \in Mbufs : m # rx.m => life'[m] = life[m]
    BY <1>1, <1>4
  <1>8. /\ rx'.pc \notin {"replace", "fill"}
        /\ rx' = Idle \/ (rx'.slot = rx.slot /\ rx'.m = rx.m /\ rx'.n = rx.n /\ Buf' = Buf)
    <2>1. \/ rx' = Idle
          \/ rx' = [rx EXCEPT !.pc = "count", !.first = FALSE]
          \/ rx' = [rx EXCEPT !.pc = "publish"]
      BY DEF Fill, SectionDone
    <2>2. CASE rx' = Idle
      BY <2>2 DEF Idle
    <2>3. CASE rx' = [rx EXCEPT !.pc = "count", !.first = FALSE]
      BY <1>1, <2>3 DEF RxStates, Buf
    <2>4. CASE rx' = [rx EXCEPT !.pc = "publish"]
      BY <1>1, <2>4 DEF RxStates, Buf
    <2> QED BY <2>1, <2>2, <2>3, <2>4
  <1> QED BY <1>2, <1>5, <1>6, <1>7, <1>8

LEMMA CarryFill ==
    ASSUME TypeInv, OwnerInv, Fill, cb' = cb
    PROVE  Carry
  <1>1. /\ rx.pc = "fill" /\ Entries \subseteq Nat /\ nRxPkt' = nRxPkt /\ slotOf' = slotOf
    BY Shapes DEF Fill
  <1> SUFFICES ASSUME NEW b \in Bufs, NEW f \in Entries, NEW m \in Mbufs, Counts(b, f, m)
               PROVE  Counts(b, f, m)' /\ slotOf'[m] = slotOf[m]
    BY DEF Carry, Carried
  <1>2. f < nRxPkt[b] /\ OwnedBy(b, f, m) /\ life[m] = "held"
    BY DEF Counts
  <1>3. ~(b = Buf /\ f = rx.n)
    BY <1>1, <1>2 DEF OwnedBy, Released
  <1>4. pCtrl'[b][f] = pCtrl[b][f] /\ life'[m] = "held" /\ rx'.pc \notin {"replace", "fill"}
    BY <1>2, <1>3, FillEntry
  <1>5. ~Filling(b, f)' /\ OwnedBy(b, f, m)'
    BY <1>2, <1>4 DEF Filling, OwnedBy, Released
  <1> QED BY <1>1, <1>2, <1>4, <1>5 DEF Counts

LEMMA CarryReport ==
    ASSUME TypeInv, Report, rx' = rx
    PROVE  Carry
  <1>1. cb.pc = "armed" /\ cb \in CbStates /\ UNCHANGED <<nRxPkt, pCtrl, life, slotOf>>
    BY Shapes DEF Report, recordVars, mbufVars
  <1>2. cb'.pc \in {"free", "zero"}
    BY <1>1 DEF Report, CbStates
  <1>3. \A b, e : (Released(b, e)' => Released(b, e)) /\ (Filling(b, e)' => Filling(b, e))
    BY <1>2 DEF Released, Filling, Buf
  <1> QED BY <1>1, <1>3, CarryFrame

LEMMA CarryFreeNext ==
    ASSUME RecordsLast, TypeInv, ClockInv, OwnerInv, FreeNext, rx' = rx
    PROVE  Carry
  <1> DEFINE b == EmptiedBuf(cb.slot)
             mb == pCtrl[b][cb.i]
  <1>1. /\ cb.pc = "free" /\ cb \in CbStates /\ UNCHANGED <<nRxPkt, pCtrl>> /\ Buf' = Buf
        /\ b \in Bufs /\ rx.n \in Entries /\ nRxPkt \in [Bufs -> 0..MaxPkt]
        /\ life \in [Mbufs -> {"free", "rx", "held", "done"}] /\ slotOf \in [Mbufs -> Slots]
        /\ pCtrl \in [Bufs -> [Entries -> Mbufs \cup {None}]] /\ None \notin Mbufs
        /\ cb.i \in 0..MaxPkt /\ Buf \in Bufs
    BY Shapes DEF FreeNext, recordVars, Buf
  <1>2. \A c, e : Filling(c, e)' => Filling(c, e)
    BY <1>1 DEF Filling
  <1>3. CASE UNCHANGED mbufVars /\ cb'.pc \in {"zero", "free"}
    <2>1. life' = life /\ slotOf' = slotOf
      BY <1>3 DEF mbufVars
    <2>2. \A c, e : Released(c, e)' => Released(c, e)
      BY <1>1, <1>3 DEF Released
    <2> QED BY <1>1, <1>2, <2>1, <2>2, CarryFrame
  <1>4. CASE /\ cb.i < nRxPkt[b] /\ mb # None /\ cb' = [cb EXCEPT !.pc = "clear"]
             /\ life' = [life EXCEPT ![mb] = "free"]
             /\ slotOf' = [slotOf EXCEPT ![mb] = 0]
    <2>1. cb'.pc = "clear" /\ cb'.slot = cb.slot /\ cb'.i = cb.i
      BY <1>1, <1>4 DEF CbStates
    <2>2. cb.i \in Entries /\ nRxPkt[b] \in 0..MaxPkt
      BY <1>1, <1>4, EntryBelow
    <2>3. PICK d \in Bufs, e \in Entries : d = b /\ e = cb.i
      BY <1>1, <2>2
    <2>4. Emptying(d)
      BY <1>1, <2>3 DEF Emptying
    <2> HIDE DEF b
    <2>5. mb \in Mbufs /\ pCtrl[d][e] = mb
      BY <1>1, <1>4, <2>2, <2>3
    <2>6. ~Released(d, e)
      BY <1>1, <2>3, Apart DEF Released, Working, b
    <2> SUFFICES ASSUME NEW c \in Bufs, NEW f \in Entries, NEW m \in Mbufs, Counts(c, f, m)
                 PROVE  \/ Counts(c, f, m)' /\ slotOf'[m] = slotOf[m]
                        \/ Emptying(c) /\ life'[m] # "held"
      BY DEF Carry, Carried
    <2>7. f < nRxPkt[c] /\ ~Filling(c, f) /\ OwnedBy(c, f, m) /\ life[m] = "held"
      BY DEF Counts
    <2>8. CASE m = mb
      <3>1. OwnedBy(d, e, m)
        BY <2>5, <2>6, <2>8 DEF OwnedBy
      <3>2. c = d
        BY <2>7, <3>1 DEF OwnerInv, OwnedInv
      <3>3. life'[m] = "free"
        BY <1>1, <1>4, <2>8
      <3> QED BY <2>4, <3>2, <3>3
    <2>9. CASE m # mb
      <3>1. life'[m] = "held" /\ slotOf'[m] = slotOf[m]
        BY <1>1, <1>4, <2>5, <2>7, <2>9
      <3>2. ~(c = d /\ f = e)
        BY <2>5, <2>7, <2>9 DEF OwnedBy
      <3>3. OwnedBy(c, f, m)'
        BY <1>1, <2>1, <2>3, <2>7, <3>2 DEF OwnedBy, Released, b
      <3> QED BY <1>1, <1>2, <2>7, <3>1, <3>3 DEF Counts
    <2> QED BY <2>8, <2>9
  <1>5. \/ UNCHANGED mbufVars /\ cb' = [cb EXCEPT !.pc = "zero"]
        \/ UNCHANGED mbufVars /\ cb' = [cb EXCEPT !.i = @ + 1]
        \/ /\ ~(cb.i >= nRxPkt[b]) /\ mb # None /\ cb' = [cb EXCEPT !.pc = "clear"]
           /\ life' = [life EXCEPT ![mb] = "free"]
           /\ slotOf' = [slotOf EXCEPT ![mb] = 0]
    BY DEF FreeNext
  <1>6. ~(cb.i >= nRxPkt[b]) => cb.i < nRxPkt[b]
    <2>1. nRxPkt[b] \in Int /\ cb.i \in Int
      BY <1>1, Sizes
    <2> QED BY <2>1
  <1>7. cb' = [cb EXCEPT !.pc = "zero"] \/ cb' = [cb EXCEPT !.i = @ + 1]
           => cb'.pc \in {"zero", "free"}
    BY <1>1 DEF CbStates
  <1> HIDE DEF b, mb
  <1> QED BY <1>3, <1>4, <1>5, <1>6, <1>7

\* The callback clears an entry of the record that it empties, and no other's.
LEMMA ClearEntry ==
    ASSUME TypeInv, ClearFreed
    PROVE  /\ \A c \in Bufs, f \in Entries :
                 ~(c = EmptiedBuf(cb.slot) /\ f = cb.i) => pCtrl'[c][f] = pCtrl[c][f]
           /\ \A c \in Bufs : c # EmptiedBuf(cb.slot) => pData'[c] = pData[c]
           /\ cb'.pc = "free" /\ cb'.slot = cb.slot
  <1>1. /\ cb.pc = "clear" /\ cb \in CbStates
        /\ EmptiedBuf(cb.slot) \in Bufs /\ cb.i \in Entries
        /\ pCtrl \in [Bufs -> [Entries -> Mbufs \cup {None}]]
        /\ pData \in [Bufs -> [Entries -> Mbufs \cup {None}]]
    BY Shapes DEF ClearFreed
  <1>2. PICK b \in Bufs, e \in Entries : b = EmptiedBuf(cb.slot) /\ e = cb.i
    BY <1>1
  <1>3. /\ pCtrl' = [pCtrl EXCEPT ![b] = [pCtrl[b] EXCEPT ![e] = None]]
        /\ pData' = [pData EXCEPT ![b] = [pData[b] EXCEPT ![e] = None]]
    BY <1>2 DEF ClearFreed
  <1>4. pCtrl'[b] = [pCtrl[b] EXCEPT ![e] = None] /\ \A c \in Bufs : c # b => pCtrl'[c] = pCtrl[c]
    BY <1>1, <1>3
  <1>5. pCtrl[b] \in [Entries -> Mbufs \cup {None}]
    BY <1>1
  <1>6. \A f \in Entries : f # e => pCtrl'[b][f] = pCtrl[b][f]
    BY <1>4, <1>5
  <1>7. \A c \in Bufs : c # b => pData'[c] = pData[c]
    BY <1>1, <1>3
  <1>8. cb'.pc = "free" /\ cb'.slot = cb.slot
    BY <1>1 DEF ClearFreed, CbStates
  <1> QED BY <1>2, <1>4, <1>6, <1>7, <1>8

LEMMA CarryClearFreed ==
    ASSUME TypeInv, OwnerInv, ClearFreed, rx' = rx
    PROVE  Carry
  <1>1. cb.pc = "clear" /\ UNCHANGED <<nRxPkt, life, slotOf>> /\ Buf' = Buf
    BY DEF ClearFreed, mbufVars, Buf
  <1>2. \A c, e : (Filling(c, e)' => Filling(c, e)) /\ (Released(c, e)' => Released(c, e))
    BY <1>1, ClearEntry DEF Filling, Released
  <1> SUFFICES ASSUME NEW c \in Bufs, NEW f \in Entries, NEW m \in Mbufs, Counts(c, f, m)
               PROVE  Counts(c, f, m)' /\ slotOf'[m] = slotOf[m]
    BY DEF Carry, Carried
  <1>3. f < nRxPkt[c] /\ ~Filling(c, f) /\ OwnedBy(c, f, m) /\ life[m] = "held"
    BY DEF Counts
  <1>4. ~(c = EmptiedBuf(cb.slot) /\ f = cb.i)
    BY <1>1, <1>3 DEF OwnedBy, Released
  <1>5. OwnedBy(c, f, m)'
    BY <1>2, <1>3, <1>4, ClearEntry DEF OwnedBy
  <1> QED BY <1>1, <1>2, <1>3, <1>5 DEF Counts

LEMMA CarryEmpty ==
    ASSUME RecordsLast, TypeInv, ClockInv, OwnerInv, Empty, rx' = rx
    PROVE  Carry
  <1> DEFINE b == EmptiedBuf(cb.slot)
  <1>1. /\ cb.pc = "zero" /\ UNCHANGED pCtrl /\ Buf' = Buf /\ cb'.pc = "idle"
        /\ b \in Bufs /\ Buf \in Bufs /\ nRxPkt \in [Bufs -> 0..MaxPkt]
        /\ nRxPkt' = [nRxPkt EXCEPT ![b] = EmptyCount(b)]
        /\ life' = [m \in Mbufs |-> IF m \in Owned(b) THEN "done" ELSE life[m]]
        /\ slotOf' = [m \in Mbufs |-> IF m \in Owned(b) THEN 0 ELSE slotOf[m]]
        /\ Emptying(b)
    BY Shapes DEF Empty, CbIdle, Buf, Emptying
  <1>2. Working => Buf # b
    BY <1>1, Apart
  <1> HIDE DEF b
  <1>3. \A m \in Mbufs : m \in Owned(b) => \E e \in Entries : OwnedBy(b, e, m)
    <2>1. \A e \in Entries : ~Released(b, e)
      BY <1>1, <1>2 DEF Released, Working
    <2> QED BY <2>1 DEF Owned, OwnedBy
  <1> SUFFICES ASSUME NEW c \in Bufs, NEW f \in Entries, NEW m \in Mbufs, Counts(c, f, m)
               PROVE  \/ Counts(c, f, m)' /\ slotOf'[m] = slotOf[m]
                      \/ Emptying(c) /\ life'[m] # "held"
    BY DEF Carry, Carried
  <1>4. f < nRxPkt[c] /\ ~Filling(c, f) /\ OwnedBy(c, f, m) /\ life[m] = "held"
    BY DEF Counts
  <1>5. CASE m \in Owned(b)
    <2>1. c = b
      BY <1>1, <1>3, <1>4, <1>5 DEF OwnerInv, OwnedInv
    <2>2. life'[m] = "done"
      BY <1>1, <1>5
    <2> QED BY <1>1, <2>1, <2>2
  <1>6. CASE m \notin Owned(b)
    <2>1. life'[m] = "held" /\ slotOf'[m] = slotOf[m]
      BY <1>1, <1>4, <1>6
    <2>2. c # b
      <3>1. pCtrl[c][f] = m /\ None \notin Mbufs
        BY <1>4, Shapes DEF OwnedBy
      <3> QED BY <1>6, <3>1 DEF Owned
    <2>3. nRxPkt'[c] = nRxPkt[c]
      BY <1>1, <2>2
    <2>4. ~Filling(c, f)' /\ OwnedBy(c, f, m)'
      BY <1>1, <1>4 DEF Filling, OwnedBy, Released
    <2> QED BY <1>4, <2>1, <2>3, <2>4 DEF Counts
  <1> QED BY <1>5, <1>6

LEMMA CarryStep ==
    ASSUME RecordsLast, TypeInv, ClockInv, OwnerInv, [Next]_vars
    PROVE  Carry
  <1>1. CASE NextSymbol \/ NewSecond \/ ResetCounters
    BY <1>1, CarryClock
  <1>2. ASSUME NEW m \in Mbufs, NEW slot \in Slots, Receive(m, slot)
        PROVE  Carry
    BY <1>2, CarryReceive
  <1>3. CASE ProcessMbuf
    BY <1>3, CarryCheckWindow, CarryTakePlace, CarryPublish, CarryReplace, CarryFill
       DEF ProcessMbuf
  <1>4. CASE FullSlotCallback
    BY <1>4, CarryReport, CarryFreeNext, CarryClearFreed, CarryEmpty DEF FullSlotCallback
  <1>5. CASE UNCHANGED vars
    <2>1. UNCHANGED <<nRxPkt, pCtrl, life, slotOf>> /\ rx' = rx /\ cb' = cb
      BY <1>5 DEF vars, recordVars, mbufVars
    <2>2. \A b, e : (Released(b, e)' => Released(b, e)) /\ (Filling(b, e)' => Filling(b, e))
      BY <2>1 DEF Released, Filling, Buf
    <2> QED BY <2>1, <2>2, CarryFrame
  <1> QED BY <1>1, <1>2, <1>3, <1>4, <1>5 DEF Next

\* What a step changes of a record.
LEMMA RecordMoves ==
    ASSUME TypeInv, OwnerInv, [Next]_vars, NEW b \in Bufs, NEW e \in Entries
    PROVE  /\ \/ nRxPkt'[b] = nRxPkt[b]
              \/ Publish /\ cb' = cb /\ b = Buf
              \/ Empty /\ rx' = rx /\ b = EmptiedBuf(cb.slot) /\ nRxPkt'[b] = 0
           /\ Emptying(b) => Emptying(b)' \/ (Empty /\ rx' = rx /\ b = EmptiedBuf(cb.slot))
           /\ Filling(b, e) => Filling(b, e)' \/ (Fill /\ cb' = cb)
           /\ \/ pData'[b][e] = pData[b][e]
              \/ Fill /\ cb' = cb /\ b = Buf /\ e = rx.n
              \/ Emptying(b)
  <1>1. /\ rx \in RxStates /\ cb \in CbStates /\ nRxPkt \in [Bufs -> 0..MaxPkt] /\ Buf \in Bufs
        /\ EmptiedBuf(cb.slot) \in Bufs /\ rx.n \in Entries
    BY Shapes
  <1>2. CASE UNCHANGED recordVars /\ RxSame /\ (CbSame \/ cb.pc = "idle")
    BY <1>2 DEF recordVars, RxSame, CbSame, Emptying, Filling, EmptiedBuf, Buf
  <1>3. CASE NextSymbol \/ NewSecond \/ ResetCounters
    BY <1>2, <1>3, ClockKeeps
  <1>4. CASE UNCHANGED recordVars /\ cb' = cb /\ rx.pc \notin {"replace", "fill"}
    BY <1>4 DEF recordVars, Emptying, Filling
  <1>5. ASSUME NEW m \in Mbufs, NEW slot \in Slots, Receive(m, slot)
        PROVE  UNCHANGED recordVars /\ cb' = cb /\ rx.pc \notin {"replace", "fill"}
    BY <1>5 DEF Receive
  <1>6. CASE ProcessMbuf
    <2>1. cb' = cb
      BY <1>6 DEF ProcessMbuf
    <2>2. CASE CheckWindow \/ TakePlace
      <3>1. UNCHANGED recordVars /\ rx.pc \notin {"replace", "fill"}
        BY <2>2 DEF CheckWindow, TakePlace, GiveUp, Drop
      <3> QED BY <1>4, <2>1, <3>1
    <2>3. CASE Publish
      <3>1. /\ rx.pc = "publish" /\ nRxPkt' = [nRxPkt EXCEPT ![Buf] = rx.n + 1]
            /\ pData' = pData
        BY <2>3 DEF Publish
      <3>2. nRxPkt'[b] = nRxPkt[b] \/ b = Buf
        BY <1>1, <3>1
      <3> QED BY <2>1, <2>3, <3>1, <3>2 DEF Emptying, Filling
    <2>4. CASE Replace
      <3>1. rx' = [rx EXCEPT !.pc = "fill"] /\ UNCHANGED recordVars
        BY <2>4 DEF Replace
      <3>2. rx'.pc = "fill" /\ rx'.batch = rx.batch /\ rx'.n = rx.n /\ Buf' = Buf
        BY <1>1, <3>1 DEF RxStates, Buf
      <3> QED BY <2>1, <3>1, <3>2 DEF recordVars, Emptying, Filling
    <2>5. CASE Fill
      <3>1. nRxPkt' = nRxPkt
        BY <2>5 DEF Fill
      <3>2. pData'[b][e] = pData[b][e] \/ (b = Buf /\ e = rx.n)
        BY <2>5, FillEntry
      <3> QED BY <2>1, <2>5, <3>1, <3>2 DEF Emptying
    <2> QED BY <1>6, <2>2, <2>3, <2>4, <2>5 DEF ProcessMbuf
  <1>7. CASE FullSlotCallback
    <2>1. rx' = rx /\ Buf' = Buf
      BY <1>7 DEF FullSlotCallback, Buf
    <2>2. CASE Report
      <3>1. UNCHANGED recordVars /\ cb.pc = "armed"
        BY <2>2 DEF Report
      <3> QED BY <2>1, <3>1 DEF recordVars, Emptying, Filling
    <2>3. CASE FreeNext
      <3>1. UNCHANGED recordVars /\ cb.pc = "free"
        BY <2>3 DEF FreeNext
      <3>2. cb'.pc \in {"free", "clear", "zero"} /\ cb'.slot = cb.slot
        BY <1>1, <2>3 DEF FreeNext, CbStates
      <3> QED BY <2>1, <3>1, <3>2 DEF recordVars, Emptying, Filling
    <2>4. CASE ClearFreed
      <3>1. nRxPkt' = nRxPkt /\ cb.pc = "clear"
        BY <2>4 DEF ClearFreed
      <3> QED BY <2>1, <2>4, <3>1, ClearEntry DEF Emptying, Filling
    <2>5. CASE Empty
      <3>1. /\ pData' = pData
            /\ nRxPkt' = [nRxPkt EXCEPT ![EmptiedBuf(cb.slot)] = EmptyCount(EmptiedBuf(cb.slot))]
        BY <2>5 DEF Empty
      <3>2. IF b = EmptiedBuf(cb.slot) THEN nRxPkt'[b] = 0 ELSE nRxPkt'[b] = nRxPkt[b]
        BY <1>1, <3>1 DEF EmptyCount
      <3> QED BY <2>1, <2>5, <3>1, <3>2 DEF Emptying, Filling
    <2> QED BY <1>7, <2>2, <2>3, <2>4, <2>5 DEF FullSlotCallback
  <1>8. CASE UNCHANGED vars
    BY <1>2, <1>8 DEF vars, RxSame, CbSame
  <1> QED BY <1>3, <1>4, <1>5, <1>6, <1>7, <1>8 DEF Next

\* A packet is linked by Fill only.
LEMMA NewHeld ==
    ASSUME TypeInv, OwnerInv, [Next]_vars, NEW m \in Mbufs, life'[m] = "held"
    PROVE  life[m] = "held" \/ (Fill /\ cb' = cb /\ m = rx.m)
  <1>1. life \in [Mbufs -> {"free", "rx", "held", "done"}]
    BY Shapes
  <1>2. CASE NextSymbol \/ NewSecond \/ ResetCounters
    BY <1>2, ClockKeeps DEF mbufVars
  <1>3. ASSUME NEW n \in Mbufs, NEW slot \in Slots, Receive(n, slot)
        PROVE  life[m] = "held"
    BY <1>1, <1>3 DEF Receive
  <1>4. CASE ProcessMbuf
    <2>1. rx.m \in Mbufs /\ cb' = cb
      BY <1>4, RxStepKeeps DEF OwnerInv, RxMbuf, ProcessMbuf
    <2>2. CASE life' = life \/ life' = [life EXCEPT ![rx.m] = "free"]
      BY <1>1, <2>1, <2>2
    <2>3. CASE CheckWindow \/ TakePlace
      BY <2>2, <2>3 DEF CheckWindow, TakePlace, GiveUp, Drop, mbufVars
    <2>4. CASE Publish
      BY <2>2, <2>4 DEF Publish, mbufVars
    <2>5. CASE Replace
      <3>1. \/ life' = life
            \/ life' = [life EXCEPT ![pCtrl[Buf][rx.n]] = "free"]
        BY <2>5 DEF Replace, FreeOld, mbufVars
      <3> QED BY <1>1, <3>1
    <2>6. CASE Fill
      BY <2>1, <2>6, FillEntry
    <2> QED BY <1>4, <2>3, <2>4, <2>5, <2>6 DEF ProcessMbuf
  <1>5. CASE FullSlotCallback
    <2>1. \/ life' = life
          \/ life' = [life EXCEPT ![pCtrl[EmptiedBuf(cb.slot)][cb.i]] = "free"]
          \/ life' = [n \in Mbufs |-> IF n \in Owned(EmptiedBuf(cb.slot)) THEN "done" ELSE life[n]]
      BY <1>5 DEF FullSlotCallback, Report, FreeNext, ClearFreed, Empty, mbufVars
    <2> QED BY <1>1, <2>1
  <1>6. CASE UNCHANGED vars
    BY <1>6 DEF vars, mbufVars
  <1> QED BY <1>2, <1>3, <1>4, <1>5, <1>6 DEF Next

\* A batch's packet that is linked and not counted has just been, or stays so.
LEMMA PlacedStep ==
    ASSUME TypeInv, OwnerInv, [Next]_vars, Placed'
    PROVE  /\ rx'.m = rx.m /\ rx'.n = rx.n /\ Buf' = Buf
           /\ Placed \/ (Fill /\ cb' = cb)
  <1>1. rx \in RxStates
    BY Shapes
  <1>2. CASE RxSame
    BY <1>2 DEF RxSame, Placed, Buf
  <1>3. CASE NextSymbol \/ NewSecond \/ ResetCounters
    BY <1>2, <1>3, ClockKeeps
  <1>4. ASSUME NEW m \in Mbufs, NEW slot \in Slots, Receive(m, slot)
        PROVE  FALSE
    BY <1>4 DEF Receive, Idle, Placed
  <1>5. CASE ProcessMbuf
    <2>1. rx' # Idle
      BY DEF Idle, Placed
    <2>2. ~CheckWindow
      <3>1. CheckWindow => rx' = Idle \/ rx' = [rx EXCEPT !.pc = "count", !.idx = 0]
        BY DEF CheckWindow, Drop
      <3>2. ASSUME rx' = [rx EXCEPT !.pc = "count", !.idx = 0]
            PROVE  FALSE
        BY <1>1, <3>2 DEF Placed, RxStates
      <3> QED BY <2>1, <3>1, <3>2
    <2>3. ~TakePlace
      <3>1. ASSUME NEW batch \in BOOLEAN,
                   rx' = [rx EXCEPT !.pc = IF batch THEN "replace" ELSE "publish",
                                    !.batch = batch, !.n = nRxPkt[Buf]]
            PROVE  FALSE
        BY <1>1, <3>1 DEF Placed, RxStates
      <3>2. rx.batch \in BOOLEAN
        BY Shapes
      <3> QED BY <2>1, <3>1, <3>2 DEF TakePlace, GiveUp, Drop
    <2>4. rx' # [rx EXCEPT !.pc = "count", !.first = FALSE]
      <3>1. ASSUME rx' = [rx EXCEPT !.pc = "count", !.first = FALSE]
            PROVE  FALSE
        BY <1>1, <3>1 DEF Placed, RxStates
      <3> QED BY <3>1
    <2>5. ~Publish
      <3>1. Publish => rx' = [rx EXCEPT !.pc = "replace"]
        BY <2>1, <2>4 DEF Publish, SectionDone
      <3> QED BY <1>1, <3>1 DEF Placed, RxStates
    <2>6. ~Replace
      BY <1>1 DEF Replace, Placed, RxStates
    <2>7. CASE Fill
      <3>1. rx' = [rx EXCEPT !.pc = "publish"]
        BY <2>1, <2>4, <2>7 DEF Fill, SectionDone
      <3>2. rx'.m = rx.m /\ rx'.n = rx.n /\ Buf' = Buf
        BY <1>1, <3>1 DEF RxStates, Buf
      <3> QED BY <1>5, <2>7, <3>2 DEF ProcessMbuf
    <2> QED BY <1>5, <2>2, <2>3, <2>5, <2>6, <2>7 DEF ProcessMbuf
  <1>6. CASE FullSlotCallback
    BY <1>2, <1>6 DEF FullSlotCallback, RxSame
  <1>7. CASE UNCHANGED vars
    BY <1>2, <1>7 DEF vars, RxSame
  <1> QED BY <1>3, <1>4, <1>5, <1>6, <1>7 DEF Next

-----------------------------------------------------------------------------
(* What records and mbufs hold. *)

FilledInv == Placed => pData[Buf][rx.n] = rx.m

\* A linked packet counts in its slot's record, or is about to be counted.
HeldInv ==
    \A m \in Mbufs, b \in Bufs :
       life[m] = "held" /\ b = slotOf[m] % BufLen =>
          (\E f \in Entries : Counts(b, f, m)) \/ (rx.first /\ Placed /\ rx.m = m)

\* The entry is a packet of the slot that the record owns.
Kept(b, e, s) ==
    \E m \in Mbufs : /\ pData[b][e] = m /\ slotOf[m] = s
                     /\ \E f \in Entries : Counts(b, f, m)

\* Every entry that a record counts is a packet of one slot, the record's present one.
PureIn(b, s) ==
    /\ s % BufLen = b /\ Timed(s)
    /\ \A e \in Entries :
          e < nRxPkt[b] /\ ~Filling(b, e) /\ ~Emptying(b) => Kept(b, e, s)
PureInv == \A b \in Bufs : nRxPkt[b] > 0 => \E s \in Slots : PureIn(b, s)

LEMMA FilledStep ==
    ASSUME RecordsLast, TypeInv, ClockInv, OwnerInv, FilledInv, [Next]_vars
    PROVE  FilledInv'
  <1> SUFFICES ASSUME Placed'
               PROVE  pData'[Buf'][rx'.n] = rx'.m
    BY DEF FilledInv
  <1>1. rx'.m = rx.m /\ rx'.n = rx.n /\ Buf' = Buf /\ (Placed \/ (Fill /\ cb' = cb))
    BY PlacedStep
  <1>2. CASE Fill
    BY <1>1, <1>2, FillEntry
  <1>3. CASE Placed /\ ~Fill
    <2>1. PICK b \in Bufs, e \in Entries : b = Buf /\ e = rx.n
      BY Shapes
    <2>2. ~Emptying(b)
      BY <1>3, <2>1, Apart DEF Placed, Working, Emptying
    <2>3. pData'[b][e] = pData[b][e]
      BY <1>3, <2>2, RecordMoves
    <2> QED BY <1>1, <1>3, <2>1, <2>3 DEF FilledInv
  <1> QED BY <1>1, <1>2, <1>3

\* The batch's first section is counted.
LEMMA PublishCounts ==
    ASSUME RecordsLast, TypeInv, ClockInv, OwnerInv, Publish, cb' = cb, rx.batch, rx.first
    PROVE  \E f \in Entries : \A b \in Bufs, m \in Mbufs :
              b = Buf /\ m = rx.m => Counts(b, f, m)' /\ slotOf'[m] = rx.slot
  <1>1. /\ rx.pc = "publish" /\ rx \in RxStates /\ nRxPkt \in [Bufs -> 0..MaxPkt] /\ Buf \in Bufs
        /\ Working /\ rx.n \in Entries /\ rx.n \in Nat /\ Placed
        /\ rx.m \in Mbufs /\ slotOf[rx.m] = rx.slot /\ life[rx.m] = "held"
        /\ pCtrl[Buf][rx.n] = rx.m
    BY Shapes DEF Publish, Working, OwnerInv, RxMbuf, RxPlace, Placed
  <1>2. nRxPkt' = [nRxPkt EXCEPT ![Buf] = rx.n + 1] /\ UNCHANGED <<pCtrl, life, slotOf>>
    BY DEF Publish, mbufVars
  <1>3. rx'.pc \notin {"replace", "fill"}
    <2>1. \/ rx' = Idle
          \/ rx' = [rx EXCEPT !.pc = "count", !.first = FALSE]
      BY DEF Publish, SectionDone
    <2>2. CASE rx' = Idle
      BY <2>2 DEF Idle
    <2>3. CASE rx' = [rx EXCEPT !.pc = "count", !.first = FALSE]
      BY <1>1, <2>3 DEF RxStates
    <2> QED BY <2>1, <2>2, <2>3
  <1>4. PICK f \in Entries : f = rx.n
    BY <1>1
  <1>5. SUFFICES ASSUME NEW b \in Bufs, NEW m \in Mbufs, b = Buf, m = rx.m
                 PROVE  Counts(b, f, m)' /\ slotOf'[m] = rx.slot
    OBVIOUS
  <1>6. nRxPkt'[b] = rx.n + 1 /\ f < nRxPkt'[b]
    BY <1>1, <1>2, <1>4, <1>5
  <1>7. ~Filling(b, f)' /\ ~Released(b, f)'
    BY <1>1, <1>3, <1>5, Apart DEF Filling, Released
  <1> QED BY <1>1, <1>2, <1>4, <1>5, <1>6, <1>7 DEF Counts, OwnedBy

\* A first section that is counted before is owned once it is filled.
LEMMA FillCounts ==
    ASSUME RecordsLast, TypeInv, ClockInv, OwnerInv, Fill, cb' = cb, ~rx.batch, rx.first
    PROVE  \E f \in Entries : \A b \in Bufs, m \in Mbufs :
              b = Buf /\ m = rx.m => Counts(b, f, m)' /\ slotOf'[m] = rx.slot
  <1>1. /\ rx.pc = "fill" /\ Buf \in Bufs
        /\ Working /\ rx.n \in Entries /\ rx.n \in Nat
        /\ rx.m \in Mbufs /\ slotOf[rx.m] = rx.slot /\ nRxPkt[Buf] = rx.n + 1
    BY Shapes DEF Fill, Working, OwnerInv, RxMbuf, RxPlace
  <1>2. nRxPkt' = nRxPkt /\ slotOf' = slotOf
    BY DEF Fill
  <1>3. pCtrl'[Buf][rx.n] = rx.m /\ life'[rx.m] = "held" /\ rx'.pc \notin {"replace", "fill"}
    BY FillEntry
  <1>4. PICK f \in Entries : f = rx.n
    BY <1>1
  <1>5. SUFFICES ASSUME NEW b \in Bufs, NEW m \in Mbufs, b = Buf, m = rx.m
                 PROVE  Counts(b, f, m)' /\ slotOf'[m] = rx.slot
    OBVIOUS
  <1>6. f < nRxPkt'[b]
    BY <1>1, <1>2, <1>4, <1>5
  <1>7. ~Filling(b, f)' /\ ~Released(b, f)'
    BY <1>1, <1>3, <1>5, Apart DEF Filling, Released
  <1> QED BY <1>1, <1>2, <1>3, <1>4, <1>5, <1>6, <1>7 DEF Counts, OwnedBy

LEMMA HeldStep ==
    ASSUME RecordsLast, TypeInv, ClockInv, OwnerInv, HeldInv, [Next]_vars
    PROVE  HeldInv'
  <1> SUFFICES ASSUME NEW m \in Mbufs, NEW b \in Bufs,
                      life'[m] = "held", b = slotOf'[m] % BufLen
               PROVE  \/ \E f \in Entries : Counts(b, f, m)'
                      \/ rx'.first /\ Placed' /\ rx'.m = m
    BY DEF HeldInv, Bufs, Entries
  <1>1. CASE \E c \in Bufs, f \in Entries : c = slotOf[m] % BufLen /\ Counts(c, f, m)
    <2>1. PICK c \in Bufs, f \in Entries : c = slotOf[m] % BufLen /\ Counts(c, f, m)
      BY <1>1
    <2>2. Counts(c, f, m)' /\ slotOf'[m] = slotOf[m]
      BY <2>1, CarryStep DEF Carry, Carried
    <2>3. c = b
      BY <2>1, <2>2
    <2> QED BY <2>2, <2>3
  <1>2. CASE life[m] = "held" /\ rx.first /\ Placed /\ rx.m = m
    <2>1. rx.m \in Mbufs /\ slotOf[rx.m] = rx.slot /\ rx \in RxStates
      BY <1>2, Shapes DEF OwnerInv, RxMbuf, Placed
    <2>2. CASE ProcessMbuf
      <3>1. Publish /\ cb' = cb
        BY <1>2, <2>2 DEF ProcessMbuf, CheckWindow, TakePlace, Replace, Fill, Placed
      <3>2. PICK f \in Entries : \A c \in Bufs, n \in Mbufs :
               c = Buf /\ n = rx.m => Counts(c, f, n)' /\ slotOf'[n] = rx.slot
        BY <1>2, <3>1, PublishCounts DEF Placed
      <3>3. PICK c \in Bufs : c = Buf
        BY Shapes
      <3>4. Counts(c, f, m)' /\ slotOf'[m] = rx.slot
        BY <1>2, <3>2, <3>3
      <3>5. c = b
        BY <3>3, <3>4 DEF Buf
      <3> QED BY <3>4, <3>5
    <2>3. CASE RxSame
      BY <1>2, <2>3 DEF RxSame, Placed
    <2>4. CASE NextSymbol \/ NewSecond \/ ResetCounters
      BY <2>3, <2>4, ClockKeeps
    <2>5. CASE FullSlotCallback \/ UNCHANGED vars
      BY <2>3, <2>5 DEF FullSlotCallback, RxSame, vars
    <2>6. ASSUME NEW n \in Mbufs, NEW slot \in Slots, Receive(n, slot)
          PROVE  FALSE
      BY <1>2, <2>6 DEF Receive, Placed
    <2> QED BY <2>2, <2>4, <2>5, <2>6 DEF Next
  <1>3. CASE life[m] = "held"
    <2>1. PICK c \in Bufs : c = slotOf[m] % BufLen
      <3>1. slotOf[m] \in Slots
        BY Shapes
      <3> QED BY <3>1, Sizes, Division DEF Slots, Bufs
    <2> QED BY <1>1, <1>2, <1>3, <2>1 DEF HeldInv
  <1>4. CASE life[m] # "held"
    <2>1. Fill /\ cb' = cb /\ m = rx.m
      BY <1>4, NewHeld
    <2>2. rx.first /\ rx \in RxStates /\ rx.pc = "fill"
      BY <1>4, <2>1, Shapes DEF OwnerInv, RxMbuf, Fill
    <2>3. CASE rx.batch
      <3>1. rx' = [rx EXCEPT !.pc = "publish"]
        BY <2>1, <2>3 DEF Fill
      <3> QED BY <2>1, <2>2, <2>3, <3>1 DEF RxStates, Placed
    <2>4. CASE ~rx.batch
      <3>1. PICK f \in Entries : \A c \in Bufs, n \in Mbufs :
               c = Buf /\ n = rx.m => Counts(c, f, n)' /\ slotOf'[n] = rx.slot
        BY <2>1, <2>2, <2>4, FillCounts
      <3>2. PICK c \in Bufs : c = Buf
        BY Shapes
      <3>3. Counts(c, f, m)' /\ slotOf'[m] = rx.slot
        BY <2>1, <3>1, <3>2
      <3>4. c = b
        BY <3>2, <3>3 DEF Buf
      <3> QED BY <3>3, <3>4
    <2> QED BY <2>3, <2>4
  <1> QED BY <1>3, <1>4

LEMMA PurePublish ==
    ASSUME RecordsLast, TypeInv, ClockInv, OwnerInv, FilledInv, PureInv, [Next]_vars,
           Publish, cb' = cb, NEW b \in Bufs, b = Buf
    PROVE  \E s \in Slots : PureIn(b, s)'
  <1>1. /\ rx.pc = "publish" /\ rx \in RxStates /\ nRxPkt \in [Bufs -> 0..MaxPkt]
        /\ Working /\ rx.n \in Entries /\ rx.n \in Nat /\ nRxPkt[b] = rx.n
        /\ rx.m \in Mbufs /\ slotOf[rx.m] = rx.slot /\ Entries \subseteq Nat
        /\ rx.batch \in BOOLEAN
    BY Shapes DEF Publish, Working, OwnerInv, RxMbuf, RxPlace
  <1>2. nRxPkt'[b] = rx.n + 1 /\ pData' = pData
    BY <1>1 DEF Publish
  <1>3. PICK s \in Slots : s = rx.slot
    BY RxFacts
  <1>4. s % BufLen = b
    BY <1>3 DEF Buf
  <1>5. Timed(s)'
    <2>1. ~Empty
      <3>1. Empty => cb.pc = "zero" /\ cb' = CbIdle
        BY DEF Empty
      <3> QED BY <3>1 DEF CbIdle
    <2>2. Timed(s)
      BY <1>1, <1>3, WorkingFresh DEF Timed
    <2> QED BY <2>1, <2>2, TimedStep
  <1>6. ASSUME NEW e \in Entries, e < nRxPkt'[b], ~Filling(b, e)', ~Emptying(b)'
        PROVE  Kept(b, e, s)'
    <2>1. ~Emptying(b) /\ pData'[b][e] = pData[b][e] /\ \A f : ~Filling(b, f)
      BY <1>1, <1>2, <1>6 DEF Emptying, Filling
    <2>2. CASE e < rx.n
      <3>1. nRxPkt[b] > 0 /\ e < nRxPkt[b]
        BY <1>1, <2>2
      <3>2. PICK t \in Slots : PureIn(b, t)
        BY <3>1 DEF PureInv
      <3>3. t = s
        BY <1>1, <1>3, <3>2, WorkingSlot DEF PureIn
      <3>4. PICK m \in Mbufs, f \in Entries :
               pData[b][e] = m /\ slotOf[m] = s /\ Counts(b, f, m)
        BY <2>1, <3>1, <3>2, <3>3 DEF PureIn, Kept
      <3>5. Counts(b, f, m)' /\ slotOf'[m] = s
        BY <2>1, <3>4, CarryStep DEF Carry, Carried
      <3> QED BY <2>1, <3>4, <3>5 DEF Kept, Entries
    <2>3. CASE e = rx.n
      <3>1. rx.batch /\ Placed
        <4>1. ASSUME ~rx.batch
              PROVE  FALSE
          <5>1. rx' = [rx EXCEPT !.pc = "replace"]
            BY <4>1 DEF Publish
          <5>2. rx'.pc = "replace" /\ ~rx'.batch /\ rx'.n = rx.n /\ Buf' = Buf
            BY <1>1, <4>1, <5>1 DEF RxStates, Buf
          <5> QED BY <1>6, <2>3, <5>2 DEF Filling
        <4> QED BY <1>1, <4>1 DEF Placed
      <3>2. PICK m \in Mbufs : m = rx.m
        BY <1>1
      <3>3. pData'[b][e] = m
        BY <2>1, <2>3, <3>1, <3>2 DEF FilledInv
      <3>4. CASE rx.first
        <4>1. PICK f \in Entries : \A c \in Bufs, n \in Mbufs :
                 c = Buf /\ n = rx.m => Counts(c, f, n)' /\ slotOf'[n] = rx.slot
          BY <3>1, <3>4, PublishCounts
        <4>2. Counts(b, f, m)' /\ slotOf'[m] = s
          BY <1>3, <3>2, <4>1
        <4> QED BY <3>3, <4>2 DEF Kept, Entries
      <3>5. CASE ~rx.first
        <4>1. PICK f \in Entries : OwnedBy(b, f, m) /\ f < rx.n
          BY <1>1, <3>2, <3>5 DEF OwnerInv, RxPlace
        <4>2. life[m] = "held"
          BY <1>1, <3>2, <3>5 DEF OwnerInv, RxMbuf
        <4>3. Counts(b, f, m)
          BY <1>1, <2>1, <4>1, <4>2 DEF Counts
        <4>4. Counts(b, f, m)' /\ slotOf'[m] = s
          BY <1>1, <1>3, <2>1, <3>2, <4>3, CarryStep DEF Carry, Carried
        <4> QED BY <3>3, <4>4 DEF Kept, Entries
      <3> QED BY <3>4, <3>5
    <2>4. e \in Nat /\ (e < rx.n \/ e = rx.n)
      BY <1>1, <1>2, <1>6
    <2> QED BY <2>2, <2>3, <2>4
  <1> QED BY <1>4, <1>5, <1>6 DEF PureIn, Entries

\* A record whose count does not change.
LEMMA PureBeside ==
    ASSUME RecordsLast, TypeInv, ClockInv, OwnerInv, PureInv, [Next]_vars,
           NEW b \in Bufs, nRxPkt[b] > 0, nRxPkt'[b] = nRxPkt[b],
           ~(Empty /\ b = EmptiedBuf(cb.slot))
    PROVE  \E s \in Slots : PureIn(b, s)'
  <1>1. PICK s \in Slots : PureIn(b, s)
    BY DEF PureInv
  <1>2. s % BufLen = b /\ Timed(s)
    BY <1>1 DEF PureIn
  <1>3. Timed(s)'
    <2>1. ~(Empty /\ Due(s))
      BY <1>2, DueRecord
    <2> QED BY <1>2, <2>1, TimedStep
  <1>4. ASSUME NEW e \in Entries, e < nRxPkt'[b], ~Filling(b, e)', ~Emptying(b)'
        PROVE  Kept(b, e, s)'
    <2>1. ~Emptying(b) /\ e < nRxPkt[b]
      BY <1>4, RecordMoves
    <2>2. CASE Filling(b, e)
      <3>1. Fill /\ cb' = cb
        BY <1>4, <2>2, RecordMoves
      <3>2. ~rx.batch /\ b = Buf /\ e = rx.n /\ Working
        BY <2>2 DEF Filling, Working
      <3>3. rx.slot = s
        BY <1>2, <3>2, WorkingSlot
      <3>4. /\ rx.m \in Mbufs /\ slotOf[rx.m] = rx.slot /\ rx.pc = "fill" /\ rx.n \in Nat
            /\ nRxPkt[b] = rx.n + 1 /\ rx.n \in Entries /\ Entries \subseteq Nat
        BY <3>1, <3>2, Shapes DEF OwnerInv, RxMbuf, RxPlace, Fill, Working
      <3>5. PICK m \in Mbufs : m = rx.m
        BY <3>4
      <3>6. pData'[b][e] = m /\ life'[m] = "held"
        BY <3>1, <3>2, <3>5, FillEntry
      <3>7. CASE rx.first
        <4>1. PICK f \in Entries : \A c \in Bufs, n \in Mbufs :
                 c = Buf /\ n = rx.m => Counts(c, f, n)' /\ slotOf'[n] = rx.slot
          BY <3>1, <3>2, <3>7, FillCounts
        <4>2. Counts(b, f, m)' /\ slotOf'[m] = s
          BY <3>2, <3>3, <3>5, <4>1
        <4> QED BY <3>6, <4>2 DEF Kept, Entries
      <3>8. CASE ~rx.first
        <4>1. PICK f \in Entries : OwnedBy(b, f, m) /\ f < rx.n
          BY <3>2, <3>4, <3>5, <3>8 DEF OwnerInv, RxPlace
        <4>2. life[m] = "held"
          BY <3>4, <3>5, <3>8 DEF OwnerInv, RxMbuf
        <4>3. f < nRxPkt[b] /\ f # rx.n
          <5>1. f \in Nat /\ rx.n \in Nat /\ f < rx.n /\ nRxPkt[b] = rx.n + 1
            BY <3>4, <4>1
          <5> QED BY <5>1
        <4>4. Counts(b, f, m)
          BY <4>1, <4>2, <4>3 DEF Counts, Filling
        <4>5. Counts(b, f, m)' /\ slotOf'[m] = s
          BY <2>1, <3>3, <3>4, <3>5, <4>4, CarryStep DEF Carry, Carried
        <4> QED BY <3>6, <4>5 DEF Kept, Entries
      <3> QED BY <3>7, <3>8
    <2>3. CASE ~Filling(b, e)
      <3>1. PICK m \in Mbufs, f \in Entries :
               pData[b][e] = m /\ slotOf[m] = s /\ Counts(b, f, m)
        BY <1>1, <2>1, <2>3 DEF PureIn, Kept
      <3>2. Counts(b, f, m)' /\ slotOf'[m] = s
        BY <2>1, <3>1, CarryStep DEF Carry, Carried
      <3>3. ~(Fill /\ b = Buf /\ e = rx.n)
        <4>1. ASSUME Fill, b = Buf, e = rx.n
              PROVE  FALSE
          <5>1. rx.pc = "fill" /\ rx.n \in Nat /\ nRxPkt[b] = IF rx.batch THEN rx.n ELSE rx.n + 1
            BY <4>1, Shapes DEF Fill, OwnerInv, RxPlace
          <5>2. rx.batch
            BY <2>3, <4>1, <5>1 DEF Filling
          <5> QED BY <2>1, <4>1, <5>1, <5>2
        <4> QED BY <4>1
      <3>4. pData'[b][e] = m
        BY <2>1, <3>1, <3>3, RecordMoves
      <3> QED BY <3>2, <3>4 DEF Kept, Entries
    <2> QED BY <2>2, <2>3
  <1> QED BY <1>2, <1>3, <1>4 DEF PureIn, Entries

LEMMA PureStep ==
    ASSUME RecordsLast, TypeInv, ClockInv, OwnerInv, FilledInv, PureInv, [Next]_vars
    PROVE  PureInv'
  <1> SUFFICES ASSUME NEW b \in Bufs, nRxPkt'[b] > 0
               PROVE  \E s \in Slots : PureIn(b, s)'
    BY DEF PureInv, Bufs, Slots
  <1>1. 0 \in Entries
    BY Sizes DEF Entries
  <1>2. CASE Publish /\ cb' = cb /\ b = Buf
    BY <1>2, PurePublish
  <1>3. CASE Empty /\ b = EmptiedBuf(cb.slot)
    <2>1. nRxPkt'[b] = 0
      <3>1. nRxPkt' = [nRxPkt EXCEPT ![EmptiedBuf(cb.slot)] = EmptyCount(EmptiedBuf(cb.slot))]
        BY <1>3 DEF Empty
      <3> QED BY <1>3, <3>1, Shapes DEF EmptyCount
    <2> QED BY <2>1
  <1>4. CASE nRxPkt'[b] = nRxPkt[b] /\ ~(Empty /\ b = EmptiedBuf(cb.slot))
    BY <1>4, PureBeside
  <1> QED BY <1>1, <1>2, <1>3, <1>4, RecordMoves

-----------------------------------------------------------------------------
(* What the PHY has been given. *)

\* A slot stays with the PHY for a slot, from the symbol after its window on.
Reported(s) == \E a \in Int : N + Ub <= a /\ a < 2 * N + Ub /\ Same(Tick, s * N + a)
PhyInv == IF cb.pc = "armed" THEN Due(Given) ELSE Reported(Given)
PhyCb == cb.pc \in {"free", "clear", "zero"} => phySlot = cb.slot

LEMMA RecordsFit == RecordsLast => BufLen > 2 /\ BufLen <= SfnSlots
  <1> SUFFICES ASSUME RecordsLast
               PROVE  BufLen > 2 /\ BufLen <= SfnSlots
    OBVIOUS
  <1>1. BufLen > 2
    <2>1. BufLen * N > 2 * N /\ BufLen \in Nat /\ N \in Nat
      <3>1. BufLen * N > 2 * N + Ub + Slack /\ BufLen * N \in Int
        BY Sizes, Products DEF RecordsLast
      <3> QED BY <3>1, Sizes
    <2>2. BufLen = 0 => BufLen * N = 0
      BY <2>1
    <2>3. BufLen = 1 => BufLen * N = N
      BY <2>1
    <2>4. BufLen = 2 => BufLen * N = 2 * N
      BY <2>1
    <2> QED BY <2>1, <2>2, <2>3, <2>4
  <1>2. PICK turns \in Nat : turns > 0 /\ SfnSlots = BufLen * turns
    BY Sizes DEF RecordsLast
  <1>3. BufLen <= turns * BufLen /\ turns * BufLen = BufLen * turns
    BY <1>2, Sizes, Products
  <1> QED BY <1>1, <1>2, <1>3, Sizes

\* The slot with the PHY, as a slot.
LEMMA GivenFacts ==
    ASSUME RecordsLast, TypeInv
    PROVE  /\ Given \in Slots /\ (phySlot # NoSlot => Given = phySlot)
           /\ \A s \in Slots : phySlot' = s => Given' = s
           /\ (phySlot' = phySlot => Given' = Given)
  <1>1. phySlot \in Slots \cup {NoSlot} /\ NoSlot \notin Slots
    BY TypeParts, Shapes DEF TypeInv
  <1>2. SfnSlots - 2 \in Slots
    BY RecordsFit, Sizes DEF Slots
  <1> QED BY <1>1, <1>2 DEF Given

LEMMA ReportReports ==
    ASSUME RecordsLast, TypeInv, ClockInv, Report, UNCHANGED clockVars
    PROVE  \A s \in Slots : s = phySlot' => Reported(s)'
  <1>1. cb.pc = "armed" /\ phySlot' = cb.slot /\ Tick' = Tick
    BY StillTick DEF Report
  <1>2. cb.slot \in Slots /\ cb.slot * N \in Int /\ cb.ticks \in Int /\ 0 <= cb.ticks
        /\ cb.ticks <= Slack /\ Slack < N /\ N \in Int /\ Ub \in Int /\ Slack \in Int
    BY CbFacts, Sizes DEF RecordsLast
  <1> DEFINE a == N + Ub + cb.ticks
             c == cb.slot * N
  <1>3. a \in Int /\ N + Ub <= a /\ a < 2 * N + Ub
    BY <1>2
  <1>4. Same(Tick, c + a)
    <2>1. c + N + Ub + cb.ticks = c + a /\ c \in Int
      BY <1>2
    <2>2. Same(Tick, c + N + Ub + cb.ticks)
      BY <1>1 DEF ClockInv, CbClock
    <2> QED BY <2>1, <2>2
  <1> HIDE DEF a
  <1> QED BY <1>1, <1>3, <1>4 DEF Reported

\* The timing thread arms the callback at the end of the slot after the one given.
LEMMA PhyArmed ==
    ASSUME RecordsLast, TypeInv, TypeInv', ClockInv', NextSymbol \/ NewSecond \/ ResetCounters,
           cb.pc = "idle", cb'.pc = "armed", NEW s \in Slots, Reported(s)
    PROVE  Due(s)'
  <1>1. PICK a \in Int : N + Ub <= a /\ a < 2 * N + Ub /\ Same(Tick, s * N + a)
    BY DEF Reported
  <1>2. PICK idx \in Int : /\ idx % N = DeadlineSym /\ SymbolBegins(idx)
                            /\ \/ ResetCounters /\ idx = 0
                               \/ NextSymbol /\ idx = symIdx + 1
    <2>1. Aged(cb).pc = cb.pc
      BY AgedFields
    <2>2. ASSUME NEW idx, SymbolBegins(idx)
          PROVE  idx % N = DeadlineSym
      <3>1. cb' = cb \/ cb' = Aged(cb) => cb'.pc = "idle"
        BY <2>1
      <3> QED BY <2>2, <3>1 DEF SymbolBegins
    <2>3. CASE NextSymbol
      <3>1. symIdx + 1 \in Int
        BY ClockFacts
      <3> QED BY <2>2, <2>3, <3>1 DEF NextSymbol
    <2>4. CASE NewSecond
      BY <2>1, <2>4 DEF NewSecond
    <2>5. CASE ResetCounters
      BY <2>2, <2>5 DEF ResetCounters
    <2> QED BY <2>3, <2>4, <2>5
  <1>3. cb'.ticks = 0 /\ cb'.slot \in Slots
    <2>1. cb' = [CbIdle EXCEPT !.pc = "armed", !.slot = FullSlot(idx)]
      <3>1. idx % N = DeadlineSym /\ SymbolBegins(idx)
        BY <1>2, Zenon
      <3> QED BY <3>1, Zenon DEF SymbolBegins
    <2>2. cb'.ticks = 0
      BY <2>1 DEF CbIdle
    <2>3. cb' \in CbStates
      BY Zenon DEF TypeInv, TypeOK, CbStates, Slots
    <2> QED BY <2>2, <2>3 DEF CbStates, Slots
  <1>4. PICK r \in Slots : r = cb'.slot
    BY <1>3
  <1>5. /\ r * N \in Int /\ s * N \in Int /\ N \in Int /\ N > 0 /\ Ub \in Int /\ Ub > 0 /\ Ub < N
        /\ Tick' \in Int /\ Tick \in Int
    <2>1. r \in Int /\ s \in Int
      BY Sizes DEF Slots
    <2>2. Tick' \in Int
      BY <1>2, TickStep, ResetStep, ClockFacts
    <2> QED BY <2>1, <2>2, Sizes, ClockFacts DEF RecordsLast
  <1>6. Same(Tick', r * N + (N + Ub))
    <2>1. Same(Tick', cb'.slot * N + N + Ub + cb'.ticks)
      BY DEF ClockInv, CbClock
    <2>2. cb'.slot * N + N + Ub + cb'.ticks = r * N + (N + Ub)
      BY <1>3, <1>4, <1>5
    <2> QED BY <2>1, <2>2
  <1>7. CASE ResetCounters
    <2>1. DeadlineSym = 0
      <3>1. 0 % N = 0
        BY Sizes
      <3>2. idx = 0 /\ idx % N = DeadlineSym
        BY <1>2, <1>7, Zenon DEF ResetCounters, NextSymbol
      <3> QED BY <3>1, <3>2, Zenon
    <2>2. DeadlineSym = Ub
      <3>1. Ub \in 0..(N - 1) /\ N \in Nat \ {0} /\ 0 \in Int
        BY <1>5, Sizes
      <3>2. (N * 0 + Ub) % N = Ub /\ N * 0 + Ub = Ub
        BY <3>1, Remainder
      <3> QED BY <3>2 DEF DeadlineSym
    <2> QED BY <1>5, <2>1, <2>2
  <1>8. CASE NextSymbol
    <2>1. ASSUME a + 1 < 2 * N + Ub, Same(Tick', s * N + (a + 1))
          PROVE  FALSE
      <3> DEFINE x == a + 1 - (N + Ub)
                 p == s * N
                 q == r * N
                 v == N + Ub
      <3>1. x \in Int /\ 0 < x /\ x < N /\ p \in Int /\ q \in Int /\ v \in Int /\ -v \in Int
            /\ p + (a + 1) = (p + x) + v
        BY <1>1, <1>5, <2>1
      <3>2. Same(Tick', (p + x) + v) /\ Same(Tick', q + v)
        BY <1>6, <2>1, <3>1
      <3> HIDE DEF x, p, q, v
      <3>3. /\ (p + x) + v \in Int /\ q + v \in Int /\ ((p + x) + v) + (-v) = p + x
            /\ (q + v) + (-v) = q
        BY <3>1
      <3>4. Same((p + x) + v, q + v)
        BY <1>5, <3>2, <3>3, SameSymmetric, SameTransitive
      <3>5. Same(p + x, q)
        BY <3>1, <3>3, <3>4, SameShift
      <3>6. x = 0
        BY <3>1, <3>5, SameStart DEF p, q
      <3> QED BY <3>1, <3>6
    <2> QED BY <1>1, <1>8, <2>1, WindowStep
  <1> QED BY <1>2, <1>7, <1>8

LEMMA PhyStep ==
    ASSUME WindowFits, RecordsLast, TypeInv, ClockInv, PhyInv, [Next]_vars
    PROVE  PhyInv'
  <1>1. /\ cb \in CbStates /\ cb.slot \in Slots /\ Given \in Slots /\ TypeInv' /\ ClockInv'
        /\ phySlot' = phySlot => Given' = Given
    BY Shapes, CbFacts, GivenFacts, TypeStep, ClockInvStep
  <1>a. PICK s \in Slots : s = Given
    BY <1>1
  <1>2. CASE FullSlotCallback
    <2>1. CASE Report
      <3>1. PICK t \in Slots : t = phySlot'
        BY <1>1, <2>1 DEF Report
      <3>2. Given' = t
        BY <3>1, GivenFacts
      <3>3. Reported(t)'
        BY <1>2, <2>1, <3>1, ReportReports DEF FullSlotCallback
      <3>4. cb'.pc # "armed"
        BY <1>1, <2>1 DEF Report, CbStates
      <3> QED BY <3>2, <3>3, <3>4 DEF PhyInv, Reported
    <2>2. CASE FreeNext \/ ClearFreed \/ Empty
      <3>1. cb.pc # "armed" /\ phySlot' = phySlot /\ Tick' = Tick
        BY <1>2, <2>2, StillTick DEF FreeNext, ClearFreed, Empty, FullSlotCallback
      <3>2. cb'.pc # "armed"
        <4>1. CASE FreeNext \/ ClearFreed
          BY <1>1, <4>1 DEF FreeNext, ClearFreed, CbStates
        <4>2. CASE Empty
          BY <4>2 DEF Empty, CbIdle
        <4> QED BY <2>2, <4>1, <4>2
      <3>3. Reported(s) /\ Given' = s
        BY <1>1, <1>a, <3>1 DEF PhyInv
      <3> QED BY <3>1, <3>2, <3>3 DEF PhyInv, Reported
    <2> QED BY <1>2, <2>1, <2>2 DEF FullSlotCallback
  <1>3. ASSUME UNCHANGED <<clockVars, cb, phySlot>>
        PROVE  PhyInv'
    <2>1. Tick' = Tick /\ cb' = cb /\ Given' = s
      BY <1>1, <1>3, <1>a, StillTick
    <2>2. IF cb.pc = "armed" THEN Due(s) ELSE Reported(s)
      BY <1>a DEF PhyInv
    <2> QED BY <2>1, <2>2 DEF PhyInv, Reported, Due
  <1>4. CASE NextSymbol \/ NewSecond \/ ResetCounters
    <2>1. phySlot' = phySlot /\ (CbSame \/ (cb.pc = "idle" /\ cb'.pc = "armed"))
      BY <1>4, ClockKeeps
    <2>2. Given' = s
      BY <1>1, <1>a, <2>1
    <2>3. CASE cb.pc = "armed"
      <3>1. Due(s) /\ CbSame
        BY <1>a, <2>1, <2>3 DEF PhyInv
      <3> QED BY <2>2, <2>3, <3>1 DEF PhyInv, CbSame, Due
    <2>4. CASE cb.pc # "armed" /\ cb'.pc = "armed"
      <3>1. Reported(s) /\ cb.pc = "idle"
        BY <1>a, <2>1, <2>4 DEF PhyInv, CbSame
      <3>2. Due(s)'
        BY <1>1, <1>4, <2>4, <3>1, PhyArmed
      <3> QED BY <2>2, <2>4, <3>2 DEF PhyInv, Due
    <2>5. CASE cb.pc # "armed" /\ cb'.pc # "armed"
      <3>1. PICK a \in Int : N + Ub <= a /\ a < 2 * N + Ub /\ Same(Tick, s * N + a)
        BY <1>a, <2>5 DEF PhyInv, Reported
      <3>2. CASE ResetCounters
        <4>1. Tick' = Tick
          BY <3>2, ResetStep
        <4> QED BY <2>2, <2>5, <3>1, <4>1 DEF PhyInv, Reported
      <3>3. CASE NextSymbol \/ NewSecond
        <4>1. a + 1 < 2 * N + Ub /\ Same(Tick', s * N + (a + 1))
          BY <2>5, <3>1, <3>3, WindowStep
        <4>2. a + 1 \in Int /\ N + Ub <= a + 1
          BY <3>1, Sizes
        <4>3. Reported(s)'
          BY <4>1, <4>2 DEF Reported
        <4> QED BY <2>2, <2>5, <4>3 DEF PhyInv, Reported
      <3> QED BY <1>4, <3>2, <3>3
    <2> QED BY <2>3, <2>4, <2>5
  <1>5. ASSUME NEW m \in Mbufs, NEW slot \in Slots, Receive(m, slot)
        PROVE  PhyInv'
    BY <1>3, <1>5 DEF Receive
  <1>6. CASE ProcessMbuf
    BY <1>3, <1>6 DEF ProcessMbuf
  <1>7. CASE UNCHANGED vars
    BY <1>3, <1>7 DEF vars
  <1> QED BY <1>2, <1>4, <1>5, <1>6, <1>7 DEF Next

LEMMA PhyCbStep ==
    ASSUME TypeInv, PhyCb, [Next]_vars
    PROVE  PhyCb'
  <1>1. cb \in CbStates
    BY Shapes
  <1>2. CASE NextSymbol \/ NewSecond \/ ResetCounters
    BY <1>2, ClockKeeps DEF PhyCb, CbSame
  <1>3. CASE UNCHANGED <<cb, phySlot>>
    BY <1>3 DEF PhyCb
  <1>4. CASE FullSlotCallback
    <2>1. CASE Report
      BY <1>1, <2>1 DEF Report, PhyCb, CbStates
    <2>2. CASE FreeNext \/ ClearFreed
      <3>1. cb'.slot = cb.slot /\ phySlot' = phySlot /\ cb.pc \in {"free", "clear"}
        BY <1>1, <2>2 DEF FreeNext, ClearFreed, CbStates
      <3> QED BY <3>1 DEF PhyCb
    <2>3. CASE Empty
      BY <2>3 DEF Empty, PhyCb, CbIdle
    <2> QED BY <1>4, <2>1, <2>2, <2>3 DEF FullSlotCallback
  <1>5. ASSUME NEW m \in Mbufs, NEW slot \in Slots, Receive(m, slot)
        PROVE  UNCHANGED <<cb, phySlot>>
    BY <1>5 DEF Receive
  <1>6. ProcessMbuf \/ UNCHANGED vars => UNCHANGED <<cb, phySlot>>
    BY DEF ProcessMbuf, vars
  <1> QED BY <1>2, <1>3, <1>4, <1>5, <1>6 DEF Next

\* A worker whose packet is for the slot that the PHY has been given was overtaken.
LEMMA Overtaken ==
    ASSUME RecordsLast, TypeInv, ClockInv, PhyInv, Working, rx.slot = phySlot
    PROVE  rx.ticks > 0 \/ Late(rx.slot, rx.at) > Ub
  <1> SUFFICES ASSUME ~(rx.ticks > 0), ~(Late(rx.slot, rx.at) > Ub)
               PROVE  FALSE
    OBVIOUS
  <1>1. PICK d \in Int : /\ 0 <= d /\ d = Late(rx.slot, rx.at)
                         /\ Same(Tick, rx.slot * N + (sym + d + rx.ticks))
    BY WorkingTime
  <1>2. PICK s \in Slots : s = rx.slot
    BY RxFacts
  <1> DEFINE a == sym + d + rx.ticks
  <1>3. a \in Int /\ 0 <= a /\ a < N + Ub
    <2>1. rx.ticks \in Nat /\ sym \in Nat /\ sym < N /\ Ub \in Nat /\ N \in Nat
      BY RxFacts, Sizes
    <2>2. rx.ticks = 0 /\ d <= Ub
      BY <1>1, <2>1
    <2> QED BY <1>1, <2>1, <2>2
  <1>4. Same(Tick, s * N + a)
    BY <1>1, <1>2
  <1> HIDE DEF a
  <1>5. \E c \in Int : N + Ub <= c /\ c <= 2 * N + Ub + Slack /\ Same(Tick, s * N + c)
    <2>1. CASE Reported(s)
      <3>1. PICK c \in Int : N + Ub <= c /\ c < 2 * N + Ub /\ Same(Tick, s * N + c)
        BY <2>1 DEF Reported
      <3>2. c <= 2 * N + Ub + Slack
        BY <3>1, Sizes
      <3> QED BY <3>1, <3>2
    <2>2. CASE Due(s)
      <3> DEFINE c == 2 * N + Ub + cb.ticks
      <3>1. c \in Int /\ N + Ub <= c /\ c <= 2 * N + Ub + Slack
        BY CbFacts, Sizes
      <3>2. Same(Tick, s * N + c)
        BY <2>2, DueTime
      <3> HIDE DEF c
      <3> QED BY <3>1, <3>2
    <2>3. s = Given
      BY <1>2, GivenFacts, Shapes
    <2> QED BY <2>1, <2>2, <2>3 DEF PhyInv
  <1>6. PICK c \in Int : N + Ub <= c /\ c <= 2 * N + Ub + Slack /\ Same(Tick, s * N + c)
    BY <1>5
  <1>7. a <= 2 * N + Ub + Slack /\ 0 <= c
    BY <1>3, <1>6, Sizes
  <1>8. a = c
    BY <1>3, <1>4, <1>6, <1>7, NearMoments
  <1> QED BY <1>3, <1>6, <1>8, Sizes

\* The callback empties another record than the one just reported.
LEMMA OtherRecord ==
    ASSUME RecordsLast, TypeInv
    PROVE  EmptiedBuf(cb.slot) # cb.slot % BufLen
  <1> DEFINE i == cb.slot \div BufLen
             j == (cb.slot - 1) \div BufLen
             m == cb.slot % BufLen
  <1>1. cb.slot \in Int /\ cb.slot - 1 \in Int /\ BufLen \in Nat \ {0} /\ N \in Nat /\ N > 0
    BY CbFacts, Sizes
  <1>2. BufLen > 2
    BY RecordsFit
  <1> SUFFICES ASSUME EmptiedBuf(cb.slot) = cb.slot % BufLen
               PROVE  FALSE
    OBVIOUS
  <1>3. (cb.slot - 1) % BufLen = m
    BY EmptiedRecord
  <1>4. /\ i \in Int /\ j \in Int /\ m \in Int
        /\ cb.slot = BufLen * i + m /\ cb.slot - 1 = BufLen * j + m
    <2>1. i \in Int /\ m \in 0..(BufLen - 1) /\ cb.slot = BufLen * i + m
      BY <1>1, Division
    <2> DEFINE d == cb.slot - 1
    <2>2. d \in Int /\ d % BufLen = m
      BY <1>1, <1>3
    <2>3. d \div BufLen \in Int /\ d = BufLen * (d \div BufLen) + (d % BufLen)
      <3> HIDE DEF d
      <3> QED BY <1>1, <2>2, Division
    <2> QED BY <1>1, <2>1, <2>2, <2>3
  <1> HIDE DEF i, j, m
  <1>5. BufLen * (i - j) = 1 /\ i - j \in Int
    <2>1. BufLen * (i - j) = BufLen * i - BufLen * j
      BY <1>1, <1>4
    <2>2. BufLen * i \in Int /\ BufLen * j \in Int
      BY <1>1, <1>4
    <2> QED BY <1>1, <1>4, <2>1, <2>2
  <1> DEFINE k == i - j
  <1> HIDE DEF k
  <1>6. BufLen * k = 1 /\ k \in Int
    BY <1>5 DEF k
  <1>7. CASE k <= 0
    BY <1>1, <1>6, <1>7
  <1>8. CASE k > 0
    <2>1. BufLen <= BufLen * k
      BY <1>1, <1>6, <1>8
    <2> QED BY <1>1, <1>2, <1>6, <2>1
  <1> QED BY <1>6, <1>7, <1>8

LEMMA RecordsPure ==
    ASSUME RecordsLast, TypeInv, PureInv
    PROVE  RecordsArePure
  <1> SUFFICES ASSUME NEW b \in Bufs, ~(rx.pc # "idle" /\ Buf = b), cb.pc = "idle"
               PROVE  \E s \in {t \in Slots : t % BufLen = b} :
                         \A e \in Entries : e < nRxPkt[b] =>
                            pData[b][e] # None /\ life[pData[b][e]] = "held"
                            /\ slotOf[pData[b][e]] = s
    BY DEF RecordsArePure
  <1>1. nRxPkt[b] \in Nat /\ Entries \subseteq Nat /\ None \notin Mbufs
    BY Shapes, Sizes
  <1>2. CASE nRxPkt[b] > 0
    <2>1. PICK s \in Slots : PureIn(b, s)
      BY <1>2 DEF PureInv
    <2>2. \A e \in Entries : e < nRxPkt[b] => Kept(b, e, s)
      BY <2>1 DEF PureIn, Filling, Emptying
    <2>3. s % BufLen = b
      BY <2>1 DEF PureIn
    <2> QED BY <1>1, <2>2, <2>3 DEF Kept, Counts
  <1>3. CASE nRxPkt[b] = 0
    <2>1. b \in Slots
      <3>1. PICK turns \in Nat : turns > 0 /\ SfnSlots = BufLen * turns
        BY Sizes DEF RecordsLast
      <3>2. BufLen <= SfnSlots
        <4>1. turns * BufLen = BufLen * turns /\ BufLen <= turns * BufLen
          BY <3>1, Sizes, Products
        <4> QED BY <3>1, <4>1
      <3> QED BY <3>2, Sizes DEF Bufs, Slots
    <2>2. b % BufLen = b
      <3>1. BufLen \in Nat \ {0} /\ b \in 0..(BufLen - 1) /\ BufLen * 0 + b = b
        BY Sizes DEF Bufs
      <3>2. (BufLen * 0 + b) % BufLen = b
        BY <3>1, Remainder
      <3> QED BY <3>1, <3>2
    <2>3. \A e \in Entries : ~(e < nRxPkt[b])
      BY <1>1, <1>3
    <2> QED BY <2>1, <2>2, <2>3
  <1> QED BY <1>1, <1>2, <1>3

LEMMA PhyReads ==
    ASSUME RecordsLast, TypeInv, ClockInv, OwnerInv, HeldInv, PureInv, PhyInv, PhyCb
    PROVE  PhyReadsItsSlot
  <1> DEFINE late == rx.ticks > 0 \/ Late(rx.slot, rx.at) > Ub
             over == rx.pc # "idle" /\ rx.slot = phySlot /\ late
  <1> SUFFICES ASSUME phySlot # NoSlot
               PROVE  LET b == ReportedBuf(phySlot) IN
                      /\ \A e \in Entries :
                            e < nRxPkt[b] /\ ~(over /\ e = rx.n) =>
                               pData[b][e] # None /\ life[pData[b][e]] = "held"
                               /\ slotOf[pData[b][e]] = phySlot
                      /\ \A m \in Mbufs :
                            life[m] = "held" /\ slotOf[m] = phySlot /\ ~(over /\ rx.m = m) =>
                               \E e \in Entries : e < nRxPkt[b] /\ pCtrl[b][e] = m
    BY Zenon DEF PhyReadsItsSlot
  <1>1. PICK s \in Slots : s = phySlot
    BY TypeParts DEF TypeInv
  <1>2. PICK b \in Bufs : b = ReportedBuf(phySlot) /\ b = s % BufLen
    BY <1>1, Sizes, Division DEF ReportedBuf, Slots, Bufs
  <1>3. InTime(s)
    <2>1. CASE Reported(s)
      <3>1. PICK a \in Int : N + Ub <= a /\ a < 2 * N + Ub /\ Same(Tick, s * N + a)
        BY <2>1 DEF Reported
      <3>2. 0 <= a /\ a <= 2 * N + Ub + Slack
        BY <3>1, Sizes
      <3> QED BY <3>1, <3>2 DEF InTime
    <2>2. CASE Due(s)
      BY <2>2, TimedInTime DEF Timed
    <2> QED BY <1>1, <2>1, <2>2, GivenFacts DEF PhyInv
  <1>4. ~Emptying(b)
    BY <1>1, <1>2, OtherRecord DEF Emptying, PhyCb
  <1>5. Working /\ rx.slot = phySlot => over
    BY Overtaken DEF Working
  <1> HIDE DEF over, late
  <1>6. ASSUME NEW e \in Entries, e < nRxPkt[b], ~(over /\ e = rx.n)
        PROVE  pData[b][e] # None /\ life[pData[b][e]] = "held" /\ slotOf[pData[b][e]] = phySlot
    <2>1. nRxPkt[b] > 0
      <3>1. nRxPkt[b] \in Nat /\ e \in Nat
        BY Shapes, Sizes
      <3> QED BY <1>6, <3>1
    <2>2. PICK t \in Slots : PureIn(b, t)
      BY <2>1 DEF PureInv
    <2>3. t = s
      <3>1. InTime(t) /\ t % BufLen = s % BufLen
        BY <1>2, <2>2, TimedInTime DEF PureIn
      <3> QED BY <1>3, <3>1, OneSlot
    <2>4. ~Filling(b, e)
      <3>1. ASSUME Filling(b, e)
            PROVE  FALSE
        <4>1. Working /\ b = Buf /\ e = rx.n
          BY <3>1 DEF Filling, Working
        <4>2. rx.slot = s
          BY <1>2, <2>2, <2>3, <4>1, WorkingSlot DEF PureIn
        <4> QED BY <1>1, <1>5, <1>6, <4>1, <4>2
      <3> QED BY <3>1
    <2>5. Kept(b, e, s)
      BY <1>4, <1>6, <2>2, <2>3, <2>4 DEF PureIn
    <2> QED BY <1>1, <2>5, Shapes DEF Kept, Counts
  <1>7. ASSUME NEW m \in Mbufs, life[m] = "held", slotOf[m] = phySlot, ~(over /\ rx.m = m)
        PROVE  \E e \in Entries : e < nRxPkt[b] /\ pCtrl[b][e] = m
    <2>1. ~(rx.first /\ Placed /\ rx.m = m)
      <3>1. ASSUME Placed, rx.m = m
            PROVE  FALSE
        <4>1. Working /\ rx.slot = phySlot
          BY <1>7, <3>1 DEF Placed, Working, OwnerInv, RxMbuf
        <4> QED BY <1>5, <1>7, <3>1, <4>1
      <3> QED BY <3>1
    <2>2. PICK f \in Entries : Counts(b, f, m)
      BY <1>1, <1>2, <1>7, <2>1 DEF HeldInv
    <2> QED BY <2>2 DEF Counts, OwnedBy
  <1> QED BY <1>2, <1>6, <1>7

LEMMA PurityInit ==
    Init => FilledInv /\ HeldInv /\ PureInv /\ PhyCb
  BY DEF Init, Idle, CbIdle, FilledInv, Placed, HeldInv, PureInv, PhyCb

\* The clock starts as if the last slot but one had been given.
LEMMA PhyInit == RecordsLast /\ Init => PhyInv
  <1> SUFFICES ASSUME RecordsLast, Init
               PROVE  PhyInv
    OBVIOUS
  <1>1. Tick = 0 /\ Given = SfnSlots - 2 /\ cb.pc = "idle"
    BY Sizes DEF Init, Tick, Given, CbIdle
  <1> DEFINE a == 2 * N
  <1>2. a \in Int /\ N + Ub <= a /\ a < 2 * N + Ub
    BY Sizes DEF RecordsLast
  <1>3. 0 = ((SfnSlots - 2) * N + a) + SfnSyms * (-1)
    BY Sizes DEF SfnSyms
  <1>4. Same(Tick, Given * N + a)
    BY <1>1, <1>3 DEF Same
  <1> HIDE DEF a
  <1>5. Reported(Given)
    BY <1>2, <1>4 DEF Reported
  <1> QED BY <1>1, <1>5 DEF PhyInv

\* When neither worker is at a record, what it counts was received for one slot
\* (xran_rx_proc.c:525-599, app_io_fh_xran.c:206-226, app_bbu_main.c:652-663), if no
\* worker takes longer than a slot and the records are enough for the window.
THEOREM RecordsStayPure ==
    ASSUME WindowFits, RecordsLast
    PROVE  Spec => []RecordsArePure
  <1> DEFINE I == TypeInv /\ ClockInv /\ OwnerInv /\ FilledInv /\ PureInv
  <1>1. Init => I
    BY TypeInit, ClockInvInit, OwnerInit, PurityInit
  <1>2. I /\ [Next]_vars => I'
    BY TypeStep, ClockInvStep, OwnerStep, FilledStep, PureStep
  <1>3. I => RecordsArePure
    BY RecordsPure
  <1> QED BY <1>1, <1>2, <1>3, PTL DEF Spec

\* From the deadline callback on until the next slot's, the record that the PHY has been
\* given counts every packet kept for the slot and only those, but for the packet of a
\* worker that was overtaken (xran_main.c:1581-1634, xran_common.c:879-905).
THEOREM PhyGetsItsSlot ==
    ASSUME WindowFits, RecordsLast
    PROVE  Spec => []PhyReadsItsSlot
  <1> DEFINE I == /\ TypeInv /\ ClockInv /\ OwnerInv /\ FilledInv /\ HeldInv /\ PureInv
                  /\ PhyInv /\ PhyCb
  <1>1. Init => I
    BY TypeInit, ClockInvInit, OwnerInit, PurityInit, PhyInit
  <1>2. I /\ [Next]_vars => I'
    BY TypeStep, ClockInvStep, OwnerStep, FilledStep, HeldStep, PureStep, PhyStep, PhyCbStep
  <1>3. I => PhyReadsItsSlot
    BY PhyReads
  <1> QED BY <1>1, <1>2, <1>3, PTL DEF Spec

-----------------------------------------------------------------------------
(* The mailboxes. *)

\* Linked and not yet counted.
OnWay(m) == rx.first /\ Placed /\ rx.m = m

\* Place without the records.
Where(m) ==
    IF life[m] = "free" THEN "pool" ELSE IF life[m] = "done" THEN "spent"
    ELSE IF life[m] = "held" /\ ~OnWay(m) THEN "mail" ELSE "carried"

UnusedInv == \A m \in Mbufs : life[m] \in {"free", "done"} => slotOf[m] = 0

\* A packet is linked no longer than its slot's record is the slot's.
HeldTimed == \A m \in Mbufs : life[m] = "held" => Timed(slotOf[m])

\* What a step may do to an mbuf.
LEMMA MbufStep ==
    ASSUME TypeInv, OwnerInv, [Next]_vars, NEW m \in Mbufs
    PROVE  \/ life'[m] = life[m] /\ slotOf'[m] = slotOf[m]
           \/ life'[m] = "rx"
           \/ life'[m] \in {"free", "done"} /\ slotOf'[m] = 0
           \/ life'[m] = "held" /\ slotOf'[m] = slotOf[m]
  <1>1. life \in [Mbufs -> {"free", "rx", "held", "done"}] /\ slotOf \in [Mbufs -> Slots]
    BY Shapes
  <1>a. ASSUME NEW n, life' = [life EXCEPT ![n] = "free"], slotOf' = [slotOf EXCEPT ![n] = 0]
        PROVE  \/ life'[m] = life[m] /\ slotOf'[m] = slotOf[m]
               \/ life'[m] = "free" /\ slotOf'[m] = 0
    BY <1>1, <1>a
  <1>b. UNCHANGED mbufVars => life'[m] = life[m] /\ slotOf'[m] = slotOf[m]
    BY DEF mbufVars
  <1>2. CASE NextSymbol \/ NewSecond \/ ResetCounters
    BY <1>b, <1>2, ClockKeeps
  <1>3. ASSUME NEW n \in Mbufs, NEW s \in Slots, Receive(n, s)
        PROVE  life'[m] = "rx" \/ (life'[m] = life[m] /\ slotOf'[m] = slotOf[m])
    BY <1>1, <1>3 DEF Receive
  <1>4. CASE ProcessMbuf
    <2>1. CASE Drop
      BY <1>a, <2>1 DEF Drop
    <2>2. CASE UNCHANGED mbufVars
      BY <1>b, <2>2
    <2>3. CASE CheckWindow
      BY <2>1, <2>2, <2>3 DEF CheckWindow
    <2>4. CASE TakePlace
      <3>1. Drop \/ UNCHANGED mbufVars
        BY <2>4, Zenon DEF TakePlace, GiveUp
      <3> QED BY <2>1, <2>2, <3>1
    <2>5. CASE Publish
      BY <2>2, <2>5 DEF Publish
    <2>6. CASE Replace
      BY <1>a, <2>2, <2>6 DEF Replace, FreeOld
    <2>7. CASE Fill
      BY <1>1, <2>7 DEF Fill
    <2> QED BY <1>4, <2>3, <2>4, <2>5, <2>6, <2>7 DEF ProcessMbuf
  <1>5. CASE FullSlotCallback
    <2>1. CASE Report \/ ClearFreed
      BY <1>b, <2>1 DEF Report, ClearFreed
    <2>2. CASE FreeNext
      BY <1>a, <1>b, <2>2 DEF FreeNext
    <2>3. CASE Empty
      BY <1>1, <2>3 DEF Empty
    <2> QED BY <1>5, <2>1, <2>2, <2>3 DEF FullSlotCallback
  <1>6. CASE UNCHANGED vars
    BY <1>b, <1>6 DEF vars
  <1> QED BY <1>2, <1>3, <1>4, <1>5, <1>6 DEF Next

LEMMA UnusedStep ==
    ASSUME TypeInv, OwnerInv, UnusedInv, [Next]_vars
    PROVE  UnusedInv'
  <1> SUFFICES ASSUME NEW m \in Mbufs, life'[m] \in {"free", "done"}
               PROVE  slotOf'[m] = 0
    BY DEF UnusedInv
  <1>1. CASE life'[m] = life[m] /\ slotOf'[m] = slotOf[m]
    BY <1>1 DEF UnusedInv
  <1> QED BY <1>1, MbufStep

\* A packet on its way is in no record that is being emptied.
LEMMA OnWayApart ==
    ASSUME RecordsLast, TypeInv, ClockInv, OwnerInv, cb.pc # "idle", NEW m \in Mbufs, OnWay(m)
    PROVE  Buf # EmptiedBuf(cb.slot) /\ slotOf[m] % BufLen = Buf /\ rx.slot = slotOf[m]
  <1>1. Working /\ rx.m = m
    BY DEF OnWay, Placed, Working
  <1>2. slotOf[m] = rx.slot
    BY <1>1 DEF OwnerInv, RxMbuf, Working
  <1> QED BY <1>1, <1>2, Apart DEF Buf

\* The record that the callback empties owns every packet of the slot that is due.
LEMMA DueOwned ==
    ASSUME RecordsLast, TypeInv, ClockInv, OwnerInv, HeldInv, cb.pc # "idle",
           NEW m \in Mbufs, life[m] = "held",
           EmptiedBuf(cb.slot) = slotOf[m] % BufLen
    PROVE  m \in Owned(EmptiedBuf(cb.slot))
  <1>1. PICK b \in Bufs : b = EmptiedBuf(cb.slot) /\ b = slotOf[m] % BufLen
    BY Shapes
  <1>2. ~OnWay(m)
    BY OnWayApart
  <1>3. PICK f \in Entries : Counts(b, f, m)
    BY <1>1, <1>2 DEF HeldInv, OnWay
  <1>4. pCtrl[b][f] = m /\ m # None
    BY <1>3, Shapes DEF Counts, OwnedBy
  <1> QED BY <1>1, <1>4 DEF Owned

LEMMA HeldTimedStep ==
    ASSUME RecordsLast, TypeInv, ClockInv, OwnerInv, HeldInv, HeldTimed, [Next]_vars
    PROVE  HeldTimed'
  <1> SUFFICES ASSUME NEW m \in Mbufs, life'[m] = "held"
               PROVE  Timed(slotOf[m])'
    BY DEF HeldTimed
  <1>1. PICK s \in Slots : s = slotOf[m]
    BY Shapes
  <1>2. slotOf'[m] = s
    BY <1>1, MbufStep
  <1>3. Timed(s) /\ ~(Empty /\ Due(s))
    <2>1. CASE life[m] = "held"
      <3>1. ASSUME Empty, Due(s)
            PROVE  FALSE
        <4>1. cb.pc # "idle"
          BY <3>1 DEF Empty
        <4>2. EmptiedBuf(cb.slot) = s % BufLen
          BY <3>1, DueRecord
        <4>3. m \in Owned(EmptiedBuf(cb.slot))
          BY <1>1, <2>1, <3>1, <4>1, <4>2, DueOwned
        <4>4. life'[m] = "done"
          BY <3>1, <4>3 DEF Empty
        <4> QED BY <4>4
      <3> QED BY <1>1, <2>1, <3>1 DEF HeldTimed
    <2>2. CASE Fill /\ cb' = cb /\ m = rx.m
      <3>1. Working
        BY <2>2 DEF Fill, Working
      <3>2. rx.slot = s
        BY <1>1, <2>2, <3>1 DEF OwnerInv, RxMbuf, Working
      <3>3. ~Empty
        BY <2>2 DEF Empty, CbIdle
      <3> QED BY <3>1, <3>2, <3>3, WorkingFresh DEF Timed
    <2> QED BY <2>1, <2>2, NewHeld
  <1>4. Timed(s)'
    BY <1>3, TimedStep
  <1> QED BY <1>2, <1>4 DEF Timed, Fresh, Due

\* Slots that follow each other.
LEMMA NextSlot ==
    ASSUME RecordsLast, NEW r \in Slots, NEW s \in Slots, Same(r * N, s * N + N)
    PROVE  r = (s + 1) % SfnSlots /\ s = (r + SfnSlots - 1) % SfnSlots
  <1>1. r \in 0..(SfnSlots - 1) /\ s \in 0..(SfnSlots - 1) /\ SfnSlots \in Nat \ {0}
    BY Sizes DEF Slots
  <1>2. PICK k \in Int : r * N = (s * N + N) + SfnSyms * k
    BY DEF Same
  <1> DEFINE j == SfnSlots * k
             d == r - s - 1 - j
  <1>3. j \in Int /\ SfnSyms * k = j * N
    BY <1>2, Sizes DEF SfnSyms
  <1>4. d \in Int /\ d * N = 0
    <2>1. r * N \in Int /\ s * N \in Int /\ j * N \in Int
      BY <1>1, <1>3, Sizes
    <2> HIDE DEF j
    <2>2. d * N = r * N - s * N - N - j * N
      BY <1>1, <1>3, Sizes
    <2> QED BY <1>1, <1>2, <1>3, <2>1, <2>2, Sizes
  <1>5. d = 0
    <2> HIDE DEF d
    <2> QED BY <1>4, Sizes
  <1> HIDE DEF j
  <1>6. r = j + (s + 1) /\ s = -j + (r - 1)
    BY <1>1, <1>3, <1>5 DEF d
  <1>7. r = (s + 1) % SfnSlots
    <2>1. s + 1 = SfnSlots * (-k) + r /\ -k \in Int
      BY <1>1, <1>2, <1>6 DEF j
    <2>2. (SfnSlots * (-k) + r) % SfnSlots = r
      BY <1>1, <2>1, Remainder
    <2> QED BY <2>1, <2>2
  <1>8. s = (r + SfnSlots - 1) % SfnSlots
    <2>1. r + SfnSlots - 1 = SfnSlots * (k + 1) + s /\ k + 1 \in Int
      BY <1>1, <1>2, <1>6 DEF j
    <2>2. (SfnSlots * (k + 1) + s) % SfnSlots = s
      BY <1>1, <2>1, Remainder
    <2> QED BY <2>1, <2>2
  <1> QED BY <1>7, <1>8

LEMMA SlotBefore ==
    ASSUME RecordsLast, NEW r \in Slots, NEW s, s = (r + SfnSlots - 1) % SfnSlots
    PROVE  s \in Slots /\ Same(r * N, s * N + N)
  <1>1. r \in 0..(SfnSlots - 1) /\ SfnSlots \in Nat \ {0} /\ N \in Nat
    BY Sizes DEF Slots
  <1> DEFINE v == r + SfnSlots - 1
             q == v \div SfnSlots
  <1>2. PICK t \in Int : /\ t = s /\ q \in Int /\ t \in 0..(SfnSlots - 1)
                         /\ v = SfnSlots * q + t
    <2>1. v \in Int /\ SfnSlots \in Nat \ {0}
      BY <1>1
    <2>2. s = v % SfnSlots
      BY DEF v
    <2> HIDE DEF v
    <2>3. s \in 0..(SfnSlots - 1) /\ q \in Int /\ v = SfnSlots * q + s
      BY <2>1, <2>2, Division
    <2> QED BY <2>3
  <1>3. r + SfnSlots - 1 = SfnSlots * q + t /\ t \in 0..(SfnSlots - 1) /\ q \in Int
    BY <1>2
  <1> HIDE DEF q, v
  <1>4. r * N = (t * N + N) + SfnSyms * (q - 1)
    <2>1. r = SfnSlots * (q - 1) + t + 1
      <3>1. SfnSlots * (q - 1) = SfnSlots * q - SfnSlots /\ SfnSlots * q \in Int
        BY <1>1, <1>3
      <3> QED BY <1>1, <1>3, <3>1
    <2>2. (SfnSlots * (q - 1)) * N = SfnSyms * (q - 1) /\ SfnSlots * (q - 1) \in Int
      BY <1>1, <1>3 DEF SfnSyms
    <2> DEFINE j == SfnSlots * (q - 1)
    <2> HIDE DEF j
    <2>3. (j + t + 1) * N = j * N + t * N + N
      BY <1>1, <1>3, <2>2 DEF j
    <2>4. j * N \in Int /\ t * N \in Int
      BY <1>1, <1>3, <2>2 DEF j
    <2> QED BY <1>1, <2>1, <2>2, <2>3, <2>4 DEF j
  <1>5. Same(r * N, t * N + N)
    <2>1. q - 1 \in Int
      BY <1>3
    <2> QED BY <1>4, <2>1 DEF Same
  <1> QED BY <1>2, <1>3, <1>5 DEF Slots

\* The slot before the one that the callback reports.
DueSlot == (cb.slot + SfnSlots - 1) % SfnSlots

LEMMA DueSlotIsDue ==
    ASSUME RecordsLast, TypeInv, cb.pc # "idle"
    PROVE  DueSlot \in Slots /\ Due(DueSlot) /\ EmptiedBuf(cb.slot) = DueSlot % BufLen
  <1>1. PICK r \in Slots : r = cb.slot
    BY CbFacts
  <1>2. PICK s \in Slots : s = DueSlot /\ Same(r * N, s * N + N)
    BY <1>1, SlotBefore DEF DueSlot
  <1>3. Due(s)
    BY <1>1, <1>2 DEF Due
  <1> QED BY <1>2, <1>3, DueRecord

\* What a record being emptied owns is of the slot that is due.
LEMMA EmptiesDueSlot ==
    ASSUME RecordsLast, TypeInv, ClockInv, OwnerInv, HeldInv, HeldTimed,
           cb.pc # "idle", NEW m \in Mbufs, life[m] = "held", NEW e \in Entries,
           OwnedBy(EmptiedBuf(cb.slot), e, m)
    PROVE  slotOf[m] = DueSlot /\ ~OnWay(m)
  <1>1. PICK b \in Bufs : b = EmptiedBuf(cb.slot)
    BY Shapes
  <1>2. OwnedBy(b, e, m)
    BY <1>1
  <1>3. PICK s \in Slots : s = slotOf[m]
    BY Shapes
  <1>4. PICK c \in Bufs : c = s % BufLen
    BY Sizes, Division DEF Slots, Bufs
  <1>5. ~OnWay(m)
    <2>1. ASSUME OnWay(m)
          PROVE  FALSE
      <3>1. /\ rx.pc # "idle" /\ rx.m = m /\ Buf # b /\ life[rx.m] # "rx"
        BY <1>1, <2>1, OnWayApart DEF OnWay, Placed
      <3>2. PICK d \in Bufs, f \in Entries : d = Buf /\ OwnedBy(d, f, m)
        BY <3>1, RxOwns, Shapes
      <3>3. d = b
        BY <1>2, <3>2 DEF OwnerInv, OwnedInv
      <3> QED BY <3>1, <3>2, <3>3
    <2> QED BY <2>1
  <1>6. PICK f \in Entries : Counts(c, f, m)
    BY <1>3, <1>4, <1>5 DEF HeldInv, OnWay
  <1>7. c = b
    BY <1>2, <1>6 DEF Counts, OwnerInv, OwnedInv
  <1>8. Timed(s) /\ Timed(DueSlot) /\ DueSlot \in Slots /\ DueSlot % BufLen = s % BufLen
    BY <1>1, <1>3, <1>4, <1>7, DueSlotIsDue DEF HeldTimed, Timed
  <1>9. InTime(s) /\ InTime(DueSlot)
    BY <1>8, TimedInTime
  <1> QED BY <1>3, <1>5, <1>8, <1>9, OneSlot

LEMMA PlaceIsWhere ==
    ASSUME RecordsLast, TypeInv, ClockInv, OwnerInv, HeldInv, NEW m \in Mbufs
    PROVE  Place(m) = Where(m)
  <1>1. life[m] \in {"free", "rx", "held", "done"}
    BY Shapes
  <1>2. CASE life[m] # "held"
    BY <1>1, <1>2 DEF Place, Where
  <1>3. CASE life[m] = "held"
    <2>1. PICK b \in Bufs : b = slotOf[m] % BufLen
      <3>1. slotOf[m] \in Slots
        BY Shapes
      <3> QED BY <3>1, Sizes, Division DEF Slots, Bufs
    <2>2. ASSUME ~OnWay(m)
          PROVE  Counted(m)
      <3>1. PICK f \in Entries : Counts(b, f, m)
        BY <1>3, <2>1, <2>2 DEF HeldInv, OnWay
      <3> QED BY <2>1, <3>1 DEF Counts, OwnedBy, Counted
    <2>3. ASSUME OnWay(m), Counted(m)
          PROVE  FALSE
      <3>1. PICK e \in Entries : e < nRxPkt[b] /\ pCtrl[b][e] = m
        BY <2>1, <2>3 DEF Counted
      <3>2. /\ Working /\ rx.pc = "publish" /\ rx.m = m /\ rx.first /\ Placed
            /\ nRxPkt[Buf] = rx.n /\ pCtrl[Buf][rx.n] = m /\ rx.n \in Entries
        BY <2>3, Shapes DEF OnWay, Placed, Working, OwnerInv, RxPlace
      <3>3. Buf = b
        BY <2>1, <3>2 DEF OwnerInv, RxMbuf, Buf
      <3>4. \A f \in Entries : ~Released(Buf, f)
        BY <3>2, Apart DEF Released
      <3>5. OwnedBy(b, e, m) /\ OwnedBy(b, rx.n, m)
        BY <3>1, <3>2, <3>3, <3>4 DEF OwnedBy
      <3>6. e = rx.n
        BY <2>1, <3>1, <3>2, <3>5 DEF OwnerInv, OwnedInv
      <3>7. nRxPkt[b] \in Nat
        BY Shapes, Sizes
      <3> QED BY <3>1, <3>2, <3>3, <3>6, <3>7
    <2>4. Counted(m) <=> ~OnWay(m)
      BY <2>2, <2>3
    <2> QED BY <1>3, <2>4 DEF Place, Where
  <1> QED BY <1>2, <1>3

BoxPlaces == \A m \in Mbufs : Place(m) = Where(m)

\* The invariant of the refinement.
BoxInv ==
    /\ TypeInv /\ ClockInv /\ OwnerInv /\ FilledInv /\ HeldInv /\ PhyInv /\ PhyCb
    /\ UnusedInv /\ HeldTimed

LEMMA BoxPlacesHold == RecordsLast /\ BoxInv => BoxPlaces
  BY PlaceIsWhere DEF BoxInv, BoxPlaces

LEMMA BoxPlacesNext ==
    ASSUME RecordsLast, BoxInv'
    PROVE  BoxPlaces'
  <1>1. RecordsLast'
    BY DEF RecordsLast
  <1> QED BY <1>1, BoxPlacesHold, PTL

LEMMA BoxInvInit ==
    ASSUME WindowFits, RecordsLast
    PROVE  Init => BoxInv
  <1>1. Init => UnusedInv /\ HeldTimed
    BY DEF Init, UnusedInv, HeldTimed
  <1> QED BY <1>1, TypeInit, ClockInvInit, OwnerInit, PurityInit, PhyInit DEF BoxInv

LEMMA BoxInvStep ==
    ASSUME WindowFits, RecordsLast, BoxInv, [Next]_vars
    PROVE  BoxInv'
  <1>1. /\ TypeInv /\ ClockInv /\ OwnerInv /\ FilledInv /\ HeldInv /\ PhyInv /\ PhyCb
        /\ UnusedInv /\ HeldTimed
    BY DEF BoxInv
  <1> QED BY <1>1, TypeStep, ClockInvStep, OwnerStep, FilledStep, HeldStep, PhyStep, PhyCbStep,
             UnusedStep, HeldTimedStep DEF BoxInv

LEMMA BoxSame ==
    ASSUME BoxPlaces, BoxPlaces', slotOf' = slotOf, Given' = Given,
           \A m \in Mbufs : Where(m)' = Where(m)
    PROVE  UNCHANGED Box!boxVars
  <1>1. \A m \in Mbufs : Place(m)' = Place(m)
    BY DEF BoxPlaces
  <1>2. [m \in Mbufs |-> Place(m)]' = [m \in Mbufs |-> Place(m)]
    BY <1>1
  <1> QED BY <1>2 DEF Box!boxVars

\* Only one mbuf goes elsewhere.
LEMMA BoxMoves ==
    ASSUME BoxPlaces, BoxPlaces', NEW n \in Mbufs, NEW v, Where(n)' = v,
           \A m \in Mbufs : m # n => Where(m)' = Where(m)
    PROVE  /\ [m \in Mbufs |-> Place(m)]' = [[m \in Mbufs |-> Place(m)] EXCEPT ![n] = v]
           /\ [m \in Mbufs |-> Place(m)][n] = Where(n)
  <1>1. Place(n)' = v /\ Place(n) = Where(n)
    BY DEF BoxPlaces
  <1>2. \A m \in Mbufs : m # n => Place(m)' = Place(m)
    BY DEF BoxPlaces
  <1> QED BY <1>1, <1>2

\* An mbuf is freed: Refuse, TakeBack or Recycle, by where it was.
LEMMA BoxReturns ==
    ASSUME TypeInv, BoxPlaces, BoxPlaces', NEW n \in Mbufs,
           life' = [life EXCEPT ![n] = "free"], slotOf' = [slotOf EXCEPT ![n] = 0],
           Given' = Given, \A m \in Mbufs : m # n => (OnWay(m)' <=> OnWay(m)),
           Where(n) = "mail" => slotOf[n] = Box!Before, life[n] # "free"
    PROVE  Box!Next
  <1>1. life \in [Mbufs -> {"free", "rx", "held", "done"}]
    BY Shapes
  <1>2. Where(n)' = "pool" /\ \A m \in Mbufs : m # n => Where(m)' = Where(m)
    BY <1>1 DEF Where
  <1>3. /\ [m \in Mbufs |-> Place(m)]' = [[m \in Mbufs |-> Place(m)] EXCEPT ![n] = "pool"]
        /\ [m \in Mbufs |-> Place(m)][n] = Where(n)
    BY <1>2, BoxMoves
  <1>4. Box!Return(n)
    BY <1>3 DEF Box!Return
  <1>5. Where(n) \in {"mail", "carried", "spent"}
    BY <1>1 DEF Where
  <1>6. CASE Where(n) = "carried"
    BY <1>3, <1>4, <1>6 DEF Box!Next, Box!Refuse
  <1>7. CASE Where(n) = "spent"
    BY <1>3, <1>4, <1>7 DEF Box!Next, Box!Recycle
  <1>8. CASE Where(n) = "mail"
    BY <1>3, <1>4, <1>8 DEF Box!Next, Box!TakeBack, Box!InBox
  <1> QED BY <1>5, <1>6, <1>7, <1>8

LEMMA BoxReceive ==
    ASSUME TypeInv, OwnerInv, BoxPlaces, BoxPlaces', Given' = Given,
           NEW n \in Mbufs, NEW s \in Slots, Receive(n, s)
    PROVE  Box!Next
  <1>1. life \in [Mbufs -> {"free", "rx", "held", "done"}]
    BY Shapes
  <1>2. /\ rx.pc = "idle" /\ life[n] = "free" /\ life' = [life EXCEPT ![n] = "rx"]
        /\ slotOf' = [slotOf EXCEPT ![n] = s] /\ rx'.pc = "clock"
    BY DEF Receive, Idle
  <1>3. \A m \in Mbufs : ~OnWay(m) /\ ~OnWay(m)' /\ life[m] # "rx"
    BY <1>2 DEF OnWay, Placed, OwnerInv, HandInv
  <1>4. \A m \in Mbufs : Where(m) # "carried"
    BY <1>1, <1>3 DEF Where
  <1>5. Where(n)' = "carried" /\ \A m \in Mbufs : m # n => Where(m)' = Where(m)
    BY <1>1, <1>2, <1>3 DEF Where
  <1>6. Where(n) = "pool"
    BY <1>2 DEF Where
  <1>7. /\ [m \in Mbufs |-> Place(m)]' = [[m \in Mbufs |-> Place(m)] EXCEPT ![n] = "carried"]
        /\ [m \in Mbufs |-> Place(m)][n] = "pool"
    BY <1>5, <1>6, BoxMoves
  <1>8. \A m \in Mbufs : [k \in Mbufs |-> Place(k)][m] # "carried"
    BY <1>4 DEF BoxPlaces
  <1>9. Box!Arrive(n, s)
    BY <1>2, <1>7, <1>8 DEF Box!Arrive
  <1> QED BY <1>9 DEF Box!Next, Box!Slots, Slots

\* The moment that the slot with the PHY is at.
LEMMA GivenTime ==
    ASSUME RecordsLast, TypeInv, ClockInv, PhyInv
    PROVE  \E c \in Int : /\ N + Ub <= c /\ c <= 2 * N + Ub + Slack
                          /\ Same(Tick, Given * N + c)
  <1>1. PICK s \in Slots : s = Given
    BY GivenFacts
  <1>2. CASE cb.pc = "armed"
    <2>1. Due(s)
      BY <1>1, <1>2 DEF PhyInv
    <2> DEFINE c == 2 * N + Ub + cb.ticks
    <2>2. c \in Int /\ N + Ub <= c /\ c <= 2 * N + Ub + Slack
      BY CbFacts, Sizes
    <2>3. Same(Tick, s * N + c)
      BY <2>1, DueTime
    <2> HIDE DEF c
    <2> QED BY <1>1, <2>2, <2>3
  <1>3. CASE cb.pc # "armed"
    <2>1. PICK c \in Int : N + Ub <= c /\ c < 2 * N + Ub /\ Same(Tick, s * N + c)
      BY <1>1, <1>3 DEF PhyInv, Reported
    <2>2. c <= 2 * N + Ub + Slack
      BY <2>1, Sizes
    <2> QED BY <1>1, <2>1, <2>2
  <1> QED BY <1>2, <1>3

\* The receiving worker's slot is the one with the PHY or one that its record is not yet
\* used for again.
LEMMA WorkingAhead ==
    ASSUME RecordsLast, TypeInv, ClockInv, PhyInv, Working
    PROVE  (rx.slot - Given) % SfnSlots \in 0..(BufLen - 1)
  <1>1. PICK c \in Int : /\ N + Ub <= c /\ c <= 2 * N + Ub + Slack
                         /\ Same(Tick, Given * N + c)
    BY GivenTime
  <1>2. PICK d \in Int : /\ 0 <= d /\ d <= N + Ub - Slack
                         /\ Same(Tick, rx.slot * N + (sym + d + rx.ticks))
    BY WorkingTime
  <1>3. PICK r \in Slots, s \in Slots : r = rx.slot /\ s = Given
    BY RxFacts, GivenFacts
  <1> DEFINE a == sym + d + rx.ticks
             p == r * N
             q == s * N
             x == c - a
  <1>4. /\ a \in Int /\ 0 <= a /\ a < 2 * N + Ub /\ x \in Int /\ -N < x /\ x < BufLen * N
        /\ r \in Int /\ s \in Int /\ p \in Int /\ q \in Int /\ Tick \in Int /\ -a \in Int
    <2>1. /\ r \in Int /\ s \in Int /\ N \in Nat /\ N > 0 /\ sym \in Nat /\ sym < N
          /\ rx.ticks \in Nat /\ rx.ticks <= Slack /\ Slack \in Nat /\ Ub \in Nat
          /\ Tick \in Int /\ BufLen * N \in Int /\ BufLen * N > 2 * N + Ub + Slack
      BY RxFacts, ClockFacts, Sizes, Products DEF Slots, RecordsLast
    <2>2. a \in Int /\ 0 <= a /\ a < 2 * N + Ub /\ a <= sym + N + Ub
      BY <1>2, <2>1
    <2>3. p \in Int /\ q \in Int
      BY <2>1
    <2> HIDE DEF a, p, q
    <2>4. x \in Int /\ -N < x /\ x < BufLen * N /\ -a \in Int
      BY <1>1, <2>1, <2>2
    <2> QED BY <2>1, <2>2, <2>3, <2>4
  <1>5. Same(Tick, p + a) /\ Same(Tick, q + c)
    BY <1>1, <1>2, <1>3
  <1> HIDE DEF a, p, q
  <1>6. /\ p + a \in Int /\ q + c \in Int /\ (p + a) + (-a) = p /\ (q + c) + (-a) = q + x
        /\ q + x \in Int
    BY <1>1, <1>4
  <1>7. Same(p + a, q + c)
    BY <1>4, <1>5, <1>6, SameSymmetric, SameTransitive
  <1>8. Same(p, q + x)
    BY <1>4, <1>6, <1>7, SameShift
  <1> HIDE DEF x
  <1>9. PICK k \in Int : p = (q + x) + SfnSyms * k
    BY <1>8 DEF Same
  <1> DEFINE u == SfnSlots * k
             j == r - s - u
  <1>10. u \in Int /\ SfnSyms * k = u * N
    BY <1>9, Sizes DEF SfnSyms
  <1>11. j \in Int /\ j * N = x
    <2>1. u * N \in Int /\ p = r * N /\ q = s * N
      BY <1>10, Sizes DEF p, q
    <2> HIDE DEF u
    <2>2. j * N = r * N - s * N - u * N
      BY <1>4, <1>10, Sizes
    <2> QED BY <1>4, <1>9, <1>10, <2>1, <2>2
  <1> HIDE DEF j
  <1>12. 0 <= j
    <2>1. j <= -1 => j * N <= -N
      BY <1>11, Sizes
    <2> QED BY <1>4, <1>11, <2>1, Sizes
  <1>13. j < BufLen
    <2>1. j >= BufLen => j * N >= BufLen * N
      BY <1>11, Sizes
    <2> QED BY <1>4, <1>11, <2>1, Sizes
  <1>14. BufLen <= SfnSlots
    BY RecordsFit
  <1>15. (SfnSlots * k + j) % SfnSlots = j
    <2>1. j \in 0..(SfnSlots - 1) /\ SfnSlots \in Nat \ {0}
      BY <1>11, <1>12, <1>13, <1>14, Sizes
    <2> QED BY <1>9, <2>1, Remainder
  <1>16. r - s = SfnSlots * k + j
    BY <1>4, <1>10, <1>11 DEF j
  <1> QED BY <1>3, <1>11, <1>12, <1>13, <1>15, <1>16, Sizes

\* The worker's packet is counted for its slot.
LEMMA BoxDelivers ==
    ASSUME RecordsLast, BoxInv, BoxPlaces, BoxPlaces', Working, NEW n \in Mbufs, n = rx.m,
           slotOf' = slotOf, Given' = Given, Where(n) = "carried", Where(n)' = "mail",
           \A m \in Mbufs : m # n => Where(m)' = Where(m)
    PROVE  Box!Next
  <1>1. slotOf[n] = rx.slot
    BY DEF BoxInv, OwnerInv, RxMbuf, Working
  <1>2. /\ [m \in Mbufs |-> Place(m)]' = [[m \in Mbufs |-> Place(m)] EXCEPT ![n] = "mail"]
        /\ [m \in Mbufs |-> Place(m)][n] = "carried"
    BY BoxMoves
  <1>3. (rx.slot - Given) % SfnSlots \in 0..(BufLen - 1)
    BY WorkingAhead DEF BoxInv
  <1>4. Box!Ahead(slotOf[n]) <= BufLen - 1
    BY <1>1, <1>3, Sizes DEF Box!Ahead
  <1>5. Box!Deliver(n)
    BY <1>2, <1>4 DEF Box!Deliver
  <1> QED BY <1>5 DEF Box!Next

\* A step that leaves the mbufs, and what is on its way, alone.
LEMMA BoxStays ==
    ASSUME RecordsLast, TypeInv, BoxPlaces, BoxPlaces', UNCHANGED mbufVars, phySlot' = phySlot,
           \A m \in Mbufs : OnWay(m)' <=> OnWay(m)
    PROVE  UNCHANGED Box!boxVars
  <1>1. life' = life /\ slotOf' = slotOf
    BY DEF mbufVars
  <1>2. Given' = Given
    BY GivenFacts
  <1>3. \A m \in Mbufs : Where(m)' = Where(m)
    BY <1>1 DEF Where
  <1> QED BY <1>1, <1>2, <1>3, BoxSame

LEMMA BoxDrop ==
    ASSUME RecordsLast, BoxInv, BoxPlaces, BoxPlaces', Drop, rx.pc \in {"clock", "count"},
           rx.first, phySlot' = phySlot
    PROVE  Box!Next
  <1>1. TypeInv /\ OwnerInv
    BY DEF BoxInv
  <1>2. PICK n \in Mbufs : n = rx.m /\ life[n] = "rx"
    BY <1>1 DEF OwnerInv, RxMbuf, Placed
  <1>3. /\ rx' = Idle /\ life' = [life EXCEPT ![n] = "free"]
        /\ slotOf' = [slotOf EXCEPT ![n] = 0]
    BY <1>2 DEF Drop
  <1>4. \A m \in Mbufs : ~OnWay(m)' /\ ~OnWay(m)
    BY <1>3 DEF OnWay, Placed, Idle
  <1>5. Given' = Given
    BY <1>1, GivenFacts
  <1>6. Where(n) = "carried"
    BY <1>2 DEF Where
  <1> QED BY <1>1, <1>2, <1>3, <1>4, <1>5, <1>6, BoxReturns

LEMMA BoxCheckWindow ==
    ASSUME RecordsLast, BoxInv, BoxPlaces, BoxPlaces', CheckWindow, phySlot' = phySlot
    PROVE  Box!Next \/ UNCHANGED Box!boxVars
  <1>1. TypeInv /\ OwnerInv /\ rx \in RxStates /\ rx.pc = "clock"
    BY Shapes DEF BoxInv, CheckWindow
  <1>2. rx.first
    BY <1>1 DEF OwnerInv, RxMbuf
  <1>3. CASE Drop
    BY <1>1, <1>2, <1>3, BoxDrop
  <1>4. CASE rx' = [rx EXCEPT !.pc = "count", !.idx = 0] /\ UNCHANGED mbufVars
    <2>1. rx'.pc = "count"
      BY <1>1, <1>4 DEF RxStates
    <2>2. \A m \in Mbufs : ~OnWay(m)' /\ ~OnWay(m)
      BY <1>1, <2>1 DEF OnWay, Placed
    <2> QED BY <1>1, <1>4, <2>2, BoxStays
  <1> QED BY <1>3, <1>4 DEF CheckWindow

LEMMA BoxTakePlace ==
    ASSUME RecordsLast, BoxInv, BoxPlaces, BoxPlaces', TakePlace, phySlot' = phySlot
    PROVE  Box!Next \/ UNCHANGED Box!boxVars
  <1>1. TypeInv /\ rx \in RxStates /\ rx.pc = "count"
    <2>1. rx.pc = "count"
      BY Zenon DEF TakePlace
    <2> QED BY <2>1, Shapes DEF BoxInv
  <1>2. \A m \in Mbufs : ~OnWay(m)
    BY <1>1 DEF OnWay, Placed
  <1>3. CASE rx.first /\ Drop
    BY <1>1, <1>3, BoxDrop
  <1>4. CASE rx' = Idle /\ UNCHANGED mbufVars
    <2>1. \A m \in Mbufs : ~OnWay(m)'
      BY <1>4 DEF OnWay, Placed, Idle
    <2> QED BY <1>1, <1>2, <1>4, <2>1, BoxStays
  <1>5. ASSUME NEW batch \in BOOLEAN, UNCHANGED mbufVars,
               rx' = [rx EXCEPT !.pc = IF batch THEN "replace" ELSE "publish",
                                !.batch = batch, !.n = nRxPkt[Buf]]
        PROVE  UNCHANGED Box!boxVars
    <2>1. rx'.batch = batch /\ rx'.pc = IF batch THEN "replace" ELSE "publish"
      BY <1>1, <1>5 DEF RxStates
    <2>2. \A m \in Mbufs : ~OnWay(m)'
      BY <2>1 DEF OnWay, Placed
    <2> QED BY <1>1, <1>2, <1>5, <2>2, BoxStays
  <1>6. \/ GiveUp
        \/ \E batch \in BOOLEAN :
              /\ rx' = [rx EXCEPT !.pc = IF batch THEN "replace" ELSE "publish",
                                  !.batch = batch, !.n = nRxPkt[Buf]]
              /\ UNCHANGED mbufVars
    <2>1. rx.batch \in BOOLEAN
      BY <1>1, Shapes
    <2>2. \A batch \in IF rx.first THEN BOOLEAN ELSE {rx.batch} : batch \in BOOLEAN
      BY <2>1
    <2> QED BY <2>2, Zenon DEF TakePlace
  <1>7. GiveUp => (rx.first /\ Drop) \/ (rx' = Idle /\ UNCHANGED mbufVars)
    BY DEF GiveUp
  <1> QED BY <1>3, <1>4, <1>5, <1>6, <1>7, Zenon

\* After its last step, a section is not on its way.
LEMMA BoxSectionDone ==
    ASSUME TypeInv, SectionDone
    PROVE  \A m \in Mbufs : ~OnWay(m)'
  <1>1. rx \in RxStates
    BY Shapes
  <1>2. CASE rx' = Idle
    BY <1>2 DEF OnWay, Placed, Idle
  <1>3. CASE rx' = [rx EXCEPT !.pc = "count", !.first = FALSE]
    <2>1. rx'.pc = "count"
      BY <1>1, <1>3 DEF RxStates
    <2> QED BY <2>1 DEF OnWay, Placed
  <1> QED BY <1>2, <1>3 DEF SectionDone

LEMMA BoxPublish ==
    ASSUME RecordsLast, BoxInv, BoxPlaces, BoxPlaces', Publish, phySlot' = phySlot
    PROVE  Box!Next \/ UNCHANGED Box!boxVars
  <1>1. /\ TypeInv /\ OwnerInv /\ rx \in RxStates /\ rx.pc = "publish" /\ Working
        /\ UNCHANGED mbufVars /\ life' = life /\ slotOf' = slotOf
    BY Shapes DEF BoxInv, Publish, Working, mbufVars
  <1>2. \A m \in Mbufs : ~OnWay(m)'
    <2>1. CASE rx.batch
      BY <1>1, <2>1, BoxSectionDone DEF Publish
    <2>2. CASE ~rx.batch
      <3>1. rx'.pc = "replace"
        BY <1>1, <2>2 DEF Publish, RxStates
      <3> QED BY <3>1 DEF OnWay, Placed
    <2> QED BY <2>1, <2>2
  <1>3. CASE ~(rx.batch /\ rx.first)
    <2>1. \A m \in Mbufs : ~OnWay(m)
      BY <1>3 DEF OnWay, Placed
    <2> QED BY <1>1, <1>2, <2>1, BoxStays
  <1>4. CASE rx.batch /\ rx.first
    <2>1. PICK n \in Mbufs : n = rx.m /\ life[n] = "held"
      BY <1>1, <1>4 DEF OwnerInv, RxMbuf, Placed
    <2>2. \A m \in Mbufs : OnWay(m) <=> m = n
      BY <1>1, <1>4, <2>1 DEF OnWay, Placed
    <2>3. Where(n) = "carried"
      BY <2>1, <2>2 DEF Where
    <2>4. Where(n)' = "mail"
      BY <1>1, <1>2, <2>1 DEF Where
    <2>5. \A m \in Mbufs : m # n => Where(m)' = Where(m)
      BY <1>1, <1>2, <2>2 DEF Where
    <2>6. Given' = Given
      BY <1>1, GivenFacts
    <2> QED BY <1>1, <2>1, <2>3, <2>4, <2>5, <2>6, BoxDelivers
  <1> QED BY <1>3, <1>4

\* What the next use of an entry frees is of a slot that has long been emptied.
LEMMA BoxReplace ==
    ASSUME RecordsLast, BoxInv, BoxPlaces, BoxPlaces', Replace, phySlot' = phySlot
    PROVE  Box!Next \/ UNCHANGED Box!boxVars
  <1>1. /\ TypeInv /\ ClockInv /\ OwnerInv /\ HeldInv /\ rx \in RxStates
        /\ rx.pc = "replace" /\ Working /\ rx'.pc = "fill"
    BY Shapes DEF BoxInv, Replace, Working, RxStates
  <1>2. \A m \in Mbufs : ~OnWay(m) /\ ~OnWay(m)'
    BY <1>1 DEF OnWay, Placed
  <1>3. PICK c \in Bufs, e \in Entries : c = Buf /\ e = rx.n
    BY <1>1, Shapes
  <1>4. CASE pCtrl[c][e] = None
    <2>1. UNCHANGED mbufVars
      BY <1>3, <1>4 DEF Replace, FreeOld
    <2> QED BY <1>1, <1>2, <2>1, BoxStays
  <1>5. CASE pCtrl[c][e] # None
    <2>1. PICK old \in Mbufs : old = pCtrl[c][e]
      BY <1>1, <1>5, Shapes
    <2>2. /\ life' = [life EXCEPT ![old] = "free"]
          /\ slotOf' = [slotOf EXCEPT ![old] = 0]
      BY <1>3, <1>5, <2>1 DEF Replace, FreeOld
    <2>3. OwnedBy(c, e, old)
      <3>1. ~Released(c, e)
        BY <1>1, <1>3, Apart DEF Released
      <3> QED BY <2>1, <3>1 DEF OwnedBy
    <2>4. life[old] \in {"held", "done"}
      BY <1>1, <2>3 DEF OwnerInv, OwnedInv
    <2>5. ~Counts(c, e, old)
      <3>1. nRxPkt[c] = IF rx.batch THEN e ELSE e + 1
        BY <1>1, <1>3 DEF OwnerInv, RxPlace
      <3>2. CASE rx.batch
        <4>1. e \in Nat
          BY Sizes DEF Entries
        <4> QED BY <3>1, <3>2, <4>1 DEF Counts
      <3>3. CASE ~rx.batch
        BY <1>1, <1>3, <3>3 DEF Counts, Filling
      <3> QED BY <3>2, <3>3
    <2>6. life[old] # "held"
      <3>1. PICK b \in Bufs : b = slotOf[old] % BufLen
        <4>1. slotOf[old] \in Slots
          BY <1>1, Shapes
        <4> QED BY <4>1, Sizes, Division DEF Slots, Bufs
      <3>2. ASSUME life[old] = "held"
            PROVE  FALSE
        <4>1. PICK f \in Entries : Counts(b, f, old)
          BY <1>1, <1>2, <3>1, <3>2 DEF HeldInv, OnWay
        <4>2. b = c /\ f = e
          BY <1>1, <2>3, <4>1 DEF Counts, OwnerInv, OwnedInv
        <4> QED BY <2>5, <4>1, <4>2
      <3> QED BY <3>2
    <2>7. Where(old) = "spent"
      BY <2>4, <2>6 DEF Where
    <2>8. Given' = Given
      BY <1>1, GivenFacts
    <2> QED BY <1>1, <1>2, <2>2, <2>4, <2>7, <2>8, BoxReturns
  <1> QED BY <1>4, <1>5

LEMMA BoxFill ==
    ASSUME RecordsLast, BoxInv, BoxPlaces, BoxPlaces', Fill, phySlot' = phySlot
    PROVE  Box!Next \/ UNCHANGED Box!boxVars
  <1>1. /\ TypeInv /\ OwnerInv /\ rx \in RxStates /\ rx.pc = "fill" /\ Working
        /\ slotOf' = slotOf /\ life \in [Mbufs -> {"free", "rx", "held", "done"}]
    BY Shapes DEF BoxInv, Fill, Working
  <1>2. PICK n \in Mbufs : n = rx.m /\ life[n] = IF rx.first THEN "rx" ELSE "held"
    BY <1>1 DEF OwnerInv, RxMbuf, Placed
  <1>3. /\ life' = [life EXCEPT ![n] = "held"] /\ life'[n] = "held"
        /\ \A m \in Mbufs : m # n => life'[m] = life[m]
    BY <1>1, <1>2 DEF Fill
  <1>4. \A m \in Mbufs : ~OnWay(m)
    BY <1>1 DEF OnWay, Placed
  <1>5. Given' = Given
    BY <1>1, GivenFacts
  <1>6. rx.batch => /\ rx'.pc = "publish" /\ rx'.batch = rx.batch
                    /\ rx'.first = rx.first /\ rx'.m = rx.m
    BY <1>1 DEF Fill, RxStates
  <1>7. ~rx.batch => \A m \in Mbufs : ~OnWay(m)'
    BY <1>1, BoxSectionDone DEF Fill
  <1>8. CASE ~rx.first
    <2>1. \A m \in Mbufs : ~OnWay(m)'
      BY <1>6, <1>7, <1>8 DEF OnWay
    <2>2. \A m \in Mbufs : life'[m] = life[m]
      BY <1>2, <1>3, <1>8
    <2>3. \A m \in Mbufs : Where(m)' = Where(m)
      BY <1>4, <2>1, <2>2 DEF Where
    <2> QED BY <1>1, <1>5, <2>3, BoxSame
  <1>9. CASE rx.first /\ rx.batch
    <2>1. \A m \in Mbufs : OnWay(m)' <=> m = n
      BY <1>2, <1>6, <1>9 DEF OnWay, Placed
    <2>2. Where(n)' = "carried" /\ Where(n) = "carried"
      BY <1>2, <1>3, <1>9, <2>1 DEF Where
    <2>3. \A m \in Mbufs : m # n => Where(m)' = Where(m)
      BY <1>3, <1>4, <2>1 DEF Where
    <2> QED BY <1>1, <1>5, <2>2, <2>3, BoxSame
  <1>10. CASE rx.first /\ ~rx.batch
    <2>1. \A m \in Mbufs : ~OnWay(m)'
      BY <1>7, <1>10
    <2>2. Where(n) = "carried"
      BY <1>2, <1>10 DEF Where
    <2>3. Where(n)' = "mail"
      BY <1>3, <2>1 DEF Where
    <2>4. \A m \in Mbufs : m # n => Where(m)' = Where(m)
      BY <1>3, <1>4, <2>1 DEF Where
    <2> QED BY <1>1, <1>2, <1>5, <2>2, <2>3, <2>4, BoxDelivers
  <1> QED BY <1>8, <1>9, <1>10

\* Two moments that are less than a turn of the SFN apart are not the same.
LEMMA NotSame ==
    ASSUME NEW p \in Int, NEW x \in Int, 0 < x, x < SfnSyms, Same(p, p + x)
    PROVE  FALSE
  <1>1. PICK k \in Int : p = (p + x) + SfnSyms * k
    BY DEF Same
  <1>2. SfnSyms \in Nat \ {0}
    BY SfnSymsIsNat
  <1> DEFINE y == SfnSyms * k
  <1>3. y \in Int /\ y = -x
    <2>1. y \in Int
      BY <1>2
    <2> HIDE DEF y
    <2> QED BY <1>1, <2>1 DEF y
  <1>4. k >= 0 => y >= 0
    BY <1>2
  <1>5. k <= -1 => y <= -SfnSyms
    BY <1>2
  <1> HIDE DEF y
  <1> QED BY <1>2, <1>3, <1>4, <1>5

LEMMA TurnOutlasts ==
    ASSUME RecordsLast, SlotsOutnumber
    PROVE  SfnSyms > 3 * N + Ub + Slack
  <1>1. PICK turns \in Nat : turns > 0 /\ SfnSlots = BufLen * turns
    BY Sizes DEF RecordsLast
  <1>2. turns >= 2
    <2>1. turns = 1 => SfnSlots = BufLen
      BY <1>1, Sizes
    <2>2. turns # 1
      BY <2>1, Sizes DEF SlotsOutnumber
    <2> QED BY <1>1, <2>2
  <1> DEFINE z == BufLen * N
  <1>3. z \in Nat /\ z > 2 * N + Ub + Slack
    BY Sizes, Products DEF RecordsLast
  <1>4. SfnSyms = z * turns
    BY <1>1, Sizes DEF SfnSyms
  <1> HIDE DEF z
  <1>5. z * turns >= 2 * z
    BY <1>1, <1>2, <1>3
  <1>6. 2 * z > 3 * N + Ub + Slack
    BY <1>3, Sizes
  <1>7. SfnSyms \in Nat
    BY SfnSymsIsNat
  <1> QED BY <1>3, <1>4, <1>5, <1>6, <1>7, Sizes

\* When a slot is reported, nothing linked is of the slot before the one with the PHY.
LEMMA NothingLeft ==
    ASSUME RecordsLast, SlotsOutnumber, TypeInv, ClockInv, PhyInv, cb.pc = "armed",
           NEW s \in Slots, s = (Given + SfnSlots - 1) % SfnSlots, Timed(s)
    PROVE  FALSE
  <1>1. PICK g \in Slots : g = Given
    BY GivenFacts
  <1>2. Due(g)
    BY <1>1 DEF PhyInv
  <1>3. Same(g * N, s * N + N)
    BY <1>1, SlotBefore
  <1>4. s * N \in Int /\ g * N \in Int /\ cb.slot * N \in Int /\ Tick \in Int /\ N \in Nat
        /\ N > 0 /\ cb.ticks \in Nat /\ cb.ticks <= Slack /\ Slack \in Nat /\ Ub \in Nat
        /\ SfnSyms \in Nat
    BY CbFacts, ClockFacts, Sizes, SfnSymsIsNat DEF Slots
  <1>5. SfnSyms > 3 * N + Ub + Slack
    BY TurnOutlasts
  <1> DEFINE p == s * N
             q == g * N
  <1>6. p \in Int /\ q \in Int /\ Same(q, p + N)
    BY <1>3, <1>4
  <1>7. CASE Fresh(s)
    <2>1. PICK a \in Int : 0 <= a /\ a < 2 * N + Ub /\ Same(Tick, p + a)
      BY <1>7 DEF Fresh
    <2> DEFINE c == 2 * N + Ub + cb.ticks
               x == N + c - a
    <2>2. c \in Int /\ x \in Int /\ 0 < x /\ x < SfnSyms
      BY <1>4, <1>5, <2>1
    <2>3. Same(Tick, q + c)
      BY <1>1, <1>2, DueTime
    <2> HIDE DEF p, q, c
    <2>4. Same(q + c, (p + N) + c)
      <3>1. p + N \in Int
        BY <1>4, <1>6
      <3> QED BY <1>6, <2>2, <3>1, SameShift
    <2>5. q + c \in Int /\ (p + N) + c \in Int /\ p + a \in Int /\ -a \in Int
      BY <1>4, <1>6, <2>1, <2>2
    <2>6. Same(Tick, (p + N) + c)
      BY <1>4, <2>3, <2>4, <2>5, SameTransitive
    <2>7. Same(p + a, (p + N) + c)
      BY <1>4, <2>1, <2>5, <2>6, SameSymmetric, SameTransitive
    <2>8. Same((p + a) + (-a), ((p + N) + c) + (-a))
      BY <2>5, <2>7, SameShift
    <2>9. (p + a) + (-a) = p /\ ((p + N) + c) + (-a) = p + x
      BY <1>4, <1>6, <2>1, <2>2
    <2> HIDE DEF x
    <2> QED BY <1>6, <2>2, <2>8, <2>9, NotSame
  <1>8. CASE Due(s)
    <2>1. PICK r \in Slots : r = cb.slot
      BY CbFacts
    <2>2. Same(r * N, s * N + N) /\ Same(r * N, g * N + N)
      BY <1>2, <1>8, <2>1 DEF Due
    <2>3. s = g
      BY <2>2, NextSlot
    <2>4. Same(p, p + N)
      BY <1>6, <2>3
    <2>5. N < SfnSyms
      BY <1>4, <1>5
    <2> HIDE DEF p
    <2> QED BY <1>4, <1>6, <2>4, <2>5, NotSame
  <1> QED BY <1>7, <1>8 DEF Timed

\* The slots are given in order, each when nothing is left of the last but one.
LEMMA BoxReport ==
    ASSUME RecordsLast, SlotsOutnumber, BoxInv, BoxPlaces, BoxPlaces', Report, rx' = rx
    PROVE  Box!Next
  <1>1. /\ TypeInv /\ ClockInv /\ PhyInv /\ HeldTimed /\ cb.pc = "armed" /\ phySlot' = cb.slot
        /\ life' = life /\ slotOf' = slotOf
    BY DEF BoxInv, Report, mbufVars
  <1>2. PICK r \in Slots, g \in Slots : r = cb.slot /\ g = Given
    BY <1>1, CbFacts, GivenFacts
  <1>3. Given' = r
    BY <1>1, <1>2, GivenFacts
  <1>4. r = (g + 1) % SfnSlots
    <2>1. Same(r * N, g * N + N)
      BY <1>1, <1>2 DEF PhyInv, Due
    <2> QED BY <2>1, NextSlot
  <1>5. [m \in Mbufs |-> Place(m)]' = [m \in Mbufs |-> Place(m)]
    <2>1. \A m \in Mbufs : Where(m)' = Where(m)
      BY <1>1 DEF Where, OnWay, Placed
    <2>2. \A m \in Mbufs : Place(m)' = Place(m)
      BY <2>1 DEF BoxPlaces
    <2> QED BY <2>2
  <1>6. Box!InBox(Box!Before) = {}
    <2>1. ASSUME NEW m \in Mbufs, Place(m) = "mail", slotOf[m] = (g + SfnSlots - 1) % SfnSlots
          PROVE  FALSE
      <3>1. life[m] = "held"
        BY <2>1 DEF BoxPlaces, Where
      <3>2. PICK s \in Slots : s = slotOf[m]
        BY <1>1, Shapes
      <3>3. Timed(s)
        BY <1>1, <3>1, <3>2 DEF HeldTimed
      <3>4. s = (Given + SfnSlots - 1) % SfnSlots
        BY <1>2, <2>1, <3>2
      <3> QED BY <1>1, <3>3, <3>4, NothingLeft
    <2>2. Box!Before = (g + SfnSlots - 1) % SfnSlots
      BY <1>2 DEF Box!Before
    <2> QED BY <2>1, <2>2 DEF Box!InBox
  <1>7. Box!Give
    BY <1>1, <1>2, <1>3, <1>4, <1>5, <1>6 DEF Box!Give
  <1> QED BY <1>7 DEF Box!Next

\* What the callback frees is of the slot before.
LEMMA BeforeIsDue ==
    ASSUME RecordsLast, TypeInv, PhyCb, cb.pc \in {"free", "clear", "zero"}
    PROVE  Box!Before = DueSlot
  <1>1. phySlot = cb.slot /\ cb.slot \in Slots /\ NoSlot \notin Slots
    BY CbFacts, Shapes DEF PhyCb
  <1>2. Given = cb.slot
    BY <1>1 DEF Given
  <1> QED BY <1>2 DEF Box!Before, DueSlot

LEMMA BoxFreeNext ==
    ASSUME RecordsLast, BoxInv, BoxPlaces, BoxPlaces', FreeNext, rx' = rx
    PROVE  Box!Next \/ UNCHANGED Box!boxVars
  <1> DEFINE b == EmptiedBuf(cb.slot)
             mb == pCtrl[b][cb.i]
  <1>1. /\ TypeInv /\ ClockInv /\ OwnerInv /\ HeldInv /\ HeldTimed /\ PhyCb
        /\ cb.pc = "free" /\ phySlot' = phySlot /\ b \in Bufs
        /\ pCtrl \in [Bufs -> [Entries -> Mbufs \cup {None}]]
        /\ nRxPkt \in [Bufs -> 0..MaxPkt] /\ cb.i \in 0..MaxPkt
    BY Shapes DEF BoxInv, FreeNext
  <1>2. \A m \in Mbufs : OnWay(m)' <=> OnWay(m)
    BY DEF OnWay, Placed
  <1>3. CASE UNCHANGED mbufVars
    BY <1>1, <1>2, <1>3, BoxStays
  <1>4. CASE /\ cb.i < nRxPkt[b] /\ mb # None
             /\ life' = [life EXCEPT ![mb] = "free"]
             /\ slotOf' = [slotOf EXCEPT ![mb] = 0]
    <2>1. cb.i \in Entries
      BY <1>1, <1>4, EntryBelow
    <2>2. PICK c \in Bufs, e \in Entries : c = b /\ e = cb.i
      BY <1>1, <2>1
    <2>3. PICK n \in Mbufs : n = mb /\ n = pCtrl[c][e]
      BY <1>1, <1>4, <2>2
    <2>4. OwnedBy(c, e, n)
      <3>1. Working => Buf # c
        BY <1>1, <2>2, Apart DEF b
      <3>2. ~Released(c, e)
        BY <1>1, <3>1 DEF Released, Working
      <3> QED BY <2>3, <3>2 DEF OwnedBy
    <2>5. life[n] \in {"held", "done"}
      BY <1>1, <2>4 DEF OwnerInv, OwnedInv
    <2>6. Where(n) = "mail" => slotOf[n] = Box!Before
      <3>1. Where(n) = "mail" => life[n] = "held"
        BY DEF Where
      <3>2. OwnedBy(EmptiedBuf(cb.slot), e, n)
        BY <2>2, <2>4
      <3>3. life[n] = "held" => slotOf[n] = DueSlot
        BY <1>1, <3>2, EmptiesDueSlot
      <3> QED BY <1>1, <3>1, <3>3, BeforeIsDue
    <2>7. Given' = Given
      BY <1>1, GivenFacts
    <2> QED BY <1>1, <1>2, <1>4, <2>3, <2>5, <2>6, <2>7, BoxReturns
  <1>5. \/ UNCHANGED mbufVars
        \/ /\ ~(cb.i >= nRxPkt[b]) /\ mb # None
           /\ life' = [life EXCEPT ![mb] = "free"]
           /\ slotOf' = [slotOf EXCEPT ![mb] = 0]
    BY DEF FreeNext
  <1>6. ~(cb.i >= nRxPkt[b]) => cb.i < nRxPkt[b]
    <2>1. nRxPkt[b] \in Int /\ cb.i \in Int
      BY <1>1, Sizes
    <2> QED BY <2>1
  <1> HIDE DEF b, mb
  <1> QED BY <1>3, <1>4, <1>5, <1>6

LEMMA BoxEmpty ==
    ASSUME RecordsLast, BoxInv, BoxPlaces, BoxPlaces', Empty, rx' = rx
    PROVE  Box!Next
  <1>1. PICK b \in Bufs : b = EmptiedBuf(cb.slot)
    BY Shapes DEF BoxInv
  <1>2. /\ TypeInv /\ ClockInv /\ OwnerInv /\ HeldInv /\ HeldTimed /\ PhyCb /\ UnusedInv
        /\ cb.pc = "zero" /\ phySlot' = phySlot
        /\ life' = [m \in Mbufs |-> IF m \in Owned(b) THEN "done" ELSE life[m]]
        /\ slotOf' = [m \in Mbufs |-> IF m \in Owned(b) THEN 0 ELSE slotOf[m]]
    BY <1>1 DEF BoxInv, Empty
  <1>3. \A m \in Mbufs : OnWay(m)' <=> OnWay(m)
    BY DEF OnWay, Placed
  <1>4. Box!Before = DueSlot /\ DueSlot \in Slots /\ b = DueSlot % BufLen
    BY <1>1, <1>2, BeforeIsDue, DueSlotIsDue
  <1>5. ASSUME NEW m \in Mbufs, m \in Owned(b)
        PROVE  \E e \in Entries : OwnedBy(b, e, m)
    <2>1. Working => Buf # b
      BY <1>1, <1>2, Apart
    <2>2. \A e \in Entries : ~Released(b, e)
      BY <1>2, <2>1 DEF Released, Working
    <2> QED BY <1>5, <2>2 DEF Owned, OwnedBy
  <1>6. ASSUME NEW m \in Mbufs
        PROVE  Where(m) = "mail" /\ slotOf[m] = DueSlot <=> m \in Owned(b) /\ life[m] = "held"
    <2>1. ASSUME Where(m) = "mail", slotOf[m] = DueSlot
          PROVE  m \in Owned(b) /\ life[m] = "held"
      <3>1. life[m] = "held"
        BY <2>1 DEF Where
      <3> QED BY <1>1, <1>2, <1>4, <2>1, <3>1, DueOwned
    <2>2. ASSUME m \in Owned(b), life[m] = "held"
          PROVE  Where(m) = "mail" /\ slotOf[m] = DueSlot
      <3>1. PICK e \in Entries : OwnedBy(b, e, m)
        BY <1>5, <2>2
      <3>2. OwnedBy(EmptiedBuf(cb.slot), e, m)
        BY <1>1, <3>1
      <3>3. slotOf[m] = DueSlot /\ ~OnWay(m)
        BY <1>2, <2>2, <3>2, EmptiesDueSlot
      <3> QED BY <2>2, <3>3 DEF Where
    <2> QED BY <2>1, <2>2
  <1>7. \A m \in Mbufs : m \in Owned(b) => life[m] \in {"held", "done"}
    BY <1>2, <1>5 DEF OwnerInv, OwnedInv
  <1> DEFINE Taken(m) == m \in Box!InBox(Box!Before)
  <1>8. \A m \in Mbufs : Taken(m) <=> m \in Owned(b) /\ life[m] = "held"
    BY <1>4, <1>6 DEF Box!InBox, BoxPlaces
  <1> HIDE DEF Taken
  <1>9. \A m \in Mbufs : Where(m)' = IF Taken(m) THEN "spent" ELSE Where(m)
    <2> SUFFICES ASSUME NEW m \in Mbufs
                 PROVE  Where(m)' = IF Taken(m) THEN "spent" ELSE Where(m)
      OBVIOUS
    <2>1. CASE m \in Owned(b)
      <3>1. life'[m] = "done"
        BY <1>2, <2>1
      <3>2. Where(m)' = "spent"
        BY <3>1 DEF Where
      <3>3. life[m] = "done" => Where(m) = "spent"
        BY DEF Where
      <3> QED BY <1>7, <1>8, <2>1, <3>2, <3>3
    <2>2. CASE m \notin Owned(b)
      <3>1. life'[m] = life[m]
        BY <1>2, <2>2
      <3>2. Where(m)' = Where(m)
        BY <1>3, <3>1 DEF Where
      <3> QED BY <1>8, <2>2, <3>2
    <2> QED BY <2>1, <2>2
  <1>10. \A m \in Mbufs : slotOf'[m] = IF Taken(m) THEN 0 ELSE slotOf[m]
    BY <1>2, <1>7, <1>8 DEF UnusedInv
  <1>11. [m \in Mbufs |-> Place(m)]'
            = [m \in Mbufs |-> IF Taken(m) THEN "spent" ELSE [k \in Mbufs |-> Place(k)][m]]
    BY <1>9 DEF BoxPlaces
  <1>12. slotOf' = [m \in Mbufs |-> IF Taken(m) THEN 0 ELSE slotOf[m]]
    BY <1>2, <1>10
  <1>13. Given' = Given
    BY <1>2, GivenFacts
  <1>14. Box!CloseBox
    BY <1>11, <1>12, <1>13 DEF Taken, Box!CloseBox
  <1> QED BY <1>14 DEF Box!Next

LEMMA BoxRxStep ==
    ASSUME RecordsLast, BoxInv, BoxPlaces, BoxPlaces', ProcessMbuf
    PROVE  Box!Next \/ UNCHANGED Box!boxVars
  <1>1. phySlot' = phySlot
    BY DEF ProcessMbuf
  <1> QED BY <1>1, BoxCheckWindow, BoxTakePlace, BoxPublish, BoxReplace, BoxFill DEF ProcessMbuf

LEMMA BoxCbStep ==
    ASSUME RecordsLast, SlotsOutnumber, BoxInv, BoxPlaces, BoxPlaces', FullSlotCallback
    PROVE  Box!Next \/ UNCHANGED Box!boxVars
  <1>1. rx' = rx
    BY DEF FullSlotCallback
  <1>2. CASE ClearFreed
    <2>1. TypeInv /\ UNCHANGED mbufVars /\ phySlot' = phySlot
      BY <1>2 DEF BoxInv, ClearFreed
    <2>2. \A m \in Mbufs : OnWay(m)' <=> OnWay(m)
      BY <1>1 DEF OnWay, Placed
    <2> QED BY <2>1, <2>2, BoxStays
  <1> QED BY <1>1, <1>2, BoxReport, BoxFreeNext, BoxEmpty DEF FullSlotCallback

LEMMA BoxStep ==
    ASSUME RecordsLast, SlotsOutnumber, BoxInv, BoxInv', [Next]_vars
    PROVE  Box!Next \/ UNCHANGED Box!boxVars
  <1>1. TypeInv /\ OwnerInv /\ BoxPlaces /\ BoxPlaces'
    BY BoxPlacesHold, BoxPlacesNext DEF BoxInv
  <1>2. ASSUME RxSame, UNCHANGED mbufVars, phySlot' = phySlot
        PROVE  UNCHANGED Box!boxVars
    <2>1. \A m \in Mbufs : OnWay(m)' <=> OnWay(m)
      BY <1>2 DEF RxSame, OnWay, Placed
    <2> QED BY <1>1, <1>2, <2>1, BoxStays
  <1>3. CASE NextSymbol \/ NewSecond \/ ResetCounters
    BY <1>1, <1>2, <1>3, ClockKeeps
  <1>4. ASSUME NEW n \in Mbufs, NEW s \in Slots, Receive(n, s)
        PROVE  Box!Next
    <2>1. Given' = Given
      BY <1>1, <1>4, GivenFacts DEF Receive
    <2> QED BY <1>1, <1>4, <2>1, BoxReceive
  <1>5. CASE ProcessMbuf
    BY <1>1, <1>5, BoxRxStep
  <1>6. CASE FullSlotCallback
    BY <1>1, <1>6, BoxCbStep
  <1>7. CASE UNCHANGED vars
    BY <1>2, <1>7 DEF vars, RxSame
  <1> QED BY <1>3, <1>4, <1>5, <1>6, <1>7 DEF Next

LEMMA BoxInit ==
    ASSUME RecordsLast
    PROVE  Init => Box!Init
  <1> SUFFICES ASSUME Init
               PROVE  Box!Init
    OBVIOUS
  <1>1. TypeInv
    BY TypeInit
  <1>2. Given \in Slots
    BY <1>1, GivenFacts
  <1>3. \A m \in Mbufs : Place(m) = "pool" /\ slotOf[m] = 0
    BY DEF Init, Place
  <1>4. slotOf = [m \in Mbufs |-> 0]
    BY DEF Init
  <1> QED BY <1>2, <1>3, <1>4 DEF Box!Init, Box!Slots, Slots

\* The records, which no lock guards, are mailboxes (xran_rx_proc.c:525-599,
\* app_bbu_main.c:572-663): every slot is given to the PHY in its order, a packet is
\* counted only for a slot that the PHY is not done with, the callback takes back what is
\* of the slot before, and all of it, and a freed mbuf is in no mailbox.
THEOREM RecordsAreMailboxes ==
    ASSUME WindowFits, RecordsLast, SlotsOutnumber
    PROVE  Spec => ImplementsMailbox
  <1>1. Init => BoxInv /\ Box!Init
    BY BoxInvInit, BoxInit
  <1>2. BoxInv /\ [Next]_vars => BoxInv'
    BY BoxInvStep
  <1>3. BoxInv /\ BoxInv' /\ [Next]_vars => [Box!Next]_(Box!boxVars)
    BY BoxStep
  <1> QED BY <1>1, <1>2, <1>3, PTL DEF Spec, ImplementsMailbox, Box!Spec

-----------------------------------------------------------------------------
(* What the mailboxes promise. *)

\* When the next slot is given, the others are one slot nearer, and the one that was
\* with the PHY is the slot before.
LEMMA AheadNext ==
    ASSUME NEW g \in Slots, NEW s \in Slots, NEW h, h = (g + 1) % SfnSlots
    PROVE  \/ (s - h) % SfnSlots = ((s - g) % SfnSlots) - 1
           \/ s = (h + SfnSlots - 1) % SfnSlots
  <1>1. g \in 0..(SfnSlots - 1) /\ s \in 0..(SfnSlots - 1) /\ SfnSlots \in Nat \ {0}
    BY Sizes DEF Slots
  <1>2. PICK a \in 0..(SfnSlots - 1), q \in Int :
           a = (s - g) % SfnSlots /\ s - g = SfnSlots * q + a
    <2> DEFINE v == s - g
    <2>1. v \in Int
      BY <1>1
    <2> HIDE DEF v
    <2>2. v % SfnSlots \in 0..(SfnSlots - 1) /\ v \div SfnSlots \in Int
          /\ v = SfnSlots * (v \div SfnSlots) + (v % SfnSlots)
      BY <1>1, <2>1, Division
    <2> QED BY <2>2 DEF v
  <1>3. PICK e \in 0..1 : h = g + 1 - SfnSlots * e
    <2>1. CASE g + 1 < SfnSlots
      <3>1. g + 1 \in 0..(SfnSlots - 1)
        BY <1>1, <2>1
      <3>2. (SfnSlots * 0 + (g + 1)) % SfnSlots = g + 1
        BY <1>1, <3>1, Remainder
      <3>3. SfnSlots * 0 + (g + 1) = g + 1 /\ g + 1 = g + 1 - SfnSlots * 0
        BY <1>1
      <3>4. h = g + 1
        BY <3>2, <3>3
      <3> QED BY <3>3, <3>4
    <2>2. CASE ~(g + 1 < SfnSlots)
      <3>1. g + 1 = SfnSlots * 1 + 0 /\ 0 \in 0..(SfnSlots - 1)
        BY <1>1, <2>2
      <3>2. (SfnSlots * 1 + 0) % SfnSlots = 0
        BY <1>1, <3>1, Remainder
      <3>3. h = 0
        BY <3>1, <3>2
      <3>4. 0 = g + 1 - SfnSlots * 1
        BY <1>1, <3>1
      <3> QED BY <3>3, <3>4
    <2> QED BY <2>1, <2>2
  <1>4. CASE a > 0
    <2> DEFINE k == q + e
    <2>1. k \in Int /\ a - 1 \in 0..(SfnSlots - 1)
      BY <1>1, <1>2, <1>3, <1>4
    <2>2. s - h = SfnSlots * k + (a - 1)
      <3>1. SfnSlots * k = SfnSlots * q + SfnSlots * e
        BY <1>1, <1>2, <1>3
      <3>2. SfnSlots * q \in Int /\ SfnSlots * e \in Int
        BY <1>1, <1>2, <1>3
      <3> HIDE DEF k
      <3> QED BY <1>1, <1>2, <1>3, <3>1, <3>2
    <2> HIDE DEF k
    <2>3. (SfnSlots * k + (a - 1)) % SfnSlots = a - 1
      BY <1>1, <2>1, Remainder
    <2> QED BY <1>2, <2>2, <2>3
  <1>5. CASE a = 0
    <2>1. q = 0
      <3>1. q >= 1 => SfnSlots * q >= SfnSlots
        BY <1>1, <1>2
      <3>2. q <= -1 => SfnSlots * q <= -SfnSlots
        BY <1>1, <1>2
      <3>3. s - g = SfnSlots * q
        BY <1>1, <1>2, <1>5
      <3> QED BY <1>1, <1>2, <3>1, <3>2, <3>3
    <2>2. s = g
      <3> DEFINE u == SfnSlots * q
      <3>1. u = 0
        BY <1>1, <2>1
      <3>2. s - g = u + a
        BY <1>2
      <3>3. s \in Int /\ g \in Int
        BY <1>1
      <3> HIDE DEF u
      <3> QED BY <1>5, <3>1, <3>2, <3>3
    <2>3. h + SfnSlots - 1 = SfnSlots * (1 - e) + g /\ 1 - e \in Int
      BY <1>1, <1>3
    <2>4. (SfnSlots * (1 - e) + g) % SfnSlots = g
      BY <1>1, <2>3, Remainder
    <2> QED BY <2>2, <2>3, <2>4
  <1> QED BY <1>1, <1>2, <1>4, <1>5

LEMMA RecentInit == Box!Init => Box!Recent
  BY DEF Box!Init, Box!Recent

LEMMA RecentStep ==
    ASSUME RecordsLast, TypeInv, Box!Recent, [Box!Next]_(Box!boxVars)
    PROVE  Box!Recent'
  <1> DEFINE place == [m \in Mbufs |-> Place(m)]
  <1>1. slotOf \in [Mbufs -> Slots] /\ Given \in Slots
    BY Shapes, GivenFacts
  <1>2. \A m \in Mbufs : place[m] = "mail"
           => (slotOf[m] - Given) % SfnSlots <= BufLen - 1
              \/ slotOf[m] = (Given + SfnSlots - 1) % SfnSlots
    BY DEF Box!Recent, Box!Ahead, Box!Before
  <1>3. ASSUME Given' = Given,
               \A m \in Mbufs : place'[m] = "mail" =>
                  /\ slotOf'[m] = slotOf[m]
                  /\ place[m] = "mail" \/ (slotOf[m] - Given) % SfnSlots <= BufLen - 1
        PROVE  Box!Recent'
    BY <1>2, <1>3 DEF Box!Recent, Box!Ahead, Box!Before
  <1>4. place = [m \in Mbufs |-> place[m]]
    OBVIOUS
  <1>5. ASSUME NEW n \in Mbufs, Box!Return(n)
        PROVE  Box!Recent'
    <2>1. /\ place' = [place EXCEPT ![n] = "pool"] /\ slotOf' = [slotOf EXCEPT ![n] = 0]
          /\ Given' = Given
      BY <1>5 DEF Box!Return
    <2> HIDE DEF place
    <2>2. \A m \in Mbufs : place'[m] = "mail" => m # n /\ place[m] = "mail"
      BY <1>4, <2>1
    <2> QED BY <1>1, <1>3, <2>1, <2>2
  <1>6. ASSUME NEW n \in Mbufs, NEW s \in Box!Slots, Box!Arrive(n, s)
        PROVE  Box!Recent'
    <2>1. /\ place' = [place EXCEPT ![n] = "carried"] /\ slotOf' = [slotOf EXCEPT ![n] = s]
          /\ Given' = Given
      BY <1>6 DEF Box!Arrive
    <2> HIDE DEF place
    <2>2. \A m \in Mbufs : place'[m] = "mail" => m # n /\ place[m] = "mail"
      BY <1>4, <2>1
    <2> QED BY <1>1, <1>3, <2>1, <2>2
  <1>7. ASSUME NEW n \in Mbufs, Box!Deliver(n)
        PROVE  Box!Recent'
    <2>1. /\ place' = [place EXCEPT ![n] = "mail"] /\ slotOf' = slotOf /\ Given' = Given
          /\ (slotOf[n] - Given) % SfnSlots <= BufLen - 1
      BY <1>7 DEF Box!Deliver, Box!Ahead
    <2> HIDE DEF place
    <2>2. \A m \in Mbufs : place'[m] = "mail" => m = n \/ place[m] = "mail"
      BY <1>4, <2>1
    <2> QED BY <1>3, <2>1, <2>2
  <1>8. ASSUME Box!CloseBox
        PROVE  Box!Recent'
    <2>1. /\ place' = [m \in Mbufs |-> IF m \in Box!InBox(Box!Before) THEN "spent" ELSE place[m]]
          /\ slotOf' = [m \in Mbufs |-> IF m \in Box!InBox(Box!Before) THEN 0 ELSE slotOf[m]]
          /\ Given' = Given
      BY <1>8 DEF Box!CloseBox
    <2> HIDE DEF place
    <2>2. \A m \in Mbufs : place'[m] = "mail" => slotOf'[m] = slotOf[m] /\ place[m] = "mail"
      BY <2>1
    <2> QED BY <1>3, <2>1, <2>2
  <1>9. ASSUME Box!Give
        PROVE  Box!Recent'
    <2>1. /\ place' = place /\ slotOf' = slotOf /\ Given' = (Given + 1) % SfnSlots
          /\ Box!InBox(Box!Before) = {}
      BY <1>9 DEF Box!Give
    <2>2. ASSUME NEW m \in Mbufs, place[m] = "mail"
          PROVE  \/ (slotOf[m] - Given') % SfnSlots <= BufLen - 1
                 \/ slotOf[m] = (Given' + SfnSlots - 1) % SfnSlots
      <3>1. slotOf[m] # (Given + SfnSlots - 1) % SfnSlots
        BY <2>1, <2>2 DEF Box!InBox, Box!Before
      <3>2. PICK s \in Slots, g \in Slots : s = slotOf[m] /\ g = Given
        BY <1>1
      <3>3. PICK a \in Int : a = (s - g) % SfnSlots
        <4> DEFINE v == s - g
        <4>1. v \in Int /\ SfnSlots \in Nat \ {0}
          BY Sizes DEF Slots
        <4> HIDE DEF v
        <4>2. v % SfnSlots \in 0..(SfnSlots - 1)
          BY <4>1, Division
        <4> QED BY <4>2 DEF v
      <3>4. a <= BufLen - 1
        BY <1>2, <2>2, <3>1, <3>2, <3>3
      <3>5. \/ (s - Given') % SfnSlots = a - 1
            \/ s = (Given' + SfnSlots - 1) % SfnSlots
        BY <2>1, <3>2, <3>3, AheadNext
      <3>6. a - 1 <= BufLen - 1
        BY <3>4, Sizes
      <3> QED BY <3>2, <3>5, <3>6
    <2> QED BY <2>1, <2>2 DEF Box!Recent, Box!Ahead, Box!Before
  <1>10. CASE UNCHANGED Box!boxVars
    <2>1. place' = place /\ slotOf' = slotOf /\ Given' = Given
      BY <1>10 DEF Box!boxVars
    <2> HIDE DEF place
    <2> QED BY <1>3, <2>1
  <1> QED BY <1>5, <1>6, <1>7, <1>8, <1>9, <1>10 DEF Box!Next, Box!Refuse, Box!TakeBack, Box!Recycle

\* No packet stays counted beyond its slot, proved of the mailboxes and so true of the
\* records that implement them (app_bbu_main.c:600-663, xran_main.c:1581-1634).
THEOREM MailStaysRecent ==
    ASSUME WindowFits, RecordsLast, SlotsOutnumber
    PROVE  Spec => []MailIsRecent
  <1>1. Spec => ImplementsMailbox
    BY RecordsAreMailboxes
  <1>2. Init => TypeInv
    BY TypeInit
  <1>3. TypeInv /\ [Next]_vars => TypeInv'
    BY TypeStep
  <1>4. TypeInv /\ Box!Recent /\ [Box!Next]_(Box!boxVars) => Box!Recent'
    BY RecentStep
  <1> QED BY <1>1, <1>2, <1>3, <1>4, RecentInit, PTL
          DEF Spec, ImplementsMailbox, Box!Spec, MailIsRecent
=============================================================================
