-------------------------- MODULE XranTimingProofs --------------------------
(*************************************************************************)
(* Proofs about the timing source, for any frame structure, any          *)
(* numerologies and any lateness of the timing thread below a second. A  *)
(* second of the nanosecond arithmetic holds exactly its symbols. The    *)
(* symbol counters keep in step with the clock (InStep), the slot        *)
(* counters with the symbols (CountersAgree). What a callback announces  *)
(* when it runs is what the slot that armed it owes: the C-plane that is *)
(* due (DlCpIsOnTime), a window that has passed (DeadlineCoversWindow),  *)
(* the slots from slot 0 of frame 0 on, one by one (TtisFollowSfn).      *)
(*************************************************************************)
EXTENDS XranTiming, FiniteSetTheorems, TLAPS

(***************************************************************************)
(* The nanosecond arithmetic.                                              *)
(***************************************************************************)
Numerologies == {0, 1, 3}

\* Where a pair of ticks ends and where the next one begins, and every
\* thirteenth tick.
LEMMA TickParity ==
    ASSUME NEW n \in Nat
    PROVE  /\ n \div 2 \in Int /\ (n + 12) \div 13 \in Int
           /\ \/ n % 2 = 0 /\ (n + 1) % 2 = 1 /\ (n + 1) \div 2 = n \div 2
              \/ n % 2 = 1 /\ (n + 1) % 2 = 0 /\ (n + 1) \div 2 = n \div 2 + 1
           /\ ((n + 1) + 12) \div 13 = (n + 12) \div 13 + (IF n % 13 = 0 THEN 1 ELSE 0)
  OBVIOUS

LEMMA TuningIsInt ==
    ASSUME NEW mu \in Numerologies
    PROVE  FineTuning(mu)[1] \in Int /\ FineTuning(mu)[2] \in Int
  BY DEF Numerologies, FineTuning

LEMMA PairOfTicks ==
    ASSUME NEW a \in Int, NEW b \in Int, NEW h \in Int, NEW k \in Int
    PROVE  /\ h * (a + b) + 1 * b + k = h * (a + b) + 0 * b + k + b
           /\ (h + 1) * (a + b) + 0 * b + k = h * (a + b) + 1 * b + k + a
  OBVIOUS

\* SymAcc is what the thread accumulates tick by tick from the start of a
\* second: it starts at 0 and grows by Adjustment (xran_timer.c:324-334).
THEOREM SymAccAccumulates ==
    ASSUME NEW mu \in Numerologies, NEW n \in Nat
    PROVE  /\ SymAcc(mu, 0) = 0
           /\ SymAcc(mu, n + 1) = SymAcc(mu, n) + Adjustment(mu, n)
  <1> DEFINE a == FineTuning(mu)[1]
             b == FineTuning(mu)[2]
             h == n \div 2
             t == (n + 12) \div 13
             e == IF n % 13 = 0 THEN 1 ELSE 0
  <1>1. a \in Int /\ b \in Int /\ h \in Int /\ t \in Int /\ e \in Int
    BY TuningIsInt, TickParity
  <1>2. SymAcc(mu, 0) = 0 * (a + b) + 0 * b + 0
    BY DEF SymAcc
  <1>3. SymAcc(mu, n) = h * (a + b) + (n % 2) * b + t
    BY DEF SymAcc
  <1>4. SymAcc(mu, n + 1) = ((n + 1) \div 2) * (a + b) + ((n + 1) % 2) * b + (t + e)
    BY TickParity DEF SymAcc
  <1>5. Adjustment(mu, n) = (IF n % 2 = 1 THEN a ELSE b) + e
    BY DEF Adjustment
  <1> HIDE DEF a, b, h, t, e
  <1>6. SymAcc(mu, 0) = 0
    BY <1>1, <1>2
  <1>7. CASE n % 2 = 0 /\ (n + 1) % 2 = 1 /\ (n + 1) \div 2 = n \div 2
    <2>1. SymAcc(mu, n) = h * (a + b) + 0 * b + t
      BY <1>3, <1>7
    <2>2. SymAcc(mu, n + 1) = h * (a + b) + 1 * b + (t + e)
      BY <1>4, <1>7 DEF h
    <2>3. Adjustment(mu, n) = b + e
      BY <1>5, <1>7
    <2> QED BY <1>1, <1>6, <2>1, <2>2, <2>3, PairOfTicks
  <1>8. CASE n % 2 = 1 /\ (n + 1) % 2 = 0 /\ (n + 1) \div 2 = n \div 2 + 1
    <2>1. SymAcc(mu, n) = h * (a + b) + 1 * b + t
      BY <1>3, <1>8
    <2>2. SymAcc(mu, n + 1) = (h + 1) * (a + b) + 0 * b + (t + e)
      BY <1>4, <1>8 DEF h
    <2>3. Adjustment(mu, n) = a + e
      BY <1>5, <1>8
    <2> QED BY <1>1, <1>6, <2>1, <2>2, <2>3, PairOfTicks
  <1> QED BY <1>7, <1>8, TickParity

\* With 14 symbols, 10 subframes and 100 frames, a tick for the last symbol of
\* a second can fall within the second, and the tick after it, even if taken
\* Threshold early, falls into the next: a second has SymsPerSecond symbols.
THEOREM SecondHoldsItsSymbols ==
    ASSUME N = 14, SubframesPerFrame = 10, FramesPerSecond = 100,
           NEW mu \in Numerologies
    PROVE  LET last == SymsPerSecond(mu) - 1 IN
           /\ SymAcc(mu, last - 1) + IntervalNs(mu) < NsecPerSec
           /\ SymAcc(mu, last) + IntervalNs(mu) - Threshold >= NsecPerSec
  <1> USE DEF SymsPerSecond, SlotsPerSecond, SlotsPerFrame, SlotsPerSubframe, IntervalNs,
              NsecPerSec, Threshold
  <1>1. CASE mu = 0
    BY <1>1 DEF SymAcc, FineTuning
  <1>2. CASE mu = 1
    BY <1>2 DEF SymAcc, FineTuning
  <1>3. CASE mu = 3
    BY <1>3 DEF SymAcc, FineTuning
  <1> QED BY <1>1, <1>2, <1>3 DEF Numerologies

\* The n-th symbol boundary of a second is never early and is late by less
\* than MaxDrift nanoseconds: with numerology 1 more than 8 microseconds build
\* up by the end of a second, since both entries of fine_tuning together are
\* longer than two symbols.
MaxDrift(mu) == CASE mu = 0 -> 79 [] mu = 1 -> 8155 [] mu = 3 -> 617

THEOREM DriftBounded ==
    ASSUME NEW mu \in Numerologies, NEW n \in Nat,
           n < 14000 * SlotsPerSubframe(mu)
    PROVE  LET syms == 14000 * SlotsPerSubframe(mu) IN
           /\ n * NsecPerSec <= syms * SymAcc(mu, n)
           /\ syms * SymAcc(mu, n) < n * NsecPerSec + syms * MaxDrift(mu)
  <1> USE DEF SlotsPerSubframe, NsecPerSec, MaxDrift
  <1>1. CASE mu = 0
    BY <1>1 DEF SymAcc, FineTuning
  <1>2. CASE mu = 1
    BY <1>2 DEF SymAcc, FineTuning
  <1>3. CASE mu = 3
    BY <1>3 DEF SymAcc, FineTuning
  <1> QED BY <1>1, <1>2, <1>3 DEF Numerologies

(***************************************************************************)
(* The counters keep in step with the clock.  InStep is inductive together *)
(* with the types of the variables it speaks of and two facts about where  *)
(* the thread is: it only falls behind a second while it polls, and a      *)
(* thread that has left is no longer there to poll.                        *)
(***************************************************************************)
ClockTypes ==
    /\ clkSec \in 0..(SecondsCycle - 1) /\ lastSec \in 0..(SecondsCycle - 1)
    /\ currentSecond \in 0..(SecondsCycle - 1)
    /\ clkSym \in 0..(SymsPerSecond(TimerMu) - 1)
    /\ lastSym \in 0..(SymsPerSecond(TimerMu) - 1)
    /\ symIdx \in [Mus -> Int]

ThreadInSecond ==
    /\ pc # "poll" => clkSec = lastSec
    /\ tmState = "EXIT" => pc = "exit"

StepInv == ClockTypes /\ ThreadInSecond /\ InStep

LEMMA SecondNotEmpty ==
    /\ SymsPerSecond(TimerMu) \in Nat /\ SymsPerSecond(TimerMu) > 0
    /\ SecondsCycle \in Nat /\ SecondsCycle > 2
    /\ MaxLag \in Nat /\ MaxLag <= SymsPerSecond(TimerMu)
    /\ TimerMu \in Mus /\ Mus \subseteq 0..3
  <1> USE TimingAssumption
  <1>1. \A a, b \in Nat : a > 0 /\ b > 0 => a * b \in Nat /\ a * b > 0
    OBVIOUS
  <1>2. SlotsPerSubframe(TimerMu) \in Nat /\ SlotsPerSubframe(TimerMu) > 0
    BY DEF SlotsPerSubframe
  <1>3. SlotsPerFrame(TimerMu) \in Nat /\ SlotsPerFrame(TimerMu) > 0
    BY <1>1, <1>2 DEF SlotsPerFrame
  <1>4. SlotsPerSecond(TimerMu) \in Nat /\ SlotsPerSecond(TimerMu) > 0
    BY <1>1, <1>3 DEF SlotsPerSecond
  <1>5. SymsPerSecond(TimerMu) \in Nat /\ SymsPerSecond(TimerMu) > 0
    BY <1>1, <1>4 DEF SymsPerSecond
  <1> QED BY <1>5, LagAssumption

LEMMA CoarserOfHighest ==
    ASSUME NEW s \in Nat
    PROVE  /\ Coarser(TimerMu, s) = s
           /\ \A mu \in Mus : Coarser(mu, s) \in Int
           /\ \A mu \in Mus : Coarser(mu, 0) = 0
  <1> USE TimingAssumption DEF Coarser, SlotsPerSubframe
  <1>1. Coarser(TimerMu, s) = s
    OBVIOUS
  <1>2. ASSUME NEW mu \in Mus
        PROVE  Coarser(mu, s) \in Int /\ Coarser(mu, 0) = 0
    <2>1. TimerMu - mu \in {0, 1, 2, 3}
      OBVIOUS
    <2>2. SlotsPerSubframe(TimerMu - mu) \in {1, 2, 4, 8}
      BY <2>1
    <2> QED BY <2>2
  <1> QED BY <1>1, <1>2

LEMMA StepInvInit == Init => StepInv
  <1> SUFFICES ASSUME Init PROVE StepInv
    OBVIOUS
  <1> USE SecondNotEmpty DEF Init
  <1>1. ClockTypes
    BY DEF ClockTypes
  <1>2. ThreadInSecond
    BY DEF ThreadInSecond
  <1>3. InStep
    BY CoarserOfHighest DEF InStep
  <1> QED BY <1>1, <1>2, <1>3 DEF StepInv

\* Which steps touch the clock, the counters or the thread's place.
LEMMA StepFrame ==
    [Next]_vars =>
        \/ UNCHANGED <<clockVars, lastSec, lastSym, currentSecond, symIdx, pc, tmState>>
        \/ ClockAdvance \/ PollNewSecond \/ PollSymbol
        \/ TimingStop \/ TimingStart
        \/ /\ UNCHANGED <<clockVars, lastSec, lastSym, currentSecond, symIdx>>
           /\ pc \in {"dispatch", "symbols"}
           /\ (pc' = "symbols" /\ tmState' = tmState) \/ Loop
  BY DEF Next, vars, clockVars, tickVars, threadVars, Dispatch, DispatchIdle, SymOtaCb,
         AdvanceSyms, TtiToPhy, TxCpDl, RxUlDeadline, XranStart, XranStop, RegTtiCb,
         ActivateCc, DeactivateCc

LEMMA StepInvNext == StepInv /\ [Next]_vars => StepInv'
  <1> SUFFICES ASSUME StepInv, [Next]_vars PROVE StepInv'
    OBVIOUS
  <1> USE SecondNotEmpty DEF StepInv, clockVars, tickVars
  <1>1. CASE UNCHANGED <<clockVars, lastSec, lastSym, currentSecond, symIdx, pc, tmState>>
    BY <1>1 DEF ClockTypes, ThreadInSecond, InStep
  <1>2. CASE ClockAdvance
    <2>1. /\ pc = "poll" /\ Lag < MaxLag
          /\ UNCHANGED <<lastSec, lastSym, currentSecond, symIdx, pc, tmState>>
      BY <1>2 DEF ClockAdvance, threadVars
    <2>2. CASE clkSym + 1 < SymsPerSecond(TimerMu)
      <3>1. clkSym' = clkSym + 1 /\ clkSec' = clkSec
        BY <1>2, <2>2 DEF ClockAdvance
      <3> QED BY <2>1, <2>2, <3>1 DEF ClockTypes, ThreadInSecond, InStep
    <2>3. CASE ~(clkSym + 1 < SymsPerSecond(TimerMu))
      <3>1. clkSym' = 0 /\ clkSec' = (clkSec + 1) % SecondsCycle
        BY <1>2, <2>3 DEF ClockAdvance
      <3>2. clkSym = SymsPerSecond(TimerMu) - 1
        BY <2>3 DEF ClockTypes
      <3>3. clkSec = lastSec
        BY <2>1, <3>2 DEF Lag, ClockTypes
      <3>4. clkSec' \in 0..(SecondsCycle - 1) /\ clkSec' # lastSec
        BY <3>1, <3>3 DEF ClockTypes
      <3> QED BY <2>1, <3>1, <3>4 DEF ClockTypes, ThreadInSecond, InStep
    <2> QED BY <2>2, <2>3
  <1>3. CASE PollNewSecond
    <2>1. /\ lastSec' = clkSec /\ lastSym' = 0 /\ currentSecond' = clkSec
          /\ symIdx' = [mu \in Mus |-> 0] /\ pc = "poll" /\ pc' = "dispatch"
          /\ UNCHANGED <<clkSec, clkSym, tmState>>
      BY <1>3 DEF PollNewSecond
    <2>2. ClockTypes'
      BY <2>1 DEF ClockTypes
    <2>3. ThreadInSecond'
      BY <2>1 DEF ThreadInSecond
    <2>4. InStep'
      BY <2>1, CoarserOfHighest DEF InStep, ClockTypes
    <2> QED BY <2>2, <2>3, <2>4
  <1>4. CASE PollSymbol
    <2>1. /\ pc = "poll" /\ clkSec = lastSec /\ Lag > 0 /\ pc' = "dispatch"
          /\ symIdx' = [mu \in Mus |-> Coarser(mu, NextSymIdx)]
          /\ lastSym' = lastSym + 1
          /\ UNCHANGED <<clkSec, clkSym, lastSec, currentSecond, tmState>>
      BY <1>4 DEF PollSymbol, InStep
    <2>2. lastSym + 1 <= clkSym
      BY <2>1 DEF Lag, ClockTypes
    <2>3. NextSymIdx = lastSym + 1 /\ lastSym + 1 \in Nat
      BY <2>1, <2>2 DEF NextSymIdx, InStep, ClockTypes
    <2>4. symIdx' = [mu \in Mus |-> Coarser(mu, lastSym + 1)]
      BY <2>1, <2>3
    <2>5. ClockTypes'
      BY <2>1, <2>2, <2>3, <2>4, CoarserOfHighest DEF ClockTypes
    <2>6. ThreadInSecond'
      BY <2>1 DEF ThreadInSecond
    <2>7. symIdx'[TimerMu] = lastSym + 1
      BY <2>3, <2>4, CoarserOfHighest
    <2>8. InStep'
      BY <2>1, <2>2, <2>4, <2>7 DEF InStep
    <2> QED BY <2>5, <2>6, <2>8
  <1>5. CASE TimingStop
    BY <1>5 DEF TimingStop, ClockTypes, ThreadInSecond, InStep
  <1>6. CASE TimingStart
    <2>1. /\ tmState = "EXIT" /\ tmState' = "RUN" /\ pc' = "poll"
          /\ symIdx' = [mu \in Mus |-> 0]
          /\ clkSec' = (clkSec + 1) % SecondsCycle /\ clkSym' = 0
          /\ UNCHANGED <<lastSec, lastSym, currentSecond>>
      BY <1>6 DEF TimingStart
    <2>2. clkSec = lastSec
      BY <2>1 DEF ThreadInSecond
    <2>3. clkSec' \in 0..(SecondsCycle - 1) /\ clkSec' # lastSec
      BY <2>1, <2>2 DEF ClockTypes
    <2>4. ClockTypes'
      BY <2>1, <2>3 DEF ClockTypes
    <2>5. ThreadInSecond'
      BY <2>1 DEF ThreadInSecond
    <2>6. InStep'
      BY <2>1, <2>3, CoarserOfHighest DEF InStep
    <2> QED BY <2>4, <2>5, <2>6
  <1>7. CASE /\ UNCHANGED <<clockVars, lastSec, lastSym, currentSecond, symIdx>>
             /\ pc \in {"dispatch", "symbols"}
             /\ (pc' = "symbols" /\ tmState' = tmState) \/ Loop
    <2>1. ClockTypes'
      BY <1>7 DEF ClockTypes
    <2>2. clkSec' = lastSec'
      BY <1>7 DEF ThreadInSecond
    <2>3. ThreadInSecond'
      BY <1>7, <2>2 DEF ThreadInSecond, Loop
    <2>4. InStep'
      BY <1>7 DEF InStep, ThreadInSecond
    <2> QED BY <2>1, <2>3, <2>4
  <1> QED BY <1>1, <1>2, <1>3, <1>4, <1>5, <1>6, <1>7, StepFrame

\* At every moment the symbol index is the symbol of the second that the thread
\* has reached, and the thread is never ahead of the clock
\* (xran_timingsource_poll_next_tick, xran_timer.c:266-336).
THEOREM CountersInStep == Spec => []InStep
  <1>1. Spec => []StepInv
    BY StepInvInit, StepInvNext, PTL DEF Spec
  <1> QED BY <1>1, PTL DEF StepInv

(***************************************************************************)
(* Types.  What the frame structure is made of, and that a symbol of the   *)
(* highest numerology has its place in a second of a coarser one.          *)
(***************************************************************************)
LEMMA Division ==
    ASSUME NEW a \in Int, NEW n \in Nat \ {0}
    PROVE  a \div n \in Int /\ a % n \in 0..(n - 1) /\ a = n * (a \div n) + (a % n)
  OBVIOUS

LEMMA DivisionUnique ==
    ASSUME NEW n \in Nat \ {0}, NEW q \in Int, NEW r \in 0..(n - 1)
    PROVE  (n * q + r) \div n = q /\ (n * q + r) % n = r
  OBVIOUS

LEMMA QuotientOfNat ==
    ASSUME NEW a \in Nat, NEW n \in Nat \ {0}
    PROVE  a \div n \in Nat
  OBVIOUS

LEMMA PositiveProduct ==
    ASSUME NEW a \in Nat \ {0}, NEW b \in Nat \ {0}
    PROVE  a * b \in Nat \ {0}
  OBVIOUS

LEMMA FrameSizes ==
    ASSUME NEW mu \in Mus
    PROVE  /\ SlotsPerSubframe(mu) \in Nat \ {0} /\ SlotsPerFrame(mu) \in Nat \ {0}
           /\ SlotsPerSecond(mu) \in Nat \ {0} /\ SymsPerSecond(mu) \in Nat \ {0}
           /\ MaxSlot(mu) \in Nat \ {0}
           /\ N \in Nat /\ N > 4 /\ SlotsPerSubframe(TimerMu - mu) \in Nat \ {0}
  <1> USE TimingAssumption
  <1>1. SlotsPerSubframe(mu) \in Nat \ {0} /\ SlotsPerSubframe(TimerMu - mu) \in Nat \ {0}
    BY DEF SlotsPerSubframe
  <1>2. SlotsPerFrame(mu) \in Nat \ {0}
    BY <1>1, PositiveProduct DEF SlotsPerFrame
  <1>3. SlotsPerSecond(mu) \in Nat \ {0}
    BY <1>2, PositiveProduct DEF SlotsPerSecond
  <1>4. SymsPerSecond(mu) \in Nat \ {0}
    BY <1>3, PositiveProduct DEF SymsPerSecond
  <1>5. MaxFrame + 1 \in Nat \ {0}
    OBVIOUS
  <1>6. MaxSlot(mu) \in Nat \ {0}
    BY <1>2, <1>5, PositiveProduct DEF MaxSlot
  <1> QED BY <1>1, <1>2, <1>3, <1>4, <1>6

LEMMA SizesPositive == \A mu \in Mus : 0 < SymsPerSecond(mu) /\ 0 < MaxSlot(mu)
  <1> SUFFICES ASSUME NEW mu \in Mus PROVE 0 < SymsPerSecond(mu) /\ 0 < MaxSlot(mu)
    OBVIOUS
  <1>1. SymsPerSecond(mu) \in Nat \ {0} /\ MaxSlot(mu) \in Nat \ {0}
    BY FrameSizes
  <1> QED BY <1>1

\* A second has as many symbols of the highest numerology as its symbols of
\* numerology mu are divided into.
LEMMA FinerSymbols ==
    ASSUME NEW mu \in Mus
    PROVE  SymsPerSecond(TimerMu) = SlotsPerSubframe(TimerMu - mu) * SymsPerSecond(mu)
  <1> USE TimingAssumption
  <1> DEFINE p == SlotsPerSubframe(mu)
             d == SlotsPerSubframe(TimerMu - mu)
  <1>1. p \in Nat /\ d \in Nat /\ SlotsPerSubframe(TimerMu) = d * p
    BY DEF SlotsPerSubframe
  <1>2. SymsPerSecond(TimerMu) = N * ((SubframesPerFrame * (d * p)) * FramesPerSecond)
    BY <1>1 DEF SymsPerSecond, SlotsPerSecond, SlotsPerFrame
  <1>3. SymsPerSecond(mu) = N * ((SubframesPerFrame * p) * FramesPerSecond)
    BY DEF SymsPerSecond, SlotsPerSecond, SlotsPerFrame
  <1>4. N \in Nat /\ SubframesPerFrame \in Nat /\ FramesPerSecond \in Nat
    OBVIOUS
  <1> HIDE DEF p, d
  <1>5. \A a, b, c \in Nat :
           N * ((a * (d * p)) * b) = d * (N * ((a * p) * b))
    BY <1>1, <1>4
  <1> QED BY <1>2, <1>3, <1>4, <1>5 DEF d

LEMMA QuotientBelow ==
    ASSUME NEW d \in Nat \ {0}, NEW n \in Nat \ {0}, NEW s \in 0..(d * n - 1)
    PROVE  s \div d \in 0..(n - 1)
  <1> DEFINE q == s \div d
             r == s % d
  <1>1. q \in Nat /\ r \in 0..(d - 1) /\ s = d * q + r
    OBVIOUS
  <1> HIDE DEF q, r
  <1>2. ASSUME q >= n PROVE FALSE
    <2>1. d * q >= d * n
      BY <1>1, <1>2
    <2> QED BY <1>1, <2>1
  <1> QED BY <1>1, <1>2 DEF q

LEMMA CoarserInSecond ==
    ASSUME NEW mu \in Mus, NEW s \in 0..(SymsPerSecond(TimerMu) - 1)
    PROVE  Coarser(mu, s) \in 0..(SymsPerSecond(mu) - 1)
  BY FrameSizes, FinerSymbols, QuotientBelow DEF Coarser

LEMMA SlotNumberIsNat ==
    ASSUME NEW mu \in Mus, NEW slot \in Nat, NEW sfn \in Nat
    PROVE  SlotOfSfnPeriod(mu, slot, sfn) \in Nat
  <1> DEFINE f == SlotsPerFrame(mu)
  <1>1. f \in Nat \ {0} /\ SfnModulus \in Nat \ {0}
    BY FrameSizes, TimingAssumption
  <1> HIDE DEF f
  <1>2. slot \div f \in Nat /\ slot % f \in Nat
    BY <1>1, Division, QuotientOfNat
  <1>3. (slot \div f + sfn) % SfnModulus \in Nat
    BY <1>1, <1>2, Division
  <1> DEFINE g == (slot \div f + sfn) % SfnModulus
             h == slot % f
  <1>4. SlotOfSfnPeriod(mu, slot, sfn) = g * f + h
    BY DEF SlotOfSfnPeriod, FrameNum, f
  <1> HIDE DEF g, h
  <1>5. g \in Nat /\ h \in Nat
    BY <1>2, <1>3 DEF g, h
  <1> QED BY <1>1, <1>4, <1>5

\* The parts of TypeOK: the counters, the thread and the callbacks.
CounterTypes ==
    /\ sfnSecStart \in 0..MaxFrame
    /\ symIdx \in [Mus -> Nat] /\ sym \in [Mus -> 0..(N - 1)]
    /\ \A mu \in Mus : symIdx[mu] < SymsPerSecond(mu) /\ tti[mu] < MaxSlot(mu)
    /\ tti \in [Mus -> Nat] /\ ttiBase \in 0..(MaxSlot(TimerMu) - 1)
    /\ timerCtx \in [Mus -> [0..1 -> Nat]]
    /\ deadlineTti \in [Mus -> Nat]

PlaceTypes ==
    /\ timeDiff \in TimeDiffs
    /\ pc \in {"poll", "dispatch", "symbols", "exit"} /\ todo \subseteq Mus
    /\ tmState \in {"RUN", "STOP", "EXIT"}
    /\ ifState \in {"INIT", "RUNNING", "STOPPED"} /\ nStart \in Int
    /\ activeCcs \in 0..1 /\ calls \in 0..MaxCalls

FlagTypes ==
    /\ {ruOpen, ttiCb, firstCall, aligned, disturbed} \subseteq BOOLEAN
    /\ skipTti \in Nat /\ served \in 0..(MaxSlot(TimerMu) - 1)

JobSet == [kind : DeadlineKinds \cup {"tti", "cpDl"}, mu : Mus,
           sec : 0..(SecondsCycle - 1), sym : 0..(SymsPerSecond(TimerMu) - 1)]

QueueTypes == jobs \in [JobTypes -> Seq(JobSet)] /\ PendingCount <= MaxPending

LEMMA TypeParts ==
    ASSUME ClockTypes
    PROVE  TypeOK <=> CounterTypes /\ PlaceTypes /\ FlagTypes /\ QueueTypes
  BY DEF ClockTypes, TypeOK, CounterTypes, PlaceTypes, FlagTypes, QueueTypes, JobSet

LEMMA SlotZero == 0 \in 0..(MaxSlot(TimerMu) - 1)
  <1> DEFINE s == MaxSlot(TimerMu)
  <1>1. s \in Nat \ {0}
    BY FrameSizes, TimingAssumption
  <1> HIDE DEF s
  <1>2. 0 \in 0..(s - 1)
    BY <1>1
  <1> QED BY <1>2 DEF s

LEMMA TypePartsInit == Init => CounterTypes /\ PlaceTypes /\ FlagTypes /\ QueueTypes
  <1> SUFFICES ASSUME Init PROVE CounterTypes /\ PlaceTypes /\ FlagTypes /\ QueueTypes
    OBVIOUS
  <1> USE TimingAssumption DEF Init
  <1>1. \A mu \in Mus : 0 < SymsPerSecond(mu) /\ 0 < MaxSlot(mu)
    BY SizesPositive
  <1>2. CounterTypes
    <2>1. 0 \in 0..MaxFrame /\ 0 \in 0..(N - 1) /\ MaxSlot(TimerMu) \in Nat \ {0}
      <3> HIDE DEF Init
      <3>1. MaxFrame \in Nat /\ TimerMu \in Mus
        OBVIOUS
      <3>2. N \in Nat /\ N > 4 /\ MaxSlot(TimerMu) \in Nat \ {0}
        BY <3>1, FrameSizes
      <3> QED BY <3>1, <3>2
    <2>2. /\ symIdx = [mu \in Mus |-> 0] /\ sym = [mu \in Mus |-> 0]
          /\ tti = [mu \in Mus |-> 0] /\ ttiBase = 0 /\ sfnSecStart = 0
          /\ timerCtx = [mu \in Mus |-> [i \in 0..1 |-> 0]]
          /\ deadlineTti = [mu \in Mus |-> 0]
      OBVIOUS
    <2>3. ttiBase \in 0..(MaxSlot(TimerMu) - 1)
      BY <2>2, SlotZero
    <2>4. \A mu \in Mus : symIdx[mu] < SymsPerSecond(mu) /\ tti[mu] < MaxSlot(mu)
      BY <1>1, <2>2
    <2> HIDE DEF Init
    <2> QED BY <2>1, <2>2, <2>3, <2>4 DEF CounterTypes
  <1>3. PlaceTypes
    BY DEF PlaceTypes
  <1>4. FlagTypes
    <2>1. {ruOpen, ttiCb, firstCall, aligned, disturbed} \subseteq BOOLEAN
      BY Zenon
    <2>2. skipTti \in Nat
      OBVIOUS
    <2>3. served \in 0..(MaxSlot(TimerMu) - 1)
      BY SlotZero
    <2> QED BY <2>1, <2>2, <2>3 DEF FlagTypes
  <1>5. QueueTypes
    BY DEF QueueTypes, JobTypes, PendingCount
  <1> QED BY <1>2, <1>3, <1>4, <1>5

\* The symbol index stays within the second of each numerology.
LEMMA PollSymbolIndex ==
    ASSUME StepInv, CounterTypes, PollSymbol
    PROVE  /\ symIdx' = [mu \in Mus |-> Coarser(mu, symIdx[TimerMu] + 1)]
           /\ symIdx[TimerMu] + 1 \in 0..(SymsPerSecond(TimerMu) - 1)
           /\ symIdx[TimerMu] = lastSym
  <1> USE SecondNotEmpty DEF StepInv
  <1>1. /\ pc = "poll" /\ clkSec = lastSec /\ Lag > 0
        /\ symIdx' = [mu \in Mus |-> Coarser(mu, NextSymIdx)]
    BY DEF PollSymbol, InStep
  <1>2. lastSym + 1 <= clkSym
    BY <1>1 DEF Lag, ClockTypes
  <1>3. symIdx[TimerMu] = lastSym
    BY <1>1 DEF InStep
  <1>4. NextSymIdx = symIdx[TimerMu] + 1
    BY <1>2, <1>3 DEF NextSymIdx, ClockTypes
  <1> QED BY <1>1, <1>2, <1>3, <1>4 DEF ClockTypes

LEMMA StartSlotTypes ==
    ASSUME CounterTypes, NEW mu \in Mus, StartSlot(mu)
    PROVE  /\ tti' \in [Mus -> Nat] /\ timerCtx' \in [Mus -> [0..1 -> Nat]]
           /\ \A nu \in Mus : tti'[nu] < MaxSlot(nu)
  <1>1. MaxSlot(mu) \in Nat \ {0}
    BY FrameSizes
  <1> DEFINE t == IF tti[mu] + 1 >= MaxSlot(mu) THEN 0 ELSE tti[mu] + 1
             c == [i \in 0..1 |-> IF i = 1 - (tti[mu] % 2) THEN tti[mu] ELSE tti[mu] + 1]
  <1>2. tti' = [tti EXCEPT ![mu] = t] /\ timerCtx' = [timerCtx EXCEPT ![mu] = c]
    BY DEF StartSlot
  <1>3. tti[mu] \in Nat
    BY DEF CounterTypes
  <1>4. t \in Nat /\ t < MaxSlot(mu) /\ c \in [0..1 -> Nat]
    BY <1>1, <1>3
  <1> HIDE DEF t, c
  <1> QED BY <1>2, <1>4 DEF CounterTypes

LEMMA CounterTypesNext ==
    ASSUME StepInv, CounterTypes, PlaceTypes, [Next]_vars
    PROVE  CounterTypes'
  <1> USE FrameSizes, TimingAssumption
  <1>1. CASE UNCHANGED <<sfnSecStart, symIdx, sym, tti, ttiBase, timerCtx, deadlineTti>>
    BY <1>1 DEF CounterTypes
  <1>2. CASE PollNewSecond
    <2>1. /\ sfnSecStart' = (clkSec * FramesPerSecond) % (MaxFrame + 1)
          /\ sym' = [mu \in Mus |-> 0] /\ symIdx' = [mu \in Mus |-> 0]
          /\ tti' = [mu \in Mus |-> 0] /\ ttiBase' = 0
          /\ timerCtx' = timerCtx /\ deadlineTti' = deadlineTti
      BY <1>2 DEF PollNewSecond, SfnAtStartOf
    <2>2. clkSec * FramesPerSecond \in Int
      BY DEF StepInv, ClockTypes
    <2>3. sfnSecStart' \in 0..MaxFrame
      <3>1. MaxFrame \in Nat /\ MaxFrame + 1 \in Nat \ {0}
        OBVIOUS
      <3>2. sfnSecStart' \in 0..((MaxFrame + 1) - 1)
        BY <2>1, <2>2, <3>1, Division
      <3> QED BY <3>1, <3>2
    <2>4. \A mu \in Mus : 0 < SymsPerSecond(mu) /\ 0 < MaxSlot(mu)
      BY SizesPositive
    <2>5. 0 \in 0..(N - 1) /\ 0 \in 0..(MaxSlot(TimerMu) - 1)
      BY FrameSizes
    <2> QED BY <2>1, <2>3, <2>4, <2>5 DEF CounterTypes
  <1>3. CASE PollSymbol
    <2> DEFINE k == symIdx[TimerMu] + 1
    <2>1. symIdx' = [mu \in Mus |-> Coarser(mu, k)] /\ k \in 0..(SymsPerSecond(TimerMu) - 1)
      BY <1>3, PollSymbolIndex
    <2> HIDE DEF k
    <2>2. \A mu \in Mus : Coarser(mu, k) \in 0..(SymsPerSecond(mu) - 1)
      BY <2>1, CoarserInSecond
    <2>3. UNCHANGED <<sfnSecStart, sym, tti, ttiBase, timerCtx, deadlineTti>>
      BY <1>3 DEF PollSymbol, slotVars
    <2> QED BY <2>1, <2>2, <2>3 DEF CounterTypes
  <1>4. CASE Dispatch
    <2>1. UNCHANGED <<sfnSecStart, symIdx, sym, tti, timerCtx, deadlineTti>>
      BY <1>4 DEF Dispatch, tickVars
    <2>2. ttiBase' \in 0..(MaxSlot(TimerMu) - 1)
      <3>1. MaxSlot(TimerMu) \in Nat \ {0} /\ ttiBase \in 0..(MaxSlot(TimerMu) - 1)
        BY FrameSizes DEF CounterTypes
      <3>2. \/ ttiBase' = ttiBase
            \/ ttiBase' = IF ttiBase + 1 >= MaxSlot(TimerMu) THEN 0 ELSE ttiBase + 1
        BY <1>4 DEF Dispatch
      <3> QED BY <3>1, <3>2
    <2> QED BY <2>1, <2>2 DEF CounterTypes
  <1>5. ASSUME NEW mu \in Mus, SymOtaCb(mu) PROVE CounterTypes'
    <2>1. UNCHANGED <<sfnSecStart, symIdx, sym, ttiBase>>
      BY <1>5 DEF SymOtaCb, tickVars
    <2>2. /\ tti' \in [Mus -> Nat] /\ timerCtx' \in [Mus -> [0..1 -> Nat]]
          /\ \A nu \in Mus : tti'[nu] < MaxSlot(nu)
      BY <1>5, StartSlotTypes DEF SymOtaCb, CounterTypes
    <2>3. deadlineTti' \in [Mus -> Nat]
      <3> DEFINE v == SlotOfSfnPeriod(mu, OtaSlot(mu), sfnSecStart)
      <3>1. OtaSlot(mu) \in Nat /\ sfnSecStart \in Nat
        BY QuotientOfNat DEF OtaSlot, CounterTypes
      <3>2. v \in Nat
        BY <3>1, SlotNumberIsNat
      <3>3. \/ deadlineTti' = deadlineTti
            \/ deadlineTti' = [deadlineTti EXCEPT ![mu] = deadlineTti[mu]]
            \/ deadlineTti' = [deadlineTti EXCEPT ![mu] = v]
        BY <1>5 DEF SymOtaCb, ArmSymbol
      <3> HIDE DEF v
      <3> QED BY <3>2, <3>3 DEF CounterTypes
    <2> QED BY <2>1, <2>2, <2>3 DEF CounterTypes
  <1>6. CASE AdvanceSyms
    <2>1. UNCHANGED <<sfnSecStart, symIdx, tti, ttiBase, timerCtx, deadlineTti>>
      BY <1>6 DEF AdvanceSyms, tickVars
    <2>2. sym' = [mu \in Mus |-> IF Due(mu) THEN (sym[mu] + 1) % N ELSE sym[mu]]
      BY <1>6 DEF AdvanceSyms
    <2>3. ASSUME NEW mu \in Mus PROVE (sym[mu] + 1) % N \in 0..(N - 1)
      <3>1. sym[mu] + 1 \in Int /\ N \in Nat \ {0}
        BY DEF CounterTypes
      <3> QED BY <3>1, Division
    <2> QED BY <2>1, <2>2, <2>3 DEF CounterTypes
  <1>7. CASE TimingStart
    <2>1. /\ sym' = [mu \in Mus |-> 0] /\ symIdx' = [mu \in Mus |-> 0]
          /\ tti' = [mu \in Mus |-> 0] /\ ttiBase' = 0
          /\ UNCHANGED <<sfnSecStart, timerCtx, deadlineTti>>
      BY <1>7 DEF TimingStart
    <2>2. \A mu \in Mus : 0 < SymsPerSecond(mu) /\ 0 < MaxSlot(mu)
      BY SizesPositive
    <2>3. 0 \in 0..(N - 1) /\ 0 \in 0..(MaxSlot(TimerMu) - 1)
      BY FrameSizes
    <2> QED BY <2>1, <2>2, <2>3 DEF CounterTypes
  <1>8. \/ UNCHANGED <<sfnSecStart, symIdx, sym, tti, ttiBase, timerCtx, deadlineTti>>
        \/ PollNewSecond \/ PollSymbol \/ Dispatch \/ (\E mu \in Mus : SymOtaCb(mu))
        \/ AdvanceSyms \/ TimingStart
    BY DEF Next, vars, tickVars, slotVars, ClockAdvance, DispatchIdle, TtiToPhy, TxCpDl,
           RxUlDeadline, XranStart, XranStop, RegTtiCb, ActivateCc, DeactivateCc,
           TimingStop
  <1> QED BY <1>1, <1>2, <1>3, <1>4, <1>5, <1>6, <1>7, <1>8

LEMMA PlaceTypesNext ==
    ASSUME PlaceTypes, [Next]_vars
    PROVE  PlaceTypes'
  <1>0. MaxCalls \in Nat
    BY TimingAssumption
  <1>. USE DEF PlaceTypes, Loop, lifeVars, threadVars
  <1>1. CASE UNCHANGED vars
    BY <1>1 DEF vars
  <1>2. CASE ClockAdvance \/ PollNewSecond \/ PollSymbol
    BY <1>2 DEF ClockAdvance, PollNewSecond, PollSymbol
  <1>3. CASE Dispatch \/ DispatchIdle \/ AdvanceSyms
    BY <1>3 DEF Dispatch, DispatchIdle, AdvanceSyms
  <1>4. CASE \E mu \in Mus : SymOtaCb(mu)
    BY <1>4 DEF SymOtaCb
  <1>5. CASE TtiToPhy \/ TxCpDl \/ RxUlDeadline
    BY <1>5 DEF TtiToPhy, TxCpDl, RxUlDeadline
  <1>6. Call => calls' \in 0..MaxCalls
    BY <1>0 DEF Call
  <1>7. CASE XranStart \/ XranStop \/ RegTtiCb
    BY <1>6, <1>7 DEF XranStart, XranStop, RegTtiCb
  <1>8. CASE ActivateCc \/ DeactivateCc
    BY <1>6, <1>8 DEF ActivateCc, DeactivateCc
  <1>9. CASE TimingStop \/ TimingStart
    BY <1>6, <1>9 DEF TimingStop, TimingStart
  <1> QED BY <1>1, <1>2, <1>3, <1>4, <1>5, <1>7, <1>8, <1>9 DEF Next

LEMMA FlagTypesNext ==
    ASSUME FlagTypes, [Next]_vars
    PROVE  FlagTypes'
  <1>1. CASE UNCHANGED <<ruOpen, aligned, phyVars>>
    BY <1>1 DEF FlagTypes, phyVars
  <1>2. CASE PollNewSecond
    BY <1>2, Zenon DEF PollNewSecond, FlagTypes, lifeVars, phyVars
  <1>3. CASE TtiToPhy
    <2>1. served' \in 0..(MaxSlot(TimerMu) - 1)
      <3> DEFINE s == MaxSlot(TimerMu)
      <3>1. s \in Nat \ {0} /\ served + 1 \in Int
        BY FrameSizes, TimingAssumption DEF FlagTypes
      <3>2. (served + 1) % s \in 0..(s - 1)
        <4> HIDE DEF s
        <4> QED BY <3>1, Division
      <3>3. served' = 0 \/ served' = (served + 1) % s
        BY <1>3 DEF TtiToPhy
      <3> QED BY <3>2, <3>3, SlotZero
    <2>2. skipTti' \in Nat
      BY <1>3 DEF TtiToPhy, FlagTypes
    <2>3. {ruOpen, ttiCb, firstCall, aligned, disturbed}' \subseteq BOOLEAN
      BY <1>3, Zenon DEF TtiToPhy, FlagTypes, lifeVars
    <2> QED BY <2>1, <2>2, <2>3 DEF FlagTypes
  <1>4. CASE XranStop
    BY <1>4, SlotZero, Zenon DEF XranStop, FlagTypes
  <1>5. CASE RegTtiCb
    BY <1>5, TimingAssumption, Zenon DEF RegTtiCb, FlagTypes
  <1>6. CASE DeactivateCc
    BY <1>6, Zenon DEF DeactivateCc, FlagTypes, phyVars
  <1>7. CASE TimingStart
    BY <1>7, SlotZero, Zenon DEF TimingStart, FlagTypes
  <1>8. \/ UNCHANGED <<ruOpen, aligned, phyVars>>
        \/ PollNewSecond \/ TtiToPhy \/ XranStop \/ RegTtiCb \/ DeactivateCc \/ TimingStart
    BY DEF Next, vars, lifeVars, ClockAdvance, PollSymbol, Dispatch, DispatchIdle, SymOtaCb,
           AdvanceSyms, TxCpDl, RxUlDeadline, XranStart, ActivateCc, TimingStop
  <1> QED BY <1>1, <1>2, <1>3, <1>4, <1>5, <1>6, <1>7, <1>8

LEMMA ArmedCounted ==
    ASSUME NEW mu \in Mus, ArmedDeadlines(mu) # {}
    PROVE  Cardinality(ArmedDeadlines(mu)) \in Nat /\ Cardinality(ArmedDeadlines(mu)) >= 1
  <1>1. IsFiniteSet(DeadlineKinds)
    <2>1. IsFiniteSet({"full"} \cup {"quarter"})
      BY FS_Singleton, FS_Union, Zenon
    <2>2. IsFiniteSet({"half"} \cup {"threeQuarters"})
      BY FS_Singleton, FS_Union, Zenon
    <2>3. IsFiniteSet(({"full"} \cup {"quarter"}) \cup ({"half"} \cup {"threeQuarters"}))
      BY <2>1, <2>2, FS_Union, Zenon
    <2>4. DeadlineKinds = ({"full"} \cup {"quarter"}) \cup ({"half"} \cup {"threeQuarters"})
      BY DEF DeadlineKinds
    <2> QED BY <2>3, <2>4, Zenon
  <1>2. ArmedDeadlines(mu) \subseteq DeadlineKinds
    BY DEF ArmedDeadlines
  <1>3. IsFiniteSet(ArmedDeadlines(mu))
    BY <1>1, <1>2, FS_Subset
  <1>4. Cardinality(ArmedDeadlines(mu)) \in Nat /\ Cardinality(ArmedDeadlines(mu)) # 0
    BY <1>3, FS_CardinalityType, FS_EmptySet
  <1> QED BY <1>4

LEMMA NoneArmed ==
    ASSUME NEW mu \in Mus, ArmedDeadlines(mu) = {}
    PROVE  Cardinality(ArmedDeadlines(mu)) = 0
  BY FS_EmptySet

LEMMA QueueTypesNext ==
    ASSUME StepInv, CounterTypes, PlaceTypes, QueueTypes, [Next]_vars
    PROVE  QueueTypes'
  <1> DEFINE J == JobSet
  <1>1. /\ jobs \in [JobTypes -> Seq(J)] /\ PendingCount <= MaxPending /\ MaxPending \in Nat
        /\ JobTypes = {"TTI", "CP_DL", "DEADLINE"}
    BY TimingAssumption DEF QueueTypes, JobTypes
  <1>2. \A t \in JobTypes : Len(jobs[t]) \in Nat
    BY <1>1
  <1>3. ASSUME NEW kind \in DeadlineKinds \cup {"tti", "cpDl"}, NEW mu \in Mus
        PROVE  Job(kind, mu) \in J
    BY <1>3 DEF Job, JobSet, StepInv, ClockTypes
  <1>4. \A u \in Seq(J), j \in J : Append(u, j) \in Seq(J) /\ Len(Append(u, j)) = Len(u) + 1
    OBVIOUS
  <1>5. \A u \in Seq(J) : u # <<>> => Tail(u) \in Seq(J) /\ Len(Tail(u)) = Len(u) - 1
    OBVIOUS
  <1> HIDE DEF J
  <1>6. CASE jobs' = jobs
    BY <1>6 DEF QueueTypes, PendingCount
  <1>7. CASE Dispatch
    <2>1. CASE jobs' # jobs
      <3>1. /\ PendingCount < MaxPending
            /\ jobs' = [jobs EXCEPT !["TTI"] = Append(jobs["TTI"], Job("tti", TimerMu))]
        BY <1>7, <2>1 DEF Dispatch
      <3>2. Job("tti", TimerMu) \in J
        BY <1>3, TimingAssumption
      <3>3. /\ jobs' \in [JobTypes -> Seq(J)]
            /\ Len(jobs'["TTI"]) = Len(jobs["TTI"]) + 1
            /\ Len(jobs'["CP_DL"]) = Len(jobs["CP_DL"])
            /\ Len(jobs'["DEADLINE"]) = Len(jobs["DEADLINE"])
        BY <1>1, <1>4, <3>1, <3>2
      <3> QED BY <1>1, <1>2, <3>1, <3>3 DEF PendingCount, QueueTypes, J
    <2> QED BY <1>6, <2>1
  <1>8. ASSUME NEW mu \in Mus, SymOtaCb(mu) PROVE QueueTypes'
    <2> DEFINE A == ArmedDeadlines(mu)
               k == CHOOSE x \in A : TRUE
               c == IF OtaSymbol(mu) \in DlCpSyms THEN Append(jobs["CP_DL"], Job("cpDl", mu))
                    ELSE jobs["CP_DL"]
               d == IF A = {} THEN jobs["DEADLINE"]
                    ELSE Append(jobs["DEADLINE"], Job(k, mu))
    <2>1. CASE jobs' # jobs
      <3>1. /\ PendingCount + Cardinality(A) + (IF OtaSymbol(mu) \in DlCpSyms THEN 1 ELSE 0)
                 <= MaxPending
            /\ jobs' = [jobs EXCEPT !["CP_DL"] = c, !["DEADLINE"] = d]
        BY <1>8, <2>1 DEF SymOtaCb, ArmSymbol
      <3>2. c \in Seq(J) /\ Len(c) = Len(jobs["CP_DL"])
                                     + (IF OtaSymbol(mu) \in DlCpSyms THEN 1 ELSE 0)
        <4>1. Job("cpDl", mu) \in J /\ jobs["CP_DL"] \in Seq(J) /\ Len(jobs["CP_DL"]) \in Nat
          <5>1. "CP_DL" \in JobTypes /\ "cpDl" \in DeadlineKinds \cup {"tti", "cpDl"}
            BY <1>1
          <5>2. Job("cpDl", mu) \in J
            BY <1>3, <5>1
          <5> HIDE DEF c, d, k, A
          <5> QED BY <1>1, <1>2, <5>1, <5>2
        <4>2. /\ Append(jobs["CP_DL"], Job("cpDl", mu)) \in Seq(J)
              /\ Len(Append(jobs["CP_DL"], Job("cpDl", mu))) = Len(jobs["CP_DL"]) + 1
          BY <1>4, <4>1
        <4>3. CASE OtaSymbol(mu) \in DlCpSyms
          BY <4>1, <4>2, <4>3
        <4>4. CASE OtaSymbol(mu) \notin DlCpSyms
          BY <4>1, <4>2, <4>4
        <4> QED BY <4>3, <4>4
      <3>3. d \in Seq(J) /\ Len(d) \in Nat /\ Cardinality(A) \in Nat
              /\ Len(d) <= Len(jobs["DEADLINE"]) + Cardinality(A)
        <4>1. CASE A = {}
          <5>1. Cardinality(A) = 0
            BY <4>1, NoneArmed
          <5>2. d = jobs["DEADLINE"]
            BY <4>1
          <5> HIDE DEF k, d, A
          <5> QED BY <1>1, <1>2, <5>1, <5>2
        <4>2. CASE A # {}
          <5>1. k \in DeadlineKinds
            BY <4>2 DEF ArmedDeadlines
          <5>2. Job(k, mu) \in J
            BY <1>3, <5>1
          <5>3. Cardinality(A) \in Nat /\ Cardinality(A) >= 1
            BY <4>2, ArmedCounted
          <5>4. d = Append(jobs["DEADLINE"], Job(k, mu))
            BY <4>2
          <5> HIDE DEF k, d, A
          <5> QED BY <1>1, <1>2, <1>4, <5>2, <5>3, <5>4
        <4> QED BY <4>1, <4>2
      <3> HIDE DEF c, d, A
      <3>4. /\ jobs' \in [JobTypes -> Seq(J)] /\ jobs'["TTI"] = jobs["TTI"]
            /\ jobs'["CP_DL"] = c /\ jobs'["DEADLINE"] = d
        BY <1>1, <3>1, <3>2, <3>3
      <3>5. PendingCount' = Len(jobs["TTI"]) + Len(c) + Len(d)
        BY <3>4 DEF PendingCount
      <3>6. PendingCount' <= MaxPending
        BY <1>1, <1>2, <3>1, <3>2, <3>3, <3>5 DEF PendingCount
      <3> QED BY <3>4, <3>6 DEF QueueTypes, J
    <2> QED BY <1>6, <2>1
  <1>9. ASSUME NEW t \in JobTypes, Take(t) PROVE QueueTypes'
    <2>1. jobs[t] # <<>> /\ jobs' = [jobs EXCEPT ![t] = Tail(jobs[t])]
      BY <1>9 DEF Take
    <2>2. /\ jobs' \in [JobTypes -> Seq(J)]
          /\ \A x \in JobTypes : Len(jobs'[x]) \in Nat /\ Len(jobs'[x]) <= Len(jobs[x])
      BY <1>1, <1>2, <1>5, <2>1
    <2> QED BY <1>1, <1>2, <2>2 DEF PendingCount, QueueTypes, J
  <1>10. jobs' = jobs \/ Dispatch \/ (\E mu \in Mus : SymOtaCb(mu))
           \/ (\E t \in JobTypes : Take(t))
    BY DEF Next, vars, ClockAdvance, PollNewSecond, PollSymbol, DispatchIdle, AdvanceSyms,
           TtiToPhy, TxCpDl, RxUlDeadline, XranStart, XranStop, RegTtiCb, ActivateCc,
           DeactivateCc, TimingStop, TimingStart, JobTypes
  <1> QED BY <1>6, <1>7, <1>8, <1>9, <1>10

TypeInv == StepInv /\ CounterTypes /\ PlaceTypes /\ FlagTypes /\ QueueTypes

LEMMA TypeInvariant == Spec => []TypeInv
  <1>1. Init => TypeInv
    BY StepInvInit, TypePartsInit DEF TypeInv
  <1>2. TypeInv /\ [Next]_vars => TypeInv'
    BY StepInvNext, CounterTypesNext, PlaceTypesNext, FlagTypesNext, QueueTypesNext DEF TypeInv
  <1> QED BY <1>1, <1>2, PTL DEF Spec

\* Every counter of the timing source stays in its range: the symbol index of
\* each numerology below its symbols of a second, the slot counters below the
\* slots of an SFN period; and no more callbacks wait than the bound allows.
THEOREM TimingTypes == Spec => []TypeOK
  <1>1. TypeInv => TypeOK
    BY TypeParts DEF TypeInv, StepInv
  <1> QED BY <1>1, TypeInvariant, PTL

(***************************************************************************)
(* The slot counters.  Between one reading of the clock and the next a     *)
(* numerology is done with its current symbol, or has it due (ToDo), or    *)
(* has it due and has run sym_ota_cb for it (Counted).                     *)
(***************************************************************************)
Done(mu) ==
    sym[mu] = (OtaSymbol(mu) + 1) % N /\ tti[mu] = (OtaSlot(mu) + 1) % MaxSlot(mu)

ToDo(mu) ==
    /\ sym[mu] = OtaSymbol(mu)
    /\ tti[mu] = (OtaSlot(mu) + (IF OtaSymbol(mu) = 0 THEN 0 ELSE 1)) % MaxSlot(mu)

Counted(mu) ==
    sym[mu] = OtaSymbol(mu) /\ tti[mu] = (OtaSlot(mu) + 1) % MaxSlot(mu)

Waiting(mu) == (pc = "dispatch" /\ Due(mu)) \/ (pc = "symbols" /\ mu \in todo)

Place(mu) ==
    \/ Waiting(mu) /\ ToDo(mu)
    \/ ~Waiting(mu) /\ Done(mu)
    \/ ~Waiting(mu) /\ pc = "symbols" /\ Counted(mu)

BeingServed == ifState = "RUNNING" /\ activeCcs > 0 /\ ruOpen

PlaceInv == aligned => BeingServed /\ \A mu \in Mus : Place(mu)

(***************************************************************************)
(* The callbacks that have been armed.                                     *)
(***************************************************************************)
\* The entry of the tti context that tx_cp_dl_cb reads is the slot counter's,
\* once symbol 0 of the slot has been served.
CtxInv ==
    aligned => \A mu \in Mus :
        \/ Waiting(mu) /\ OtaSymbol(mu) = 0
        \/ timerCtx[mu][1 - (tti[mu] % 2)] % MaxSlot(mu) = tti[mu]

SfnInv == aligned => sfnSecStart = SfnAtStartOf(currentSecond)

\* A callback waits at most into the second second after its own.
Recent(job) == (lastSec - job.sec) % SecondsCycle \in 0..2

\* The callback was armed by a symbol that is served already.
Behind(job) ==
    aligned /\ job.sec = lastSec =>
        /\ Coarser(job.mu, job.sym) <= symIdx[job.mu]
        /\ Waiting(job.mu) => Coarser(job.mu, job.sym) < symIdx[job.mu]

\* A deadline callback was armed on the symbol of its kind, and while its slot
\* lasts the slot it was armed in is kept for it.
Reportable(job) ==
    /\ job.kind \in DeadlineKinds
    /\ Coarser(job.mu, job.sym) % N = DeadlineSym(job.kind, job.mu)
    /\ aligned /\ InItsSlot(job) =>
           deadlineTti[job.mu] = SlotOfSfnPeriod(job.mu, OtaSlot(job.mu), sfnSecStart)

Armed(t, job) == \E i \in DOMAIN jobs[t] : jobs[t][i] = job

JobInv ==
    \A job \in JobSet :
        /\ \A t \in JobTypes : Armed(t, job) => Recent(job)
        /\ Armed("CP_DL", job) => Behind(job)
        /\ Armed("DEADLINE", job) => Behind(job) /\ Reportable(job)

LEMMA NextQuotient ==
    ASSUME NEW a \in Nat, NEW n \in Nat \ {0}
    PROVE  \/ (a + 1) \div n = a \div n /\ (a + 1) % n = (a % n) + 1
           \/ /\ (a + 1) \div n = (a \div n) + 1 /\ (a + 1) % n = 0
              /\ (a % n) + 1 = n
  <1> DEFINE q == a \div n
             r == a % n
  <1>1. q \in Nat /\ r \in 0..(n - 1) /\ a = n * q + r
    OBVIOUS
  <1> HIDE DEF q, r
  <1>2. CASE r + 1 < n
    <2>1. a + 1 = n * q + (r + 1) /\ r + 1 \in 0..(n - 1)
      BY <1>1, <1>2
    <2>2. (a + 1) \div n = q /\ (a + 1) % n = r + 1
      BY <1>1, <2>1, DivisionUnique
    <2> QED BY <2>2 DEF q, r
  <1>3. CASE ~(r + 1 < n)
    <2>1. r + 1 = n
      BY <1>1, <1>3
    <2>2. a + 1 = n * (q + 1) + 0
      BY <1>1, <2>1
    <2>3. q + 1 \in Int /\ 0 \in 0..(n - 1)
      BY <1>1
    <2>4. (a + 1) \div n = q + 1 /\ (a + 1) % n = 0
      BY <2>2, <2>3, DivisionUnique
    <2> QED BY <2>1, <2>4 DEF q, r
  <1> QED BY <1>2, <1>3

\* A remainder counts up to its modulus and starts again, as the slot counters
\* do by comparison.
LEMMA CountModulo ==
    ASSUME NEW a \in Nat, NEW n \in Nat \ {0}
    PROVE  (IF (a % n) + 1 >= n THEN 0 ELSE (a % n) + 1) = (a + 1) % n
  <1> DEFINE r == a % n
             s == (a + 1) % n
  <1>1. r \in 0..(n - 1) /\ s \in 0..(n - 1)
    OBVIOUS
  <1>2. s = r + 1 \/ (s = 0 /\ r + 1 = n)
    BY NextQuotient
  <1> HIDE DEF r, s
  <1>3. (IF r + 1 >= n THEN 0 ELSE r + 1) = s
    BY <1>1, <1>2
  <1> QED BY <1>3 DEF r, s

LEMMA NextSymbolOfSlot ==
    ASSUME NEW c \in Nat
    PROVE  /\ (c % N) \in 0..(N - 1) /\ (c \div N) \in Nat
           /\ ((c % N) + 1) % N = (c + 1) % N
           /\ (c % N) # (c + 1) % N
           /\ (c + 1) \div N = (c \div N) + (IF (c + 1) % N = 0 THEN 1 ELSE 0)
  <1>1. N \in Nat \ {0} /\ N > 4
    BY TimingAssumption
  <1> DEFINE q == c \div N
             r == c % N
  <1>2. q \in Nat /\ r \in 0..(N - 1)
    <2>1. q \in Nat
      BY <1>1, QuotientOfNat
    <2>2. r \in 0..(N - 1)
      BY <1>1, Division
    <2> QED BY <2>1, <2>2
  <1> DEFINE q1 == (c + 1) \div N
             r1 == (c + 1) % N
  <1>3. \/ q1 = q /\ r1 = r + 1
        \/ q1 = q + 1 /\ r1 = 0 /\ r + 1 = N
    BY <1>1, NextQuotient
  <1>4. r1 \in 0..(N - 1)
    BY <1>1, Division
  <1> HIDE DEF q, r, q1, r1
  <1>5. (r + 1) % N = r1
    BY <1>1, <1>2, <1>3, <1>4
  <1>6. r # r1 /\ q1 = q + (IF r1 = 0 THEN 1 ELSE 0)
    BY <1>1, <1>2, <1>3
  <1> QED BY <1>2, <1>5, <1>6 DEF q, r, q1, r1

\* With the symbol of the highest numerology each coarser one stays where it
\* is or moves on by one.
LEMMA PollSymbolCoarse ==
    ASSUME StepInv, CounterTypes, PollSymbol, NEW mu \in Mus
    PROVE  symIdx'[mu] = symIdx[mu] \/ symIdx'[mu] = symIdx[mu] + 1
  <1> DEFINE k == symIdx[TimerMu]
  <1>1. symIdx'[mu] = Coarser(mu, k + 1)
    BY PollSymbolIndex
  <1>2. symIdx[mu] = Coarser(mu, k)
    BY DEF StepInv, InStep
  <1>3. k \in Nat /\ SlotsPerSubframe(TimerMu - mu) \in Nat \ {0}
    BY FrameSizes, TimingAssumption DEF CounterTypes
  <1> DEFINE n == SlotsPerSubframe(TimerMu - mu)
  <1>4. symIdx'[mu] = (k + 1) \div n /\ symIdx[mu] = k \div n
    BY <1>1, <1>2 DEF Coarser
  <1> HIDE DEF k, n
  <1>5. (k + 1) \div n = k \div n \/ (k + 1) \div n = (k \div n) + 1
    BY <1>3, NextQuotient DEF n
  <1> QED BY <1>4, <1>5

\* Numbers of the slot and the symbol that a numerology stands at.
LEMMA OtaNumbers ==
    ASSUME CounterTypes, NEW mu \in Mus
    PROVE  /\ symIdx[mu] \in Nat /\ OtaSlot(mu) \in Nat /\ OtaSymbol(mu) \in 0..(N - 1)
           /\ OtaSymbol(mu) # (OtaSymbol(mu) + 1) % N
  <1>1. symIdx[mu] \in Nat
    BY DEF CounterTypes
  <1> QED BY <1>1, NextSymbolOfSlot DEF OtaSlot, OtaSymbol

LEMMA PlaceInvPollNewSecond ==
    ASSUME TypeInv, PlaceInv, PollNewSecond
    PROVE  PlaceInv'
  <1> SUFFICES ASSUME aligned' PROVE BeingServed' /\ \A mu \in Mus : Place(mu)'
    BY DEF PlaceInv
  <1>1. BeingServed'
    BY DEF PollNewSecond, BeingServed, lifeVars
  <1>2. ASSUME NEW mu \in Mus PROVE Place(mu)'
    <2>1. symIdx'[mu] = 0 /\ sym'[mu] = 0 /\ tti'[mu] = 0 /\ pc' = "dispatch"
      BY DEF PollNewSecond
    <2>2. N \in Nat \ {0} /\ MaxSlot(mu) \in Nat \ {0}
      BY FrameSizes, TimingAssumption
    <2>3. 0 % N = 0 /\ 0 \div N = 0 /\ 0 % MaxSlot(mu) = 0
      BY <2>2
    <2>4. OtaSymbol(mu)' = 0 /\ OtaSlot(mu)' = 0
      BY <2>1, <2>3 DEF OtaSymbol, OtaSlot
    <2> QED BY <2>1, <2>3, <2>4 DEF Place, Waiting, Due, ToDo
  <1> QED BY <1>1, <1>2

LEMMA PlaceInvPollSymbol ==
    ASSUME TypeInv, PlaceInv, PollSymbol
    PROVE  PlaceInv'
  <1> SUFFICES ASSUME aligned' PROVE BeingServed' /\ \A mu \in Mus : Place(mu)'
    BY DEF PlaceInv
  <1>1. /\ aligned /\ pc = "poll" /\ pc' = "dispatch"
        /\ sym' = sym /\ tti' = tti /\ UNCHANGED lifeVars
    BY DEF PollSymbol, slotVars
  <1>2. BeingServed'
    BY <1>1 DEF PlaceInv, BeingServed, lifeVars
  <1>3. ASSUME NEW mu \in Mus PROVE Place(mu)'
    <2> DEFINE c == symIdx[mu]
    <2>1. Done(mu)
      BY <1>1 DEF PlaceInv, Place, Waiting
    <2>2. c \in Nat /\ OtaSlot(mu) = c \div N /\ OtaSymbol(mu) = c % N
      BY DEF TypeInv, CounterTypes, OtaSlot, OtaSymbol
    <2>3. OtaSlot(mu)' = symIdx'[mu] \div N /\ OtaSymbol(mu)' = symIdx'[mu] % N
      BY DEF OtaSlot, OtaSymbol
    <2>4. CASE symIdx'[mu] = c
      <3>1. OtaSlot(mu)' = OtaSlot(mu) /\ OtaSymbol(mu)' = OtaSymbol(mu)
        BY <2>2, <2>3, <2>4
      <3>2. Done(mu)'
        BY <1>1, <2>1, <3>1 DEF Done
      <3>3. ~Waiting(mu)'
        BY <1>1, <2>1, <3>1, OtaNumbers DEF Done, Waiting, Due, TypeInv
      <3> QED BY <3>2, <3>3 DEF Place
    <2>5. CASE symIdx'[mu] = c + 1
      <3>1. /\ OtaSymbol(mu)' = (OtaSymbol(mu) + 1) % N
            /\ OtaSlot(mu) \in Nat
            /\ OtaSlot(mu)' = OtaSlot(mu) + (IF OtaSymbol(mu)' = 0 THEN 1 ELSE 0)
        <4> HIDE DEF c
        <4> QED BY <2>2, <2>3, <2>5, NextSymbolOfSlot
      <3>2. OtaSlot(mu)' + (IF OtaSymbol(mu)' = 0 THEN 0 ELSE 1) = OtaSlot(mu) + 1
        BY <3>1
      <3>3. ToDo(mu)' /\ Waiting(mu)'
        BY <1>1, <2>1, <3>1, <3>2 DEF Done, ToDo, Waiting, Due
      <3> QED BY <3>3 DEF Place
    <2>6. symIdx'[mu] = c \/ symIdx'[mu] = c + 1
      BY PollSymbolCoarse DEF TypeInv
    <2> QED BY <2>4, <2>5, <2>6
  <1> QED BY <1>2, <1>3

LEMMA PlaceInvDispatch ==
    ASSUME TypeInv, PlaceInv, Dispatch
    PROVE  PlaceInv'
  <1> SUFFICES ASSUME aligned' PROVE BeingServed' /\ \A mu \in Mus : Place(mu)'
    BY DEF PlaceInv
  <1>1. /\ aligned /\ pc = "dispatch" /\ pc' = "symbols"
        /\ UNCHANGED <<sym, tti, symIdx, lifeVars>>
    BY DEF Dispatch, tickVars
  <1>2. BeingServed
    BY <1>1 DEF PlaceInv
  <1>3. todo' = {mu \in Mus : Due(mu)}
    BY <1>2 DEF Dispatch, BeingServed
  <1>4. ASSUME NEW mu \in Mus PROVE Place(mu)'
    BY <1>1, <1>3 DEF PlaceInv, Place, Waiting, Due, ToDo, Done, Counted, OtaSlot, OtaSymbol
  <1> QED BY <1>1, <1>2, <1>4 DEF BeingServed, lifeVars

\* sym_ota_cb counts the slot whose symbol 0 it serves.
LEMMA SlotCounted ==
    ASSUME TypeInv, NEW mu \in Mus, SymOtaCb(mu), activeCcs > 0, ToDo(mu)
    PROVE  /\ tti'[mu] = (OtaSlot(mu) + 1) % MaxSlot(mu)
           /\ \A nu \in Mus \ {mu} : tti'[nu] = tti[nu]
  <1>1. tti \in [Mus -> Nat] /\ OtaSlot(mu) \in Nat /\ MaxSlot(mu) \in Nat \ {0}
    BY OtaNumbers, FrameSizes DEF TypeInv, CounterTypes
  <1>2. activeCcs # 0
    BY DEF TypeInv, PlaceTypes
  <1>3. CASE OtaSymbol(mu) = 0
    <2>1. tti' = [tti EXCEPT ![mu] = IF tti[mu] + 1 >= MaxSlot(mu) THEN 0 ELSE tti[mu] + 1]
      BY <1>2, <1>3 DEF SymOtaCb, StartSlot
    <2>2. tti[mu] = OtaSlot(mu) % MaxSlot(mu)
      BY <1>1, <1>3 DEF ToDo
    <2>3. tti'[mu] = (OtaSlot(mu) + 1) % MaxSlot(mu)
      BY <1>1, <2>1, <2>2, CountModulo
    <2> QED BY <1>1, <2>1, <2>3
  <1>4. CASE OtaSymbol(mu) # 0
    BY <1>2, <1>4 DEF SymOtaCb, ToDo
  <1> QED BY <1>3, <1>4

LEMMA PlaceInvSymOtaCb ==
    ASSUME TypeInv, PlaceInv, NEW mu \in Mus, SymOtaCb(mu)
    PROVE  PlaceInv'
  <1> SUFFICES ASSUME aligned' PROVE BeingServed' /\ \A nu \in Mus : Place(nu)'
    BY DEF PlaceInv
  <1>1. /\ aligned /\ pc = "symbols" /\ pc' = "symbols" /\ mu \in todo /\ todo' = todo \ {mu}
        /\ UNCHANGED <<sym, symIdx, lifeVars>>
    BY DEF SymOtaCb, tickVars
  <1>2. BeingServed
    BY <1>1 DEF PlaceInv
  <1>3. ToDo(mu)
    BY <1>1 DEF PlaceInv, Place, Waiting
  <1>4. /\ tti'[mu] = (OtaSlot(mu) + 1) % MaxSlot(mu)
        /\ \A nu \in Mus \ {mu} : tti'[nu] = tti[nu]
    BY <1>2, <1>3, SlotCounted DEF BeingServed
  <1>5. ASSUME NEW nu \in Mus PROVE Place(nu)'
    <2>1. CASE nu = mu
      BY <1>1, <1>3, <1>4, <2>1 DEF Place, Waiting, Counted, ToDo, OtaSlot, OtaSymbol
    <2>2. CASE nu # mu
      BY <1>1, <1>4, <2>2 DEF PlaceInv, Place, Waiting, Counted, ToDo, Done, OtaSlot, OtaSymbol
    <2> QED BY <2>1, <2>2
  <1> QED BY <1>1, <1>2, <1>5 DEF BeingServed, lifeVars

LEMMA PlaceInvAdvanceSyms ==
    ASSUME TypeInv, PlaceInv, AdvanceSyms
    PROVE  PlaceInv'
  <1> SUFFICES ASSUME aligned' PROVE BeingServed' /\ \A mu \in Mus : Place(mu)'
    BY DEF PlaceInv
  <1>1. /\ aligned /\ pc = "symbols" /\ pc' \in {"poll", "exit"} /\ todo = {}
        /\ UNCHANGED <<tti, symIdx, lifeVars>>
        /\ sym' = [mu \in Mus |-> IF Due(mu) THEN (sym[mu] + 1) % N ELSE sym[mu]]
    BY DEF AdvanceSyms, tickVars, Loop
  <1>2. BeingServed
    BY <1>1 DEF PlaceInv
  <1>3. ASSUME NEW mu \in Mus PROVE Place(mu)'
    <2>1. ~Waiting(mu) /\ ~Waiting(mu)' /\ (Done(mu) \/ Counted(mu))
      BY <1>1 DEF PlaceInv, Place, Waiting
    <2>2. OtaSlot(mu)' = OtaSlot(mu) /\ OtaSymbol(mu)' = OtaSymbol(mu)
      BY <1>1 DEF OtaSlot, OtaSymbol
    <2>3. Done(mu) => ~Due(mu)
      BY OtaNumbers DEF Done, Due, TypeInv
    <2>4. Done(mu)'
      BY <1>1, <2>1, <2>2, <2>3 DEF Done, Counted, Due
    <2> QED BY <2>1, <2>4 DEF Place
  <1> QED BY <1>1, <1>2, <1>3 DEF BeingServed, lifeVars

LEMMA PlaceInvNext == TypeInv /\ PlaceInv /\ [Next]_vars => PlaceInv'
  <1> SUFFICES ASSUME TypeInv, PlaceInv, [Next]_vars PROVE PlaceInv'
    OBVIOUS
  <1>1. CASE UNCHANGED <<sym, tti, symIdx, pc, todo, aligned, ifState, activeCcs, ruOpen>>
    <2>1. \A mu \in Mus : Place(mu)' <=> Place(mu)
      BY <1>1 DEF Place, Waiting, Due, ToDo, Done, Counted, OtaSlot, OtaSymbol
    <2> QED BY <1>1, <2>1 DEF PlaceInv, BeingServed
  <1>2. CASE DispatchIdle
    BY <1>2 DEF DispatchIdle, PlaceInv, BeingServed
  <1>3. CASE XranStart
    <2>1. /\ UNCHANGED <<sym, tti, symIdx, pc, todo, aligned, activeCcs, ruOpen>>
          /\ ifState = "RUNNING" => ifState' = "RUNNING"
      BY <1>3 DEF XranStart, slotVars, tickVars, threadVars
    <2>2. \A mu \in Mus : Place(mu)' <=> Place(mu)
      BY <2>1 DEF Place, Waiting, Due, ToDo, Done, Counted, OtaSlot, OtaSymbol
    <2> QED BY <2>1, <2>2 DEF PlaceInv, BeingServed
  <1>4. CASE ActivateCc
    BY <1>4 DEF ActivateCc, PlaceInv, BeingServed
  <1>5. CASE XranStop \/ DeactivateCc \/ TimingStart
    BY <1>5 DEF XranStop, DeactivateCc, TimingStart, PlaceInv
  <1>6. \/ UNCHANGED <<sym, tti, symIdx, pc, todo, aligned, ifState, activeCcs, ruOpen>>
        \/ PollNewSecond \/ PollSymbol \/ Dispatch \/ DispatchIdle
        \/ (\E mu \in Mus : SymOtaCb(mu)) \/ AdvanceSyms
        \/ XranStart \/ ActivateCc \/ (XranStop \/ DeactivateCc \/ TimingStart)
    BY DEF Next, vars, tickVars, slotVars, threadVars, lifeVars, ClockAdvance, TtiToPhy,
           TxCpDl, RxUlDeadline, RegTtiCb, TimingStop
  <1> QED BY <1>1, <1>2, <1>3, <1>4, <1>5, <1>6, PlaceInvPollNewSecond, PlaceInvPollSymbol,
             PlaceInvDispatch, PlaceInvSymOtaCb, PlaceInvAdvanceSyms

\* Once a second has begun with the RU being served, each numerology has
\* processed exactly the symbols up to the current one and its slot counter is
\* one past the current slot, however late the thread is
\* (xran_timer.c:578-591, xran_main.c:647-668).
THEOREM CountersMatchSymbols == Spec => []CountersAgree
  <1>1. Init => PlaceInv
    BY DEF Init, PlaceInv
  <1>2. Spec => []PlaceInv
    BY <1>1, PlaceInvNext, TypeInvariant, PTL DEF Spec
  <1>3. PlaceInv => CountersAgree
    BY DEF PlaceInv, CountersAgree, Place, Waiting, Done
  <1> QED BY <1>2, <1>3, PTL

(***************************************************************************)
(* The slot callbacks.  They are served within a second, so a callback     *)
(* whose second bears the number of the current one was armed in it.       *)
(***************************************************************************)
\* The thread is at most one second behind the clock.
NearInv == clkSec = lastSec \/ clkSec = (lastSec + 1) % SecondsCycle

LEMMA NearInvNext == StepInv /\ NearInv /\ [Next]_vars => NearInv'
  <1> SUFFICES ASSUME StepInv, NearInv, [Next]_vars PROVE NearInv'
    OBVIOUS
  <1>1. CASE UNCHANGED <<clkSec, lastSec>>
    BY <1>1 DEF NearInv
  <1>2. CASE ClockAdvance
    <2>1. lastSec' = lastSec /\ Lag < MaxLag
      BY <1>2 DEF ClockAdvance, tickVars
    <2>2. CASE clkSym + 1 < SymsPerSecond(TimerMu)
      BY <1>1, <1>2, <2>1, <2>2 DEF ClockAdvance
    <2>3. CASE ~(clkSym + 1 < SymsPerSecond(TimerMu))
      <3>1. clkSym = SymsPerSecond(TimerMu) - 1
        BY <2>3, SecondNotEmpty DEF StepInv, ClockTypes
      <3>2. clkSec = lastSec
        BY <2>1, <3>1, SecondNotEmpty DEF Lag, StepInv, ClockTypes
      <3>3. clkSec' = (clkSec + 1) % SecondsCycle
        BY <1>2, <2>3 DEF ClockAdvance
      <3> QED BY <2>1, <3>2, <3>3 DEF NearInv
    <2> QED BY <2>2, <2>3
  <1>3. CASE PollNewSecond
    BY <1>3 DEF PollNewSecond, clockVars, NearInv
  <1>4. CASE TimingStart
    BY <1>4 DEF TimingStart, NearInv, StepInv, ThreadInSecond
  <1>5. \/ UNCHANGED <<clkSec, lastSec>> \/ ClockAdvance \/ PollNewSecond \/ TimingStart
    BY DEF Next, vars, clockVars, tickVars, PollSymbol, Dispatch, DispatchIdle, SymOtaCb,
           AdvanceSyms, TtiToPhy, TxCpDl, RxUlDeadline, XranStart, XranStop, RegTtiCb,
           ActivateCc, DeactivateCc, TimingStop
  <1> QED BY <1>1, <1>2, <1>3, <1>4, <1>5

\* Seconds are numbered in a cycle: from one to the next a difference grows by one.
LEMMA CycleDifference ==
    ASSUME NEW c \in Nat, c > 2, NEW a \in 0..(c - 1), NEW b \in 0..(c - 1)
    PROVE  /\ (a - b) % c \in 0..(c - 1)
           /\ (a - b) % c = 0 => a = b
           /\ (a - b) % c \in 0..1 =>
                 (((a + 1) % c) - b) % c = ((a - b) % c) + 1 /\ (a + 1) % c # b
  <1>1. c \in Nat \ {0}
    OBVIOUS
  <1>2. ASSUME NEW x \in Int, -c <= x, x < c
        PROVE  x % c = IF x >= 0 THEN x ELSE x + c
    <2>1. CASE x >= 0
      <3>1. (c * 0 + x) % c = x
        BY <1>1, <1>2, <2>1, DivisionUnique
      <3> QED BY <2>1, <3>1
    <2>2. CASE x < 0
      <3>1. x + c \in 0..(c - 1)
        BY <1>2, <2>2
      <3>2. (c * (-1) + (x + c)) % c = x + c
        BY <1>1, <3>1, DivisionUnique
      <3>3. c * (-1) + (x + c) = x
        OBVIOUS
      <3> QED BY <2>2, <3>2, <3>3
    <2> QED BY <1>2, <2>1, <2>2
  <1>3. (a - b) % c = IF a - b >= 0 THEN a - b ELSE (a - b) + c
    BY <1>2
  <1>4. (a + 1) % c = IF a + 1 < c THEN a + 1 ELSE 0
    <2>1. CASE a + 1 < c
      BY <1>2, <2>1
    <2>2. CASE a + 1 = c
      <3>1. c % c = 0
        BY <1>1
      <3> QED BY <2>2, <3>1
    <2> QED BY <2>1, <2>2
  <1> DEFINE n == (a + 1) % c
  <1>5. n \in 0..(c - 1)
    BY <1>4
  <1> HIDE DEF n
  <1>6. (n - b) % c = IF n - b >= 0 THEN n - b ELSE (n - b) + c
    BY <1>2, <1>5
  <1> QED BY <1>3, <1>4, <1>5, <1>6 DEF n

LEMMA QuotientMonotone ==
    ASSUME NEW n \in Nat \ {0}, NEW a \in Nat, NEW b \in Nat
    PROVE  /\ a <= b => a \div n <= b \div n
           /\ a < b /\ b % n = 0 => a \div n < b \div n
  <1> DEFINE p == a \div n
             q == b \div n
             r == a % n
             s == b % n
  <1>1. /\ p \in Nat /\ q \in Nat /\ r \in 0..(n - 1) /\ s \in 0..(n - 1)
        /\ a = n * p + r /\ b = n * q + s
    OBVIOUS
  <1> HIDE DEF p, q, r, s
  <1>2. ASSUME a <= b PROVE p <= q
    <2> SUFFICES ASSUME p >= q + 1 PROVE FALSE
      BY <1>1
    <2>1. n * p >= n * (q + 1)
      BY <1>1
    <2> QED BY <1>1, <1>2, <2>1
  <1>3. ASSUME a < b, s = 0 PROVE p < q
    <2> SUFFICES ASSUME p >= q PROVE FALSE
      BY <1>1
    <2>1. n * p >= n * q
      BY <1>1
    <2> QED BY <1>1, <1>3, <2>1
  <1> QED BY <1>2, <1>3 DEF p, q, r, s

\* A slot's number within the period of the SFN, put together from its frame and
\* its place in the frame.
LEMMA FrameAndPlace ==
    ASSUME NEW p \in Nat \ {0}, NEW m \in Nat \ {0}, NEW f \in Nat, NEW x \in Nat
    PROVE  ((x \div p + f) % m) * p + (x % p) = (f * p + x) % (m * p)
  <1> DEFINE q == x \div p
             r == x % p
             s == q + f
             h == s \div m
             l == s % m
             y == l * p + r
  <1>1. q \in Nat /\ r \in 0..(p - 1) /\ x = p * q + r
    OBVIOUS
  <1> HIDE DEF q, r
  <1>2. s \in Nat
    BY <1>1
  <1> HIDE DEF s
  <1>3. h \in Int /\ l \in 0..(m - 1) /\ s = m * h + l
    BY <1>2, Division
  <1> HIDE DEF h, l
  <1>4. f * p + x = (m * p) * h + y
    <2>1. f * p + x = p * s + r
      BY <1>1 DEF s
    <2>2. p * s = p * (m * h) + p * l
      BY <1>3
    <2> QED BY <1>1, <1>2, <1>3, <2>1, <2>2
  <1>5. y \in 0..(m * p - 1)
    <2>1. l * p >= 0 /\ l * p <= (m - 1) * p
      BY <1>3
    <2>2. (m - 1) * p = m * p - p
      OBVIOUS
    <2> QED BY <1>1, <1>3, <2>1, <2>2
  <1>6. m * p \in Nat \ {0}
    BY PositiveProduct
  <1> DEFINE mp == m * p
  <1> HIDE DEF y, mp
  <1>7. (mp * h + y) % mp = y
    BY <1>3, <1>5, <1>6, DivisionUnique DEF mp
  <1> QED BY <1>4, <1>7 DEF y, l, s, q, r, mp

\* Where an armed callback comes from.
LEMMA ArmedNext ==
    ASSUME TypeInv, [Next]_vars, NEW t \in JobTypes, NEW job \in JobSet, Armed(t, job)'
    PROVE  \/ Armed(t, job)
           \/ Dispatch /\ t = "TTI" /\ job = Job("tti", TimerMu)
           \/ \E mu \in Mus :
                /\ SymOtaCb(mu) /\ ArmSymbol(mu)
                /\ \/ t = "CP_DL" /\ job = Job("cpDl", mu)
                   \/ t = "DEADLINE" /\ \E k \in ArmedDeadlines(mu) : job = Job(k, mu)
  <1> DEFINE J == JobSet
  <1>1. jobs \in [JobTypes -> Seq(J)] /\ JobTypes = {"TTI", "CP_DL", "DEADLINE"}
    BY DEF TypeInv, QueueTypes, JobTypes
  <1>2. PICK i \in DOMAIN jobs'[t] : jobs'[t][i] = job
    BY DEF Armed
  <1>3. \A x : \A u \in Seq(J) : \A j \in DOMAIN Append(u, x) :
            Append(u, x)[j] = x \/ \E l \in DOMAIN u : Append(u, x)[j] = u[l]
    OBVIOUS
  <1>4. \A u \in Seq(J) : u # <<>> =>
            \A j \in DOMAIN Tail(u) : \E l \in DOMAIN u : Tail(u)[j] = u[l]
    <2> SUFFICES ASSUME NEW u \in Seq(J), u # <<>>, NEW j \in DOMAIN Tail(u)
                 PROVE  \E l \in DOMAIN u : Tail(u)[j] = u[l]
      OBVIOUS
    <2>1. j + 1 \in DOMAIN u /\ Tail(u)[j] = u[j + 1]
      OBVIOUS
    <2> QED BY <2>1
  <1> HIDE DEF J
  <1>5. CASE jobs' = jobs
    BY <1>2, <1>5 DEF Armed
  <1>6. CASE Dispatch /\ jobs' # jobs
    <2>1. jobs' = [jobs EXCEPT !["TTI"] = Append(jobs["TTI"], Job("tti", TimerMu))]
      BY <1>6 DEF Dispatch
    <2>2. CASE t = "TTI"
      <3>1. jobs'[t] = Append(jobs[t], Job("tti", TimerMu)) /\ jobs[t] \in Seq(J)
        BY <1>1, <2>1, <2>2
      <3>2. jobs'[t][i] = Job("tti", TimerMu) \/ \E l \in DOMAIN jobs[t] : jobs'[t][i] = jobs[t][l]
        BY <1>2, <1>3, <3>1
      <3> QED BY <1>2, <1>6, <2>2, <3>2 DEF Armed
    <2>3. CASE t # "TTI"
      <3>1. jobs'[t] = jobs[t]
        BY <1>1, <2>1, <2>3
      <3> QED BY <1>2, <3>1 DEF Armed
    <2> QED BY <2>2, <2>3
  <1>7. ASSUME NEW mu \in Mus, SymOtaCb(mu), jobs' # jobs
        PROVE  \/ Armed(t, job)
               \/ t = "CP_DL" /\ job = Job("cpDl", mu)
               \/ t = "DEADLINE" /\ \E k \in ArmedDeadlines(mu) : job = Job(k, mu)
    <2> DEFINE A == ArmedDeadlines(mu)
               k0 == CHOOSE k \in A : TRUE
               jc == Job("cpDl", mu)
               jd == Job(k0, mu)
               c == IF OtaSymbol(mu) \in DlCpSyms
                      THEN Append(jobs["CP_DL"], jc) ELSE jobs["CP_DL"]
               d == IF A = {} THEN jobs["DEADLINE"] ELSE Append(jobs["DEADLINE"], jd)
    <2>1. jobs' = [jobs EXCEPT !["CP_DL"] = c, !["DEADLINE"] = d]
      BY <1>7 DEF SymOtaCb, ArmSymbol
    <2>2. A # {} => k0 \in A
      OBVIOUS
    <2> HIDE DEF c, d, A, k0, jc, jd
    <2>3. /\ jobs'["TTI"] = jobs["TTI"] /\ jobs'["CP_DL"] = c /\ jobs'["DEADLINE"] = d
          /\ jobs["CP_DL"] \in Seq(J) /\ jobs["DEADLINE"] \in Seq(J)
      BY <1>1, <2>1
    <2>4. CASE t = "TTI"
      BY <1>2, <2>3, <2>4 DEF Armed
    <2>5. CASE t = "CP_DL"
      <3>1. c = jobs["CP_DL"] \/ c = Append(jobs["CP_DL"], jc)
        BY DEF c
      <3>2. jobs[t] \in Seq(J) /\ i \in DOMAIN jobs'[t]
        BY <1>2, <2>3, <2>5
      <3>3. jobs'[t] = jobs[t] \/ jobs'[t] = Append(jobs[t], jc)
        BY <2>3, <2>5, <3>1
      <3>4. jobs'[t][i] = jc \/ \E l \in DOMAIN jobs[t] : jobs'[t][i] = jobs[t][l]
        <4>1. CASE jobs'[t] = jobs[t]
          BY <3>2, <4>1
        <4>2. CASE jobs'[t] = Append(jobs[t], jc)
          BY <1>3, <3>2, <4>2
        <4> QED BY <3>3, <4>1, <4>2
      <3> QED BY <1>2, <2>5, <3>4 DEF Armed, jc
    <2>6. CASE t = "DEADLINE"
      <3>1. d = jobs["DEADLINE"] \/ (k0 \in A /\ d = Append(jobs["DEADLINE"], jd))
        BY <2>2 DEF d
      <3>2. jobs[t] \in Seq(J) /\ i \in DOMAIN jobs'[t]
        BY <1>2, <2>3, <2>6
      <3>3. jobs'[t] = jobs[t] \/ (k0 \in A /\ jobs'[t] = Append(jobs[t], jd))
        BY <2>3, <2>6, <3>1
      <3>4. (jobs'[t][i] = jd /\ k0 \in A) \/ \E l \in DOMAIN jobs[t] : jobs'[t][i] = jobs[t][l]
        <4>1. CASE jobs'[t] = jobs[t]
          BY <3>2, <4>1
        <4>2. CASE k0 \in A /\ jobs'[t] = Append(jobs[t], jd)
          BY <1>3, <3>2, <4>2
        <4> QED BY <3>3, <4>1, <4>2
      <3> QED BY <1>2, <2>6, <3>4 DEF Armed, jd, A
    <2> QED BY <1>1, <2>4, <2>5, <2>6
  <1>8. ASSUME NEW x \in JobTypes, Take(x) PROVE Armed(t, job)
    <2>1. jobs[x] # <<>> /\ jobs' = [jobs EXCEPT ![x] = Tail(jobs[x])]
      BY <1>8 DEF Take
    <2>2. CASE t = x
      <3>1. jobs'[t] = Tail(jobs[t]) /\ jobs[t] \in Seq(J) /\ jobs[t] # <<>>
        BY <1>1, <2>1, <2>2
      <3>2. \E l \in DOMAIN jobs[t] : jobs'[t][i] = jobs[t][l]
        BY <1>2, <1>4, <3>1
      <3> QED BY <1>2, <3>2 DEF Armed
    <2>3. CASE t # x
      <3>1. jobs'[t] = jobs[t]
        BY <1>1, <2>1, <2>3
      <3> QED BY <1>2, <3>1 DEF Armed
    <2> QED BY <2>2, <2>3
  <1>9. ASSUME NEW mu \in Mus, SymOtaCb(mu), jobs' # jobs PROVE ArmSymbol(mu)
    BY <1>9 DEF SymOtaCb
  <1>10. jobs' = jobs \/ Dispatch \/ (\E mu \in Mus : SymOtaCb(mu))
           \/ (\E x \in JobTypes : Take(x))
    BY DEF Next, vars, ClockAdvance, PollNewSecond, PollSymbol, DispatchIdle, AdvanceSyms,
           TtiToPhy, TxCpDl, RxUlDeadline, XranStart, XranStop, RegTtiCb, ActivateCc,
           DeactivateCc, TimingStop, TimingStart, JobTypes
  <1> QED BY <1>5, <1>6, <1>7, <1>8, <1>9, <1>10

\* Callbacks do not wait for a whole second, so when the thread polls none is
\* older than the second before the one it is in.
LEMMA WaitIsShort ==
    ASSUME TypeInv, WorkersKeepUp, WorkerSlack <= SymsPerSecond(TimerMu),
           NEW t \in JobTypes, NEW job \in JobSet, Armed(t, job), Recent(job)
    PROVE  (lastSec - job.sec) % SecondsCycle \in 0..1
  <1> DEFINE e == (lastSec - job.sec) % SecondsCycle
             n == SymsPerSecond(TimerMu)
  <1>1. job \in Pending
    BY DEF Pending, Armed
  <1>2. Age(job) < WorkerSlack
    BY <1>1 DEF WorkersKeepUp
  <1>3. Age(job) = e * n + lastSym - job.sym
    BY DEF Age
  <1>4. n \in Nat /\ WorkerSlack \in Nat /\ lastSym \in 0..(n - 1) /\ job.sym \in 0..(n - 1)
    BY SecondNotEmpty, TimingAssumption DEF TypeInv, StepInv, ClockTypes, JobSet
  <1>5. e \in 0..2
    BY DEF Recent
  <1> HIDE DEF e, n
  <1>6. e # 2
    BY <1>2, <1>3, <1>4 DEF n
  <1> QED BY <1>5, <1>6 DEF e

LEMMA RecentNext ==
    ASSUME TypeInv, NearInv, WorkerSlack <= SymsPerSecond(TimerMu), [Next]_vars,
           NEW t \in JobTypes, NEW job \in JobSet, Armed(t, job), Recent(job)
    PROVE  Recent(job)' /\ (PollNewSecond => job.sec # lastSec')
  <1>1. CASE PollNewSecond
    <2>1. (lastSec - job.sec) % SecondsCycle \in 0..1
      BY <1>1, WaitIsShort DEF PollNewSecond
    <2>2. lastSec' = (lastSec + 1) % SecondsCycle
      BY <1>1 DEF PollNewSecond, NearInv, TypeInv, StepInv, InStep
    <2>3. /\ lastSec \in 0..(SecondsCycle - 1) /\ job.sec \in 0..(SecondsCycle - 1)
          /\ SecondsCycle \in Nat /\ SecondsCycle > 2
      BY SecondNotEmpty DEF TypeInv, StepInv, ClockTypes, JobSet
    <2>4. /\ (((lastSec + 1) % SecondsCycle) - job.sec) % SecondsCycle
                 = ((lastSec - job.sec) % SecondsCycle) + 1
          /\ (lastSec + 1) % SecondsCycle # job.sec
      BY <2>1, <2>3, CycleDifference
    <2> QED BY <2>1, <2>2, <2>4 DEF Recent
  <1>2. CASE ~PollNewSecond
    <2>1. lastSec' = lastSec
      BY <1>2 DEF Next, vars, tickVars, ClockAdvance, PollSymbol, Dispatch, DispatchIdle,
                  SymOtaCb, AdvanceSyms, TtiToPhy, TxCpDl, RxUlDeadline, XranStart,
                  XranStop, RegTtiCb, ActivateCc, DeactivateCc, TimingStop, TimingStart
    <2> QED BY <1>2, <2>1 DEF Recent
  <1> QED BY <1>1, <1>2

\* A symbol that is due was due before, or a poll has just made it so.
LEMMA WaitingNext ==
    ASSUME TypeInv, PlaceInv, aligned, [Next]_vars, NEW mu \in Mus, Waiting(mu)'
    PROVE  \/ PollNewSecond \/ TimingStart
           \/ PollSymbol /\ symIdx'[mu] = symIdx[mu] + 1
           \/ Waiting(mu) /\ symIdx' = symIdx /\ ~(mu \in todo /\ todo' = todo \ {mu})
  <1>1. CASE UNCHANGED <<sym, symIdx, pc, todo>>
    BY <1>1 DEF Waiting, Due, OtaSymbol
  <1>2. CASE PollSymbol
    <2>1. pc = "poll" /\ pc' = "dispatch" /\ sym' = sym
      BY <1>2 DEF PollSymbol, slotVars
    <2>2. Done(mu)
      BY <2>1 DEF PlaceInv, Place, Waiting
    <2>3. CASE symIdx'[mu] = symIdx[mu]
      <3>1. OtaSymbol(mu)' = OtaSymbol(mu)
        BY <2>3 DEF OtaSymbol
      <3> QED BY <2>1, <2>2, <3>1, OtaNumbers DEF Done, Waiting, Due, TypeInv
    <2> QED BY <1>2, <2>3, PollSymbolCoarse DEF TypeInv
  <1>3. CASE Dispatch
    <2>1. pc = "dispatch" /\ pc' = "symbols" /\ sym' = sym /\ symIdx' = symIdx
      BY <1>3 DEF Dispatch, tickVars
    <2>2. todo' = {nu \in Mus : Due(nu)}
      BY <1>3 DEF Dispatch, PlaceInv, BeingServed
    <2> QED BY <2>1, <2>2 DEF Waiting, Due
  <1>4. CASE DispatchIdle
    BY <1>4 DEF DispatchIdle, PlaceInv, BeingServed
  <1>5. ASSUME NEW nu \in Mus, SymOtaCb(nu)
        PROVE  Waiting(mu) /\ symIdx' = symIdx /\ ~(mu \in todo /\ todo' = todo \ {mu})
    BY <1>5 DEF SymOtaCb, tickVars, Waiting
  <1>6. CASE AdvanceSyms
    BY <1>6 DEF AdvanceSyms, Loop, Waiting
  <1>7. \/ UNCHANGED <<sym, symIdx, pc, todo>> \/ PollNewSecond \/ PollSymbol \/ Dispatch
        \/ DispatchIdle \/ (\E nu \in Mus : SymOtaCb(nu)) \/ AdvanceSyms \/ TimingStart
    BY DEF Next, vars, tickVars, slotVars, threadVars, ClockAdvance, TtiToPhy, TxCpDl,
           RxUlDeadline, XranStart, XranStop, RegTtiCb, ActivateCc, DeactivateCc,
           TimingStop
  <1> QED BY <1>1, <1>2, <1>3, <1>4, <1>5, <1>6, <1>7

\* What a step may do to the counters while the RU stays served.
LEMMA AlignedFrame ==
    ASSUME [Next]_vars, aligned'
    PROVE  \/ PollNewSecond
           \/ aligned /\ PollSymbol /\ UNCHANGED <<lastSec, currentSecond, sfnSecStart, tti,
                                                   timerCtx, deadlineTti, timeDiff>>
           \/ /\ aligned
              /\ UNCHANGED <<lastSec, lastSym, currentSecond, sfnSecStart, symIdx, timeDiff>>
              /\ \/ UNCHANGED <<tti, timerCtx, deadlineTti>>
                 \/ \E mu \in Mus : SymOtaCb(mu)
  <1>1. CASE UNCHANGED vars
    BY <1>1 DEF vars, tickVars, slotVars
  <1>2. CASE ClockAdvance \/ Dispatch \/ DispatchIdle \/ AdvanceSyms
    BY <1>2 DEF ClockAdvance, Dispatch, DispatchIdle, AdvanceSyms, tickVars, slotVars
  <1>3. CASE PollSymbol
    BY <1>3 DEF PollSymbol, tickVars, slotVars
  <1>4. CASE \E mu \in Mus : SymOtaCb(mu)
    BY <1>4 DEF SymOtaCb, tickVars, slotVars
  <1>5. CASE TtiToPhy \/ TxCpDl \/ RxUlDeadline
    BY <1>5 DEF TtiToPhy, TxCpDl, RxUlDeadline, tickVars, slotVars
  <1>6. CASE XranStart \/ XranStop \/ RegTtiCb \/ ActivateCc \/ DeactivateCc
    BY <1>6 DEF XranStart, XranStop, RegTtiCb, ActivateCc, DeactivateCc, tickVars, slotVars
  <1>7. CASE TimingStop \/ TimingStart
    BY <1>7 DEF TimingStop, TimingStart, tickVars, slotVars
  <1> QED BY <1>1, <1>2, <1>3, <1>4, <1>5, <1>6, <1>7 DEF Next

LEMMA SfnInvNext == SfnInv /\ [Next]_vars => SfnInv'
  <1> SUFFICES ASSUME SfnInv, [Next]_vars, aligned' PROVE sfnSecStart' = SfnAtStartOf(currentSecond')
    BY DEF SfnInv, SfnAtStartOf
  <1>1. CASE PollNewSecond
    BY <1>1 DEF PollNewSecond
  <1>2. CASE aligned /\ UNCHANGED <<currentSecond, sfnSecStart>>
    BY <1>2 DEF SfnInv
  <1> QED BY <1>1, <1>2, AlignedFrame

\* The callback being armed belongs to the symbol that the counters stand at.
LEMMA NewJob ==
    ASSUME TypeInv, NEW mu \in Mus, SymOtaCb(mu), NEW k, NEW job, job = Job(k, mu)
    PROVE  /\ job.mu = mu /\ job.kind = k /\ job.sec = lastSec
           /\ Coarser(job.mu, job.sym) = symIdx[mu]
           /\ mu \in todo /\ todo' = todo \ {mu} /\ lastSec' = lastSec /\ symIdx' = symIdx
           /\ timeDiff' = timeDiff
  <1>1. job.mu = mu /\ job.kind = k /\ job.sec = lastSec /\ job.sym = lastSym
    BY DEF Job
  <1>2. pc = "symbols" /\ mu \in todo /\ todo' = todo \ {mu} /\ lastSec' = lastSec /\ symIdx' = symIdx
        /\ timeDiff' = timeDiff
    BY DEF SymOtaCb, tickVars
  <1>3. symIdx[mu] = Coarser(mu, symIdx[TimerMu]) /\ symIdx[TimerMu] = lastSym
    BY <1>2 DEF TypeInv, StepInv, InStep
  <1> QED BY <1>1, <1>2, <1>3

LEMMA BehindNext ==
    ASSUME TypeInv, NearInv, PlaceInv, WorkerSlack <= SymsPerSecond(TimerMu), [Next]_vars,
           NEW t \in {"CP_DL", "DEADLINE"}, NEW job \in JobSet, Armed(t, job)',
           Armed(t, job) => Recent(job) /\ Behind(job)
    PROVE  Behind(job)'
  <1> SUFFICES ASSUME aligned', job.sec = lastSec'
               PROVE  /\ Coarser(job.mu, job.sym) <= symIdx'[job.mu]
                      /\ Waiting(job.mu)' => Coarser(job.mu, job.sym) < symIdx'[job.mu]
    BY DEF Behind, Coarser
  <1> DEFINE x == Coarser(job.mu, job.sym)
             m == job.mu
  <1>1. m \in Mus /\ t \in JobTypes
    BY DEF JobSet, JobTypes
  <1>2. x \in Nat /\ symIdx[m] \in Nat
    <2>1. x \in 0..(SymsPerSecond(m) - 1)
      BY <1>1, CoarserInSecond DEF JobSet
    <2> QED BY <1>1, <2>1 DEF TypeInv, CounterTypes
  <1> HIDE DEF x, m
  <1>3. CASE Armed(t, job)
    <2>1. ~PollNewSecond
      BY <1>1, <1>3, RecentNext
    <2>2. ~TimingStart
      BY DEF TimingStart
    <2>3. aligned /\ lastSec' = lastSec
      BY <2>1, AlignedFrame
    <2>4. x <= symIdx[m] /\ (Waiting(m) => x < symIdx[m])
      BY <1>3, <2>3 DEF Behind, x, m
    <2>5. symIdx'[m] = symIdx[m] \/ symIdx'[m] = symIdx[m] + 1
      BY <1>1, <2>1, AlignedFrame, PollSymbolCoarse DEF TypeInv
    <2>6. Waiting(m)' => symIdx'[m] = symIdx[m] + 1 \/ (Waiting(m) /\ symIdx'[m] = symIdx[m])
      BY <1>1, <2>1, <2>2, <2>3, WaitingNext
    <2>7. x <= symIdx'[m] /\ (Waiting(m)' => x < symIdx'[m])
      BY <1>2, <2>4, <2>5, <2>6
    <2> QED BY <2>7 DEF x, m
  <1>4. CASE ~Armed(t, job)
    <2>1. \E mu \in Mus :
             /\ SymOtaCb(mu)
             /\ \/ job = Job("cpDl", mu)
                \/ \E k \in ArmedDeadlines(mu) : job = Job(k, mu)
      BY <1>1, <1>4, ArmedNext
    <2>2. PICK mu \in Mus :
             /\ SymOtaCb(mu)
             /\ \/ job = Job("cpDl", mu)
                \/ \E k \in ArmedDeadlines(mu) : job = Job(k, mu)
      BY <2>1
    <2>3. PICK k : job = Job(k, mu)
      BY <2>2
    <2>4. /\ m = mu /\ x = symIdx[mu] /\ symIdx' = symIdx
          /\ mu \in todo /\ todo' = todo \ {mu}
      BY <2>2, <2>3, NewJob DEF x, m
    <2>5. aligned /\ ~PollNewSecond /\ ~TimingStart /\ ~PollSymbol
      BY <2>2 DEF SymOtaCb, ArmSymbol, PollNewSecond, TimingStart, PollSymbol
    <2>6. ~Waiting(m)'
      BY <1>1, <2>4, <2>5, WaitingNext
    <2>7. x <= symIdx'[m]
      BY <1>2, <2>4
    <2> QED BY <2>6, <2>7 DEF x, m
  <1> QED BY <1>3, <1>4

LEMMA ReportableNext ==
    ASSUME TypeInv, NearInv, PlaceInv, WorkerSlack <= SymsPerSecond(TimerMu), [Next]_vars,
           NEW job \in JobSet, Armed("DEADLINE", job)',
           Armed("DEADLINE", job) => Recent(job) /\ Behind(job) /\ Reportable(job)
    PROVE  Reportable(job)'
  <1> DEFINE x == Coarser(job.mu, job.sym)
             m == job.mu
             s == x \div N
             c == symIdx[m]
             c1 == symIdx'[m]
             v == SlotOfSfnPeriod(m, OtaSlot(m), sfnSecStart)
  <1>1. m \in Mus /\ "DEADLINE" \in JobTypes
    BY DEF JobSet, JobTypes
  <1>2. timeDiff' = timeDiff
    BY DEF Next, vars, ClockAdvance, PollNewSecond, PollSymbol, Dispatch, DispatchIdle,
           SymOtaCb, AdvanceSyms, TtiToPhy, TxCpDl, RxUlDeadline, XranStart, XranStop,
           RegTtiCb, ActivateCc, DeactivateCc, TimingStop, TimingStart
  <1>3. DeadlineSym(job.kind, m)' = DeadlineSym(job.kind, m)
    BY <1>2 DEF DeadlineSym, DeadlineOffset
  <1>4. SlotOf(job) = s /\ OtaSlot(m) = c \div N /\ OtaSlot(m)' = c1 \div N
    BY DEF SlotOf, OtaSlot
  <1>5. x \in Nat /\ c \in Nat /\ N \in Nat \ {0}
    <2>1. x \in 0..(SymsPerSecond(m) - 1)
      BY <1>1, CoarserInSecond DEF JobSet
    <2>2. symIdx[m] \in Nat
      BY <1>1 DEF TypeInv, CounterTypes
    <2>3. N \in Nat \ {0}
      BY TimingAssumption
    <2> QED BY <2>1, <2>2, <2>3
  <1>6. CASE Armed("DEADLINE", job)
    <2> SUFFICES ASSUME aligned', job.sec = lastSec', OtaSlot(m)' = s
                 PROVE  deadlineTti'[m] = SlotOfSfnPeriod(m, OtaSlot(m)', sfnSecStart')
      <3>1. job.kind \in DeadlineKinds /\ x % N = DeadlineSym(job.kind, m)'
        BY <1>3, <1>6 DEF Reportable
      <3>2. InItsSlot(job)' <=> job.sec = lastSec' /\ OtaSlot(m)' = s
        BY <1>4 DEF InItsSlot, SlotOf, Coarser
      <3>3. Coarser(job.mu, job.sym)' = x /\ SlotOfSfnPeriod(m, OtaSlot(m), sfnSecStart)'
                 = SlotOfSfnPeriod(m, OtaSlot(m)', sfnSecStart')
        BY DEF Coarser, SlotOfSfnPeriod, FrameNum
      <3> HIDE DEF x, s
      <3> QED BY <3>1, <3>2, <3>3 DEF Reportable
    <2>1. ~PollNewSecond
      BY <1>1, <1>6, RecentNext
    <2>2. aligned /\ lastSec' = lastSec /\ sfnSecStart' = sfnSecStart
      BY <2>1, AlignedFrame
    <2>3. x <= c
      BY <1>6, <2>2 DEF Behind
    <2>4. CASE PollSymbol
      <3>1. deadlineTti' = deadlineTti
        BY <2>4 DEF PollSymbol, slotVars
      <3>2. c1 = c \/ c1 = c + 1
        BY <1>1, <2>4, PollSymbolCoarse DEF TypeInv
      <3> HIDE DEF x, s, c, c1, m
      <3>3. s <= c \div N
        BY <1>5, <2>3, QuotientMonotone DEF s
      <3>4. (c + 1) \div N = c \div N \/ (c + 1) \div N = (c \div N) + 1
        BY <1>5, NextQuotient
      <3>5. c \div N \in Int /\ s \in Int
        BY <1>5, Division DEF s
      <3>6. OtaSlot(m)' = OtaSlot(m) /\ s = OtaSlot(m)
        BY <1>4, <3>2, <3>3, <3>4, <3>5
      <3>7. InItsSlot(job)
        BY <1>4, <2>2, <3>6 DEF InItsSlot, m
      <3> QED BY <1>6, <2>2, <3>1, <3>6, <3>7 DEF Reportable, m
    <2>5. CASE UNCHANGED <<symIdx, lastSec, sfnSecStart, deadlineTti>>
      <3>1. OtaSlot(m)' = OtaSlot(m)
        BY <2>5 DEF OtaSlot
      <3>2. InItsSlot(job)
        BY <1>4, <2>2, <3>1 DEF InItsSlot
      <3> QED BY <1>6, <2>2, <2>5, <3>1, <3>2 DEF Reportable
    <2>6. ASSUME NEW mu \in Mus, SymOtaCb(mu), UNCHANGED <<symIdx, lastSec, sfnSecStart>>
          PROVE  deadlineTti'[m] = SlotOfSfnPeriod(m, OtaSlot(m)', sfnSecStart')
      <3>1. OtaSlot(m)' = OtaSlot(m)
        BY <2>6 DEF OtaSlot
      <3>2. InItsSlot(job)
        BY <1>4, <2>2, <3>1 DEF InItsSlot
      <3>3. deadlineTti[m] = v
        BY <1>6, <2>2, <3>2 DEF Reportable
      <3>4. deadlineTti'[m] = deadlineTti[m] \/ (m = mu /\ deadlineTti'[m] = v)
        BY <1>1, <2>6 DEF SymOtaCb, ArmSymbol, TypeInv, CounterTypes
      <3> QED BY <2>6, <3>1, <3>3, <3>4
    <2> QED BY <2>1, <2>4, <2>5, <2>6, AlignedFrame
  <1>7. CASE ~Armed("DEADLINE", job)
    <2>1. PICK mu \in Mus :
             /\ SymOtaCb(mu) /\ ArmSymbol(mu)
             /\ \E k \in ArmedDeadlines(mu) : job = Job(k, mu)
      BY <1>1, <1>7, ArmedNext
    <2>2. PICK k \in ArmedDeadlines(mu) : job = Job(k, mu)
      BY <2>1
    <2>3. /\ m = mu /\ job.kind = k /\ job.sec = lastSec /\ x = symIdx[mu]
          /\ symIdx' = symIdx /\ lastSec' = lastSec
      BY <2>1, <2>2, NewJob
    <2>4. k \in DeadlineKinds /\ DeadlineSym(k, mu) = OtaSymbol(mu)
      BY <2>2 DEF ArmedDeadlines
    <2>5. x % N = DeadlineSym(job.kind, m)
      BY <2>3, <2>4 DEF OtaSymbol
    <2>6. sfnSecStart' = sfnSecStart /\ OtaSlot(m)' = OtaSlot(m)
      BY <2>1, <2>3 DEF SymOtaCb, tickVars, OtaSlot
    <2>7. deadlineTti'[m] = v
      BY <1>1, <2>1, <2>2, <2>3 DEF ArmSymbol, TypeInv, CounterTypes
    <2>8. SlotOfSfnPeriod(m, OtaSlot(m), sfnSecStart)' = v
      BY <2>6 DEF SlotOfSfnPeriod, FrameNum
    <2>9. Coarser(job.mu, job.sym)' = x
      BY DEF Coarser
    <2> HIDE DEF x, v
    <2> QED BY <1>3, <2>3, <2>4, <2>5, <2>7, <2>8, <2>9 DEF Reportable
  <1> QED BY <1>6, <1>7

LEMMA JobInvNext ==
    ASSUME TypeInv, NearInv, PlaceInv, JobInv, WorkerSlack <= SymsPerSecond(TimerMu),
           [Next]_vars
    PROVE  JobInv'
  <1> SUFFICES ASSUME NEW job \in JobSet
               PROVE  /\ \A t \in JobTypes : Armed(t, job)' => Recent(job)'
                      /\ Armed("CP_DL", job)' => Behind(job)'
                      /\ Armed("DEADLINE", job)' => Behind(job)' /\ Reportable(job)'
    BY DEF JobInv, JobSet
  <1>1. ASSUME NEW t \in JobTypes, Armed(t, job)' PROVE Recent(job)'
    <2>1. CASE Armed(t, job)
      <3>1. Recent(job)
        BY <2>1 DEF JobInv
      <3> QED BY <2>1, <3>1, RecentNext
    <2>2. CASE ~Armed(t, job)
      <3>1. job.sec = lastSec /\ lastSec' = lastSec
        <4>1. \/ Dispatch /\ job = Job("tti", TimerMu)
              \/ \E mu \in Mus : SymOtaCb(mu) /\ \E k : job = Job(k, mu)
          <5>1. \/ Dispatch /\ t = "TTI" /\ job = Job("tti", TimerMu)
                \/ \E mu \in Mus :
                     /\ SymOtaCb(mu) /\ ArmSymbol(mu)
                     /\ \/ t = "CP_DL" /\ job = Job("cpDl", mu)
                        \/ t = "DEADLINE" /\ \E k \in ArmedDeadlines(mu) : job = Job(k, mu)
            BY <1>1, <2>2, ArmedNext, Zenon
          <5> QED BY <5>1, Zenon
        <4>2. CASE Dispatch /\ job = Job("tti", TimerMu)
          BY <4>2 DEF Dispatch, tickVars, Job
        <4>3. ASSUME NEW mu \in Mus, SymOtaCb(mu), NEW k, job = Job(k, mu)
              PROVE  job.sec = lastSec /\ lastSec' = lastSec
          BY <4>3, NewJob
        <4> QED BY <4>1, <4>2, <4>3
      <3>2. (lastSec - lastSec) % SecondsCycle = 0
        BY SecondNotEmpty DEF TypeInv, StepInv, ClockTypes
      <3> QED BY <3>1, <3>2 DEF Recent
    <2> QED BY <2>1, <2>2
  <1>2. ASSUME NEW t \in {"CP_DL", "DEADLINE"}, Armed(t, job)' PROVE Behind(job)'
    <2>1. Armed(t, job) => Recent(job) /\ Behind(job)
      BY DEF JobInv, JobTypes
    <2> QED BY <1>2, <2>1, BehindNext
  <1>3. ASSUME Armed("DEADLINE", job)' PROVE Reportable(job)'
    <2>1. Armed("DEADLINE", job) => Recent(job) /\ Behind(job) /\ Reportable(job)
      BY DEF JobInv, JobTypes
    <2> QED BY <1>3, <2>1, ReportableNext
  <1> QED BY <1>1, <1>2, <1>3

\* A second is shorter than the period of the SFN, and its slots are numbered
\* below SlotsPerSecond.
LEMMA SlotsOfSecond ==
    ASSUME FramesPerSecond < MaxFrame + 1, NEW mu \in Mus
    PROVE  SlotsPerSecond(mu) < MaxSlot(mu)
  <1> DEFINE p == SlotsPerFrame(mu)
             f == FramesPerSecond
             m == MaxFrame + 1
  <1>1. p \in Nat \ {0} /\ f \in Nat /\ m \in Nat /\ f < m
    BY FrameSizes, TimingAssumption
  <1>2. SlotsPerSecond(mu) = p * f /\ MaxSlot(mu) = m * p
    BY DEF SlotsPerSecond, MaxSlot
  <1> HIDE DEF p, f, m
  <1>3. p * f < m * p
    BY <1>1
  <1> QED BY <1>2, <1>3

LEMMA OtaSlotInSecond ==
    ASSUME CounterTypes, NEW mu \in Mus
    PROVE  OtaSlot(mu) \in 0..(SlotsPerSecond(mu) - 1)
  <1>1. symIdx[mu] \in 0..(N * SlotsPerSecond(mu) - 1)
    BY FrameSizes DEF CounterTypes, SymsPerSecond
  <1>2. N \in Nat \ {0} /\ SlotsPerSecond(mu) \in Nat \ {0}
    BY FrameSizes
  <1> QED BY <1>1, <1>2, QuotientBelow DEF OtaSlot

\* After sym_ota_cb has written the tti context, the entry that is read is that
\* of the slot counter.
LEMMA ContextWritten ==
    ASSUME TypeInv, NEW mu \in Mus, StartSlot(mu), tti[mu] + 1 < MaxSlot(mu)
    PROVE  /\ timerCtx'[mu][1 - (tti'[mu] % 2)] % MaxSlot(mu) = tti'[mu]
           /\ \A nu \in Mus \ {mu} : tti'[nu] = tti[nu] /\ timerCtx'[nu] = timerCtx[nu]
  <1> DEFINE t == tti[mu]
             c == [i \in 0..1 |-> IF i = 1 - (t % 2) THEN t ELSE t + 1]
  <1>1. t \in Nat /\ MaxSlot(mu) \in Nat \ {0}
    BY FrameSizes DEF TypeInv, CounterTypes
  <1>2. /\ tti \in [Mus -> Nat] /\ timerCtx \in [Mus -> [0..1 -> Nat]]
        /\ tti' = [tti EXCEPT ![mu] = t + 1] /\ timerCtx' = [timerCtx EXCEPT ![mu] = c]
    <2>1. ~(tti[mu] + 1 >= MaxSlot(mu))
      BY <1>1
    <2>2. /\ tti' = [tti EXCEPT ![mu] = t + 1] /\ timerCtx' = [timerCtx EXCEPT ![mu] = c]
      BY <2>1, Zenon DEF StartSlot
    <2> QED BY <2>2 DEF TypeInv, CounterTypes
  <1>3. 1 - ((t + 1) % 2) \in 0..1 /\ 1 - ((t + 1) % 2) # 1 - (t % 2)
    <2> HIDE DEF t, c
    <2>1. \/ t % 2 = 0 /\ (t + 1) % 2 = 1
          \/ t % 2 = 1 /\ (t + 1) % 2 = 0
      BY <1>1
    <2> QED BY <2>1
  <1>4. c[1 - ((t + 1) % 2)] = t + 1
    BY <1>3
  <1>5. (t + 1) % MaxSlot(mu) = t + 1
    BY <1>1
  <1>6. tti'[mu] = t + 1 /\ timerCtx'[mu] = c
    BY <1>2
  <1>7. \A nu \in Mus \ {mu} : tti'[nu] = tti[nu] /\ timerCtx'[nu] = timerCtx[nu]
    BY <1>2
  <1> QED BY <1>4, <1>5, <1>6, <1>7

LEMMA CtxInvNext ==
    ASSUME TypeInv, PlaceInv, CtxInv, FramesPerSecond < MaxFrame + 1, [Next]_vars
    PROVE  CtxInv'
  <1> SUFFICES ASSUME aligned', NEW mu \in Mus,
                      ~(Waiting(mu)' /\ OtaSymbol(mu)' = 0)
               PROVE  timerCtx'[mu][1 - (tti'[mu] % 2)] % MaxSlot(mu) = tti'[mu]
    BY DEF CtxInv, MaxSlot, SlotsPerFrame, SlotsPerSubframe
  <1>1. CASE PollNewSecond
    <2>1. symIdx'[mu] = 0 /\ sym'[mu] = 0 /\ pc' = "dispatch"
      BY <1>1 DEF PollNewSecond
    <2>2. 0 % N = 0
      BY TimingAssumption
    <2> QED BY <2>1, <2>2 DEF OtaSymbol, Waiting, Due
  <1>2. ASSUME aligned, UNCHANGED <<tti, timerCtx>>, ~(Waiting(mu) /\ OtaSymbol(mu) = 0)
        PROVE  timerCtx'[mu][1 - (tti'[mu] % 2)] % MaxSlot(mu) = tti'[mu]
    BY <1>2 DEF CtxInv
  <1>3. CASE PollSymbol
    <2>1. pc = "poll" /\ aligned /\ UNCHANGED <<tti, timerCtx>>
      BY <1>3 DEF PollSymbol, slotVars
    <2> QED BY <1>2, <2>1 DEF Waiting
  <1>4. ASSUME NEW nu \in Mus, SymOtaCb(nu)
        PROVE  timerCtx'[mu][1 - (tti'[mu] % 2)] % MaxSlot(mu) = tti'[mu]
    <2>1. /\ aligned /\ pc = "symbols" /\ pc' = "symbols" /\ nu \in todo /\ todo' = todo \ {nu}
          /\ symIdx' = symIdx
      BY <1>4 DEF SymOtaCb, tickVars
    <2>2. OtaSymbol(mu)' = OtaSymbol(mu)
      BY <2>1 DEF OtaSymbol
    <2>3. activeCcs > 0
      BY <2>1 DEF PlaceInv, BeingServed
    <2>4. CASE OtaSymbol(nu) = 0
      <3>1. StartSlot(nu)
        BY <1>4, <2>3, <2>4 DEF SymOtaCb
      <3>2. tti[nu] = OtaSlot(nu) % MaxSlot(nu)
        <4>1. ToDo(nu)
          BY <2>1 DEF PlaceInv, Place, Waiting
        <4>2. OtaSlot(nu) \in Nat
          BY OtaNumbers DEF TypeInv
        <4> QED BY <2>4, <4>1, <4>2 DEF ToDo
      <3>3. OtaSlot(nu) \in 0..(SlotsPerSecond(nu) - 1) /\ SlotsPerSecond(nu) < MaxSlot(nu)
        BY OtaSlotInSecond, SlotsOfSecond DEF TypeInv
      <3>4. MaxSlot(nu) \in Nat \ {0} /\ SlotsPerSecond(nu) \in Nat
        BY FrameSizes
      <3>5. tti[nu] + 1 < MaxSlot(nu)
        BY <3>2, <3>3, <3>4
      <3>6. /\ timerCtx'[nu][1 - (tti'[nu] % 2)] % MaxSlot(nu) = tti'[nu]
            /\ \A x \in Mus \ {nu} : tti'[x] = tti[x] /\ timerCtx'[x] = timerCtx[x]
        BY <3>1, <3>5, ContextWritten
      <3>7. CASE mu = nu
        BY <3>6, <3>7
      <3>8. CASE mu # nu
        <4>1. ~(Waiting(mu) /\ OtaSymbol(mu) = 0)
          BY <2>1, <2>2, <3>8 DEF Waiting
        <4> QED BY <2>1, <3>6, <3>8, <4>1 DEF CtxInv
      <3> QED BY <3>7, <3>8
    <2>5. CASE OtaSymbol(nu) # 0
      <3>1. UNCHANGED <<tti, timerCtx>>
        BY <1>4, <2>3, <2>5 DEF SymOtaCb
      <3>2. ~(Waiting(mu) /\ OtaSymbol(mu) = 0)
        BY <2>1, <2>2, <2>5 DEF Waiting
      <3> QED BY <1>2, <2>1, <3>1, <3>2
    <2> QED BY <2>4, <2>5
  <1>5. CASE Dispatch
    <2>1. aligned /\ pc = "dispatch" /\ pc' = "symbols" /\ UNCHANGED <<sym, symIdx, tti, timerCtx>>
      BY <1>5 DEF Dispatch, tickVars
    <2>2. todo' = {nu \in Mus : Due(nu)}
      BY <1>5, <2>1 DEF Dispatch, PlaceInv, BeingServed
    <2>3. ~(Waiting(mu) /\ OtaSymbol(mu) = 0)
      BY <2>1, <2>2 DEF Waiting, OtaSymbol
    <2> QED BY <1>2, <2>1, <2>3
  <1>6. CASE DispatchIdle
    BY <1>6 DEF DispatchIdle, PlaceInv, BeingServed
  <1>7. CASE AdvanceSyms
    BY <1>2, <1>7 DEF AdvanceSyms, Waiting
  <1>8. CASE aligned /\ UNCHANGED <<sym, symIdx, tti, timerCtx, pc, todo>>
    BY <1>2, <1>8 DEF Waiting, Due, OtaSymbol
  <1>9. \/ PollNewSecond \/ PollSymbol \/ (\E nu \in Mus : SymOtaCb(nu)) \/ Dispatch
        \/ DispatchIdle \/ AdvanceSyms
        \/ aligned /\ UNCHANGED <<sym, symIdx, tti, timerCtx, pc, todo>>
    BY DEF Next, vars, tickVars, slotVars, threadVars, ClockAdvance, TtiToPhy, TxCpDl,
           RxUlDeadline, XranStart, XranStop, RegTtiCb, ActivateCc, DeactivateCc,
           TimingStop, TimingStart
  <1> QED BY <1>1, <1>3, <1>4, <1>5, <1>6, <1>7, <1>8, <1>9

SlotInv == TypeInv /\ NearInv /\ PlaceInv /\ SfnInv /\ JobInv

LEMMA SlotInvariant ==
    ASSUME WorkerSlack <= SymsPerSecond(TimerMu)
    PROVE  Spec => []SlotInv
  <1>1. Init => TypeInv
    BY StepInvInit, TypePartsInit DEF TypeInv
  <1>2. Init => NearInv /\ PlaceInv /\ SfnInv
    BY DEF Init, NearInv, PlaceInv, SfnInv
  <1>3. Init => JobInv
    BY DEF Init, JobInv, Armed, JobTypes
  <1>4. TypeInv /\ [Next]_vars => TypeInv'
    BY StepInvNext, CounterTypesNext, PlaceTypesNext, FlagTypesNext, QueueTypesNext DEF TypeInv
  <1>5. SlotInv /\ [Next]_vars => SlotInv'
    BY <1>4, NearInvNext, PlaceInvNext, SfnInvNext, JobInvNext DEF SlotInv, TypeInv
  <1> QED BY <1>1, <1>2, <1>3, <1>5, PTL DEF Spec, SlotInv

LEMMA ContextInvariant ==
    ASSUME WorkerSlack <= SymsPerSecond(TimerMu), FramesPerSecond < MaxFrame + 1
    PROVE  Spec => []CtxInv
  <1>1. Init => CtxInv
    BY DEF Init, CtxInv
  <1>2. SlotInv /\ CtxInv /\ [Next]_vars => CtxInv'
    BY CtxInvNext DEF SlotInv
  <1> QED BY <1>1, <1>2, SlotInvariant, PTL DEF Spec

LEMMA HeadIsArmed ==
    ASSUME TypeInv, NEW t \in JobTypes, Take(t)
    PROVE  Head(jobs[t]) \in JobSet /\ Armed(t, Head(jobs[t]))
  <1> DEFINE J == JobSet
  <1> HIDE DEF J
  <1>1. jobs[t] \in Seq(J) /\ jobs[t] # <<>>
    BY DEF TypeInv, QueueTypes, Take, J
  <1>2. Head(jobs[t]) \in J /\ 1 \in DOMAIN jobs[t] /\ jobs[t][1] = Head(jobs[t])
    BY <1>1
  <1> QED BY <1>2 DEF Armed, J

\* What the counters say while a callback runs in the slot in which it was armed.
LEMMA InOwnSlot ==
    ASSUME SlotInv, aligned, NEW job \in JobSet, Behind(job), InItsSlot(job)
    PROVE  /\ job.mu \in Mus /\ SlotOf(job) = OtaSlot(job.mu)
           /\ OtaSlot(job.mu) \in 0..(SlotsPerSecond(job.mu) - 1)
           /\ sfnSecStart = SfnAtStartOf(job.sec)
           /\ tti[job.mu] = (OtaSlot(job.mu) + 1) % MaxSlot(job.mu)
           /\ ~(Waiting(job.mu) /\ OtaSymbol(job.mu) = 0)
  <1> DEFINE m == job.mu
             x == Coarser(m, job.sym)
             c == symIdx[m]
  <1>1. m \in Mus /\ TypeInv
    BY DEF JobSet, SlotInv
  <1>2. job.sec = lastSec /\ OtaSlot(m) = SlotOf(job) /\ SlotOf(job) = x \div N
        /\ OtaSlot(m) = c \div N /\ OtaSymbol(m) = c % N
    BY DEF InItsSlot, SlotOf, OtaSlot, OtaSymbol
  <1>3. OtaSlot(m) \in 0..(SlotsPerSecond(m) - 1)
    BY <1>1, OtaSlotInSecond DEF TypeInv
  <1>4. sfnSecStart = SfnAtStartOf(job.sec)
    BY <1>1, <1>2 DEF SlotInv, SfnInv, TypeInv, StepInv, InStep
  <1>5. x <= c /\ (Waiting(m) => x < c)
    BY <1>2 DEF Behind
  <1>6. x \in Nat /\ c \in Nat /\ N \in Nat \ {0}
    <2>1. x \in 0..(SymsPerSecond(m) - 1)
      BY <1>1, CoarserInSecond DEF JobSet
    <2>2. symIdx[m] \in Nat
      BY <1>1 DEF TypeInv, CounterTypes
    <2>3. N \in Nat \ {0}
      BY TimingAssumption
    <2> QED BY <2>1, <2>2, <2>3
  <1>7. ~(Waiting(m) /\ OtaSymbol(m) = 0)
    <2> SUFFICES ASSUME Waiting(m), OtaSymbol(m) = 0 PROVE FALSE
      OBVIOUS
    <2> HIDE DEF x, c, m
    <2>1. x \div N < c \div N
      BY <1>2, <1>5, <1>6, QuotientMonotone
    <2>2. x \div N = c \div N /\ c \div N \in Int
      BY <1>2, <1>6, Division
    <2> QED BY <2>1, <2>2
  <1>8. tti[m] = (OtaSlot(m) + 1) % MaxSlot(m)
    <2>1. Place(m)
      BY <1>1 DEF SlotInv, PlaceInv
    <2> QED BY <1>7, <2>1 DEF Place, ToDo, Done, Counted
  <1> QED BY <1>1, <1>2, <1>3, <1>4, <1>7, <1>8

\* The slots that tx_cp_dl_cb looks at are the next one and the one on the air.
LEMMA DlCpSlotsAhead ==
    ASSUME NEW mu \in Mus, NEW sl \in Nat, sl + 1 < MaxSlot(mu),
           NEW next \in Nat, next = timerCtx[mu][1 - (tti[mu] % 2)],
           next % MaxSlot(mu) = sl + 1
    PROVE  DlCpSlots(mu) = {sl + 1} \cup (IF DlCpProcBurst THEN {sl} ELSE {})
  <1> DEFINE n == MaxSlot(mu)
             k == next \div n
  <1>1. n \in Nat \ {0} /\ sl \in 0..(n - 1)
    BY FrameSizes
  <1>2. k \in Int /\ next = n * k + (sl + 1)
    <2>1. next % n = sl + 1 /\ next \in Int
      OBVIOUS
    <2>2. k = next \div n
      OBVIOUS
    <2> HIDE DEF n, k
    <2>3. next \div n \in Int /\ next = n * (next \div n) + (next % n)
      BY <1>1, <2>1, Division
    <2> QED BY <2>1, <2>2, <2>3
  <1>3. n * (k + 1) = n * k + n
    <2> HIDE DEF n, k
    <2> QED BY <1>1, <1>2
  <1>4. next + n - 1 = n * (k + 1) + sl
    <2> DEFINE a == n * k
               b == n * (k + 1)
    <2>1. a \in Int /\ next = a + (sl + 1) /\ b = a + n
      <3> HIDE DEF n, k
      <3> QED BY <1>1, <1>2, <1>3
    <2> HIDE DEF a, b, n
    <2>2. next + n - 1 = b + sl
      BY <1>1, <2>1
    <2> QED BY <2>2 DEF b
  <1>5. (next + n - 1) % n = sl
    <2> HIDE DEF n, k
    <2>1. k + 1 \in Int
      BY <1>2
    <2>2. (n * (k + 1) + sl) % n = sl
      BY <1>1, <2>1, DivisionUnique
    <2> QED BY <1>4, <2>2
  <1> HIDE DEF n, k
  <1> QED BY <1>5 DEF DlCpSlots, n

\* Of two neighbouring slots at most one start symbol is due, and none in slot 0.
LEMMA DueOnce ==
    ASSUME CounterTypes, NEW mu \in Mus, SlotsPerSecond(mu) < MaxSlot(mu),
           NEW slot \in Nat, slot = 0 => OtaSlot(mu) = 0, NEW q \in 0..(N - 1)
    PROVE  LET due == symIdx[mu] + T1aSyms[mu] IN
           DlCpDue(mu, slot, q) <=> slot # 0 /\ slot = due \div N /\ q = due % N
  <1> DEFINE c == symIdx[mu]
             t == T1aSyms[mu]
             s == SlotsPerSecond(mu)
             n == MaxSlot(mu)
             due == c + t
  <1>1. /\ c \in Nat /\ t \in Nat /\ N \in Nat \ {0} /\ s \in Nat /\ n \in Nat
        /\ t < N * s /\ s + 1 <= n /\ due \in Int
    <2>1. c \in Nat /\ t \in Nat /\ N \in Nat \ {0} /\ s \in Nat /\ n \in Nat
      BY FrameSizes, TimingAssumption DEF CounterTypes
    <2>2. t < N * s
      BY LeadAssumption DEF SymsPerSecond
    <2> QED BY <2>1, <2>2
  <1>2. CASE slot # 0
    <2>1. DlCpDue(mu, slot, q) <=> due = slot * N + q
      BY <1>2 DEF DlCpDue
    <2> HIDE DEF c, t, s, n, due
    <2>2. due = slot * N + q => slot = due \div N /\ q = due % N
      <3>1. slot * N = N * slot
        BY <1>1
      <3> QED BY <1>1, <3>1, DivisionUnique
    <2>3. slot = due \div N /\ q = due % N => due = slot * N + q
      <3>1. due = N * (due \div N) + (due % N)
        BY <1>1, Division
      <3>2. N * slot = slot * N
        BY <1>1
      <3> QED BY <3>1, <3>2
    <2> QED BY <1>2, <2>1, <2>2, <2>3 DEF due, c, t
  <1>3. CASE slot = 0
    <2>1. DlCpDue(mu, slot, q) <=> due = n * N + q
      BY <1>3 DEF DlCpDue
    <2>2. c < N
      <3>1. c \div N = 0
        BY <1>3 DEF OtaSlot
      <3> HIDE DEF c, t, s, n, due
      <3>2. c = N * (c \div N) + (c % N) /\ c % N \in 0..(N - 1)
        BY <1>1, Division
      <3> QED BY <1>1, <3>1, <3>2
    <2>3. due < n * N + q
      <3> HIDE DEF c, t, s, n
      <3>1. (s + 1) * N <= n * N
        <4>1. n - (s + 1) \in Nat
          BY <1>1
        <4>2. (n - (s + 1)) * N \in Nat
          BY <1>1, <4>1
        <4>3. (n - (s + 1)) * N = n * N - (s + 1) * N
          BY <1>1
        <4> QED BY <1>1, <4>2, <4>3
      <3>2. (s + 1) * N = N * s + N
        BY <1>1
      <3> DEFINE a == N * s
                 b == n * N
      <3>3. a \in Int /\ b \in Int /\ a + N <= b /\ t < a
        BY <1>1, <3>1, <3>2
      <3> HIDE DEF a, b
      <3>4. c + t < b + q
        BY <1>1, <2>2, <3>3
      <3> QED BY <3>4 DEF b
    <2> DEFINE b == n * N + q
    <2>4. b \in Int
      <3> HIDE DEF n
      <3> QED BY <1>1
    <2> HIDE DEF b, due
    <2>5. due # b
      BY <1>1, <2>3, <2>4 DEF b
    <2> QED BY <1>3, <2>1, <2>5 DEF b
  <1> QED BY <1>2, <1>3

\* get_f_sf_slot names a slot after the first of the second as it is on the air.
LEMMA NamedSlotIsTrue ==
    ASSUME MaxFrame + 1 = SfnModulus, sfnSecStart = SfnAtStartOf(currentSecond),
           sfnSecStart \in Nat, NEW mu \in Mus, NEW slot \in Nat \ {0}
    PROVE  NamedSlot(mu, slot) = TrueSlot(mu, currentSecond, slot)
  <1> DEFINE p == SlotsPerFrame(mu)
             f == sfnSecStart
             M == SfnModulus
             g == (slot \div p + f) % M
  <1>1. p \in Nat \ {0} /\ M \in Nat \ {0} /\ f \in Nat
    BY FrameSizes, TimingAssumption
  <1>2. NamedSlot(mu, slot) = ((g + 0) % M) * p + (slot % p)
    BY DEF NamedSlot, FrameNum
  <1>3. TrueSlot(mu, currentSecond, slot) = (f * p + slot) % (M * p)
    BY DEF TrueSlot, MaxSlot
  <1>4. g \in 0..(M - 1)
    <2> DEFINE k == slot \div p
    <2>1. k \in Int
      <3> HIDE DEF p
      <3> QED BY <1>1, Division
    <2> HIDE DEF k, p, f, M
    <2>2. k + f \in Int
      BY <1>1, <2>1
    <2>3. (k + f) % M \in 0..(M - 1)
      BY <1>1, <2>2, Division
    <2> QED BY <2>3 DEF k
  <1>5. g * p + (slot % p) = (f * p + slot) % (M * p)
    <2> HIDE DEF p, f, M
    <2> QED BY <1>1, FrameAndPlace
  <1>6. (g + 0) % M = g
    <2> HIDE DEF g, M
    <2> QED BY <1>1, <1>4
  <1> HIDE DEF g, p, f, M
  <1> QED BY <1>2, <1>3, <1>5, <1>6

LEMMA NamedPairs ==
    ASSUME NEW mu, NEW slot, NEW Syms
    PROVE  {<<NamedSlot(mu, d[1]), d[2]>> : d \in {slot} \X Syms}
             = {NamedSlot(mu, slot)} \X Syms
  <1> DEFINE L == {<<NamedSlot(mu, d[1]), d[2]>> : d \in {slot} \X Syms}
             R == {NamedSlot(mu, slot)} \X Syms
  <1>1. ASSUME NEW d \in {slot} \X Syms PROVE <<NamedSlot(mu, d[1]), d[2]>> \in R
    BY <1>1
  <1>2. ASSUME NEW e \in R PROVE e \in L
    <2>1. PICK q \in Syms : e = <<NamedSlot(mu, slot), q>>
      OBVIOUS
    <2>2. <<slot, q>> \in {slot} \X Syms /\ <<slot, q>>[1] = slot /\ <<slot, q>>[2] = q
      OBVIOUS
    <2> QED BY <2>1, <2>2
  <1>3. L \subseteq R
    BY <1>1
  <1> QED BY <1>2, <1>3

\* A DL C-plane callback that runs in the slot in which it was armed sends what
\* starts T1a after the current symbol and nothing else, with the slot and frame
\* number it will have on the air, over the end of a second too, where the SFN
\* counts to 1023; without the burst, the next slot's (xran_main.c:647-668 and
\* 1233-1264, xran_cp_proc.c:271-292).  Neither what is due beyond the next
\* slot nor what slot 0 of a second should send for itself is ever due.
\* With xran_max_frame = 99 the statement does not hold: what is sent for slot
\* 0 carries frame 100 instead of 0.
THEOREM DlCpOnTime ==
    ASSUME WorkerSlack <= SymsPerSecond(TimerMu),
           MaxFrame + 1 = SfnModulus, FramesPerSecond < SfnModulus
    PROVE  Spec => DlCpIsOnTime
  <1> DEFINE job == Head(jobs["CP_DL"])
             m == job.mu
  <1>1. ASSUME SlotInv, CtxInv, TxCpDl, aligned, InItsSlot(job)
        PROVE  SentDlCp(m) = OwedDlCp(m)
    <2>1. job \in JobSet /\ Armed("CP_DL", job)
      BY <1>1, HeadIsArmed DEF TxCpDl, SlotInv, JobTypes
    <2>2. Behind(job)
      BY <1>1, <2>1 DEF SlotInv, JobInv
    <2> DEFINE sl == OtaSlot(m)
               due == symIdx[m] + T1aSyms[m]
               dueSlot == due \div N
               dueSym == due % N
               next == timerCtx[m][1 - (tti[m] % 2)]
               Air(x) == TrueSlot(m, currentSecond, x)
               Syms == 0..(N - 1)
    <2>3. /\ m \in Mus /\ sl \in 0..(SlotsPerSecond(m) - 1)
          /\ tti[m] = (sl + 1) % MaxSlot(m) /\ ~(Waiting(m) /\ OtaSymbol(m) = 0)
      BY <1>1, <2>1, <2>2, InOwnSlot
    <2>4. CounterTypes /\ sfnSecStart \in Nat /\ sfnSecStart = SfnAtStartOf(currentSecond)
      BY <1>1, TimingAssumption DEF SlotInv, TypeInv, CounterTypes, SfnInv
    <2>5. SlotsPerSecond(m) \in Nat /\ MaxSlot(m) \in Nat /\ SlotsPerSecond(m) < MaxSlot(m)
      BY <2>3, FrameSizes, SlotsOfSecond
    <2>6. sl \in Nat /\ sl + 1 \in Nat \ {0} /\ sl + 1 < MaxSlot(m)
      <3> HIDE DEF sl
      <3> QED BY <2>3, <2>5
    <2>7. tti[m] = sl + 1
      <3> HIDE DEF sl
      <3>1. (sl + 1) % MaxSlot(m) = sl + 1
        BY <2>5, <2>6
      <3> QED BY <2>3, <3>1
    <2>8. next \in Nat
      <3> HIDE DEF sl, due, dueSlot, dueSym
      <3>1. 1 - (tti[m] % 2) \in {0, 1}
        BY <2>6, <2>7
      <3>2. timerCtx[m][1 - (tti[m] % 2)] \in Nat
        BY <2>3, <2>4, <3>1 DEF CounterTypes
      <3> QED BY <3>2
    <2>9. next % MaxSlot(m) = sl + 1
      BY <1>1, <2>3, <2>7 DEF CtxInv
    <2>10. DlCpSlots(m) = {sl + 1} \cup (IF DlCpProcBurst THEN {sl} ELSE {})
      <3> HIDE DEF sl, next, m
      <3> QED BY <2>3, <2>6, <2>8, <2>9, DlCpSlotsAhead DEF next
    <2>11. \A x \in Nat \ {0} : NamedSlot(m, x) = Air(x)
      BY <2>3, <2>4, NamedSlotIsTrue
    <2>12. CASE ~DlCpProcBurst
      <3>1. OwedDlCp(m) = {Air(sl + 1)} \X Syms
        BY <2>12 DEF OwedDlCp
      <3>2. SentDlCp(m) = {<<NamedSlot(m, d[1]), d[2]>> : d \in {sl + 1} \X Syms}
        BY <2>10, <2>12 DEF SentDlCp
      <3>3. {<<NamedSlot(m, d[1]), d[2]>> : d \in {sl + 1} \X Syms}
              = {NamedSlot(m, sl + 1)} \X Syms
        BY NamedPairs
      <3> HIDE DEF Air, Syms, sl, m
      <3> QED BY <2>6, <2>11, <3>1, <3>2, <3>3
    <2>13. CASE DlCpProcBurst
      <3>1. \A x \in {sl, sl + 1}, q \in Syms :
              DlCpDue(m, x, q) <=> x # 0 /\ x = dueSlot /\ q = dueSym
        <4> SUFFICES ASSUME NEW x \in {sl, sl + 1}, NEW q \in Syms
                     PROVE  DlCpDue(m, x, q) <=> x # 0 /\ x = dueSlot /\ q = dueSym
          OBVIOUS
        <4>1. x \in Nat /\ (x = 0 => OtaSlot(m) = 0)
          <5>1. x = sl \/ x = sl + 1
            OBVIOUS
          <5> HIDE DEF sl
          <5>2. x \in Nat /\ (x = 0 => sl = 0)
            BY <2>6, <5>1
          <5> QED BY <5>2 DEF sl
        <4> QED BY <2>3, <2>4, <2>5, <4>1, DueOnce
      <3>2. dueSym \in Syms
        <4>1. due \in Int /\ N \in Nat \ {0}
          <5> HIDE DEF m
          <5> QED BY <2>3, <2>4, TimingAssumption DEF CounterTypes
        <4> HIDE DEF due
        <4> QED BY <4>1, Division
      <3>3. OwedDlCp(m) = IF dueSlot \in {sl, sl + 1} \ {0}
                            THEN {<<Air(dueSlot), dueSym>>} ELSE {}
        BY <2>13 DEF OwedDlCp
      <3>4. SentDlCp(m) = {<<NamedSlot(m, d[1]), d[2]>> :
                 d \in {x \in {sl, sl + 1} \X Syms : DlCpDue(m, x[1], x[2])}}
        <4>1. DlCpSlots(m) = {sl, sl + 1}
          BY <2>10, <2>13
        <4> QED BY <2>13, <4>1 DEF SentDlCp
      <3> DEFINE D == {x \in {sl, sl + 1} \X Syms : DlCpDue(m, x[1], x[2])}
      <3>5. D = IF dueSlot \in {sl, sl + 1} \ {0} THEN {<<dueSlot, dueSym>>} ELSE {}
        <4> HIDE DEF sl, dueSlot, dueSym, Syms, m
        <4> QED BY <3>1, <3>2
      <3>6. dueSlot \in {sl, sl + 1} \ {0} => dueSlot \in Nat \ {0}
        <4> HIDE DEF sl, dueSlot
        <4> QED BY <2>6
      <3>7. SentDlCp(m) = {<<NamedSlot(m, d[1]), d[2]>> : d \in D}
        BY <3>4
      <3> HIDE DEF D, sl, dueSlot, dueSym, Syms, Air, m
      <3>8. CASE dueSlot \in {sl, sl + 1} \ {0}
        <4>1. D = {<<dueSlot, dueSym>>} /\ NamedSlot(m, dueSlot) = Air(dueSlot)
          BY <2>11, <3>5, <3>6, <3>8
        <4> QED BY <3>3, <3>7, <3>8, <4>1
      <3>9. CASE dueSlot \notin {sl, sl + 1} \ {0}
        BY <3>3, <3>5, <3>7, <3>9
      <3> QED BY <3>8, <3>9
    <2> QED BY <2>12, <2>13
  <1>2. SlotInv /\ CtxInv =>
          [TxCpDl /\ firstCall /\ aligned /\ InItsSlot(Head(jobs["CP_DL"])) =>
             LET mu == Head(jobs["CP_DL"]).mu IN SentDlCp(mu) = OwedDlCp(mu)]_vars
    BY <1>1
  <1>3. FramesPerSecond < MaxFrame + 1
    OBVIOUS
  <1> QED BY <1>2, <1>3, SlotInvariant, ContextInvariant, PTL DEF DlCpIsOnTime

\* tti_to_process of a deadline is the number that the slot has in the period
\* of the SFN, in either of the modes of xran_max_frame.
LEMMA SlotNumberIsTrue ==
    ASSUME FramesPerSecond <= SfnModulus, NEW mu \in Mus, NEW sec \in Nat,
           NEW sl \in 0..(SlotsPerSecond(mu) - 1)
    PROVE  SlotOfSfnPeriod(mu, sl, SfnAtStartOf(sec)) = TrueSlot(mu, sec, sl)
  <1> DEFINE p == SlotsPerFrame(mu)
             M == SfnModulus
             F == FramesPerSecond
             f == SfnAtStartOf(sec)
             q == sl \div p
             r == sl % p
  <1>1. p \in Nat \ {0} /\ M \in Nat \ {0} /\ F \in Nat \ {0} /\ F <= M
        /\ MaxFrame + 1 \in {M, F} /\ SlotsPerSecond(mu) = p * F /\ sl \in 0..(p * F - 1)
    <2>1. p \in Nat \ {0}
      BY FrameSizes
    <2>2. M \in Nat \ {0} /\ F \in Nat \ {0} /\ MaxFrame + 1 \in {M, F}
      BY TimingAssumption
    <2> QED BY <2>1, <2>2 DEF SlotsPerSecond
  <1>2. SlotOfSfnPeriod(mu, sl, f) = ((q + f) % M) * p + r
    BY DEF SlotOfSfnPeriod, FrameNum
  <1>3. TrueSlot(mu, sec, sl) = (f * p + sl) % ((MaxFrame + 1) * p)
    BY DEF TrueSlot, MaxSlot
  <1>4. f = (sec * F) % (MaxFrame + 1)
    BY DEF SfnAtStartOf
  <1> HIDE DEF p, M, F, f, q, r
  <1>5. sec * F \in Nat
    BY <1>1
  <1>6. f \in Nat
    <2> DEFINE m == MaxFrame + 1
               y == sec * F
    <2>1. m \in Nat \ {0} /\ y \in Int /\ f = y % m
      BY <1>1, <1>4, <1>5
    <2> HIDE DEF m, y
    <2>2. y % m \in 0..(m - 1)
      BY <2>1, Division
    <2> QED BY <2>1, <2>2
  <1>7. CASE MaxFrame + 1 = M
    <2>1. ((sl \div p + f) % M) * p + (sl % p) = (f * p + sl) % (M * p)
      <3>1. sl \in Nat
        BY <1>1
      <3> QED BY <1>1, <1>6, <3>1, FrameAndPlace
    <2> QED BY <1>2, <1>3, <1>7, <2>1 DEF q, r, f
  <1>8. CASE MaxFrame + 1 = F
    <2>1. f = 0
      <3>1. (F * sec + 0) % F = 0
        BY <1>1, DivisionUnique
      <3>2. F * sec + 0 = sec * F
        BY <1>1
      <3> QED BY <1>4, <1>8, <3>1, <3>2
    <2>2. q \in 0..(F - 1) /\ r \in 0..(p - 1) /\ sl = p * q + r
      <3>1. q \in 0..(F - 1)
        BY <1>1, QuotientBelow DEF q
      <3>2. sl \in Int
        BY <1>1
      <3>3. r \in 0..(p - 1) /\ sl = p * q + r
        BY <1>1, <3>2, Division DEF q, r
      <3> QED BY <3>1, <3>3
    <2>3. (q + f) % M = q
      BY <1>1, <2>1, <2>2
    <2>4. SlotOfSfnPeriod(mu, sl, f) = sl
      BY <1>1, <1>2, <2>2, <2>3
    <2>5. F * p \in Nat \ {0} /\ sl < F * p
      <3>1. F * p \in Nat \ {0} /\ F * p = p * F
        BY <1>1, PositiveProduct
      <3> QED BY <1>1, <3>1
    <2> DEFINE n == F * p
    <2>6. TrueSlot(mu, sec, sl) = (0 * p + sl) % n
      BY <1>3, <1>8, <2>1
    <2> HIDE DEF n
    <2>7. 0 * p + sl = sl /\ sl % n = sl
      BY <1>1, <2>5 DEF n
    <2> QED BY <2>4, <2>6, <2>7 DEF f
  <1> QED BY <1>1, <1>7, <1>8

\* How far back a deadline's slot lies, in slots and in symbols.
SlotsBack(kind, mu) == SlotAdvance(kind, mu) + (IF kind = "full" THEN 1 ELSE 0)

LEMMA DeadlineWindow ==
    ASSUME NEW kind \in DeadlineKinds, NEW mu \in Mus, timeDiff[mu] \in Nat,
           DeadlineOffset(kind, mu) # N
    PROVE  LET due == timeDiff[mu] + Covered(kind) IN
           /\ due \in Nat /\ SlotsBack(kind, mu) \in Nat
           /\ SlotsBack(kind, mu) * N + DeadlineSym(kind, mu) \in due..(due + N - 1)
           /\ SlotsBack(kind, mu) * N <= timeDiff[mu] + 2 * N
  <1> DEFINE off == DeadlineOffset(kind, mu)
             td == timeDiff[mu]
             h == N \div 4
             g == N \div 2
             q == off \div N
             r == off % N
             back == SlotsBack(kind, mu)
  <1>1. /\ N \in Nat /\ N > 4 /\ h \in Nat /\ g \in Nat /\ td \in Nat
        /\ 4 * h <= N /\ g <= N /\ N < 4 * h + 4 /\ h >= 1
    BY TimingAssumption
  <1>2. /\ kind = "full" => off = td + 0 /\ Covered(kind) = N
        /\ kind = "quarter" => off = td + 1 * h /\ Covered(kind) = h
        /\ kind = "half" => off = td + g /\ Covered(kind) = g
        /\ kind = "threeQuarters" => off = td + 4 * h /\ Covered(kind) = 3 * h
    BY DEF DeadlineOffset, Covered
  <1>3. /\ kind = "full" => back = (IF off > N THEN q ELSE 0) + 1
        /\ kind \in {"quarter", "half"} => back = (IF off > N THEN q ELSE 0) + 0
        /\ kind = "threeQuarters" => back = q + 0
    BY DEF SlotsBack, SlotAdvance
  <1>4. DeadlineSym(kind, mu) = r /\ off # N
    BY DEF DeadlineSym
  <1>5. kind \in {"full", "quarter", "half", "threeQuarters"}
    BY DEF DeadlineKinds
  <1> HIDE DEF off, td, h, g, back
  <1>6. off \in Nat
    BY <1>1, <1>2, <1>5
  <1>7. q \in Nat /\ r \in 0..(N - 1) /\ off = N * q + r
    BY <1>1, <1>6
  <1>8. off < N => q = 0 /\ r = off
    BY <1>1, <1>6
  <1> HIDE DEF q, r
  <1> DEFINE a == IF off > N THEN q ELSE 0
  <1>9. a \in Nat /\ a * N + r = off
    BY <1>1, <1>4, <1>6, <1>7, <1>8
  <1>10. q * N + r = off /\ (q + 0) * N = q * N /\ (a + 0) * N = a * N
         /\ (a + 1) * N = a * N + N
    BY <1>1, <1>7, <1>9
  <1> HIDE DEF a
  <1>11. CASE kind = "full"
    <2>1. back = a + 1 /\ off = td + 0 /\ Covered(kind) = N
      BY <1>2, <1>3, <1>11 DEF a
    <2> DEFINE b == back * N
    <2>2. b = a * N + N
      BY <1>10, <2>1
    <2> DEFINE e == a * N
    <2> HIDE DEF b, e
    <2>3. b = e + N /\ e + r = off /\ e \in Int
      BY <1>1, <1>9, <2>2 DEF e
    <2>4. b + r = td + N /\ b <= td + 2 * N
      BY <1>1, <1>7, <2>1, <2>3
    <2> QED BY <1>1, <1>4, <1>9, <2>1, <2>4 DEF b, td, back
  <1>12. CASE kind # "full"
    <2>1. \E x \in {a, q} : back = x + 0
      BY <1>3, <1>5, <1>12 DEF a
    <2>2. PICK x \in {a, q} : back = x + 0
      BY <2>1
    <2> DEFINE b == back * N
    <2>3. b + r = off /\ back \in Nat /\ b \in Int
      BY <1>1, <1>7, <1>9, <1>10, <2>2
    <2> HIDE DEF b
    <2>4. /\ Covered(kind) \in Nat /\ off >= td + Covered(kind)
          /\ off <= td + Covered(kind) + N - 1 /\ off <= td + N
      BY <1>1, <1>2, <1>5, <1>12
    <2> QED BY <1>1, <1>4, <1>7, <2>3, <2>4 DEF b, td, back
  <1> QED BY <1>11, <1>12

LEMMA BackAndForth ==
    ASSUME NEW n \in Nat \ {0}, NEW d \in 0..(n - 1), NEW b \in 0..(n - 1)
    PROVE  (d - ((d + n - b) % n)) % n = b
  <1> DEFINE r == (d + n - b) % n
  <1>1. r = IF d >= b THEN d - b ELSE d + n - b
    <2>1. CASE d >= b
      <3>1. (n * 1 + (d - b)) % n = d - b
        BY <2>1, DivisionUnique
      <3>2. n * 1 + (d - b) = d + n - b
        OBVIOUS
      <3> QED BY <2>1, <3>1, <3>2
    <2>2. CASE d < b
      BY <2>2
    <2> QED BY <2>1, <2>2
  <1> HIDE DEF r
  <1>2. CASE d >= b
    BY <1>1, <1>2 DEF r
  <1>3. CASE d < b
    <2>1. d - r = b - n
      BY <1>1, <1>3
    <2>2. (n * (-1) + b) % n = b
      BY DivisionUnique
    <2>3. n * (-1) + b = b - n
      OBVIOUS
    <2> QED BY <2>1, <2>2, <2>3 DEF r
  <1> QED BY <1>2, <1>3

\* Ta4_max is shorter than an SFN period but for two slots.
ShortWindows ==
    \A d \in TimeDiffs, mu \in Mus : d[mu] + 2 * N < MaxSlot(mu) * N

\* A deadline callback that runs in the slot in which it was armed reports the
\* slot whose covered symbols, plus Ta4_max, have just passed, unless its offset
\* is a whole slot (xran_timing_create_cbs, rx_ul_deadline_*_cb); also in the
\* first slots of a second and of an SFN period.
THEOREM DeadlinesCoverWindows ==
    ASSUME WorkerSlack <= SymsPerSecond(TimerMu), FramesPerSecond <= SfnModulus, ShortWindows
    PROVE  Spec => DeadlineCoversWindow
  <1> DEFINE job == Head(jobs["DEADLINE"])
             m == job.mu
  <1>1. ASSUME SlotInv, RxUlDeadline, aligned, InItsSlot(job), DeadlineOffset(job.kind, m) # N
        PROVE  ReportsEndedWindow(job)
    <2>1. job \in JobSet /\ Armed("DEADLINE", job)
      BY <1>1, HeadIsArmed DEF RxUlDeadline, SlotInv, JobTypes
    <2>2. Behind(job) /\ Reportable(job)
      BY <1>1, <2>1 DEF SlotInv, JobInv
    <2>3. /\ m \in Mus /\ SlotOf(job) = OtaSlot(m)
          /\ OtaSlot(m) \in 0..(SlotsPerSecond(m) - 1)
          /\ sfnSecStart = SfnAtStartOf(job.sec)
      BY <1>1, <2>1, <2>2, InOwnSlot
    <2> DEFINE D == TrueSlot(m, job.sec, SlotOf(job))
               n == MaxSlot(m)
               b == SlotsBack(job.kind, m)
               r == DeadlineSym(job.kind, m)
               due == timeDiff[m] + Covered(job.kind)
    <2>4. deadlineTti[m] = D
      <3>1. deadlineTti[m] = SlotOfSfnPeriod(m, OtaSlot(m), sfnSecStart)
        BY <1>1, <2>2 DEF Reportable
      <3>2. job.sec \in Nat
        BY <2>1, SecondNotEmpty DEF JobSet
      <3> HIDE DEF D, m
      <3> QED BY <2>3, <3>1, <3>2, SlotNumberIsTrue DEF D, m
    <2>5. n \in Nat \ {0} /\ N \in Nat \ {0}
      BY <2>3, FrameSizes
    <2>6. D \in 0..(n - 1)
      <3>1. SfnAtStartOf(job.sec) \in Nat /\ SlotsPerFrame(m) \in Nat /\ SlotOf(job) \in Nat
        BY <1>1, <2>3, FrameSizes DEF SlotInv, TypeInv, CounterTypes
      <3>2. SfnAtStartOf(job.sec) * SlotsPerFrame(m) + SlotOf(job) \in Int
        BY <3>1
      <3> QED BY <2>5, <3>2, Division DEF TrueSlot
    <2>7. timeDiff \in TimeDiffs /\ timeDiff[m] \in Nat
      BY <1>1, <2>3, TimingAssumption DEF SlotInv, TypeInv, PlaceTypes
    <2>8. /\ due \in Nat /\ b \in Nat /\ b * N + r \in due..(due + N - 1)
          /\ b * N <= timeDiff[m] + 2 * N
      BY <1>1, <2>2, <2>3, <2>7, DeadlineWindow DEF Reportable
    <2>9. timeDiff[m] + 2 * N < n * N
      BY <2>3, <2>7 DEF ShortWindows
    <2>10. Coarser(m, job.sym) % N = r
      BY <2>2 DEF Reportable
    <2>11. ReportedSlot(job.kind, m) = (D + n - b) % n
      <3> DEFINE e == IF job.kind = "full" THEN 1 ELSE 0
                 a == SlotAdvance(job.kind, m)
      <3>1. ReportedSlot(job.kind, m) = (D + n - e - a) % n /\ b = a + e
        BY <2>4 DEF ReportedSlot, SlotsBack
      <3>2. a \in Int /\ e \in Int
        <4>1. DeadlineOffset(job.kind, m) \in Int
          BY <2>2, <2>5, <2>7 DEF DeadlineOffset, Reportable, DeadlineKinds
        <4>2. a = 0 \/ a = DeadlineOffset(job.kind, m) \div N
          BY DEF SlotAdvance
        <4> HIDE DEF a
        <4> QED BY <2>5, <4>1, <4>2, Division
      <3> HIDE DEF e, a, b, D, n
      <3>3. D + n - e - a = D + n - b
        BY <2>5, <2>6, <3>1, <3>2
      <3> QED BY <3>1, <3>3
    <2>12. b < n
      <3> HIDE DEF b, n
      <3> SUFFICES ASSUME b >= n PROVE FALSE
        BY <2>5, <2>8
      <3>1. b * N >= n * N
        BY <2>5, <2>8
      <3> QED BY <2>5, <2>7, <2>8, <2>9, <3>1
    <2>13. (D - ReportedSlot(job.kind, m)) % n = b
      <3>1. b \in Nat
        BY <2>8
      <3> HIDE DEF b, n, D
      <3>2. b \in 0..(n - 1)
        BY <2>5, <2>12, <3>1
      <3>3. (D - ((D + n - b) % n)) % n = b
        BY <2>5, <2>6, <3>2, BackAndForth
      <3> QED BY <2>11, <3>3
    <2>14. Elapsed(job) = b * N + r
      BY <2>10, <2>13 DEF Elapsed
    <2> HIDE DEF b, r
    <2> QED BY <2>8, <2>14 DEF ReportsEndedWindow
  <1>2. SlotInv =>
          [RxUlDeadline /\ ruOpen /\ aligned =>
             LET jb == Head(jobs["DEADLINE"]) IN
             InItsSlot(jb) /\ DeadlineOffset(jb.kind, jb.mu) # N =>
                ReportsEndedWindow(jb)]_vars
    BY <1>1
  <1> QED BY <1>2, SlotInvariant, PTL DEF DeadlineCoversWindow

(***************************************************************************)
(* The slots that the PHY is called for.  Once a symbol 0 has been served  *)
(* the thread serves every symbol (Going), until it leaves.  A thread that *)
(* was started anew first waits for the next second (Restarted).           *)
(***************************************************************************)
Going ==
    \/ pc = "exit"
    \/ /\ ifState = "RUNNING"
       /\ sym[TimerMu] = IF pc = "poll" THEN (OtaSymbol(TimerMu) + 1) % N
                         ELSE OtaSymbol(TimerMu)

Restarted == pc = "poll" /\ clkSec # lastSec /\ symIdx[TimerMu] = 0 /\ ~firstCall

\* The thread is not later than the bound, but when it waits for a second.
LagInv == Lag <= MaxLag \/ (Restarted /\ clkSym = 0)

\* A TTI callback was armed at the start of a slot; if that was in this second,
\* the thread has been serving every symbol since.
InSequence(job) ==
    /\ job.mu = TimerMu /\ job.sym % N = 0
    /\ job.sec = lastSec /\ ~Restarted =>
          /\ symIdx[TimerMu] = lastSym /\ job.sym <= lastSym
          /\ pc = "dispatch" => job.sym < lastSym
          /\ disturbed \/ Going

TtiInv == \A job \in JobSet : Armed("TTI", job) => InSequence(job)

\* TTI callbacks wait in the order of their slots.
OrderInv ==
    \A i, j \in DOMAIN jobs["TTI"] : i < j /\ jobs["TTI"][i].sec = lastSec =>
        jobs["TTI"][j].sec = lastSec /\ jobs["TTI"][i].sym < jobs["TTI"][j].sym

\* Outside a stop, the SFN at the start of the second is right or still that of
\* the first second.
FirstSfnInv == sfnSecStart = SfnAtStartOf(currentSecond) \/ sfnSecStart = 0

SlotNow == TrueSlot(TimerMu, currentSecond, OtaSlot(TimerMu))

\* Since first_call was set: the callback of the current slot has run and the
\* next slot is the one to count, or that slot is about to be armed, or its
\* callback is the first that waits.
SlotIsServed ==
    /\ jobs["TTI"] = <<>>
    /\ TrueSlot(TimerMu, currentSecond, OtaSlot(TimerMu) + 1) = served
    /\ Going /\ symIdx[TimerMu] = lastSym /\ (pc = "dispatch" => OtaSymbol(TimerMu) # 0)

AtNextSlot ==
    /\ jobs["TTI"] = <<>> /\ SlotNow = served /\ pc = "dispatch" /\ ifState = "RUNNING"
    /\ OtaSymbol(TimerMu) = 0 /\ sym[TimerMu] = 0

NextSlotWaits ==
    /\ jobs["TTI"] # <<>>
    /\ TrueSlot(TimerMu, Head(jobs["TTI"]).sec, SlotOf(Head(jobs["TTI"]))) = served

FirstInv ==
    /\ ~firstCall => served = 0
    /\ firstCall => ttiCb
    /\ firstCall /\ ~disturbed => SlotIsServed \/ AtNextSlot \/ NextSlotWaits

\* More than one slot to a frame, a wake-up that is late by a slot at most, and
\* seconds whose frames the SFN's bits can tell apart.
FirstCallAssumption ==
    /\ SlotsPerFrame(TimerMu) > 1 /\ MaxLag <= N
    /\ FramesPerSecond <= SfnModulus /\ WorkerSlack <= SymsPerSecond(TimerMu)

LEMMA ServingStep ==
    ASSUME [Next]_vars
    PROVE  \/ ClockAdvance \/ PollNewSecond \/ PollSymbol \/ Dispatch \/ DispatchIdle
           \/ AdvanceSyms \/ TimingStart
           \/ /\ UNCHANGED <<clockVars, tickVars, sym, pc>>
              /\ disturbed => disturbed'
              /\ ifState = "RUNNING" => ifState' = "RUNNING" \/ disturbed'
              /\ ttiCb => ttiCb'
              /\ \/ TtiToPhy \/ UNCHANGED <<firstCall, served>>
                 \/ disturbed' /\ firstCall' = firstCall /\ served' = 0
  BY DEF Next, vars, clockVars, tickVars, slotVars, threadVars, lifeVars, phyVars,
         SymOtaCb, TtiToPhy, TxCpDl, RxUlDeadline, XranStart, XranStop, RegTtiCb,
         ActivateCc, DeactivateCc, TimingStop

\* A TTI callback that runs at symbol 0 of a second is not in the last slot.
LEMMA NotLastAtStart ==
    ASSUME CounterTypes, SlotsPerFrame(TimerMu) > 1, AtLastSlotOfSfn
    PROVE  symIdx[TimerMu] # 0
  <1> DEFINE p == SlotsPerFrame(TimerMu)
  <1>1. p \in Nat /\ p > 1 /\ N \in Nat \ {0}
    BY SecondNotEmpty, FrameSizes
  <1>2. (symIdx[TimerMu] \div N) % p = p - 1
    BY DEF AtLastSlotOfSfn, OtaSlot
  <1> HIDE DEF p
  <1>3. (N * 0 + 0) \div N = 0 /\ (p * 0 + 0) % p = 0
    BY <1>1, DivisionUnique
  <1>4. N * 0 + 0 = 0 /\ p * 0 + 0 = 0
    BY <1>1
  <1>5. 0 \div N = 0 /\ 0 % p = 0
    BY <1>3, <1>4
  <1> QED BY <1>1, <1>2, <1>5

LEMMA RestartedNext ==
    ASSUME TypeInv, SlotsPerFrame(TimerMu) > 1, Restarted, [Next]_vars, ~PollNewSecond
    PROVE  Restarted'
  <1>1. /\ pc = "poll" /\ clkSec # lastSec /\ symIdx[TimerMu] = 0 /\ ~firstCall
        /\ currentSecond = lastSec /\ tmState # "EXIT"
    BY DEF Restarted, TypeInv, StepInv, InStep, ThreadInSecond
  <1>2. CASE ClockAdvance
    <2>1. Lag = SymsPerSecond(TimerMu) - lastSym + clkSym /\ Lag < MaxLag
      BY <1>1, <1>2 DEF Lag, ClockAdvance
    <2>2. clkSym + 1 < SymsPerSecond(TimerMu)
      BY <2>1, SecondNotEmpty DEF TypeInv, StepInv, ClockTypes
    <2>3. clkSec' = clkSec /\ UNCHANGED <<tickVars, threadVars, phyVars>>
      BY <1>2, <2>2 DEF ClockAdvance
    <2> QED BY <1>1, <2>3 DEF Restarted, tickVars, threadVars, phyVars
  <1>3. CASE UNCHANGED <<clockVars, tickVars, sym, pc>> /\ firstCall' = firstCall
    BY <1>1, <1>3 DEF Restarted, clockVars, tickVars
  <1>4. CASE UNCHANGED <<clockVars, tickVars, sym, pc>> /\ TtiToPhy
    <2>1. ~AtLastSlotOfSfn
      BY <1>1, NotLastAtStart DEF TypeInv
    <2>2. ~firstCall'
      BY <1>1, <1>4, <2>1 DEF TtiToPhy
    <2> QED BY <1>1, <1>4, <2>2 DEF Restarted, clockVars, tickVars
  <1>5. ~PollSymbol /\ ~Dispatch /\ ~DispatchIdle /\ ~AdvanceSyms /\ ~TimingStart
    BY <1>1 DEF PollSymbol, Dispatch, DispatchIdle, AdvanceSyms, TimingStart
  <1> QED BY <1>2, <1>3, <1>4, <1>5, ServingStep

\* A thread that is started anew waits for the next second.
LEMMA StartWaits ==
    ASSUME TypeInv, TimingStart
    PROVE  Restarted' /\ clkSym' = 0
  <1>1. /\ pc' = "poll" /\ symIdx' = [mu \in Mus |-> 0] /\ clkSym' = 0 /\ firstCall' = FALSE
        /\ clkSec' = (clkSec + 1) % SecondsCycle /\ lastSec' = lastSec /\ pc = "exit"
    BY DEF TimingStart, TypeInv, StepInv, ThreadInSecond
  <1>2. clkSec = lastSec /\ clkSec \in 0..(SecondsCycle - 1)
    BY <1>1 DEF TypeInv, StepInv, ThreadInSecond, ClockTypes
  <1>3. clkSec' # lastSec'
    <2>1. (clkSec - clkSec) % SecondsCycle \in 0..1
      BY <1>2, SecondNotEmpty
    <2>2. (clkSec + 1) % SecondsCycle # clkSec
      BY <1>2, <2>1, CycleDifference, SecondNotEmpty
    <2> QED BY <1>1, <1>2, <2>2
  <1> QED BY <1>1, <1>3, SecondNotEmpty DEF Restarted

LEMMA LagInvNext ==
    ASSUME TypeInv, SlotsPerFrame(TimerMu) > 1, LagInv, [Next]_vars
    PROVE  LagInv'
  <1> DEFINE n == SymsPerSecond(TimerMu)
  <1>1. /\ n \in Nat \ {0} /\ MaxLag \in Nat /\ MaxLag <= n /\ SecondsCycle \in Nat
        /\ SecondsCycle > 2
        /\ clkSym \in 0..(n - 1) /\ lastSym \in 0..(n - 1) /\ currentSecond = lastSec
        /\ clkSec \in 0..(SecondsCycle - 1)
    BY SecondNotEmpty DEF TypeInv, StepInv, ClockTypes, InStep
  <1>2. Lag = IF clkSec = lastSec THEN clkSym - lastSym ELSE n - lastSym + clkSym
    BY DEF Lag
  <1>3. Lag' = IF clkSec' = lastSec' THEN clkSym' - lastSym' ELSE n - lastSym' + clkSym'
    BY DEF Lag
  <1> HIDE DEF n
  <1>4. CASE ClockAdvance
    <2>1. Lag < MaxLag /\ lastSec' = lastSec /\ lastSym' = lastSym
      BY <1>4 DEF ClockAdvance, tickVars
    <2>2. CASE clkSym + 1 < n
      <3>1. clkSym' = clkSym + 1 /\ clkSec' = clkSec
        BY <1>4, <2>2 DEF ClockAdvance, n
      <3> QED BY <1>1, <1>2, <1>3, <2>1, <3>1 DEF LagInv
    <2>3. CASE ~(clkSym + 1 < n)
      <3>1. clkSym = n - 1 /\ clkSym' = 0 /\ clkSec' = (clkSec + 1) % SecondsCycle
        BY <1>1, <1>4, <2>3 DEF ClockAdvance, n
      <3>2. clkSec = lastSec
        BY <1>1, <1>2, <2>1, <3>1
      <3>3. clkSec' # lastSec'
        <4>1. (clkSec - clkSec) % SecondsCycle \in 0..1
          BY <1>1
        <4>2. (clkSec + 1) % SecondsCycle # clkSec
          BY <1>1, <4>1, CycleDifference
        <4> QED BY <2>1, <3>1, <3>2, <4>2
      <3>4. Lag' = Lag + 1
        BY <1>1, <1>2, <1>3, <2>1, <3>1, <3>2, <3>3
      <3>5. Lag \in Int
        BY <1>1, <1>2
      <3> QED BY <1>1, <2>1, <3>4, <3>5 DEF LagInv
    <2> QED BY <2>2, <2>3
  <1>5. CASE PollNewSecond
    <2>1. /\ lastSec' = clkSec /\ lastSym' = 0 /\ clkSec' = clkSec /\ clkSym' = clkSym
          /\ clkSec # lastSec
      BY <1>1, <1>5 DEF PollNewSecond, clockVars
    <2>2. Lag' = clkSym /\ Lag = n - lastSym + clkSym
      BY <1>1, <1>2, <1>3, <2>1
    <2> QED BY <1>1, <2>2 DEF LagInv
  <1>6. CASE PollSymbol
    <2>1. /\ lastSec' = lastSec /\ lastSym' = lastSym + 1 /\ clkSec' = clkSec
          /\ clkSym' = clkSym /\ clkSec = lastSec
      BY <1>1, <1>6 DEF PollSymbol, clockVars
    <2>2. Lag <= MaxLag
      BY <2>1 DEF LagInv, Restarted
    <2> QED BY <1>1, <1>2, <1>3, <2>1, <2>2 DEF LagInv
  <1>7. CASE TimingStart
    BY <1>7, StartWaits DEF LagInv
  <1>8. CASE UNCHANGED <<clkSec, clkSym, lastSec, lastSym>> /\ ~PollNewSecond
    <2>1. Lag' = Lag
      BY <1>2, <1>3, <1>8
    <2>2. CASE Lag <= MaxLag
      BY <2>1, <2>2 DEF LagInv
    <2>3. CASE Restarted /\ clkSym = 0
      BY <1>8, <2>3, RestartedNext DEF LagInv
    <2> QED BY <2>2, <2>3 DEF LagInv
  <1>9. \/ ClockAdvance \/ PollNewSecond \/ PollSymbol \/ TimingStart
        \/ UNCHANGED <<clkSec, clkSym, lastSec, lastSym>>
    BY ServingStep DEF Dispatch, DispatchIdle, AdvanceSyms, clockVars, tickVars
  <1> QED BY <1>4, <1>5, <1>6, <1>7, <1>8, <1>9

\* What becomes of the queue of TTI callbacks.
LEMMA TtiQueueNext ==
    ASSUME TypeInv, [Next]_vars
    PROVE  \/ jobs'["TTI"] = jobs["TTI"]
           \/ /\ Dispatch /\ Due(TimerMu) /\ OtaSymbol(TimerMu) = 0
              /\ jobs'["TTI"] = Append(jobs["TTI"], Job("tti", TimerMu))
           \/ TtiToPhy /\ jobs["TTI"] # <<>> /\ jobs'["TTI"] = Tail(jobs["TTI"])
  <1> DEFINE J == JobSet
  <1>1. jobs \in [JobTypes -> Seq(J)] /\ JobTypes = {"TTI", "CP_DL", "DEADLINE"}
    BY DEF TypeInv, QueueTypes, JobTypes
  <1> HIDE DEF J
  <1>2. CASE jobs' = jobs
    BY <1>2
  <1>3. CASE Dispatch /\ jobs' # jobs
    <2>1. /\ Due(TimerMu) /\ OtaSymbol(TimerMu) = 0
          /\ jobs' = [jobs EXCEPT !["TTI"] = Append(jobs["TTI"], Job("tti", TimerMu))]
      BY <1>3 DEF Dispatch
    <2> QED BY <1>1, <1>3, <2>1
  <1>4. ASSUME NEW mu \in Mus, SymOtaCb(mu) PROVE jobs'["TTI"] = jobs["TTI"]
    <2> DEFINE A == ArmedDeadlines(mu)
               c == IF OtaSymbol(mu) \in DlCpSyms THEN Append(jobs["CP_DL"], Job("cpDl", mu))
                    ELSE jobs["CP_DL"]
               d == IF A = {} THEN jobs["DEADLINE"]
                    ELSE Append(jobs["DEADLINE"], Job(CHOOSE k \in A : TRUE, mu))
    <2>1. jobs' = jobs \/ jobs' = [jobs EXCEPT !["CP_DL"] = c, !["DEADLINE"] = d]
      BY <1>4 DEF SymOtaCb, ArmSymbol
    <2> HIDE DEF c, d
    <2> QED BY <1>1, <2>1
  <1>5. ASSUME NEW x \in JobTypes, x # "TTI", Take(x) PROVE jobs'["TTI"] = jobs["TTI"]
    BY <1>1, <1>5 DEF Take
  <1>6. CASE TtiToPhy
    BY <1>1, <1>6 DEF TtiToPhy, Take
  <1>7. jobs' = jobs \/ Dispatch \/ (\E mu \in Mus : SymOtaCb(mu)) \/ TtiToPhy
           \/ (\E x \in JobTypes : x # "TTI" /\ Take(x))
    BY DEF Next, vars, ClockAdvance, PollNewSecond, PollSymbol, DispatchIdle, AdvanceSyms,
           TxCpDl, RxUlDeadline, XranStart, XranStop, RegTtiCb, ActivateCc, DeactivateCc,
           TimingStop, TimingStart, JobTypes
  <1> QED BY <1>2, <1>3, <1>4, <1>5, <1>6, <1>7

\* The highest numerology's index moves on with every symbol.
LEMMA PollSymbolHighest ==
    ASSUME TypeInv, PollSymbol
    PROVE  /\ symIdx[TimerMu] = lastSym /\ symIdx'[TimerMu] = lastSym + 1
           /\ lastSym \in Nat /\ lastSym' = lastSym + 1 /\ pc = "poll" /\ pc' = "dispatch"
  <1>1. /\ symIdx' = [mu \in Mus |-> Coarser(mu, symIdx[TimerMu] + 1)]
        /\ symIdx[TimerMu] = lastSym
    BY PollSymbolIndex DEF TypeInv
  <1>2. TimerMu \in Mus /\ lastSym \in Nat
    BY SecondNotEmpty DEF TypeInv, StepInv, ClockTypes
  <1>3. Coarser(TimerMu, lastSym + 1) = lastSym + 1
    BY <1>2, CoarserOfHighest
  <1> QED BY <1>1, <1>2, <1>3 DEF PollSymbol

\* The thread keeps serving unless the interface is stopped.
LEMMA GoingNext ==
    ASSUME TypeInv, Going, [Next]_vars, ~PollNewSecond, ~TimingStart
    PROVE  disturbed' \/ Going'
  <1> DEFINE m == TimerMu
  <1>1. /\ m \in Mus /\ N \in Nat \ {0} /\ symIdx[m] \in Nat /\ sym \in [Mus -> 0..(N - 1)]
        /\ symIdx \in [Mus -> Nat]
    BY SecondNotEmpty, TimingAssumption DEF TypeInv, CounterTypes
  <1>2. CASE PollSymbol
    <2>1. /\ ifState = "RUNNING" /\ sym[m] = (OtaSymbol(m) + 1) % N /\ sym' = sym
          /\ ifState' = ifState /\ pc' = "dispatch"
      BY <1>2 DEF Going, PollSymbol, slotVars, lifeVars
    <2>2. symIdx'[m] = symIdx[m] + 1
      BY <1>2, PollSymbolHighest
    <2>3. ((symIdx[m] % N) + 1) % N = (symIdx[m] + 1) % N
      BY <1>1, NextSymbolOfSlot
    <2>4. sym'[m] = OtaSymbol(m)'
      BY <2>1, <2>2, <2>3 DEF OtaSymbol
    <2> QED BY <2>1, <2>4 DEF Going
  <1>3. CASE AdvanceSyms
    <2>1. /\ ifState = "RUNNING" /\ sym[m] = OtaSymbol(m) /\ Due(m)
          /\ ifState' = ifState /\ symIdx' = symIdx /\ pc' \in {"poll", "exit"}
      BY <1>3 DEF Going, AdvanceSyms, Loop, lifeVars, tickVars, Due
    <2>2. sym'[m] = (sym[m] + 1) % N
      BY <1>1, <1>3, <2>1 DEF AdvanceSyms
    <2> QED BY <2>1, <2>2 DEF Going, OtaSymbol
  <1>4. CASE Dispatch
    BY <1>4 DEF Dispatch, Going, OtaSymbol, tickVars, lifeVars
  <1>5. CASE ClockAdvance
    BY <1>5 DEF ClockAdvance, Going, OtaSymbol, tickVars, slotVars, lifeVars, threadVars
  <1>6. CASE UNCHANGED <<clockVars, tickVars, sym, pc>>
               /\ (ifState = "RUNNING" => ifState' = "RUNNING" \/ disturbed')
    BY <1>6 DEF Going, OtaSymbol, tickVars
  <1>7. ~DispatchIdle
    BY DEF DispatchIdle, Going
  <1> QED BY <1>2, <1>3, <1>4, <1>5, <1>6, <1>7, ServingStep

LEMMA TtiInvNext ==
    ASSUME TypeInv, NearInv, JobInv, TtiInv, FirstCallAssumption, [Next]_vars
    PROVE  TtiInv'
  <1> SUFFICES ASSUME NEW job \in JobSet, Armed("TTI", job)' PROVE InSequence(job)'
    BY DEF TtiInv
  <1> DEFINE m == TimerMu
  <1>1. CASE Dispatch /\ Due(m) /\ OtaSymbol(m) = 0 /\ job = Job("tti", m)
    <2>1. job.mu = m /\ job.sym = lastSym /\ job.sec = lastSec
      BY <1>1 DEF Job
    <2>2. symIdx[m] = lastSym /\ lastSym \in Int
      BY <1>1 DEF Dispatch, TypeInv, StepInv, InStep, ClockTypes
    <2>3. /\ lastSec' = lastSec /\ lastSym' = lastSym /\ symIdx' = symIdx /\ pc' = "symbols"
          /\ ifState' = "RUNNING" /\ sym' = sym
      BY <1>1 DEF Dispatch, tickVars, lifeVars
    <2>4. Going'
      BY <1>1, <2>3 DEF Going, Due, OtaSymbol
    <2> QED BY <1>1, <2>1, <2>2, <2>3, <2>4 DEF InSequence, OtaSymbol
  <1>2. CASE Armed("TTI", job)
    <2>1. InSequence(job) /\ Recent(job)
      BY <1>2 DEF TtiInv, JobInv, JobTypes
    <2>2. PollNewSecond => job.sec # lastSec'
      BY <1>2, <2>1, RecentNext DEF FirstCallAssumption, JobTypes
    <2> SUFFICES ASSUME job.sec = lastSec', ~Restarted', ~PollNewSecond
                 PROVE  /\ symIdx'[m] = lastSym' /\ job.sym <= lastSym'
                        /\ pc' = "dispatch" => job.sym < lastSym'
                        /\ disturbed' \/ Going'
      BY <2>1, <2>2 DEF InSequence
    <2>3. ~Restarted
      BY RestartedNext DEF FirstCallAssumption
    <2>4. ~TimingStart
      BY StartWaits
    <2>5. /\ symIdx[m] = lastSym /\ job.sym <= lastSym /\ (pc = "dispatch" => job.sym < lastSym)
          /\ disturbed \/ Going
      <3>1. lastSec' = lastSec
        BY <2>4, ServingStep DEF ClockAdvance, PollSymbol, Dispatch, DispatchIdle,
               AdvanceSyms, tickVars
      <3> QED BY <2>1, <2>3, <3>1 DEF InSequence
    <2>6. disturbed' \/ Going'
      <3>1. disturbed => disturbed'
        BY <2>4, ServingStep DEF ClockAdvance, PollSymbol, Dispatch, DispatchIdle,
               AdvanceSyms, phyVars
      <3> QED BY <2>4, <2>5, <3>1, GoingNext
    <2>7. CASE PollSymbol
      <3>1. symIdx'[m] = lastSym + 1 /\ lastSym' = lastSym + 1 /\ lastSym \in Nat
        BY <2>7, PollSymbolHighest
      <3>2. job.sym \in Int
        BY DEF JobSet
      <3> QED BY <2>5, <2>6, <3>1, <3>2
    <2>8. CASE UNCHANGED <<symIdx, lastSym>> /\ (pc' = "dispatch" => pc = "dispatch")
      BY <2>5, <2>6, <2>8
    <2>9. PollSymbol \/ (UNCHANGED <<symIdx, lastSym>> /\ (pc' = "dispatch" => pc = "dispatch"))
      BY <2>4, ServingStep DEF ClockAdvance, Dispatch, DispatchIdle, AdvanceSyms, tickVars,
             threadVars, Loop
    <2> QED BY <2>7, <2>8, <2>9
  <1>3. \/ Armed("TTI", job)
        \/ Dispatch /\ Due(m) /\ OtaSymbol(m) = 0 /\ job = Job("tti", m)
    <2>1. Armed("TTI", job) \/ (Dispatch /\ job = Job("tti", m))
      BY ArmedNext DEF JobTypes
    <2>2. Dispatch => (Due(m) /\ OtaSymbol(m) = 0) \/ jobs' = jobs
      BY DEF Dispatch
    <2> QED BY <2>1, <2>2 DEF Armed
  <1> QED BY <1>1, <1>2, <1>3

\* A TTI callback is armed after those that wait.
LEMMA OrderInvNext ==
    ASSUME TypeInv, NearInv, JobInv, TtiInv, OrderInv, FirstCallAssumption, [Next]_vars
    PROVE  OrderInv'
  <1> DEFINE q == jobs["TTI"]
             J == JobSet
  <1>1. q \in Seq(J)
    BY DEF TypeInv, QueueTypes, JobTypes
  <1>2. \A i \in DOMAIN q : q[i] \in J /\ Armed("TTI", q[i])
    BY <1>1 DEF Armed
  <1>3. CASE PollNewSecond
    <2>1. q' = q
      BY <1>3 DEF PollNewSecond
    <2>2. \A i \in DOMAIN q : q[i].sec # lastSec'
      <3> SUFFICES ASSUME NEW i \in DOMAIN q PROVE q[i].sec # lastSec'
        OBVIOUS
      <3>1. q[i] \in JobSet /\ Armed("TTI", q[i]) /\ "TTI" \in JobTypes
        BY <1>2 DEF JobTypes
      <3>2. Recent(q[i])
        BY <3>1 DEF JobInv
      <3> HIDE DEF q
      <3> QED BY <1>3, <3>1, <3>2, RecentNext DEF FirstCallAssumption
    <2> QED BY <2>1, <2>2 DEF OrderInv
  <1>4. CASE q' = q /\ lastSec' = lastSec
    BY <1>4 DEF OrderInv
  <1>5. CASE Dispatch /\ q' = Append(q, Job("tti", TimerMu))
    <2> DEFINE job == Job("tti", TimerMu)
    <2>1. job.sec = lastSec /\ job.sym = lastSym /\ lastSec' = lastSec /\ pc = "dispatch"
      BY <1>5 DEF Job, Dispatch, tickVars
    <2>2. \A i \in DOMAIN q : q[i].sec = lastSec => q[i].sym < lastSym
      BY <1>2, <2>1 DEF TtiInv, InSequence, Restarted
    <2> HIDE DEF job, q, J
    <2>3. /\ DOMAIN q = 1..Len(q) /\ Len(q) \in Nat /\ DOMAIN q' = 1..(Len(q) + 1)
          /\ \A i \in DOMAIN q : q'[i] = q[i]
          /\ q'[Len(q) + 1] = job
      BY <1>1, <1>5 DEF job
    <2> SUFFICES ASSUME NEW i \in DOMAIN q', NEW j \in DOMAIN q', i < j, q'[i].sec = lastSec
                 PROVE  q'[j].sec = lastSec /\ q'[i].sym < q'[j].sym
      BY <2>1 DEF OrderInv, q
    <2>4. CASE j = Len(q) + 1
      <3>1. i \in DOMAIN q /\ q'[i] = q[i] /\ q'[j] = job
        BY <2>3, <2>4
      <3> QED BY <2>1, <2>2, <3>1
    <2>5. CASE j # Len(q) + 1
      <3>1. i \in DOMAIN q /\ j \in DOMAIN q /\ q'[i] = q[i] /\ q'[j] = q[j]
        BY <2>3, <2>5
      <3> QED BY <3>1 DEF OrderInv, q
    <2> QED BY <2>4, <2>5
  <1>6. CASE TtiToPhy /\ q # <<>> /\ q' = Tail(q)
    <2>1. lastSec' = lastSec
      BY <1>6 DEF TtiToPhy, tickVars
    <2> HIDE DEF q, J
    <2>2. \A i \in DOMAIN q' : /\ i \in Int /\ i + 1 \in DOMAIN q /\ q'[i] = q[i + 1]
      BY <1>1, <1>6
    <2> SUFFICES ASSUME NEW i \in DOMAIN q', NEW j \in DOMAIN q', i < j, q'[i].sec = lastSec
                 PROVE  q'[j].sec = lastSec /\ q'[i].sym < q'[j].sym
      BY <2>1 DEF OrderInv, q
    <2>3. i + 1 < j + 1
      BY <2>2
    <2> QED BY <2>2, <2>3 DEF OrderInv, q
  <1>7. lastSec' = lastSec \/ PollNewSecond
    BY ServingStep DEF ClockAdvance, PollSymbol, Dispatch, DispatchIdle, AdvanceSyms,
           TimingStart, tickVars
  <1> QED BY <1>3, <1>4, <1>5, <1>6, <1>7, TtiQueueNext DEF Dispatch, TtiToPhy, tickVars

LEMMA FirstSfnInvNext == FirstSfnInv /\ [Next]_vars => FirstSfnInv'
  <1> SUFFICES ASSUME FirstSfnInv, [Next]_vars PROVE FirstSfnInv'
    OBVIOUS
  <1>1. CASE PollNewSecond
    BY <1>1 DEF PollNewSecond, FirstSfnInv
  <1>2. CASE UNCHANGED <<currentSecond, sfnSecStart>>
    BY <1>2 DEF FirstSfnInv, SfnAtStartOf
  <1> QED BY <1>1, <1>2, ServingStep DEF ClockAdvance, PollSymbol, Dispatch, DispatchIdle,
             AdvanceSyms, TimingStart, tickVars

\* Whole multiples do not change a remainder.
LEMMA DropMultiple ==
    ASSUME NEW n \in Nat \ {0}, NEW k \in Int, NEW a \in Int
    PROVE  (n * k + a) % n = a % n
  <1> DEFINE q == a \div n
             r == a % n
  <1>1. q \in Int /\ r \in 0..(n - 1) /\ a = n * q + r
    BY Division
  <1> HIDE DEF q, r
  <1>2. n * k + a = n * (k + q) + r /\ k + q \in Int
    BY <1>1
  <1>3. (n * (k + q) + r) % n = r
    BY <1>1, <1>2, DivisionUnique
  <1> QED BY <1>2, <1>3 DEF r

\* The SFN goes on counting from one second to the next, and through the
\* seconds of the model.
LEMMA SfnAtNextSecond ==
    ASSUME NEW sec \in 0..(SecondsCycle - 1)
    PROVE  /\ SfnAtStartOf(sec) \in Nat
           /\ SfnAtStartOf((sec + 1) % SecondsCycle)
                = (SfnAtStartOf(sec) + FramesPerSecond) % (MaxFrame + 1)
  <1> DEFINE m == MaxFrame + 1
             F == FramesPerSecond
             C == SecondsCycle
             k == (sec * F) \div m
             f == (sec * F) % m
             next == (sec + 1) % C
  <1>1. /\ m \in Nat \ {0} /\ F \in Nat \ {0} /\ C \in Nat /\ C > 2 /\ (C * F) % m = 0
        /\ sec \in Nat /\ sec < C
    BY TimingAssumption
  <1>2. SfnAtStartOf(sec) = f /\ SfnAtStartOf(next) = (next * F) % m
    BY DEF SfnAtStartOf
  <1> HIDE DEF m, F, C
  <1>3. k \in Int /\ f \in 0..(m - 1) /\ sec * F = m * k + f
    <2>1. sec * F \in Int
      BY <1>1
    <2> QED BY <1>1, <2>1, Division
  <1> HIDE DEF k, f
  <1>4. (next * F) % m = ((sec + 1) * F) % m
    <2>1. CASE sec + 1 < C
      BY <1>1, <2>1
    <2>2. CASE sec + 1 = C
      <3>1. next = 0
        BY <1>1, <2>2
      <3>2. (m * 0 + 0) % m = 0
        BY <1>1, DivisionUnique
      <3>3. next * F = m * 0 + 0
        BY <1>1, <3>1
      <3> HIDE DEF next
      <3> QED BY <1>1, <2>2, <3>2, <3>3
    <2> QED BY <1>1, <2>1, <2>2
  <1> HIDE DEF next
  <1>5. (sec + 1) * F = m * k + (f + F) /\ f + F \in Int
    BY <1>1, <1>3
  <1>6. (m * k + (f + F)) % m = (f + F) % m
    BY <1>1, <1>3, <1>5, DropMultiple
  <1> QED BY <1>1, <1>2, <1>3, <1>4, <1>5, <1>6 DEF m, F, next, C

\* Slot 0 of the next second is the one after the last slot of this second.
LEMMA SlotOverSecond ==
    ASSUME NEW mu \in Mus, NEW sec \in 0..(SecondsCycle - 1)
    PROVE  TrueSlot(mu, (sec + 1) % SecondsCycle, 0) = TrueSlot(mu, sec, SlotsPerSecond(mu))
  <1> DEFINE m == MaxFrame + 1
             F == FramesPerSecond
             p == SlotsPerFrame(mu)
             f == SfnAtStartOf(sec)
             g == SfnAtStartOf((sec + 1) % SecondsCycle)
             n == MaxSlot(mu)
  <1>1. /\ m \in Nat \ {0} /\ F \in Nat \ {0} /\ p \in Nat \ {0} /\ n \in Nat \ {0}
        /\ n = m * p /\ SlotsPerSecond(mu) = p * F
    BY TimingAssumption, FrameSizes DEF MaxSlot, SlotsPerSecond
  <1>2. f \in Nat /\ g = (f + F) % m
    BY SfnAtNextSecond
  <1>3. /\ TrueSlot(mu, sec, SlotsPerSecond(mu)) = (f * p + p * F) % n
        /\ TrueSlot(mu, (sec + 1) % SecondsCycle, 0) = (g * p + 0) % n
    BY <1>1 DEF TrueSlot
  <1> HIDE DEF m, F, p, f, g, n
  <1> DEFINE h == f + F
  <1>4. ((0 \div p + h) % m) * p + (0 % p) = (h * p + 0) % (m * p)
    <2>1. h \in Nat /\ 0 \in Nat
      BY <1>1, <1>2
    <2> HIDE DEF h
    <2> QED BY <1>1, <2>1, FrameAndPlace
  <1>5. 0 \div p = 0 /\ 0 % p = 0
    <2>1. (p * 0 + 0) \div p = 0 /\ (p * 0 + 0) % p = 0
      BY <1>1, DivisionUnique
    <2>2. p * 0 + 0 = 0
      BY <1>1
    <2> QED BY <2>1, <2>2
  <1>6. g \in 0..(m - 1)
    <2>1. f + F \in Int
      BY <1>1, <1>2
    <2>2. (f + F) % m \in 0..(m - 1)
      BY <1>1, <2>1, Division
    <2> QED BY <1>2, <2>2
  <1>7. 0 + (f + F) = f + F
    BY <1>1, <1>2
  <1>8. g * p + 0 = ((f + F) * p + 0) % n
    BY <1>1, <1>2, <1>4, <1>5, <1>7
  <1>9. (f + F) * p + 0 = f * p + p * F
    BY <1>1, <1>2
  <1> DEFINE x == f * p + p * F
             y == g * p + 0
  <1>10. x \in Int
    BY <1>1, <1>2
  <1>11. y = x % n
    BY <1>8, <1>9
  <1> HIDE DEF x, y
  <1>12. x % n \in 0..(n - 1)
    BY <1>1, <1>10, Division
  <1>13. (n * 0 + y) % n = y
    BY <1>1, <1>11, <1>12, DivisionUnique
  <1>14. n * 0 + y = y
    BY <1>1, <1>11, <1>12
  <1>15. y % n = x % n
    BY <1>11, <1>13, <1>14
  <1> QED BY <1>3, <1>15 DEF x, y

LEMMA NextTrueSlot ==
    ASSUME NEW mu \in Mus, NEW sec \in 0..(SecondsCycle - 1), NEW sl \in Nat
    PROVE  /\ TrueSlot(mu, sec, sl + 1) = (TrueSlot(mu, sec, sl) + 1) % MaxSlot(mu)
           /\ TrueSlot(mu, sec, sl) = MaxSlot(mu) - 1 => TrueSlot(mu, sec, sl + 1) = 0
  <1> DEFINE n == MaxSlot(mu)
             p == SlotsPerFrame(mu)
             f == SfnAtStartOf(sec)
             a == f * p + sl
             r == a % n
  <1>1. n \in Nat \ {0} /\ p \in Nat /\ f \in Nat
    BY FrameSizes, SfnAtNextSecond
  <1>2. TrueSlot(mu, sec, sl) = r /\ TrueSlot(mu, sec, sl + 1) = (f * p + (sl + 1)) % n
    BY DEF TrueSlot
  <1> HIDE DEF n, p, f, r
  <1>3. a \in Nat /\ f * p + (sl + 1) = a + 1
    BY <1>1
  <1> HIDE DEF a
  <1>4. r \in 0..(n - 1) /\ r \in Nat
    <2>1. r \in 0..(n - 1)
      BY <1>1, <1>3, Division DEF r
    <2> QED BY <1>1, <2>1
  <1>5. (IF r + 1 >= n THEN 0 ELSE r + 1) = (a + 1) % n
    BY <1>1, <1>3, CountModulo DEF r
  <1>6. (IF r + 1 >= n THEN 0 ELSE r + 1) = (r + 1) % n
    <2>1. r % n = r
      BY <1>1, <1>4
    <2>2. (IF (r % n) + 1 >= n THEN 0 ELSE (r % n) + 1) = (r + 1) % n
      BY <1>1, <1>4, CountModulo
    <2> QED BY <2>1, <2>2
  <1>7. TrueSlot(mu, sec, sl + 1) = (r + 1) % n
    BY <1>2, <1>3, <1>5, <1>6
  <1>8. r = n - 1 => TrueSlot(mu, sec, sl + 1) = 0
    BY <1>1, <1>4, <1>6, <1>7
  <1> QED BY <1>2, <1>7, <1>8 DEF n

\* What tti_to_phy_cb takes for the last slot of the SFN period is that, also
\* in the first second, whose SFN may still be 0.
LEMMA LastSlotIsTrue ==
    ASSUME TypeInv, FirstSfnInv, FramesPerSecond <= SfnModulus, AtLastSlotOfSfn
    PROVE  SlotNow = MaxSlot(TimerMu) - 1
  <1> DEFINE m == TimerMu
             p == SlotsPerFrame(m)
             F == FramesPerSecond
             S == SfnModulus
             sl == OtaSlot(m)
             f == SfnAtStartOf(currentSecond)
             q == sl \div p
  <1>1. /\ m \in Mus /\ sl \in 0..(SlotsPerSecond(m) - 1) /\ currentSecond \in Nat
        /\ currentSecond \in 0..(SecondsCycle - 1)
        /\ SlotsPerSecond(m) = p * F
    BY SecondNotEmpty, OtaSlotInSecond DEF TypeInv, StepInv, ClockTypes, SlotsPerSecond
  <1>2. p \in Nat \ {0} /\ F \in Nat \ {0} /\ S \in Nat \ {0} /\ F <= S
        /\ MaxFrame + 1 \in {S, F} /\ MaxFrame \in Nat
    BY <1>1, FrameSizes, TimingAssumption
  <1>3. SlotOfSfnPeriod(m, sl, f) = SlotNow
    BY <1>1, SlotNumberIsTrue DEF SlotNow
  <1>4. (q + sfnSecStart) % S = MaxFrame /\ sl % p = p - 1
    BY DEF AtLastSlotOfSfn, FrameNum
  <1>5. SlotOfSfnPeriod(m, sl, f) = ((q + f) % S) * p + (sl % p)
    BY DEF SlotOfSfnPeriod, FrameNum
  <1>6. MaxSlot(m) = (MaxFrame + 1) * p
    BY DEF MaxSlot
  <1>7. sfnSecStart = f \/ sfnSecStart = 0
    BY DEF FirstSfnInv
  <1>8. q \in 0..(F - 1)
    <2>1. sl \in 0..(p * F - 1)
      BY <1>1
    <2> HIDE DEF p, F, sl
    <2> QED BY <1>2, <2>1, QuotientBelow
  <1>9. sfnSecStart = f
    <2> SUFFICES ASSUME sfnSecStart = 0 PROVE f = 0
      BY <1>7
    <2>1. f = (currentSecond * F) % (MaxFrame + 1)
      BY DEF SfnAtStartOf
    <2> HIDE DEF p, F, S, sl, q, f
    <2>2. q % S = MaxFrame /\ q + 0 = q
      BY <1>4, <1>8
    <2>3. q < S /\ q \in Nat
      BY <1>2, <1>8
    <2>4. q % S = q
      BY <1>2, <2>3
    <2>5. MaxFrame + 1 = F
      BY <1>2, <1>8, <2>2, <2>4
    <2>6. (F * currentSecond + 0) % F = 0
      BY <1>1, <1>2, DivisionUnique
    <2>7. currentSecond * F = F * currentSecond + 0
      BY <1>1, <1>2
    <2> QED BY <2>1, <2>5, <2>6, <2>7
  <1>10. SlotNow = MaxFrame * p + (p - 1)
    BY <1>3, <1>4, <1>5, <1>9
  <1> HIDE DEF p, m
  <1>11. MaxFrame * p + (p - 1) = (MaxFrame + 1) * p - 1
    BY <1>2
  <1> QED BY <1>6, <1>10, <1>11 DEF m

\* A thread that is late by a slot at most is in the last slot of its second
\* when it finds a new one.
LEMMA LastSlotOfSecond ==
    ASSUME TypeInv, Lag <= N, clkSec # lastSec, symIdx[TimerMu] = lastSym
    PROVE  OtaSlot(TimerMu) + 1 = SlotsPerSecond(TimerMu)
  <1> DEFINE s == SlotsPerSecond(TimerMu)
             c == lastSym
  <1>1. /\ s \in Nat \ {0} /\ N \in Nat \ {0} /\ SymsPerSecond(TimerMu) = N * s
        /\ lastSym \in Nat /\ clkSym \in Nat
    BY SecondNotEmpty, FrameSizes DEF SymsPerSecond, TypeInv, StepInv, ClockTypes
  <1>2. OtaSlot(TimerMu) = c \div N /\ c \div N \in 0..(s - 1)
    BY OtaSlotInSecond, SecondNotEmpty DEF OtaSlot, TypeInv
  <1>3. N * s - lastSym + clkSym <= N
    BY <1>1 DEF Lag
  <1> HIDE DEF s
  <1>4. N * (s - 1) <= c /\ N * (s - 1) \in Nat
    BY <1>1, <1>3
  <1> DEFINE b == N * (s - 1)
  <1>5. b \div N = s - 1
    <2>1. (N * (s - 1) + 0) \div N = s - 1
      BY <1>1, DivisionUnique
    <2>2. N * (s - 1) + 0 = b
      BY <1>1
    <2> QED BY <2>1, <2>2
  <1> HIDE DEF b
  <1>6. b \div N <= c \div N
    <2>1. b \in Nat /\ c \in Nat /\ b <= c
      BY <1>1, <1>4 DEF b
    <2> QED BY <1>1, <2>1, QuotientMonotone
  <1> QED BY <1>1, <1>2, <1>5, <1>6 DEF s

\* A TTI callback that runs in its slot is the only one that waits, and its slot
\* has yet to end.
LEMMA SlotServed ==
    ASSUME TypeInv, TtiInv, OrderInv, ~disturbed', TtiToPhy, ~Restarted
    PROVE  /\ ~disturbed /\ jobs'["TTI"] = <<>>
           /\ Going' /\ symIdx'[TimerMu] = lastSym'
           /\ pc' = "dispatch" => OtaSymbol(TimerMu)' # 0
           /\ OtaSlot(TimerMu)' = OtaSlot(TimerMu) /\ currentSecond' = currentSecond
           /\ Head(jobs["TTI"]).sec = currentSecond
           /\ SlotOf(Head(jobs["TTI"])) = OtaSlot(TimerMu)
  <1> DEFINE q == jobs["TTI"]
             job == Head(q)
             c == symIdx[TimerMu]
  <1>1. job \in JobSet /\ Armed("TTI", job) /\ q \in Seq(JobSet) /\ q # <<>> /\ q' = Tail(q)
    BY HeadIsArmed DEF TtiToPhy, JobTypes, Take, TypeInv, QueueTypes
  <1>2. /\ ~disturbed /\ InItsSlot(job)
        /\ UNCHANGED <<lastSec, lastSym, currentSecond, symIdx, sym, pc, ifState>>
    BY DEF TtiToPhy, tickVars, slotVars, threadVars, lifeVars
  <1>3. InSequence(job)
    BY <1>1 DEF TtiInv
  <1>4. ~Restarted
    OBVIOUS
  <1>5. job.sec = lastSec /\ currentSecond = lastSec
    BY <1>2 DEF InItsSlot, TypeInv, StepInv, InStep
  <1>6. job.mu = TimerMu /\ job.sym % N = 0
    BY <1>3 DEF InSequence
  <1>7. c = lastSym /\ job.sym <= c
    BY <1>3, <1>4, <1>5 DEF InSequence
  <1>8. pc = "dispatch" => job.sym < c
    BY <1>3, <1>4, <1>5, <1>7 DEF InSequence
  <1>9. Going
    BY <1>2, <1>3, <1>4, <1>5 DEF InSequence
  <1>10. N \in Nat \ {0} /\ c \in Nat /\ job.sym \in Nat
    <2>1. N \in Nat \ {0}
      BY TimingAssumption
    <2>2. c \in Nat
      BY SecondNotEmpty DEF TypeInv, CounterTypes
    <2>3. job.sym \in 0..(SymsPerSecond(TimerMu) - 1)
      BY <1>1 DEF JobSet
    <2> HIDE DEF job, c
    <2> QED BY <2>1, <2>2, <2>3
  <1>11. job.sym \div N = c \div N
    BY <1>2, <1>6, <1>10, CoarserOfHighest DEF InItsSlot, SlotOf, OtaSlot
  <1>12. pc = "dispatch" => OtaSymbol(TimerMu) # 0
    <2> SUFFICES ASSUME pc = "dispatch", c % N = 0 PROVE FALSE
      BY DEF OtaSymbol
    <2> HIDE DEF job, c
    <2>1. job.sym \div N < c \div N
      <3>1. job.sym < c
        BY <1>8
      <3> QED BY <1>10, <3>1, QuotientMonotone
    <2>2. c \div N \in Int
      BY <1>10, Division
    <2> QED BY <1>11, <2>1, <2>2
  <1>13. q' = <<>>
    <2> SUFFICES ASSUME Tail(q) # <<>> PROVE FALSE
      BY <1>1
    <2> DEFINE next == q[2]
               J == JobSet
    <2>1. 1 \in DOMAIN q /\ 2 \in DOMAIN q /\ q[1] = job /\ next \in JobSet
      <3> HIDE DEF J, q
      <3>1. q \in Seq(J) /\ q # <<>> /\ Tail(q) # <<>>
        BY <1>1 DEF J
      <3>2. 1 \in DOMAIN q /\ 2 \in DOMAIN q /\ q[1] = Head(q) /\ q[2] \in J
        BY <3>1
      <3> QED BY <3>2 DEF J
    <2>2. next.sec = lastSec /\ job.sym < next.sym
      <3>1. q[1].sec = lastSec
        BY <1>5, <2>1
      <3> QED BY <2>1, <3>1 DEF OrderInv
    <2>3. InSequence(next)
      BY <2>1 DEF TtiInv, Armed
    <2>4. next.sym <= c /\ next.sym % N = 0
      BY <1>4, <1>7, <2>2, <2>3 DEF InSequence
    <2>5. next.sym \in Nat
      BY <2>1 DEF JobSet
    <2> HIDE DEF next, job, c
    <2>6. job.sym \div N < next.sym \div N
      BY <1>10, <2>2, <2>4, <2>5, QuotientMonotone
    <2>7. next.sym \div N <= c \div N
      BY <1>10, <2>4, <2>5, QuotientMonotone
    <2>8. c \div N \in Int /\ next.sym \div N \in Int
      <3>1. c \in Int /\ next.sym \in Int
        BY <1>10, <2>5
      <3> QED BY <1>10, <3>1, Division
    <2> QED BY <1>11, <2>6, <2>7, <2>8
  <1>14. /\ Going' <=> Going
         /\ OtaSymbol(TimerMu)' = OtaSymbol(TimerMu) /\ OtaSlot(TimerMu)' = OtaSlot(TimerMu)
    BY <1>2 DEF Going, OtaSlot, OtaSymbol
  <1>15. SlotOf(job) = OtaSlot(TimerMu)
    BY <1>2, <1>6 DEF InItsSlot
  <1> QED BY <1>2, <1>5, <1>7, <1>9, <1>12, <1>13, <1>14, <1>15

\* The callback that sets first_call runs in the last slot of the SFN period;
\* each later one leaves the next slot to be counted.
LEMMA SlotIsServedNext ==
    ASSUME TypeInv, TtiInv, OrderInv, FirstSfnInv, FirstCallAssumption, FirstInv,
           ~disturbed', TtiToPhy, firstCall'
    PROVE  SlotIsServed'
  <1> DEFINE m == TimerMu
             job == Head(jobs["TTI"])
  <1>1. ~Restarted
    BY NotLastAtStart DEF TtiToPhy, Restarted, TypeInv, FirstCallAssumption
  <1>2. /\ ~disturbed /\ jobs'["TTI"] = <<>>
        /\ Going' /\ symIdx'[m] = lastSym'
        /\ pc' = "dispatch" => OtaSymbol(m)' # 0
        /\ OtaSlot(m)' = OtaSlot(m) /\ currentSecond' = currentSecond
        /\ job.sec = currentSecond /\ SlotOf(job) = OtaSlot(m)
    BY <1>1, SlotServed
  <1>3. /\ m \in Mus /\ OtaSlot(m) \in Nat /\ currentSecond \in 0..(SecondsCycle - 1)
    BY SecondNotEmpty, OtaNumbers DEF TypeInv, StepInv, ClockTypes
  <1>4. TrueSlot(m, currentSecond, OtaSlot(m) + 1) = served'
    <2>1. CASE firstCall
      <3>1. served' = (served + 1) % MaxSlot(m)
        BY <2>1 DEF TtiToPhy
      <3>2. TrueSlot(m, job.sec, SlotOf(job)) = served
        BY <1>2, <2>1 DEF FirstInv, NextSlotWaits, SlotIsServed, AtNextSlot, TtiToPhy, Take
      <3> HIDE DEF job, m
      <3> QED BY <1>2, <1>3, <3>1, <3>2, NextTrueSlot
    <2>2. CASE ~firstCall
      <3>1. served' = 0 /\ AtLastSlotOfSfn
        BY <2>2 DEF TtiToPhy
      <3>2. SlotNow = MaxSlot(m) - 1
        BY <3>1, LastSlotIsTrue DEF FirstCallAssumption
      <3> QED BY <1>3, <3>1, <3>2, NextTrueSlot DEF SlotNow
    <2> QED BY <2>1, <2>2
  <1>5. TrueSlot(m, currentSecond', OtaSlot(m)' + 1) = served'
    BY <1>2, <1>4
  <1> QED BY <1>2, <1>5 DEF SlotIsServed, TrueSlot, SfnAtStartOf, SlotsPerFrame,
             SlotsPerSubframe, MaxSlot

\* A slot lasts until the symbol that begins the next one.
LEMMA ServedSlotEnds ==
    ASSUME TypeInv, NearInv, LagInv, FirstCallAssumption, SlotIsServed, firstCall,
           ~disturbed', served' = served, ~TimingStart, [Next]_vars
    PROVE  SlotIsServed' \/ AtNextSlot'
  <1> DEFINE m == TimerMu
             c == symIdx[m]
  <1>1. /\ jobs["TTI"] = <<>> /\ TrueSlot(m, currentSecond, OtaSlot(m) + 1) = served
        /\ Going /\ c = lastSym /\ (pc = "dispatch" => OtaSymbol(m) # 0)
    BY DEF SlotIsServed
  <1>2. /\ m \in Mus /\ c \in Nat /\ N \in Nat \ {0} /\ OtaSlot(m) \in Nat
        /\ currentSecond = lastSec /\ currentSecond \in 0..(SecondsCycle - 1)
    BY SecondNotEmpty, TimingAssumption, OtaNumbers
       DEF TypeInv, CounterTypes, StepInv, InStep, ClockTypes
  <1>3. jobs'["TTI"] = <<>>
    BY <1>1, TtiQueueNext DEF Dispatch
  <1>4. CASE PollNewSecond
    <2>1. /\ pc = "poll" /\ ifState' = ifState /\ pc' = "dispatch" /\ clkSec # lastSec
          /\ currentSecond' = clkSec /\ sym' = [mu \in Mus |-> 0] /\ symIdx' = [mu \in Mus |-> 0]
      BY <1>2, <1>4 DEF PollNewSecond, lifeVars
    <2>2. ifState = "RUNNING"
      BY <1>1, <2>1 DEF Going
    <2>3. Lag <= N
      <3>1. Lag <= MaxLag /\ MaxLag <= N
        BY DEF LagInv, Restarted, FirstCallAssumption
      <3>2. Lag \in Int /\ MaxLag \in Int
        BY SecondNotEmpty DEF Lag, TypeInv, StepInv, ClockTypes
      <3> QED BY <1>2, <3>1, <3>2
    <2>4. OtaSlot(m) + 1 = SlotsPerSecond(m)
      BY <1>1, <2>1, <2>3, LastSlotOfSecond
    <2>5. TrueSlot(m, currentSecond, SlotsPerSecond(m)) = served
      BY <1>1, <2>4
    <2>6. clkSec = (currentSecond + 1) % SecondsCycle
      BY <1>2, <2>1 DEF NearInv
    <2>7. TrueSlot(m, clkSec, 0) = served
      BY <1>2, <2>5, <2>6, SlotOverSecond
    <2>8. OtaSlot(m)' = 0 /\ OtaSymbol(m)' = 0
      <3>1. (N * 0 + 0) \div N = 0 /\ (N * 0 + 0) % N = 0
        BY <1>2, DivisionUnique
      <3>2. N * 0 + 0 = 0
        BY <1>2
      <3> QED BY <1>2, <2>1, <3>1, <3>2 DEF OtaSlot, OtaSymbol
    <2>9. SlotNow' = TrueSlot(m, currentSecond', OtaSlot(m)')
      BY DEF SlotNow, TrueSlot, SfnAtStartOf, SlotsPerFrame, SlotsPerSubframe, MaxSlot
    <2> QED BY <1>2, <1>3, <2>1, <2>2, <2>7, <2>8, <2>9 DEF AtNextSlot
  <1>5. CASE PollSymbol
    <2>1. /\ symIdx'[m] = c + 1 /\ lastSym' = lastSym + 1 /\ pc' = "dispatch" /\ pc = "poll"
          /\ ifState' = ifState /\ currentSecond' = currentSecond
      BY <1>1, <1>5, PollSymbolHighest DEF PollSymbol, lifeVars
    <2>2. Going' /\ ifState' = "RUNNING" /\ sym'[m] = OtaSymbol(m)'
      <3>1. Going'
        BY <1>1, <1>5, GoingNext DEF PollSymbol, PollNewSecond
      <3> QED BY <2>1, <3>1 DEF Going
    <2>3. OtaSlot(m)' = OtaSlot(m) + (IF (c + 1) % N = 0 THEN 1 ELSE 0)
      <3>1. (c + 1) \div N = (c \div N) + (IF (c + 1) % N = 0 THEN 1 ELSE 0)
        BY <1>2, NextSymbolOfSlot
      <3> QED BY <2>1, <3>1 DEF OtaSlot
    <2>4. OtaSymbol(m)' = (c + 1) % N
      BY <2>1 DEF OtaSymbol
    <2>5. SlotNow' = TrueSlot(m, currentSecond, OtaSlot(m)')
      BY <2>1 DEF SlotNow, TrueSlot, SfnAtStartOf, SlotsPerFrame, SlotsPerSubframe, MaxSlot
    <2>6. CASE (c + 1) % N = 0
      <3>1. OtaSlot(m)' = OtaSlot(m) + 1
        BY <2>3, <2>6
      <3> QED BY <1>1, <1>3, <2>1, <2>2, <2>4, <2>5, <2>6, <3>1 DEF AtNextSlot
    <2>7. CASE (c + 1) % N # 0
      <3>1. OtaSlot(m)' = OtaSlot(m)
        BY <1>2, <2>3, <2>7
      <3>2. TrueSlot(m, currentSecond', OtaSlot(m)' + 1) = served'
        BY <1>1, <2>1, <3>1
      <3> QED BY <1>1, <1>3, <2>1, <2>2, <2>4, <2>7, <3>2 DEF SlotIsServed, TrueSlot,
                 SfnAtStartOf, SlotsPerFrame, SlotsPerSubframe, MaxSlot
    <2> QED BY <2>6, <2>7
  <1>6. CASE /\ UNCHANGED <<lastSym, currentSecond, symIdx>>
             /\ pc' = "dispatch" => pc = "dispatch"
             /\ ~PollNewSecond
    <2>1. Going'
      BY <1>1, <1>6, GoingNext
    <2>2. OtaSlot(m)' = OtaSlot(m) /\ OtaSymbol(m)' = OtaSymbol(m)
      BY <1>6 DEF OtaSlot, OtaSymbol
    <2>3. TrueSlot(m, currentSecond', OtaSlot(m)' + 1) = served'
      BY <1>1, <1>6, <2>2
    <2> QED BY <1>1, <1>3, <1>6, <2>1, <2>2, <2>3 DEF SlotIsServed, TrueSlot, SfnAtStartOf,
               SlotsPerFrame, SlotsPerSubframe, MaxSlot
  <1>7. \/ PollNewSecond \/ PollSymbol
        \/ /\ UNCHANGED <<lastSym, currentSecond, symIdx>>
           /\ pc' = "dispatch" => pc = "dispatch"
    BY ServingStep DEF ClockAdvance, Dispatch, DispatchIdle, AdvanceSyms, tickVars,
           threadVars, Loop
  <1> QED BY <1>4, <1>5, <1>6, <1>7

\* The next slot is armed.
LEMMA AtNextSlotNext ==
    ASSUME TypeInv, AtNextSlot, ttiCb, ~disturbed', served' = served, [Next]_vars
    PROVE  AtNextSlot' \/ NextSlotWaits'
  <1> DEFINE m == TimerMu
  <1>1. /\ jobs["TTI"] = <<>> /\ SlotNow = served /\ pc = "dispatch" /\ ifState = "RUNNING"
        /\ OtaSymbol(m) = 0 /\ sym[m] = 0
    BY DEF AtNextSlot
  <1>2. /\ m \in Mus /\ symIdx[m] = lastSym /\ lastSym \in Nat /\ currentSecond = lastSec
        /\ jobs \in [JobTypes -> Seq(JobSet)] /\ "TTI" \in JobTypes
    BY <1>1, SecondNotEmpty DEF TypeInv, StepInv, InStep, ClockTypes, QueueTypes, JobTypes
  <1>3. CASE Dispatch
    <2> DEFINE job == Job("tti", m)
    <2>1. jobs' = [jobs EXCEPT !["TTI"] = Append(jobs["TTI"], job)]
      BY <1>1, <1>3 DEF Dispatch, Due
    <2>2. jobs'["TTI"] = <<job>>
      <3> HIDE DEF job
      <3>1. jobs'["TTI"] = Append(<<>>, job)
        BY <1>1, <1>2, <2>1
      <3> QED BY <3>1
    <2>3. Head(jobs'["TTI"]) = job /\ jobs'["TTI"] # <<>>
      <3> HIDE DEF job
      <3> QED BY <2>2
    <2>4. job.sec = lastSec /\ job.sym = lastSym /\ job.mu = m
      BY DEF Job
    <2>5. SlotOf(job) = OtaSlot(m)
      BY <1>2, <2>4, CoarserOfHighest DEF SlotOf, OtaSlot
    <2>6. TrueSlot(m, job.sec, SlotOf(job)) = served
      BY <1>1, <1>2, <2>4, <2>5 DEF SlotNow
    <2> HIDE DEF job
    <2> QED BY <2>3, <2>6 DEF NextSlotWaits, TrueSlot, SfnAtStartOf, SlotsPerFrame,
               SlotsPerSubframe, MaxSlot, SlotOf, Coarser
  <1>4. CASE UNCHANGED <<clockVars, tickVars, sym, pc>> /\ ifState' = "RUNNING"
              /\ jobs'["TTI"] = jobs["TTI"]
    BY <1>1, <1>4 DEF AtNextSlot, SlotNow, OtaSlot, OtaSymbol, tickVars
  <1>5. ~ClockAdvance /\ ~PollNewSecond /\ ~PollSymbol /\ ~DispatchIdle /\ ~AdvanceSyms
        /\ ~TimingStart
    BY <1>1 DEF ClockAdvance, PollNewSecond, PollSymbol, DispatchIdle, AdvanceSyms,
           TimingStart, TypeInv, StepInv, ThreadInSecond
  <1>6. Dispatch \/ jobs'["TTI"] = jobs["TTI"]
    BY <1>1, TtiQueueNext
  <1> QED BY <1>1, <1>3, <1>4, <1>5, <1>6, ServingStep

LEMMA NextSlotWaitsNext ==
    ASSUME TypeInv, NextSlotWaits, ~TtiToPhy, served' = served, [Next]_vars
    PROVE  NextSlotWaits'
  <1> DEFINE q == jobs["TTI"]
             job == Head(q)
             J == JobSet
  <1>1. q # <<>> /\ TrueSlot(TimerMu, job.sec, SlotOf(job)) = served /\ q \in Seq(J)
    BY DEF NextSlotWaits, TypeInv, QueueTypes, JobTypes
  <1>2. Head(q') = Head(q) /\ q' # <<>>
    <2>1. q' = q \/ q' = Append(q, Job("tti", TimerMu))
      BY TtiQueueNext
    <2> HIDE DEF q, J
    <2> QED BY <1>1, <2>1
  <1> HIDE DEF q
  <1> QED BY <1>1, <1>2 DEF NextSlotWaits, q, TrueSlot, SfnAtStartOf, SlotsPerFrame,
             SlotsPerSubframe, MaxSlot, SlotOf, Coarser

LEMMA FirstInvNext ==
    ASSUME TypeInv, NearInv, LagInv, TtiInv, OrderInv, FirstSfnInv, FirstInv,
           FirstCallAssumption, [Next]_vars
    PROVE  FirstInv'
  <1>1. CASE TimingStart
    BY <1>1 DEF TimingStart, FirstInv
  <1>2. CASE TtiToPhy
    <2>1. ~firstCall' => served' = 0
      BY <1>2 DEF TtiToPhy
    <2>2. firstCall' => ttiCb'
      BY <1>2 DEF TtiToPhy, FirstInv
    <2>3. firstCall' /\ ~disturbed' => SlotIsServed'
      BY <1>2, SlotIsServedNext
    <2> QED BY <2>1, <2>2, <2>3 DEF FirstInv
  <1>3. CASE ~TtiToPhy /\ ~TimingStart
    <2>1. /\ disturbed => disturbed'
          /\ ttiCb => ttiCb'
          /\ firstCall' = firstCall
          /\ served' = served \/ (disturbed' /\ served' = 0)
      BY <1>3, ServingStep DEF ClockAdvance, PollNewSecond, PollSymbol, Dispatch,
             DispatchIdle, AdvanceSyms, phyVars
    <2>2. (~firstCall' => served' = 0) /\ (firstCall' => ttiCb')
      BY <2>1 DEF FirstInv
    <2>3. ASSUME firstCall', ~disturbed'
          PROVE  SlotIsServed' \/ AtNextSlot' \/ NextSlotWaits'
      <3>1. firstCall /\ ttiCb /\ served' = served
        BY <2>1, <2>3 DEF FirstInv
      <3>2. SlotIsServed \/ AtNextSlot \/ NextSlotWaits
        BY <2>1, <2>3 DEF FirstInv
      <3> QED BY <1>3, <2>3, <3>1, <3>2, ServedSlotEnds, AtNextSlotNext, NextSlotWaitsNext
    <2> QED BY <2>2, <2>3 DEF FirstInv
  <1> QED BY <1>1, <1>2, <1>3

ServingInv == LagInv /\ TtiInv /\ OrderInv /\ FirstSfnInv /\ FirstInv

\* From the moment that first_call is set, the TTI callbacks are for slot 0 of
\* frame 0 and then for each slot in turn, those that the PHY is skipped for
\* (SkipTti) included, unless one ran after its slot or the interface was
\* stopped: also when the period of the SFN ends with a second, and in the
\* first second, when xran_SFN_at_Sec_Start still is 0 (tti_to_phy_cb,
\* xran_main.c:2199-2234).
THEOREM TtisCountFromSfnZero ==
    ASSUME FirstCallAssumption
    PROVE  Spec => TtisFollowSfn
  <1>1. Init => ServingInv
    <2> SUFFICES ASSUME Init PROVE ServingInv
      OBVIOUS
    <2>1. Lag = 0 /\ MaxLag \in Nat
      BY SecondNotEmpty DEF Init, Lag
    <2>2. LagInv
      BY <2>1 DEF LagInv
    <2>3. jobs["TTI"] = <<>>
      BY DEF Init, JobTypes
    <2>4. FirstInv
      BY DEF Init, FirstInv
    <2> QED BY <2>2, <2>3, <2>4 DEF Init, ServingInv, TtiInv, Armed, OrderInv, FirstSfnInv
  <1>2. SlotInv /\ ServingInv /\ [Next]_vars => ServingInv'
    BY LagInvNext, TtiInvNext, OrderInvNext, FirstSfnInvNext, FirstInvNext
       DEF SlotInv, ServingInv, FirstCallAssumption
  <1>3. SlotInv /\ ServingInv =>
          [TtiToPhy /\ firstCall /\ ~disturbed =>
             LET jb == Head(jobs["TTI"]) IN
             InItsSlot(jb) => TrueSlot(TimerMu, jb.sec, SlotOf(jb)) = served]_vars
    <2> SUFFICES ASSUME FirstInv, TtiToPhy, firstCall, ~disturbed
                 PROVE  TrueSlot(TimerMu, Head(jobs["TTI"]).sec, SlotOf(Head(jobs["TTI"])))
                          = served
      BY DEF ServingInv
    <2>1. jobs["TTI"] # <<>>
      BY DEF TtiToPhy, Take
    <2>2. NextSlotWaits
      BY <2>1 DEF FirstInv, SlotIsServed, AtNextSlot
    <2> QED BY <2>2 DEF NextSlotWaits
  <1>4. Spec => []SlotInv
    BY SlotInvariant DEF FirstCallAssumption
  <1> QED BY <1>1, <1>2, <1>3, <1>4, PTL DEF Spec, TtisFollowSfn

=============================================================================
