--------------------------- MODULE PtpClockProofs ---------------------------
(***************************************************************************)
(* The clock manager for every timeout, budget, clamp and word size, with  *)
(* Syncs delivered and time passing at any point of a Tick.                *)
(***************************************************************************)
EXTENDS PtpClock, TLAPS

-----------------------------------------------------------------------------
(* Arithmetic                                                              *)

\* Division with remainder.
LEMMA Division ==
  ASSUME NEW n \in Nat, NEW m \in Nat \ {0}
  PROVE  /\ n = (m * (n \div m)) + (n % m)
         /\ n % m \in 0 .. (m - 1)
         /\ n \div m \in Nat
  BY SMT

\* Different multiples of m are at least m apart.
LEMMA MultiplesApart ==
  ASSUME NEW a \in Int, NEW b \in Int, NEW m \in Nat \ {0}, a < b
  PROVE  m * b >= (m * a) + m
  BY SMT

\* A reading that mixes two moments is never ahead of the later one.
LEMMA TornReading ==
  ASSUME NEW s \in Nat, NEW t \in Nat, NEW m \in Nat \ {0}, m * s <= t
  PROVE  (s * m) + (t % m) <= t
<1> DEFINE q == t \div m
           r == t % m
<1>1. t = (m * q) + r /\ r \in 0 .. (m - 1) /\ q \in Nat
  BY Division
<1>2. s * m = m * s
  BY SMT
<1> HIDE DEF q, r
<1>3. s <= q
  <2> SUFFICES ASSUME q < s PROVE FALSE
    BY <1>1
  <2>1. m * s >= (m * q) + m
    BY <1>1, MultiplesApart
  <2>2. QED
    BY <1>1, <2>1
<1>4. m * s <= m * q
  <2>1. CASE s = q
    BY <1>1, <2>1
  <2>2. CASE s < q
    <3>1. m * q >= (m * s) + m
      BY <1>1, <2>2, MultiplesApart
    <3>2. QED
      BY <1>1, <3>1
  <2>3. QED
    BY <1>1, <1>3, <2>1, <2>2
<1>5. QED
  BY <1>1, <1>2, <1>4 DEF r

\* Below the word size, unsigned differences are the ordinary ones.
LEMMA SmallRemainder ==
  ASSUME NEW n \in Nat, NEW m \in Nat \ {0}, n < m
  PROVE  n % m = n
  BY SMT

\* Halving and the like never enlarges a number.
LEMMA ShiftShrinks ==
  ASSUME NEW v \in Int, NEW d \in Nat \ {0}, NEW b \in Nat, v \in -b .. b
  PROVE  ArithmeticShiftRight(v, d) \in -b .. b
<1> DEFINE q == v \div d
           r == v % d
<1>1. v = (d * q) + r /\ r \in 0 .. (d - 1) /\ q \in Int
  BY SMT
<1> HIDE DEF q, r
<1>2. q <= b
  <2> SUFFICES ASSUME b < q PROVE FALSE
    BY <1>1
  <2>1. d * q >= (d * b) + d
    BY <1>1, MultiplesApart
  <2>2. d * b >= b
    BY SMT
  <2>3. QED
    BY <1>1, <2>1, <2>2
<1>3. -b <= q
  <2> SUFFICES ASSUME q < -b PROVE FALSE
    BY <1>1
  <2>1. d * (-b) >= (d * q) + d
    BY <1>1, MultiplesApart
  <2>2. d * (-b) <= -b
    BY SMT
  <2>3. QED
    BY <1>1, <2>1, <2>2
<1>4. QED
  BY <1>1, <1>2, <1>3 DEF q, ArithmeticShiftRight

\* What a clamp is for.
LEMMA ClampClamps ==
  ASSUME NEW v \in Int, NEW b \in Nat
  PROVE  Clamp(v, b) \in -b .. b
  BY DEF Clamp

\* A signed number within the clamp is written as one of two ranges of words.
LEMMA SignedWord ==
  ASSUME NEW b \in Nat, NEW w \in Nat \ {0}, 2 * b < w, NEW v \in -b .. b
  PROVE  /\ v % w \in 0 .. (w - 1)
         /\ v % w <= b \/ v % w >= w - b
<1>1. CASE v >= 0
  <2>1. v % w = v
    BY <1>1, SmallRemainder
  <2>2. QED
    BY <1>1, <2>1
<1>2. CASE v < 0
  <2>1. v % w = v + w
    BY <1>2, SMT
  <2>2. QED
    BY <1>2, <2>1
<1>3. QED
  BY <1>1, <1>2

-----------------------------------------------------------------------------
(* The servo keeps its integral and its register within the clamps.        *)

ServoInv ==
  /\ integral \in -kIntegralClamp .. kIntegralClamp
  /\ freqReg \in 0 .. (RegWord - 1)
  /\ FrequencyWithinClamp

\* One Sync, whatever its offset.
LEMMA ServoStep ==
  ASSUME ServoInv, NEW off \in Offsets, NEW ok \in BOOLEAN, RunServo(off, ok)
  PROVE  ServoInv'
<1>1. off \in Int /\ integral + off \in Int
  BY PtpClockAssumption DEF ServoInv
<1>2. Integral(off) \in -kIntegralClamp .. kIntegralClamp
  BY <1>1, ClampClamps, PtpClockAssumption DEF Integral
<1>3. ArithmeticShiftRight(off, Kp) \in Int /\ ArithmeticShiftRight(Integral(off), Ki) \in Int
  BY <1>1, <1>2, PtpClockAssumption DEF ArithmeticShiftRight
<1>4. Adjustment(off, Integral(off)) \in -kAdjustmentClampPpb .. kAdjustmentClampPpb
  BY <1>3, ClampClamps, PtpClockAssumption DEF Adjustment
<1> DEFINE w == Adjustment(off, Integral(off)) % RegWord
<1>5. /\ w \in 0 .. (RegWord - 1)
      /\ w <= kAdjustmentClampPpb \/ w >= RegWord - kAdjustmentClampPpb
  BY <1>4, SignedWord, PtpClockAssumption
<1>6. integral' = Integral(off) /\ freqReg' = (IF ok THEN w ELSE freqReg)
  BY DEF RunServo
<1> HIDE DEF w
<1>7. QED
  BY <1>2, <1>5, <1>6 DEF ServoInv, FrequencyWithinClamp

\* From there no sum and no negation of the next Sync overflows.
LEMMA ServoFits == ServoInv => ServoNeverOverflows
<1> SUFFICES ASSUME ServoInv, NEW off \in Offsets
             PROVE  /\ Fits(integral + off)
                    /\ Fits(-off)
                    /\ Fits(-(ArithmeticShiftRight(off, Kp)
                              + ArithmeticShiftRight(Integral(off), Ki)))
  BY DEF ServoNeverOverflows
<1> DEFINE room == MaxI64 - kIntegralClamp
<1>1. room \in Nat /\ off \in -room .. room /\ off \in Int
  BY PtpClockAssumption
<1>2. integral + off \in Int /\ Fits(integral + off) /\ Fits(-off)
  BY <1>1, PtpClockAssumption DEF ServoInv, Fits
<1>3. Integral(off) \in -kIntegralClamp .. kIntegralClamp
  BY <1>2, ClampClamps, PtpClockAssumption DEF Integral
<1>4. ArithmeticShiftRight(off, Kp) \in -room .. room
  BY <1>1, ShiftShrinks, PtpClockAssumption
<1>5. ArithmeticShiftRight(Integral(off), Ki) \in -kIntegralClamp .. kIntegralClamp
  BY <1>3, ShiftShrinks, PtpClockAssumption
<1>6. Fits(-(ArithmeticShiftRight(off, Kp) + ArithmeticShiftRight(Integral(off), Ki)))
  BY <1>4, <1>5, PtpClockAssumption DEF Fits
<1>7. QED
  BY <1>2, <1>6

-----------------------------------------------------------------------------
(* What the steps of a Tick rely on.  The clauses about times say that      *)
(* every stored time lies in the past; the ones about pc carry what one     *)
(* step of Tick has found over to the step that acts on it, whatever Syncs  *)
(* come in between.                                                         *)

TimesArePast ==
  /\ lastSyncNs <= phc
  /\ holdoverStartNs <= phc
  /\ began <= phc
  /\ pc # "idle" => holdoverStartNs <= began
  /\ pc = "ns" => NsPerSecond * sec <= began
  /\ nowNs <= phc

FindingsHold ==
  /\ syncState = "kHoldover" => heldSince = holdoverStartNs
  /\ pc \in {"drift", "budget", "expire"} => heldSince = holdoverStartNs
  /\ runsOut => expired /\ pc \in {"drift", "budget", "expire"}
  /\ pc = "expire" => /\ runsOut
                      /\ holdoverStartNs <= nowNs =>
                           nowNs - holdoverStartNs > HoldoverBudgetNs
  /\ pc # "idle" => initialised
  /\ pc = "hold" => /\ lastSyncNs # 0
                    /\ syncState = "kLocked"
                    /\ lastSyncNs < nowNs => nowNs - lastSyncNs > SyncTimeoutNs

ClockInv == TypeOK /\ ServoInv /\ TimesArePast /\ FindingsHold

\* The initial values are in range.
LEMMA ZeroInRange ==
  /\ 0 \in 0 .. MaxTime /\ 1 \in 1 .. MaxTime
  /\ 0 \in 0 .. (RegWord - 1) /\ 0 \in 0 .. (Word - 1)
  /\ 0 \in -kIntegralClamp .. kIntegralClamp
  /\ 0 <= kAdjustmentClampPpb
  BY PtpClockAssumption

\* The initial state.
LEMMA ClockInit == Init => ClockInv
<1> SUFFICES ASSUME Init PROVE ClockInv
  OBVIOUS
<1>1. TypeOK
  <2>1. initialised \in BOOLEAN /\ capable \in BOOLEAN /\ gmValid \in BOOLEAN
        /\ expired \in BOOLEAN /\ runsOut \in BOOLEAN
    BY DEF Init
  <2>2. QED
    BY <2>1, ZeroInRange DEF Init, TypeOK
<1>2. ServoInv
  BY ZeroInRange DEF Init, ServoInv, FrequencyWithinClamp
<1>3. TimesArePast /\ FindingsHold
  BY DEF Init, TimesArePast, FindingsHold
<1>4. QED
  BY <1>1, <1>2, <1>3 DEF ClockInv

\* A stored time that is not ahead of the reading is as old as the difference.
LEMMA RealElapsed ==
  ASSUME TypeOK, TimesArePast, NEW from \in 0 .. MaxTime, from <= nowNs
  PROVE  Elapsed(from) = nowNs - from
<1>1. nowNs - from \in Nat /\ nowNs - from < Word /\ Word \in Nat \ {0}
  BY PtpClockAssumption DEF TypeOK, TimesArePast
<1>2. QED
  BY <1>1, SmallRemainder DEF Elapsed

\* Init, ForceGrandmasterRole and the passing of time.
LEMMA CallsPreserve ==
  ASSUME ClockInv,
         \/ \E cap \in BOOLEAN : InitSucceeds(cap) \/ InitFails(cap)
         \/ ForceGrandmasterRole
         \/ Elapse
  PROVE  ClockInv'
<1> USE DEF ClockInv
<1>1. ASSUME NEW cap \in BOOLEAN, InitSucceeds(cap)
      PROVE  ClockInv'
  <2>1. TypeOK'
    <3>1. initialised' \in BOOLEAN /\ capable' \in BOOLEAN /\ gmValid' \in BOOLEAN
          /\ expired' \in BOOLEAN /\ runsOut' \in BOOLEAN
      BY <1>1 DEF InitSucceeds, TypeOK, foretold
    <3>2. QED
      BY <1>1, <3>1, ZeroInRange DEF InitSucceeds, TypeOK, tick, holdover, foretold
  <2>2. ServoInv'
    BY <1>1, ZeroInRange DEF InitSucceeds, ServoInv, FrequencyWithinClamp
  <2>3. TimesArePast' /\ FindingsHold'
    BY <1>1 DEF InitSucceeds, TimesArePast, FindingsHold, tick, holdover, foretold
  <2>4. QED
    BY <2>1, <2>2, <2>3
<1>2. ASSUME NEW cap \in BOOLEAN, InitFails(cap)
      PROVE  ClockInv'
  BY <1>2 DEF InitFails, TypeOK, ServoInv, FrequencyWithinClamp, TimesArePast,
     FindingsHold, tick, servo, holdover, foretold
<1>3. CASE ForceGrandmasterRole
  BY <1>3 DEF ForceGrandmasterRole, TypeOK, ServoInv, FrequencyWithinClamp, TimesArePast,
     FindingsHold, tick, servo, holdover, foretold
<1>4. CASE Elapse
  BY <1>4, PtpClockAssumption DEF Elapse, TypeOK, ServoInv, FrequencyWithinClamp,
     TimesArePast, FindingsHold, tick, servo, holdover, foretold
<1>5. QED
  BY <1>1, <1>2, <1>3, <1>4

\* A Sync, at any point of a Tick.
LEMMA SyncPreserves ==
  ASSUME ClockInv, NEW off \in Offsets, NEW ok \in BOOLEAN, InjectSyncMessage(off, ok)
  PROVE  ClockInv'
<1>1. ServoInv'
  BY ServoStep DEF ClockInv, InjectSyncMessage
<1>2. TypeOK'
  BY <1>1, PtpClockAssumption DEF ClockInv, TypeOK, ServoInv, InjectSyncMessage, tick,
                                  holdover, foretold
<1>3. TimesArePast'
  BY DEF ClockInv, TypeOK, TimesArePast, InjectSyncMessage, tick, holdover, foretold
<1>4. FindingsHold'
  BY DEF ClockInv, TypeOK, TimesArePast, FindingsHold, InjectSyncMessage, Reacquires, tick,
         foretold
<1>5. QED
  BY <1>1, <1>2, <1>3, <1>4 DEF ClockInv

\* The steps that read the PHC.
LEMMA ReadsPreserve ==
  ASSUME ClockInv, TickReadsSeconds \/ TickReadsNs
  PROVE  ClockInv'
<1>0. NsPerSecond \in Nat \ {0} /\ phc \in Nat
  BY PtpClockAssumption DEF ClockInv, TypeOK
<1>1. CASE TickReadsSeconds
  <2>1. phc = (NsPerSecond * (phc \div NsPerSecond)) + (phc % NsPerSecond)
        /\ phc % NsPerSecond \in Nat /\ phc \div NsPerSecond \in Nat
    BY <1>0, Division
  <2>2. sec' = phc \div NsPerSecond /\ began' = phc /\ pc' = "ns"
    BY <1>1 DEF TickReadsSeconds
  <2>3. NsPerSecond * sec' <= phc /\ sec' \in Nat
    BY <1>0, <2>1, <2>2
  <2>4. TypeOK'
    BY <1>1, <2>2, <2>3, PtpClockAssumption
    DEF ClockInv, TypeOK, TickReadsSeconds, clock, servo, holdover, foretold
  <2>5. TimesArePast'
    BY <1>1, <2>2, <2>3 DEF ClockInv, TypeOK, TimesArePast, TickReadsSeconds, clock,
                            servo, holdover, foretold
  <2>6. ServoInv' /\ FindingsHold'
    BY <1>1 DEF ClockInv, ServoInv, FrequencyWithinClamp, FindingsHold, TickReadsSeconds,
       clock, servo, holdover, foretold
  <2>7. QED
    BY <2>4, <2>5, <2>6 DEF ClockInv
<1>2. CASE TickReadsNs
  <2>1. NsPerSecond * sec <= phc /\ sec \in Nat /\ phc % NsPerSecond \in Nat
    BY <1>0, <1>2, Division DEF ClockInv, TypeOK, TimesArePast, TickReadsNs
  <2>2. nowNs' = (sec * NsPerSecond) + (phc % NsPerSecond)
    BY <1>2 DEF TickReadsNs
  <2>3. nowNs' <= phc
    BY <1>0, <2>1, <2>2, TornReading
  <2>4. nowNs' \in Nat
    BY <1>0, <2>1, <2>2
  <2>5. TypeOK'
    BY <1>2, <2>4 DEF ClockInv, TypeOK, TickReadsNs, clock, servo, holdover, foretold
  <2>6. TimesArePast'
    BY <1>2, <2>3 DEF ClockInv, TypeOK, TimesArePast, TickReadsNs, clock, servo,
                      holdover, foretold
  <2>7. ServoInv' /\ FindingsHold'
    BY <1>2 DEF ClockInv, ServoInv, FrequencyWithinClamp, FindingsHold, TickReadsNs,
       clock, servo, holdover, foretold
  <2>8. QED
    BY <2>5, <2>6, <2>7 DEF ClockInv
<1>3. QED
  BY <1>1, <1>2

\* The steps that find something, or return.
LEMMA DecisionsPreserve ==
  ASSUME ClockInv,
         \/ TickFails \/ TickFindsHoldover \/ TickStoresUsed \/ TickFindsExpiry
         \/ TickExpires \/ TickWithinBudget \/ TickHoldsOver \/ TickFindsTimeout
         \/ TickEntersHoldover \/ TickRunsBmca
  PROVE  ClockInv'
<1> USE DEF ClockInv
<1>1. CASE TickFails
  <2>1. TypeOK'
    BY <1>1, ZeroInRange DEF TickFails, Return, TypeOK, clock, servo, holdover, foretold
  <2>2. ServoInv'
    BY <1>1 DEF TickFails, ServoInv, FrequencyWithinClamp, clock, servo, holdover, foretold
  <2>3. TimesArePast' /\ FindingsHold'
    BY <1>1 DEF TickFails, Return, TypeOK, TimesArePast, FindingsHold, clock, servo,
                holdover, foretold
  <2>4. QED
    BY <2>1, <2>2, <2>3
<1>2. CASE TickFindsExpiry
  <2>1. holdoverStartNs <= nowNs => nowNs - holdoverStartNs > HoldoverBudgetNs
    BY <1>2, RealElapsed DEF TickFindsExpiry, TypeOK
  <2>2. TypeOK' /\ ServoInv' /\ TimesArePast'
    BY <1>2 DEF TickFindsExpiry, TypeOK, ServoInv, FrequencyWithinClamp, TimesArePast,
       clock, servo, holdover, foretold
  <2>3. FindingsHold'
    BY <1>2, <2>1 DEF TickFindsExpiry, FindingsHold, clock, servo, holdover, foretold
  <2>4. QED
    BY <2>2, <2>3
<1>3. CASE TickExpires
  <2>1. TypeOK'
    BY <1>3, ZeroInRange DEF TickExpires, Return, TypeOK, clock, servo, holdover, foretold
  <2>2. ServoInv'
    BY <1>3 DEF TickExpires, ServoInv, FrequencyWithinClamp, clock, servo, holdover,
                foretold
  <2>3. TimesArePast' /\ FindingsHold'
    BY <1>3 DEF TickExpires, Return, TypeOK, TimesArePast, FindingsHold, clock, servo,
                holdover, foretold
  <2>4. QED
    BY <2>1, <2>2, <2>3
<1>4. CASE TickHoldsOver
  <2>1. TypeOK'
    BY <1>4, ZeroInRange DEF TickHoldsOver, Return, TypeOK, clock, servo, holdover, foretold
  <2>2. ServoInv'
    BY <1>4 DEF TickHoldsOver, ServoInv, FrequencyWithinClamp, clock, servo, holdover,
                foretold
  <2>3. TimesArePast' /\ FindingsHold'
    BY <1>4 DEF TickHoldsOver, Return, TypeOK, TimesArePast, FindingsHold, clock, servo,
                holdover, foretold
  <2>4. QED
    BY <2>1, <2>2, <2>3
<1>5. CASE TickFindsTimeout
  <2>1. lastSyncNs < nowNs => nowNs - lastSyncNs > SyncTimeoutNs
    BY <1>5, RealElapsed DEF TickFindsTimeout, SyncTimedOut, TypeOK
  <2>2. TypeOK' /\ ServoInv' /\ TimesArePast'
    BY <1>5 DEF TickFindsTimeout, TypeOK, ServoInv, FrequencyWithinClamp, TimesArePast,
       clock, servo, holdover, foretold
  <2>3. FindingsHold'
    BY <1>5, <2>1 DEF TickFindsTimeout, SyncTimedOut, FindingsHold, clock, servo,
                      holdover, foretold
  <2>4. QED
    BY <2>2, <2>3
<1>6. CASE TickEntersHoldover
  <2>1. TypeOK'
    BY <1>6, ZeroInRange DEF TickEntersHoldover, EnterHoldover, Return, TypeOK, clock,
                             servo, holdover, foretold
  <2>2. ServoInv'
    BY <1>6 DEF TickEntersHoldover, ServoInv, FrequencyWithinClamp, clock, servo,
                holdover, foretold
  <2>3. TimesArePast' /\ FindingsHold'
    BY <1>6 DEF TickEntersHoldover, EnterHoldover, Return, TypeOK, TimesArePast,
                FindingsHold, clock, servo, holdover, foretold
  <2>4. QED
    BY <2>1, <2>2, <2>3
<1>7. CASE TickRunsBmca
  <2>1. TypeOK'
    BY <1>7, ZeroInRange DEF TickRunsBmca, Return, TypeOK, servo, holdover, foretold
  <2>2. ServoInv'
    BY <1>7 DEF TickRunsBmca, ServoInv, FrequencyWithinClamp, servo, holdover, foretold
  <2>3. TimesArePast' /\ FindingsHold'
    BY <1>7 DEF TickRunsBmca, Return, TypeOK, TimesArePast, FindingsHold, servo,
                holdover, foretold
  <2>4. QED
    BY <2>1, <2>2, <2>3
<1>8. CASE TickFindsHoldover \/ TickWithinBudget
  BY <1>8 DEF TickFindsHoldover, TickWithinBudget, TypeOK, ServoInv, FrequencyWithinClamp,
              TimesArePast, FindingsHold, clock, servo, holdover, foretold
<1>9. CASE TickStoresUsed
  <2>1. holdoverUsedNs' \in 0 .. (Word - 1)
    <3>1. nowNs - holdoverStartNs \in Int /\ Word \in Nat \ {0}
      BY PtpClockAssumption DEF TypeOK
    <3>2. Elapsed(holdoverStartNs) \in 0 .. (Word - 1)
      BY <3>1 DEF Elapsed
    <3>3. QED
      BY <1>9, <3>2 DEF TickStoresUsed
  <2>2. TypeOK' /\ ServoInv' /\ TimesArePast' /\ FindingsHold'
    BY <1>9, <2>1 DEF TickStoresUsed, TypeOK, ServoInv, FrequencyWithinClamp, TimesArePast,
                      FindingsHold, clock, servo, foretold
  <2>3. QED
    BY <2>2
<1>10. QED
  BY <1>1, <1>2, <1>3, <1>4, <1>5, <1>6, <1>7, <1>8, <1>9

\* The invariant is inductive.
LEMMA ClockInvariant == Spec => []ClockInv
<1>1. ClockInv /\ [Next]_vars => ClockInv'
  <2> SUFFICES ASSUME ClockInv, [Next]_vars PROVE ClockInv'
    OBVIOUS
  <2>1. CASE UNCHANGED vars
    BY <2>1 DEF ClockInv, TypeOK, ServoInv, FrequencyWithinClamp, TimesArePast,
       FindingsHold, vars
  <2>2. CASE Next
    BY <2>2, CallsPreserve, SyncPreserves, ReadsPreserve, DecisionsPreserve DEF Next
  <2>3. QED
    BY <2>1, <2>2
<1>2. QED
  BY <1>1, ClockInit, PTL DEF Spec

-----------------------------------------------------------------------------
(* The theorems                                                            *)

\* Every variable of the clock manager keeps its type; the register holds a
\* value of its width.
THEOREM ClockTypeCorrect == Spec => []TypeOK
<1>1. ClockInv => TypeOK
  BY DEF ClockInv
<1>2. QED
  BY <1>1, ClockInvariant, PTL

\* RunServo never overflows, whatever offsets the Syncs show, as long as an
\* offset leaves room for the clamped integral.
THEOREM ServoInRange == Spec => []ServoNeverOverflows
<1>1. ClockInv => ServoNeverOverflows
  BY ServoFits DEF ClockInv
<1>2. QED
  BY <1>1, ClockInvariant, PTL

\* ApplyPhcAdjustment never writes more than the clamp, as a signed number.
THEOREM FrequencyClamped == Spec => []FrequencyWithinClamp
<1>1. ClockInv => FrequencyWithinClamp
  BY DEF ClockInv, ServoInv
<1>2. QED
  BY <1>1, ClockInvariant, PTL

\* One step gives up lock or reports expiry only for a real reason.
LEMMA TimeoutStep ==
  ASSUME ClockInv, Next, ReadingHolds
  PROVE  /\ syncState = "kLocked" /\ syncState' = "kHoldover" =>
              phc - lastSyncNs > SyncTimeoutNs
         /\ pc # "idle" /\ pc' = "idle" /\ expired' =>
              \/ phc - heldSince > HoldoverBudgetNs
              \/ phc - lastSyncNs > SyncTimeoutNs * GmLostTimeouts
<1>1. CASE \/ \E cap \in BOOLEAN : InitSucceeds(cap) \/ InitFails(cap)
           \/ ForceGrandmasterRole \/ Elapse
  BY <1>1 DEF InitSucceeds, InitFails, ForceGrandmasterRole, Elapse, servo, holdover,
              foretold, tick
<1>2. ASSUME NEW off \in Offsets, NEW ok \in BOOLEAN, InjectSyncMessage(off, ok)
      PROVE  syncState' # "kHoldover" \/ syncState # "kLocked"
  BY <1>2 DEF InjectSyncMessage
<1>3. ASSUME NEW off \in Offsets, NEW ok \in BOOLEAN, InjectSyncMessage(off, ok)
      PROVE  pc' = pc
  BY <1>3 DEF InjectSyncMessage, tick, holdover, foretold
<1>4. CASE TickReadsSeconds \/ TickReadsNs \/ TickFindsTimeout \/ TickFindsExpiry
             \/ TickFindsHoldover \/ TickStoresUsed \/ TickWithinBudget
  BY <1>4 DEF TickReadsSeconds, TickReadsNs, TickFindsTimeout, TickFindsExpiry,
              TickFindsHoldover, TickStoresUsed, TickWithinBudget
<1>5. CASE TickFails \/ TickRunsBmca
  BY <1>5 DEF TickFails, TickRunsBmca, Return
<1>6. CASE TickExpires
  <2>1. pc = "expire" /\ syncState' = "kFreeRun"
    BY <1>6 DEF TickExpires
  <2>2. phc - heldSince > HoldoverBudgetNs
    BY <2>1, PtpClockAssumption
    DEF ClockInv, TypeOK, TimesArePast, FindingsHold, ReadingHolds
  <2>3. QED
    BY <2>1, <2>2
<1>7. CASE TickHoldsOver
  <2>1. syncState' = syncState
        /\ expired' = (Elapsed(lastSyncNs) > SyncTimeoutNs * GmLostTimeouts)
    BY <1>7 DEF TickHoldsOver, GmLost, Return
  <2>2. Elapsed(lastSyncNs) = nowNs - lastSyncNs
    BY RealElapsed DEF ClockInv, TypeOK, ReadingHolds
  <2>3. phc - lastSyncNs >= nowNs - lastSyncNs
    BY DEF ClockInv, TypeOK, TimesArePast
  <2> DEFINE lim == SyncTimeoutNs * GmLostTimeouts
  <2>4. lim \in Nat
    BY PtpClockAssumption
  <2> HIDE DEF lim
  <2>5. ASSUME expired'
        PROVE  phc - lastSyncNs > lim
    <3>1. Elapsed(lastSyncNs) > lim
      BY <2>1, <2>5 DEF lim
    <3>2. QED
      BY <2>2, <2>3, <2>4, <3>1 DEF ClockInv, TypeOK
  <2>6. QED
    BY <2>1, <2>5 DEF lim
<1>8. CASE TickEntersHoldover
  <2>1. pc = "hold" /\ ~expired'
    BY <1>8 DEF TickEntersHoldover, Return
  <2>2. phc - lastSyncNs > SyncTimeoutNs
    BY <2>1, PtpClockAssumption DEF ClockInv, TypeOK, TimesArePast, FindingsHold,
                                    ReadingHolds
  <2>3. QED
    BY <2>1, <2>2
<1>9. QED
  BY <1>1, <1>2, <1>3, <1>4, <1>5, <1>6, <1>7, <1>8 DEF Next

\* Tick gives up lock and reports an expired holdover only when the time has
\* really passed, unless the seconds rolled over between its reads of the PHC or
\* a Sync came in since.
THEOREM TimeoutsReal == Spec => TimeoutsAreReal
<1> DEFINE A == ReadingHolds =>
                  /\ syncState = "kLocked" /\ syncState' = "kHoldover" =>
                       phc - lastSyncNs > SyncTimeoutNs
                  /\ pc # "idle" /\ pc' = "idle" /\ expired' =>
                       \/ phc - heldSince > HoldoverBudgetNs
                       \/ phc - lastSyncNs > SyncTimeoutNs * GmLostTimeouts
<1>1. ClockInv /\ [Next]_vars => [A]_vars
  BY TimeoutStep
<1>2. QED
  BY <1>1, ClockInvariant, PTL DEF Spec, TimeoutsAreReal

-----------------------------------------------------------------------------
(* Refinement of the clock the orchestrator's model is built on.           *)

\* The record with the given fields, and the records that have just these.
Rec(i, s, n, h, g, c) ==
  [init |-> i, sync |-> s, near |-> n, heard |-> h, gm |-> g, capable |-> c]

IsRec(p) == p = Rec(p.init, p.sync, p.near, p.heard, p.gm, p.capable)

View == Rec(initialised, IF runsOut THEN "kFreeRun" ELSE syncState,
            Near(offsetFromGmNs), lastSyncNs # 0, gmValid, capable)

\* The refinement mapping gives such a record.
LEMMA ViewIsRec == IsRec(View)
BY DEF IsRec, View, Rec

\* What Init and ForceGrandmasterRole make of the record.
LEMMA CallRecords ==
  ASSUME NEW p, IsRec(p), NEW cap
  PROVE  /\ Control!PtpInit(p, cap, TRUE)
              = Rec(TRUE, "kFreeRun", p.near, p.heard, FALSE, cap)
         /\ Control!PtpInit(p, cap, FALSE)
              = Rec(p.init, p.sync, p.near, p.heard, p.gm, cap)
         /\ Control!Forced(p) = Rec(p.init, "kLocked", p.near, p.heard, TRUE, TRUE)
<1> DEFINE i == p.init
           s == p.sync
           n == p.near
           h == p.heard
           g == p.gm
           c == p.capable
<1>0. p = Rec(i, s, n, h, g, c)
  BY DEF IsRec
<1> HIDE DEF i, s, n, h, g, c
<1>1. ASSUME NEW i2, NEW s2, NEW g2
      PROVE  [p EXCEPT !.capable = cap, !.sync = s2, !.gm = g2, !.init = i2]
               = Rec(i2, s2, n, h, g2, cap)
  <2>1. [p EXCEPT !.capable = cap] = Rec(i, s, n, h, g, cap)
    BY <1>0 DEF Rec
  <2>2. [Rec(i, s, n, h, g, cap) EXCEPT !.sync = s2] = Rec(i, s2, n, h, g, cap)
    BY DEF Rec
  <2>3. [Rec(i, s2, n, h, g, cap) EXCEPT !.gm = g2] = Rec(i, s2, n, h, g2, cap)
    BY DEF Rec
  <2>4. [Rec(i, s2, n, h, g2, cap) EXCEPT !.init = i2] = Rec(i2, s2, n, h, g2, cap)
    BY DEF Rec
  <2>5. QED
    BY <2>1, <2>2, <2>3, <2>4
<1>2. ASSUME NEW s2, NEW g2, NEW c2
      PROVE  [p EXCEPT !.capable = c2, !.gm = g2, !.sync = s2] = Rec(i, s2, n, h, g2, c2)
  <2>1. [p EXCEPT !.capable = c2] = Rec(i, s, n, h, g, c2)
    BY <1>0 DEF Rec
  <2>2. [Rec(i, s, n, h, g, c2) EXCEPT !.gm = g2] = Rec(i, s, n, h, g2, c2)
    BY DEF Rec
  <2>3. [Rec(i, s, n, h, g2, c2) EXCEPT !.sync = s2] = Rec(i, s2, n, h, g2, c2)
    BY DEF Rec
  <2>4. QED
    BY <2>1, <2>2, <2>3
<1>3. [p EXCEPT !.capable = cap] = Rec(i, s, n, h, g, cap)
  BY <1>0 DEF Rec
<1>4. [p EXCEPT !.capable = cap, !.sync = "kFreeRun", !.gm = FALSE, !.init = TRUE]
        = Rec(TRUE, "kFreeRun", n, h, FALSE, cap)
  BY <1>1, Zenon
<1>5. [p EXCEPT !.capable = TRUE, !.gm = TRUE, !.sync = "kLocked"]
        = Rec(i, "kLocked", n, h, TRUE, TRUE)
  BY <1>2, Zenon
<1>6. QED
  BY <1>3, <1>4, <1>5, Zenon DEF Control!PtpInit, Control!Forced, i, s, n, h, g

\* Init and ForceGrandmasterRole.
LEMMA CallsRefine ==
  ASSUME ClockInv,
         \/ \E cap \in BOOLEAN : InitSucceeds(cap) \/ InitFails(cap)
         \/ ForceGrandmasterRole
  PROVE  Control!Next
<1> DEFINE n == Near(offsetFromGmNs)
           h == lastSyncNs # 0
<1>i. pc = "idle" => ~runsOut
  BY DEF ClockInv, FindingsHold
<1>0. ASSUME pc = "idle"
      PROVE  /\ View.init = initialised /\ View.sync = syncState /\ View.near = n
             /\ View.heard = h /\ View.gm = gmValid /\ View.capable = capable
  BY <1>0, <1>i DEF View, Rec
<1>1. ASSUME NEW cap \in BOOLEAN, InitSucceeds(cap)
      PROVE  Control!Initialise(cap, TRUE)
  <2>1. View.near = n /\ View.heard = h
    BY <1>0, <1>1 DEF InitSucceeds
  <2>2. View' = Rec(TRUE, "kFreeRun", n, h, FALSE, cap)
    BY <1>1, <1>i DEF InitSucceeds, View, Near, tick, servo, foretold
  <2> HIDE DEF n, h
  <2>3. View' = Control!PtpInit(View, cap, TRUE)
    <3>1. Control!PtpInit(View, cap, TRUE)
            = Rec(TRUE, "kFreeRun", View.near, View.heard, FALSE, cap)
      BY CallRecords, ViewIsRec, Zenon
    <3>2. QED
      BY <2>1, <2>2, <3>1, Zenon
  <2>4. QED
    BY <1>1, <2>3 DEF InitSucceeds, View, Rec, foretold, Control!Initialise
<1>2. ASSUME NEW cap \in BOOLEAN, InitFails(cap)
      PROVE  Control!Initialise(cap, FALSE)
  <2>1. /\ View.init = initialised /\ View.sync = syncState /\ View.near = n
        /\ View.heard = h /\ View.gm = gmValid
    BY <1>0, <1>2 DEF InitFails
  <2>2. View' = Rec(initialised, syncState, n, h, gmValid, cap)
    BY <1>2, <1>i DEF InitFails, View, Near, tick, servo, foretold
  <2> HIDE DEF n, h
  <2>3. View' = Control!PtpInit(View, cap, FALSE)
    <3>1. Control!PtpInit(View, cap, FALSE)
            = Rec(View.init, View.sync, View.near, View.heard, View.gm, cap)
      BY CallRecords, ViewIsRec, Zenon
    <3>2. QED
      BY <2>1, <2>2, <3>1, Zenon
  <2>4. QED
    BY <1>2, <2>3 DEF InitFails, View, Rec, foretold, Control!Initialise
<1>3. CASE ForceGrandmasterRole
  <2>1. View.init = initialised /\ View.near = n /\ View.heard = h
    BY <1>0, <1>3 DEF ForceGrandmasterRole
  <2>2. View' = Rec(initialised, "kLocked", n, h, TRUE, TRUE)
    BY <1>3, <1>i DEF ForceGrandmasterRole, View, Near, tick, servo, foretold
  <2> HIDE DEF n, h
  <2>3. View' = Control!Forced(View)
    <3>1. Control!Forced(View) = Rec(View.init, "kLocked", View.near, View.heard, TRUE, TRUE)
      BY CallRecords, ViewIsRec, Zenon
    <3>2. QED
      BY <2>1, <2>2, <3>1, Zenon
  <2>4. Control!ForceGrandmasterRole
    BY <1>3, <2>3 DEF ForceGrandmasterRole, View, Rec, foretold, Control!ForceGrandmasterRole
  <2>5. QED
    BY <2>4 DEF Control!Next
<1>4. QED
  BY <1>1, <1>2, <1>3 DEF Control!Next

\* What a Sync makes of the record: the state it ends in, and the rest.
Synced(s, near, w) ==
  IF w /\ s = "kLocking" /\ near THEN "kLocked"
  ELSE IF w /\ s \in {"kFreeRun", "kHoldover"} THEN "kLocking"
  ELSE s

\* PtpControl makes that of it, too.
LEMMA SyncRecord ==
  ASSUME NEW p, IsRec(p), NEW near, NEW w
  PROVE  p.init =>
           Control!InjectSyncMessage(p, near, w)
             = Rec(p.init, Synced(p.sync, near, w), near, TRUE, p.gm, p.capable)
<1> DEFINE i == p.init
           s == p.sync
           n == p.near
           h == p.heard
           g == p.gm
           c == p.capable
           q == [p EXCEPT !.near = near, !.heard = TRUE]
<1>0. p = Rec(i, s, n, h, g, c)
  BY DEF IsRec
<1>1. ASSUME p.init
      PROVE  Control!InjectSyncMessage(p, near, w)
        = IF w /\ s = "kLocking" /\ near THEN [q EXCEPT !.sync = "kLocked"]
          ELSE IF w /\ s \in {"kFreeRun", "kHoldover"} THEN [q EXCEPT !.sync = "kLocking"]
          ELSE q
  BY <1>1 DEF Control!InjectSyncMessage
<1> HIDE DEF i, s, n, h, g, c
<1>2. ASSUME NEW h2
      PROVE  [p EXCEPT !.near = near, !.heard = h2] = Rec(i, s, near, h2, g, c)
  <2>1. [p EXCEPT !.near = near] = Rec(i, s, near, h, g, c)
    BY <1>0 DEF Rec
  <2>2. [Rec(i, s, near, h, g, c) EXCEPT !.heard = h2] = Rec(i, s, near, h2, g, c)
    BY DEF Rec
  <2>3. QED
    BY <2>1, <2>2
<1>3. q = Rec(i, s, near, TRUE, g, c)
  BY <1>2, Zenon
<1>4. ASSUME NEW h2, NEW s2
      PROVE  [Rec(i, s, near, h2, g, c) EXCEPT !.sync = s2] = Rec(i, s2, near, h2, g, c)
  BY DEF Rec
<1> HIDE DEF q
<1>5. [q EXCEPT !.sync = "kLocked"] = Rec(i, "kLocked", near, TRUE, g, c)
  <2>1. [Rec(i, s, near, TRUE, g, c) EXCEPT !.sync = "kLocked"]
          = Rec(i, "kLocked", near, TRUE, g, c)
    BY <1>4, Zenon
  <2>2. QED
    BY <1>3, <2>1, Zenon
<1>6. [q EXCEPT !.sync = "kLocking"] = Rec(i, "kLocking", near, TRUE, g, c)
  <2>1. [Rec(i, s, near, TRUE, g, c) EXCEPT !.sync = "kLocking"]
          = Rec(i, "kLocking", near, TRUE, g, c)
    BY <1>4, Zenon
  <2>2. QED
    BY <1>3, <2>1, Zenon
<1>7. ASSUME p.init
      PROVE  Control!InjectSyncMessage(p, near, w)
               = Rec(i, Synced(s, near, w), near, TRUE, g, c)
  <2>1. CASE w /\ s = "kLocking" /\ near
    <3>1. Synced(s, near, w) = "kLocked"
      BY <2>1 DEF Synced
    <3>2. QED
      BY <1>1, <1>5, <1>7, <2>1, <3>1, Zenon
  <2>2. CASE ~(w /\ s = "kLocking" /\ near) /\ w /\ s \in {"kFreeRun", "kHoldover"}
    <3>1. Synced(s, near, w) = "kLocking"
      BY <2>2 DEF Synced
    <3>2. Control!InjectSyncMessage(p, near, w) = [q EXCEPT !.sync = "kLocking"]
      BY <1>1, <1>7, <2>2
    <3>3. QED
      BY <1>6, <3>1, <3>2, Zenon
  <2>3. CASE ~(w /\ s = "kLocking" /\ near) /\ ~(w /\ s \in {"kFreeRun", "kHoldover"})
    <3>1. Synced(s, near, w) = s
      BY <2>3 DEF Synced
    <3>2. Control!InjectSyncMessage(p, near, w) = q
      BY <1>1, <1>7, <2>3
    <3>3. QED
      BY <1>3, <3>1, <3>2, Zenon
  <2>4. QED
    BY <2>1, <2>2, <2>3
<1>8. QED
  BY <1>7 DEF i, s, g, c

\* A Sync that comes while a Tick is about to assign kFreeRun counts as one whose
\* adjustment could not be written.
LEMMA SyncRefines ==
  ASSUME ClockInv, NEW off \in Offsets, NEW ok \in BOOLEAN, InjectSyncMessage(off, ok)
  PROVE  Control!Next
<1> DEFINE w == ok /\ ~runsOut
           after == IF runsOut THEN "kFreeRun" ELSE syncState'
<1>1. w \in BOOLEAN /\ Near(off) \in BOOLEAN
  BY DEF Near
<1>2. initialised /\ (lastSyncNs # 0)' = TRUE /\ offsetFromGmNs' = off /\ pc' = pc
      /\ gmValid' = gmValid /\ capable' = capable /\ initialised' = initialised
      /\ expired' = expired /\ runsOut' = runsOut
  BY DEF InjectSyncMessage, ClockInv, TypeOK, tick, holdover, foretold
<1>3. /\ View.init = initialised /\ View.gm = gmValid /\ View.capable = capable
      /\ View.sync = IF runsOut THEN "kFreeRun" ELSE syncState
  BY DEF View, Rec
<1>4. after = Synced(View.sync, Near(off), w)
  BY <1>3 DEF InjectSyncMessage, Reacquires, Synced
<1>5. Near(offsetFromGmNs)' = Near(off)
  BY <1>2 DEF Near
<1>6. View' = Rec(initialised, after, Near(off), TRUE, gmValid, capable)
  BY <1>2, <1>5 DEF View
<1> HIDE DEF w, after
<1>7. View' = Control!InjectSyncMessage(View, Near(off), w)
  <2>1. View.init
    BY <1>2, <1>3
  <2>2. Control!InjectSyncMessage(View, Near(off), w)
          = Rec(View.init, Synced(View.sync, Near(off), w), Near(off), TRUE, View.gm,
                View.capable)
    BY <2>1, SyncRecord, ViewIsRec, Zenon
  <2>3. QED
    BY <1>3, <1>4, <1>6, <2>2, Zenon
<1>8. Control!ReceiveSync(Near(off), w)
  BY <1>2, <1>7 DEF View, Rec, Control!ReceiveSync
<1>9. QED
  BY <1>1, <1>8 DEF Control!Next

\* What a Tick may make of a record p, and the steps it is made of.
LEMMA TickOutcomes ==
  ASSUME NEW p
  PROVE  /\ [ptp |-> p, expired |-> FALSE] \in Control!PtpTick(p, FALSE)
         /\ p.init /\ p.sync = "kHoldover" =>
              /\ [ptp |-> p, expired |-> FALSE] \in Control!PtpTick(p, TRUE)
              /\ [ptp |-> p, expired |-> TRUE] \in Control!PtpTick(p, TRUE)
              /\ [ptp |-> [p EXCEPT !.sync = "kFreeRun"], expired |-> TRUE]
                   \in Control!PtpTick(p, TRUE)
         /\ p.init /\ p.sync # "kHoldover" =>
              [ptp |-> Control!RunBmca(p), expired |-> FALSE] \in Control!PtpTick(p, TRUE)
         /\ p.init /\ p.sync = "kLocked" /\ p.heard =>
              [ptp |-> Control!EnterHoldover(p), expired |-> FALSE]
                \in Control!PtpTick(p, TRUE)
BY Zenon DEF Control!PtpTick

\* Each way a Tick may go, as a record.
LEMMA TickRecords ==
  ASSUME NEW p, IsRec(p)
  PROVE  /\ [p EXCEPT !.sync = "kFreeRun"]
              = Rec(p.init, "kFreeRun", p.near, p.heard, p.gm, p.capable)
         /\ Control!EnterHoldover(p)
              = Rec(p.init, "kHoldover", p.near, p.heard, p.gm, p.capable)
         /\ Control!RunBmca(p)
              = IF ~p.gm /\ p.capable
                THEN Rec(p.init, "kLocked", p.near, p.heard, TRUE, p.capable)
                ELSE p
<1> DEFINE i == p.init
           s == p.sync
           n == p.near
           h == p.heard
           g == p.gm
           c == p.capable
<1>0. p = Rec(i, s, n, h, g, c)
  BY DEF IsRec
<1> HIDE DEF i, s, n, h, g, c
<1>1. ASSUME NEW s2
      PROVE  [p EXCEPT !.sync = s2] = Rec(i, s2, n, h, g, c)
  BY <1>0 DEF Rec
<1>2. ASSUME NEW g2, NEW s2
      PROVE  [p EXCEPT !.gm = g2, !.sync = s2] = Rec(i, s2, n, h, g2, c)
  <2>1. [p EXCEPT !.gm = g2] = Rec(i, s, n, h, g2, c)
    BY <1>0 DEF Rec
  <2>2. [Rec(i, s, n, h, g2, c) EXCEPT !.sync = s2] = Rec(i, s2, n, h, g2, c)
    BY DEF Rec
  <2>3. QED
    BY <2>1, <2>2
<1>3. [p EXCEPT !.gm = TRUE, !.sync = "kLocked"] = Rec(i, "kLocked", n, h, TRUE, c)
  BY <1>2, Zenon
<1>4. /\ [p EXCEPT !.sync = "kFreeRun"] = Rec(i, "kFreeRun", n, h, g, c)
      /\ [p EXCEPT !.sync = "kHoldover"] = Rec(i, "kHoldover", n, h, g, c)
  BY <1>1, Zenon
<1>5. QED
  BY <1>3, <1>4, Zenon DEF Control!EnterHoldover, Control!RunBmca, i, s, n, h, g, c

\* A step that ends in one of these outcomes is a Tick.
LEMMA OutcomeIsTick ==
  ASSUME NEW e \in BOOLEAN, NEW ok \in BOOLEAN, NEW q,
         [ptp |-> q, expired |-> e] \in Control!PtpTick(View, ok),
         View' = q, expired' = e
  PROVE  Control!Next
<1> DEFINE r == [ptp |-> q, expired |-> e]
<1>1. r.ptp = q /\ r.expired = e
  OBVIOUS
<1>2. Control!Tick(ok)
  BY <1>1 DEF View, Rec, Control!Tick
<1>3. QED
  BY <1>2 DEF Control!Next

\* The fields of the record a Tick starts from.
LEMMA ViewFields ==
  ASSUME ~runsOut
  PROVE  /\ View.init = initialised /\ View.sync = syncState
         /\ View.near = Near(offsetFromGmNs) /\ View.heard = (lastSyncNs # 0)
         /\ View.gm = gmValid /\ View.capable = capable
BY DEF View, Rec

\* The steps of a Tick that end it, or in which it finds its outcome.
LEMMA TicksRefine ==
  ASSUME ClockInv,
         TickFails \/ TickFindsHoldover \/ TickEntersHoldover \/ TickRunsBmca
  PROVE  Control!Next
<1>1. CASE TickFails
  <2>1. ~runsOut
    BY <1>1 DEF TickFails, ClockInv, FindingsHold
  <2>2. View' = View /\ expired' = FALSE
    BY <1>1, <2>1 DEF TickFails, Return, clock, servo, holdover, View, Rec, Near
  <2>3. [ptp |-> View, expired |-> FALSE] \in Control!PtpTick(View, FALSE)
    BY TickOutcomes, Zenon
  <2>4. QED
    BY <2>2, <2>3, OutcomeIsTick, Zenon
<1>2. CASE TickFindsHoldover
  <2>1. /\ View.init /\ View.sync = "kHoldover"
        /\ ~runsOut
    BY <1>2, ViewFields DEF TickFindsHoldover, ClockInv, FindingsHold
  <2>2. CASE runsOut' = TRUE
    <3>1. View' = Rec(View.init, "kFreeRun", View.near, View.heard, View.gm, View.capable)
      BY <1>2, <2>1, <2>2, ViewFields DEF TickFindsHoldover, clock, servo, holdover, View,
                                          Near
    <3>2. View' = [View EXCEPT !.sync = "kFreeRun"]
      BY <3>1, TickRecords, ViewIsRec, Zenon
    <3>3. expired' = TRUE
      BY <1>2, <2>2 DEF TickFindsHoldover
    <3>4. [ptp |-> [View EXCEPT !.sync = "kFreeRun"], expired |-> TRUE]
            \in Control!PtpTick(View, TRUE)
      BY <2>1, TickOutcomes, Zenon
    <3>5. QED
      BY <3>2, <3>3, <3>4, OutcomeIsTick, Zenon
  <2>3. CASE runsOut' = FALSE
    <3>1. View' = View /\ expired' \in BOOLEAN
      BY <1>2, <2>1, <2>3 DEF TickFindsHoldover, clock, servo, holdover, View, Rec, Near
    <3>2. /\ [ptp |-> View, expired |-> FALSE] \in Control!PtpTick(View, TRUE)
          /\ [ptp |-> View, expired |-> TRUE] \in Control!PtpTick(View, TRUE)
      BY <2>1, TickOutcomes, Zenon
    <3>3. CASE expired' = TRUE
      BY <3>1, <3>2, <3>3, OutcomeIsTick, Zenon
    <3>4. CASE expired' = FALSE
      BY <3>1, <3>2, <3>4, OutcomeIsTick, Zenon
    <3>5. QED
      BY <3>1, <3>3, <3>4
  <2>4. QED
    BY <1>2, <2>2, <2>3 DEF TickFindsHoldover
<1>3. CASE TickEntersHoldover
  <2>1. View.init /\ View.sync = "kLocked" /\ View.heard
    BY <1>3, ViewFields DEF TickEntersHoldover, ClockInv, FindingsHold
  <2>2. View' = Rec(View.init, "kHoldover", View.near, View.heard, View.gm, View.capable)
    <3>1. ~runsOut /\ ~runsOut'
      BY <1>3 DEF TickEntersHoldover, Return, ClockInv, FindingsHold
    <3>2. QED
      BY <1>3, <3>1, ViewFields DEF TickEntersHoldover, EnterHoldover, clock, servo, View,
                                    Near
  <2>3. View' = Control!EnterHoldover(View) /\ expired' = FALSE
    BY <1>3, <2>2, TickRecords, ViewIsRec, Zenon DEF TickEntersHoldover, Return
  <2>4. [ptp |-> Control!EnterHoldover(View), expired |-> FALSE]
          \in Control!PtpTick(View, TRUE)
    BY <2>1, TickOutcomes, Zenon
  <2>5. QED
    BY <2>3, <2>4, OutcomeIsTick, Zenon
<1>4. CASE TickRunsBmca
  <2>1. View.init /\ View.sync # "kHoldover"
    BY <1>4, ViewFields DEF TickRunsBmca, ClockInv, FindingsHold
  <2>2. /\ View.gm = gmValid /\ View.capable = capable
        /\ View' = IF ~gmValid /\ capable
                   THEN Rec(View.init, "kLocked", View.near, View.heard, TRUE, View.capable)
                   ELSE View
    <3>1. /\ ~runsOut /\ ~runsOut'
          /\ initialised' = initialised /\ capable' = capable
          /\ Near(offsetFromGmNs)' = Near(offsetFromGmNs)
          /\ (lastSyncNs # 0)' = (lastSyncNs # 0)
      BY <1>4 DEF TickRunsBmca, Return, servo, Near, ClockInv, FindingsHold
    <3>2. CASE ~gmValid /\ capable
      BY <1>4, <3>1, <3>2, ViewFields DEF TickRunsBmca, View
    <3>3. CASE ~(~gmValid /\ capable)
      BY <1>4, <3>1, <3>3, ViewFields DEF TickRunsBmca, View
    <3>4. QED
      BY <3>1, <3>2, <3>3, ViewFields
  <2>3. View' = Control!RunBmca(View) /\ expired' = FALSE
    BY <1>4, <2>2, TickRecords, ViewIsRec, Zenon DEF TickRunsBmca, Return
  <2>4. [ptp |-> Control!RunBmca(View), expired |-> FALSE] \in Control!PtpTick(View, TRUE)
    BY <2>1, TickOutcomes, Zenon
  <2>5. QED
    BY <2>3, <2>4, OutcomeIsTick, Zenon
<1>5. QED
  BY <1>1, <1>2, <1>3, <1>4

\* The steps the orchestrator's model does not see.
LEMMA StepsStutter ==
  ASSUME ClockInv,
         \/ TickReadsSeconds \/ TickReadsNs \/ TickStoresUsed \/ TickFindsExpiry
         \/ TickExpires \/ TickWithinBudget \/ TickHoldsOver \/ TickFindsTimeout
         \/ Elapse \/ UNCHANGED vars
  PROVE  View' = View /\ expired' = expired
<1>1. CASE TickReadsSeconds
  BY <1>1 DEF TickReadsSeconds, clock, servo, holdover, foretold, View, Rec, Near
<1>2. CASE TickReadsNs
  BY <1>2 DEF TickReadsNs, clock, servo, holdover, foretold, View, Rec, Near
<1>3. CASE TickExpires
  <2>1. expired = TRUE /\ runsOut
    BY <1>3 DEF TickExpires, ClockInv, FindingsHold, TypeOK
  <2>2. QED
    BY <1>3, <2>1 DEF TickExpires, Return, clock, servo, holdover, View, Rec, Near
<1>4. CASE TickFindsTimeout
  BY <1>4 DEF TickFindsTimeout, clock, servo, holdover, foretold, View, Rec, Near
<1>5. CASE Elapse
  BY <1>5 DEF Elapse, servo, holdover, foretold, tick, View, Rec, Near
<1>6. CASE UNCHANGED vars
  BY <1>6 DEF vars, View, Rec, Near
<1>7. CASE TickHoldsOver
  <2>1. ~runsOut
    BY <1>7 DEF TickHoldsOver, ClockInv, FindingsHold
  <2>2. QED
    BY <1>7, <2>1 DEF TickHoldsOver, Return, clock, servo, holdover, View, Rec, Near
<1>8. CASE TickStoresUsed \/ TickFindsExpiry \/ TickWithinBudget
  BY <1>8 DEF TickStoresUsed, TickFindsExpiry, TickWithinBudget, clock, servo, holdover,
              foretold, View, Rec, Near
<1>9. QED
  BY <1>1, <1>2, <1>3, <1>4, <1>5, <1>6, <1>7, <1>8

\* A clock with its times, its servo, torn readings and Syncs inside a Tick makes
\* only the steps that the orchestrator's model allows its clock.
THEOREM ClockRefinesControl == Spec => ImplementsPtpControl
<1>1. Init => Control!Init
  <2> SUFFICES ASSUME Init PROVE Control!Init
    OBVIOUS
  <2>1. View = Rec(FALSE, "kFreeRun", TRUE, FALSE, FALSE, FALSE) /\ expired = FALSE
    <3>1. Near(offsetFromGmNs) = TRUE
      BY PtpClockAssumption DEF Init, Near
    <3>2. (lastSyncNs # 0) = FALSE
      BY DEF Init
    <3>3. (IF runsOut THEN "kFreeRun" ELSE syncState) = "kFreeRun"
      BY DEF Init
    <3>4. initialised = FALSE /\ gmValid = FALSE /\ capable = FALSE /\ expired = FALSE
      BY Zenon DEF Init
    <3>5. QED
      BY <3>1, <3>2, <3>3, <3>4, Zenon DEF View
  <2>2. QED
    BY <2>1 DEF View, Rec, Control!Init, Control!NewPtp
<1>2. ClockInv /\ [Next]_vars => Control!Next \/ (View' = View /\ expired' = expired)
  BY CallsRefine, SyncRefines, TicksRefine, StepsStutter DEF Next
<1>3. ClockInv /\ [Next]_vars => [Control!Next]_(Control!vars)
  BY <1>2 DEF View, Rec, Control!vars
<1>4. QED
  BY <1>1, <1>3, ClockInvariant, PTL DEF Spec, ImplementsPtpControl, Control!Spec

=============================================================================
