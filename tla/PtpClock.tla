------------------------------ MODULE PtpClock ------------------------------
(***************************************************************************)
(* PtpClockManager with its times and its servo.  Tick takes several       *)
(* steps: it reads the seconds and the nanoseconds of the PHC, decides     *)
(* with what it has read, and only then assigns.  Time passes between any  *)
(* two steps, and the driver's ISR may deliver a Sync there: members are   *)
(* plain variables that both sides read and write.                         *)
(*                                                                         *)
(* The PHC is taken to run steadily: what the frequency adjustment and the *)
(* drift correction do to it is not modelled.                              *)
(* clockRole_ is kGrandmaster exactly when gmValid_ is set.  Left out are  *)
(* the identity of the grandmaster, which only queries read, and the mean  *)
(* path delay, which is never measured.                                    *)
(***************************************************************************)
EXTENDS Integers

CONSTANTS
  NsPerSecond,           \* kNsPerSecond
  Word,                  \* number of values of a u64
  SyncTimeoutNs, HoldoverBudgetNs,
  GmLostTimeouts,        \* silent timeouts in holdover that count as a lost GM
  kPtpSyncTargetNs,
  Kp, Ki,                \* the servo divides by these powers of two
  kIntegralClamp, kAdjustmentClampPpb,
  RegWord,               \* number of values of a register
  MaxI64,                \* largest value of an i64
  Offsets,               \* offsets from the grandmaster a Sync may show
  MaxTime                \* bound on the PHC

ASSUME PtpClockAssumption ==
  /\ NsPerSecond \in Nat \ {0}
  /\ Word \in Nat \ {0}
  /\ MaxTime \in Nat \ {0}
  /\ MaxTime < Word
  /\ SyncTimeoutNs \in Nat
  /\ HoldoverBudgetNs \in Nat
  /\ GmLostTimeouts \in Nat
  /\ kPtpSyncTargetNs \in Nat \ {0}
  /\ Kp \in Nat \ {0}
  /\ Ki \in Nat \ {0}
  /\ kIntegralClamp \in Nat
  /\ kAdjustmentClampPpb \in Nat
  /\ RegWord \in Nat \ {0}
  /\ 2 * kAdjustmentClampPpb < RegWord
  /\ MaxI64 \in Nat
  /\ 2 * kIntegralClamp <= MaxI64
  /\ Offsets \subseteq (kIntegralClamp - MaxI64) .. (MaxI64 - kIntegralClamp)

VARIABLES
  initialised,
  capable,           \* cfg_ lets the node elect itself grandmaster
  syncState, gmValid, offsetFromGmNs, integral, lastSyncNs, holdoverStartNs,
  holdoverUsedNs,
  freqReg,           \* the frequency adjustment register
  phc,               \* the PTP hardware clock
  pc, sec, nowNs,    \* where Tick is, and what it has read
  expired,           \* whether the last Tick returned kPtpHoldoverExpired; from the
                     \* step that finds the holdover on, whether this one will
  runsOut,           \* prophecy: this Tick will find the budget used up
  \* History:
  began,             \* the PHC when the Tick began
  heldSince          \* the last Sync before the present holdover

vars == <<initialised, capable, syncState, gmValid, offsetFromGmNs, integral,
          lastSyncNs, holdoverStartNs, holdoverUsedNs, freqReg, phc, pc, sec, nowNs,
          expired, runsOut, began, heldSince>>

servo    == <<offsetFromGmNs, integral, freqReg>>
tick     == <<pc, sec, nowNs, began>>
holdover == <<holdoverStartNs, holdoverUsedNs>>
foretold == <<expired, runsOut>>

Init ==
  /\ initialised = FALSE
  /\ capable = FALSE
  /\ syncState = "kFreeRun"
  /\ gmValid = FALSE
  /\ offsetFromGmNs = 0
  /\ integral = 0
  /\ lastSyncNs = 0
  /\ holdoverStartNs = 0
  /\ holdoverUsedNs = 0
  /\ freqReg = 0
  /\ phc = 1
  /\ pc = "idle"
  /\ sec = 0
  /\ nowNs = 0
  /\ expired = FALSE
  /\ runsOut = FALSE
  /\ began = 0
  /\ heldSince = 0

Elapsed(from) == (nowNs - from) % Word    \* u64

-----------------------------------------------------------------------------
(* Init and ForceGrandmasterRole, called from the thread that calls Tick.  *)

\* Neither the offset nor the times of the last Sync and holdover are reset.
InitSucceeds(cap) ==
  /\ pc = "idle"
  /\ capable' = cap
  /\ freqReg' = 0
  /\ syncState' = "kFreeRun"
  /\ gmValid' = FALSE
  /\ integral' = 0
  /\ initialised' = TRUE
  /\ UNCHANGED <<offsetFromGmNs, lastSyncNs, holdover, phc, tick, foretold, heldSince>>

\* The frequency register cannot be written.
InitFails(cap) ==
  /\ pc = "idle"
  /\ capable' = cap
  /\ UNCHANGED <<initialised, syncState, gmValid, lastSyncNs, holdover, servo, phc,
                 tick, foretold, heldSince>>

ForceGrandmasterRole ==
  /\ pc = "idle"
  /\ capable' = TRUE
  /\ gmValid' = TRUE
  /\ syncState' = "kLocked"
  /\ UNCHANGED <<initialised, lastSyncNs, holdover, servo, phc, tick, foretold,
                 heldSince>>

-----------------------------------------------------------------------------
(* The servo                                                               *)

ArithmeticShiftRight(value, divisor) == value \div divisor    \* rounds down

Clamp(value, limit) ==
  IF value > limit THEN limit ELSE IF value < -limit THEN -limit ELSE value

\* Faulty variants: no clamp from below.
IntegralUnclamped(off) ==
  IF integral + off > kIntegralClamp THEN kIntegralClamp ELSE integral + off

AdjustmentUnclamped(off, int) ==
  LET adjustment == -(ArithmeticShiftRight(off, Kp) + ArithmeticShiftRight(int, Ki))
  IN  IF adjustment > kAdjustmentClampPpb THEN kAdjustmentClampPpb ELSE adjustment

Integral(off) == Clamp(integral + off, kIntegralClamp)

Adjustment(off, int) ==
  Clamp(-(ArithmeticShiftRight(off, Kp) + ArithmeticShiftRight(int, Ki)),
        kAdjustmentClampPpb)

\* Faulty variant: the adjustment is written without its conversion.
RunServoSigned(off, writeOk) ==
  /\ integral' = Integral(off)
  /\ freqReg' = IF writeOk THEN Adjustment(off, Integral(off)) ELSE freqReg

\* RunServo, and ApplyPhcAdjustment with its conversion to 32 bits.
RunServo(off, writeOk) ==
  /\ integral' = Integral(off)
  /\ freqReg' = IF writeOk THEN Adjustment(off, Integral(off)) % RegWord ELSE freqReg

Near(off) == -kPtpSyncTargetNs < off /\ off < kPtpSyncTargetNs

\* The first Sync after a free run or a holdover.
Reacquires == syncState \in {"kFreeRun", "kHoldover"}

\* InjectSyncMessage, from the ISR, at any moment; the ingress timestamp is the
\* PHC.  If the register cannot be written the lock state is not touched.
InjectSyncMessage(off, writeOk) ==
  /\ initialised
  /\ offsetFromGmNs' = off
  /\ lastSyncNs' = phc
  /\ RunServo(off, writeOk)
  /\ syncState' = IF writeOk /\ syncState = "kLocking" /\ Near(off) THEN "kLocked"
                  ELSE IF writeOk /\ Reacquires THEN "kLocking"
                  ELSE syncState
  /\ holdoverUsedNs' = IF writeOk /\ Reacquires THEN 0 ELSE holdoverUsedNs
  /\ UNCHANGED <<initialised, capable, gmValid, holdoverStartNs, phc, tick, foretold,
                 heldSince>>

-----------------------------------------------------------------------------
(* Tick                                                                    *)

clock == <<initialised, capable, gmValid, lastSyncNs, servo, phc>>

\* kPhcSecHighReg and kPhcSecLowReg.
TickReadsSeconds ==
  /\ pc = "idle"
  /\ initialised
  /\ sec' = phc \div NsPerSecond
  /\ began' = phc
  /\ pc' = "ns"
  /\ UNCHANGED <<clock, syncState, holdover, nowNs, foretold, heldSince>>

TickReadsNs ==
  /\ pc = "ns"
  /\ nowNs' = sec * NsPerSecond + (phc % NsPerSecond)
  /\ sec' = 0
  /\ pc' = "decide"
  /\ UNCHANGED <<clock, syncState, holdover, began, foretold, heldSince>>

\* Tick returns; what it has read is gone.
Return(exp) ==
  /\ expired' = exp
  /\ runsOut' = FALSE
  /\ pc' = "idle"
  /\ sec' = 0
  /\ nowNs' = 0
  /\ began' = 0

\* In holdover.  What the comparisons to come will find, with the Syncs that come
\* before them, is foretold here; a wrong prophecy does not return.
TickFindsHoldover ==
  /\ pc = "decide"
  /\ syncState = "kHoldover"
  /\ pc' = "drift"
  /\ expired' \in BOOLEAN
  /\ runsOut' \in BOOLEAN
  /\ runsOut' => expired'
  /\ UNCHANGED <<clock, syncState, holdover, sec, nowNs, began, heldSince>>

\* A register cannot be read, or in holdover the drift correction not written.
TickFails ==
  /\ \/ pc = "idle" /\ initialised
     \/ pc = "ns"
     \/ pc = "drift" /\ ~expired
  /\ Return(FALSE)
  /\ UNCHANGED <<clock, syncState, holdover, heldSince>>

TickStoresUsed ==
  /\ pc = "drift"
  /\ holdoverUsedNs' = Elapsed(holdoverStartNs)
  /\ pc' = "budget"
  /\ UNCHANGED <<clock, syncState, holdoverStartNs, sec, nowNs, began, foretold,
                 heldSince>>

\* The comparison with the budget reads holdoverUsedNs_ again, or the compiler has
\* kept the value that was stored: a Sync in between may hide the expiry.
TickFindsExpiry ==
  /\ pc = "budget"
  /\ runsOut
  /\ Elapsed(holdoverStartNs) > HoldoverBudgetNs
  /\ pc' = "expire"
  /\ UNCHANGED <<clock, syncState, holdover, sec, nowNs, began, foretold, heldSince>>

TickWithinBudget ==
  /\ pc = "budget"
  /\ ~runsOut
  /\ holdoverUsedNs <= HoldoverBudgetNs
  /\ pc' = "silence"
  /\ UNCHANGED <<clock, syncState, holdover, sec, nowNs, began, foretold, heldSince>>

TickExpires ==
  /\ pc = "expire"
  /\ syncState' = "kFreeRun"
  /\ Return(TRUE)
  /\ UNCHANGED <<clock, holdover, heldSince>>

GmLost == Elapsed(lastSyncNs) > SyncTimeoutNs * GmLostTimeouts

\* A grandmaster that has been silent for too long is reported like the expiry,
\* but the holdover goes on.
TickHoldsOver ==
  /\ pc = "silence"
  /\ expired = GmLost
  /\ Return(expired)
  /\ UNCHANGED <<clock, syncState, holdover, heldSince>>

\* Faulty variant: a clock that never had a Sync times out.
SyncTimedOutUnheard == Elapsed(lastSyncNs) > SyncTimeoutNs /\ syncState = "kLocked"

SyncTimedOut ==
  /\ lastSyncNs # 0
  /\ Elapsed(lastSyncNs) > SyncTimeoutNs
  /\ syncState = "kLocked"

TickFindsTimeout ==
  /\ pc = "decide"
  /\ SyncTimedOut
  /\ pc' = "hold"
  /\ UNCHANGED <<clock, syncState, holdover, sec, nowNs, began, foretold, heldSince>>

\* Faulty variant: the budget goes on from the holdover before.
EnterHoldoverOldBudget ==
  /\ syncState' = "kHoldover"
  /\ holdoverUsedNs' = 0
  /\ UNCHANGED holdoverStartNs

EnterHoldover ==
  /\ syncState' = "kHoldover"
  /\ holdoverStartNs' = lastSyncNs
  /\ holdoverUsedNs' = 0

TickEntersHoldover ==
  /\ pc = "hold"
  /\ EnterHoldover
  /\ heldSince' = lastSyncNs
  /\ Return(FALSE)
  /\ UNCHANGED clock

\* Neither holdover nor a timeout: RunBmca.
TickRunsBmca ==
  /\ pc = "decide"
  /\ syncState # "kHoldover"
  /\ ~SyncTimedOut
  /\ IF ~gmValid /\ capable
     THEN gmValid' = TRUE /\ syncState' = "kLocked"
     ELSE UNCHANGED <<gmValid, syncState>>
  /\ Return(FALSE)
  /\ UNCHANGED <<initialised, capable, lastSyncNs, servo, phc, holdover, heldSince>>

Elapse ==
  /\ phc < MaxTime
  /\ phc' = phc + 1
  /\ UNCHANGED <<initialised, capable, syncState, gmValid, lastSyncNs, holdover, servo,
                 tick, foretold, heldSince>>

Next ==
  \/ \E cap \in BOOLEAN : InitSucceeds(cap) \/ InitFails(cap)
  \/ ForceGrandmasterRole
  \/ \E off \in Offsets, ok \in BOOLEAN : InjectSyncMessage(off, ok)
  \/ TickReadsSeconds \/ TickReadsNs \/ TickFails
  \/ TickFindsHoldover \/ TickStoresUsed \/ TickFindsExpiry \/ TickExpires
  \/ TickWithinBudget \/ TickHoldsOver
  \/ TickFindsTimeout \/ TickEntersHoldover \/ TickRunsBmca
  \/ Elapse

Spec == Init /\ [][Next]_vars

-----------------------------------------------------------------------------
(* Properties                                                              *)

\* Every variable has its type.
TypeOK ==
  /\ initialised \in BOOLEAN
  /\ capable \in BOOLEAN
  /\ syncState \in {"kFreeRun", "kLocking", "kLocked", "kHoldover"}
  /\ gmValid \in BOOLEAN
  /\ offsetFromGmNs \in Offsets \cup {0}
  /\ integral \in Int
  /\ lastSyncNs \in 0 .. MaxTime
  /\ holdoverStartNs \in 0 .. MaxTime
  /\ holdoverUsedNs \in 0 .. (Word - 1)
  /\ freqReg \in 0 .. (RegWord - 1)
  /\ phc \in 1 .. MaxTime
  /\ pc \in {"idle", "ns", "decide", "drift", "budget", "expire", "silence", "hold"}
  /\ sec \in Nat
  /\ nowNs \in Nat
  /\ expired \in BOOLEAN
  /\ runsOut \in BOOLEAN
  /\ began \in 0 .. MaxTime
  /\ heldSince \in 0 .. MaxTime

Fits(value) == value \in -MaxI64 .. MaxI64

\* Whatever offset the next Sync shows, no sum or negation of the servo leaves
\* the range of an i64 before the clamps apply.
ServoNeverOverflows ==
  \A off \in Offsets :
    /\ Fits(integral + off)
    /\ Fits(-off)
    /\ Fits(-(ArithmeticShiftRight(off, Kp) + ArithmeticShiftRight(Integral(off), Ki)))

\* The frequency register, read as a signed number, stays within its clamp.
FrequencyWithinClamp ==
  \/ freqReg <= kAdjustmentClampPpb
  \/ freqReg >= RegWord - kAdjustmentClampPpb

\* The reading of this Tick is a moment of this Tick, and no Sync came since.
ReadingHolds == began <= nowNs /\ lastSyncNs < nowNs

\* Unless the seconds rolled over between the two reads or a Sync came in after
\* them, lock is given up only when the last Sync really is older than the
\* timeout, and expiry reported only when the budget, counted from the last
\* Sync before this holdover, or the lost-grandmaster time really has passed.
TimeoutsAreReal ==
  [][ReadingHolds =>
       /\ syncState = "kLocked" /\ syncState' = "kHoldover" =>
            phc - lastSyncNs > SyncTimeoutNs
       /\ pc # "idle" /\ pc' = "idle" /\ expired' =>
            \/ phc - heldSince > HoldoverBudgetNs
            \/ phc - lastSyncNs > SyncTimeoutNs * GmLostTimeouts]_vars

\* A Tick that reads the PHC and finds the last Sync older than the timeout does
\* not leave the clock synchronised or synchronising.
SyncLossNoticed ==
  [][(pc \in {"decide", "hold"} /\ pc' = "idle" /\ lastSyncNs # 0) =>
       (nowNs > lastSyncNs + SyncTimeoutNs => syncState' \in {"kHoldover", "kFreeRun"})
    ]_vars

\* A Tick that has found itself in holdover counts as done: a Sync that comes
\* before it returns comes after it.  One that does not keep kFreeRun from being
\* assigned is overwritten, as if its adjustment had failed.
Control == INSTANCE PtpControlSpec WITH
  ptp <- [init |-> initialised,
          sync |-> IF runsOut THEN "kFreeRun" ELSE syncState,
          near |-> Near(offsetFromGmNs), heard |-> lastSyncNs # 0,
          gm |-> gmValid, capable |-> capable]

\* With torn readings and with Syncs inside a Tick, the one that zeroes
\* holdoverUsedNs_ between its store and its comparison included, the manager still
\* makes only the steps the orchestrator's model has: whole Ticks and whole Syncs.
ImplementsPtpControl == Control!Spec

=============================================================================
