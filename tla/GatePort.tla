------------------------------ MODULE GatePort ------------------------------
(***************************************************************************)
(* One switch port: its GateControlManager and the two gate control list   *)
(* banks the switch keeps for it.  Schedules are opaque here; Valid is the *)
(* set of those the seven-stage pipeline accepts.  A port is a record      *)
(*   active  - scheduleActive_                                             *)
(*   sched   - activeSchedule_ (NoSchedule until one is applied)           *)
(*   oper    - the Oper bank, the schedule the gates follow                *)
(*   pending - a schedule whose Admin->Oper swap has not happened although *)
(*             the call that asked for it has given up, or NoSchedule      *)
(***************************************************************************)
CONSTANTS
  Schedules,     \* schedules a caller may hand over
  Valid,         \* those ValidateSchedule accepts
  PassThrough,   \* what DisableSchedule writes: all gates open
  Boot,          \* the gates of a switch that has just been reset
  Corrupt,       \* an Oper bank hit by a soft error
  NoSchedule

ASSUME ScheduleAssumption ==
  /\ Valid \subseteq Schedules
  /\ {PassThrough, Boot, Corrupt, NoSchedule} \cap Schedules = {}
  /\ NoSchedule \notin {PassThrough, Boot, Corrupt}
  /\ Corrupt \notin {PassThrough, Boot}

\* What the management bus makes of a call of ApplyGclToPort: the swap is
\* committed, a write fails, or the ConfigPending poll times out.
HalOutcome == {"ok", "failed", "timeout"}

Port == [active : BOOLEAN, sched : Schedules \cup {NoSchedule},
         oper : Schedules \cup {PassThrough, Boot, Corrupt},
         pending : Schedules \cup {PassThrough, NoSchedule}]

\* A GateControlManager newly constructed over whatever the banks hold.
NewGcm(pt) == [pt EXCEPT !.active = FALSE, !.sched = NoSchedule]

-----------------------------------------------------------------------------
(* The HAL, from its contract: a swap still pending refuses the call with  *)
(* kHalShadowBufferBusy, and a poll that timed out leaves it pending.      *)

Committed(pt, out) == pt.pending = NoSchedule /\ out = "ok"

ApplyGclToPort(pt, s, out) ==
  IF pt.pending # NoSchedule THEN pt
  ELSE [pt EXCEPT !.oper = IF out = "ok" THEN s ELSE @,
                  !.pending = IF out = "timeout" THEN s ELSE @]

\* The swap the hardware makes at the next base time after a timeout.
SwapPending(pt) == [pt EXCEPT !.oper = pt.pending, !.pending = NoSchedule]

-----------------------------------------------------------------------------
(* GateControlManager                                                      *)

ApplyOk(pt, s, out) == s \in Valid /\ Committed(pt, out)

\* Faulty variants: the pipeline's verdict is ignored; the schedule is recorded
\* before the HAL has answered.
ApplyUnvalidated(pt, s, out) ==
  IF Committed(pt, out)
  THEN [ApplyGclToPort(pt, s, out) EXCEPT !.active = TRUE, !.sched = s]
  ELSE ApplyGclToPort(pt, s, out)

ApplyRecordedFirst(pt, s, out) ==
  IF s \notin Valid THEN pt
  ELSE [ApplyGclToPort(pt, s, out) EXCEPT !.active = TRUE, !.sched = s]

ApplySchedule(pt, s, out) ==
  IF s \notin Valid THEN pt
  ELSE IF Committed(pt, out)
       THEN [ApplyGclToPort(pt, s, out) EXCEPT !.active = TRUE, !.sched = s]
       ELSE ApplyGclToPort(pt, s, out)

DisableSchedule(pt, out) ==
  IF Committed(pt, out)
  THEN [ApplyGclToPort(pt, PassThrough, out) EXCEPT !.active = FALSE]
  ELSE ApplyGclToPort(pt, PassThrough, out)

\* VerifyHardwareSchedule reads the Oper bank back and compares it with the
\* active schedule; readOk is whether ReadOperGcl succeeds.
VerifyOk(pt, readOk) == pt.active /\ readOk /\ pt.oper = pt.sched

=============================================================================
