------------------------ MODULE OrchestratorProofs ------------------------
(***************************************************************************)
(* Invariants of Orchestrator for every number of ports, streams, ticks    *)
(* and Init calls, every set of configurations and every mix of failing    *)
(* HAL calls and events of the field.                                      *)
(***************************************************************************)
EXTENDS Orchestrator, TLAPS

USE OrchestratorAssumption, ScheduleAssumption, AuditLogSizeAssumption

-----------------------------------------------------------------------------
(* The port operations of GatePort.                                        *)

\* What the gates of a port follow, or will after a late swap, went through
\* the pipeline.
PortSound(pt) ==
  /\ pt.oper \in Valid \cup {PassThrough, Boot, Corrupt}
  /\ pt.pending \in Valid \cup {PassThrough, NoSchedule}

PortScheduled(pt) == pt.active /\ pt.sched \in Valid

\* ApplySchedule keeps a port well-typed and sound, and never takes an active
\* schedule away.
LEMMA ApplyScheduleFacts ==
  ASSUME NEW pt \in Port, NEW s \in Schedules, NEW out
  PROVE  /\ ApplySchedule(pt, s, out) \in Port
         /\ PortSound(pt) => PortSound(ApplySchedule(pt, s, out))
         /\ PortScheduled(pt) => PortScheduled(ApplySchedule(pt, s, out))
         /\ ApplyOk(pt, s, out) => /\ PortScheduled(ApplySchedule(pt, s, out))
                                   /\ ApplySchedule(pt, s, out).oper = s
<1>1. CASE s \notin Valid
  BY <1>1 DEF ApplySchedule, ApplyOk
<1>2. CASE s \in Valid /\ pt.pending # NoSchedule
  BY <1>2 DEF ApplySchedule, ApplyOk, Committed, ApplyGclToPort
<1>3. CASE s \in Valid /\ pt.pending = NoSchedule /\ out = "ok"
  <2>1. ApplySchedule(pt, s, out)
          = [pt EXCEPT !.oper = s, !.active = TRUE, !.sched = s]
    BY <1>3 DEF ApplySchedule, Committed, ApplyGclToPort, Port
  <2>2. QED
    BY <1>3, <2>1 DEF Port, PortSound, PortScheduled
<1>4. CASE s \in Valid /\ pt.pending = NoSchedule /\ out # "ok"
  <2>1. \/ ApplySchedule(pt, s, out) = pt
        \/ ApplySchedule(pt, s, out) = [pt EXCEPT !.pending = s]
    BY <1>4 DEF ApplySchedule, Committed, ApplyGclToPort, Port
  <2>2. QED
    BY <1>4, <2>1 DEF Port, PortSound, PortScheduled, ApplyOk, Committed
<1>5. QED
  BY <1>1, <1>2, <1>3, <1>4

\* DisableSchedule keeps a port well-typed and sound.
LEMMA DisableScheduleFacts ==
  ASSUME NEW pt \in Port, NEW out
  PROVE  /\ DisableSchedule(pt, out) \in Port
         /\ PortSound(pt) => PortSound(DisableSchedule(pt, out))
<1>1. CASE pt.pending # NoSchedule
  BY <1>1 DEF DisableSchedule, Committed, ApplyGclToPort
<1>2. CASE pt.pending = NoSchedule /\ out = "ok"
  <2>1. DisableSchedule(pt, out) = [pt EXCEPT !.oper = PassThrough, !.active = FALSE]
    BY <1>2 DEF DisableSchedule, Committed, ApplyGclToPort, Port
  <2>2. QED
    BY <1>2, <2>1 DEF Port, PortSound
<1>3. CASE pt.pending = NoSchedule /\ out # "ok"
  <2>1. \/ DisableSchedule(pt, out) = pt
        \/ DisableSchedule(pt, out) = [pt EXCEPT !.pending = PassThrough]
    BY <1>3 DEF DisableSchedule, Committed, ApplyGclToPort, Port
  <2>2. QED
    BY <1>3, <2>1 DEF Port, PortSound
<1>4. QED
  BY <1>1, <1>2, <1>3

\* A late swap, a reset, a new manager and a soft error keep a port well-typed
\* and sound; a late swap and a soft error leave its manager alone.
LEMMA HardwareFacts ==
  ASSUME NEW pt \in Port
  PROVE  /\ NewGcm(pt) \in Port
         /\ PortSound(pt) => PortSound(NewGcm(pt))
         /\ pt.pending # NoSchedule =>
              /\ SwapPending(pt) \in Port
              /\ PortSound(pt) => PortSound(SwapPending(pt))
              /\ PortScheduled(pt) => PortScheduled(SwapPending(pt))
         /\ [pt EXCEPT !.oper = Boot, !.pending = NoSchedule] \in Port
         /\ PortSound([pt EXCEPT !.oper = Boot, !.pending = NoSchedule])
         /\ [pt EXCEPT !.oper = Corrupt] \in Port
         /\ PortSound(pt) => PortSound([pt EXCEPT !.oper = Corrupt])
         /\ PortScheduled(pt) => PortScheduled([pt EXCEPT !.oper = Corrupt])
  BY DEF NewGcm, SwapPending, Port, PortSound, PortScheduled

-----------------------------------------------------------------------------
(* The clock manager of PtpControl.                                        *)

\* Every operation of the clock manager keeps its state well-typed.
LEMMA PtpFacts ==
  ASSUME NEW p \in Ptp
  PROVE  /\ \A c \in BOOLEAN, w \in BOOLEAN : PtpInit(p, c, w) \in Ptp
         /\ \A r : \A o \in PtpTick(p, r) : o.ptp \in Ptp
         /\ \A near \in BOOLEAN, w \in BOOLEAN : InjectSyncMessage(p, near, w) \in Ptp
<1>1. \A c \in BOOLEAN, w \in BOOLEAN : PtpInit(p, c, w) \in Ptp
  BY DEF PtpInit, Ptp, SyncState
<1>2. RunBmca(p) \in Ptp
  BY DEF RunBmca, Ptp, SyncState
<1>3. \A q \in SyncState : [p EXCEPT !.sync = q] \in Ptp
  BY DEF Ptp
<1>4. \A r : \A o \in PtpTick(p, r) : o.ptp \in Ptp
  BY <1>2, <1>3 DEF PtpTick, EnterHoldover, SyncState
<1>5. \A near \in BOOLEAN, w \in BOOLEAN : InjectSyncMessage(p, near, w) \in Ptp
  <2> SUFFICES ASSUME NEW near \in BOOLEAN, NEW w \in BOOLEAN
               PROVE  InjectSyncMessage(p, near, w) \in Ptp
    OBVIOUS
  <2>1. [p EXCEPT !.near = near, !.heard = TRUE] \in Ptp
    BY DEF Ptp
  <2>2. QED
    BY <2>1 DEF InjectSyncMessage, Ptp, SyncState
<1>6. QED
  BY <1>1, <1>4, <1>5

-----------------------------------------------------------------------------
(* The loops over the ports.                                               *)

Sound(pts) == \A i \in Slot : PortSound(pts[i])

\* A loop of ApplySchedule calls, as EnterSafeState and the end of convergence
\* make it, keeps all ports well-typed and sound and all schedules active.
LEMMA ApplyToAllFacts ==
  ASSUME ports \in [Slot -> Port], NEW scheds \in [Slot -> Schedules], NEW out
  PROVE  /\ ApplyToAll(scheds, out) \in [Slot -> Port]
         /\ Sound(ports) => Sound(ApplyToAll(scheds, out))
         /\ \A i \in Slot : PortScheduled(ports[i]) =>
                              PortScheduled(ApplyToAll(scheds, out)[i])
  BY ApplyScheduleFacts DEF ApplyToAll, Sound

\* The DisableSchedule loop of Stop and EnterFault keeps ports well-typed and
\* sound.
LEMMA DisableAllFacts ==
  ASSUME NEW pts \in [Slot -> Port], NEW out
  PROVE  /\ DisableAll(pts, out) \in [Slot -> Port]
         /\ Sound(pts) => Sound(DisableAll(pts, out))
  BY DisableScheduleFacts DEF DisableAll, Sound

\* So does the ApplySchedule loop that an error cuts short.
LEMMA ApplyUpToFacts ==
  ASSUME ports \in [Slot -> Port], cfg.schedules \in [Slot -> Schedules],
         NEW k, NEW out
  PROVE  /\ ApplyUpTo(k, out) \in [Slot -> Port]
         /\ Sound(ports) => Sound(ApplyUpTo(k, out))
  BY ApplyScheduleFacts DEF ApplyUpTo, Sound

\* A reset of the switch leaves all ports well-typed and sound.
LEMMA HalResetFacts ==
  ASSUME ports \in [Slot -> Port]
  PROVE  HalReset \in [Slot -> Port] /\ Sound(HalReset)
  BY HardwareFacts DEF HalReset, Sound

\* cfg_ is a configuration from the constructor on.
LEMMA CfgFacts ==
  ASSUME TypeOK
  PROVE  /\ cfg.schedules \in [Slot -> Schedules]
         /\ cfg.safeStateSchedule \in Schedules
         /\ cfg.frerStreams \in Nat
  BY DEF TypeOK, Config

-----------------------------------------------------------------------------
(* Type correctness.                                                       *)

AuditTypeOK ==
  /\ auditLog \in [0 .. (kAuditLogSize - 1) -> AuditEntry \cup {NoEntry}]
  /\ auditHead \in 0 .. (kAuditLogSize - 1)
  /\ auditCount \in 0 .. kAuditLogSize

\* LogStateTransition keeps the ring, its head and its count in range.
LEMMA LogTypeOK ==
  ASSUME AuditTypeOK, NEW e \in AuditEntry, LogStateTransition(e)
  PROVE  AuditTypeOK'
<1>1. (auditHead + 1) % kAuditLogSize \in 0 .. (kAuditLogSize - 1)
  BY DEF AuditTypeOK
<1>2. auditLog' \in [0 .. (kAuditLogSize - 1) -> AuditEntry \cup {NoEntry}]
  BY DEF AuditTypeOK, LogStateTransition
<1>3. auditCount' \in 0 .. kAuditLogSize
  BY DEF AuditTypeOK, LogStateTransition
<1>4. QED
  BY <1>1, <1>2, <1>3 DEF AuditTypeOK, LogStateTransition

\* Logging a transition between states of the machine keeps the log well-typed.
LEMMA TransitionTypeOK ==
  ASSUME AuditTypeOK, state \in OrchestratorState,
         NEW to \in OrchestratorState,
         NEW trigger \in {"kOk", "kPtpHoldoverExpired", "kDeadlineViolation",
                          "kFrerLatentError", "kMacsecReplayAttack",
                          "kApplyError", "kPtpNotSynchronised"},
         LogTransition(to, trigger)
  PROVE  AuditTypeOK'
<1>1. [from |-> state, to |-> to, trigger |-> trigger] \in AuditEntry
  BY DEF AuditEntry
<1>2. QED
  BY <1>1, LogTypeOK DEF LogTransition

\* GetCurrentTime succeeds or fails.
LEMMA TimeKnownBoolean ==
  ASSUME NEW p, NEW r \in BOOLEAN
  PROVE  TimeKnown(p, r) \in BOOLEAN
  BY DEF TimeKnown

\* What one Tick finds is well-typed, and it only adds to the fault mask.
LEMMA ObservationFacts ==
  ASSUME TypeOK, NEW obs \in Observations
  PROVE  /\ obs.timeKnown \in BOOLEAN
         /\ obs.clock.ptp \in Ptp
         /\ obs.latent \in BOOLEAN
         /\ ObservedFaults(obs) \in SUBSET Fault
         /\ faultMask \subseteq ObservedFaults(obs)
<1>1. obs.timeKnown \in BOOLEAN
  BY TimeKnownBoolean DEF Observations, Succeeds
<1>2. obs.clock.ptp \in Ptp
  BY PtpFacts DEF Observations, TypeOK
<1>3. obs.latent \in BOOLEAN
  BY DEF Observations, FrerTick, TypeOK
<1>4. ObservedFaults(obs) \in SUBSET Fault
  BY DEF ObservedFaults, TickIntegrityCheck, TypeOK, Fault
<1>5. faultMask \subseteq ObservedFaults(obs)
  BY DEF ObservedFaults
<1>6. QED
  BY <1>1, <1>2, <1>3, <1>4, <1>5

\* The variables that the monitors of a Tick set.
MonitorTypeOK ==
  /\ initialised \in BOOLEAN
  /\ cfg \in Configs \cup {NoConfig}
  /\ made \in SUBSET Slot
  /\ gcmCount \in Nat
  /\ tables \in BOOLEAN
  /\ macsecFails \in BOOLEAN
  /\ healthAge \in {Unset} \cup (0 .. (HealthTicks - 1))
  /\ inits \in 0 .. MaxInits

\* The monitors of a Tick keep their variables well-typed; the age of the last
\* health check stays below the interval.
LEMMA ObserveTypeOK ==
  ASSUME TypeOK, NEW obs \in Observations, Observe(obs)
  PROVE  MonitorTypeOK'
<1>1. healthAge' \in {Unset} \cup (0 .. (HealthTicks - 1))
  <2>1. CASE healthAge = Unset
    BY <2>1 DEF Observe, HealthCheckDue, TypeOK
  <2>2. CASE healthAge # Unset
    BY <2>2 DEF Observe, HealthCheckDue, TypeOK, Unset
  <2>3. QED
    BY <2>1, <2>2
<1>2. QED
  BY <1>1, ObservationFacts DEF MonitorTypeOK, Observe, TypeOK, lifecycle, field

\* The two ends of a Tick that change schedules.
LEMMA EnterSafeStateFacts ==
  ASSUME TypeOK,
         NEW trigger \in {"kPtpHoldoverExpired", "kDeadlineViolation"},
         EnterSafeState(trigger)
  PROVE  /\ ports' \in [Slot -> Port]
         /\ Sound(ports) => Sound(ports')
         /\ \A i \in Slot : PortScheduled(ports[i]) => PortScheduled(ports'[i])
         /\ AuditTypeOK'
         /\ state' = "kSafeState"
         /\ UNCHANGED <<frerCount, convergence>>
<1>1. [i \in Slot |-> cfg.safeStateSchedule] \in [Slot -> Schedules]
  BY CfgFacts
<1>2. PICK out : ports' = ApplyToAll([i \in Slot |-> cfg.safeStateSchedule], out)
  BY DEF EnterSafeState
<1>3. LogTransition("kSafeState", trigger)
  BY DEF EnterSafeState
<1>4. AuditTypeOK'
  <2>1. AuditTypeOK /\ state \in OrchestratorState
    BY DEF TypeOK, AuditTypeOK
  <2>2. QED
    BY <1>3, <2>1, TransitionTypeOK DEF OrchestratorState
<1>5. QED
  BY <1>1, <1>2, <1>4, ApplyToAllFacts DEF TypeOK, EnterSafeState

\* EnterFault keeps ports and log well-typed and sound.
LEMMA EnterFaultFacts ==
  ASSUME TypeOK, NEW pts \in [Slot -> Port],
         NEW trigger \in {"kApplyError", "kPtpNotSynchronised"},
         EnterFault(trigger, pts)
  PROVE  /\ ports' \in [Slot -> Port]
         /\ Sound(pts) => Sound(ports')
         /\ AuditTypeOK'
         /\ state' = "kFault"
<1>1. PICK out : ports' = DisableAll(pts, out)
  BY DEF EnterFault
<1>2. LogTransition("kFault", trigger)
  BY DEF EnterFault
<1>3. AuditTypeOK'
  <2>1. AuditTypeOK /\ state \in OrchestratorState
    BY DEF TypeOK, AuditTypeOK
  <2>2. QED
    BY <1>2, <2>1, TransitionTypeOK DEF OrchestratorState
<1>4. QED
  BY <1>1, <1>3, DisableAllFacts DEF EnterFault

-----------------------------------------------------------------------------
(* The type invariant and the soundness of the gates are preserved by every *)
(* step.                                                                    *)

IInv == TypeOK /\ Sound(ports)

\* Every way Init may end preserves the invariant.
LEMMA InitStep ==
  ASSUME IInv, NEW c \in Configs,
         \/ InitHalFails(c) \/ InitTablesFail(c) \/ InitPrevalidationFails(c)
         \/ InitPtpFails(c) \/ InitSucceeds(c)
  PROVE  IInv'
<1> USE DEF IInv
<1>1. c \in Config /\ c.capable \in BOOLEAN /\ c.ports \in Nat
  BY DEF Config
<1>2. HalReset \in [Slot -> Port] /\ Sound(HalReset)
  BY HalResetFacts DEF TypeOK
<1>3. ASSUME BeginInit(c)
      PROVE  cfg' \in Configs \cup {NoConfig} /\ inits' \in 0 .. MaxInits
  BY <1>3 DEF BeginInit, TypeOK
<1>4. ASSUME ConstructManagers(c)
      PROVE  /\ ports' \in [Slot -> Port] /\ Sound(ports')
             /\ made' \in SUBSET Slot /\ gcmCount' \in Nat
             /\ tables' \in BOOLEAN /\ macsecFails' \in BOOLEAN
  <2>1. ports' = [i \in Slot |-> IF i < c.ports THEN NewGcm(HalReset[i]) ELSE HalReset[i]]
    BY <1>4 DEF ConstructManagers
  <2>2. ports' \in [Slot -> Port] /\ Sound(ports')
    BY <1>2, <2>1, HardwareFacts DEF Sound
  <2>3. made' \in SUBSET Slot /\ gcmCount' \in Nat
    BY <1>1, <1>4 DEF ConstructManagers, TypeOK
  <2>4. tables' \in BOOLEAN /\ macsecFails' \in BOOLEAN
    BY <1>4 DEF ConstructManagers
  <2>5. QED
    BY <2>2, <2>3, <2>4
<1>5. CASE InitHalFails(c)
  BY <1>2, <1>3, <1>5 DEF InitHalFails, TypeOK, monitors, auditVars
<1>6. CASE InitTablesFail(c)
  BY <1>2, <1>3, <1>6 DEF InitTablesFail, TypeOK, monitors, auditVars
<1>7. CASE InitPrevalidationFails(c)
  BY <1>2, <1>3, <1>7 DEF InitPrevalidationFails, TypeOK, monitors, auditVars
<1>8. CASE InitPtpFails(c)
  <2>1. ptp' \in Ptp
    BY <1>1, <1>8, PtpFacts DEF InitPtpFails, TypeOK
  <2>2. QED
    BY <1>3, <1>4, <1>8, <2>1 DEF InitPtpFails, TypeOK, monitors, auditVars
<1>9. CASE InitSucceeds(c)
  <2>1. ptp' \in Ptp
    BY <1>1, <1>9, PtpFacts DEF InitSucceeds, TypeOK
  <2>2. frerCount' \in 0 .. kMaxFrerEntries
    BY <1>9 DEF InitSucceeds, FrerInit
  <2>3. /\ state' \in OrchestratorState
        /\ initialised' \in BOOLEAN
    BY <1>9 DEF InitSucceeds, OrchestratorState
  <2>4. QED
    BY <1>3, <1>4, <1>9, <2>1, <2>2, <2>3 DEF InitSucceeds, FrerInit, TypeOK, auditVars
<1>10. QED
  BY <1>5, <1>6, <1>7, <1>8, <1>9

\* The other calls, and the events of the field, preserve it.
LEMMA CallStep ==
  ASSUME IInv,
         \/ Start \/ Stop
         \/ \E i \in Slot, s \in Schedules : UpdatePortSchedule(i, s)
         \/ \E near \in BOOLEAN : ReceiveSync(near)
         \/ \E i \in Slot : LateSwap(i) \/ SoftError(i)
         \/ MacsecFailure
  PROVE  IInv'
<1> USE DEF IInv
<1> USE DEF lifecycle, monitors, field, auditVars
<1>1. CASE Start
  BY <1>1 DEF Start, TypeOK, OrchestratorState
<1>2. CASE Stop
  <2>1. ports' \in [Slot -> Port] /\ Sound(ports')
    BY <1>2, DisableAllFacts DEF Stop, TypeOK
  <2>2. QED
    BY <1>2, <2>1 DEF Stop, TypeOK, OrchestratorState
<1>3. ASSUME NEW i \in Slot, NEW s \in Schedules, UpdatePortSchedule(i, s)
      PROVE  IInv'
  <2>1. PICK out : ports' = [ports EXCEPT ![i] = ApplySchedule(ports[i], s, out)]
    BY <1>3 DEF UpdatePortSchedule
  <2>2. ports' \in [Slot -> Port] /\ Sound(ports')
    BY <2>1, ApplyScheduleFacts DEF TypeOK, Sound
  <2>3. QED
    BY <1>3, <2>2 DEF UpdatePortSchedule, TypeOK
<1>4. ASSUME NEW near \in BOOLEAN, ReceiveSync(near)
      PROVE  IInv'
  <2>1. ptp' \in Ptp
    BY <1>4, PtpFacts DEF ReceiveSync, Succeeds, TypeOK
  <2>2. QED
    BY <1>4, <2>1 DEF ReceiveSync, TypeOK
<1>5. ASSUME NEW i \in Slot, LateSwap(i)
      PROVE  IInv'
  <2>1. ports' \in [Slot -> Port] /\ Sound(ports')
    BY <1>5, HardwareFacts DEF LateSwap, TypeOK, Sound
  <2>2. QED
    BY <1>5, <2>1 DEF LateSwap, TypeOK
<1>6. ASSUME NEW i \in Slot, SoftError(i)
      PROVE  IInv'
  <2>1. ports' \in [Slot -> Port] /\ Sound(ports')
    BY <1>6, HardwareFacts DEF SoftError, TypeOK, Sound
  <2>2. QED
    BY <1>6, <2>1 DEF SoftError, TypeOK
<1>7. CASE MacsecFailure
  BY <1>7 DEF MacsecFailure, TypeOK
<1>8. QED
  BY <1>1, <1>2, <1>3, <1>4, <1>5, <1>6, <1>7

\* What remains to be shown of a Tick once its monitors are dealt with.
LEMMA TickReduces ==
  ASSUME IInv, NEW obs \in Observations, Observe(obs), ptp' \in Ptp,
         state' \in OrchestratorState,
         ports' \in [Slot -> Port] /\ Sound(ports'),
         frerCount' \in 0 .. kMaxFrerEntries,
         convergence' \in {Unset} \cup (0 .. ConvergenceTicks),
         faultMask' \in SUBSET Fault,
         AuditTypeOK'
  PROVE  IInv'
<1>1. MonitorTypeOK'
  BY ObserveTypeOK DEF IInv
<1>2. QED
  BY <1>1 DEF IInv, TypeOK, MonitorTypeOK, AuditTypeOK

\* A Tick leaves the clock manager as its own Tick did, or as a Sync that came
\* after that left it.
LEMMA TickPtp ==
  ASSUME TypeOK, NEW obs \in Observations, TickWith(obs)
  PROVE  ptp' \in Interrupted(obs.clock.ptp) /\ ptp' \in Ptp
<1>1. ptp' \in Interrupted(obs.clock.ptp)
  <2>1. ptp' = obs.clock.ptp => ptp' \in Interrupted(obs.clock.ptp)
    BY DEF Interrupted
  <2>2. QED
    BY <2>1 DEF TickWith, TickSafeState, TickDegrade, TickEscalate, TickQuiet,
                TickConverged, TickApplyFails, TickFrerFails, TickWaits,
                TickWatchdog, Converging
<1>2. obs.clock.ptp \in Ptp
  BY ObservationFacts
<1>3. ASSUME NEW p \in Ptp, NEW q \in Interrupted(p)
      PROVE  q \in Ptp
  <2>1. Succeeds("servo") \subseteq BOOLEAN
    BY DEF Succeeds
  <2>2. \/ q = p
        \/ \E near \in BOOLEAN, w \in Succeeds("servo") : q = InjectSyncMessage(p, near, w)
    BY DEF Interrupted
  <2>3. \A near \in BOOLEAN, w \in BOOLEAN : InjectSyncMessage(p, near, w) \in Ptp
    BY PtpFacts
  <2>4. QED
    BY <2>1, <2>2, <2>3
<1>4. QED
  BY <1>1, <1>2, <1>3

\* Every way a Tick may end preserves it.
LEMMA TickStep ==
  ASSUME IInv, Tick
  PROVE  IInv'
<1> PICK obs \in Observations : TickWith(obs)
  BY DEF Tick
<1>1. /\ TypeOK /\ Sound(ports) /\ AuditTypeOK
      /\ state \in OrchestratorState
      /\ ports \in [Slot -> Port]
      /\ frerCount \in 0 .. kMaxFrerEntries
      /\ convergence \in {Unset} \cup (0 .. ConvergenceTicks)
  BY DEF IInv, TypeOK, AuditTypeOK
<1>2. /\ obs.timeKnown \in BOOLEAN
      /\ ObservedFaults(obs) \in SUBSET Fault
      /\ ptp' \in Ptp
  BY <1>1, ObservationFacts, TickPtp
<1>3. ASSUME UNCHANGED auditVars
      PROVE  AuditTypeOK'
  BY <1>1, <1>3 DEF auditVars, AuditTypeOK
<1>4. \A out : /\ ApplyToAll(cfg.schedules, out) \in [Slot -> Port]
               /\ Sound(ApplyToAll(cfg.schedules, out))
  BY <1>1, CfgFacts, ApplyToAllFacts
<1>5. CASE TickSafeState(obs)
  <2>1. PICK trigger \in {"kPtpHoldoverExpired", "kDeadlineViolation"} :
          EnterSafeState(trigger)
    BY <1>5 DEF TickSafeState
  <2>2. Observe(obs) /\ faultMask' \in SUBSET Fault
    BY <1>2, <1>5 DEF TickSafeState
  <2>3. QED
    BY <1>1, <1>2, <2>1, <2>2, EnterSafeStateFacts, TickReduces DEF OrchestratorState
<1>6. CASE TickDegrade(obs)
  <2>1. PICK trigger \in {"kFrerLatentError", "kMacsecReplayAttack"} :
          LogTransition("kDegraded", trigger)
    BY <1>6 DEF TickDegrade
  <2>2. AuditTypeOK'
    BY <1>1, <2>1, TransitionTypeOK DEF OrchestratorState
  <2>3. Observe(obs) /\ faultMask' \in SUBSET Fault
    BY <1>2, <1>6 DEF TickDegrade
  <2>4. UNCHANGED <<ports, frerCount, convergence>> /\ state' \in OrchestratorState
    BY <1>6 DEF TickDegrade, OrchestratorState
  <2>5. QED
    BY <1>1, <1>2, <2>2, <2>3, <2>4, TickReduces
<1>7. CASE TickEscalate(obs)
  <2>1. EnterSafeState("kDeadlineViolation")
    BY <1>7 DEF TickEscalate
  <2>2. Observe(obs) /\ faultMask' \in SUBSET Fault
    BY <1>2, <1>7 DEF TickEscalate, Fault
  <2>3. QED
    BY <1>1, <1>2, <2>1, <2>2, EnterSafeStateFacts, TickReduces DEF OrchestratorState
<1>8. CASE TickQuiet(obs)
  BY <1>1, <1>2, <1>3, <1>8, TickReduces DEF TickQuiet
<1>9. CASE TickConverged(obs)
  <2>1. Observe(obs) /\ faultMask' \in SUBSET Fault
    BY <1>2, <1>9 DEF TickConverged, Converging
  <2>2. ports' \in [Slot -> Port] /\ Sound(ports')
    BY <1>4, <1>9 DEF TickConverged
  <2>3. frerCount' \in 0 .. kMaxFrerEntries
    BY <1>1, <1>9, CfgFacts DEF TickConverged, InitFrerStreams, RegisterStreams
  <2>4. AuditTypeOK'
    BY <1>1, <1>9, TransitionTypeOK DEF TickConverged, OrchestratorState
  <2>5. state' \in OrchestratorState /\ UNCHANGED convergence
    BY <1>9 DEF TickConverged, OrchestratorState
  <2>6. QED
    BY <1>1, <1>2, <2>1, <2>2, <2>3, <2>4, <2>5, TickReduces
<1>10. CASE TickApplyFails(obs)
  <2>1. Observe(obs) /\ faultMask' \in SUBSET Fault
    BY <1>2, <1>10 DEF TickApplyFails, Converging
  <2>2. PICK k, out : EnterFault("kApplyError", ApplyUpTo(k, out))
    BY <1>10 DEF TickApplyFails
  <2>3. ApplyUpTo(k, out) \in [Slot -> Port] /\ Sound(ApplyUpTo(k, out))
    BY <1>1, CfgFacts, ApplyUpToFacts
  <2>4. /\ ports' \in [Slot -> Port] /\ Sound(ports')
        /\ AuditTypeOK' /\ state' = "kFault"
    BY <1>1, <2>2, <2>3, EnterFaultFacts
  <2>5. UNCHANGED <<frerCount, convergence>>
    BY <1>10 DEF TickApplyFails
  <2>6. QED
    BY <1>1, <1>2, <2>1, <2>4, <2>5, TickReduces DEF OrchestratorState
<1>11. CASE TickFrerFails(obs)
  <2>1. Observe(obs) /\ faultMask' \in SUBSET Fault
    BY <1>2, <1>11 DEF TickFrerFails, Converging
  <2>2. ports' \in [Slot -> Port] /\ Sound(ports')
    BY <1>4, <1>11 DEF TickFrerFails
  <2>3. frerCount' \in 0 .. kMaxFrerEntries
    BY <1>1, <1>11, CfgFacts DEF TickFrerFails, RegisterStreams
  <2>4. convergence' \in {Unset} \cup (0 .. ConvergenceTicks)
    BY <1>1, <1>11 DEF TickFrerFails, Elapsed, Unset
  <2>5. UNCHANGED state /\ AuditTypeOK'
    BY <1>3, <1>11 DEF TickFrerFails
  <2>6. QED
    BY <1>1, <1>2, <2>1, <2>2, <2>3, <2>4, <2>5, TickReduces
<1>12. CASE TickWaits(obs)
  <2>1. Observe(obs) /\ faultMask' \in SUBSET Fault
    BY <1>2, <1>12 DEF TickWaits, Converging
  <2>2. convergence' \in {Unset} \cup (0 .. ConvergenceTicks)
    BY <1>1, <1>12 DEF TickWaits, Elapsed, Unset
  <2>3. UNCHANGED <<state, ports, frerCount>> /\ AuditTypeOK'
    BY <1>3, <1>12 DEF TickWaits
  <2>4. QED
    BY <1>1, <1>2, <2>1, <2>2, <2>3, TickReduces
<1>13. CASE TickWatchdog(obs)
  <2>1. Observe(obs) /\ faultMask' \in SUBSET Fault
    BY <1>2, <1>13 DEF TickWatchdog, Converging
  <2>2. /\ ports' \in [Slot -> Port] /\ Sound(ports')
        /\ AuditTypeOK' /\ state' = "kFault"
    BY <1>1, <1>13, EnterFaultFacts DEF TickWatchdog
  <2>3. UNCHANGED <<frerCount, convergence>>
    BY <1>13 DEF TickWatchdog
  <2>4. QED
    BY <1>1, <1>2, <2>1, <2>2, <2>3, TickReduces DEF OrchestratorState
<1>14. QED
  BY <1>5, <1>6, <1>7, <1>8, <1>9, <1>10, <1>11, <1>12, <1>13 DEF TickWith

\* A newly constructed orchestrator satisfies the invariant.
LEMMA InitIInv == Init => IInv
<1> SUFFICES ASSUME Init PROVE IInv
  OBVIOUS
<1>1. [active |-> FALSE, sched |-> NoSchedule, oper |-> Boot, pending |-> NoSchedule]
        \in Port
  BY DEF Port
<1>2. ports \in [Slot -> Port] /\ Sound(ports)
  BY <1>1 DEF Init, Sound, PortSound
<1>3. ptp \in Ptp
  BY DEF Init, NewPtp, Ptp, SyncState
<1>4. AuditTypeOK
  BY DEF Init, AuditInit, AuditTypeOK
<1>5. state \in OrchestratorState /\ cfg \in Configs \cup {NoConfig}
  BY DEF Init, OrchestratorState
<1>6. /\ initialised \in BOOLEAN
      /\ tables \in BOOLEAN /\ macsecFails \in BOOLEAN
  BY DEF Init
<1>7. frerCount \in 0 .. kMaxFrerEntries /\ inits \in 0 .. MaxInits /\ gcmCount \in Nat
  BY DEF Init
<1>8. QED
  BY <1>2, <1>3, <1>4, <1>5, <1>6, <1>7 DEF Init, IInv, TypeOK, AuditTypeOK

\* IInv is inductive.
LEMMA NextIInv == IInv /\ [Next]_vars => IInv'
<1> SUFFICES ASSUME IInv, [Next]_vars PROVE IInv'
  OBVIOUS
<1>1. CASE \E c \in Configs :
             \/ InitHalFails(c) \/ InitTablesFail(c) \/ InitPrevalidationFails(c)
             \/ InitPtpFails(c) \/ InitSucceeds(c)
  BY <1>1, InitStep
<1>2. CASE \/ Start \/ Stop
           \/ \E i \in Slot, s \in Schedules : UpdatePortSchedule(i, s)
           \/ \E near \in BOOLEAN : ReceiveSync(near)
           \/ \E i \in Slot : LateSwap(i) \/ SoftError(i)
           \/ MacsecFailure
  BY <1>2, CallStep
<1>3. CASE Tick
  BY <1>3, TickStep
<1>4. CASE UNCHANGED vars
  BY <1>4 DEF vars, auditVars, IInv, TypeOK
<1>5. QED
  BY <1>1, <1>2, <1>3, <1>4 DEF Next

\* The orchestrator's state is always well-typed: no counter leaves its table,
\* no transition leaves the state set, no log entry is malformed.
THEOREM TypeCorrect == Spec => []TypeOK
<1>1. IInv => TypeOK
  BY DEF IInv
<1>2. QED
  BY <1>1, InitIInv, NextIInv, PTL DEF Spec

\* Whatever calls are made, whichever HAL calls fail or time out and however
\* late a swap comes, the gates of no port ever follow a schedule that the
\* seven-stage pipeline of GateControlManager did not accept.
THEOREM GatesFollowValidSchedules == Spec => []OnlyValidSchedulesRun
<1>1. IInv => OnlyValidSchedulesRun
  BY DEF IInv, Sound, PortSound, OnlyValidSchedulesRun
<1>2. QED
  BY <1>1, InitIInv, NextIInv, PTL DEF Spec

=============================================================================
