---------------------- MODULE OrchestratorModeProofs ----------------------
(***************************************************************************)
(* What a mode of the orchestrator means: what kRunning, kDegraded,        *)
(* kSafeState and kFault say about the ports, the fault mask and the audit *)
(* log.  Builds on the type invariant of OrchestratorProofs.               *)
(***************************************************************************)
EXTENDS OrchestratorProofs

USE OrchestratorAssumption, ScheduleAssumption, AuditLogSizeAssumption

-----------------------------------------------------------------------------
(* Operational ports are scheduled.                                        *)

\* A Tick leaves an operational state with every managed port scheduled.
LEMMA TickKeepsPortsScheduled ==
  ASSUME TypeOK, OperationalPortsScheduled, Tick
  PROVE  OperationalPortsScheduled'
<1> PICK obs \in Observations : TickWith(obs)
  BY DEF Tick
<1>1. ASSUME Observe(obs)
      PROVE  Managed' = Managed
  BY <1>1 DEF Observe, lifecycle, Managed
<1>2. Managed \subseteq Slot /\ ports \in [Slot -> Port]
  BY DEF Managed, TypeOK
<1>3. ASSUME state \in Operational, NEW trigger, Observe(obs),
             trigger \in {"kPtpHoldoverExpired", "kDeadlineViolation"},
             EnterSafeState(trigger)
      PROVE  OperationalPortsScheduled'
  <2>1. \A i \in Managed : PortScheduled(ports[i])
    BY <1>3 DEF OperationalPortsScheduled, PortScheduled
  <2>2. \A i \in Managed : PortScheduled(ports'[i])
    BY <1>1, <1>2, <1>3, <2>1, EnterSafeStateFacts
  <2>3. QED
    BY <1>1, <1>3, <2>2 DEF OperationalPortsScheduled, PortScheduled
<1>4. CASE TickSafeState(obs)
  BY <1>3, <1>4 DEF TickSafeState, Operational
<1>5. CASE TickDegrade(obs)
  BY <1>1, <1>5 DEF TickDegrade, OperationalPortsScheduled, Operational
<1>6. CASE TickEscalate(obs)
  BY <1>3, <1>6 DEF TickEscalate, Operational
<1>7. CASE TickQuiet(obs)
  BY <1>1, <1>7 DEF TickQuiet, OperationalPortsScheduled
<1>8. CASE TickConverged(obs)
  <2>1. PICK out : AllApply(out) /\ ports' = ApplyToAll(cfg.schedules, out)
    BY <1>8 DEF TickConverged
  <2>2. \A i \in Managed : PortScheduled(ports'[i])
    BY <1>2, <2>1, CfgFacts, ApplyScheduleFacts DEF AllApply, ApplyToAll
  <2>3. Managed' = Managed
    BY <1>1, <1>8 DEF TickConverged, Converging
  <2>4. QED
    BY <2>2, <2>3 DEF OperationalPortsScheduled, PortScheduled
<1>9. CASE TickApplyFails(obs) \/ TickWatchdog(obs)
  BY <1>9 DEF TickApplyFails, TickWatchdog, EnterFault, OperationalPortsScheduled,
              Operational
<1>10. CASE TickFrerFails(obs) \/ TickWaits(obs)
  BY <1>10 DEF TickFrerFails, TickWaits, Converging, OperationalPortsScheduled,
               Operational
<1>11. QED
  BY <1>4, <1>5, <1>6, <1>7, <1>8, <1>9, <1>10 DEF TickWith

\* When the caller leaves an operational stack alone (Init is called before the
\* start, after Stop or after a fault), every managed port of a running,
\* degraded or safe stack has an active schedule that passed the pipeline.
THEOREM PortsScheduledWhileOperational ==
  ASSUME InitFrom \cap Operational = {}
  PROVE  Spec => []OperationalPortsScheduled
<1>1. Init => OperationalPortsScheduled
  BY DEF Init, OperationalPortsScheduled, Operational
<1>2. IInv /\ OperationalPortsScheduled /\ [Next]_vars => OperationalPortsScheduled'
  <2> SUFFICES ASSUME TypeOK, OperationalPortsScheduled, [Next]_vars
               PROVE  OperationalPortsScheduled'
    BY DEF IInv
  <2> USE DEF lifecycle, monitors, field, auditVars
  <2>1. Managed \subseteq Slot /\ ports \in [Slot -> Port]
    BY DEF Managed, TypeOK
  <2>2. ASSUME NEW c \in Configs,
               \/ InitHalFails(c) \/ InitTablesFail(c) \/ InitPrevalidationFails(c)
               \/ InitPtpFails(c) \/ InitSucceeds(c)
        PROVE  OperationalPortsScheduled'
    <3>1. state \notin Operational
      BY <2>2 DEF InitHalFails, InitTablesFail, InitPrevalidationFails,
                  InitPtpFails, InitSucceeds, BeginInit
    <3>2. state' \in {state, "kInitializing"}
      BY <2>2 DEF InitHalFails, InitTablesFail, InitPrevalidationFails,
                  InitPtpFails, InitSucceeds
    <3>3. QED
      BY <3>1, <3>2 DEF OperationalPortsScheduled, Operational
  <2>3. CASE Start \/ Stop
    BY <2>3 DEF Start, Stop, OperationalPortsScheduled, Operational
  <2>4. ASSUME NEW i \in Slot, NEW s \in Schedules, UpdatePortSchedule(i, s)
        PROVE  OperationalPortsScheduled'
    <3>1. PICK out : ports' = [ports EXCEPT ![i] = ApplySchedule(ports[i], s, out)]
      BY <2>4 DEF UpdatePortSchedule
    <3>2. PortScheduled(ports[i]) => PortScheduled(ports'[i])
      BY <2>1, <3>1, ApplyScheduleFacts
    <3>3. Managed' = Managed /\ state' = state
      BY <2>4 DEF UpdatePortSchedule, Managed
    <3>4. \A j \in Slot : j # i => ports'[j] = ports[j]
      BY <2>1, <3>1
    <3>5. QED
      BY <2>1, <3>2, <3>3, <3>4 DEF OperationalPortsScheduled, PortScheduled
  <2>5. CASE Tick
    BY <2>5, TickKeepsPortsScheduled
  <2>6. ASSUME NEW i \in Slot, LateSwap(i) \/ SoftError(i)
        PROVE  OperationalPortsScheduled'
    <3>1. PortScheduled(ports[i]) => PortScheduled(ports'[i])
      BY <2>1, <2>6, HardwareFacts DEF LateSwap, SoftError
    <3>2. Managed' = Managed /\ state' = state
      BY <2>6 DEF LateSwap, SoftError, Managed
    <3>3. \A j \in Slot : j # i => ports'[j] = ports[j]
      BY <2>1, <2>6 DEF LateSwap, SoftError
    <3>4. QED
      BY <2>1, <3>1, <3>2, <3>3 DEF OperationalPortsScheduled, PortScheduled
  <2>7. CASE (\E near \in BOOLEAN : ReceiveSync(near)) \/ MacsecFailure
    BY <2>7 DEF ReceiveSync, MacsecFailure, OperationalPortsScheduled, Managed
  <2>8. CASE UNCHANGED vars
    BY <2>8 DEF vars, OperationalPortsScheduled, Managed
  <2>9. QED
    BY <2>2, <2>3, <2>4, <2>5, <2>6, <2>7, <2>8 DEF Next
<1>3. QED
  BY <1>1, <1>2, InitIInv, NextIInv, PTL DEF Spec

-----------------------------------------------------------------------------
(* Faults and modes.                                                       *)

\* A step that is no Tick leaves the fault mask alone, and either the state
\* too or takes it out of normal and degraded operation.
LEMMA OnlyTickChangesMode ==
  ASSUME [Next]_vars, ~Tick
  PROVE  /\ faultMask' = faultMask
         /\ state' \in {state, "kUninitialized", "kInitializing", "kPtpConverging"}
         /\ UNCHANGED auditVars
<1> USE DEF monitors
<1>1. ASSUME NEW c \in Configs,
             \/ InitHalFails(c) \/ InitTablesFail(c) \/ InitPrevalidationFails(c)
             \/ InitPtpFails(c) \/ InitSucceeds(c)
      PROVE  /\ faultMask' = faultMask
             /\ state' \in {state, "kInitializing"}
             /\ UNCHANGED auditVars
  BY <1>1 DEF InitHalFails, InitTablesFail, InitPrevalidationFails, InitPtpFails,
              InitSucceeds
<1>2. CASE Start \/ Stop
  BY <1>2 DEF Start, Stop
<1>3. CASE \/ \E i \in Slot, s \in Schedules : UpdatePortSchedule(i, s)
           \/ \E near \in BOOLEAN : ReceiveSync(near)
           \/ \E i \in Slot : LateSwap(i) \/ SoftError(i)
           \/ MacsecFailure
  BY <1>3 DEF UpdatePortSchedule, ReceiveSync, LateSwap, SoftError, MacsecFailure
<1>4. CASE UNCHANGED vars
  BY <1>4 DEF vars
<1>5. QED
  BY <1>1, <1>2, <1>3, <1>4 DEF Next

\* A degraded or safe stack always has in its fault mask the fault that brought
\* it there: no step clears it while the mode lasts.
THEOREM ModeHasCause == Spec => []DegradationHasCause
<1>1. Init => DegradationHasCause
  BY DEF Init, DegradationHasCause
<1>2. IInv /\ DegradationHasCause /\ [Next]_vars => DegradationHasCause'
  <2> SUFFICES ASSUME TypeOK, DegradationHasCause, [Next]_vars
               PROVE  DegradationHasCause'
    BY DEF IInv
  <2>1. CASE ~Tick
    BY <2>1, OnlyTickChangesMode DEF DegradationHasCause
  <2>2. CASE Tick
    <3> PICK obs \in Observations : TickWith(obs)
      BY <2>2 DEF Tick
    <3>1. faultMask \subseteq ObservedFaults(obs)
      BY ObservationFacts
    <3>2. CASE TickSafeState(obs)
      BY <3>2 DEF TickSafeState, EnterSafeState, DegradationHasCause
    <3>3. CASE TickDegrade(obs)
      BY <3>3 DEF TickDegrade, DegradationHasCause
    <3>4. CASE TickEscalate(obs)
      BY <3>4 DEF TickEscalate, EnterSafeState, DegradationHasCause, SafeStateTriggers
    <3>5. CASE TickQuiet(obs)
      BY <3>1, <3>5 DEF TickQuiet, DegradationHasCause
    <3>6. CASE TickConverged(obs)
      BY <3>6 DEF TickConverged, DegradationHasCause
    <3>7. CASE TickApplyFails(obs) \/ TickWatchdog(obs)
      BY <3>7 DEF TickApplyFails, TickWatchdog, EnterFault, DegradationHasCause
    <3>8. CASE TickFrerFails(obs) \/ TickWaits(obs)
      BY <3>8 DEF TickFrerFails, TickWaits, Converging, DegradationHasCause
    <3>9. QED
      BY <3>2, <3>3, <3>4, <3>5, <3>6, <3>7, <3>8 DEF TickWith
  <2>3. QED
    BY <2>1, <2>2
<1>3. QED
  BY <1>1, <1>2, InitIInv, NextIInv, PTL DEF Spec

\* No fault is found while running without the same Tick leaving kRunning.
THEOREM NoFaultIgnored == Spec => FaultsAreActedOn
<1>1. IInv /\ [Next]_vars =>
        [state = "kRunning" /\ state' = "kRunning" => faultMask' = faultMask]_vars
  <2> SUFFICES ASSUME TypeOK, [Next]_vars, state = "kRunning", state' = "kRunning"
               PROVE  faultMask' = faultMask
    BY DEF IInv
  <2>1. CASE ~Tick
    BY <2>1, OnlyTickChangesMode
  <2>2. CASE Tick
    <3> PICK obs \in Observations : TickWith(obs)
      BY <2>2 DEF Tick
    <3>1. faultMask \subseteq ObservedFaults(obs)
      BY ObservationFacts
    <3>2. TickQuiet(obs)
      BY DEF TickWith, TickSafeState, TickDegrade, TickEscalate, TickConverged,
             TickApplyFails, TickFrerFails, TickWaits, TickWatchdog, Converging,
             EnterSafeState
    <3>3. ObservedFaults(obs) = {} /\ faultMask' = {}
      BY <3>2 DEF TickQuiet
    <3>4. QED
      BY <3>1, <3>3
  <2>3. QED
    BY <2>1, <2>2
<1>2. QED
  BY <1>1, InitIInv, NextIInv, PTL DEF Spec, FaultsAreActedOn

\* A Sync message does not undo the lock.
LEMMA SyncKeepsLock ==
  ASSUME NEW p \in Ptp, p.sync = "kLocked", NEW q \in Interrupted(p)
  PROVE  q.sync = "kLocked"
<1>1. \A near, w : InjectSyncMessage(p, near, w).sync = "kLocked"
  BY DEF InjectSyncMessage, Ptp
<1>2. QED
  BY <1>1 DEF Interrupted

\* A Tick that finds the clock synchronised, before a Sync that comes in the course
\* of it or after, ends in lock.
LEMMA ConvergedInLock ==
  ASSUME TypeOK, NEW obs \in Observations, TickConverged(obs)
  PROVE  ptp'.sync = "kLocked"
<1>1. obs.clock.ptp \in Ptp /\ ptp' \in Interrupted(obs.clock.ptp)
  BY ObservationFacts DEF TickConverged, Converging
<1>2. CASE IsSynchronised(obs.clock.ptp)
  BY <1>1, <1>2, SyncKeepsLock DEF IsSynchronised
<1>3. CASE IsSynchronised(ptp')
  BY <1>3 DEF IsSynchronised
<1>4. QED
  BY <1>2, <1>3 DEF TickConverged, FoundInLock

\* kRunning is entered by one kind of step only: a Tick in convergence, in
\* lock, that has put the configured schedule of every managed port into the
\* hardware and registered the configured streams.
THEOREM RunningEarned == Spec => RunningIsEarned
<1> DEFINE Earned ==
      state # "kRunning" /\ state' = "kRunning" =>
        /\ state = "kPtpConverging"
        /\ ptp'.sync = "kLocked"
        /\ \A i \in Managed : ports'[i].active /\ ports'[i].oper = cfg.schedules[i]
        /\ frerCount' >= cfg.frerStreams
<1>1. IInv /\ [Next]_vars => [Earned]_vars
  <2> SUFFICES ASSUME TypeOK, [Next]_vars, state # "kRunning", state' = "kRunning"
               PROVE  /\ state = "kPtpConverging"
                      /\ ptp'.sync = "kLocked"
                      /\ \A i \in Managed : /\ ports'[i].active
                                            /\ ports'[i].oper = cfg.schedules[i]
                      /\ frerCount' >= cfg.frerStreams
    BY DEF IInv
  <2>1. Tick
    BY OnlyTickChangesMode
  <2> PICK obs \in Observations : TickWith(obs)
    BY <2>1 DEF Tick
  <2>2. TickConverged(obs)
    BY DEF TickWith, TickSafeState, TickDegrade, TickEscalate, TickQuiet,
           TickApplyFails, TickFrerFails, TickWaits, TickWatchdog, EnterSafeState,
           EnterFault
  <2>3. Managed \subseteq Slot /\ ports \in [Slot -> Port]
    BY DEF Managed, TypeOK
  <2>4. PICK out : AllApply(out) /\ ports' = ApplyToAll(cfg.schedules, out)
    BY <2>2 DEF TickConverged
  <2>5. \A i \in Managed : ports'[i].active /\ ports'[i].oper = cfg.schedules[i]
    BY <2>3, <2>4, CfgFacts, ApplyScheduleFacts DEF AllApply, ApplyToAll, PortScheduled
  <2>6. frerCount' >= cfg.frerStreams
    BY <2>2, CfgFacts DEF TickConverged, InitFrerStreams, RegisterStreams, TypeOK
  <2>7. ptp'.sync = "kLocked"
    BY <2>2, ConvergedInLock
  <2>8. QED
    BY <2>2, <2>5, <2>6, <2>7 DEF TickConverged, Converging
<1>2. QED
  BY <1>1, InitIInv, NextIInv, PTL DEF Spec, RunningIsEarned

-----------------------------------------------------------------------------
(* The audit log.                                                          *)

\* The slot before h in the ring.
LEMMA SlotBefore ==
  ASSUME NEW h \in 0 .. (kAuditLogSize - 1)
  PROVE  (h + kAuditLogSize - 1 - 0) % kAuditLogSize
           = IF h = 0 THEN kAuditLogSize - 1 ELSE h - 1
<1>1. CASE h = 0
  BY <1>1
<1>2. CASE h # 0
  <2>1. h + kAuditLogSize - 1 - 0 = (h - 1) + kAuditLogSize
    OBVIOUS
  <2>2. ((h - 1) + kAuditLogSize) % kAuditLogSize = h - 1
    BY <1>2
  <2>3. QED
    BY <1>2, <2>1, <2>2
<1>3. QED
  BY <1>1, <1>2

\* An entry that is logged is the newest one.
LEMMA LoggedIsNewest ==
  ASSUME AuditTypeOK, NEW e \in AuditEntry, LogStateTransition(e)
  PROVE  auditLog'[AuditSlot(0)'] = e /\ auditCount' > 0
<1>1. auditHead' \in 0 .. (kAuditLogSize - 1)
  BY LogTypeOK DEF AuditTypeOK
<1>2. AuditSlot(0)' = IF auditHead' = 0 THEN kAuditLogSize - 1 ELSE auditHead' - 1
  BY <1>1, SlotBefore DEF AuditSlot
<1>3. (auditHead + 1) % kAuditLogSize
        = IF auditHead + 1 = kAuditLogSize THEN 0 ELSE auditHead + 1
  BY DEF AuditTypeOK
<1>4. AuditSlot(0)' = auditHead
  BY <1>2, <1>3 DEF LogStateTransition, AuditTypeOK
<1>5. QED
  BY <1>4 DEF LogStateTransition, AuditTypeOK

\* A transition just logged is the newest entry of the log.
LEMMA TransitionIsNewest ==
  ASSUME TypeOK, NEW to \in OrchestratorState,
         NEW trigger \in {"kOk", "kPtpHoldoverExpired", "kDeadlineViolation",
                          "kFrerLatentError", "kMacsecReplayAttack",
                          "kApplyError", "kPtpNotSynchronised"},
         LogTransition(to, trigger), state' = to
  PROVE  /\ AuditExplainsState'
         /\ auditLog'[AuditSlot(0)'].trigger = trigger
<1> DEFINE e == [from |-> state, to |-> to, trigger |-> trigger]
<1>1. e \in AuditEntry
  BY DEF AuditEntry, TypeOK
<1>2. AuditTypeOK
  BY DEF TypeOK, AuditTypeOK
<1>3. auditLog'[AuditSlot(0)'] = e /\ auditCount' > 0
  BY <1>1, <1>2, LoggedIsNewest DEF LogTransition
<1>4. e.to = state' /\ e.trigger = trigger
  OBVIOUS
<1>5. QED
  BY <1>3, <1>4 DEF AuditExplainsState

\* Running, degraded, in the safe state or in fault, the newest entry of the
\* audit log is the transition into that state, however often the ring has
\* wrapped around.
THEOREM AuditExplains == Spec => []AuditExplainsState
<1>1. Init => AuditExplainsState
  BY DEF Init, AuditExplainsState, Operational
<1>2. IInv /\ AuditExplainsState /\ [Next]_vars => AuditExplainsState'
  <2> SUFFICES ASSUME TypeOK, AuditExplainsState, [Next]_vars
               PROVE  AuditExplainsState'
    BY DEF IInv
  <2>1. ASSUME state' \in {state, "kUninitialized", "kInitializing", "kPtpConverging"},
               UNCHANGED auditVars
        PROVE  AuditExplainsState'
    BY <2>1 DEF AuditExplainsState, AuditSlot, auditVars, Operational
  <2>2. CASE ~Tick
    BY <2>1, <2>2, OnlyTickChangesMode
  <2>3. CASE Tick
    <3> PICK obs \in Observations : TickWith(obs)
      BY <2>3 DEF Tick
    <3>1. ASSUME NEW trigger \in {"kPtpHoldoverExpired", "kDeadlineViolation"},
                 EnterSafeState(trigger)
          PROVE  AuditExplainsState'
      <4>1. LogTransition("kSafeState", trigger) /\ state' = "kSafeState"
        BY <3>1 DEF EnterSafeState
      <4>2. QED
        BY <4>1, TransitionIsNewest DEF OrchestratorState
    <3>2. ASSUME NEW trigger \in {"kApplyError", "kPtpNotSynchronised"}, NEW pts,
                 EnterFault(trigger, pts)
          PROVE  AuditExplainsState'
      <4>1. LogTransition("kFault", trigger) /\ state' = "kFault"
        BY <3>2 DEF EnterFault
      <4>2. QED
        BY <4>1, TransitionIsNewest DEF OrchestratorState
    <3>3. CASE TickSafeState(obs)
      BY <3>1, <3>3 DEF TickSafeState
    <3>4. CASE TickDegrade(obs)
      <4>1. PICK trigger \in {"kFrerLatentError", "kMacsecReplayAttack"} :
              LogTransition("kDegraded", trigger) /\ state' = "kDegraded"
        BY <3>4 DEF TickDegrade
      <4>2. QED
        BY <4>1, TransitionIsNewest DEF OrchestratorState
    <3>5. CASE TickEscalate(obs)
      BY <3>1, <3>5 DEF TickEscalate
    <3>6. CASE TickQuiet(obs) \/ TickFrerFails(obs) \/ TickWaits(obs)
      BY <2>1, <3>6 DEF TickQuiet, TickFrerFails, TickWaits
    <3>7. CASE TickConverged(obs)
      <4>1. LogTransition("kRunning", "kOk") /\ state' = "kRunning"
        BY <3>7 DEF TickConverged
      <4>2. QED
        BY <4>1, TransitionIsNewest DEF OrchestratorState
    <3>8. CASE TickApplyFails(obs) \/ TickWatchdog(obs)
      BY <3>2, <3>8 DEF TickApplyFails, TickWatchdog
    <3>9. QED
      BY <3>3, <3>4, <3>5, <3>6, <3>7, <3>8 DEF TickWith
  <2>4. QED
    BY <2>2, <2>3
<1>3. QED
  BY <1>1, <1>2, InitIInv, NextIInv, PTL DEF Spec

\* The newest entry of the log names the cause of a degraded or safe stack by the
\* trigger of a fault that is in the mask, unless integrity faults alone degraded it:
\* the code has no trigger for them.
THEOREM AuditNames == Spec => []AuditNamesCause
<1>1. Init => AuditNamesCause
  BY DEF Init, AuditNamesCause
<1>2. IInv /\ AuditNamesCause /\ [Next]_vars => AuditNamesCause'
  <2> SUFFICES ASSUME TypeOK, AuditNamesCause, [Next]_vars
               PROVE  AuditNamesCause'
    BY DEF IInv
  <2>1. ASSUME state' \in {state, "kUninitialized", "kInitializing", "kPtpConverging"},
               UNCHANGED auditVars, faultMask \subseteq faultMask',
               \/ faultMask' = faultMask
               \/ state' = "kDegraded" => "HalIntegrity" \notin faultMask'
        PROVE  AuditNamesCause'
    BY <2>1 DEF AuditNamesCause, AuditSlot, auditVars
  <2>2. CASE ~Tick
    BY <2>1, <2>2, OnlyTickChangesMode
  <2>3. CASE Tick
    <3> PICK obs \in Observations : TickWith(obs)
      BY <2>3 DEF Tick
    <3>1. faultMask \subseteq ObservedFaults(obs)
      BY ObservationFacts
    <3>2. ASSUME NEW to \in {"kDegraded", "kSafeState"},
                 NEW trigger \in DOMAIN TriggerFaults,
                 LogTransition(to, trigger), state' = to,
                 TriggerFaults[trigger] \in faultMask'
          PROVE  AuditNamesCause'
      <4>1. to \in OrchestratorState
        BY DEF OrchestratorState
      <4>2. trigger \in {"kOk", "kPtpHoldoverExpired", "kDeadlineViolation",
                         "kFrerLatentError", "kMacsecReplayAttack",
                         "kApplyError", "kPtpNotSynchronised"}
        BY DEF TriggerFaults
      <4>3. auditLog'[AuditSlot(0)'].trigger = trigger
        BY <3>2, <4>1, <4>2, TransitionIsNewest
      <4>4. QED
        BY <3>2, <4>3 DEF AuditNamesCause
    <3>3. CASE TickSafeState(obs)
      <4>1. CASE "PtpHoldover" \in ObservedFaults(obs)
        BY <3>2, <3>3, <4>1 DEF TickSafeState, EnterSafeState, TriggerFaults
      <4>2. CASE "PtpHoldover" \notin ObservedFaults(obs)
        <5>1. "NcDeadline" \in ObservedFaults(obs)
          BY <3>3, <4>2 DEF TickSafeState, SafeStateTriggers
        <5>2. QED
          BY <3>2, <3>3, <4>2, <5>1 DEF TickSafeState, EnterSafeState, TriggerFaults
      <4>3. QED
        BY <4>1, <4>2
    <3>4. CASE TickDegrade(obs)
      <4>1. CASE "FrerLatent" \in ObservedFaults(obs)
        BY <3>2, <3>4, <4>1 DEF TickDegrade, TriggerFaults
      <4>2. CASE "FrerLatent" \notin ObservedFaults(obs)
        <5>1. CASE "MacsecAuth" \in ObservedFaults(obs)
          BY <3>2, <3>4, <4>2, <5>1 DEF TickDegrade, TriggerFaults
        <5>2. CASE "MacsecAuth" \notin ObservedFaults(obs)
          <6>1. faultMask' \cap DegradeTriggers = {"HalIntegrity"}
            BY <3>4, <4>2, <5>2 DEF TickDegrade, DegradeTriggers
          <6>2. state' = "kDegraded"
            BY <3>4 DEF TickDegrade
          <6>3. QED
            BY <6>1, <6>2 DEF AuditNamesCause
        <5>3. QED
          BY <5>1, <5>2
      <4>3. QED
        BY <4>1, <4>2
    <3>5. CASE TickEscalate(obs)
      BY <3>2, <3>5 DEF TickEscalate, EnterSafeState, TriggerFaults
    <3>6. CASE TickQuiet(obs) \/ TickFrerFails(obs) \/ TickWaits(obs)
      BY <2>1, <3>1, <3>6 DEF TickQuiet, TickFrerFails, TickWaits, Converging,
                              SafeStateTriggers
    <3>7. CASE TickConverged(obs) \/ TickApplyFails(obs) \/ TickWatchdog(obs)
      BY <3>7 DEF TickConverged, TickApplyFails, TickWatchdog, EnterFault,
                  AuditNamesCause
    <3>8. QED
      BY <3>3, <3>4, <3>5, <3>6, <3>7 DEF TickWith
  <2>4. QED
    BY <2>2, <2>3
<1>3. QED
  BY <1>1, <1>2, InitIInv, NextIInv, PTL DEF Spec

\* The slot of the k-th newest entry, when the next one goes to h.
LEMMA SlotOf ==
  ASSUME NEW h \in 0 .. (kAuditLogSize - 1), NEW k \in 0 .. (kAuditLogSize - 1)
  PROVE  (h + kAuditLogSize - 1 - k) % kAuditLogSize
           = IF k < h THEN h - 1 - k ELSE h + kAuditLogSize - 1 - k
<1>1. CASE k < h
  <2>1. h + kAuditLogSize - 1 - k = (h - 1 - k) + kAuditLogSize
    OBVIOUS
  <2>2. ((h - 1 - k) + kAuditLogSize) % kAuditLogSize = h - 1 - k
    BY <1>1
  <2>3. QED
    BY <1>1, <2>1, <2>2
<1>2. CASE ~(k < h)
  BY <1>2
<1>3. QED
  BY <1>1, <1>2

\* A new entry makes every other one a place older, but for the one it overwrites.
LEMMA LogAges ==
  ASSUME AuditTypeOK, NEW e \in AuditEntry, LogStateTransition(e),
         NEW k \in 0 .. (kAuditLogSize - 2)
  PROVE  auditLog'[AuditSlot(k + 1)'] = auditLog[AuditSlot(k)]
<1> DEFINE N == kAuditLogSize
           h == auditHead
<1>1. h \in 0 .. (N - 1) /\ k \in 0 .. (N - 1) /\ k + 1 \in 0 .. (N - 1)
  BY DEF AuditTypeOK
<1>2. auditHead' = IF h + 1 = N THEN 0 ELSE h + 1
  BY <1>1 DEF LogStateTransition
<1>3. auditHead' \in 0 .. (N - 1)
  BY <1>1, <1>2
<1>4. AuditSlot(k) = IF k < h THEN h - 1 - k ELSE h + N - 1 - k
  BY <1>1, SlotOf DEF AuditSlot
<1>5. AuditSlot(k + 1)' = IF k + 1 < auditHead' THEN auditHead' - 1 - (k + 1)
                          ELSE auditHead' + N - 1 - (k + 1)
  BY <1>1, <1>3, SlotOf DEF AuditSlot
<1>6. AuditSlot(k + 1)' = AuditSlot(k) /\ AuditSlot(k) # h /\ AuditSlot(k) \in 0 .. (N - 1)
  BY <1>1, <1>2, <1>4, <1>5
<1>7. QED
  BY <1>6 DEF LogStateTransition, AuditTypeOK

\* Logging a transition out of the state that the newest entry leads to, or out
\* of convergence, continues the chain.
LEMMA ChainContinues ==
  ASSUME TypeOK, AuditChains, NEW to \in OrchestratorState,
         NEW trigger \in {"kOk", "kPtpHoldoverExpired", "kDeadlineViolation",
                          "kFrerLatentError", "kMacsecReplayAttack",
                          "kApplyError", "kPtpNotSynchronised"},
         LogTransition(to, trigger), state' = to,
         \/ state = "kPtpConverging"
         \/ auditCount > 0 /\ state = auditLog[AuditSlot(0)].to
  PROVE  AuditChains'
<1> DEFINE e == [from |-> state, to |-> to, trigger |-> trigger]
<1>1. e \in AuditEntry /\ AuditTypeOK
  BY DEF AuditEntry, TypeOK, AuditTypeOK
<1>2. LogStateTransition(e) /\ e.from = state
  BY DEF LogTransition
<1> HIDE DEF e
<1>3. auditLog'[AuditSlot(0)'] = e
  BY <1>1, <1>2, LoggedIsNewest
<1>4. \A k \in 0 .. (kAuditLogSize - 2) : auditLog'[AuditSlot(k + 1)'] = auditLog[AuditSlot(k)]
  BY <1>1, <1>2, LogAges
<1>5. /\ auditCount \in 0 .. kAuditLogSize
      /\ auditCount' = IF auditCount < kAuditLogSize THEN auditCount + 1 ELSE auditCount
  BY <1>1, <1>2 DEF AuditTypeOK, LogStateTransition
<1> SUFFICES ASSUME NEW k \in 0 .. (auditCount' - 2)
             PROVE  auditLog'[AuditSlot(k)'].from
                      \in {auditLog'[AuditSlot(k + 1)'].to, "kPtpConverging"}
  BY DEF AuditChains, AuditSlot
<1>6. k \in 0 .. (kAuditLogSize - 2) /\ k + 1 \in Nat
  BY <1>5
<1>7. CASE k = 0
  BY <1>2, <1>3, <1>4, <1>6, <1>7
<1>8. CASE k # 0
  <2>1. k - 1 \in 0 .. (auditCount - 2) /\ k - 1 \in 0 .. (kAuditLogSize - 2) /\ (k - 1) + 1 = k
    BY <1>5, <1>6, <1>8
  <2>2. auditLog[AuditSlot(k - 1)].from \in {auditLog[AuditSlot((k - 1) + 1)].to, "kPtpConverging"}
    BY <2>1 DEF AuditChains
  <2>3. auditLog'[AuditSlot((k - 1) + 1)'] = auditLog[AuditSlot(k - 1)]
    BY <1>4, <2>1
  <2>4. auditLog'[AuditSlot(k + 1)'] = auditLog[AuditSlot(k)]
    BY <1>4, <1>6
  <2>5. QED
    BY <2>1, <2>2, <2>3, <2>4
<1>9. QED
  BY <1>7, <1>8

\* Read from the oldest that the ring still has, the audit log is one story: every
\* entry begins where the one before it ended or at a new convergence, through
\* failed and repeated initialisation and every wrap of the ring.
THEOREM AuditTellsOneStory == Spec => []AuditChains
<1>1. Init => AuditChains
  BY DEF Init, AuditInit, AuditChains
<1>2. IInv /\ AuditExplainsState /\ AuditChains /\ [Next]_vars => AuditChains'
  <2> SUFFICES ASSUME TypeOK, AuditExplainsState, AuditChains, [Next]_vars
               PROVE  AuditChains'
    BY DEF IInv
  <2>1. ASSUME UNCHANGED auditVars PROVE AuditChains'
    BY <2>1 DEF AuditChains, AuditSlot, auditVars
  <2>2. CASE ~Tick
    BY <2>1, <2>2, OnlyTickChangesMode
  <2>3. CASE Tick
    <3> PICK obs \in Observations : TickWith(obs)
      BY <2>3 DEF Tick
    <3>1. CASE TickQuiet(obs) \/ TickFrerFails(obs) \/ TickWaits(obs)
      BY <2>1, <3>1 DEF TickQuiet, TickFrerFails, TickWaits
    <3>2. CASE \/ TickSafeState(obs) \/ TickDegrade(obs) \/ TickEscalate(obs)
      <4>1. auditCount > 0 /\ state = auditLog[AuditSlot(0)].to
        BY <3>2 DEF TickSafeState, TickDegrade, TickEscalate, AuditExplainsState, Operational
      <4>2. PICK to \in {"kSafeState", "kDegraded"},
                 trigger \in {"kPtpHoldoverExpired", "kDeadlineViolation",
                              "kFrerLatentError", "kMacsecReplayAttack"} :
              LogTransition(to, trigger) /\ state' = to
        BY <3>2 DEF TickSafeState, TickDegrade, TickEscalate, EnterSafeState
      <4>3. QED
        BY <4>1, <4>2, ChainContinues DEF OrchestratorState
    <3>3. CASE TickConverged(obs) \/ TickApplyFails(obs) \/ TickWatchdog(obs)
      <4>1. state = "kPtpConverging"
        BY <3>3 DEF TickConverged, TickApplyFails, TickWatchdog, Converging
      <4>2. PICK to \in {"kRunning", "kFault"},
                 trigger \in {"kOk", "kApplyError", "kPtpNotSynchronised"} :
              LogTransition(to, trigger) /\ state' = to
        BY <3>3 DEF TickConverged, TickApplyFails, TickWatchdog, EnterFault
      <4>3. QED
        BY <4>1, <4>2, ChainContinues DEF OrchestratorState
    <3>4. QED
      BY <3>1, <3>2, <3>3 DEF TickWith
  <2>4. QED
    BY <2>2, <2>3
<1>3. QED
  BY <1>1, <1>2, AuditExplains, InitIInv, NextIInv, PTL DEF Spec

-----------------------------------------------------------------------------
(* The clock.                                                              *)

\* A Tick of the clock manager that does not report an expired holdover does
\* not bring it into free run, and neither does a Sync message or a failed Init.
LEMMA ClockKept ==
  ASSUME NEW p \in Ptp, p.sync # "kFreeRun"
  PROVE  /\ \A r : \A o \in PtpTick(p, r) : ~o.expired => o.ptp.sync # "kFreeRun"
         /\ \A near, w : InjectSyncMessage(p, near, w).sync # "kFreeRun"
         /\ \A c : PtpInit(p, c, FALSE).sync # "kFreeRun"
<1>1. \A c : PtpInit(p, c, FALSE).sync # "kFreeRun"
  BY DEF PtpInit, Ptp
<1>2. RunBmca(p).sync # "kFreeRun" /\ EnterHoldover(p).sync # "kFreeRun"
  BY DEF RunBmca, EnterHoldover, Ptp
<1>3. \A r : \A o \in PtpTick(p, r) : ~o.expired => o.ptp.sync # "kFreeRun"
  BY <1>2 DEF PtpTick
<1>4. \A near, w : InjectSyncMessage(p, near, w).sync # "kFreeRun"
  BY DEF InjectSyncMessage, Ptp
<1>5. QED
  BY <1>1, <1>3, <1>4

\* Running or degraded, the stack has a clock: the Tick in which the holdover
\* budget runs out is the one that enters the safe state, wherever a call of
\* Init, Start or Stop or a Sync message falls.
THEOREM ClockWhileRunning == Spec => []RunningHasClock
<1>1. Init => RunningHasClock
  BY DEF Init, RunningHasClock
<1>2. IInv /\ RunningHasClock /\ [Next]_vars => RunningHasClock'
  <2> SUFFICES ASSUME TypeOK, RunningHasClock, [Next]_vars,
                      state' \in {"kRunning", "kDegraded"}
               PROVE  ptp'.sync # "kFreeRun"
    BY DEF IInv, RunningHasClock
  <2>1. ptp \in Ptp
    BY DEF TypeOK
  <2>2. CASE ~Tick
    <3>1. state' = state /\ ptp.sync # "kFreeRun"
      BY <2>2, OnlyTickChangesMode DEF RunningHasClock
    <3>2. ASSUME NEW c \in Configs,
                 \/ InitHalFails(c) \/ InitTablesFail(c) \/ InitPrevalidationFails(c)
                 \/ InitPtpFails(c) \/ InitSucceeds(c)
          PROVE  ptp'.sync # "kFreeRun"
      BY <2>1, <3>1, <3>2, ClockKept
         DEF InitHalFails, InitTablesFail, InitPrevalidationFails, InitPtpFails,
             InitSucceeds
    <3>3. ASSUME NEW near \in BOOLEAN, ReceiveSync(near)
          PROVE  ptp'.sync # "kFreeRun"
      BY <2>1, <3>1, <3>3, ClockKept DEF ReceiveSync
    <3>4. CASE \/ Start \/ Stop
               \/ \E i \in Slot, s \in Schedules : UpdatePortSchedule(i, s)
               \/ \E i \in Slot : LateSwap(i) \/ SoftError(i)
               \/ MacsecFailure
      BY <3>1, <3>4 DEF Start, Stop, UpdatePortSchedule, LateSwap, SoftError,
                        MacsecFailure
    <3>5. CASE UNCHANGED vars
      BY <3>1, <3>5 DEF vars
    <3>6. QED
      BY <2>2, <3>2, <3>3, <3>4, <3>5 DEF Next
  <2>3. CASE Tick
    <3> PICK obs \in Observations : TickWith(obs)
      BY <2>3 DEF Tick
    <3>1. CASE TickConverged(obs)
      BY <3>1, ConvergedInLock
    <3>2. CASE TickDegrade(obs) \/ TickQuiet(obs)
      <4>1. /\ state \in {"kRunning", "kDegraded"}
            /\ "PtpHoldover" \notin ObservedFaults(obs)
            /\ ptp' = obs.clock.ptp
        BY <3>2 DEF TickDegrade, TickQuiet, Observe, SafeStateTriggers
      <4>2. ~obs.clock.expired
        BY <4>1 DEF ObservedFaults
      <4>3. PICK r : obs.clock \in PtpTick(ptp, r)
        BY DEF Observations
      <4>4. QED
        BY <2>1, <4>1, <4>2, <4>3, ClockKept DEF RunningHasClock
    <3>3. QED
      BY <3>1, <3>2 DEF TickWith, TickSafeState, TickEscalate, TickApplyFails,
                        TickFrerFails, TickWaits, TickWatchdog, EnterSafeState,
                        EnterFault, Converging
  <2>4. QED
    BY <2>2, <2>3
<1>3. QED
  BY <1>1, <1>2, InitIInv, NextIInv, PTL DEF Spec

=============================================================================
