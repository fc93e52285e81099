---------------------------- MODULE Orchestrator ----------------------------
(***************************************************************************)
(* TsnOrchestrator: start-up, the 125 us Tick with its monitors and its    *)
(* degradation state machine, schedule updates, shutdown and re-           *)
(* initialisation, over the ports of GatePort, the clock of PtpControl and *)
(* the audit log of AuditLog.  One call of the public interface is one     *)
(* step: the interface is used from a single real-time thread.  Only the   *)
(* driver's interrupt comes in between: it may deliver a Sync message in   *)
(* the course of a Tick.                                                   *)
(***************************************************************************)
EXTENDS AuditLog, GatePort, PtpControl, FiniteSets

CONSTANTS
  kMaxSwitchPorts,   \* slots of gcManagers_
  kMaxFrerEntries,   \* slots of the FRER stream table
  Prevalid,          \* schedules PrevalidateAllSchedules lets pass
  Configs,           \* configurations a caller may pass to Init
  NoConfig,          \* cfg_ before the first Init
  ConvergenceTicks,  \* ticks without lock after which the watchdog fires
  HealthTicks,       \* ticks in one health check interval
  Disturbances,      \* what may go wrong outside the code
  InitFrom,          \* states in which the caller calls Init
  StartFrom,         \* states in which the caller calls Start
  MaxInits           \* Init calls in a behaviour (bounds gcmCount)

OrchestratorState ==
  {"kUninitialized", "kInitializing", "kPtpConverging", "kRunning",
   "kDegraded", "kSafeState", "kFault"}

Fault == {"PtpHoldover", "FrerLatent", "MacsecAuth", "HalIntegrity", "NcDeadline"}
SafeStateTriggers == {"PtpHoldover", "NcDeadline"}
DegradeTriggers   == {"FrerLatent", "MacsecAuth", "HalIntegrity"}

\* The calls of the HAL that may fail, and the events of the field.
Disturbance ==
  {"init", "tables", "servo", "failed", "timeout", "phc", "readback", "frer",
   "softError", "macsec", "counter", "latent"}

Slot == 0 .. (kMaxSwitchPorts - 1)

\* A configuration that passes phase 0: its scheduled ports are 0 .. ports-1.
Config == [ports : 0 .. kMaxSwitchPorts, schedules : [Slot -> Schedules],
           safeStateSchedule : Schedules, capable : BOOLEAN,
           ptpPortsOk : BOOLEAN, frerStreams : 0 .. kMaxFrerEntries]

Unset == -1    \* ptpConvergenceStartNs_ = 0, lastHealthCheckNs_ = 0

ASSUME OrchestratorAssumption ==
  /\ kMaxSwitchPorts \in Nat \ {0}
  /\ kMaxFrerEntries \in Nat
  /\ Valid \subseteq Prevalid
  /\ Prevalid \subseteq Schedules
  /\ Configs \subseteq Config
  /\ NoConfig \in Config /\ NoConfig.ports = 0
  /\ ConvergenceTicks \in Nat
  /\ HealthTicks \in Nat \ {0}
  /\ Disturbances \subseteq Disturbance
  /\ InitFrom \subseteq OrchestratorState
  /\ StartFrom \subseteq OrchestratorState
  /\ MaxInits \in Nat

VARIABLES
  state, initialised, cfg,
  made,           \* slots whose gcManagers_ pointer is set
  gcmCount,
  ports,          \* manager and banks of every port
  ptp,
  frerCount,      \* streams registered in the FRER table
  tables,         \* the VLAN and stream filter tables hold a configuration
  macsecFails,    \* some channel's authentication failure counter is not 0
  convergence,    \* ticks since ptpConvergenceStartNs_ was set, or Unset
  healthAge,      \* ticks since lastHealthCheckNs_, or Unset
  faultMask,
  inits

vars == <<state, initialised, cfg, made, gcmCount, ports, ptp, frerCount,
          tables, macsecFails, convergence, healthAge, faultMask, inits,
          auditVars>>

\* Groups that actions leave alone together.
lifecycle == <<initialised, cfg, made, gcmCount, inits>>
monitors  == <<healthAge, faultMask>>
field     == <<tables, macsecFails>>

Init ==
  /\ state = "kUninitialized"
  /\ initialised = FALSE
  /\ cfg = NoConfig
  /\ made = {}
  /\ gcmCount = 0
  /\ ports = [i \in Slot |-> [active |-> FALSE, sched |-> NoSchedule,
                              oper |-> Boot, pending |-> NoSchedule]]
  /\ ptp = NewPtp
  /\ frerCount = 0
  /\ tables = FALSE
  /\ macsecFails = FALSE
  /\ convergence = Unset
  /\ healthAge = Unset
  /\ faultMask = {}
  /\ inits = 0
  /\ AuditInit

-----------------------------------------------------------------------------

\* Whether a call that d may disturb succeeds.
Succeeds(d) == IF d \in Disturbances THEN BOOLEAN ELSE {TRUE}

GclOutcomes == {"ok"} \cup (Disturbances \cap {"failed", "timeout"})

\* Faulty variant: the loops stop one slot early.
ManagedShort == {i \in made : i < gcmCount - 1}

\* The slots every loop over gcManagers_ visits.  Past kMaxSwitchPorts a loop
\* leaves the array; nothing is said of behaviours that get there.
Managed == {i \in made : i < gcmCount}

ApplyToAll(scheds, out) ==
  [i \in Slot |-> IF i \in Managed THEN ApplySchedule(ports[i], scheds[i], out[i])
                  ELSE ports[i]]

DisableAll(pts, out) ==
  [i \in Slot |-> IF i \in Managed THEN DisableSchedule(pts[i], out[i]) ELSE pts[i]]

\* A reset of the switch.
HalReset == [i \in Slot |-> [ports[i] EXCEPT !.oper = Boot, !.pending = NoSchedule]]

-----------------------------------------------------------------------------
(* FrerManager, as far as the orchestrator drives it.                      *)

FrerInit == frerCount' = 0

\* Whether a Tick reports a latent error.  That an event once counted is reported
\* by every later Tick makes no difference here: the fault mask keeps it.
FrerTick == IF "latent" \in Disturbances /\ frerCount > 0 THEN BOOLEAN ELSE {FALSE}

\* n calls of RegisterStream that succeed.
RegisterStreams(n) ==
  /\ frerCount + n <= kMaxFrerEntries
  /\ frerCount' = frerCount + n

\* One more call would fail: the table is full, or the switch refuses.
RegisterStreamFails(n) ==
  FALSE \in Succeeds("frer") \/ frerCount + n = kMaxFrerEntries

-----------------------------------------------------------------------------
(* Init: the phases run in order, and the first error ends it.  cfg_ has   *)
(* been replaced by then, the rest of the orchestrator has not.            *)

BeginInit(c) ==
  /\ state \in InitFrom
  /\ inits < MaxInits
  /\ inits' = inits + 1
  /\ cfg' = c

\* Phase 1 fails: the bus is dead, or gives up after the reset.
InitHalFails(c) ==
  /\ BeginInit(c)
  /\ FALSE \in Succeeds("init")
  /\ \/ UNCHANGED <<ports, tables, macsecFails>>
     \/ ports' = HalReset /\ tables' = FALSE /\ macsecFails' = FALSE
  /\ UNCHANGED <<state, initialised, made, gcmCount, ptp, frerCount, convergence,
                 monitors, auditVars>>

\* Phases 2 and 3 fail: the VLAN entry, or a stream filter after some others.
InitTablesFail(c) ==
  /\ BeginInit(c)
  /\ FALSE \in Succeeds("tables")
  /\ ports' = HalReset
  /\ tables' \in BOOLEAN
  /\ macsecFails' = FALSE
  /\ UNCHANGED <<state, initialised, made, gcmCount, ptp, frerCount, convergence,
                 monitors, auditVars>>

PrevalidateAllSchedules(c) == \A i \in Slot : i < c.ports => c.schedules[i] \in Prevalid

\* Phase 5 fails, with the VLAN entry and all stream filters in hardware.
InitPrevalidationFails(c) ==
  /\ BeginInit(c)
  /\ ~PrevalidateAllSchedules(c)
  /\ ports' = HalReset
  /\ tables' = TRUE
  /\ macsecFails' = FALSE
  /\ UNCHANGED <<state, initialised, made, gcmCount, ptp, frerCount, convergence,
                 monitors, auditVars>>

\* Phases 1 to 6: a new manager in every scheduled slot; gcmCount_ goes on
\* from its last value.
ConstructManagers(c) ==
  /\ PrevalidateAllSchedules(c)
  /\ tables' = TRUE
  /\ macsecFails' = FALSE
  /\ ports' = [i \in Slot |-> IF i < c.ports THEN NewGcm(HalReset[i]) ELSE HalReset[i]]
  /\ made' = made \cup {i \in Slot : i < c.ports}
  /\ gcmCount' = gcmCount + c.ports

\* Phase 7 fails: a bad port count changes nothing in the clock manager.
InitPtpFails(c) ==
  /\ BeginInit(c)
  /\ ConstructManagers(c)
  /\ \/ ~c.ptpPortsOk /\ UNCHANGED ptp
     \/ /\ c.ptpPortsOk
        /\ FALSE \in Succeeds("servo")
        /\ ptp' = PtpInit(ptp, c.capable, FALSE)
  /\ UNCHANGED <<state, initialised, frerCount, convergence, monitors, auditVars>>

InitSucceeds(c) ==
  /\ BeginInit(c)
  /\ ConstructManagers(c)
  /\ c.ptpPortsOk
  /\ ptp' = PtpInit(ptp, c.capable, TRUE)
  /\ FrerInit
  /\ initialised' = TRUE
  /\ state' = "kInitializing"
  /\ UNCHANGED <<convergence, healthAge, faultMask, auditVars>>

\* Faulty variant: a new start forgets the faults.
StartForgetsFaults ==
  /\ state \in StartFrom
  /\ initialised
  /\ state' = "kPtpConverging"
  /\ convergence' = Unset
  /\ faultMask' = {}
  /\ UNCHANGED <<lifecycle, ports, ptp, frerCount, healthAge, field, auditVars>>

Start ==
  /\ state \in StartFrom
  /\ initialised
  /\ state' = "kPtpConverging"
  /\ convergence' = Unset
  /\ UNCHANGED <<lifecycle, ports, ptp, frerCount, monitors, field, auditVars>>

\* Faulty variant: the schedules are disabled and the state is left.
StopKeepsState ==
  /\ \E out \in [Slot -> GclOutcomes] : ports' = DisableAll(ports, out)
  /\ UNCHANGED <<state, lifecycle, ptp, frerCount, convergence, monitors, field,
                 auditVars>>

Stop ==
  /\ \E out \in [Slot -> GclOutcomes] : ports' = DisableAll(ports, out)
  /\ state' = "kUninitialized"
  /\ UNCHANGED <<lifecycle, ptp, frerCount, convergence, monitors, field, auditVars>>

\* Faulty variant: the state is not asked for.
UpdateInAnyState(i, s) ==
  /\ i \in Managed
  /\ \E out \in GclOutcomes :
       ports' = [ports EXCEPT ![i] = ApplySchedule(ports[i], s, out)]
  /\ UNCHANGED <<state, lifecycle, ptp, frerCount, convergence, monitors, field,
                 auditVars>>

UpdatePortSchedule(i, s) ==
  /\ state = "kRunning"
  /\ i \in Managed
  /\ \E out \in GclOutcomes :
       ports' = [ports EXCEPT ![i] = ApplySchedule(ports[i], s, out)]
  /\ UNCHANGED <<state, lifecycle, ptp, frerCount, convergence, monitors, field,
                 auditVars>>

-----------------------------------------------------------------------------
(* Tick, first half: the monitors.  An observation is what one Tick finds: *)
(* whether the PHC could be read at its start, what the clock manager did, *)
(* whether a latent error is reported, whether the gate control lists can  *)
(* be read back, and whether the counter of a channel with MACsec failures *)
(* is read: an error there skips the channel.                              *)

Observations ==
  [timeKnown : {TimeKnown(ptp, r) : r \in Succeeds("phc")},
   clock : UNION {PtpTick(ptp, r) : r \in Succeeds("phc")},
   latent : FrerTick,
   readback : Succeeds("readback"),
   macsec : {macsecFails /\ r : r \in Succeeds("counter")}]

\* Faulty variants: a check comes one tick late; the first check never comes.
HealthCheckLate(obs) ==
  IF healthAge = Unset THEN obs.timeKnown
  ELSE ~obs.timeKnown \/ healthAge >= HealthTicks

HealthCheckNeverFirst(obs) ==
  healthAge # Unset /\ (~obs.timeKnown \/ healthAge + 1 >= HealthTicks)

\* The time 0 read from an unreadable PHC makes nowNs - lastHealthCheckNs_
\* wrap around: a check is due then, and never while both are 0.
HealthCheckDue(obs) ==
  IF healthAge = Unset THEN obs.timeKnown
  ELSE ~obs.timeKnown \/ healthAge + 1 >= HealthTicks

TickIntegrityCheck(obs) ==
  {f \in {"HalIntegrity"} :
     \E i \in Managed : ports[i].active /\ ~VerifyOk(ports[i], obs.readback)}
  \cup {f \in {"MacsecAuth"} : obs.macsec}

\* Faulty variant: a holdover that expires is not recorded.
ExpiryUnrecorded(obs) ==
  faultMask
    \cup {f \in {"FrerLatent"} : obs.latent}
    \cup (IF HealthCheckDue(obs) THEN TickIntegrityCheck(obs) ELSE {})

\* The fault mask as the degradation machine finds it.
ObservedFaults(obs) ==
  faultMask
    \cup {f \in {"PtpHoldover"} : obs.clock.expired}
    \cup {f \in {"FrerLatent"} : obs.latent}
    \cup (IF HealthCheckDue(obs) THEN TickIntegrityCheck(obs) ELSE {})

Observe(obs) ==
  /\ state # "kFault"
  /\ initialised
  /\ healthAge' = IF HealthCheckDue(obs) THEN (IF obs.timeKnown THEN 0 ELSE Unset)
                  ELSE IF healthAge = Unset THEN Unset ELSE healthAge + 1
  /\ UNCHANGED <<lifecycle, field>>

-----------------------------------------------------------------------------
(* Tick, second half: the degradation machine and the convergence watchdog *)

\* Faulty variant: the state has been overwritten when it is logged.
LogAfterTransition(to, trigger) ==
  LogStateTransition([from |-> to, to |-> to, trigger |-> trigger])

\* The time of an entry is left out: nothing reads it.
LogTransition(to, trigger) ==
  LogStateTransition([from |-> state, to |-> to, trigger |-> trigger])

\* Faulty variants: the safe schedule goes to slot 0 only; nothing is logged.
EnterSafeStateFirstPort(trigger) ==
  /\ ports' = [ports EXCEPT ![0] = ApplySchedule(@, cfg.safeStateSchedule, "ok")]
  /\ LogTransition("kSafeState", trigger)
  /\ state' = "kSafeState"
  /\ UNCHANGED <<frerCount, convergence>>

EnterSafeStateSilently(trigger) ==
  /\ \E out \in [Slot -> GclOutcomes] :
       ports' = ApplyToAll([i \in Slot |-> cfg.safeStateSchedule], out)
  /\ state' = "kSafeState"
  /\ UNCHANGED <<frerCount, convergence, auditVars>>

\* EnterSafeState: the errors of ApplySchedule are ignored.
EnterSafeState(trigger) ==
  /\ \E out \in [Slot -> GclOutcomes] :
       ports' = ApplyToAll([i \in Slot |-> cfg.safeStateSchedule], out)
  /\ LogTransition("kSafeState", trigger)
  /\ state' = "kSafeState"
  /\ UNCHANGED <<frerCount, convergence>>

\* EnterFault on ports pts: the errors of DisableSchedule are ignored.
EnterFault(trigger, pts) ==
  /\ \E out \in [Slot -> GclOutcomes] : ports' = DisableAll(pts, out)
  /\ LogTransition("kFault", trigger)
  /\ state' = "kFault"

\* Running or degraded, with a fault that asks for the safe state.
TickSafeState(obs) ==
  /\ state \in {"kRunning", "kDegraded"}
  /\ ObservedFaults(obs) \cap SafeStateTriggers # {}
  /\ Observe(obs)
  /\ ptp' = obs.clock.ptp
  /\ faultMask' = ObservedFaults(obs)
  /\ EnterSafeState(IF "PtpHoldover" \in ObservedFaults(obs)
                    THEN "kPtpHoldoverExpired" ELSE "kDeadlineViolation")

\* Faulty variant: the two triggers are swapped.
TickDegradeSwapped(obs) ==
  /\ state = "kRunning"
  /\ ObservedFaults(obs) \cap SafeStateTriggers = {}
  /\ ObservedFaults(obs) \cap DegradeTriggers # {}
  /\ Observe(obs)
  /\ ptp' = obs.clock.ptp
  /\ faultMask' = ObservedFaults(obs)
  /\ LogTransition("kDegraded", IF "FrerLatent" \in ObservedFaults(obs)
                                THEN "kMacsecReplayAttack" ELSE "kFrerLatentError")
  /\ state' = "kDegraded"
  /\ UNCHANGED <<ports, frerCount, convergence>>

TickDegrade(obs) ==
  /\ state = "kRunning"
  /\ ObservedFaults(obs) \cap SafeStateTriggers = {}
  /\ ObservedFaults(obs) \cap DegradeTriggers # {}
  /\ Observe(obs)
  /\ ptp' = obs.clock.ptp
  /\ faultMask' = ObservedFaults(obs)
  /\ LogTransition("kDegraded", IF "FrerLatent" \in ObservedFaults(obs)
                                THEN "kFrerLatentError" ELSE "kMacsecReplayAttack")
  /\ state' = "kDegraded"
  /\ UNCHANGED <<ports, frerCount, convergence>>

\* Faulty variant: the escalation is not recorded in the mask.
TickEscalateUnrecorded(obs) ==
  /\ state = "kDegraded"
  /\ ObservedFaults(obs) \cap SafeStateTriggers = {}
  /\ "HalIntegrity" \in ObservedFaults(obs)
  /\ Observe(obs)
  /\ ptp' = obs.clock.ptp
  /\ faultMask' = ObservedFaults(obs)
  /\ EnterSafeState("kDeadlineViolation")

\* Degraded, and the mask holds an integrity fault.
TickEscalate(obs) ==
  /\ state = "kDegraded"
  /\ ObservedFaults(obs) \cap SafeStateTriggers = {}
  /\ "HalIntegrity" \in ObservedFaults(obs)
  /\ Observe(obs)
  /\ ptp' = obs.clock.ptp
  /\ faultMask' = ObservedFaults(obs) \cup {"NcDeadline"}
  /\ EnterSafeState("kDeadlineViolation")

\* Faulty variant: an integrity fault alone does not degrade.
TickQuietOnIntegrity(obs) ==
  /\ \/ state = "kRunning" /\ ObservedFaults(obs) \subseteq {"HalIntegrity"}
     \/ state \in {"kUninitialized", "kInitializing", "kSafeState"}
  /\ Observe(obs)
  /\ ptp' = obs.clock.ptp
  /\ faultMask' = ObservedFaults(obs)
  /\ UNCHANGED <<state, ports, frerCount, convergence, auditVars>>

\* Nothing for the machine to do.
TickQuiet(obs) ==
  /\ \/ state = "kRunning" /\ ObservedFaults(obs) = {}
     \/ /\ state = "kDegraded"
        /\ ObservedFaults(obs) \cap (SafeStateTriggers \cup {"HalIntegrity"}) = {}
     \/ state \in {"kUninitialized", "kInitializing", "kSafeState"}
  /\ Observe(obs)
  /\ ptp' = obs.clock.ptp
  /\ faultMask' = ObservedFaults(obs)
  /\ UNCHANGED <<state, ports, frerCount, convergence, auditVars>>

-----------------------------------------------------------------------------

\* The clock manager after its Tick, with a Sync delivered meanwhile or not.
Interrupted(p) ==
  {p} \cup {InjectSyncMessage(p, near, w) : near \in BOOLEAN, w \in Succeeds("servo")}

Converging(obs) ==
  /\ state = "kPtpConverging"
  /\ Observe(obs)
  /\ ptp' \in Interrupted(obs.clock.ptp)
  /\ faultMask' = ObservedFaults(obs)

\* IsSynchronised is asked before the Sync of this Tick or after it.
FoundInLock(obs)  == IsSynchronised(obs.clock.ptp) \/ IsSynchronised(ptp')
FoundUnlocked(obs) == ~IsSynchronised(obs.clock.ptp) \/ ~IsSynchronised(ptp')

\* Faulty variant: the watchdog runs on the PHC, which nobody can read while
\* the clock manager is in free run.
ElapsedByPhc ==
  IF convergence = Unset THEN Unset
  ELSE IF ptp.sync = "kFreeRun" THEN convergence ELSE convergence + 1

\* The ticks of the watchdog, once it has been armed.
Elapsed == IF convergence = Unset THEN Unset ELSE convergence + 1

\* Faulty variant: the errors of ApplySchedule are ignored.
ApplyErrorsIgnored(out) == out \in [Slot -> GclOutcomes]

AllApply(out) ==
  \A i \in Managed : ApplyOk(ports[i], cfg.schedules[i], out[i])

InitFrerStreams == RegisterStreams(cfg.frerStreams)

\* Faulty variant: the lock is not waited for.
TickConvergedUnlocked(obs) ==
  /\ Converging(obs)
  /\ \E out \in [Slot -> GclOutcomes] :
       /\ AllApply(out)
       /\ ports' = ApplyToAll(cfg.schedules, out)
  /\ InitFrerStreams
  /\ LogTransition("kRunning", "kOk")
  /\ state' = "kRunning"
  /\ UNCHANGED convergence

\* Found in lock: every schedule is loaded and every stream registered.
TickConverged(obs) ==
  /\ Converging(obs)
  /\ FoundInLock(obs)
  /\ \E out \in [Slot -> GclOutcomes] :
       /\ AllApply(out)
       /\ ports' = ApplyToAll(cfg.schedules, out)
  /\ InitFrerStreams
  /\ LogTransition("kRunning", "kOk")
  /\ state' = "kRunning"
  /\ UNCHANGED convergence

\* A schedule is not accepted: the loop stops at slot k, and all is disabled.
ApplyUpTo(k, out) ==
  [i \in Slot |-> IF i \in Managed /\ i <= k
                  THEN ApplySchedule(ports[i], cfg.schedules[i], out[i])
                  ELSE ports[i]]

TickApplyFails(obs) ==
  /\ Converging(obs)
  /\ FoundInLock(obs)
  /\ \E out \in [Slot -> GclOutcomes], k \in Managed :
       /\ ~ApplyOk(ports[k], cfg.schedules[k], out[k])
       /\ \A i \in Managed : i < k => ApplyOk(ports[i], cfg.schedules[i], out[i])
       /\ EnterFault("kApplyError", ApplyUpTo(k, out))
  /\ UNCHANGED <<frerCount, convergence>>

\* A stream does not register: the table is full, or the switch refuses one.
\* Those before it stay registered, and the next Tick tries them all again.
TickFrerFails(obs) ==
  /\ Converging(obs)
  /\ FoundInLock(obs)
  /\ \E out \in [Slot -> GclOutcomes] :
       /\ AllApply(out)
       /\ ports' = ApplyToAll(cfg.schedules, out)
  /\ \E n \in 0 .. (cfg.frerStreams - 1) :
       RegisterStreams(n) /\ RegisterStreamFails(n)
  /\ convergence' = IF Elapsed > ConvergenceTicks THEN convergence ELSE Elapsed
  /\ UNCHANGED <<state, auditVars>>

\* Not found in lock: the watchdog is armed on the first such Tick.
TickWaits(obs) ==
  /\ Converging(obs)
  /\ FoundUnlocked(obs)
  /\ Elapsed <= ConvergenceTicks
  /\ convergence' = IF convergence = Unset THEN 0 ELSE Elapsed
  /\ UNCHANGED <<state, ports, frerCount, auditVars>>

TickWatchdog(obs) ==
  /\ Converging(obs)
  /\ FoundUnlocked(obs)
  /\ Elapsed > ConvergenceTicks
  /\ EnterFault("kPtpNotSynchronised", ports)
  /\ UNCHANGED <<frerCount, convergence>>

TickWith(obs) ==
  \/ TickSafeState(obs)
  \/ TickDegrade(obs)
  \/ TickEscalate(obs)
  \/ TickQuiet(obs)
  \/ TickConverged(obs)
  \/ TickApplyFails(obs)
  \/ TickFrerFails(obs)
  \/ TickWaits(obs)
  \/ TickWatchdog(obs)

Tick == \E obs \in Observations : TickWith(obs)

-----------------------------------------------------------------------------
(* The world outside: Sync messages delivered by the driver, late swaps,   *)
(* soft errors in the Oper bank, MACsec authentication failures.           *)

ReceiveSync(near) ==
  /\ \E w \in Succeeds("servo") : ptp' = InjectSyncMessage(ptp, near, w)
  /\ UNCHANGED <<state, lifecycle, ports, frerCount, convergence, monitors, field,
                 auditVars>>

LateSwap(i) ==
  /\ ports[i].pending # NoSchedule
  /\ ports' = [ports EXCEPT ![i] = SwapPending(ports[i])]
  /\ UNCHANGED <<state, lifecycle, ptp, frerCount, convergence, monitors, field,
                 auditVars>>

SoftError(i) ==
  /\ "softError" \in Disturbances
  /\ i \in made
  /\ ports' = [ports EXCEPT ![i].oper = Corrupt]
  /\ UNCHANGED <<state, lifecycle, ptp, frerCount, convergence, monitors, field,
                 auditVars>>

MacsecFailure ==
  /\ "macsec" \in Disturbances
  /\ macsecFails' = TRUE
  /\ UNCHANGED <<state, lifecycle, ports, ptp, frerCount, convergence, monitors,
                 tables, auditVars>>

Next ==
  \/ \E c \in Configs :
       \/ InitHalFails(c) \/ InitTablesFail(c) \/ InitPrevalidationFails(c)
       \/ InitPtpFails(c) \/ InitSucceeds(c)
  \/ Start
  \/ Stop
  \/ \E i \in Slot, s \in Schedules : UpdatePortSchedule(i, s)
  \/ Tick
  \/ \E near \in BOOLEAN : ReceiveSync(near)
  \/ \E i \in Slot : LateSwap(i) \/ SoftError(i)
  \/ MacsecFailure

Spec == Init /\ [][Next]_vars

\* The caller's real-time thread calls Tick again and again.
FairSpec == Spec /\ WF_vars(Tick)

-----------------------------------------------------------------------------
(* Properties                                                              *)

AuditEntry == [from : OrchestratorState, to : OrchestratorState,
               trigger : {"kOk", "kPtpHoldoverExpired", "kDeadlineViolation",
                          "kFrerLatentError", "kMacsecReplayAttack",
                          "kApplyError", "kPtpNotSynchronised"}]

\* Every variable has its type; the stream count never exceeds the table, the
\* head of the log never leaves the ring, and a health check is never overdue.
TypeOK ==
  /\ state \in OrchestratorState
  /\ initialised \in BOOLEAN
  /\ cfg \in Configs \cup {NoConfig}
  /\ made \in SUBSET Slot
  /\ gcmCount \in Nat
  /\ ports \in [Slot -> Port]
  /\ ptp \in Ptp
  /\ frerCount \in 0 .. kMaxFrerEntries
  /\ tables \in BOOLEAN
  /\ macsecFails \in BOOLEAN
  /\ convergence \in {Unset} \cup (0 .. ConvergenceTicks)
  /\ healthAge \in {Unset} \cup (0 .. (HealthTicks - 1))
  /\ faultMask \in SUBSET Fault
  /\ inits \in 0 .. MaxInits
  /\ auditLog \in [0 .. (kAuditLogSize - 1) -> AuditEntry \cup {NoEntry}]
  /\ auditHead \in 0 .. (kAuditLogSize - 1)
  /\ auditCount \in 0 .. kAuditLogSize

Operational == {"kRunning", "kDegraded", "kSafeState"}

\* No sequence of calls, HAL failures, late swaps and resets makes the gates of
\* a port follow a schedule that did not pass the whole pipeline.
OnlyValidSchedulesRun ==
  \A i \in Slot :
    /\ ports[i].oper \in Valid \cup {PassThrough, Boot, Corrupt}
    /\ ports[i].pending \in Valid \cup {PassThrough, NoSchedule}

\* While traffic is scheduled - running, degraded or in the safe state - every
\* managed port has an active schedule, and one that passed the pipeline.
OperationalPortsScheduled ==
  state \in Operational =>
    \A i \in Managed : ports[i].active /\ ports[i].sched \in Valid

\* The newest audit entry explains the state the orchestrator is in.
AuditExplainsState ==
  state \in Operational \cup {"kFault"} =>
    auditCount > 0 /\ auditLog[AuditSlot(0)].to = state

\* Read from the oldest, the entries chain: each one starts where the one
\* before it ended, or at a new convergence.
AuditChains ==
  \A k \in 0 .. (auditCount - 2) :
    auditLog[AuditSlot(k)].from \in {auditLog[AuditSlot(k + 1)].to, "kPtpConverging"}

\* A degraded or safe state has its cause in the fault mask.
DegradationHasCause ==
  /\ state = "kSafeState" => faultMask \cap SafeStateTriggers # {}
  /\ state = "kDegraded" => faultMask \cap DegradeTriggers # {}

\* The faults that the triggers stand for.
TriggerFaults ==
  [kPtpHoldoverExpired |-> "PtpHoldover", kDeadlineViolation |-> "NcDeadline",
   kFrerLatentError |-> "FrerLatent", kMacsecReplayAttack |-> "MacsecAuth"]

\* The newest audit entry names the cause of a degraded or safe state: its
\* trigger stands for a fault in the mask.  The one exception is a degradation
\* by an integrity fault alone, which has no trigger and is logged as an attack.
AuditNamesCause ==
  state = "kSafeState" \/
  (state = "kDegraded" /\ faultMask \cap DegradeTriggers # {"HalIntegrity"})
  => LET trigger == auditLog[AuditSlot(0)].trigger
     IN  trigger \in DOMAIN TriggerFaults /\ TriggerFaults[trigger] \in faultMask

\* While traffic is scheduled by the PTP clock the clock manager is not in free
\* run: a Tick that loses the clock enters the safe state at once.
RunningHasClock == state \in {"kRunning", "kDegraded"} => ptp.sync # "kFreeRun"

\* A fault that a Tick finds while running is acted on by the same Tick: the
\* orchestrator never stays in kRunning with a fault newly in its mask.
FaultsAreActedOn ==
  [][state = "kRunning" /\ state' = "kRunning" => faultMask' = faultMask]_vars

\* kRunning is entered only from convergence, in lock, with the configured
\* schedule in the hardware of every managed port and all streams registered.  A
\* Sync that comes between the question and the entry may report a new offset,
\* but does not undo the lock.
RunningIsEarned ==
  [][state # "kRunning" /\ state' = "kRunning" =>
       /\ state = "kPtpConverging"
       /\ ptp'.sync = "kLocked"
       /\ \A i \in Managed : ports'[i].active /\ ports'[i].oper = cfg.schedules[i]
       /\ frerCount' >= cfg.frerStreams]_vars

\* In the safe state no manager is given another schedule, and the gates of a port
\* change only by a swap that was pending when it was entered.  Unless Init is
\* called, no Start, Stop or update makes the fault forgotten that asked for it:
\* the first Tick that finds the traffic scheduled again goes back.
SafeStateNotRecovered ==
  [][/\ state = "kSafeState" /\ state' = "kSafeState" =>
          \A i \in Managed :
            /\ ports'[i].active = ports[i].active /\ ports'[i].sched = ports[i].sched
            /\ ports'[i].oper \in {ports[i].oper, ports[i].pending, Corrupt}
            /\ ports'[i].pending \in {ports[i].pending, NoSchedule}
     /\ faultMask \cap SafeStateTriggers # {} /\ inits' = inits =>
          /\ faultMask' \cap SafeStateTriggers # {}
          /\ state \in {"kRunning", "kDegraded"} /\ Tick => state' = "kSafeState"]_vars

\* Without soft errors and timeouts, the gates of every managed port follow the
\* schedule its manager reports, whichever writes of ApplyGclToPort fail.
HardwareFollowsManagers ==
  state \in Operational => \A i \in Managed : ports[i].oper = ports[i].sched

\* In the safe state the gates of every managed port follow the safe schedule,
\* until a soft error hits them.
SafeScheduleRuns ==
  state = "kSafeState" =>
    \A i \in Managed : ports[i].oper \in {cfg.safeStateSchedule, Corrupt}

\* Running, the configuration is in force: every port it schedules is managed
\* and scheduled, and the VLAN and stream filter tables have been written.
RunningCoversConfig ==
  state = "kRunning" =>
    /\ \A i \in Slot : i < cfg.ports => i \in Managed /\ ports[i].active
    /\ tables

\* The loops over gcManagers_ stay within it.
GcmTableInBounds == gcmCount <= kMaxSwitchPorts

Diverged == \E i \in Managed : ports[i].active /\ ports[i].oper # ports[i].sched

\* The FRER table cannot take the configured streams.
TableExhausted == frerCount + cfg.frerStreams > kMaxFrerEntries

\* The switch refuses a stream for which the table has room.
StreamRefused == ~TableExhausted /\ \E obs \in Observations : TickFrerFails(obs)

\* Convergence ends, in lock or by the watchdog, unless the switch refuses the
\* streams for ever, and but for one case: in lock with a table that earlier
\* starts and half-failed attempts have filled, every Tick fails before it comes
\* to the watchdog.
ConvergenceDecided ==
  <>[][~StreamRefused]_vars =>
    (state = "kPtpConverging" ~>
       state # "kPtpConverging" \/ (TableExhausted /\ IsSynchronised(ptp)))

\* A Tick that could read the PHC.
TickKnowsTime == \E obs \in Observations : obs.timeKnown /\ TickWith(obs)

\* Unless the PHC stays unreadable for ever, gates that no longer follow the
\* validated schedule are noticed: the port is set right again, or the
\* orchestrator leaves normal operation for good.
DivergenceHandled ==
  WF_vars(TickKnowsTime) =>
    (state = "kRunning" /\ Diverged ~>
       state \notin {"kRunning", "kDegraded"} \/ ~Diverged)

=============================================================================
