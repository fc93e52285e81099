---------------------- MODULE OrchestratorGateProofs ----------------------
(***************************************************************************)
(* What the gates do in each mode of the orchestrator, given what the      *)
(* caller respects and what the hardware spares it.  Each hypothesis is    *)
(* one without which the code does not have the property.                  *)
(***************************************************************************)
EXTENDS OrchestratorModeProofs

USE OrchestratorAssumption, ScheduleAssumption, AuditLogSizeAssumption

\* The caller initialises a stack that is not in operation.
InitOutsideOperation == InitFrom \cap Operational = {}

\* The order of calls in the description of the class: Init before the first start
\* and after a fault, Start after Init.
CallsInOrder ==
  /\ InitFrom \subseteq {"kUninitialized", "kFault"}
  /\ StartFrom \subseteq {"kInitializing"}

\* No poll of ConfigPending times out.
NoTimeouts == "timeout" \notin Disturbances

\* No soft error hits an Oper bank.
NoSoftErrors == "softError" \notin Disturbances

-----------------------------------------------------------------------------
(* The safe state.                                                         *)

\* A call of Init in another state than s does not happen in s.
LEMMA InitState ==
  ASSUME NEW c, \/ InitHalFails(c) \/ InitTablesFail(c) \/ InitPrevalidationFails(c)
                \/ InitPtpFails(c) \/ InitSucceeds(c)
  PROVE  state \in InitFrom /\ state' \in {state, "kInitializing"}
BY DEF InitHalFails, InitTablesFail, InitPrevalidationFails, InitPtpFails, InitSucceeds,
       BeginInit

\* What a late swap and a soft error may do to a port.
Settles(old, new) ==
  /\ new.active = old.active /\ new.sched = old.sched
  /\ new.oper \in {old.oper, old.pending, Corrupt}
  /\ new.pending \in {old.pending, NoSchedule}

LEMMA PortSettles ==
  ASSUME NEW pt \in Port
  PROVE  /\ Settles(pt, pt)
         /\ Settles(pt, SwapPending(pt))
         /\ Settles(pt, [pt EXCEPT !.oper = Corrupt])
BY DEF Settles, SwapPending, Port

\* Nothing that happens in the safe state, but for a call of Init, gives a manager
\* another schedule or a port another swap.
LEMMA SafePortsSettle ==
  ASSUME "kSafeState" \notin InitFrom, TypeOK, [Next]_vars,
         state = "kSafeState", state' = "kSafeState", NEW i \in Managed
  PROVE  Settles(ports[i], ports'[i])
<1>1. i \in Slot /\ ports \in [Slot -> Port]
  BY DEF TypeOK, Managed
<1>2. Settles(ports[i], ports[i])
  BY <1>1, PortSettles
<1>3. CASE Tick
  <2>1. ports' = ports
    BY <1>3 DEF Tick, TickWith, TickSafeState, TickDegrade, TickEscalate, TickQuiet,
                TickConverged, TickApplyFails, TickFrerFails, TickWaits, TickWatchdog,
                Converging
  <2>2. QED
    BY <1>2, <2>1
<1>4. CASE Start \/ Stop
  BY <1>4 DEF Start, Stop
<1>5. CASE \E c \in Configs :
             \/ InitHalFails(c) \/ InitTablesFail(c) \/ InitPrevalidationFails(c)
             \/ InitPtpFails(c) \/ InitSucceeds(c)
  BY <1>5, InitState
<1>6. CASE \E j \in Slot, s \in Schedules : UpdatePortSchedule(j, s)
  BY <1>6 DEF UpdatePortSchedule
<1>7. ASSUME NEW j \in Slot, LateSwap(j) \/ SoftError(j)
      PROVE  Settles(ports[i], ports'[i])
  <2>1. \/ ports'[i] = ports[i]
        \/ ports'[i] = SwapPending(ports[i])
        \/ ports'[i] = [ports[i] EXCEPT !.oper = Corrupt]
    BY <1>1, <1>7 DEF LateSwap, SoftError
  <2>2. QED
    BY <1>1, <2>1, PortSettles
<1>8. CASE (\E near \in BOOLEAN : ReceiveSync(near)) \/ MacsecFailure \/ UNCHANGED vars
  BY <1>2, <1>8 DEF ReceiveSync, MacsecFailure, vars
<1>9. QED
  BY <1>3, <1>4, <1>5, <1>6, <1>7, <1>8 DEF Next

\* A Tick adds to the fault mask, and takes nothing from it.
LEMMA TickKeepsFaults ==
  ASSUME TypeOK, Tick
  PROVE  faultMask \subseteq faultMask'
<1>1. PICK obs \in Observations : TickWith(obs)
  BY DEF Tick
<1>2. faultMask \subseteq ObservedFaults(obs)
  BY ObservationFacts
<1>3. ObservedFaults(obs) \subseteq faultMask'
  BY <1>1 DEF TickWith, TickSafeState, TickDegrade, TickEscalate, TickQuiet, TickConverged,
              TickApplyFails, TickFrerFails, TickWaits, TickWatchdog, Converging
<1>4. QED
  BY <1>2, <1>3

\* A Tick that finds scheduled traffic and, in the mask, a fault that asks for the
\* safe state goes there, whatever else it finds.
LEMMA TickFallsBack ==
  ASSUME TypeOK, Tick, state \in {"kRunning", "kDegraded"},
         faultMask \cap SafeStateTriggers # {}
  PROVE  state' = "kSafeState"
<1>1. PICK obs \in Observations : TickWith(obs)
  BY DEF Tick
<1>2. faultMask \subseteq ObservedFaults(obs)
  BY ObservationFacts
<1>3. ObservedFaults(obs) \cap SafeStateTriggers # {}
  BY <1>2
<1>4. TickSafeState(obs)
  BY <1>1, <1>3 DEF TickWith, TickDegrade, TickEscalate, TickQuiet, TickConverged,
                    TickApplyFails, TickFrerFails, TickWaits, TickWatchdog, Converging
<1>5. QED
  BY <1>4 DEF TickSafeState, EnterSafeState

\* Unless the caller initialises the stack in its safe state, only a swap that was
\* outstanding when it was entered, or a soft error, changes what the gates follow
\* there, and nothing what the managers report.  The way out by Start or by Stop and
\* Start leads back: the fault stays in the mask, and the first Tick that finds
\* traffic scheduled again acts on it.
THEOREM SafeStateKept ==
  ASSUME "kSafeState" \notin InitFrom
  PROVE  Spec => SafeStateNotRecovered
<1> DEFINE GatesKept ==
             state = "kSafeState" /\ state' = "kSafeState" =>
               \A i \in Managed :
                 /\ ports'[i].active = ports[i].active /\ ports'[i].sched = ports[i].sched
                 /\ ports'[i].oper \in {ports[i].oper, ports[i].pending, Corrupt}
                 /\ ports'[i].pending \in {ports[i].pending, NoSchedule}
           FaultKept ==
             faultMask \cap SafeStateTriggers # {} /\ inits' = inits =>
               /\ faultMask' \cap SafeStateTriggers # {}
               /\ state \in {"kRunning", "kDegraded"} /\ Tick => state' = "kSafeState"
<1>1. IInv /\ [Next]_vars => [GatesKept /\ FaultKept]_vars
  <2> SUFFICES ASSUME TypeOK, [Next]_vars
               PROVE  GatesKept /\ FaultKept
    BY DEF IInv
  <2>1. GatesKept
    BY SafePortsSettle DEF Settles
  <2>2. faultMask \subseteq faultMask'
    BY TickKeepsFaults, OnlyTickChangesMode
  <2>3. FaultKept
    BY <2>2, TickFallsBack
  <2>4. QED
    BY <2>1, <2>3
<1>2. QED
  BY <1>1, InitIInv, NextIInv, PTL DEF Spec, SafeStateNotRecovered

-----------------------------------------------------------------------------
(* Steps into and within operation.                                        *)

\* The end of convergence, with every schedule accepted by its port.
Loads(out) ==
  /\ state = "kPtpConverging" /\ state' = "kRunning"
  /\ out \in [Slot -> GclOutcomes]
  /\ AllApply(out)
  /\ ports' = ApplyToAll(cfg.schedules, out)

\* The beginning of the safe state.
Falls(out) ==
  /\ state \in {"kRunning", "kDegraded"} /\ state' = "kSafeState"
  /\ initialised
  /\ out \in [Slot -> GclOutcomes]
  /\ ports' = ApplyToAll([i \in Slot |-> cfg.safeStateSchedule], out)

\* A step that leaves the ports alone.
Holds ==
  /\ state \in Operational
  /\ state' = state \/ state' = "kDegraded"
  /\ UNCHANGED ports

\* Every step that ends in operation is one of these, and the configuration, the
\* managers and the tables stay what they are.
LEMMA OperationalStep ==
  ASSUME InitOutsideOperation, TypeOK, [Next]_vars, state' \in Operational
  PROVE  /\ UNCHANGED <<cfg, made, gcmCount, tables, initialised>>
         /\ \/ Holds
            \/ \E out : Loads(out) \/ Falls(out)
            \/ \E i \in Slot, s \in Schedules : UpdatePortSchedule(i, s)
            \/ \E i \in Slot : LateSwap(i) \/ SoftError(i)
<1> USE DEF lifecycle, field, Operational
<1>1. CASE Tick
  <2> PICK obs \in Observations : TickWith(obs)
    BY <1>1 DEF Tick
  <2>1. CASE TickQuiet(obs) \/ TickDegrade(obs)
    BY <2>1 DEF TickQuiet, TickDegrade, Observe, Holds
  <2>2. CASE TickSafeState(obs) \/ TickEscalate(obs)
    BY <2>2 DEF TickSafeState, TickEscalate, EnterSafeState, Observe, Falls
  <2>3. CASE TickConverged(obs)
    BY <2>3 DEF TickConverged, Converging, Observe, Loads
  <2>4. CASE TickApplyFails(obs) \/ TickFrerFails(obs) \/ TickWaits(obs) \/ TickWatchdog(obs)
    BY <2>4 DEF TickApplyFails, TickFrerFails, TickWaits, TickWatchdog, Converging, EnterFault
  <2>5. QED
    BY <2>1, <2>2, <2>3, <2>4 DEF TickWith
<1>2. CASE \E c \in Configs :
             \/ InitHalFails(c) \/ InitTablesFail(c) \/ InitPrevalidationFails(c)
             \/ InitPtpFails(c) \/ InitSucceeds(c)
  BY <1>2, InitState DEF InitOutsideOperation
<1>3. CASE Start \/ Stop
  BY <1>3 DEF Start, Stop
<1>4. CASE \/ \E i \in Slot, s \in Schedules : UpdatePortSchedule(i, s)
           \/ \E i \in Slot : LateSwap(i) \/ SoftError(i)
  BY <1>4 DEF UpdatePortSchedule, LateSwap, SoftError
<1>5. CASE (\E near \in BOOLEAN : ReceiveSync(near)) \/ MacsecFailure \/ UNCHANGED vars
  BY <1>5 DEF ReceiveSync, MacsecFailure, vars, Holds
<1>6. QED
  BY <1>1, <1>2, <1>3, <1>4, <1>5 DEF Next

-----------------------------------------------------------------------------
(* Gates and managers agree.                                               *)

\* Without timeouts a port has no swap outstanding; then a call that fails
\* changes neither bank nor manager, and one that succeeds changes both.
LEMMA ApplyInStep ==
  ASSUME NEW pt \in Port, pt.pending = NoSchedule, NEW s, NEW out \in {"ok", "failed"}
  PROVE  /\ ApplySchedule(pt, s, out).pending = NoSchedule
         /\ pt.oper = pt.sched => ApplySchedule(pt, s, out).oper = ApplySchedule(pt, s, out).sched
         /\ ApplyOk(pt, s, out) => /\ ApplySchedule(pt, s, out).oper = s
                                   /\ ApplySchedule(pt, s, out).sched = s
         /\ DisableSchedule(pt, out).pending = NoSchedule
<1>1. ApplySchedule(pt, s, out)
        \in {pt, [pt EXCEPT !.oper = s, !.active = TRUE, !.sched = s]}
  BY DEF ApplySchedule, Committed, ApplyGclToPort, Port
<1>2. ApplyOk(pt, s, out) =>
        ApplySchedule(pt, s, out) = [pt EXCEPT !.oper = s, !.active = TRUE, !.sched = s]
  BY DEF ApplyOk, ApplySchedule, Committed, ApplyGclToPort, Port
<1>3. DisableSchedule(pt, out)
        \in {pt, [pt EXCEPT !.oper = PassThrough, !.active = FALSE]}
  BY DEF DisableSchedule, Committed, ApplyGclToPort, Port
<1>4. QED
  BY <1>1, <1>2, <1>3 DEF Port

\* No swap is outstanding at any port.
NoPending == \A i \in Slot : ports[i].pending = NoSchedule

\* No call leaves a swap outstanding.
LEMMA NothingPending ==
  ASSUME NoTimeouts, TypeOK, NoPending, [Next]_vars
  PROVE  NoPending'
<1> USE DEF NoPending
<1>0. /\ ports \in [Slot -> Port] /\ Managed \subseteq Slot
      /\ GclOutcomes \subseteq {"ok", "failed"}
  BY DEF TypeOK, Managed, GclOutcomes, NoTimeouts
<1>1. ASSUME NEW pts \in [Slot -> Port], \A i \in Slot : pts[i].pending = NoSchedule,
             NEW out \in [Slot -> GclOutcomes], ports' = DisableAll(pts, out)
      PROVE  NoPending'
  BY <1>0, <1>1, ApplyInStep DEF DisableAll
<1>2. ASSUME NEW scheds, NEW out \in [Slot -> GclOutcomes], ports' = ApplyToAll(scheds, out)
      PROVE  NoPending'
  BY <1>0, <1>2, ApplyInStep DEF ApplyToAll
<1>3. CASE Tick
  <2> PICK obs \in Observations : TickWith(obs)
    BY <1>3 DEF Tick
  <2>1. CASE TickQuiet(obs) \/ TickDegrade(obs) \/ TickWaits(obs)
    BY <2>1 DEF TickQuiet, TickDegrade, TickWaits
  <2>2. CASE TickSafeState(obs) \/ TickEscalate(obs)
    BY <1>2, <2>2 DEF TickSafeState, TickEscalate, EnterSafeState
  <2>3. CASE TickConverged(obs) \/ TickFrerFails(obs)
    BY <1>2, <2>3 DEF TickConverged, TickFrerFails
  <2>4. CASE TickWatchdog(obs)
    BY <1>0, <1>1, <2>4 DEF TickWatchdog, EnterFault
  <2>5. CASE TickApplyFails(obs)
    <3>1. PICK out \in [Slot -> GclOutcomes], out2 \in [Slot -> GclOutcomes], k \in Managed :
            ports' = DisableAll(ApplyUpTo(k, out), out2)
      BY <2>5 DEF TickApplyFails, EnterFault
    <3>2. ApplyUpTo(k, out) \in [Slot -> Port]
      BY <1>0, CfgFacts, ApplyUpToFacts
    <3>3. \A i \in Slot : ApplyUpTo(k, out)[i].pending = NoSchedule
      <4>1. ASSUME NEW i \in Slot PROVE ApplyUpTo(k, out)[i].pending = NoSchedule
        <5>1. ApplyUpTo(k, out)[i]
                \in {ports[i], ApplySchedule(ports[i], cfg.schedules[i], out[i])}
          BY DEF ApplyUpTo
        <5>2. ports[i] \in Port /\ ports[i].pending = NoSchedule /\ out[i] \in {"ok", "failed"}
          BY <1>0
        <5>3. ApplySchedule(ports[i], cfg.schedules[i], out[i]).pending = NoSchedule
          BY <5>2, ApplyInStep
        <5>4. QED
          BY <5>1, <5>2, <5>3
      <4>2. QED
        BY <4>1
    <3>4. QED
      BY <1>1, <3>1, <3>2, <3>3
  <2>6. QED
    BY <2>1, <2>2, <2>3, <2>4, <2>5 DEF TickWith
<1>4. ASSUME NEW c \in Configs,
             \/ InitHalFails(c) \/ InitTablesFail(c) \/ InitPrevalidationFails(c)
             \/ InitPtpFails(c) \/ InitSucceeds(c)
      PROVE  NoPending'
  <2>1. HalReset \in [Slot -> Port] /\ \A i \in Slot : HalReset[i].pending = NoSchedule
    BY <1>0, HalResetFacts DEF HalReset, Port
  <2>2. \A i \in Slot : NewGcm(HalReset[i]).pending = NoSchedule
    BY <2>1 DEF NewGcm, Port
  <2>3. \/ ports' = ports \/ ports' = HalReset
        \/ ports' = [i \in Slot |-> IF i < c.ports THEN NewGcm(HalReset[i]) ELSE HalReset[i]]
    BY <1>4 DEF InitHalFails, InitTablesFail, InitPrevalidationFails, InitPtpFails,
                InitSucceeds, ConstructManagers
  <2>4. QED
    BY <2>1, <2>2, <2>3
<1>5. CASE Start
  BY <1>5 DEF Start
<1>6. CASE Stop
  BY <1>0, <1>1, <1>6 DEF Stop
<1>7. ASSUME NEW i \in Slot, NEW s \in Schedules, UpdatePortSchedule(i, s)
      PROVE  NoPending'
  <2>1. PICK out \in GclOutcomes : ports' = [ports EXCEPT ![i] = ApplySchedule(ports[i], s, out)]
    BY <1>7 DEF UpdatePortSchedule
  <2>2. QED
    BY <1>0, <2>1, ApplyInStep
<1>8. ASSUME NEW i \in Slot, LateSwap(i) \/ SoftError(i)
      PROVE  NoPending'
  <2>1. ports' = [ports EXCEPT ![i].oper = Corrupt]
    BY <1>8 DEF LateSwap, SoftError
  <2>2. QED
    BY <1>0, <2>1 DEF Port
<1>9. CASE (\E near \in BOOLEAN : ReceiveSync(near)) \/ MacsecFailure \/ UNCHANGED vars
  BY <1>9 DEF ReceiveSync, MacsecFailure, vars
<1>10. QED
  BY <1>3, <1>4, <1>5, <1>6, <1>7, <1>8, <1>9 DEF Next

\* On hardware without timeouts and soft errors, in operation the gates of every
\* managed port follow the schedule its manager reports, whichever writes fail and
\* however often the stack was initialised before.
THEOREM GatesMatchManagers ==
  ASSUME InitOutsideOperation, NoTimeouts, NoSoftErrors
  PROVE  Spec => []HardwareFollowsManagers
<1>1. Init => NoPending /\ HardwareFollowsManagers
  BY DEF Init, NoPending, HardwareFollowsManagers, Operational
<1>2. IInv /\ NoPending /\ HardwareFollowsManagers /\ [Next]_vars => HardwareFollowsManagers'
  <2> SUFFICES ASSUME TypeOK, NoPending, HardwareFollowsManagers, [Next]_vars,
                      state' \in Operational, NEW i \in Managed'
               PROVE  ports'[i].oper = ports'[i].sched
    BY DEF IInv, HardwareFollowsManagers
  <2>1. UNCHANGED <<made, gcmCount>>
    BY OperationalStep
  <2>2. i \in Managed /\ i \in Slot /\ ports \in [Slot -> Port] /\ ports[i].pending = NoSchedule
    BY <2>1 DEF Managed, TypeOK, NoPending
  <2>3. GclOutcomes \subseteq {"ok", "failed"}
    BY DEF GclOutcomes, NoTimeouts
  <2>4. CASE Holds
    BY <2>2, <2>4 DEF Holds, HardwareFollowsManagers
  <2>5. ASSUME NEW out, Loads(out) PROVE ports'[i].oper = ports'[i].sched
    <3>1. ApplyOk(ports[i], cfg.schedules[i], out[i]) /\ out[i] \in {"ok", "failed"}
      BY <2>2, <2>3, <2>5 DEF Loads, AllApply
    <3>2. ports'[i] = ApplySchedule(ports[i], cfg.schedules[i], out[i])
      BY <2>2, <2>5 DEF Loads, ApplyToAll
    <3>3. QED
      BY <2>2, <3>1, <3>2, ApplyInStep
  <2>6. ASSUME NEW out, Falls(out) PROVE ports'[i].oper = ports'[i].sched
    <3>1. out[i] \in {"ok", "failed"} /\ ports[i].oper = ports[i].sched
      BY <2>2, <2>3, <2>6 DEF Falls, HardwareFollowsManagers, Operational
    <3>2. ports'[i] = ApplySchedule(ports[i], cfg.safeStateSchedule, out[i])
      BY <2>2, <2>6 DEF Falls, ApplyToAll
    <3>3. QED
      BY <2>2, <3>1, <3>2, ApplyInStep
  <2>7. ASSUME NEW j \in Slot, NEW s \in Schedules, UpdatePortSchedule(j, s)
        PROVE  ports'[i].oper = ports'[i].sched
    <3>1. PICK out \in {"ok", "failed"} :
            ports' = [ports EXCEPT ![j] = ApplySchedule(ports[j], s, out)]
      BY <2>3, <2>7 DEF UpdatePortSchedule
    <3>2. ports[i].oper = ports[i].sched
      BY <2>2, <2>7 DEF UpdatePortSchedule, HardwareFollowsManagers, Operational
    <3>3. QED
      BY <2>2, <3>1, <3>2, ApplyInStep
  <2>8. \A j \in Slot : ~LateSwap(j) /\ ~SoftError(j)
    BY DEF LateSwap, SoftError, NoPending, NoSoftErrors
  <2>9. QED
    BY <2>4, <2>5, <2>6, <2>7, <2>8, OperationalStep
<1>3. IInv /\ NoPending /\ [Next]_vars => NoPending'
  BY NothingPending DEF IInv
<1>4. QED
  BY <1>1, <1>2, <1>3, InitIInv, NextIInv, PTL DEF Spec

-----------------------------------------------------------------------------
(* The safe schedule.                                                      *)

\* Every configuration has a safe-state schedule the pipeline accepts; nothing in
\* Init asks for it.
SafePlans == \A c \in Configs : c.safeStateSchedule \in Valid

\* An initialised stack has a configuration some caller passed to Init.
HasConfig == initialised => cfg \in Configs

\* Init stores its argument before anything can fail; nothing else changes cfg_.
LEMMA ConfigKept ==
  ASSUME HasConfig, [Next]_vars
  PROVE  HasConfig'
<1> USE DEF HasConfig, lifecycle
<1>1. CASE \E c \in Configs :
             \/ InitHalFails(c) \/ InitTablesFail(c) \/ InitPrevalidationFails(c)
             \/ InitPtpFails(c) \/ InitSucceeds(c)
  BY <1>1 DEF InitHalFails, InitTablesFail, InitPrevalidationFails, InitPtpFails,
              InitSucceeds, BeginInit
<1>2. CASE Tick
  BY <1>2 DEF Tick, TickWith, TickSafeState, TickDegrade, TickEscalate, TickQuiet,
              TickConverged, TickApplyFails, TickFrerFails, TickWaits, TickWatchdog, Converging, Observe
<1>3. CASE \/ Start \/ Stop \/ MacsecFailure \/ UNCHANGED vars
           \/ \E i \in Slot, s \in Schedules : UpdatePortSchedule(i, s)
           \/ \E near \in BOOLEAN : ReceiveSync(near)
           \/ \E i \in Slot : LateSwap(i) \/ SoftError(i)
  BY <1>3 DEF Start, Stop, MacsecFailure, UpdatePortSchedule, ReceiveSync, LateSwap,
              SoftError, vars
<1>4. QED
  BY <1>1, <1>2, <1>3 DEF Next

\* With a safe schedule the pipeline accepts, and hardware that neither refuses a
\* write nor times out, the gates of every managed port follow the safe schedule of
\* the current configuration as long as the safe state lasts, until a soft error hits
\* them.
THEOREM SafeScheduleInForce ==
  ASSUME InitOutsideOperation, NoTimeouts, "failed" \notin Disturbances, SafePlans
  PROVE  Spec => []SafeScheduleRuns
<1>1. Init => NoPending /\ HasConfig /\ SafeScheduleRuns
  BY DEF Init, NoPending, HasConfig, SafeScheduleRuns
<1>2. IInv /\ NoPending /\ HasConfig /\ SafeScheduleRuns /\ [Next]_vars => SafeScheduleRuns'
  <2> SUFFICES ASSUME TypeOK, NoPending, HasConfig, SafeScheduleRuns, [Next]_vars,
                      state' = "kSafeState", NEW i \in Managed'
               PROVE  ports'[i].oper \in {cfg'.safeStateSchedule, Corrupt}
    BY DEF IInv, SafeScheduleRuns
  <2>1. UNCHANGED <<cfg, made, gcmCount>> /\ state' \in Operational
    BY OperationalStep DEF Operational
  <2>2. i \in Managed /\ i \in Slot /\ ports \in [Slot -> Port] /\ ports[i].pending = NoSchedule
    BY <2>1 DEF Managed, TypeOK, NoPending
  <2>3. CASE Holds
    BY <2>1, <2>2, <2>3 DEF Holds, SafeScheduleRuns
  <2>4. ASSUME NEW out, Falls(out) PROVE ports'[i].oper = cfg'.safeStateSchedule
    <3>1. out[i] = "ok"
      BY <2>2, <2>4 DEF Falls, GclOutcomes, NoTimeouts
    <3>2. ApplyOk(ports[i], cfg.safeStateSchedule, out[i])
      BY <2>2, <2>4, <3>1 DEF Falls, HasConfig, SafePlans, ApplyOk, Committed
    <3>3. ports'[i] = ApplySchedule(ports[i], cfg.safeStateSchedule, out[i])
      BY <2>2, <2>4 DEF Falls, ApplyToAll
    <3>4. QED
      BY <2>1, <2>2, <3>1, <3>2, <3>3, ApplyInStep
  <2>5. \A out : ~Loads(out)
    BY DEF Loads
  <2>6. \A j \in Slot, s \in Schedules : ~UpdatePortSchedule(j, s)
    BY DEF UpdatePortSchedule
  <2>7. \A j \in Slot : ~LateSwap(j)
    BY DEF LateSwap, NoPending
  <2>8. ASSUME NEW j \in Slot, SoftError(j)
        PROVE  ports'[i].oper \in {cfg'.safeStateSchedule, Corrupt}
    <3>1. ports'[i].oper \in {ports[i].oper, Corrupt} /\ state = "kSafeState"
      BY <2>2, <2>8 DEF SoftError, Port
    <3>2. QED
      BY <2>1, <2>2, <3>1 DEF SafeScheduleRuns
  <2>9. QED
    BY <2>1, <2>3, <2>4, <2>5, <2>6, <2>7, <2>8, OperationalStep
<1>3. IInv /\ NoPending /\ [Next]_vars => NoPending'
  BY NothingPending DEF IInv
<1>4. HasConfig /\ [Next]_vars => HasConfig'
  BY ConfigKept
<1>5. QED
  BY <1>1, <1>2, <1>3, <1>4, InitIInv, NextIInv, PTL DEF Spec

-----------------------------------------------------------------------------
(* The configuration is in force.                                          *)

\* From the success of Init on, the slots of the configuration are managed and its
\* tables written.  A call of Init that fails breaks this, in a state the caller
\* does not start from.
InForce ==
  state \in {"kInitializing", "kPtpConverging"} \cup Operational =>
    /\ \A i \in Slot : i < cfg.ports => i \in Managed
    /\ tables

\* Init establishes it, and no other call or event disturbs it.
LEMMA InForceKept ==
  ASSUME CallsInOrder, TypeOK, InForce, [Next]_vars
  PROVE  InForce'
<1> USE DEF lifecycle, field, Operational
<1>1. ASSUME UNCHANGED <<cfg, made, gcmCount, tables>>,
             \/ state' \in {state, "kUninitialized", "kFault"}
             \/ state \in {"kInitializing", "kPtpConverging"} \cup Operational
      PROVE  InForce'
  BY <1>1 DEF InForce, Managed
<1>2. ASSUME NEW c \in Configs, InitSucceeds(c) PROVE InForce'
  <2>1. c.ports \in Nat /\ gcmCount \in Nat
    BY DEF TypeOK, Config
  <2>2. /\ cfg' = c /\ tables' = TRUE
        /\ made' = made \cup {i \in Slot : i < c.ports}
        /\ gcmCount' = gcmCount + c.ports
    BY <1>2 DEF InitSucceeds, BeginInit, ConstructManagers
  <2>3. \A i \in Slot : i < c.ports => i < gcmCount + c.ports
    BY <2>1 DEF Slot
  <2>4. QED
    BY <2>2, <2>3 DEF InForce, Managed
<1>3. ASSUME NEW c \in Configs,
             \/ InitHalFails(c) \/ InitTablesFail(c) \/ InitPrevalidationFails(c)
             \/ InitPtpFails(c)
      PROVE  InForce'
  BY <1>3 DEF InitHalFails, InitTablesFail, InitPrevalidationFails, InitPtpFails, BeginInit,
              CallsInOrder, InForce
<1>4. CASE Start
  BY <1>1, <1>4 DEF Start, CallsInOrder
<1>5. CASE Stop \/ \E i \in Slot, s \in Schedules : UpdatePortSchedule(i, s)
  BY <1>1, <1>5 DEF Stop, UpdatePortSchedule
<1>6. CASE Tick
  <2> PICK obs \in Observations : TickWith(obs)
    BY <1>6 DEF Tick
  <2>1. CASE TickSafeState(obs) \/ TickDegrade(obs) \/ TickEscalate(obs) \/ TickQuiet(obs)
    BY <1>1, <2>1 DEF TickSafeState, TickDegrade, TickEscalate, TickQuiet, EnterSafeState,
                      Observe
  <2>2. CASE \/ TickConverged(obs) \/ TickApplyFails(obs) \/ TickFrerFails(obs)
             \/ TickWaits(obs) \/ TickWatchdog(obs)
    BY <1>1, <2>2 DEF TickConverged, TickApplyFails, TickFrerFails, TickWaits, TickWatchdog,
                      Converging, Observe
  <2>3. QED
    BY <2>1, <2>2 DEF TickWith
<1>7. CASE \/ MacsecFailure \/ UNCHANGED vars
           \/ \E near \in BOOLEAN : ReceiveSync(near)
           \/ \E i \in Slot : LateSwap(i) \/ SoftError(i)
  BY <1>1, <1>7 DEF MacsecFailure, ReceiveSync, LateSwap, SoftError, vars
<1>8. QED
  BY <1>2, <1>3, <1>4, <1>5, <1>6, <1>7 DEF Next

\* For a caller that calls Init and Start in order, a running stack runs the
\* configuration of its last Init: each of its ports is managed and scheduled, and
\* its tables are in the switch, however many calls of Init failed before.
THEOREM ConfigurationInForce ==
  ASSUME CallsInOrder
  PROVE  Spec => []RunningCoversConfig
<1>1. Init => InForce
  BY DEF Init, InForce, Operational
<1>2. IInv /\ InForce /\ [Next]_vars => InForce'
  BY InForceKept DEF IInv
<1>3. Spec => []OperationalPortsScheduled
  BY PortsScheduledWhileOperational DEF CallsInOrder, Operational
<1>4. InForce /\ OperationalPortsScheduled => RunningCoversConfig
  BY DEF InForce, OperationalPortsScheduled, RunningCoversConfig, Operational
<1>5. QED
  BY <1>1, <1>2, <1>3, <1>4, InitIInv, NextIInv, PTL DEF Spec

=============================================================================
