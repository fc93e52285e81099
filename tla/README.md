# TLA+ verification of the TSN zonal backbone

This directory holds a TLA+ model of the norxs TSN zonal backbone (`include/norxs/tsn`,
`src`), the TLC configurations that check it and the TLAPS proofs about it.
`PROJECT.json` lists, machine-readably, the components, the runs, the source lines every
definition models, the hazards the properties are aimed at, the findings and the theorems.

## 1. The system

| part | state | operations | talks to |
|---|---|---|---|
| `TsnOrchestrator` | `state_`, `cfg_`, `initialised_`, the managers of the ports (`gcManagers_`, `gcmCount_`), watchdog and health check times, `activeFaultMask_`, the audit log | `Init` (8 phases), `Start`, `Stop`, `Tick`, `UpdatePortSchedule`, queries | calls every other part; called by one real-time thread |
| `GateControlManager` (one per port) | `scheduleActive_`, `activeSchedule_`, `lastNcResult_` | `ApplySchedule` (seven-stage pipeline, then the HAL), `DisableSchedule`, `VerifyHardwareSchedule` | `SwitchHal` plane 2 |
| `PtpClockManager` | lock state, last offset, time of the last Sync, holdover, elected grandmaster, servo integral | `Init`, `Tick`, `InjectSyncMessage` (driver ISR), `ForceGrandmasterRole`, queries | PHC registers through the HAL |
| `FrerManager` | stream table, per-stream sequence window, path health, latent error counters | `Init`, `Tick`, `RegisterStream`, `DeregisterStream`, `OnFrameReceived` | `SwitchHal` plane 4 |
| `SwitchHal` | pure virtual; the switch keeps an Admin and an Oper gate control list per port | `Init`, register access, `ApplyGclToPort`, `ReadOperGcl`, tables | hardware |
| `TsnTypes` | constants, enumerations, `Status`/`Result` | - | - |

What is hard here, and what would make each part correct:

* **Hardware that answers late or not at all.** `ApplyGclToPort` may fail, or time out with
  the swap still pending, so that the gates change after the call gave up. Whatever happens,
  the gates must only ever follow schedules that passed the pipeline, and the manager's
  record must agree with the gates it reports on.
* **Faults that arrive together or one Tick apart.** The degradation machine must act on all
  of them, never stay in `kRunning` with one, always have a cause for a degraded state, and
  the safe state must really have the safe schedule on the gates and not be left for good
  without a new `Init`.
* **A clock that cannot be read.** In free run, and when the bus fails, every time is 0. The
  convergence watchdog and the periodic integrity check must work all the same.
* **Long sequences of legal calls**: restarts, failed and repeated initialisation.
* **The arithmetic of the pipeline**: the network calculus bound has to bound the delay of a
  port that really follows the list, at the boundary values too.
* **An interrupt in the middle of a Tick.** The driver's ISR delivers Syncs while the clock
  manager's Tick reads the PHC, compares and assigns, over plain members and in unsigned
  arithmetic. Timeouts must be real, and a Tick that is overtaken must still amount to a
  whole Tick and a whole Sync.
* **Redundant paths** that lose frames and overtake each other. No frame may be forwarded
  twice or lost to the elimination, and no path or stream blamed without cause, while rows
  move in the table.
* **The audit log**: a ring whose newest entry has to explain the present state, for ever.

`PROJECT.json` "hazards" names the line at which each of these bites and the properties that
would show it going wrong.

## 2. The modules

```
GclPipeline -- GclService -- MCGclService          schedules and what they are worth
     |
     +-- GateControl -- MCGateControl              one manager with concrete schedules
             | implements
GatePort -- GatePortSpec                           one port over opaque schedules
     |
     +-- Orchestrator -- MCOrchestrator            the whole, with PtpControl and AuditLog
PtpControl -+
AuditLog ---+-- AuditTrail                         the ring beside its full history

PtpControl -- PtpControlSpec                       the clock as the orchestrator sees it
                     ^ implements
                 PtpClock -- MCPtpClock            with its times, its servo and the ISR
FrerControl                                        FRER as the orchestrator sees it
     ^ implements
FrerStream -- Frer -- MCFrer                       the stream table and sequence recovery

GclPipelineProofs  GateControlProofs  AuditTrailProofs  PtpClockProofs  FrerProofs
OrchestratorProofs -- OrchestratorModeProofs -- OrchestratorGateProofs
```

* **GclPipeline** translates `ValidateSchedule` stage by stage, with the error codes, the
  tables of bursts and deadlines, `RunNetworkCalculus`, and the copy of stages 1 to 4 and 6
  that `TsnOrchestrator::PrevalidateAllSchedules` makes. A gate mask is the set of open
  classes. `baseTime` is left out: no stage and no read-back looks at it.
* **GclService** drafts schedules row by row from small sets of boundary values and compares
  the pipeline's verdict with a reference: `ServiceDelay`, the time a burst needs at a server
  of 1 bit/ns whose gate follows the list cyclically.
* **GatePort** is one port, manager and banks in one record, and what each operation does to
  it; **GatePortSpec** makes a specification of it. **GateControl** is the manager with
  concrete schedules and the pipeline, refining GatePortSpec: the orchestrator may treat
  schedules as opaque, with a constant set `Valid`. The HAL part follows the contract in
  `SwitchHal.hpp`: `kHalShadowBufferBusy` while a swap is pending, and a poll that times out
  leaves the swap to come (`LateSwap`).
* **PtpControl** is the clock manager reduced to the state the orchestrator's decisions
  depend on. Offsets are near (below `kPtpSyncTargetNs`) or not, and every comparison of
  the PHC with a timeout may go either way. **PtpControlSpec** makes a specification of it.
* **PtpClock** is the clock manager itself, and implements PtpControlSpec. `Tick` is cut at
  the points where the ISR or the clock can matter: the read of the seconds
  (`TickReadsSeconds`), the read of the nanoseconds (`TickReadsNs`), the question for the
  holdover or the timeout (`TickFindsHoldover`, `TickFindsTimeout`), in holdover the store of
  `holdoverUsedNs_` (`TickStoresUsed`), its comparison with the budget (`TickFindsExpiry`,
  `TickWithinBudget`) and the comparison of the silence (`TickHoldsOver`), and the assignments
  (`TickExpires`, `TickEntersHoldover`, `TickRunsBmca`); `TickFails` is a register that cannot
  be accessed. `InjectSyncMessage` is the ISR, with `RunServo` and `ApplyPhcAdjustment`, and
  comes between any two steps: one that comes between the store of `holdoverUsedNs_` and the
  comparison zeroes it and cancels the expiry, if the compiler reads the member again.
  `expired` and `runsOut` foretell, in the step that finds a holdover, what these comparisons
  will find, so that a Sync in between can be ordered after the Tick; a behaviour in which the
  prophecy is wrong does not go on.
* **FrerStream** is one row of `FrerManager` and what each operation does to it; **Frer** is
  the table, with `Init`, `RegisterStream`, `DeregisterStream`, `OnFrameReceived`
  (`FrameForwarded`, `FrameDiscarded`) and `Tick`, in front of talkers whose frames come over
  several paths in order, with losses and bounded skew. The time given to `Tick` is any from 0
  to now (`Readings`): 0 stands for an unreadable PHC, an earlier one for a reading that was
  torn or overtaken by a frame. The variables `copies`, `lost`, `heard` and `blind` record what
  has happened, for the properties. **FrerControl** is what Orchestrator knows of it (its
  `frerCount`, and what its `FrerTick` may report); Frer implements it.
* **AuditLog** is the ring of `LogStateTransition`; **AuditTrail** keeps the history beside it.
* **Orchestrator** has one action per call of the public interface and way it may end. The
  phases of `Init` become `InitHalFails`, `InitTablesFail`, `InitPrevalidationFails`,
  `InitPtpFails` and `InitSucceeds`; `Tick` is split by how it ends: `TickSafeState`,
  `TickDegrade`, `TickEscalate`, `TickQuiet` (degradation machine) and `TickConverged`,
  `TickApplyFails`, `TickFrerFails`, `TickWaits`, `TickWatchdog` (convergence). An
  *observation* is what the monitors of one Tick find: the time, the clock manager's answer, a
  latent error, the read-backs, and the MACsec counters, where a counter that cannot be read is
  skipped. `TickWith` is a Tick with a given observation. The environment is `ReceiveSync`,
  `LateSwap`, `SoftError` and `MacsecFailure`.

Decisions a reader should know:

* In Orchestrator a call is one step: the header promises a single real-time thread. Syncs
  from the driver come between calls, and at most one inside a Tick that converges, before or
  after the question whether the clock is synchronised (`Interrupted`, `FoundInLock`,
  `FoundUnlocked`); other Ticks do not look at the clock again, so a Sync inside them is one
  after them. That a Sync inside the clock's Tick adds nothing the orchestrator could see is
  what `ImplementsPtpControl` says.
* In PtpClock the ISR runs to completion between two steps of the thread. `Init` and
  `ForceGrandmasterRole` come from the thread that calls `Tick`, so not inside one. The PHC
  runs steadily: what the adjustments do to the oscillator is physics, not modelled.
* A latent error once counted is reported by every later Tick of FrerManager. The
  orchestrator's fault mask keeps the bit anyway, so `FrerTick` reports what a Tick may find
  and keeps no count.
* In Frer every stream has the same paths and recovery timeout. Counters of a stream are kept
  as they are; the expected sequence number, the recovery state and the last path are left
  out: nothing reads them.
* A call that returns an error before it changes anything (`Start` before `Init`, `Tick` in
  `kFault`, `UpdatePortSchedule` outside `kRunning`, a configuration refused in phase 0) is a
  stutter.
* The PHC advances by one tick period per Tick: `healthAge` and `convergence` count ticks.
  `Unset` is the value 0 of `lastHealthCheckNs_` and `ptpConvergenceStartNs_`. The time read
  from an unreadable PHC is 0, and the unsigned difference wraps around: a check is due then.
  The drift correction written to `kPhcNsReg` in holdover is taken as the one-shot adjustment
  its comment describes; the PHC stays monotone.
* `SwitchHal::Init` resets the switch: gates, pending swaps and MACsec counters.
* `Disturbances` selects what may go wrong in a run; `InitFrom` and `StartFrom` say in which
  states the caller calls `Init` and `Start`, which the code does not restrict.
* Past `kMaxSwitchPorts` the loops over `gcManagers_` leave the array, which is undefined:
  run `table_bounds` shows that this is reached; nothing else is claimed of such behaviours,
  and no passing run reaches them.
* Definitions commented "Faulty variant" are used by nothing; each is a plausible
  mistake that some property has to reject.

## 3. The runs

Passing runs (`tlc -config X.cfg M`):

| run | instance | what it shows |
|---|---|---|
| `gcl_service` | 3 rows, 10 intervals around the guard band and the deadline, 4 gate masks, 2 cycle times | `SafetyDeadlineGuaranteed`: an accepted schedule serves a full TC7 burst, arriving at the worst moment, within the reported bound and 500 us. `PrevalidationIsWeaker`: `Init` turns no acceptable schedule away |
| `gate_control` | 5 candidates: 2 accepted, one refused by each of stages 5, 6, 7 | only accepted schedules run; the manager records a schedule only as it starts to run, with its own network calculus result; refinement of `GatePortSpec` |
| `audit_trail` | ring of 3, 7 entries, 3 kinds | the ring is the tail of the history |
| `ports` | 2 ports, failing and timed-out writes, soft errors, latent errors, MACsec failures and unreadable counters; a grandmaster with a valid safe schedule, a slave with an invalid one and a FRER stream | type, `OnlyValidSchedulesRun`, `OperationalPortsScheduled`, `DegradationHasCause`, `AuditNamesCause`, `RunningIsEarned`, `SafeStateNotRecovered`, `FaultsAreActedOn` |
| `safe_state` | 2 ports, 2 FRER streams in a table of 3, schedule writes work; failing table and servo writes, refused streams, an unreadable PHC, soft errors; the caller starts again out of the safe state; fairness of Tick | `SafeScheduleRuns`, `RunningCoversConfig`, `RunningHasClock`, `SafeStateNotRecovered`; `ConvergenceDecided`: convergence ends in `kRunning` or `kFault`; `DivergenceHandled`: gates that diverge are noticed |
| `restart` | 2 Init calls of 3 configurations, every phase failing, restart without Init, failing writes and read-backs, ring of 2 | across failed and repeated initialisation `OperationalPortsScheduled`, `HardwareFollowsManagers`, `AuditExplainsState`, `AuditChains` |
| `frer` | 2 streams in a table of 2, 6 frames over 2 paths, history of 2, skew of 2 frames, Ticks with any time up to now, repeated Init | `NoFrameTwice`, `SilentPathsAreQuiet`, `NoFalseAlarm`, `NoOrphanInHardware`, `StreamsIndependent`; refinement of `FrerControl` |
| `ptp_clock` | seconds of 3 ns, PHC up to 7, timeout 1, budget 3, offsets -4, 0, 4 with an i64 of -8 to 8 | `TimeoutsAreReal`, `ServoNeverOverflows`, `FrequencyWithinClamp`; refinement of `PtpControlSpec` |

Bounds. Two ports are enough for one port to fail while another works, in either order; the
operations on different ports share nothing else. `ConvergenceTicks` of 0 to 2 and
`HealthTicks` of 1 or 2 give a watchdog that has not been armed, runs and fires, and a check
that is due or not. Two Init calls give the interplay of one life with the next. A ring of 2
wraps in every interesting history. `MaxInits`, `MaxTrail`, `MaxFrames` and the two
`MaxTime` are the only bounds on a behaviour's length; all other counters are bounded by the
code. Six frames go beyond twice the history window, so the history is filled or reset by a
gap while the other path is still behind it; `MaxSkew` is the whole window and no more, since
a slower path could otherwise bring copies from before a reset, and sequence numbers stay
below their wrap for the same reason (`WithinWindow` in FrerProofs). A PHC of several seconds lets the seconds roll over inside a Tick and a holdover
begin, expire and begin again. Where the conditions of a
property do not hold in general the run's constants say so: `safe_state` has no failing
schedule writes (with them `SafeScheduleRuns` cannot hold, since the errors are ignored) and
one call of Init that does not fail half-way before a start (`RunningCoversConfig` does not
hold for a caller that starts after a failed second `Init`), and `restart` has neither timeouts
nor soft errors (after which gates and manager differ until the next health check). In a ring
of 2 `AuditChains` compares one pair of entries; the theorem `AuditTellsOneStory` has the pairs
of a ring of any size.

What the properties do not say: `NoFalseAlarm` says that no alarm is false, not that every
loss raises one (the history that never forgets counts nearly all later frames as duplicates,
so the code hardly ever alarms); `TimeoutsAreReal` leaves out torn readings and those a Sync
has overtaken, with which the code does err; `SilentPathsAreQuiet` leaves out, by name, the
paths marked by a Tick whose time lay before a frame already received.

Fairness. `FairSpec` assumes weak fairness of `Tick` alone: the caller's thread runs it every
`tickPeriodUs`, and `Tick` always returns. Nothing is assumed of Syncs, of swaps that are
late, or of the caller's other calls. `ConvergenceDecided` has the premise that the switch does
not refuse for ever a stream for which the table has room, and names the one case left in which
convergence does not end (a full table, in lock). `DivergenceHandled` has the premise that a
Tick which can read the PHC, if enabled for ever, is taken: the PHC may be unreadable at any
time, but not always. The code does not earn either property without its premise: the next
list says so.

Runs that are expected to be violated. Each states what a comment or document of the
repository says, and TLC's counterexample is a behaviour of the code:

| run | says | the code |
|---|---|---|
| `table_bounds` | storage "bounded at compile time", re-Init after a fault | `gcmCount_` is never reset; the second `Init` runs past the array |
| `no_safe_plan` | the safe schedule is pre-validated, applied unconditionally | it is never checked, and the pipeline's refusal is ignored |
| `frer_window` | a frame is discarded if it "is a duplicate" of a recently seen frame | bits of the history are never aged: after 32 residues every further frame is taken for a duplicate |
| `lost_gm` | the sync timeout is the "max interval without Sync before holdover" | only `kLocked` times out; a grandmaster lost while the clock is locking is never noticed |

Differences between code and documentation that were noticed while modelling and have no run
of their own:

* `TsnOrchestrator.hpp:93` says all scheduled ports get their list. `cfg_` is replaced before
  the phases of `Init` that may fail, and `initialised_` of an earlier `Init` stays: `Start`
  then runs the new configuration with the managers, and the tables, of the old one.
* `safety_case_summary.md:39` says the gates are verified every 8 ms, with `kFault` on a
  mismatch. The interval is measured on the PHC: while it cannot be read no check comes due. A
  mismatch leads to `kDegraded` and, one Tick later, to `kSafeState`, never to `kFault`.
* `TsnOrchestrator.hpp:165` says convergence leads to `kRunning` by itself, and line 171 that
  `Stop` deregisters streams. It does not, each `Start` registers them again, and once the
  table is full `InitFrerStreams` fails in every Tick, before the watchdog is reached:
  convergence then never ends. The same happens for as long as the switch refuses a stream.
* `FrerManager.hpp:94` gives the history bit as `(seqNum - lastSeqNum) & 0x1F`; the code uses
  `seqNum % 32`, whatever the last number was.
* `FrerManager.hpp:87` says any path without frames is declared failed; silence is measured
  from the last frame of any path, so one dead path is never marked while another delivers.
* `FrerManager.hpp:118` says `Tick` reports a latent error that fires this tick; at
  `FrerManager.cpp:113` the counter is read, which is never cleared, so the error is reported
  until the stream is gone. `FrerControl` leaves open which.
* `FrerManager.cpp:99-100` calls the last frame of a stream a conservative proxy for the
  silence of its paths. The time of the Tick may be 0, torn, or earlier than that frame: the
  unsigned difference wraps around, and all paths are marked silent that were just heard.
* At the 16-bit wrap of the sequence numbers the difference of `FrerManager.cpp:208` is large
  and negative: the history is reset and late copies of earlier frames are forwarded again.
* A handle registered twice gets a second row that no lookup reaches; deregistering it once
  takes it out of the switch while that row stays.
* The reading of the PHC may be torn, or be overtaken by a Sync: unsigned differences then
  wrap around, and one Tick may enter holdover or report its expiry without cause.
  `TimeoutsAreReal` excludes exactly these cases. One of them: a Sync between the store of
  `holdoverUsedNs_` and its comparison (`PtpClockManager.cpp:130-131`) cancels the expiry, and
  the silence computed next wraps around and reports it all the same, in `kLocking`.
* A second `Init` keeps `lastSyncNs_`: a node that then elects itself grandmaster goes to
  holdover with its next Tick.
* `ApplyHoldoverDrift` writes its correction to the register that is read as the nanoseconds
  of the time.
* `TsnOrchestrator.hpp:152` says a failed `Init` leaves no partial state in hardware; the
  VLAN and stream filter tables are written before pre-validation (phase 5) can fail.
* `safety_case_summary.md:93` says the safe state is not recoverable without `Init` and
  `Start`. `Start` alone is accepted in the safe state (`TsnOrchestrator.cpp:212-219` asks for
  `initialised_` only), and so is `Stop` and then `Start`: convergence follows, and the
  Tick that ends it puts the full schedules back on the gates. `activeFaultMask_` keeps the
  fault, so the next Tick goes back to the safe state: traffic runs for one tick period.
  Since `Init` does not clear the mask either, the documented way out leads back too: no
  sequence of calls recovers. `SafeStateNotRecovered` states what does hold.
* The safety case also has the safe schedule on all ports atomically. An update that timed
  out before the safe state was entered still swaps in after it: the shadow bank was busy when
  the safe schedule was to be written, and that error is dropped. `SafeStateNotRecovered` admits
  this one change of the gates.
* `TsnOrchestrator.hpp:75` says an audit entry carries the time of its event; it is 0 when
  the PHC cannot be read. The model leaves the time of an entry out: nothing reads it.
* `TsnOrchestrator.hpp:78` says the trigger is the code that caused the transition; an
  integrity fault alone is logged as `kMacsecReplayAttack` (`TsnOrchestrator.cpp:390-392`).
  `AuditNamesCause` holds for all other degraded states and excludes this one.
* `TsnOrchestrator.cpp:405` says a persistent integrity fault escalates; the bit is never
  cleared, so one failed read-back is enough.
* `TsnOrchestrator.hpp:106` says holdover expiry leads to `kFault`; it leads to `kSafeState`.
* `GateControlManager.hpp:163` says the delay of each class is bounded; a class whose gate
  never opens is given a finite bound too. Acceptance depends on TC7 only, for which the bound
  holds.
* `GateControlManager.hpp:117` says `GetNetworkCalculusResult` returns the result of the last
  `ApplySchedule`; it is that of the last call that reached stage 7.
* The state machine in `TsnOrchestrator.hpp` has a recovery from `kDegraded` to `kRunning`;
  the code has no such transition.

## 4. The proofs

`tlapm` checks all of them, for every value of the constants that satisfies the named
assumptions (sizes are naturals, the special schedules differ from the ordinary ones,
`Valid` is a subset of `Prevalid`).

* **OrchestratorProofs** - `TypeCorrect` and `GatesFollowValidSchedules`. The inductive
  invariant is `IInv == TypeOK /\ Sound(ports)`: both banks, also what is only pending, hold
  valid schedules. Without the pending bank the property is not inductive, as a late swap
  would bring anything in. One lemma per port operation, per loop and per group of actions.
* **OrchestratorModeProofs** - on top of `IInv`: `PortsScheduledWhileOperational` (assuming
  the caller does not call `Init` in an operational state, which would put idle managers
  there), `ModeHasCause` (the mask only grows), `NoFaultIgnored`, `RunningEarned`
  (a Sync inside the Tick does not undo the lock, `SyncKeepsLock`),
  `AuditExplains` (only Tick enters those states, and it logs in the same step), `AuditNames`
  (a degraded state survives a Tick only without an integrity fault, so the excluded case stays
  the first Tick of a degradation) and `ClockWhileRunning` (free run is entered only by a Tick that reports the expiry), and
  `AuditTellsOneStory`: `AuditChains` is inductive only together with `AuditExplainsState`,
  which ties the new entry's `from` to the `to` of the one before; every older entry moves
  back by one place, which is arithmetic modulo the ring (`LogAges`).
* **OrchestratorGateProofs** - what the gates do in each mode, each theorem with the
  hypotheses without which the code does not have the property:
  - `SafeStateKept`: while the safe state lasts no manager gets a new schedule and gates
    change only by an outstanding swap or a soft error, if `Init` is not called there (it
    accepts any state); and a fault that asked for the safe state is never lost from the mask,
    so that the first Tick that finds traffic scheduled again goes back.
  - `GatesMatchManagers`: in operation the Oper bank holds what the manager reports, whichever
    writes fail, without soft errors (`NoSoftErrors`) and timed-out polls (`NoTimeouts`) and
    without an `Init` during operation. It needs that no swap is ever outstanding (`NoPending`).
  - `SafeScheduleInForce`: the safe schedule runs in the safe state until a soft error hits
    it, if no poll times out, no write fails and every configuration has a safe schedule the pipeline accepts (`SafePlans`): `Init`
    does not ask for one, and the run `no_safe_plan` shows the consequence. It needs that an
    initialised stack has a configuration a caller passed (`HasConfig`).
  - `ConfigurationInForce`: a running stack runs its whole configuration, if `Init` and `Start`
    are called in the documented order (`CallsInOrder`). The invariant `InForce` extends the
    claim back to the success of `Init`.
* **GateControlProofs** - `ManagerTypes`, `PipelineGuardsGates`, `ManagerMatchesHardware` and
  `GateControlRefinesPort`, step by step.
* **PtpClockProofs** - `TimeoutsReal`, `ClockRefinesControl`, `ServoInRange`,
  `FrequencyClamped` and `ClockTypeCorrect`, for every length of a second, timeout, budget,
  gain and clamp; the offsets are assumed to leave room for the clamped integral in an i64,
  the PHC to stay below the wrap of a u64. The inductive invariant `ClockInv` adds to the
  types that every stored time lies in the past, torn readings included (`TimesArePast`;
  a torn reading is early, never late), that the integral is clamped (`ServoInv`), and that
  what one step of Tick has found still holds in the step that acts on it, whatever Syncs came
  between (`FindingsHold`): without it neither the timeouts nor the refinement follow.
  The steps include the store of `holdoverUsedNs_` and its comparison, and the Sync between.
  `ClockRefinesControl` maps each step to a whole Tick, a whole Sync, a call or a stutter.
* **FrerProofs** - `FrerTypeCorrect` and `SwitchKnowsOnlyRegistered` (together inductive:
  the compaction keeps a row of every handle that the switch still has), `FrerRefinesControl`,
  and `FramesForwardedOnce`: `NoFrameTwice` for every number of streams, paths, rows and
  frames, assuming `WithinWindow`: no path is ahead of another by more than the history, and
  no talker reaches the wrap of its sequence numbers. Without either the code forwards a frame
  twice. The invariant `Eliminates` says of the row a lookup finds (`RowOK`) that each
  forwarded frame is either in the history or behind every path, that none is more than the
  skew ahead of the last accepted number, and that this number belongs to a forwarded frame.
  The last two make a reset safe: it needs a jump of twice the window, and then every path is
  past all that the history forgets. That the row found stays the same one through
  registrations and compactions is proved once (`CarryOver`).
  Three more theorems use the same lemmas about rows:
  - `SilenceIsReal`, for every time a Tick may be given. The row keeps one time for all its paths, so the invariant (`Quiet`) says
    that no path was heard after it. A second registration of a handle leaves a row no lookup
    finds; `HiddenRowsNew` says that it is still as it was made when a deregistration
    uncovers it.
  - `StreamsKeptApart`, an action property: the compaction moves rows, so `View` and the
    number of rows of the other streams are compared along the bijection it performs.
  - `NoAlarmWithoutLoss`, assuming two paths (`TwoPaths`), `WithinWindow` and a skew that the
    threshold tolerates (`SkewTolerated`; with the code's 10000 frames and 5 per cent, up to
    4500 frames, where the history allows 32). The invariant (`Counted`, on top of the one of
    elimination) says that accepted and discarded frames add up to what both paths brought,
    and that the accepted ones are the frames that were forwarded. Where the two paths overlap
    each frame was counted once on either side, so duplicates can fall short by the skew at
    both ends and no more.
* **AuditTrailProofs** - `RingInBounds`, `HeadCountsEntries` and `RingKeepsLatest`, for every
  ring size. The content of the ring is inductive only together with the position of the
  head; the arithmetic modulo the size rests on uniqueness of the remainder, proved first.
* **GclPipelineProofs** - for lists of any length: `PrevalidationComplete` and, as an
  invariant of the drafts, `DraftsPrevalidated`; `AcceptedMeetsSafetyContract`; and
  `SafetyDeadlineHolds`, the ASIL-D guarantee: a full TC7 burst is out within the reported
  worst-case delay, and that within 500 us. The argument (`BurstServed`): by stages 5 and 6
  there is a row open to TC7 alone that takes the whole burst, and it comes around within one
  cycle; until the burst is out it waits only for rows closed to TC7, each once, which is part
  of the blocking time that stage 7 adds to the burst. This needs `IntervalSum` to be additive.
  The sum is a fold over sets with a choice of the next row, so the module first proves
  induction over the subsets of a finite set from the well-foundedness of the naturals (in a
  form that ranges over sets, which the provers can instantiate, unlike the library's rules
  with an operator), that the fold exists, that folds over different sets agree, and that
  their value does not depend on the order of the rows. The constants of GclService are
  assumed to be naturals and sets of traffic classes (`DraftAssumption`). That the start of a
  row is the worst moment for a burst to arrive is argued in GclService, not proved: the
  reference `ServiceDelay` has bursts arrive at the start of a row only.

Only model-checked: the two liveness properties, `ConvergenceDecided` and `DivergenceHandled`,
as fairness and `ENABLED` are out of the prover's reach. Every invariant, action property and
refinement of a passing run is also a theorem.

## 5. Not modelled, and the plan

Every component with state of its own is modelled. Next:

1. **Weaker hypotheses**: `GatesMatchManagers` with timed-out polls allowed, for the ports at
   which none has timed out; `NoAlarmWithoutLoss` for more than two paths.
2. **What refuses**: for the findings of section 3, theorems that say under which hypothesis
   the documented behaviour does hold, as `WithinWindow` does for frame elimination.

Left out for good: the example gateway (straight-line calls), the tests and the mock HAL, the
const queries (among them `GetHoldoverRemainingNs` and the identity of the grandmaster), and
MACsec configuration (`InitMacsec` is an empty hook). `SwitchHal` is an interface without
code: what is modelled of it is its contract, in the modules of the managers that call it.
