---------------------------- MODULE GateControl ----------------------------
(***************************************************************************)
(* GateControlManager on one port, with the schedules it really judges: a  *)
(* candidate is a record of GclPipeline and goes through the pipeline of   *)
(* that module before the HAL is called.                                   *)
(***************************************************************************)
EXTENDS GclPipeline

CONSTANTS
  Candidates,    \* the schedules the caller hands over
  Boot, Corrupt, NoSchedule, NoResult

VARIABLES
  scheduleActive, activeSchedule,
  lastNcResult,          \* NoResult while ncResultValid_ is false
  oper, pending          \* the hardware's banks

vars == <<scheduleActive, activeSchedule, lastNcResult, oper, pending>>
hardware == <<oper, pending>>
manager == <<scheduleActive, activeSchedule>>

Init ==
  /\ scheduleActive = FALSE
  /\ activeSchedule = NoSchedule
  /\ lastNcResult = NoResult
  /\ oper = Boot
  /\ pending = NoSchedule

-----------------------------------------------------------------------------
(* The four outcomes of the HAL's ApplyGclToPort.                          *)

HalCommits(s) == pending = NoSchedule /\ oper' = s /\ UNCHANGED pending
HalBusy == pending # NoSchedule /\ UNCHANGED hardware
HalWriteFails == pending = NoSchedule /\ UNCHANGED hardware
HalTimesOut(s) == pending = NoSchedule /\ pending' = s /\ UNCHANGED oper

HalRefuses(s) == HalBusy \/ HalWriteFails \/ HalTimesOut(s)

-----------------------------------------------------------------------------

\* Stage 7 stores its result before it judges it; the earlier stages do not.
RecordNetworkCalculus(p) ==
  lastNcResult' = IF FirstSixStages(p) = "kOk"
                  THEN NetworkCalculusResult(p) ELSE lastNcResult

ApplyRejected(p) ==
  /\ ValidateSchedule(p) # "kOk"
  /\ UNCHANGED <<manager, hardware>>

\* Faulty variant: the HAL is called whatever the pipeline says.
CommittedUnvalidated(p) ==
  /\ HalCommits(p)
  /\ activeSchedule' = p
  /\ scheduleActive' = TRUE

ApplyCommitted(p) ==
  /\ ValidateSchedule(p) = "kOk"
  /\ HalCommits(p)
  /\ activeSchedule' = p
  /\ scheduleActive' = TRUE

\* Faulty variant: the schedule is recorded although the HAL refused it.
RefusedButRecorded(p) ==
  /\ ValidateSchedule(p) = "kOk"
  /\ HalRefuses(p)
  /\ activeSchedule' = p
  /\ UNCHANGED scheduleActive

ApplyRefused(p) ==
  /\ ValidateSchedule(p) = "kOk"
  /\ HalRefuses(p)
  /\ UNCHANGED manager

ApplySchedule(p) ==
  /\ RecordNetworkCalculus(p)
  /\ ApplyRejected(p) \/ ApplyCommitted(p) \/ ApplyRefused(p)

\* Faulty variants: pass-through becomes the active schedule; the manager
\* counts as disabled although the HAL refused.
DisableRecords ==
  /\ \/ HalCommits(PassThroughSchedule) /\ scheduleActive' = FALSE
     \/ HalRefuses(PassThroughSchedule) /\ UNCHANGED scheduleActive
  /\ activeSchedule' = PassThroughSchedule
  /\ UNCHANGED lastNcResult

DisableAnyway ==
  /\ HalCommits(PassThroughSchedule) \/ HalRefuses(PassThroughSchedule)
  /\ scheduleActive' = FALSE
  /\ UNCHANGED <<activeSchedule, lastNcResult>>

DisableSchedule ==
  /\ \/ HalCommits(PassThroughSchedule) /\ scheduleActive' = FALSE
     \/ HalRefuses(PassThroughSchedule) /\ UNCHANGED scheduleActive
  /\ UNCHANGED <<activeSchedule, lastNcResult>>

\* The swap of a timed-out call, and a soft error in the Oper bank.
LateSwap ==
  /\ pending # NoSchedule
  /\ oper' = pending
  /\ pending' = NoSchedule
  /\ UNCHANGED <<manager, lastNcResult>>

SoftError ==
  /\ oper' = Corrupt
  /\ UNCHANGED <<pending, manager, lastNcResult>>

Next ==
  \/ \E p \in Candidates : ApplySchedule(p)
  \/ DisableSchedule
  \/ LateSwap
  \/ SoftError

Spec == Init /\ [][Next]_vars

-----------------------------------------------------------------------------
(* Properties                                                              *)

AcceptedCandidates == {p \in Candidates : ValidateSchedule(p) = "kOk"}

\* The manager's schedule is one a caller applied, never pass-through.
TypeOK ==
  /\ scheduleActive \in BOOLEAN
  /\ activeSchedule \in Candidates \cup {NoSchedule}
  /\ oper \in Candidates \cup {PassThroughSchedule, Boot, Corrupt}
  /\ pending \in Candidates \cup {PassThroughSchedule, NoSchedule}

\* What the gates follow, now or after a swap that is still to come, is a
\* schedule the whole pipeline accepted, pass-through, the reset state or a
\* soft error: no call sequence and no HAL failure gets another one running.
OnlyAcceptedSchedulesRun ==
  /\ oper \in AcceptedCandidates \cup {PassThroughSchedule, Boot, Corrupt}
  /\ pending \in AcceptedCandidates \cup {PassThroughSchedule, NoSchedule}

\* A step changes the manager's active schedule only together with the Oper
\* bank and the network calculus result: what GetActiveSchedule reports was
\* running, and GetNetworkCalculusResult was its result, when it was recorded.
ManagerFollowsHardware ==
  [][activeSchedule' # activeSchedule =>
       /\ oper' = activeSchedule'
       /\ lastNcResult' = NetworkCalculusResult(activeSchedule')]_vars

\* The opaque port of GatePortSpec, with the pipeline deciding what is valid.
Abstract == INSTANCE GatePortSpec WITH
  Schedules <- Candidates,
  Valid <- AcceptedCandidates,
  PassThrough <- PassThroughSchedule,
  port <- [active |-> scheduleActive, sched |-> activeSchedule,
           oper |-> oper, pending |-> pending]

\* GateControlManager implements the opaque port: nothing the orchestrator
\* relies on depends on which stage refused a schedule.
ImplementsGatePort == Abstract!Spec

=============================================================================
