------------------------- MODULE GateControlProofs -------------------------
(***************************************************************************)
(* GateControlManager for every set of candidate schedules: it implements  *)
(* the opaque port the orchestrator is modelled over, and nothing but      *)
(* accepted schedules gets to the gates.                                   *)
(***************************************************************************)
EXTENDS GateControl, TLAPS

-----------------------------------------------------------------------------
(* Types.                                                                  *)

\* ApplySchedule and DisableSchedule leave the manager with a schedule it was
\* given, and both register banks with one that was written to them.
THEOREM ManagerTypes == Spec => []TypeOK
<1>1. Init => TypeOK
  BY DEF Init, TypeOK
<1>2. TypeOK /\ [Next]_vars => TypeOK'
  <2> SUFFICES ASSUME TypeOK, [Next]_vars
               PROVE  TypeOK'
    OBVIOUS
  <2> USE DEF hardware, manager
  <2>1. ASSUME NEW p \in Candidates, ApplySchedule(p)
        PROVE  TypeOK'
    <3>1. scheduleActive' \in BOOLEAN
      BY <2>1, Zenon DEF TypeOK, ApplySchedule, ApplyRejected, ApplyCommitted, ApplyRefused
    <3>2. activeSchedule' \in Candidates \cup {NoSchedule}
      BY <2>1 DEF TypeOK, ApplySchedule, ApplyRejected, ApplyCommitted, ApplyRefused
    <3>3. /\ oper' \in Candidates \cup {PassThroughSchedule, Boot, Corrupt}
          /\ pending' \in Candidates \cup {PassThroughSchedule, NoSchedule}
      BY <2>1 DEF TypeOK, ApplySchedule, ApplyRejected, ApplyCommitted, ApplyRefused,
                  HalCommits, HalRefuses, HalBusy, HalWriteFails, HalTimesOut
    <3>4. QED
      BY <3>1, <3>2, <3>3 DEF TypeOK
  <2>2. CASE DisableSchedule
    <3>1. scheduleActive' \in BOOLEAN
      BY <2>2, Zenon DEF TypeOK, DisableSchedule
    <3>2. activeSchedule' \in Candidates \cup {NoSchedule}
      BY <2>2 DEF TypeOK, DisableSchedule
    <3>3. /\ oper' \in Candidates \cup {PassThroughSchedule, Boot, Corrupt}
          /\ pending' \in Candidates \cup {PassThroughSchedule, NoSchedule}
      BY <2>2 DEF TypeOK, DisableSchedule, HalCommits, HalRefuses, HalBusy,
                  HalWriteFails, HalTimesOut
    <3>4. QED
      BY <3>1, <3>2, <3>3 DEF TypeOK
  <2>3. CASE LateSwap
    BY <2>3 DEF TypeOK, LateSwap
  <2>4. CASE SoftError
    BY <2>4 DEF TypeOK, SoftError
  <2>5. CASE UNCHANGED vars
    BY <2>5 DEF TypeOK, vars
  <2>6. QED
    BY <2>1, <2>2, <2>3, <2>4, <2>5 DEF Next
<1>3. QED
  BY <1>1, <1>2, PTL DEF Spec

-----------------------------------------------------------------------------
(* The pipeline guards the gates.                                          *)

\* No call sequence and no HAL failure gets a schedule running, now or after a
\* late swap, that ValidateSchedule did not accept.
THEOREM PipelineGuardsGates == Spec => []OnlyAcceptedSchedulesRun
<1>1. Init => OnlyAcceptedSchedulesRun
  BY DEF Init, OnlyAcceptedSchedulesRun
<1>2. OnlyAcceptedSchedulesRun /\ [Next]_vars => OnlyAcceptedSchedulesRun'
  <2> SUFFICES ASSUME OnlyAcceptedSchedulesRun, [Next]_vars
               PROVE  OnlyAcceptedSchedulesRun'
    OBVIOUS
  <2> USE DEF OnlyAcceptedSchedulesRun, hardware
  <2>1. ASSUME NEW p \in Candidates, ApplySchedule(p)
        PROVE  OnlyAcceptedSchedulesRun'
    <3>1. CASE ApplyRejected(p)
      BY <3>1 DEF ApplyRejected, AcceptedCandidates
    <3>2. CASE ApplyCommitted(p)
      BY <3>2 DEF ApplyCommitted, HalCommits, AcceptedCandidates
    <3>3. CASE ApplyRefused(p)
      BY <3>3 DEF ApplyRefused, HalRefuses, HalBusy, HalWriteFails, HalTimesOut,
                  AcceptedCandidates
    <3>4. QED
      BY <2>1, <3>1, <3>2, <3>3 DEF ApplySchedule
  <2>2. CASE DisableSchedule
    BY <2>2 DEF DisableSchedule, HalCommits, HalRefuses, HalBusy, HalWriteFails,
                HalTimesOut, AcceptedCandidates
  <2>3. CASE LateSwap
    BY <2>3 DEF LateSwap, AcceptedCandidates
  <2>4. CASE SoftError
    BY <2>4 DEF SoftError, AcceptedCandidates
  <2>5. CASE UNCHANGED vars
    BY <2>5 DEF vars, AcceptedCandidates
  <2>6. QED
    BY <2>1, <2>2, <2>3, <2>4, <2>5 DEF Next
<1>3. QED
  BY <1>1, <1>2, PTL DEF Spec

\* An ApplySchedule that succeeds is the only step that changes the manager's
\* schedule; it leaves that schedule in the Oper bank and its network calculus
\* result in the manager.
THEOREM ManagerMatchesHardware == Spec => ManagerFollowsHardware
<1>1. ASSUME [Next]_vars, activeSchedule' # activeSchedule
      PROVE  /\ oper' = activeSchedule'
             /\ lastNcResult' = NetworkCalculusResult(activeSchedule')
  <2>1. PICK p \in Candidates : ApplySchedule(p)
    BY <1>1 DEF Next, DisableSchedule, LateSwap, SoftError, manager, vars
  <2>2. ApplyCommitted(p)
    BY <1>1, <2>1 DEF ApplySchedule, ApplyRejected, ApplyRefused, manager
  <2>3. FirstSixStages(p) = "kOk"
    BY <2>2 DEF ApplyCommitted, ValidateSchedule
  <2>4. lastNcResult' = NetworkCalculusResult(p)
    BY <2>1, <2>3 DEF ApplySchedule, RecordNetworkCalculus
  <2>5. QED
    BY <2>2, <2>4 DEF ApplyCommitted, HalCommits
<1>2. QED
  BY <1>1, PTL DEF Spec, ManagerFollowsHardware

-----------------------------------------------------------------------------
(* Refinement.                                                             *)

\* Every step of the manager is a step of the opaque port, or none.
LEMMA StepRefines ==
  [Next]_vars => [Abstract!Next]_[active |-> scheduleActive, sched |-> activeSchedule,
                                  oper |-> oper, pending |-> pending]
<1> SUFFICES ASSUME [Next]_vars
             PROVE  [Abstract!Next]_[active |-> scheduleActive,
                                     sched |-> activeSchedule,
                                     oper |-> oper, pending |-> pending]
  OBVIOUS
<1> DEFINE pt == [active |-> scheduleActive, sched |-> activeSchedule,
                  oper |-> oper, pending |-> pending]
<1> USE DEF hardware, manager, Abstract!Committed, Abstract!ApplyGclToPort
<1>1. ASSUME NEW p \in Candidates, ApplySchedule(p)
      PROVE  Abstract!Next \/ pt' = pt
  <2>1. CASE ApplyRejected(p)
    BY <2>1 DEF ApplyRejected
  <2>2. CASE ApplyCommitted(p)
    <3>1. p \in AcceptedCandidates
      BY <2>2 DEF ApplyCommitted, AcceptedCandidates
    <3>2. pt' = Abstract!ApplySchedule(pt, p, "ok")
      BY <2>2, <3>1 DEF ApplyCommitted, HalCommits, Abstract!ApplySchedule
    <3>3. Abstract!Apply(p)
      BY <3>2 DEF Abstract!Apply, Abstract!HalOutcome
    <3>4. QED
      BY <3>3 DEF Abstract!Next
  <2>3. CASE ApplyRefused(p)
    <3>1. p \in AcceptedCandidates
      BY <2>3 DEF ApplyRefused, AcceptedCandidates
    <3>2. CASE HalTimesOut(p)
      <4>1. pt' = Abstract!ApplySchedule(pt, p, "timeout")
        BY <2>3, <3>1, <3>2 DEF ApplyRefused, HalTimesOut, Abstract!ApplySchedule
      <4>2. Abstract!Apply(p)
        BY <4>1 DEF Abstract!Apply, Abstract!HalOutcome
      <4>3. QED
        BY <4>2 DEF Abstract!Next
    <3>3. CASE HalBusy \/ HalWriteFails
      BY <2>3, <3>3 DEF ApplyRefused, HalBusy, HalWriteFails
    <3>4. QED
      BY <2>3, <3>2, <3>3 DEF ApplyRefused, HalRefuses
  <2>4. QED
    BY <1>1, <2>1, <2>2, <2>3 DEF ApplySchedule
<1>2. ASSUME DisableSchedule
      PROVE  Abstract!Next \/ pt' = pt
  <2>1. CASE HalCommits(PassThroughSchedule) /\ scheduleActive' = FALSE
    <3>1. pt' = Abstract!DisableSchedule(pt, "ok")
      BY <1>2, <2>1 DEF DisableSchedule, HalCommits, Abstract!DisableSchedule
    <3>2. Abstract!Disable
      BY <3>1 DEF Abstract!Disable, Abstract!HalOutcome
    <3>3. QED
      BY <3>2 DEF Abstract!Next
  <2>2. CASE HalTimesOut(PassThroughSchedule) /\ UNCHANGED scheduleActive
    <3>1. pt' = Abstract!DisableSchedule(pt, "timeout")
      BY <1>2, <2>2 DEF DisableSchedule, HalTimesOut, Abstract!DisableSchedule
    <3>2. Abstract!Disable
      BY <3>1 DEF Abstract!Disable, Abstract!HalOutcome
    <3>3. QED
      BY <3>2 DEF Abstract!Next
  <2>3. CASE (HalBusy \/ HalWriteFails) /\ UNCHANGED scheduleActive
    BY <1>2, <2>3 DEF DisableSchedule, HalBusy, HalWriteFails
  <2>4. QED
    BY <1>2, <2>1, <2>2, <2>3 DEF DisableSchedule, HalRefuses
<1>3. CASE LateSwap
  <2>1. pt.pending # NoSchedule
    BY <1>3 DEF LateSwap
  <2>2. pt' = Abstract!SwapPending(pt)
    <3>1. pt' = [active |-> scheduleActive, sched |-> activeSchedule,
                 oper |-> pending, pending |-> NoSchedule]
      BY <1>3 DEF LateSwap
    <3>2. Abstract!SwapPending(pt)
            = [active |-> scheduleActive, sched |-> activeSchedule,
               oper |-> pending, pending |-> NoSchedule]
      <4>1. pt = [active |-> scheduleActive, sched |-> activeSchedule,
                  oper |-> oper, pending |-> pending]
        OBVIOUS
      <4>2. pt.pending = pending
        OBVIOUS
      <4> HIDE DEF pt
      <4>3. Abstract!SwapPending(pt)
              = [pt EXCEPT !.oper = pending, !.pending = NoSchedule]
        BY <4>2 DEF Abstract!SwapPending
      <4>4. QED
        BY <4>1, <4>3
    <3>3. QED
      BY <3>1, <3>2
  <2>3. Abstract!LateSwap
    BY <2>1, <2>2 DEF Abstract!LateSwap
  <2>4. QED
    BY <2>3 DEF Abstract!Next
<1>4. CASE SoftError
  <2>1. Abstract!SoftError
    BY <1>4 DEF SoftError, Abstract!SoftError
  <2>2. QED
    BY <2>1 DEF Abstract!Next
<1>5. CASE UNCHANGED vars
  BY <1>5 DEF vars
<1>6. QED
  BY <1>1, <1>2, <1>3, <1>4, <1>5 DEF Next

\* GateControlManager with its seven-stage pipeline implements the opaque port
\* of GatePortSpec, on which the model of the orchestrator is built.
THEOREM GateControlRefinesPort == Spec => ImplementsGatePort
<1>1. Init => Abstract!Init
  BY DEF Init, Abstract!Init
<1>2. QED
  BY <1>1, StepRefines, PTL DEF Spec, ImplementsGatePort, Abstract!Spec

=============================================================================
