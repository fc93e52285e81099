---------------------------- MODULE GclPipeline ----------------------------
(***************************************************************************)
(* The schedule validation pipeline of GateControlManager: the seven       *)
(* stages ApplySchedule runs before any hardware is touched, the network   *)
(* calculus of stage 7, and the reduced check TsnOrchestrator::Init makes  *)
(* of every configured schedule.  Times are nanoseconds at 1 Gbit/s, so    *)
(* one byte takes 8 ns.                                                    *)
(*                                                                         *)
(* A schedule is a record with cycleTimeNs, maxSafetyFrameSizeBytes and    *)
(* gcl, the first entryCount rows of the gate control list: each row has   *)
(* its intervalNs and its gateStates, the set of traffic classes whose     *)
(* gate is open.  No stage and no read-back compares baseTime: it is left  *)
(* out.                                                                    *)
(***************************************************************************)
EXTENDS Integers, Sequences, FiniteSetsExt

CONSTANT kMaxGclEntries   \* rows of the hardware's gate control list (256)

ASSUME GclEntriesAssumption == kMaxGclEntries \in Nat \ {0}

TrafficClass == 0 .. 7
kSafetyCritical == 7

kAllQueuesOpen  == TrafficClass
kSafetyOnlyOpen == {kSafetyCritical}

kMinCycleTimeNs    == 100000
kMaxCycleTimeNs    == 1000000000
kMaxFrameSizeBytes == 1538
kSafetyDeadlineNs  == 500000

\* Traffic envelopes and deadlines per class, TC0 first.
kDefaultBurstBytes ==
  [tc \in TrafficClass |->
     <<9000, 4500, 2048, 1538, 8192, 1538, 512, 1538>>[tc + 1]]
kDefaultDeadlineNs ==
  [tc \in TrafficClass |->
     <<50000000, 50000000, 10000000, 5000000,
       10000000, 2000000, 500000, 500000>>[tc + 1]]

GclEntry == [gateStates : SUBSET TrafficClass, intervalNs : Nat]
ScheduleParams == [cycleTimeNs : Nat, maxSafetyFrameSizeBytes : Nat,
                   gcl : Seq(GclEntry)]

FrameTransmissionNs(bytes) == bytes * 8

Entries(p) == DOMAIN p.gcl

\* Nanoseconds of the rows in S.
IntervalSum(p, S) == MapThenSumSet(LAMBDA i : p.gcl[i].intervalNs, S)

SafetyWindows(p) == {i \in Entries(p) : p.gcl[i].gateStates = kSafetyOnlyOpen}

-----------------------------------------------------------------------------
(* Stages 1 to 6.  Each gives kOk or the error that ends the pipeline.     *)

CheckEntryCount(p) ==
  IF Len(p.gcl) = 0 THEN "kGclEmpty"
  ELSE IF Len(p.gcl) > kMaxGclEntries THEN "kGclTooManyEntries"
  ELSE "kOk"

CheckCycleTime(p) ==
  IF p.cycleTimeNs < kMinCycleTimeNs THEN "kCycleTimeTooShort"
  ELSE IF p.cycleTimeNs > kMaxCycleTimeNs THEN "kCycleTimeTooLong"
  ELSE "kOk"

CheckNoZeroIntervals(p) ==
  IF \E i \in Entries(p) : p.gcl[i].intervalNs = 0
  THEN "kZeroIntervalEntry" ELSE "kOk"

CheckIntervalSum(p) ==
  IF IntervalSum(p, Entries(p)) # p.cycleTimeNs
  THEN "kIntervalSumMismatch" ELSE "kOk"

\* Every exclusive window fits the largest safety frame and a full frame.
MinWindowNs(p) == FrameTransmissionNs(p.maxSafetyFrameSizeBytes)
                    + FrameTransmissionNs(kMaxFrameSizeBytes)

CheckGuardBand(p) ==
  IF \E i \in SafetyWindows(p) : p.gcl[i].intervalNs < MinWindowNs(p)
  THEN "kGuardBandViolation" ELSE "kOk"

CheckSafetyCriticalWindow(p) ==
  IF SafetyWindows(p) = {} THEN "kSafetyCriticalWindowAbsent" ELSE "kOk"

-----------------------------------------------------------------------------
(* Stage 7: the latency-rate bound per traffic class.                      *)

\* Faulty variant: the longest closed row instead of all of them.
LongestClosedRowNs(p, tc) ==
  Max({0} \cup {p.gcl[i].intervalNs :
                  i \in {j \in Entries(p) : tc \notin p.gcl[j].gateStates}})

\* Nanoseconds per cycle during which the gate of tc is closed.
ComputeBlockingTimeNs(p, tc) ==
  IntervalSum(p, {i \in Entries(p) : tc \notin p.gcl[i].gateStates})

BurstNs(tc) == FrameTransmissionNs(kDefaultBurstBytes[tc])

WorstCaseDelayNs(p, tc) ==
  ComputeBlockingTimeNs(p, tc)
    + BurstNs(tc) + MapThenSumSet(BurstNs, (tc + 1) .. kSafetyCritical)

\* The NetworkCalculusResult RunNetworkCalculus leaves in lastNcResult_, with
\* the fields that depend on the schedule.
NetworkCalculusResult(p) ==
  [worstCaseDelayNs |-> [tc \in TrafficClass |-> WorstCaseDelayNs(p, tc)],
   deadlineMet |-> [tc \in TrafficClass |->
                      WorstCaseDelayNs(p, tc) <= kDefaultDeadlineNs[tc]],
   scheduleUtilisationPercent |->
     (MapThenSumSet(BurstNs, TrafficClass) * 100) \div p.cycleTimeNs]

\* Only the safety class gates the schedule.
RunNetworkCalculus(p) ==
  IF ~NetworkCalculusResult(p).deadlineMet[kSafetyCritical]
  THEN "kDeadlineViolation" ELSE "kOk"

-----------------------------------------------------------------------------

\* The first six stages, in the order ValidateSchedule runs them.
FirstSixStages(p) ==
  IF CheckEntryCount(p) # "kOk" THEN CheckEntryCount(p)
  ELSE IF CheckCycleTime(p) # "kOk" THEN CheckCycleTime(p)
  ELSE IF CheckNoZeroIntervals(p) # "kOk" THEN CheckNoZeroIntervals(p)
  ELSE IF CheckIntervalSum(p) # "kOk" THEN CheckIntervalSum(p)
  ELSE IF CheckGuardBand(p) # "kOk" THEN CheckGuardBand(p)
  ELSE CheckSafetyCriticalWindow(p)

ValidateSchedule(p) ==
  IF FirstSixStages(p) # "kOk" THEN FirstSixStages(p) ELSE RunNetworkCalculus(p)

\* Faulty variant: a full gate control list counts as too long.
PrevalidateShortList(p) ==
  IF Len(p.gcl) = 0 \/ Len(p.gcl) >= kMaxGclEntries THEN "kGclEmpty" ELSE "kOk"

\* The check Init makes of each configured schedule, with its own error codes.
PrevalidateSchedule(p) ==
  IF Len(p.gcl) = 0 \/ Len(p.gcl) > kMaxGclEntries THEN "kGclEmpty"
  ELSE IF p.cycleTimeNs < kMinCycleTimeNs \/ p.cycleTimeNs > kMaxCycleTimeNs
       THEN "kCycleTimeTooShort"
  ELSE IF \E i \in Entries(p) : p.gcl[i].intervalNs = 0 THEN "kZeroIntervalEntry"
  ELSE IF IntervalSum(p, Entries(p)) # p.cycleTimeNs THEN "kIntervalSumMismatch"
  ELSE IF SafetyWindows(p) = {} THEN "kSafetyCriticalWindowAbsent"
  ELSE "kOk"

\* The pass-through schedule DisableSchedule writes: every gate always open.
PassThroughSchedule ==
  [cycleTimeNs |-> kMinCycleTimeNs,
   maxSafetyFrameSizeBytes |-> kMaxFrameSizeBytes,
   gcl |-> <<[gateStates |-> kAllQueuesOpen, intervalNs |-> kMinCycleTimeNs]>>]

=============================================================================
