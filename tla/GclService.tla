----------------------------- MODULE GclService -----------------------------
(***************************************************************************)
(* What an accepted schedule is worth.  A schedule is drafted row by row,  *)
(* as the planner of a network schedule file does, and every draft is put  *)
(* through the pipeline of GclPipeline.  The reference it is compared with *)
(* is the gated server itself: the time a burst waits at a port whose      *)
(* gates follow the schedule cyclically.                                   *)
(***************************************************************************)
EXTENDS GclPipeline

CONSTANTS CycleTimes,   \* the cycle times a draft may have
          FrameSizes,   \* its largest safety frame
          GateMasks,    \* the gate states of a row
          Intervals     \* the interval of a row

ASSUME DraftAssumption ==
  /\ CycleTimes \subseteq Nat
  /\ FrameSizes \subseteq Nat
  /\ GateMasks \subseteq SUBSET TrafficClass
  /\ Intervals \subseteq Nat

VARIABLE draft

Init == draft \in [cycleTimeNs : CycleTimes, maxSafetyFrameSizeBytes : FrameSizes,
                   gcl : {<<>>}]

\* One more row, while the rows do not fill the cycle and the list is at most
\* one row too long.
AddEntry(gates, interval) ==
  /\ Len(draft.gcl) <= kMaxGclEntries
  /\ IntervalSum(draft, Entries(draft)) < draft.cycleTimeNs
  /\ draft' = [draft EXCEPT !.gcl =
                 Append(@, [gateStates |-> gates, intervalNs |-> interval])]

Next == \E gates \in GateMasks, interval \in Intervals : AddEntry(gates, interval)

Spec == Init /\ [][Next]_draft

-----------------------------------------------------------------------------
(* The gated server: served bits, 1 per ns, while the gate of tc is open.  *)

\* The rows that follow row k cyclically, before the m-th row after it.
RowAfter(p, k, m) == ((k + m - 1) % Len(p.gcl)) + 1
RowsBefore(p, k, m) == {RowAfter(p, k, j) : j \in 0 .. (m - 1)}
OpenRows(p, tc, S) == {i \in S : tc \in p.gcl[i].gateStates}

\* Time a burst of b ns of tc takes when it arrives as row k starts: whole
\* cycles, then up to the row in which the rest of the burst is served.  Only
\* meaningful when the gate of tc is open at some time.
ServiceDelay(p, tc, b, k) ==
  LET open == IntervalSum(p, OpenRows(p, tc, Entries(p)))
      rest == ((b - 1) % open) + 1
      openBefore(m) == IntervalSum(p, OpenRows(p, tc, RowsBefore(p, k, m)))
      servingRows == {m \in 0 .. (Len(p.gcl) - 1) :
                        /\ tc \in p.gcl[RowAfter(p, k, m)].gateStates
                        /\ openBefore(m) + p.gcl[RowAfter(p, k, m)].intervalNs >= rest}
      m == Min(servingRows)
  IN  ((b - 1) \div open) * p.cycleTimeNs
        + IntervalSum(p, RowsBefore(p, k, m)) + rest - openBefore(m)

\* The delay is at its largest when the burst arrives as a row starts (inside
\* an open row waiting longer only loses service, inside a closed one it only
\* shortens the wait), so these rows are all the cases.
DelayBounded(p, tc, bound) ==
  /\ OpenRows(p, tc, Entries(p)) # {}
  /\ \A k \in Entries(p) : ServiceDelay(p, tc, BurstNs(tc), k) <= bound

-----------------------------------------------------------------------------

Accepted == ValidateSchedule(draft) = "kOk"

\* In every schedule the pipeline accepts, a full TC7 burst that arrives at
\* the worst moment is out within the WCD that RunNetworkCalculus reports for
\* TC7, which is within the 500 us ASIL-D deadline.
SafetyDeadlineGuaranteed ==
  Accepted =>
    LET wcd == NetworkCalculusResult(draft).worstCaseDelayNs[kSafetyCritical]
    IN  /\ DelayBounded(draft, kSafetyCritical, wcd)
        /\ wcd <= kSafetyDeadlineNs

\* Init's pre-validation never refuses a schedule that ApplySchedule would
\* accept, so a valid configuration cannot be turned away at start-up.
PrevalidationIsWeaker == Accepted => PrevalidateSchedule(draft) = "kOk"

=============================================================================
