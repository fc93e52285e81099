--------------------------- MODULE MCGateControl ---------------------------
(* Five candidates: two the pipeline accepts, and one that fails each of    *)
(* stage 5 (guard band), stage 6 (no exclusive window) and stage 7 (a TC7   *)
(* blocking time past the deadline).                                        *)
EXTENDS GateControl

Row(gates, ns) == [gateStates |-> gates, intervalNs |-> ns]
Params(cycle, rows) ==
  [cycleTimeNs |-> cycle, maxSafetyFrameSizeBytes |-> 1538, gcl |-> rows]

MCCandidates ==
  {Params(100000, <<Row({7}, 24608), Row(0 .. 6, 75392)>>),
   Params(100000, <<Row({7}, 100000)>>),
   Params(100000, <<Row({7}, 24607), Row(0 .. 7, 75393)>>),
   Params(200000, <<Row(0 .. 7, 200000)>>),
   Params(600000, <<Row({7}, 24608), Row(0 .. 6, 575392)>>)}

=============================================================================
