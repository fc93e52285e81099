---------------------------- MODULE FrerControl ----------------------------
(***************************************************************************)
(* FrerManager as the orchestrator sees it: how many streams are           *)
(* registered, and whether a Tick reports a latent error.  Registrations   *)
(* and deregistrations raise no alarm, and an empty table has none; how    *)
(* long a Tick goes on reporting an error is left open.  Orchestrator      *)
(* makes these steps: frerCount is a variable of its own, and its FrerTick *)
(* is what a Tick may report.                                              *)
(***************************************************************************)
EXTENDS Naturals

CONSTANT kMaxFrerEntries

VARIABLES frerCount, frerLatent

vars == <<frerCount, frerLatent>>

Init == frerCount = 0 /\ frerLatent = FALSE

FrerInit == frerCount' = 0 /\ frerLatent' = FALSE

RegisterStream ==
  /\ frerCount < kMaxFrerEntries
  /\ frerCount' = frerCount + 1
  /\ UNCHANGED frerLatent

\* A stream takes its latent error events with it.
DeregisterStream ==
  /\ frerCount > 0
  /\ frerCount' = frerCount - 1
  /\ frerLatent' \in {FALSE, frerLatent}
  /\ frerLatent' => frerCount' > 0

\* The Tick of an empty table reports nothing.
Tick ==
  /\ frerCount > 0
  /\ frerLatent' \in BOOLEAN
  /\ UNCHANGED frerCount

Next == FrerInit \/ RegisterStream \/ DeregisterStream \/ Tick

Spec == Init /\ [][Next]_vars

=============================================================================
