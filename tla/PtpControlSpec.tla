--------------------------- MODULE PtpControlSpec ---------------------------
(***************************************************************************)
(* What the orchestrator relies on in the clock manager: PtpControl as a   *)
(* specification.  expired is whether the last Tick returned               *)
(* kPtpHoldoverExpired.                                                    *)
(***************************************************************************)
EXTENDS PtpControl

VARIABLES ptp, expired

vars == <<ptp, expired>>

Init == ptp = NewPtp /\ expired = FALSE

Initialise(capable, writeOk) ==
  /\ ptp' = PtpInit(ptp, capable, writeOk)
  /\ UNCHANGED expired

Tick(readOk) ==
  \E r \in PtpTick(ptp, readOk) : ptp' = r.ptp /\ expired' = r.expired

ReceiveSync(near, writeOk) ==
  /\ ptp' = InjectSyncMessage(ptp, near, writeOk)
  /\ UNCHANGED expired

Forced(p) == [p EXCEPT !.capable = TRUE, !.gm = TRUE, !.sync = "kLocked"]

\* A call that the orchestrator does not make.
ForceGrandmasterRole ==
  /\ ptp' = Forced(ptp)
  /\ UNCHANGED expired

Next ==
  \/ \E ok \in BOOLEAN :
       \/ Tick(ok)
       \/ \E b \in BOOLEAN : Initialise(b, ok) \/ ReceiveSync(b, ok)
  \/ ForceGrandmasterRole

Spec == Init /\ [][Next]_vars

=============================================================================
