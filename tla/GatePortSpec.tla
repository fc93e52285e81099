---------------------------- MODULE GatePortSpec ----------------------------
(***************************************************************************)
(* What one port promises, over opaque schedules: its manager and its      *)
(* banks change only by the operations of GatePort, by a swap that comes   *)
(* late, and by a soft error in the Oper bank.                             *)
(***************************************************************************)
EXTENDS GatePort

VARIABLE port

Init == port = [active |-> FALSE, sched |-> NoSchedule,
                oper |-> Boot, pending |-> NoSchedule]

Apply(s) == \E out \in HalOutcome : port' = ApplySchedule(port, s, out)

Disable == \E out \in HalOutcome : port' = DisableSchedule(port, out)

LateSwap == port.pending # NoSchedule /\ port' = SwapPending(port)

SoftError == port' = [port EXCEPT !.oper = Corrupt]

Next == (\E s \in Schedules : Apply(s)) \/ Disable \/ LateSwap \/ SoftError

Spec == Init /\ [][Next]_port

=============================================================================
