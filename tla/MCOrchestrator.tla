-------------------------- MODULE MCOrchestrator --------------------------
(* Instances of Orchestrator.  Day is a schedule the pipeline accepts, safe *)
(* a TC7-only schedule it accepts, narrow passes the pre-validation of Init *)
(* but not the pipeline (its guard band is too short), and blank is an      *)
(* unset slot of a configuration.                                           *)
EXTENDS Orchestrator

MCSchedules == {"day", "safe", "narrow", "blank"}
MCPrevalid  == {"day", "safe", "narrow"}
MCValid     == {"day", "safe"}

\* n ports on day, s after trouble.
Conf(n, s, capable, streams) ==
  [ports |-> n, schedules |-> [i \in Slot |-> IF i < n THEN "day" ELSE "blank"],
   safeStateSchedule |-> s, capable |-> capable, ptpPortsOk |-> TRUE,
   frerStreams |-> streams]

\* Two ports of a node that may become grandmaster; one port without a usable
\* safe-state schedule on a node that may not.
TwoPorts   == {Conf(2, "safe", TRUE, 0), Conf(1, "narrow", FALSE, 1)}
TwoSafe    == {Conf(2, "safe", TRUE, 2)}
OnePort    == {Conf(1, "safe", TRUE, 1), Conf(1, "safe", FALSE, 0)}

\* For re-initialisation: a good configuration, one whose schedules fail pre-
\* validation, and one whose port count the clock manager refuses.
Unscheduled  == [Conf(1, "safe", TRUE, 0) EXCEPT !.schedules = [i \in Slot |-> "blank"]]
BadPtpPorts  == [Conf(1, "safe", FALSE, 0) EXCEPT !.ptpPortsOk = FALSE]
Reconfigured == {Conf(1, "safe", TRUE, 1), Unscheduled, BadPtpPorts}

NoSafePlan == {Conf(1, "narrow", TRUE, 0)}

MCNoConfig == Conf(0, "blank", FALSE, 0)

=============================================================================
