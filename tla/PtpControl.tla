----------------------------- MODULE PtpControl -----------------------------
(***************************************************************************)
(* The control state of PtpClockManager, as the orchestrator sees it.      *)
(* Offsets are reduced to whether they are within kPtpSyncTargetNs, and    *)
(* every comparison of the PHC with a timeout may go either way.  A        *)
(* manager is a record                                                     *)
(*   init    - initialised_             sync    - syncState_               *)
(*   near    - |offsetFromGmNs_| < kPtpSyncTargetNs                        *)
(*   heard   - lastSyncNs_ # 0          gm      - gmValid_                 *)
(*   capable - the configuration lets the node elect itself grandmaster    *)
(***************************************************************************)
SyncState == {"kFreeRun", "kLocking", "kLocked", "kHoldover"}

Ptp == [init : BOOLEAN, sync : SyncState, near : BOOLEAN, heard : BOOLEAN,
        gm : BOOLEAN, capable : BOOLEAN]

\* A newly constructed manager; its offset is 0.
NewPtp == [init |-> FALSE, sync |-> "kFreeRun", near |-> TRUE, heard |-> FALSE,
           gm |-> FALSE, capable |-> FALSE]

\* Init with a valid port count.  The offset and the time of the last Sync are
\* not reset, and a failed write of the frequency register leaves everything
\* but the configuration as it was.
PtpInit(p, capable, writeOk) ==
  IF writeOk
  THEN [p EXCEPT !.capable = capable, !.sync = "kFreeRun", !.gm = FALSE, !.init = TRUE]
  ELSE [p EXCEPT !.capable = capable]

RunBmca(p) ==
  IF ~p.gm /\ p.capable THEN [p EXCEPT !.gm = TRUE, !.sync = "kLocked"] ELSE p

EnterHoldover(p) == [p EXCEPT !.sync = "kHoldover"]

\* What a Tick may do, and whether it returns kPtpHoldoverExpired.  In holdover
\* the budget may be spent (the PHC runs free from here), the grandmaster may
\* have been silent for ten timeouts (the manager stays in holdover), or
\* neither.  A Tick that cannot read the PHC or write the drift changes nothing.
PtpTick(p, readOk) ==
  IF ~p.init \/ ~readOk THEN {[ptp |-> p, expired |-> FALSE]}
  ELSE IF p.sync = "kHoldover"
  THEN {[ptp |-> p, expired |-> FALSE], [ptp |-> p, expired |-> TRUE],
        [ptp |-> [p EXCEPT !.sync = "kFreeRun"], expired |-> TRUE]}
  ELSE {[ptp |-> q, expired |-> FALSE] :
          q \in {RunBmca(p)} \cup
                (IF p.heard /\ p.sync = "kLocked" THEN {EnterHoldover(p)} ELSE {})}

\* A Sync message, whose offset is within the target or not.  The offset and
\* its time are recorded before the adjustment is written, the state after it.
InjectSyncMessage(p, near, writeOk) ==
  LET q == [p EXCEPT !.near = near, !.heard = TRUE]
  IN  IF ~p.init THEN p
      ELSE IF writeOk /\ p.sync = "kLocking" /\ near
           THEN [q EXCEPT !.sync = "kLocked"]
      ELSE IF writeOk /\ p.sync \in {"kFreeRun", "kHoldover"}
           THEN [q EXCEPT !.sync = "kLocking"]
      ELSE q

\* GetCurrentTime succeeds.
TimeKnown(p, readOk) == p.init /\ p.sync # "kFreeRun" /\ readOk

IsSynchronised(p) == p.sync = "kLocked" /\ p.near

=============================================================================
