----------------------------- MODULE AuditTrail -----------------------------
(***************************************************************************)
(* The audit log beside the complete history of what was logged.           *)
(***************************************************************************)
EXTENDS AuditLog, Sequences

CONSTANTS Events,     \* what may be logged
          MaxTrail    \* entries logged in a behaviour

ASSUME MaxTrailAssumption == MaxTrail \in Nat

VARIABLE trail        \* every entry logged so far, oldest first

vars == <<auditVars, trail>>

Init == AuditInit /\ trail = <<>>

Log(e) ==
  /\ Len(trail) < MaxTrail
  /\ LogStateTransition(e)
  /\ trail' = Append(trail, e)

Next == \E e \in Events : Log(e)

Spec == Init /\ [][Next]_vars

-----------------------------------------------------------------------------

\* The head and the count never leave their ranges, so no write and no read of
\* the ring is out of its bounds.
TypeOK ==
  /\ auditLog \in [0 .. (kAuditLogSize - 1) -> Events \cup {NoEntry}]
  /\ auditHead \in 0 .. (kAuditLogSize - 1)
  /\ auditCount \in 0 .. kAuditLogSize
  /\ trail \in Seq(Events)

\* The next slot is the trail's length modulo the ring, and the number of
\* valid entries is that length until it saturates.
HeadFollowsTrail ==
  /\ auditHead = Len(trail) % kAuditLogSize
  /\ auditCount = IF Len(trail) < kAuditLogSize THEN Len(trail) ELSE kAuditLogSize

\* The entry logged as number j sits in slot (j - 1) modulo the ring for as
\* long as it is among the last kAuditLogSize: wrapping around loses the
\* oldest entries and nothing else.
RingHoldsLatest ==
  \A j \in 1 .. Len(trail) :
    j > Len(trail) - auditCount => auditLog[(j - 1) % kAuditLogSize] = trail[j]

=============================================================================
