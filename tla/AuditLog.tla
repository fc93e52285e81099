------------------------------ MODULE AuditLog ------------------------------
(***************************************************************************)
(* The orchestrator's circular audit log: a ring of kAuditLogSize entries, *)
(* the index the next entry goes to, and the number of valid entries,      *)
(* which saturates.                                                        *)
(***************************************************************************)
EXTENDS Integers

CONSTANTS kAuditLogSize, NoEntry

ASSUME AuditLogSizeAssumption == kAuditLogSize \in Nat \ {0}

VARIABLES auditLog, auditHead, auditCount

auditVars == <<auditLog, auditHead, auditCount>>

AuditInit ==
  /\ auditLog = [i \in 0 .. (kAuditLogSize - 1) |-> NoEntry]
  /\ auditHead = 0
  /\ auditCount = 0

\* Faulty variants: the head does not wrap, the count saturates one early, the
\* entry goes to the slot after the head.
LogNoWrap(entry) ==
  /\ auditLog' = [auditLog EXCEPT ![auditHead] = entry]
  /\ auditHead' = auditHead + 1
  /\ auditCount' = IF auditCount < kAuditLogSize THEN auditCount + 1 ELSE auditCount

LogCountShort(entry) ==
  /\ auditLog' = [auditLog EXCEPT ![auditHead] = entry]
  /\ auditHead' = (auditHead + 1) % kAuditLogSize
  /\ auditCount' = IF auditCount < kAuditLogSize - 1 THEN auditCount + 1 ELSE auditCount

LogAfterAdvance(entry) ==
  /\ auditHead' = (auditHead + 1) % kAuditLogSize
  /\ auditLog' = [auditLog EXCEPT ![auditHead'] = entry]
  /\ auditCount' = IF auditCount < kAuditLogSize THEN auditCount + 1 ELSE auditCount

LogStateTransition(entry) ==
  /\ auditLog' = [auditLog EXCEPT ![auditHead] = entry]
  /\ auditHead' = (auditHead + 1) % kAuditLogSize
  /\ auditCount' = IF auditCount < kAuditLogSize THEN auditCount + 1 ELSE auditCount

\* The k-th newest entry, counting from 0.
AuditSlot(k) == (auditHead + kAuditLogSize - 1 - k) % kAuditLogSize

=============================================================================
