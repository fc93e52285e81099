-------------------------- MODULE AuditTrailProofs --------------------------
(***************************************************************************)
(* The audit log keeps the newest entries, for every size of the ring and  *)
(* however often it wraps around.                                          *)
(***************************************************************************)
EXTENDS AuditTrail, TLAPS

-----------------------------------------------------------------------------
(* Arithmetic modulo the size of the ring.                                 *)

\* Division with remainder.
LEMMA Division ==
  ASSUME NEW n \in Nat, NEW m \in Nat \ {0}
  PROVE  /\ n = (m * (n \div m)) + (n % m)
         /\ n % m \in 0 .. (m - 1)
         /\ n \div m \in Nat
  BY SMT

\* Different multiples of m are at least m apart.
LEMMA MultiplesApart ==
  ASSUME NEW a \in Int, NEW b \in Int, NEW m \in Nat \ {0}, a < b
  PROVE  m * b >= (m * a) + m
  BY SMT

\* The remainder is unique.
LEMMA Remainder ==
  ASSUME NEW q \in Nat, NEW m \in Nat \ {0}, NEW r \in 0 .. (m - 1)
  PROVE  ((m * q) + r) % m = r
<1> DEFINE n == (m * q) + r
<1>1. n \in Nat
  BY SMT
<1> HIDE DEF n
<1>2. n = (m * (n \div m)) + (n % m) /\ n % m \in 0 .. (m - 1) /\ n \div m \in Nat
  BY <1>1, Division
<1>3. n \div m = q
  BY <1>2, MultiplesApart DEF n
<1>4. QED
  BY <1>2, <1>3 DEF n

\* Advancing the head by one, with its wrap-around, is counting on by one.
LEMMA SuccessorMod ==
  ASSUME NEW n \in Nat, NEW m \in Nat \ {0}
  PROVE  ((n % m) + 1) % m = (n + 1) % m
<1> DEFINE q == n \div m
           r == n % m
<1>1. n = (m * q) + r /\ r \in 0 .. (m - 1) /\ q \in Nat
  BY Division
<1> HIDE DEF q, r
<1>2. CASE r + 1 < m
  <2>1. n + 1 = (m * q) + (r + 1)
    BY <1>1
  <2>2. (n + 1) % m = r + 1
    BY <1>1, <1>2, <2>1, Remainder
  <2>3. (r + 1) % m = r + 1
    BY <1>1, <1>2
  <2>4. QED
    BY <2>2, <2>3 DEF r
<1>3. CASE r + 1 = m
  <2>1. n + 1 = (m * (q + 1)) + 0
    BY <1>1, <1>3
  <2>2. (n + 1) % m = 0
    <3>1. q + 1 \in Nat /\ 0 \in 0 .. (m - 1)
      BY <1>1
    <3>2. ((m * (q + 1)) + 0) % m = 0
      BY <3>1, Remainder
    <3>3. QED
      BY <2>1, <3>2
  <2>3. (r + 1) % m = 0
    BY <1>3
  <2>4. QED
    BY <2>2, <2>3 DEF r
<1>4. QED
  BY <1>1, <1>2, <1>3

\* Two entries less than one ring apart are in different slots.
LEMMA DistinctSlots ==
  ASSUME NEW a \in Nat, NEW b \in Nat, NEW m \in Nat \ {0}, a < b, b - a < m
  PROVE  a % m # b % m
<1> SUFFICES ASSUME a % m = b % m PROVE FALSE
  OBVIOUS
<1> DEFINE p == a \div m
           q == b \div m
           r == a % m
<1>1. a = (m * p) + r /\ b = (m * q) + r /\ p \in Nat /\ q \in Nat
  BY Division
<1>2. r \in Int
  BY Division
<1> HIDE DEF p, q, r
<1>3. CASE p < q
  BY <1>1, <1>2, <1>3, MultiplesApart
<1>4. CASE q < p
  BY <1>1, <1>2, <1>4, MultiplesApart
<1>5. CASE p = q
  BY <1>1, <1>2, <1>5
<1>6. QED
  BY <1>1, <1>3, <1>4, <1>5

-----------------------------------------------------------------------------
(* The ring and the trail.  RingHoldsLatest is inductive only together with *)
(* HeadFollowsTrail, which says which slot the next entry overwrites.       *)

TrailInv == TypeOK /\ HeadFollowsTrail /\ RingHoldsLatest

\* LogStateTransition preserves the three together.
LEMMA LogPreservesTrail ==
  ASSUME TrailInv, NEW e \in Events, Log(e)
  PROVE  TrailInv'
<1> DEFINE m == kAuditLogSize
           n == Len(trail)
<1>1. m \in Nat \ {0} /\ n \in Nat
  BY AuditLogSizeAssumption DEF TrailInv, TypeOK
<1>2. /\ trail' = Append(trail, e) /\ trail' \in Seq(Events)
      /\ Len(trail') = n + 1
      /\ trail'[n + 1] = e
      /\ \A j \in 1 .. n : trail'[j] = trail[j]
  BY DEF Log, TrailInv, TypeOK
<1>3. auditHead = n % m /\ auditCount = (IF n < m THEN n ELSE m)
  BY DEF TrailInv, HeadFollowsTrail
<1>4. auditHead' = (n + 1) % m
  BY <1>1, <1>3, SuccessorMod DEF Log, LogStateTransition
<1>5. auditCount' = IF n + 1 < m THEN n + 1 ELSE m
  BY <1>1, <1>3 DEF Log, LogStateTransition
<1>6. n % m \in 0 .. (m - 1) /\ (n + 1) % m \in 0 .. (m - 1)
  BY <1>1, Division
<1>7. auditLog' = [auditLog EXCEPT ![n % m] = e]
  BY <1>3 DEF Log, LogStateTransition
<1>8. auditLog \in [0 .. (m - 1) -> Events \cup {NoEntry}]
  BY DEF TrailInv, TypeOK
<1>9. TypeOK'
  <2>1. auditLog' \in [0 .. (m - 1) -> Events \cup {NoEntry}]
    BY <1>7, <1>8
  <2>2. auditCount' \in 0 .. m
    BY <1>1, <1>5
  <2>3. QED
    BY <1>2, <1>4, <1>6, <2>1, <2>2 DEF TypeOK
<1>10. HeadFollowsTrail'
  BY <1>2, <1>4, <1>5 DEF HeadFollowsTrail
<1>11. RingHoldsLatest'
  <2> SUFFICES ASSUME NEW j \in 1 .. (n + 1), j > (n + 1) - auditCount'
               PROVE  auditLog'[(j - 1) % m] = trail'[j]
    BY <1>2 DEF RingHoldsLatest
  <2>1. j - 1 \in Nat /\ (j - 1) % m \in 0 .. (m - 1)
    <3> HIDE DEF m, n
    <3>1. j - 1 \in Nat
      BY <1>1
    <3>2. QED
      BY <1>1, <3>1, Division
  <2>2. CASE j = n + 1
    BY <1>1, <1>2, <1>6, <1>7, <1>8, <2>2
  <2>3. CASE j # n + 1
    <3>1. j \in 1 .. n /\ j > n - auditCount /\ n - (j - 1) < m
      <4> HIDE DEF m, n
      <4>1. QED
        BY <1>1, <1>3, <1>5, <2>3
    <3>2. (j - 1) % m # n % m
      <4> HIDE DEF m, n
      <4>1. j - 1 < n
        BY <1>1, <3>1
      <4>2. QED
        BY <1>1, <2>1, <3>1, <4>1, DistinctSlots
    <3>3. auditLog[(j - 1) % m] = trail[j]
      BY <3>1 DEF TrailInv, RingHoldsLatest
    <3>4. QED
      BY <1>2, <1>7, <1>8, <2>1, <3>1, <3>2, <3>3
  <2>4. QED
    BY <2>2, <2>3
<1>12. QED
  BY <1>9, <1>10, <1>11 DEF TrailInv

\* The three are an invariant of the audit log.
LEMMA TrailInvariant == Spec => []TrailInv
<1>1. Init => TrailInv
  <2> SUFFICES ASSUME Init PROVE TrailInv
    OBVIOUS
  <2>1. Len(trail) = 0 /\ trail \in Seq(Events)
    BY DEF Init
  <2>2. 0 % kAuditLogSize = 0
    BY AuditLogSizeAssumption
  <2>3. TypeOK
    BY <2>1, AuditLogSizeAssumption DEF Init, AuditInit, TypeOK
  <2>4. HeadFollowsTrail
    BY <2>1, <2>2, AuditLogSizeAssumption DEF Init, AuditInit, HeadFollowsTrail
  <2>5. RingHoldsLatest
    BY <2>1 DEF RingHoldsLatest
  <2>6. QED
    BY <2>3, <2>4, <2>5 DEF TrailInv
<1>2. TrailInv /\ [Next]_vars => TrailInv'
  <2>1. ASSUME TrailInv, UNCHANGED vars
        PROVE  TrailInv'
    BY <2>1 DEF TrailInv, TypeOK, HeadFollowsTrail, RingHoldsLatest, vars, auditVars
  <2>2. QED
    BY <2>1, LogPreservesTrail DEF Next
<1>3. QED
  BY <1>1, <1>2, PTL DEF Spec

\* LogStateTransition keeps head and count within the ring, whatever its size.
THEOREM RingInBounds == Spec => []TypeOK
<1>1. TrailInv => TypeOK
  BY DEF TrailInv
<1>2. QED
  BY <1>1, TrailInvariant, PTL

\* The slot that LogStateTransition writes next and the number of valid entries
\* are functions of how much was ever logged, before and after the wrap-around.
THEOREM HeadCountsEntries == Spec => []HeadFollowsTrail
<1>1. TrailInv => HeadFollowsTrail
  BY DEF TrailInv
<1>2. QED
  BY <1>1, TrailInvariant, PTL

\* However often the ring of the audit log has wrapped around, it holds the
\* last kAuditLogSize entries, each where its number puts it.
THEOREM RingKeepsLatest == Spec => []RingHoldsLatest
<1>1. TrailInv => RingHoldsLatest
  BY DEF TrailInv
<1>2. QED
  BY <1>1, TrailInvariant, PTL

=============================================================================
