------------------------- MODULE GclPipelineProofs -------------------------
(***************************************************************************)
(* What the seven-stage pipeline guarantees of every schedule it accepts,  *)
(* for any length of the gate control list: what the stages establish, and *)
(* that a TC7 burst served by the gates meets its deadline.  The second    *)
(* needs IntervalSum to be additive, which is proved by induction over     *)
(* sets of rows.                                                           *)
(***************************************************************************)
EXTENDS GclService, FiniteSetTheorems, WellFoundedInduction, TLAPS

-----------------------------------------------------------------------------
(* The stages.                                                             *)

\* An accepted schedule passed every stage.
LEMMA AcceptedStages ==
  ASSUME NEW p, ValidateSchedule(p) = "kOk"
  PROVE  /\ CheckEntryCount(p) = "kOk"
         /\ CheckCycleTime(p) = "kOk"
         /\ CheckNoZeroIntervals(p) = "kOk"
         /\ CheckIntervalSum(p) = "kOk"
         /\ CheckGuardBand(p) = "kOk"
         /\ CheckSafetyCriticalWindow(p) = "kOk"
         /\ RunNetworkCalculus(p) = "kOk"
<1>1. FirstSixStages(p) = "kOk" /\ RunNetworkCalculus(p) = "kOk"
  BY DEF ValidateSchedule
<1>2. QED
  BY <1>1 DEF FirstSixStages

\* PrevalidateAllSchedules never refuses a schedule that ApplySchedule accepts:
\* Init cannot turn a valid configuration away.
THEOREM PrevalidationComplete ==
  ASSUME NEW p, ValidateSchedule(p) = "kOk"
  PROVE  PrevalidateSchedule(p) = "kOk"
<1>1. ~(Len(p.gcl) = 0 \/ Len(p.gcl) > kMaxGclEntries)
  BY AcceptedStages DEF CheckEntryCount
<1>2. ~(p.cycleTimeNs < kMinCycleTimeNs \/ p.cycleTimeNs > kMaxCycleTimeNs)
  BY AcceptedStages DEF CheckCycleTime
<1>3. ~\E i \in Entries(p) : p.gcl[i].intervalNs = 0
  BY AcceptedStages DEF CheckNoZeroIntervals
<1>4. IntervalSum(p, Entries(p)) = p.cycleTimeNs
  BY AcceptedStages DEF CheckIntervalSum
<1>5. SafetyWindows(p) # {}
  BY AcceptedStages DEF CheckSafetyCriticalWindow
<1>6. QED
  BY <1>1, <1>2, <1>3, <1>4, <1>5 DEF PrevalidateSchedule

\* So whatever rows a planner puts together, a schedule that the pipeline would
\* accept when it is applied is accepted by Init's pre-validation.
THEOREM DraftsPrevalidated == Spec => []PrevalidationIsWeaker
<1>1. PrevalidationIsWeaker
  BY PrevalidationComplete DEF PrevalidationIsWeaker, Accepted
<1>2. QED
  BY <1>1, PTL

\* The ASIL-D contract of the pipeline: the TC7 worst-case delay that
\* RunNetworkCalculus reports for an accepted schedule is within 500 us, every
\* TC7-exclusive row fits a 1538-byte guard frame and the largest safety
\* frame, and there is such a row.
THEOREM AcceptedMeetsSafetyContract ==
  ASSUME NEW p \in ScheduleParams, ValidateSchedule(p) = "kOk"
  PROVE  /\ NetworkCalculusResult(p).worstCaseDelayNs[kSafetyCritical] <= kSafetyDeadlineNs
         /\ \E i \in Entries(p) : /\ p.gcl[i].gateStates = {kSafetyCritical}
                                  /\ p.gcl[i].intervalNs >= MinWindowNs(p)
         /\ \A i \in Entries(p) : p.gcl[i].gateStates = {kSafetyCritical} =>
                                    p.gcl[i].intervalNs >= FrameTransmissionNs(kMaxFrameSizeBytes)
<1>1. kSafetyCritical \in TrafficClass
  BY DEF kSafetyCritical, TrafficClass
<1>2. kDefaultDeadlineNs[kSafetyCritical] = kSafetyDeadlineNs
  BY SMT DEF kDefaultDeadlineNs, kSafetyDeadlineNs, kSafetyCritical, TrafficClass
<1>3. NetworkCalculusResult(p).deadlineMet[kSafetyCritical]
  BY AcceptedStages DEF RunNetworkCalculus
<1>4. NetworkCalculusResult(p).worstCaseDelayNs[kSafetyCritical] <= kSafetyDeadlineNs
  BY <1>1, <1>2, <1>3 DEF NetworkCalculusResult
<1>5. \A i \in SafetyWindows(p) : ~(p.gcl[i].intervalNs < MinWindowNs(p))
  BY AcceptedStages DEF CheckGuardBand
<1>6. SafetyWindows(p) # {}
  BY AcceptedStages DEF CheckSafetyCriticalWindow
<1>7. \A i \in Entries(p) : p.gcl[i].intervalNs \in Nat
  <2>1. p.gcl \in Seq(GclEntry)
    BY DEF ScheduleParams
  <2>2. \A i \in Entries(p) : p.gcl[i] \in GclEntry
    BY <2>1 DEF Entries
  <2>3. QED
    BY <2>2 DEF GclEntry
<1>8. /\ MinWindowNs(p) \in Nat
      /\ FrameTransmissionNs(kMaxFrameSizeBytes) \in Nat
      /\ MinWindowNs(p) >= FrameTransmissionNs(kMaxFrameSizeBytes)
  BY SMT DEF MinWindowNs, FrameTransmissionNs, kMaxFrameSizeBytes, ScheduleParams
<1>9. \A i \in SafetyWindows(p) : p.gcl[i].intervalNs >= MinWindowNs(p)
  BY <1>5, <1>7, <1>8 DEF SafetyWindows
<1>10. \E i \in Entries(p) : /\ p.gcl[i].gateStates = {kSafetyCritical}
                             /\ p.gcl[i].intervalNs >= MinWindowNs(p)
  BY <1>6, <1>9 DEF SafetyWindows, kSafetyOnlyOpen
<1>11. \A i \in Entries(p) : p.gcl[i].gateStates = {kSafetyCritical} =>
                               p.gcl[i].intervalNs >= FrameTransmissionNs(kMaxFrameSizeBytes)
  BY <1>7, <1>8, <1>9 DEF SafetyWindows, kSafetyOnlyOpen
<1>12. QED
  BY <1>4, <1>10, <1>11

-----------------------------------------------------------------------------
(* Induction.  The library's induction rules have an operator as parameter; *)
(* the provers take these two, which have a set.                            *)

\* A nonempty set of naturals has a least element.
LEMMA LeastNatural ==
  ASSUME NEW T \in SUBSET Nat, T # {}
  PROVE  \E n \in T : \A m \in T : n <= m
<1>1. PICK n \in T : \A m \in T : <<m, n>> \notin OpToRel(<, Nat)
  BY NatLessThanWellFounded, WFMin
<1>2. \A m \in T : <<m, n>> \in OpToRel(<, Nat) <=> m < n
  BY DEF OpToRel
<1>3. \A m \in T : ~(m < n)
  BY <1>1, <1>2, Zenon
<1>4. \A m \in T : n <= m
  BY <1>3
<1>5. QED
  BY <1>4

\* Induction over the naturals.
LEMMA SetInduction ==
  ASSUME NEW P \in SUBSET Nat, 0 \in P, \A n \in P : n + 1 \in P
  PROVE  \A n \in Nat : n \in P
<1> SUFFICES ASSUME Nat \ P # {} PROVE FALSE
  OBVIOUS
<1>1. PICK n \in Nat \ P : \A m \in Nat \ P : n <= m
  BY LeastNatural
<1>2. n # 0 /\ n - 1 \in Nat
  BY <1>1
<1>3. n - 1 \in P
  BY <1>1, <1>2
<1>4. QED
  BY <1>1, <1>2, <1>3

\* Taking an element from a subset of a finite set.
LEMMA OneLess ==
  ASSUME NEW S, IsFiniteSet(S), NEW s \in SUBSET S, NEW x \in s
  PROVE  /\ s \ {x} \in SUBSET S
         /\ Cardinality(s) \in Nat /\ Cardinality(s) > 0
         /\ Cardinality(s \ {x}) = Cardinality(s) - 1
<1>1. IsFiniteSet(s) /\ Cardinality(s) \in Nat
  BY FS_Subset, FS_CardinalityType
<1>2. Cardinality(s \ {x}) = Cardinality(s) - 1
  BY <1>1, FS_RemoveElement
<1>3. Cardinality(s) # 0
  BY <1>1, FS_EmptySet
<1>4. QED
  BY <1>1, <1>2, <1>3

\* A subset without elements.
LEMMA NoneLeft ==
  ASSUME NEW S, IsFiniteSet(S), NEW s \in SUBSET S, Cardinality(s) <= 0
  PROVE  s = {}
<1>1. IsFiniteSet(s) /\ Cardinality(s) \in Nat
  BY FS_Subset, FS_CardinalityType
<1>2. Cardinality(s) = 0
  BY <1>1
<1>3. QED
  BY <1>1, <1>2, FS_EmptySet

\* Induction over the subsets of a finite set.
LEMMA SubsetInduction ==
  ASSUME NEW S, IsFiniteSet(S), NEW Q,
         \A s \in SUBSET S : (\A x \in s : s \ {x} \in Q) => s \in Q
  PROVE  \A s \in SUBSET S : s \in Q
<1> DEFINE P == {n \in Nat : \A s \in SUBSET S : Cardinality(s) = n => s \in Q}
<1>1. 0 \in P
  <2>1. \A s \in SUBSET S : Cardinality(s) = 0 => s = {}
    BY NoneLeft
  <2>2. QED
    BY <2>1
<1>2. ASSUME NEW n \in P PROVE n + 1 \in P
  <2> SUFFICES ASSUME NEW s \in SUBSET S, Cardinality(s) = n + 1 PROVE s \in Q
    BY <1>2
  <2>1. \A x \in s : s \ {x} \in SUBSET S /\ Cardinality(s \ {x}) = n
    BY <1>2, OneLess
  <2>2. \A x \in s : s \ {x} \in Q
    BY <2>1
  <2>3. QED
    BY <2>2
<1>3. P \in SUBSET Nat
  OBVIOUS
<1> HIDE DEF P
<1>4. \A n \in Nat : n \in P
  BY <1>1, <1>2, <1>3, SetInduction
<1>5. ASSUME NEW s \in SUBSET S PROVE s \in Q
  <2>1. Cardinality(s) \in P
    BY <1>4, FS_Subset, FS_CardinalityType
  <2>2. QED
    BY <2>1 DEF P
<1>6. QED
  BY <1>5

-----------------------------------------------------------------------------
(* Sums of intervals.  IntervalSum folds over the subsets of the rows it is *)
(* given; Adds says that g is such a fold.                                  *)

RowNs(p, i) == p.gcl[i].intervalNs

First(s) == CHOOSE i \in s : TRUE

Adds(p, S, g) ==
  g = [s \in SUBSET S |-> IF s = {} THEN 0 ELSE RowNs(p, First(s)) + g[s \ {First(s)}]]

\* The same on the sets of at most n rows.
UpTo(S, n) == {s \in SUBSET S : Cardinality(s) <= n}

AddsUpTo(p, S, n, g) ==
  g = [s \in UpTo(S, n) |-> IF s = {} THEN 0 ELSE RowNs(p, First(s)) + g[s \ {First(s)}]]

\* There is a fold on the sets of at most n rows.
LEMMA FoldUpToExists ==
  ASSUME NEW p, NEW S, IsFiniteSet(S)
  PROVE  \A n \in Nat : \E g : AddsUpTo(p, S, n, g)
<1> DEFINE P == {n \in Nat : \E g : AddsUpTo(p, S, n, g)}
<1>1. 0 \in P
  <2>1. \A s \in UpTo(S, 0) : s = {}
    BY NoneLeft DEF UpTo
  <2>2. AddsUpTo(p, S, 0, [s \in UpTo(S, 0) |-> 0])
    BY <2>1, Zenon DEF AddsUpTo
  <2>3. QED
    BY <2>2
<1>2. ASSUME NEW n \in P PROVE n + 1 \in P
  <2>1. PICK g : AddsUpTo(p, S, n, g)
    BY <1>2
  <2> DEFINE h == [s \in UpTo(S, n + 1) |->
                     IF s = {} THEN 0
                     ELSE RowNs(p, First(s)) + g[s \ {First(s)}]]
  <2>2. UpTo(S, n) \subseteq UpTo(S, n + 1)
    <3>1. \A s \in SUBSET S : Cardinality(s) \in Nat
      BY FS_Subset, FS_CardinalityType
    <3>2. QED
      BY <1>2, <3>1 DEF UpTo
  <2>3. \A s \in UpTo(S, n) : h[s] = g[s]
    BY <2>1, <2>2, Zenon DEF AddsUpTo
  <2>4. \A s \in UpTo(S, n + 1) : s # {} => s \ {First(s)} \in UpTo(S, n)
    <3> SUFFICES ASSUME NEW s \in UpTo(S, n + 1), s # {}
                 PROVE  s \ {First(s)} \in UpTo(S, n)
      OBVIOUS
    <3>1. First(s) \in s
      BY Zenon DEF First
    <3>2. QED
      BY <1>2, <3>1, OneLess DEF UpTo
  <2>5. h = [s \in UpTo(S, n + 1) |->
               IF s = {} THEN 0
               ELSE RowNs(p, First(s)) + h[s \ {First(s)}]]
    <3> HIDE DEF First
    <3>1. \A s \in UpTo(S, n + 1) : s # {} => h[s \ {First(s)}] = g[s \ {First(s)}]
      BY <2>3, <2>4, Zenon
    <3>2. \A s \in UpTo(S, n + 1) :
            (IF s = {} THEN 0
             ELSE RowNs(p, First(s)) + g[s \ {First(s)}])
            = (IF s = {} THEN 0
               ELSE RowNs(p, First(s)) + h[s \ {First(s)}])
      <4> HIDE DEF h
      <4>1. QED
        BY <3>1, Zenon
    <3>3. QED
      BY <3>2, Zenon
  <2>6. AddsUpTo(p, S, n + 1, h)
    <3> HIDE DEF h
    <3>1. QED
      BY <2>5, Zenon DEF AddsUpTo
  <2>7. QED
    BY <1>2, <2>6
<1>3. P \in SUBSET Nat
  OBVIOUS
<1> HIDE DEF P
<1>4. \A n \in Nat : n \in P
  BY <1>1, <1>2, <1>3, SetInduction
<1>5. QED
  BY <1>4 DEF P

\* IntervalSum is the value of a fold on the subsets of its rows.
LEMMA IntervalSumFolds ==
  ASSUME NEW p, NEW S, IsFiniteSet(S)
  PROVE  \E g : Adds(p, S, g) /\ IntervalSum(p, S) = g[S]
<1>1. UpTo(S, Cardinality(S)) = SUBSET S
  <2>1. \A s \in SUBSET S : Cardinality(s) <= Cardinality(S)
    BY FS_Subset
  <2>2. QED
    BY <2>1 DEF UpTo
<1>2. \E g : Adds(p, S, g)
  <2>1. Cardinality(S) \in Nat
    BY FS_CardinalityType
  <2>2. \E g : AddsUpTo(p, S, Cardinality(S), g)
    BY <2>1, FoldUpToExists, Zenon
  <2>3. QED
    BY <1>1, <2>2, Zenon DEF Adds, AddsUpTo
<1>3. Adds(p, S, CHOOSE g : Adds(p, S, g))
  BY <1>2, Zenon
<1>4. IntervalSum(p, S) = (CHOOSE g : Adds(p, S, g))[S]
  BY Zenon DEF IntervalSum, MapThenSumSet, MapThenFoldSet, Adds, First, RowNs
<1>5. QED
  BY <1>3, <1>4, Zenon

\* What a fold g does to s, a row at a time.
StepAt(p, g, s) ==
  /\ s = {} => g[s] = 0
  /\ s # {} => First(s) \in s /\ g[s] = RowNs(p, First(s)) + g[s \ {First(s)}]

\* A fold takes one step at every set of its rows.
LEMMA FoldStep ==
  ASSUME NEW p, NEW S, NEW g, Adds(p, S, g), NEW s \in SUBSET S
  PROVE  StepAt(p, g, s)
<1> DEFINE rhs(t) == IF t = {} THEN 0
                     ELSE RowNs(p, First(t)) + g[t \ {First(t)}]
<1>1. g = [t \in SUBSET S |-> rhs(t)]
  BY Zenon DEF Adds
<1> HIDE DEF rhs
<1>2. g[s] = rhs(s)
  BY <1>1, Zenon
<1>3. s # {} => First(s) \in s
  BY Zenon DEF First
<1>4. QED
  BY <1>2, <1>3, Zenon DEF rhs, StepAt

\* Two folds agree on the rows they share.
LEMMA FoldsAgree ==
  ASSUME NEW p, NEW S, IsFiniteSet(S), NEW R \in SUBSET S, NEW g, NEW h,
         Adds(p, S, g), Adds(p, R, h)
  PROVE  g[R] = h[R]
<1> DEFINE Q == {s \in SUBSET R : g[s] = h[s]}
<1>1. ASSUME NEW s \in SUBSET R, \A x \in s : s \ {x} \in Q
      PROVE  s \in Q
  <2>1. s \in SUBSET S
    OBVIOUS
  <2>2. StepAt(p, g, s) /\ StepAt(p, h, s)
    BY <2>1, FoldStep
  <2>3. CASE s = {}
    BY <2>2, <2>3 DEF StepAt
  <2>4. CASE s # {}
    <3>1. /\ First(s) \in s
          /\ g[s] = RowNs(p, First(s)) + g[s \ {First(s)}]
          /\ h[s] = RowNs(p, First(s)) + h[s \ {First(s)}]
      BY <2>2, <2>4, Zenon DEF StepAt
    <3>2. g[s \ {First(s)}] = h[s \ {First(s)}]
      BY <1>1, <3>1
    <3>3. g[s] = h[s]
      BY <3>1, <3>2, Zenon
    <3>4. QED
      BY <3>3
  <2>5. QED
    BY <2>3, <2>4
<1>2. IsFiniteSet(R)
  BY FS_Subset
<1> HIDE DEF Q
<1>3. \A s \in SUBSET R : s \in Q
  BY <1>1, <1>2, SubsetInduction, Zenon
<1>4. R \in Q
  BY <1>3
<1>5. QED
  BY <1>4 DEF Q

\* The rows of a schedule with the intervals that are summed up.
Timed(p, S) == IsFiniteSet(S) /\ \A i \in S : RowNs(p, i) \in Nat

\* A fold of intervals is a number of nanoseconds.
LEMMA FoldInNat ==
  ASSUME NEW p, NEW S, Timed(p, S), NEW g, Adds(p, S, g)
  PROVE  \A s \in SUBSET S : g[s] \in Nat
<1> DEFINE Q == {s \in SUBSET S : g[s] \in Nat}
<1>1. ASSUME NEW s \in SUBSET S, \A x \in s : s \ {x} \in Q
      PROVE  s \in Q
  <2>1. StepAt(p, g, s)
    BY FoldStep
  <2>2. CASE s = {}
    BY <2>1, <2>2 DEF StepAt
  <2>3. CASE s # {}
    <3>1. /\ First(s) \in s
          /\ g[s] = RowNs(p, First(s)) + g[s \ {First(s)}]
      BY <2>1, <2>3, Zenon DEF StepAt
    <3>2. RowNs(p, First(s)) \in Nat
      BY <3>1 DEF Timed
    <3>3. g[s \ {First(s)}] \in Nat
      BY <1>1, <3>1
    <3>4. QED
      BY <3>1, <3>2, <3>3
  <2>4. QED
    BY <2>2, <2>3
<1>2. IsFiniteSet(S)
  BY DEF Timed
<1> HIDE DEF Q
<1>3. \A s \in SUBSET S : s \in Q
  BY <1>1, <1>2, SubsetInduction, Zenon
<1>4. QED
  BY <1>3 DEF Q

\* Whatever row comes last, it adds its interval.
AnyRowAdds(p, S, g) ==
  \A s \in SUBSET S : \A x \in S \ s : g[s \cup {x}] = g[s] + RowNs(p, x)

\* A fold does not depend on the order in which First takes the rows: any row
\* outside s adds its interval.
LEMMA FoldAddsRow ==
  ASSUME NEW p, NEW S, Timed(p, S), NEW g, Adds(p, S, g)
  PROVE  AnyRowAdds(p, S, g)
<1> DEFINE f(i) == RowNs(p, i)
           Q == {s \in SUBSET S : \A x \in S \ s : g[s \cup {x}] = g[s] + f(x)}
<1> HIDE DEF f
<1>1. ASSUME NEW s \in SUBSET S, \A x \in s : s \ {x} \in Q
      PROVE  s \in Q
  <2> SUFFICES ASSUME NEW x \in S \ s
               PROVE  g[s \cup {x}] = g[s] + f(x)
    OBVIOUS
  <2> DEFINE u == s \cup {x}
             y == First(u)
  <2>1. u \in SUBSET S /\ u # {}
    OBVIOUS
  <2>2. y \in u /\ g[u] = f(y) + g[u \ {y}]
    <3> HIDE DEF u
    <3>1. StepAt(p, g, u)
      BY <2>1, FoldStep
    <3>2. QED
      BY <2>1, <3>1, Zenon DEF StepAt, f
  <2>3. \A t \in SUBSET S : g[t] \in Nat
    BY FoldInNat
  <2>4. \A i \in S : f(i) \in Nat
    BY DEF Timed, f
  <2> HIDE DEF y
  <2>5. CASE y = x
    <3>1. u \ {y} = s
      BY <2>5
    <3>2. g[s] \in Nat /\ f(x) \in Nat
      BY <2>3, <2>4
    <3>3. g[u] = f(x) + g[s]
      BY <2>2, <2>5, <3>1
    <3>4. QED
      BY <3>2, <3>3
  <2>6. CASE y # x
    <3> DEFINE r == s \ {y}
    <3>1. /\ y \in s /\ y \in S
          /\ r \in SUBSET S /\ r \in Q /\ x \in S \ r /\ y \in S \ r
          /\ u \ {y} = r \cup {x} /\ s = r \cup {y}
      BY <1>1, <2>2, <2>6
    <3> HIDE DEF r
    <3>2. g[r \cup {x}] = g[r] + f(x) /\ g[r \cup {y}] = g[r] + f(y)
      BY <3>1
    <3>3. g[r] \in Nat /\ f(x) \in Nat /\ f(y) \in Nat
      BY <2>3, <2>4, <3>1
    <3>4. g[u] = f(y) + (g[r] + f(x)) /\ g[s] = g[r] + f(y)
      BY <2>2, <3>1, <3>2, Zenon
    <3>5. QED
      BY <3>3, <3>4
  <2>7. QED
    BY <2>5, <2>6
<1>2. IsFiniteSet(S)
  BY DEF Timed
<1> HIDE DEF Q
<1>3. \A s \in SUBSET S : s \in Q
  BY <1>1, <1>2, SubsetInduction, Zenon
<1>4. QED
  BY <1>3, Zenon DEF Q, f, AnyRowAdds

\* Folding over two sets of rows apart.
LEMMA FoldOfUnion ==
  ASSUME NEW p, NEW S, Timed(p, S), NEW g, Adds(p, S, g), NEW a \in SUBSET S
  PROVE  \A b \in SUBSET S : a \cap b = {} => g[a \cup b] = g[a] + g[b]
<1> DEFINE f(i) == RowNs(p, i)
           Q == {b \in SUBSET S : a \cap b = {} => g[a \cup b] = g[a] + g[b]}
<1> HIDE DEF f
<1>1. ASSUME NEW b \in SUBSET S, \A x \in b : b \ {x} \in Q
      PROVE  b \in Q
  <2> SUFFICES ASSUME a \cap b = {}
               PROVE  g[a \cup b] = g[a] + g[b]
    OBVIOUS
  <2>1. \A t \in SUBSET S : g[t] \in Nat
    BY FoldInNat
  <2>2. CASE b = {}
    <3>1. g[b] = 0 /\ a \cup b = a
      <4>1. StepAt(p, g, b)
        BY FoldStep
      <4>2. QED
        BY <2>2, <4>1 DEF StepAt
    <3>2. g[a] \in Nat
      BY <2>1
    <3>3. g[a \cup b] = g[a]
      BY <3>1, Zenon
    <3>4. QED
      BY <3>1, <3>2, <3>3
  <2>3. CASE b # {}
    <3>1. PICK y : y \in b
      BY <2>3
    <3> DEFINE c == b \ {y}
    <3>2. /\ c \in SUBSET S /\ c \in Q /\ a \cap c = {} /\ y \in S \ c /\ b = c \cup {y}
          /\ a \cup c \in SUBSET S /\ y \in S \ (a \cup c) /\ a \cup b = (a \cup c) \cup {y}
      BY <1>1, <3>1
    <3>3. g[a \cup c] = g[a] + g[c]
      BY <3>2
    <3> HIDE DEF c
    <3>4. /\ g[(a \cup c) \cup {y}] = g[a \cup c] + f(y)
          /\ g[c \cup {y}] = g[c] + f(y)
      <4>1. AnyRowAdds(p, S, g)
        BY FoldAddsRow
      <4>2. QED
        BY <3>2, <4>1, Zenon DEF f, AnyRowAdds
    <3>5. f(y) \in Nat /\ g[a] \in Nat /\ g[c] \in Nat
      BY <2>1, <3>2 DEF Timed, f
    <3>6. g[a \cup b] = (g[a] + g[c]) + f(y) /\ g[b] = g[c] + f(y)
      BY <3>2, <3>3, <3>4, Zenon
    <3>7. QED
      BY <3>5, <3>6
  <2>4. QED
    BY <2>2, <2>3
<1>2. IsFiniteSet(S)
  BY DEF Timed
<1> HIDE DEF Q
<1>3. \A b \in SUBSET S : b \in Q
  BY <1>1, <1>2, SubsetInduction, Zenon
<1>4. QED
  BY <1>3 DEF Q

\* One fold gives the sums of all sets of rows.
LEMMA OneFold ==
  ASSUME NEW p, NEW S, Timed(p, S)
  PROVE  \E g : Adds(p, S, g) /\ \A a \in SUBSET S : IntervalSum(p, a) = g[a]
<1>1. IsFiniteSet(S)
  BY DEF Timed
<1>2. PICK g : Adds(p, S, g)
  BY <1>1, IntervalSumFolds
<1>3. ASSUME NEW a \in SUBSET S
      PROVE  IntervalSum(p, a) = g[a]
  <2>1. IsFiniteSet(a)
    BY <1>1, FS_Subset
  <2>2. PICK h : Adds(p, a, h) /\ IntervalSum(p, a) = h[a]
    BY <2>1, IntervalSumFolds
  <2>3. Adds(p, S, g) /\ Adds(p, a, h)
    BY <1>2, <2>2
  <2>4. g[a] = h[a]
    BY <1>1, <2>3, FoldsAgree
  <2>5. QED
    BY <2>2, <2>4, Zenon
<1>4. QED
  BY <1>2, <1>3, Zenon

\* The rows b fall into a part a and the rest c.
Parts(S, b, a, c) == b \in SUBSET S /\ a \cup c = b /\ a \cap c = {}

SumOf(p, b, a, c) ==
  /\ IntervalSum(p, a) \in Nat
  /\ IntervalSum(p, c) \in Nat
  /\ IntervalSum(p, b) = IntervalSum(p, a) + IntervalSum(p, c)

\* Sums are additive: the time of b is that of a and that of c.
LEMMA SumOfParts ==
  ASSUME NEW p, NEW S, Timed(p, S), NEW a, NEW b, NEW c, Parts(S, b, a, c)
  PROVE  SumOf(p, b, a, c)
<1>1. /\ a \in SUBSET S /\ b \in SUBSET S /\ c \in SUBSET S
      /\ a \cap c = {} /\ a \cup c = b
  BY DEF Parts
<1>2. PICK g : Adds(p, S, g) /\ \A t \in SUBSET S : IntervalSum(p, t) = g[t]
  BY OneFold
<1>3. g[a \cup c] = g[a] + g[c]
  BY <1>1, <1>2, FoldOfUnion
<1>4. g[a] \in Nat /\ g[c] \in Nat
  BY <1>1, <1>2, FoldInNat
<1>5. /\ IntervalSum(p, a) = g[a] /\ IntervalSum(p, c) = g[c]
      /\ IntervalSum(p, b) = g[b]
  BY <1>1, <1>2
<1>6. g[b] = g[a] + g[c]
  BY <1>1, <1>3, Zenon
<1>7. QED
  BY <1>4, <1>5, <1>6 DEF SumOf

\* A sum of intervals is a number of nanoseconds.
LEMMA SumInNat ==
  ASSUME NEW p, NEW S, Timed(p, S), NEW a \in SUBSET S
  PROVE  IntervalSum(p, a) \in Nat
<1>1. PICK g : Adds(p, S, g) /\ \A t \in SUBSET S : IntervalSum(p, t) = g[t]
  BY OneFold
<1>2. g[a] \in Nat
  BY <1>1, FoldInNat
<1>3. QED
  BY <1>1, <1>2

\* The sum over one row is its interval.
LEMMA SumOfRow ==
  ASSUME NEW p, NEW S, Timed(p, S), NEW i \in S
  PROVE  IntervalSum(p, {i}) = RowNs(p, i) /\ RowNs(p, i) \in Nat
<1>1. PICK g : Adds(p, S, g) /\ \A t \in SUBSET S : IntervalSum(p, t) = g[t]
  BY OneFold
<1>2. {i} \in SUBSET S /\ {} \in SUBSET S /\ i \in S \ {} /\ {} \cup {i} = {i}
  OBVIOUS
<1>3. g[{} \cup {i}] = g[{}] + RowNs(p, i)
  <2>1. AnyRowAdds(p, S, g)
    BY <1>1, FoldAddsRow
  <2>2. QED
    BY <1>2, <2>1, Zenon DEF AnyRowAdds
<1>4. g[{}] = 0
  <2>1. StepAt(p, g, {})
    BY <1>1, <1>2, FoldStep
  <2>2. QED
    BY <2>1 DEF StepAt
<1>5. RowNs(p, i) \in Nat
  BY DEF Timed
<1>6. g[{i}] = RowNs(p, i)
  BY <1>2, <1>3, <1>4, <1>5
<1>7. QED
  BY <1>1, <1>2, <1>5, <1>6

\* No class is above TC7: the sum of the higher bursts is over nothing.
LEMMA NoHigherBursts == MapThenSumSet(BurstNs, (kSafetyCritical + 1) .. kSafetyCritical) = 0
<1> DEFINE rhs(g, s) == IF s = {} THEN 0
                        ELSE BurstNs(First(s)) + g[s \ {First(s)}]
           E(g) == g = [s \in SUBSET {} |-> rhs(g, s)]
<1>1. (kSafetyCritical + 1) .. kSafetyCritical = {}
  BY DEF kSafetyCritical
<1>2. MapThenSumSet(BurstNs, {}) = (CHOOSE g : E(g))[{}]
  BY Zenon DEF MapThenSumSet, MapThenFoldSet, First
<1>3. \A g : \A s \in SUBSET {} : rhs(g, s) = 0
  OBVIOUS
<1> HIDE DEF rhs
<1>4. E([s \in SUBSET {} |-> 0])
  BY <1>3, Zenon
<1>5. E(CHOOSE g : E(g))
  BY <1>4, Zenon
<1>6. ASSUME NEW g, E(g)
      PROVE  g[{}] = 0
  <2>1. {} \in SUBSET {}
    OBVIOUS
  <2>2. QED
    BY <1>3, <1>6, <2>1, Zenon
<1> HIDE DEF E
<1>7. (CHOOSE g : E(g))[{}] = 0
  BY <1>5, <1>6, Zenon
<1>8. QED
  BY <1>1, <1>2, <1>7, Zenon

-----------------------------------------------------------------------------
(* The gated server.                                                       *)

\* A burst that the open time of one cycle can take needs no further cycle.
LEMMA WithinOneCycle ==
  ASSUME NEW b \in Nat \ {0}, NEW open \in Nat, open >= b
  PROVE  (b - 1) \div open = 0 /\ ((b - 1) % open) + 1 = b
<1> DEFINE q == (b - 1) \div open
           r == (b - 1) % open
<1>1. b - 1 = (open * q) + r /\ r \in 0 .. (open - 1) /\ q \in Nat
  BY SMT
<1> HIDE DEF q, r
<1>2. q = 0
  BY <1>1, SMT
<1>3. r = b - 1
  BY <1>1, <1>2, SMT
<1>4. QED
  BY <1>2, <1>3 DEF q, r

\* Every row comes around within a cycle.
LEMMA RowComesAround ==
  ASSUME NEW p, Len(p.gcl) \in Nat \ {0},
         NEW k \in 1 .. Len(p.gcl), NEW w \in 1 .. Len(p.gcl)
  PROVE  \E m \in 0 .. (Len(p.gcl) - 1) : RowAfter(p, k, m) = w
<1> DEFINE n == Len(p.gcl)
<1>1. n \in Nat \ {0} /\ k \in 1 .. n /\ w \in 1 .. n
  OBVIOUS
<1>2. \A m : RowAfter(p, k, m) = ((k + m - 1) % n) + 1
  BY DEF RowAfter
<1> HIDE DEF n
<1>3. CASE w >= k
  <2>1. w - k \in 0 .. (n - 1) /\ (k + (w - k) - 1) % n = w - 1
    BY <1>1, <1>3
  <2>2. RowAfter(p, k, w - k) = w
    BY <1>1, <1>2, <2>1
  <2>3. QED
    BY <2>1, <2>2 DEF n
<1>4. CASE w < k
  <2> DEFINE m == (w - k) + n
  <2>1. m \in 0 .. (n - 1) /\ k + m - 1 = n + (w - 1) /\ w - 1 \in 0 .. (n - 1)
    BY <1>1, <1>4
  <2>2. (n + (w - 1)) % n = w - 1
    BY <1>1, <2>1
  <2> HIDE DEF m
  <2>3. RowAfter(p, k, m) = w
    <3>1. RowAfter(p, k, m) = ((k + m - 1) % n) + 1
      BY <1>2, Zenon
    <3>2. (k + m - 1) % n = w - 1
      BY <2>1, <2>2, Zenon
    <3>3. QED
      BY <1>1, <3>1, <3>2
  <2>4. QED
    BY <2>1, <2>3 DEF n
<1>5. QED
  BY <1>1, <1>3, <1>4

\* The rows before a row are rows.
LEMMA RowsBeforeAreRows ==
  ASSUME NEW p, Len(p.gcl) \in Nat \ {0}, NEW k \in 1 .. Len(p.gcl), NEW m \in Nat
  PROVE  RowsBefore(p, k, m) \in SUBSET (1 .. Len(p.gcl))
<1> DEFINE n == Len(p.gcl)
<1>1. n \in Nat \ {0} /\ k \in 1 .. n
  OBVIOUS
<1>2. \A j : RowAfter(p, k, j) = ((k + j - 1) % n) + 1
  BY DEF RowAfter
<1> HIDE DEF n
<1>3. \A j \in Nat : ((k + j - 1) % n) + 1 \in 1 .. n
  BY <1>1
<1>4. \A j \in 0 .. (m - 1) : RowAfter(p, k, j) \in 1 .. n
  BY <1>2, <1>3
<1>5. QED
  BY <1>4 DEF RowsBefore, n

\* A full TC7 burst that arrives as any row starts is out within the WCD.  Each
\* exclusive window takes the whole burst, so that it is served in the first
\* one at the latest, and what it waits for until then is rows that are closed
\* to TC7, each once: part of the blocking time.
LEMMA BurstServed ==
  ASSUME NEW p \in ScheduleParams, ValidateSchedule(p) = "kOk"
  PROVE  DelayBounded(p, kSafetyCritical, WorstCaseDelayNs(p, kSafetyCritical))
<1> DEFINE tc == kSafetyCritical
           n == Len(p.gcl)
           rows == Entries(p)
           b == BurstNs(tc)
           open == IntervalSum(p, OpenRows(p, tc, rows))
           closed == {i \in rows : tc \notin p.gcl[i].gateStates}
<1>1. n \in Nat \ {0} /\ rows = 1 .. n /\ Timed(p, rows) /\ p.cycleTimeNs \in Nat
  <2>1. p.gcl \in Seq(GclEntry) /\ p.cycleTimeNs \in Nat
    BY DEF ScheduleParams
  <2>2. n \in Nat /\ rows = 1 .. n /\ \A i \in rows : p.gcl[i] \in GclEntry
    BY <2>1 DEF Entries
  <2>3. PICK i \in rows : TRUE
    BY AcceptedMeetsSafetyContract
  <2>4. n # 0
    BY <2>2, <2>3
  <2>5. \A j \in rows : RowNs(p, j) \in Nat
    BY <2>2 DEF GclEntry, RowNs
  <2>6. IsFiniteSet(rows)
    <3>1. IsFiniteSet(1 .. n)
      BY <2>2, FS_Interval
    <3>2. QED
      BY <2>2, <3>1
  <2>7. QED
    BY <2>1, <2>2, <2>4, <2>5, <2>6 DEF Timed
<1>2. b = 12304
  BY DEF BurstNs, FrameTransmissionNs, kDefaultBurstBytes, kSafetyCritical, TrafficClass
<1>3. WorstCaseDelayNs(p, tc) = IntervalSum(p, closed) + b
  <2>1. WorstCaseDelayNs(p, tc) = IntervalSum(p, closed) + b + 0
    BY NoHigherBursts, Zenon DEF WorstCaseDelayNs, ComputeBlockingTimeNs
  <2>2. IntervalSum(p, closed) \in Nat
    <3>1. closed \in SUBSET rows
      OBVIOUS
    <3> HIDE DEF closed, rows
    <3>2. QED
      BY <1>1, <3>1, SumInNat
  <2>3. QED
    BY <1>2, <2>1, <2>2
<1>4. PICK w \in rows : tc \in p.gcl[w].gateStates /\ RowNs(p, w) >= b
  <2>1. PICK w \in rows : p.gcl[w].gateStates = {tc}
    BY AcceptedMeetsSafetyContract
  <2>2. p.gcl[w].intervalNs >= FrameTransmissionNs(kMaxFrameSizeBytes)
    BY <2>1, AcceptedMeetsSafetyContract
  <2>3. FrameTransmissionNs(kMaxFrameSizeBytes) = b
    BY <1>2 DEF FrameTransmissionNs, kMaxFrameSizeBytes
  <2>4. QED
    BY <2>1, <2>2, <2>3, Zenon DEF RowNs
<1>5. w \in OpenRows(p, tc, rows) /\ OpenRows(p, tc, rows) \in SUBSET rows
  BY <1>4 DEF OpenRows
<1>6. open \in Nat /\ open >= b
  <2> DEFINE R == OpenRows(p, tc, rows)
             others == R \ {w}
             this == {w}
  <2>1. Parts(rows, R, this, others)
    BY <1>5 DEF Parts
  <2> HIDE DEF R, rows, others, this
  <2>2. /\ IntervalSum(p, this) \in Nat /\ IntervalSum(p, others) \in Nat
        /\ IntervalSum(p, R) = IntervalSum(p, this) + IntervalSum(p, others)
    <3>1. SumOf(p, R, this, others)
      BY <1>1, <2>1, SumOfParts
    <3>2. QED
      BY <3>1 DEF SumOf
  <2>3. IntervalSum(p, this) = RowNs(p, w)
    BY <1>1, <1>4, SumOfRow DEF this
  <2>4. IntervalSum(p, R) \in Nat /\ IntervalSum(p, R) >= b
    BY <1>2, <1>4, <2>2, <2>3
  <2>5. QED
    BY <2>4 DEF R
<1>7. (b - 1) \div open = 0 /\ ((b - 1) % open) + 1 = b
  <2> HIDE DEF b, open
  <2>1. b \in Nat \ {0}
    BY <1>2
  <2>2. QED
    BY <1>6, <2>1, WithinOneCycle
<1>8. ASSUME NEW k \in rows
      PROVE  ServiceDelay(p, tc, b, k) <= WorstCaseDelayNs(p, tc)
  <2> DEFINE rest == ((b - 1) % open) + 1
             openBefore(j) == IntervalSum(p, OpenRows(p, tc, RowsBefore(p, k, j)))
             servingRows == {j \in 0 .. (n - 1) :
                               /\ tc \in p.gcl[RowAfter(p, k, j)].gateStates
                               /\ openBefore(j) + p.gcl[RowAfter(p, k, j)].intervalNs >= rest}
             m == Min(servingRows)
             before == RowsBefore(p, k, m)
             openPart == OpenRows(p, tc, before)
  <2>1. ServiceDelay(p, tc, b, k)
          = ((b - 1) \div open) * p.cycleTimeNs
              + IntervalSum(p, before) + rest - IntervalSum(p, openPart)
    BY Zenon DEF ServiceDelay
  <2>2. servingRows # {}
    <3>1. PICK j \in 0 .. (n - 1) : RowAfter(p, k, j) = w
      BY <1>1, RowComesAround
    <3>2. openBefore(j) \in Nat
      <4>1. RowsBefore(p, k, j) \in SUBSET rows
        BY <1>1, RowsBeforeAreRows
      <4>2. OpenRows(p, tc, RowsBefore(p, k, j)) \in SUBSET rows
        BY <4>1 DEF OpenRows
      <4> HIDE DEF rows
      <4>3. QED
        BY <1>1, <4>2, SumInNat
    <3>3. openBefore(j) + p.gcl[w].intervalNs >= rest
      <4> HIDE DEF b, open, openBefore
      <4>1. RowNs(p, w) \in Nat
        BY <1>1, <1>4 DEF Timed
      <4>2. openBefore(j) + RowNs(p, w) >= b
        BY <1>2, <1>4, <3>2, <4>1
      <4>3. rest = b
        BY <1>7
      <4>4. QED
        BY <4>2, <4>3, Zenon DEF RowNs
    <3>4. j \in servingRows
      <4> HIDE DEF openBefore, rest
      <4>1. QED
        BY <1>4, <3>1, <3>3, Zenon
    <3>5. QED
      BY <3>4
  <2>3. m \in 0 .. (n - 1)
    <3>1. servingRows \in SUBSET Nat /\ servingRows \subseteq 0 .. (n - 1)
      BY <1>1
    <3> HIDE DEF servingRows
    <3>2. \E j \in servingRows : \A i \in servingRows : j <= i
      BY <2>2, <3>1, LeastNatural
    <3>3. m \in servingRows
      BY <3>2, Zenon DEF Min
    <3>4. QED
      BY <3>1, <3>3
  <2> HIDE DEF m
  <2>4. before \in SUBSET rows /\ openPart \in SUBSET before
    <3>1. m \in Nat
      BY <1>1, <2>3
    <3>2. before \in SUBSET rows
      BY <1>1, <3>1, RowsBeforeAreRows
    <3>3. QED
      BY <3>2 DEF OpenRows
  <2> DEFINE shut == before \ openPart
             later == closed \ shut
  <2>5. Parts(rows, before, openPart, shut)
    BY <2>4 DEF Parts
  <2>6. Parts(rows, closed, shut, later)
    BY <2>4 DEF Parts, OpenRows
  <2> HIDE DEF before, openPart, shut, later, closed, rows, b, open
  <2>7. SumOf(p, before, openPart, shut)
    BY <1>1, <2>5, SumOfParts
  <2>8. SumOf(p, closed, shut, later)
    BY <1>1, <2>6, SumOfParts
  <2>9. ServiceDelay(p, tc, b, k)
          = 0 * p.cycleTimeNs + IntervalSum(p, before) + b - IntervalSum(p, openPart)
    BY <1>7, <2>1, Zenon
  <2>10. QED
    <3> DEFINE x == IntervalSum(p, openPart)
               y == IntervalSum(p, shut)
               z == IntervalSum(p, later)
    <3>1. /\ x \in Nat /\ y \in Nat /\ z \in Nat /\ b \in Nat /\ p.cycleTimeNs \in Nat
          /\ ServiceDelay(p, tc, b, k) = 0 * p.cycleTimeNs + (x + y) + b - x
          /\ WorstCaseDelayNs(p, tc) = (y + z) + b
      <4>1. b \in Nat
        BY <1>2
      <4>2. ServiceDelay(p, tc, b, k) = 0 * p.cycleTimeNs + (x + y) + b - x
        BY <2>7, <2>9, Zenon DEF SumOf
      <4>3. WorstCaseDelayNs(p, tc) = (y + z) + b
        BY <1>3, <2>8, Zenon DEF SumOf
      <4>4. QED
        BY <1>1, <2>7, <2>8, <4>1, <4>2, <4>3 DEF SumOf
    <3> HIDE DEF x, y, z
    <3>2. QED
      BY <3>1
<1>9. QED
  BY <1>5, <1>8, Zenon DEF DelayBounded

\* A draft is a schedule.
LEMMA DraftTyped == Spec => [](draft \in ScheduleParams)
<1>1. Init => draft \in ScheduleParams
  <2>1. <<>> \in Seq(GclEntry)
    OBVIOUS
  <2>2. QED
    BY <2>1, DraftAssumption DEF Init, ScheduleParams
<1>2. draft \in ScheduleParams /\ [Next]_draft => (draft \in ScheduleParams)'
  <2> SUFFICES ASSUME draft \in ScheduleParams,
                      NEW gates \in GateMasks, NEW interval \in Intervals,
                      AddEntry(gates, interval)
               PROVE  draft' \in ScheduleParams
    BY DEF Next
  <2> DEFINE row == [gateStates |-> gates, intervalNs |-> interval]
  <2>1. row \in GclEntry
    BY DraftAssumption DEF GclEntry
  <2>2. draft' = [draft EXCEPT !.gcl = Append(draft.gcl, row)]
    BY DEF AddEntry
  <2> HIDE DEF row
  <2>3. draft.gcl \in Seq(GclEntry)
    BY DEF ScheduleParams
  <2>4. Append(draft.gcl, row) \in Seq(GclEntry)
    BY <2>1, <2>3
  <2>5. QED
    BY <2>2, <2>4 DEF ScheduleParams
<1>3. QED
  BY <1>1, <1>2, PTL DEF Spec

\* The ASIL-D guarantee of the pipeline, for schedules of any length: whatever
\* ApplySchedule accepts, a full TC7 burst that arrives at the worst moment is
\* out within the delay that RunNetworkCalculus reports, and that within 500 us.
THEOREM SafetyDeadlineHolds == Spec => []SafetyDeadlineGuaranteed
<1>1. draft \in ScheduleParams => SafetyDeadlineGuaranteed
  <2> SUFFICES ASSUME draft \in ScheduleParams, ValidateSchedule(draft) = "kOk"
               PROVE  LET wcd == NetworkCalculusResult(draft).worstCaseDelayNs[kSafetyCritical]
                      IN  /\ DelayBounded(draft, kSafetyCritical, wcd)
                          /\ wcd <= kSafetyDeadlineNs
    BY DEF SafetyDeadlineGuaranteed, Accepted
  <2>1. NetworkCalculusResult(draft).worstCaseDelayNs[kSafetyCritical]
          = WorstCaseDelayNs(draft, kSafetyCritical)
    BY DEF NetworkCalculusResult, kSafetyCritical, TrafficClass
  <2>2. DelayBounded(draft, kSafetyCritical, WorstCaseDelayNs(draft, kSafetyCritical))
    BY BurstServed
  <2>3. NetworkCalculusResult(draft).worstCaseDelayNs[kSafetyCritical] <= kSafetyDeadlineNs
    BY AcceptedMeetsSafetyContract
  <2>4. QED
    BY <2>1, <2>2, <2>3, Zenon
<1>2. QED
  BY <1>1, DraftTyped, PTL

=============================================================================
