----------------------------- MODULE FrerProofs -----------------------------
(***************************************************************************)
(* Proofs about Frer: the types, that the switch never replicates a stream *)
(* the table does not know, that it implements FrerControl, that no frame  *)
(* is forwarded twice, that a path marked silent is silent, that no        *)
(* operation touches the row of another stream, and that latent error      *)
(* detection raises no false alarm.                                        *)
(***************************************************************************)
EXTENDS Frer, FiniteSetTheorems, TLAPS

-----------------------------------------------------------------------------
(* What the operations make of a row.                                      *)

\* A remainder is below its divisor.
LEMMA Remainder ==
  ASSUME NEW a \in Int, NEW d \in Nat \ {0}
  PROVE  a % d \in 0 .. (d - 1)
OBVIOUS

\* A registered row.
LEMMA NewStreamType ==
  ASSUME NEW h \in Handles
  PROVE  NewStream(h) \in FrerStreamState
BY FrerStreamAssumption DEF NewStream, FrerStreamState

\* A row that a frame reaches keeps its type, its handle and its events.
Kept(new, st) ==
  /\ new \in FrerStreamState
  /\ new.streamHandle = st.streamHandle
  /\ new.latent = st.latent

\* Noting that a path is alive does.
LEMMA PathAliveKeeps ==
  ASSUME NEW st \in FrerStreamState, NEW p \in Paths, NEW t \in Nat
  PROVE  Kept(PathAlive(st, p, t), st)
BY DEF Kept, PathAlive, FrerStreamState

\* Counting a duplicate does.
LEMMA DiscardKeeps ==
  ASSUME NEW st \in FrerStreamState
  PROVE  Kept(Discard(st), st)
BY DEF Kept, Discard, FrerStreamState

\* Accepting a frame does.
LEMMA AcceptKeeps ==
  ASSUME NEW st \in FrerStreamState, NEW seq \in 0 .. (SeqNums - 1)
  PROVE  Kept(Accept(st, seq), st)
<1>1. Bit(seq) \in 0 .. (kHistoryWindowWidth - 1)
  BY Remainder, FrerStreamAssumption DEF Bit
<1> DEFINE m == (IF OutOfWindow(st, seq) THEN {} ELSE st.seqNumHistoryMask) \cup {Bit(seq)}
<1>2. m \in SUBSET (0 .. (kHistoryWindowWidth - 1))
  BY <1>1 DEF FrerStreamState
<1>3. Accept(st, seq) = [st EXCEPT !.seqNumHistoryMask = m, !.lastSeqNum = seq,
                                   !.framesAccepted = st.framesAccepted + 1]
  BY DEF Accept
<1> HIDE DEF m
<1> DEFINE s1 == [st EXCEPT !.seqNumHistoryMask = m]
<1>4. Kept(s1, st)
  BY <1>2 DEF Kept, FrerStreamState
<1> HIDE DEF s1
<1>5. ASSUME NEW s2 \in FrerStreamState, NEW n \in Nat
      PROVE  Kept([s2 EXCEPT !.lastSeqNum = seq, !.framesAccepted = n], s2)
  BY DEF Kept, FrerStreamState
<1>6. st.framesAccepted + 1 \in Nat
  BY DEF FrerStreamState
<1>7. Accept(st, seq) = [s1 EXCEPT !.lastSeqNum = seq,
                                   !.framesAccepted = st.framesAccepted + 1]
  BY <1>3 DEF s1
<1>8. QED
  BY <1>4, <1>5, <1>6, <1>7 DEF Kept

\* A row after a Tick keeps its type and its handle, and forgets no event.
Ticked(new, st) ==
  /\ new \in FrerStreamState
  /\ new.streamHandle = st.streamHandle
  /\ st.latent => new.latent

\* Both monitors of a Tick together do no more.
LEMMA TickStreamKeeps ==
  ASSUME NEW st \in FrerStreamState, NEW t \in Nat
  PROVE  Ticked(TickStream(st, t), st)
<1>1. Kept(MarkSilent(st, t), st)
  BY DEF Kept, MarkSilent, FrerStreamState
<1>2. ASSUME NEW s2 \in FrerStreamState
      PROVE  Ticked(CheckLatentError(s2), s2)
  BY DEF Ticked, CheckLatentError, FrerStreamState
<1>3. QED
  BY <1>1, <1>2 DEF TickStream, Kept, Ticked

-----------------------------------------------------------------------------
(* The inductive invariant: the types, and the handles of the switch are   *)
(* handles of the table.                                                   *)

FrerInv == TypeOK /\ NoOrphanInHardware

\* The initial state.
LEMMA FrerInitial == Init => FrerInv
<1> SUFFICES ASSUME Init PROVE FrerInv
  OBVIOUS
<1>1. initialised \in BOOLEAN /\ NoOrphanInHardware
  BY DEF Init, NoOrphanInHardware
<1>2. streamCount = 0 /\ streams \in [1 .. streamCount -> FrerStreamState]
  BY DEF Init
<1>3. /\ DOMAIN copies = Handles /\ \A h \in Handles : copies[h] \in [Frame(h) -> Nat]
      /\ next \in [Handles -> [Paths -> Nat]]
      /\ heard \in [Handles -> [Paths -> 0 .. MaxTime]]
      /\ now \in 1 .. MaxTime
  BY FrerAssumption DEF Init
<1>4. QED
  BY <1>1, <1>2, <1>3, FrerAssumption DEF Init, FrerInv, TypeOK

\* TypeOK in two parts.
HistoryOK ==
  /\ \A h \in Handles : copies[h] \in [Frame(h) -> Nat]
  /\ DOMAIN copies = Handles
  /\ lost \in SUBSET Handles
  /\ heard \in [Handles -> [Paths -> 0 .. MaxTime]]
  /\ blind \in SUBSET (Handles \X Paths)

TableOK ==
  /\ initialised \in BOOLEAN
  /\ streamCount \in 0 .. kMaxFrerEntries
  /\ streams \in [1 .. streamCount -> FrerStreamState]
  /\ hardware \in SUBSET Handles
  /\ now \in 1 .. MaxTime
  /\ next \in [Handles -> [Paths -> Nat]]

\* Forgetting the history of a stream keeps its types.
LEMMA ForgetType ==
  ASSUME TypeOK, NEW h \in Handles, Forget(h)
  PROVE  HistoryOK'
<1>1. /\ \A g \in Handles : copies'[g] \in [Frame(g) -> Nat]
      /\ DOMAIN copies' = Handles
  BY DEF TypeOK, Forget, Frame
<1>2. lost' \in SUBSET Handles /\ blind' \in SUBSET (Handles \X Paths)
  BY DEF TypeOK, Forget
<1>3. heard' \in [Handles -> [Paths -> 0 .. MaxTime]]
  BY DEF TypeOK, Forget
<1>4. QED
  BY <1>1, <1>2, <1>3 DEF HistoryOK, Frame

\* The registration of a stream.
LEMMA RegisterPreserves ==
  ASSUME FrerInv, NEW h \in Handles, RegisterStream(h)
  PROVE  FrerInv'
<1>1. TypeOK /\ streamCount \in Nat /\ streamCount + 1 \in 0 .. kMaxFrerEntries
  BY FrerAssumption DEF FrerInv, TypeOK, RegisterStream
<1>2. streams' \in [1 .. streamCount' -> FrerStreamState]
  BY <1>1, NewStreamType DEF TypeOK, RegisterStream
<1>3. HistoryOK'
  <2>1. CASE Known(h)
    BY <1>1, <2>1 DEF RegisterStream, history, HistoryOK, TypeOK, Frame
  <2>2. CASE ~Known(h)
    BY <1>1, <2>2, ForgetType DEF RegisterStream
  <2>3. QED
    BY <2>1, <2>2
<1>4. TableOK'
  BY <1>1, <1>2 DEF TableOK, TypeOK, RegisterStream
<1>5. NoOrphanInHardware'
  <2> SUFFICES ASSUME NEW g \in hardware' PROVE Known(g)'
    BY DEF NoOrphanInHardware
  <2>1. CASE g = h
    <3>1. streams'[streamCount + 1].streamHandle = h
      BY <1>1 DEF RegisterStream, NewStream
    <3>2. QED
      BY <1>1, <2>1, <3>1 DEF RegisterStream, Known
  <2>2. CASE g # h
    <3>1. PICK i \in 1 .. streamCount : streams[i].streamHandle = g
      BY <2>2 DEF FrerInv, NoOrphanInHardware, Known, RegisterStream
    <3>2. streams'[i] = streams[i] /\ i \in 1 .. streamCount'
      BY <1>1 DEF RegisterStream
    <3>3. QED
      BY <3>1, <3>2 DEF Known
  <2>3. QED
    BY <2>1, <2>2
<1>6. QED
  BY <1>3, <1>4, <1>5 DEF FrerInv, TypeOK, TableOK, HistoryOK

\* Init, and the steps of the paths and of time that no row notices.
LEMMA OthersPreserve ==
  ASSUME FrerInv,
         FrerInit \/ Elapse \/ \E h \in Handles, p \in Paths : FrameLost(h, p)
  PROVE  FrerInv'
<1>1. CASE FrerInit
  <2>1. TableOK'
    <3>1. initialised' \in BOOLEAN
      BY <1>1 DEF FrerInit
    <3>2. QED
      BY <1>1, <3>1, FrerAssumption DEF FrerInit, FrerInv, TypeOK, TableOK
  <2>2. HistoryOK'
    BY <1>1, FrerAssumption DEF FrerInit, HistoryOK, Frame
  <2>3. NoOrphanInHardware'
    BY <1>1 DEF FrerInit, NoOrphanInHardware
  <2>4. QED
    BY <2>1, <2>2, <2>3 DEF FrerInv, TypeOK, TableOK, HistoryOK
<1>2. CASE Elapse
  <2>1. now' \in 1 .. MaxTime
    BY <1>2, FrerAssumption DEF Elapse, FrerInv, TypeOK
  <2>2. TableOK'
    BY <1>2, <2>1 DEF Elapse, FrerInv, TypeOK, TableOK
  <2>3. HistoryOK'
    BY <1>2 DEF Elapse, history, FrerInv, TypeOK, HistoryOK, Frame
  <2>4. NoOrphanInHardware'
    BY <1>2 DEF Elapse, FrerInv, NoOrphanInHardware, Known
  <2>5. QED
    BY <2>2, <2>3, <2>4 DEF FrerInv, TypeOK, TableOK, HistoryOK
<1>3. ASSUME NEW h \in Handles, NEW p \in Paths, FrameLost(h, p)
      PROVE  FrerInv'
  <2>1. next' \in [Handles -> [Paths -> Nat]]
    BY <1>3 DEF FrameLost, PathAdvances, FrerInv, TypeOK
  <2>2. lost' \in SUBSET Handles
    BY <1>3 DEF FrameLost, FrerInv, TypeOK
  <2>3. QED
    BY <1>3, <2>1, <2>2 DEF FrameLost, FrerInv, TypeOK, NoOrphanInHardware, Known, Frame
<1>4. QED
  BY <1>1, <1>2, <1>3

\* A deregistration: the rows behind the stream move down by one.
LEMMA DeregisterPreserves ==
  ASSUME FrerInv, NEW h \in Handles, DeregisterStream(h)
  PROVE  FrerInv'
<1>0. PICK i \in 1 .. streamCount :
        /\ IsSlot(h, i)
        /\ hardware' = hardware \ {h}
        /\ streams' = [j \in 1 .. (streamCount - 1) |->
                         IF j < i THEN streams[j] ELSE streams[j + 1]]
        /\ streamCount' = streamCount - 1
        /\ Forget(h)
        /\ UNCHANGED <<initialised, now, next>>
  BY DEF DeregisterStream
<1>1. TypeOK /\ streamCount \in Nat /\ streamCount - 1 \in 0 .. kMaxFrerEntries
  BY <1>0, FrerAssumption DEF FrerInv, TypeOK
<1>2. streams' \in [1 .. streamCount' -> FrerStreamState]
  BY <1>0, <1>1 DEF TypeOK
<1>3. TableOK'
  BY <1>0, <1>1, <1>2 DEF TableOK, TypeOK
<1>4. HistoryOK'
  BY <1>0, <1>1, ForgetType
<1>5. NoOrphanInHardware'
  <2> SUFFICES ASSUME NEW g \in hardware' PROVE Known(g)'
    BY DEF NoOrphanInHardware
  <2>1. g # h /\ g \in hardware
    BY <1>0
  <2>2. PICK k \in 1 .. streamCount : streams[k].streamHandle = g
    BY <2>1 DEF FrerInv, NoOrphanInHardware, Known
  <2>3. k # i
    BY <1>0, <2>1, <2>2 DEF IsSlot
  <2>4. CASE k < i
    <3>1. streams'[k] = streams[k] /\ k \in 1 .. streamCount'
      BY <1>0, <1>1, <2>4
    <3>2. QED
      BY <2>2, <3>1 DEF Known
  <2>5. CASE k > i
    <3>1. k - 1 \in 1 .. streamCount' /\ ~(k - 1 < i) /\ (k - 1) + 1 = k
      BY <1>0, <1>1, <2>5
    <3>2. streams'[k - 1] = streams[k]
      BY <1>0, <1>1, <3>1
    <3>3. QED
      BY <2>2, <3>1, <3>2 DEF Known
  <2>6. QED
    BY <1>1, <2>3, <2>4, <2>5
<1>6. QED
  BY <1>3, <1>4, <1>5 DEF FrerInv, TypeOK, TableOK, HistoryOK

\* A frame, forwarded or discarded.
LEMMA FramesPreserve ==
  ASSUME FrerInv, NEW h \in Handles, NEW p \in Paths,
         FrameForwarded(h, p) \/ FrameDiscarded(h, p)
  PROVE  /\ FrerInv'
         /\ streamCount' = streamCount
         /\ \A i \in 1 .. streamCount : /\ streams'[i].latent = streams[i].latent
                                        /\ streams'[i].streamHandle = streams[i].streamHandle
<1>1. PICK i \in 1 .. streamCount, new \in FrerStreamState :
        /\ Receive(h, p, i)
        /\ Kept(new, streams[i])
        /\ streams' = [streams EXCEPT ![i] = new]
        /\ copies' = copies \/ copies' = [copies EXCEPT ![h][next[h][p]] = @ + 1]
  <2> DEFINE k == next[h][p]
  <2>1. SeqNum(k) \in 0 .. (SeqNums - 1)
    <3>1. FirstSeq + k \in Int /\ SeqNums \in Nat \ {0}
      BY FrerAssumption, FrerStreamAssumption DEF FrerInv, TypeOK
    <3>2. QED
      BY <3>1, Remainder DEF SeqNum
  <2>2. ASSUME NEW i \in 1 .. streamCount
        PROVE  LET st == PathAlive(streams[i], p, now)
               IN  Kept(Accept(st, SeqNum(k)), streams[i]) /\ Kept(Discard(st), streams[i])
    <3> DEFINE st == PathAlive(streams[i], p, now)
    <3>1. Kept(st, streams[i])
      BY PathAliveKeeps DEF FrerInv, TypeOK
    <3> HIDE DEF st
    <3>2. Kept(Accept(st, SeqNum(k)), st) /\ Kept(Discard(st), st)
      BY <2>1, <3>1, AcceptKeeps, DiscardKeeps DEF Kept
    <3>3. QED
      BY <3>1, <3>2 DEF Kept, st
  <2>3. CASE FrameForwarded(h, p)
    BY <2>2, <2>3 DEF FrameForwarded, Kept
  <2>4. CASE FrameDiscarded(h, p)
    BY <2>2, <2>4 DEF FrameDiscarded, Kept
  <2>5. QED
    BY <2>3, <2>4
<1>2. streamCount' = streamCount
  BY <1>1 DEF Receive
<1>3. /\ streams' \in [1 .. streamCount -> FrerStreamState]
      /\ \A j \in 1 .. streamCount : /\ streams'[j].latent = streams[j].latent
                                     /\ streams'[j].streamHandle = streams[j].streamHandle
  BY <1>1 DEF FrerInv, TypeOK, Kept
<1>4. next' \in [Handles -> [Paths -> Nat]]
  BY <1>1 DEF Receive, PathAdvances, FrerInv, TypeOK
<1>5. TableOK'
  BY <1>1, <1>2, <1>3, <1>4 DEF Receive, FrerInv, TypeOK, TableOK
<1>6. HistoryOK'
  <2>1. heard' \in [Handles -> [Paths -> 0 .. MaxTime]] /\ blind' \in SUBSET (Handles \X Paths)
    BY <1>1, FrerAssumption DEF Receive, FrerInv, TypeOK
  <2>2. DOMAIN copies' = Handles /\ \A g \in Handles : copies'[g] \in [Frame(g) -> Nat]
    <3> DEFINE k == next[h][p]
               c == [copies[h] EXCEPT ![k] = @ + 1]
    <3>1. k \in Frame(h)
      <4>1. k \in Nat /\ MaxFrames[h] \in Nat
        BY FrerAssumption DEF FrerInv, TypeOK
      <4>2. k < MaxFrames[h]
        BY <1>1 DEF Receive, PathAdvances
      <4>3. QED
        BY <4>1, <4>2 DEF Frame
    <3>2. copies[h] \in [Frame(h) -> Nat] /\ DOMAIN copies = Handles
      BY DEF FrerInv, TypeOK
    <3> HIDE DEF k
    <3>3. c \in [Frame(h) -> Nat]
      BY <3>1, <3>2
    <3>4. copies' = copies \/ copies' = [copies EXCEPT ![h] = c]
      BY <1>1 DEF k
    <3> HIDE DEF c
    <3>5. QED
      BY <3>2, <3>3, <3>4 DEF FrerInv, TypeOK
  <2>3. QED
    BY <1>1, <2>1, <2>2 DEF Receive, FrerInv, TypeOK, HistoryOK, Frame
<1>7. NoOrphanInHardware'
  BY <1>1, <1>2, <1>3 DEF Receive, FrerInv, NoOrphanInHardware, Known
<1>8. QED
  BY <1>2, <1>3, <1>5, <1>6, <1>7 DEF FrerInv, TypeOK, TableOK, HistoryOK

\* A Tick.
LEMMA TickPreserves ==
  ASSUME FrerInv, NEW nowNs \in Nat, Tick(nowNs)
  PROVE  /\ FrerInv'
         /\ streamCount' = streamCount
         /\ \A i \in 1 .. streamCount : /\ streams[i].latent => streams'[i].latent
                                        /\ streams'[i].streamHandle = streams[i].streamHandle
<1>1. \A i \in 1 .. streamCount : Ticked(streams'[i], streams[i])
  BY TickStreamKeeps DEF Tick, FrerInv, TypeOK
<1>2. streamCount' = streamCount /\ streams' \in [1 .. streamCount -> FrerStreamState]
  BY <1>1 DEF Tick, Ticked
<1>3. TableOK'
  BY <1>2 DEF Tick, FrerInv, TypeOK, TableOK
<1>4. HistoryOK'
  BY DEF Tick, Ahead, FrerInv, TypeOK, HistoryOK, Frame
<1>5. NoOrphanInHardware'
  BY <1>1, <1>2 DEF Tick, Ticked, FrerInv, NoOrphanInHardware, Known
<1>6. QED
  BY <1>1, <1>2, <1>3, <1>4, <1>5 DEF Ticked, FrerInv, TypeOK, TableOK, HistoryOK

\* The invariant is inductive.
LEMMA FrerInvariant == Spec => []FrerInv
<1>1. FrerInv /\ [Next]_vars => FrerInv'
  <2> SUFFICES ASSUME FrerInv, [Next]_vars PROVE FrerInv'
    OBVIOUS
  <2>1. CASE UNCHANGED vars
    BY <2>1 DEF vars, FrerInv, TypeOK, NoOrphanInHardware, Known, Frame
  <2>2. CASE \E nowNs \in Readings : Tick(nowNs)
    <3>1. PICK nowNs \in Nat : Tick(nowNs)
      BY <2>2 DEF FrerInv, TypeOK, Readings
    <3>2. QED
      BY <3>1, TickPreserves
  <2>3. CASE FrerInit \/ Elapse \/ \E h \in Handles, p \in Paths : FrameLost(h, p)
    BY <2>3, OthersPreserve
  <2>4. CASE \E h \in Handles, p \in Paths : FrameForwarded(h, p) \/ FrameDiscarded(h, p)
    BY <2>4, FramesPreserve
  <2>5. CASE \E h \in Handles : RegisterStream(h) \/ DeregisterStream(h)
    BY <2>5, RegisterPreserves, DeregisterPreserves
  <2>6. QED
    BY <2>1, <2>2, <2>3, <2>4, <2>5 DEF Next
<1>2. QED
  BY <1>1, FrerInitial, PTL DEF Spec

\* Every variable keeps its type: the table of streams is never over-full, and
\* every row, moved or not, is a whole row.
THEOREM FrerTypeCorrect == Spec => []TypeOK
<1>1. FrerInv => TypeOK
  BY DEF FrerInv
<1>2. QED
  BY <1>1, FrerInvariant, PTL

\* RegisterStream and DeregisterStream, with every refusal of the switch, never
\* leave a stream in hardware that the table does not know.
THEOREM SwitchKnowsOnlyRegistered == Spec => []NoOrphanInHardware
<1>1. FrerInv => NoOrphanInHardware
  BY DEF FrerInv
<1>2. QED
  BY <1>1, FrerInvariant, PTL

-----------------------------------------------------------------------------
(* Refinement of the manager the orchestrator's model is built on.         *)

Latent == \E i \in 1 .. streamCount : streams[i].latent

\* Init.
LEMMA InitRefines ==
  ASSUME FrerInit
  PROVE  Control!Next
<1>1. streamCount' = 0 /\ Latent' = FALSE
  BY DEF FrerInit, Latent
<1>2. Control!FrerInit
  BY <1>1 DEF Latent, Control!FrerInit
<1>3. QED
  BY <1>2 DEF Control!Next

\* A new row has no latent error.
LEMMA RegisterRefines ==
  ASSUME FrerInv, NEW h \in Handles, RegisterStream(h)
  PROVE  Control!Next
<1>1. streamCount \in Nat /\ streamCount < kMaxFrerEntries /\ streamCount' = streamCount + 1
  BY FrerAssumption DEF FrerInv, TypeOK, RegisterStream
<1>2. \A i \in 1 .. streamCount : streams'[i] = streams[i]
  BY <1>1 DEF RegisterStream
<1>3. streams'[streamCount + 1].latent = FALSE
  BY <1>1 DEF RegisterStream, NewStream
<1>4. Latent' <=> Latent
  <2>1. ASSUME NEW i \in 1 .. streamCount' , streams'[i].latent
        PROVE  i \in 1 .. streamCount /\ streams[i].latent
    BY <1>1, <1>2, <1>3, <2>1
  <2>2. \A i \in 1 .. streamCount : i \in 1 .. streamCount'
    BY <1>1
  <2>3. QED
    BY <1>2, <2>1, <2>2 DEF Latent
<1>5. Latent' = Latent
  BY <1>4 DEF Latent
<1>6. Control!RegisterStream
  BY <1>1, <1>5 DEF Latent, Control!RegisterStream
<1>7. QED
  BY <1>6 DEF Control!Next

\* The rows that are left are rows that were there.
LEMMA DeregisterRefines ==
  ASSUME FrerInv, NEW h \in Handles, DeregisterStream(h)
  PROVE  Control!Next
<1>1. streamCount \in Nat /\ streamCount > 0 /\ streamCount' = streamCount - 1
  BY FrerAssumption DEF FrerInv, TypeOK, DeregisterStream
<1>2. ASSUME NEW j \in 1 .. streamCount'
      PROVE  \E i \in 1 .. streamCount : streams'[j] = streams[i]
  BY <1>1 DEF DeregisterStream
<1>3. Latent' => Latent /\ streamCount' > 0
  BY <1>1, <1>2 DEF Latent
<1>4. Latent' \in {FALSE, Latent}
  <2>1. Latent \in BOOLEAN /\ Latent' \in BOOLEAN
    BY DEF Latent
  <2>2. QED
    BY <1>3, <2>1, Zenon
<1>5. Control!DeregisterStream
  BY <1>1, <1>3, <1>4 DEF Latent, Control!DeregisterStream
<1>6. QED
  BY <1>5 DEF Control!Next

\* An empty table ticks without effect.
LEMMA TickRefines ==
  ASSUME FrerInv, NEW nowNs \in Nat, Tick(nowNs)
  PROVE  Control!Next \/ (streamCount' = streamCount /\ Latent' = Latent)
<1>1. streamCount' = streamCount
  BY TickPreserves
<1>2. CASE streamCount = 0
  BY <1>1, <1>2 DEF Latent
<1>3. CASE streamCount # 0
  <2>1. streamCount > 0
    BY <1>3 DEF FrerInv, TypeOK
  <2>2. Latent' \in BOOLEAN
    BY DEF Latent
  <2>3. Control!Tick
    BY <1>1, <2>1, <2>2 DEF Latent, Control!Tick
  <2>4. QED
    BY <2>3 DEF Control!Next
<1>4. QED
  BY <1>2, <1>3

\* Frames and time are invisible to the orchestrator.
LEMMA OthersStutter ==
  ASSUME FrerInv,
         \/ UNCHANGED vars \/ Elapse
         \/ \E h \in Handles, p \in Paths :
              FrameLost(h, p) \/ FrameForwarded(h, p) \/ FrameDiscarded(h, p)
  PROVE  streamCount' = streamCount /\ Latent' = Latent
<1>1. CASE UNCHANGED vars \/ Elapse \/ \E h \in Handles, p \in Paths : FrameLost(h, p)
  BY <1>1 DEF vars, Elapse, FrameLost, Latent
<1>2. ASSUME NEW h \in Handles, NEW p \in Paths, FrameForwarded(h, p) \/ FrameDiscarded(h, p)
      PROVE  streamCount' = streamCount /\ Latent' = Latent
  <2>1. streamCount' = streamCount
        /\ \A i \in 1 .. streamCount : streams'[i].latent = streams[i].latent
    BY <1>2, FramesPreserve
  <2>2. Latent' <=> Latent
    BY <2>1 DEF Latent
  <2>3. QED
    BY <2>1, <2>2 DEF Latent
<1>3. QED
  BY <1>1, <1>2

\* The manager with its sequence recovery makes only the steps that the
\* orchestrator's model takes for it: the table fills and empties by one row, no
\* alarm comes with a new stream, and none outlives the last stream.
THEOREM FrerRefinesControl == Spec => ImplementsFrerControl
<1>1. Init => Control!Init
  <2> SUFFICES ASSUME Init PROVE Control!Init
    OBVIOUS
  <2>1. streamCount = 0 /\ Latent = FALSE
    BY DEF Init, Latent
  <2>2. QED
    BY <2>1 DEF Latent, Control!Init
<1>2. FrerInv /\ [Next]_vars =>
        Control!Next \/ (streamCount' = streamCount /\ Latent' = Latent)
  <2> SUFFICES ASSUME FrerInv, [Next]_vars
               PROVE  Control!Next \/ (streamCount' = streamCount /\ Latent' = Latent)
    OBVIOUS
  <2>1. CASE \E nowNs \in Readings : Tick(nowNs)
    <3>1. PICK nowNs \in Nat : Tick(nowNs)
      BY <2>1 DEF FrerInv, TypeOK, Readings
    <3>2. QED
      BY <3>1, TickRefines
  <2>2. QED
    BY <2>1, InitRefines, RegisterRefines, DeregisterRefines, OthersStutter DEF Next
<1>3. FrerInv /\ [Next]_vars => [Control!Next]_(Control!vars)
  BY <1>2 DEF Latent, Control!vars
<1>4. QED
  BY <1>1, <1>3, FrerInvariant, PTL DEF Spec, ImplementsFrerControl, Control!Spec

-----------------------------------------------------------------------------
(* Where the row of a stream comes from when the table changes.            *)

\* No row moves and no handle changes: the first rows stay what they are.
LEMMA SameSlots ==
  ASSUME FrerInv, streamCount' = streamCount,
         \A j \in 1 .. streamCount : streams'[j].streamHandle = streams[j].streamHandle,
         NEW h, NEW i \in 1 .. streamCount
  PROVE  IsSlot(h, i)' <=> IsSlot(h, i)
<1>1. streamCount \in Nat
  BY FrerAssumption DEF FrerInv, TypeOK
<1>2. \A j \in 1 .. (i - 1) : j \in 1 .. streamCount
  BY <1>1
<1>3. QED
  BY <1>2 DEF IsSlot

\* Registration: the row of a known stream stays its first one.
LEMMA RegisterMoves ==
  ASSUME FrerInv, NEW g \in Handles, RegisterStream(g),
         NEW h, NEW i \in 1 .. streamCount', IsSlot(h, i)'
  PROVE  \/ i \in 1 .. streamCount /\ IsSlot(h, i) /\ streams'[i] = streams[i]
         \/ h = g /\ ~Known(h) /\ streams'[i] = NewStream(h)
<1>1. streamCount \in Nat /\ streamCount' = streamCount + 1
  BY FrerAssumption DEF FrerInv, TypeOK, RegisterStream
<1>2. \A j \in 1 .. streamCount : streams'[j] = streams[j]
  BY <1>1 DEF RegisterStream
<1>3. CASE i = streamCount + 1
  <2>1. streams'[i] = NewStream(g)
    BY <1>1, <1>3 DEF RegisterStream
  <2>2. h = g
    BY <2>1 DEF IsSlot, NewStream
  <2>3. ASSUME NEW j \in 1 .. streamCount, streams[j].streamHandle = h PROVE FALSE
    <3>1. j \in 1 .. (i - 1) /\ streams'[j].streamHandle = h
      BY <1>1, <1>2, <1>3, <2>3
    <3>2. QED
      BY <3>1 DEF IsSlot
  <2>4. QED
    BY <2>1, <2>2, <2>3 DEF Known
<1>4. CASE i \in 1 .. streamCount
  <2>1. \A j \in 1 .. (i - 1) : j \in 1 .. streamCount
    BY <1>1, <1>4
  <2>2. QED
    BY <1>2, <1>4, <2>1 DEF IsSlot
<1>5. QED
  BY <1>1, <1>3, <1>4

\* Deregistration: the compaction moves the first row of another stream by at most
\* one place.  What becomes the first row of the stream itself was hidden before.
LEMMA DeregisterMoves ==
  ASSUME FrerInv, NEW g \in Handles, DeregisterStream(g), NEW i \in 1 .. streamCount'
  PROVE  \E j \in 1 .. streamCount :
           /\ streams'[i] = streams[j]
           /\ ~IsSlot(g, j)
           /\ \A h : h # g => (IsSlot(h, j) <=> IsSlot(h, i)')
<1>1. PICK s \in 1 .. streamCount :
        /\ IsSlot(g, s)
        /\ streams' = [j \in 1 .. (streamCount - 1) |->
                         IF j < s THEN streams[j] ELSE streams[j + 1]]
        /\ streamCount' = streamCount - 1
  BY DEF DeregisterStream
<1>2. streamCount \in Nat
  BY FrerAssumption DEF FrerInv, TypeOK
<1> DEFINE j == IF i < s THEN i ELSE i + 1
<1>3. j \in 1 .. streamCount /\ streams'[i] = streams[j] /\ j # s
  BY <1>1, <1>2
<1>4. ~IsSlot(g, j)
  BY <1>1, <1>2, <1>3 DEF IsSlot
<1>5. ASSUME NEW h, h # g, NEW r \in 1 .. (j - 1), IsSlot(h, i)'
      PROVE  streams[r].streamHandle # h
  <2>1. CASE r = s
    BY <1>1, <1>5, <2>1 DEF IsSlot
  <2>2. CASE r < s
    <3>1. r \in 1 .. (i - 1) /\ streams'[r] = streams[r]
      BY <1>1, <1>2, <2>2
    <3>2. QED
      BY <1>5, <3>1 DEF IsSlot
  <2>3. CASE r > s
    <3>1. r - 1 \in 1 .. (i - 1) /\ streams'[r - 1] = streams[r]
      BY <1>1, <1>2, <2>3
    <3>2. QED
      BY <1>5, <3>1 DEF IsSlot
  <2>4. QED
    BY <1>2, <2>1, <2>2, <2>3
<1>6. ASSUME NEW h, NEW r \in 1 .. (i - 1), IsSlot(h, j)
      PROVE  streams'[r].streamHandle # h
  <2> DEFINE q == IF r < s THEN r ELSE r + 1
  <2>1. q \in 1 .. (j - 1) /\ streams'[r] = streams[q]
    BY <1>1, <1>2
  <2> HIDE DEF j, q
  <2>2. QED
    BY <1>6, <2>1 DEF IsSlot
<1> HIDE DEF j
<1>7. ASSUME NEW h, h # g PROVE IsSlot(h, j) <=> IsSlot(h, i)'
  BY <1>3, <1>5, <1>6, <1>7 DEF IsSlot
<1>8. QED
  BY <1>3, <1>4, <1>7

-----------------------------------------------------------------------------
(* Elimination.  It needs a network that keeps within the history: a path  *)
(* is ahead of another by no more than the window, and the sequence        *)
(* numbers of a talker do not wrap around.                                 *)

WithinWindow ==
  /\ MaxSkew <= kHistoryWindowWidth
  /\ \A h \in Handles : FirstSeq + MaxFrames[h] <= SeqNums

\* Without a wrap, sequence numbers are as far apart as their frames.
LEMMA PlainSeqNum ==
  ASSUME WithinWindow, NEW h \in Handles, NEW k \in Frame(h)
  PROVE  SeqNum(k) = FirstSeq + k
<1>1. FirstSeq + k \in Nat /\ FirstSeq + k < SeqNums /\ SeqNums \in Nat \ {0}
  BY FrerAssumption, FrerStreamAssumption DEF WithinWindow, Frame
<1>2. ASSUME NEW a \in Nat, NEW d \in Nat \ {0}, a < d
      PROVE  a % d = a
  BY <1>2
<1>3. QED
  BY <1>1, <1>2 DEF SeqNum

\* nx: the next frame on each path, cp: the copies forwarded of each frame, m and
\* l: the history and the last number of the row.  Of a frame that has been
\* forwarded either the history knows or no path can bring it any more; it is not
\* far ahead of the last one accepted.
RowOK(nx, cp, h, m, l) ==
  \A k \in Frame(h) : cp[k] > 0 =>
    /\ Bit(SeqNum(k)) \in m \/ \A q \in Paths : nx[q] > k
    /\ SeqNum(k) <= l + MaxSkew
    /\ \E q \in Paths : nx[q] > k
    /\ \E j \in Frame(h) : cp[j] > 0 /\ l = SeqNum(j)

Abreast(nx) == \A p, q \in Paths : nx[p] <= nx[q] + MaxSkew

\* A frame that is lost or discarded.
LEMMA AdvanceKeepsRow ==
  ASSUME NEW h \in Handles, NEW nx \in [Paths -> Nat], NEW nx2 \in [Paths -> Nat],
         \A q \in Paths : nx2[q] >= nx[q], NEW cp, NEW m, NEW l, RowOK(nx, cp, h, m, l)
  PROVE  RowOK(nx2, cp, h, m, l)
<1> SUFFICES ASSUME NEW k \in Frame(h), cp[k] > 0
             PROVE  /\ Bit(SeqNum(k)) \in m \/ \A q \in Paths : nx2[q] > k
                    /\ SeqNum(k) <= l + MaxSkew
                    /\ \E q \in Paths : nx2[q] > k
                    /\ \E j \in Frame(h) : cp[j] > 0 /\ l = SeqNum(j)
  BY DEF RowOK
<1>1. k \in Int
  BY DEF Frame
<1>2. \A q \in Paths : nx[q] > k => nx2[q] > k
  BY <1>1
<1>3. QED
  BY <1>2 DEF RowOK

\* A path moves on only while it is not too far ahead.
LEMMA AdvanceKeepsAbreast ==
  ASSUME NEW nx \in [Paths -> Nat], Abreast(nx), NEW p \in Paths,
         \A q \in Paths : nx[p] < nx[q] + MaxSkew
  PROVE  Abreast([nx EXCEPT ![p] = @ + 1])
BY FrerAssumption DEF Abreast

\* A frame that the history does not know has not been forwarded.
LEMMA FirstCopy ==
  ASSUME NEW h \in Handles, NEW nx \in [Paths -> Nat], NEW cp \in [Frame(h) -> Nat],
         NEW m, NEW l, RowOK(nx, cp, h, m, l),
         NEW p \in Paths, nx[p] \in Frame(h), Bit(SeqNum(nx[p])) \notin m
  PROVE  cp[nx[p]] = 0
<1> DEFINE k == nx[p]
<1>1. ~(cp[k] > 0)
  <2>1. ~(nx[p] > k)
    OBVIOUS
  <2>2. QED
    BY <2>1 DEF RowOK
<1>2. QED
  BY <1>1

\* A frame that is accepted, with or without a reset of the history.
LEMMA AcceptKeepsRow ==
  ASSUME WithinWindow, NEW h \in Handles, NEW nx \in [Paths -> Nat], Abreast(nx),
         NEW cp \in [Frame(h) -> Nat], NEW st \in FrerStreamState,
         RowOK(nx, cp, h, st.seqNumHistoryMask, st.lastSeqNum),
         NEW p \in Paths, NEW f \in Frame(h), f = nx[p],
         NEW nx2 \in [Paths -> Nat], nx2 = [nx EXCEPT ![p] = f + 1],
         NEW cp2 \in [Frame(h) -> Nat], cp2 = [cp EXCEPT ![f] = @ + 1],
         NEW m2, m2 = (IF OutOfWindow(st, SeqNum(f)) THEN {} ELSE st.seqNumHistoryMask)
                        \cup {Bit(SeqNum(f))}
  PROVE  RowOK(nx2, cp2, h, m2, SeqNum(f))
<1> DEFINE m == st.seqNumHistoryMask
           l == st.lastSeqNum
           W == kHistoryWindowWidth
<1>0. /\ l \in Nat /\ W \in Nat /\ MaxSkew \in Nat /\ MaxSkew <= W /\ FirstSeq \in Nat
      /\ Frame(h) \subseteq Nat /\ f \in Nat
      /\ SeqNum(f) = FirstSeq + f
  BY FrerAssumption, FrerStreamAssumption, PlainSeqNum
  DEF FrerStreamState, WithinWindow, Frame
<1>1. nx2[p] > f /\ cp2[f] > 0 /\ Bit(SeqNum(f)) \in m2
  BY <1>0
<1>2. ASSUME NEW k \in Frame(h), cp[k] > 0
      PROVE  /\ Bit(SeqNum(k)) \in m2 \/ \A q \in Paths : nx2[q] > k
             /\ SeqNum(k) <= SeqNum(f) + MaxSkew
             /\ \E q \in Paths : nx2[q] > k
  <2>1. SeqNum(k) = FirstSeq + k /\ k \in Nat
    BY <1>0, PlainSeqNum
  <2>2. PICK q \in Paths : nx[q] > k
    BY <1>2 DEF RowOK
  <2>3. nx[q] <= f + MaxSkew
    BY DEF Abreast
  <2>4. SeqNum(k) <= SeqNum(f) + MaxSkew
    BY <1>0, <2>1, <2>2, <2>3
  <2>5. \A r \in Paths : nx2[r] >= nx[r]
    BY <1>0
  <2>6. nx2[q] > k
    BY <2>1, <2>2, <2>5
  <2>7. CASE ~OutOfWindow(st, SeqNum(f))
    <3>1. m \subseteq m2
      BY <2>7
    <3>2. Bit(SeqNum(k)) \in m \/ \A r \in Paths : nx[r] > k
      BY <1>2 DEF RowOK
    <3>3. QED
      BY <2>1, <2>4, <2>5, <2>6, <3>1, <3>2
  <2>8. CASE OutOfWindow(st, SeqNum(f))
    <3>1. PICK j \in Frame(h) : cp[j] > 0 /\ l = SeqNum(j)
      BY <1>2 DEF RowOK
    <3>2. l = FirstSeq + j /\ j \in Nat
      BY <1>0, <3>1, PlainSeqNum
    <3>3. PICK r \in Paths : nx[r] > j
      BY <3>1 DEF RowOK
    <3>4. nx[r] <= f + MaxSkew
      BY DEF Abreast
    <3>5. SeqNum(f) - l > 2 * W
      BY <1>0, <2>8, <3>2, <3>3, <3>4 DEF OutOfWindow
    <3>6. SeqNum(k) <= l + MaxSkew
      BY <1>2 DEF RowOK
    <3>7. k + MaxSkew < f
      BY <1>0, <2>1, <3>2, <3>5, <3>6
    <3>8. \A s \in Paths : f <= nx[s] + MaxSkew
      BY DEF Abreast
    <3>9. \A s \in Paths : nx2[s] > k
      BY <1>0, <2>1, <2>5, <3>7, <3>8
    <3>10. QED
      BY <2>4, <2>6, <3>9
  <2>9. QED
    BY <2>7, <2>8
<1>3. ASSUME NEW k \in Frame(h), cp2[k] > 0
      PROVE  k = f \/ cp[k] > 0
  BY <1>3
<1>4. SeqNum(f) <= SeqNum(f) + MaxSkew
  BY <1>0
<1>5. QED
  BY <1>1, <1>2, <1>3, <1>4 DEF RowOK

\* The inductive invariant of elimination, for one stream: its paths are abreast
\* and its first row, the one that lookups find, remembers what was forwarded.
Remembers(h, i) ==
  RowOK(next[h], copies[h], h, streams[i].seqNumHistoryMask, streams[i].lastSeqNum)

Eliminates(h) ==
  /\ Abreast(next[h])
  /\ \A k \in Frame(h) : copies[h][k] <= 1
  /\ \A i \in 1 .. streamCount : IsSlot(h, i) => Remembers(h, i)

\* A row is the same for elimination.
SameHistory(new, st) ==
  /\ new.streamHandle = st.streamHandle
  /\ new.seqNumHistoryMask = st.seqNumHistoryMask
  /\ new.lastSeqNum = st.lastSeqNum

\* A step that forwards no frame of stream h: its first row is a row that was its
\* first one, wherever it stood.
LEMMA CarryOver ==
  ASSUME NEW h \in Handles, Eliminates(h), FrerInv, FrerInv', copies'[h] = copies[h],
         \/ next'[h] = next[h]
         \/ \E p \in Paths : /\ \A q \in Paths : next[h][p] < next[h][q] + MaxSkew
                             /\ next'[h] = [next[h] EXCEPT ![p] = @ + 1],
         \A i \in 1 .. streamCount' : IsSlot(h, i)' =>
            \E j \in 1 .. streamCount : IsSlot(h, j) /\ SameHistory(streams'[i], streams[j])
  PROVE  Eliminates(h)'
<1>1. next[h] \in [Paths -> Nat] /\ next'[h] \in [Paths -> Nat]
  BY DEF FrerInv, TypeOK
<1>2. Abreast(next'[h])
  <2>1. Abreast(next[h])
    BY DEF Eliminates
  <2>2. CASE next'[h] = next[h]
    BY <2>1, <2>2
  <2>3. ASSUME NEW p \in Paths, \A q \in Paths : next[h][p] < next[h][q] + MaxSkew,
               next'[h] = [next[h] EXCEPT ![p] = @ + 1]
        PROVE  Abreast(next'[h])
    BY <1>1, <2>1, <2>3, AdvanceKeepsAbreast
  <2>4. QED
    BY <2>2, <2>3
<1>3. \A q \in Paths : next'[h][q] >= next[h][q]
  <2>1. CASE next'[h] = next[h]
    BY <1>1, <2>1
  <2>2. ASSUME NEW p \in Paths, next'[h] = [next[h] EXCEPT ![p] = @ + 1]
        PROVE  \A q \in Paths : next'[h][q] >= next[h][q]
    BY <1>1, <2>2
  <2>3. QED
    BY <2>1, <2>2
<1>4. ASSUME NEW i \in 1 .. streamCount', IsSlot(h, i)'
      PROVE  Remembers(h, i)'
  <2>1. PICK j \in 1 .. streamCount : IsSlot(h, j) /\ SameHistory(streams'[i], streams[j])
    BY <1>4
  <2>2. RowOK(next[h], copies[h], h, streams[j].seqNumHistoryMask, streams[j].lastSeqNum)
    BY <2>1 DEF Eliminates, Remembers
  <2>3. RowOK(next'[h], copies[h], h, streams[j].seqNumHistoryMask, streams[j].lastSeqNum)
    BY <1>1, <1>3, <2>2, AdvanceKeepsRow
  <2>4. QED
    BY <2>1, <2>3 DEF SameHistory, Remembers, RowOK, Frame
<1>5. \A k \in Frame(h) : copies'[h][k] <= 1
  BY DEF Eliminates
<1>6. QED
  BY <1>2, <1>4, <1>5 DEF Eliminates, Abreast, Frame

\* A step that begins the story of stream h anew.
LEMMA StartOver ==
  ASSUME NEW h \in Handles, Eliminates(h), \A k \in Frame(h) : copies'[h][k] = 0,
         next'[h] = next[h]
  PROVE  Eliminates(h)'
<1>1. \A i \in 1 .. streamCount' : Remembers(h, i)'
  BY DEF Remembers, RowOK, Frame
<1>2. QED
  BY <1>1 DEF Eliminates, Abreast, Frame

\* Registration.
LEMMA RegisterEliminates ==
  ASSUME NEW h \in Handles, Eliminates(h), FrerInv, FrerInv', NEW g \in Handles,
         RegisterStream(g)
  PROVE  Eliminates(h)'
<1>1. next' = next
  BY DEF RegisterStream
<1>2. CASE g = h /\ ~Known(h)
  <2>1. \A k \in Frame(h) : copies'[h][k] = 0
    BY <1>2 DEF RegisterStream, Forget, FrerInv, TypeOK
  <2>2. QED
    BY <1>1, <2>1, StartOver
<1>3. CASE g # h \/ Known(h)
  <2>1. copies'[h] = copies[h]
    BY <1>3 DEF RegisterStream, history, Forget, FrerInv, TypeOK
  <2>2. \A i \in 1 .. streamCount' : IsSlot(h, i)' =>
           \E j \in 1 .. streamCount : IsSlot(h, j) /\ SameHistory(streams'[i], streams[j])
    BY <1>3, RegisterMoves DEF SameHistory
  <2>3. QED
    BY <1>1, <2>1, <2>2, CarryOver
<1>4. QED
  BY <1>2, <1>3

\* Deregistration.
LEMMA DeregisterEliminates ==
  ASSUME NEW h \in Handles, Eliminates(h), FrerInv, FrerInv', NEW g \in Handles,
         DeregisterStream(g)
  PROVE  Eliminates(h)'
<1>1. Forget(g) /\ next' = next
  BY DEF DeregisterStream
<1>2. CASE g = h
  <2>1. \A k \in Frame(h) : copies'[h][k] = 0
    BY <1>1, <1>2 DEF Forget, FrerInv, TypeOK
  <2>2. QED
    BY <1>1, <2>1, StartOver
<1>3. CASE g # h
  <2>1. copies'[h] = copies[h]
    BY <1>1, <1>3 DEF Forget, FrerInv, TypeOK
  <2>2. \A i \in 1 .. streamCount' : IsSlot(h, i)' =>
           \E j \in 1 .. streamCount : IsSlot(h, j) /\ SameHistory(streams'[i], streams[j])
    BY <1>3, DeregisterMoves DEF SameHistory
  <2>3. QED
    BY <1>1, <2>1, <2>2, CarryOver
<1>4. QED
  BY <1>2, <1>3

\* A Tick and a duplicate leave the history of a row alone.
LEMMA TickKeepsHistory ==
  ASSUME NEW st \in FrerStreamState, NEW t \in Nat
  PROVE  SameHistory(TickStream(st, t), st)
<1>1. MarkSilent(st, t) \in FrerStreamState /\ SameHistory(MarkSilent(st, t), st)
  BY DEF SameHistory, MarkSilent, FrerStreamState
<1>2. ASSUME NEW s2 \in FrerStreamState
      PROVE  SameHistory(CheckLatentError(s2), s2)
  BY DEF SameHistory, CheckLatentError, FrerStreamState
<1>3. QED
  BY <1>1, <1>2 DEF TickStream, SameHistory

\* Only accepting a frame changes the history.
LEMMA FrameKeepsHistory ==
  ASSUME NEW st \in FrerStreamState, NEW p \in Paths, NEW t \in Nat
  PROVE  /\ PathAlive(st, p, t) \in FrerStreamState
         /\ SameHistory(PathAlive(st, p, t), st)
         /\ SameHistory(Discard(PathAlive(st, p, t)), st)
BY DEF SameHistory, PathAlive, Discard, FrerStreamState

\* Frames that are lost or discarded, Ticks and time: no row moves and no history
\* changes.
LEMMA OthersEliminate ==
  ASSUME NEW h \in Handles, Eliminates(h), FrerInv, FrerInv',
         \/ Elapse
         \/ \E nowNs \in Nat : Tick(nowNs)
         \/ \E g \in Handles, p \in Paths : FrameLost(g, p) \/ FrameDiscarded(g, p)
  PROVE  Eliminates(h)'
<1>1. streamCount' = streamCount /\ copies' = copies
  BY DEF Elapse, history, Tick, FrameLost, FrameDiscarded, Receive
<1>2. \A i \in 1 .. streamCount : SameHistory(streams'[i], streams[i])
  <2>1. CASE Elapse \/ \E g \in Handles, p \in Paths : FrameLost(g, p)
    BY <2>1 DEF Elapse, FrameLost, SameHistory
  <2>2. CASE \E nowNs \in Nat : Tick(nowNs)
    BY <2>2, TickKeepsHistory DEF Tick, FrerInv, TypeOK
  <2>3. ASSUME NEW g \in Handles, NEW p \in Paths, FrameDiscarded(g, p)
        PROVE  \A i \in 1 .. streamCount : SameHistory(streams'[i], streams[i])
    <3>1. PICK s \in 1 .. streamCount :
            streams' = [streams EXCEPT ![s] = Discard(PathAlive(streams[s], p, now))]
      BY <2>3 DEF FrameDiscarded
    <3>2. now \in Nat /\ streams \in [1 .. streamCount -> FrerStreamState]
      BY DEF FrerInv, TypeOK
    <3>3. SameHistory(Discard(PathAlive(streams[s], p, now)), streams[s])
      BY <3>2, FrameKeepsHistory
    <3>4. QED
      BY <3>1, <3>2, <3>3 DEF SameHistory
  <2>4. QED
    BY <2>1, <2>2, <2>3
<1>3. \/ next'[h] = next[h]
      \/ \E p \in Paths : /\ \A q \in Paths : next[h][p] < next[h][q] + MaxSkew
                          /\ next'[h] = [next[h] EXCEPT ![p] = @ + 1]
  <2>1. CASE Elapse \/ \E nowNs \in Nat : Tick(nowNs)
    BY <2>1 DEF Elapse, Tick
  <2>2. ASSUME NEW g \in Handles, NEW p \in Paths, FrameLost(g, p) \/ FrameDiscarded(g, p)
        PROVE  \/ next'[h] = next[h]
               \/ \E q \in Paths : /\ \A r \in Paths : next[h][q] < next[h][r] + MaxSkew
                                   /\ next'[h] = [next[h] EXCEPT ![q] = @ + 1]
    <3>1. PathAdvances(g, p)
      BY <2>2 DEF FrameLost, FrameDiscarded, Receive
    <3>2. QED
      BY <3>1 DEF PathAdvances, FrerInv, TypeOK
  <2>3. QED
    BY <2>1, <2>2
<1>4. \A i \in 1 .. streamCount' : IsSlot(h, i)' =>
         \E j \in 1 .. streamCount : IsSlot(h, j) /\ SameHistory(streams'[i], streams[j])
  <2> SUFFICES ASSUME NEW i \in 1 .. streamCount, IsSlot(h, i)'
               PROVE  IsSlot(h, i)
    BY <1>1, <1>2
  <2>1. QED
    BY <1>1, <1>2, SameSlots DEF SameHistory
<1>5. QED
  BY <1>1, <1>3, <1>4, CarryOver

\* A frame of stream g is forwarded.
LEMMA ForwardEliminates ==
  ASSUME WithinWindow, NEW h \in Handles, Eliminates(h), FrerInv, FrerInv',
         NEW g \in Handles, NEW p \in Paths, FrameForwarded(g, p)
  PROVE  Eliminates(h)'
<1> DEFINE f == next[g][p]
<1>1. PICK s \in 1 .. streamCount :
        /\ Receive(g, p, s)
        /\ ~IsDuplicate(PathAlive(streams[s], p, now), SeqNum(f))
        /\ streams' = [streams EXCEPT ![s] = Accept(PathAlive(streams[s], p, now), SeqNum(f))]
        /\ copies' = [copies EXCEPT ![g][f] = @ + 1]
  BY DEF FrameForwarded
<1> DEFINE st == PathAlive(streams[s], p, now)
<1>2. /\ streams \in [1 .. streamCount -> FrerStreamState]
      /\ streamCount \in Nat /\ now \in Nat /\ streamCount' = streamCount
      /\ next[g] \in [Paths -> Nat] /\ copies[g] \in [Frame(g) -> Nat]
      /\ next \in [Handles -> [Paths -> Nat]] /\ DOMAIN copies = Handles
  BY <1>1, FrerAssumption DEF FrerInv, TypeOK, Receive
<1>3. f \in Frame(g)
  <2>1. f \in Nat /\ MaxFrames[g] \in Nat /\ f < MaxFrames[g]
    BY <1>1, <1>2, FrerAssumption DEF Receive, PathAdvances
  <2>2. QED
    BY <2>1 DEF Frame
<1>4. st \in FrerStreamState /\ SameHistory(st, streams[s])
  BY <1>2, FrameKeepsHistory
<1>5. SeqNum(f) \in 0 .. (SeqNums - 1)
  <2>1. FirstSeq + f \in Int /\ SeqNums \in Nat \ {0}
    BY <1>2, FrerAssumption, FrerStreamAssumption
  <2>2. QED
    BY <2>1, Remainder DEF SeqNum
<1>6. /\ streams'[s] = Accept(st, SeqNum(f))
      /\ \A i \in 1 .. streamCount : i # s => streams'[i] = streams[i]
      /\ next'[g] = [next[g] EXCEPT ![p] = f + 1]
      /\ \A q \in Paths : f < next[g][q] + MaxSkew
      /\ copies'[g] = [copies[g] EXCEPT ![f] = @ + 1]
      /\ \A o \in Handles : o # g => next'[o] = next[o] /\ copies'[o] = copies[o]
  BY <1>1, <1>2 DEF Receive, PathAdvances
<1> HIDE DEF f
<1>7. Accept(st, SeqNum(f)).streamHandle = streams[s].streamHandle
  BY <1>4, <1>5, AcceptKeeps DEF Kept, SameHistory
<1>8. \A i \in 1 .. streamCount : streams'[i].streamHandle = streams[i].streamHandle
  BY <1>6, <1>7
<1>9. ASSUME NEW o, NEW i \in 1 .. streamCount, IsSlot(o, i)' PROVE IsSlot(o, i)
  BY <1>2, <1>8, <1>9, SameSlots
<1>10. CASE h # g
  <2>1. ASSUME NEW i \in 1 .. streamCount, IsSlot(h, i)'
        PROVE  IsSlot(h, i) /\ SameHistory(streams'[i], streams[i])
    <3>1. IsSlot(h, i)
      BY <1>9, <2>1
    <3>2. i # s
      BY <1>1, <1>10, <3>1 DEF Receive, IsSlot
    <3>3. QED
      BY <1>6, <3>1, <3>2 DEF SameHistory
  <2>2. QED
    BY <1>2, <1>6, <1>10, <2>1, CarryOver
<1>11. ASSUME Eliminates(g) PROVE Eliminates(g)'
  <2> DEFINE nx == next[g]
             nx2 == next'[g]
             cp == copies[g]
             cp2 == copies'[g]
             m2 == (IF OutOfWindow(st, SeqNum(f)) THEN {} ELSE st.seqNumHistoryMask)
                     \cup {Bit(SeqNum(f))}
  <2>1. RowOK(nx, cp, g, st.seqNumHistoryMask, st.lastSeqNum)
    BY <1>1, <1>4, <1>11 DEF Receive, Eliminates, Remembers, SameHistory
  <2>2. Bit(SeqNum(f)) \notin st.seqNumHistoryMask
    BY <1>1 DEF IsDuplicate
  <2>3. f = nx[p]
    BY DEF f
  <2>4. /\ nx \in [Paths -> Nat] /\ nx2 \in [Paths -> Nat]
        /\ cp \in [Frame(g) -> Nat] /\ cp2 \in [Frame(g) -> Nat]
    BY DEF FrerInv, TypeOK, Frame
  <2>5. nx2 = [nx EXCEPT ![p] = f + 1] /\ cp2 = [cp EXCEPT ![f] = @ + 1]
    BY <1>6
  <2>6. Abreast(nx) /\ (\A k \in Frame(g) : cp[k] <= 1) /\ \A q \in Paths : nx[p] < nx[q] + MaxSkew
    BY <1>6, <1>11, <2>3 DEF Eliminates
  <2>7. Accept(st, SeqNum(f)).seqNumHistoryMask = m2 /\ Accept(st, SeqNum(f)).lastSeqNum = SeqNum(f)
    <3> HIDE DEF st
    <3>1. QED
      BY <1>4 DEF Accept, FrerStreamState
  <2> HIDE DEF st, nx, nx2, cp, cp2, m2
  <2>8. cp[f] = 0
    BY <1>3, <2>1, <2>2, <2>3, <2>4, FirstCopy
  <2>9. \A k \in Frame(g) : cp2[k] <= 1
    BY <1>3, <2>4, <2>5, <2>6, <2>8
  <2>10. Abreast(nx2)
    <3>1. nx2 = [nx EXCEPT ![p] = @ + 1]
      BY <2>3, <2>4, <2>5
    <3>2. QED
      BY <2>4, <2>6, <3>1, AdvanceKeepsAbreast
  <2>11. RowOK(nx2, cp2, g, m2, SeqNum(f))
    BY <1>3, <1>4, <2>1, <2>3, <2>4, <2>5, <2>6, AcceptKeepsRow DEF m2
  <2>12. ASSUME NEW i \in 1 .. streamCount', IsSlot(g, i)' PROVE Remembers(g, i)'
    <3>1. IsSlot(g, i) /\ IsSlot(g, s)
      BY <1>1, <1>2, <1>9, <2>12 DEF Receive
    <3>2. i = s
      BY <1>2, <3>1 DEF IsSlot
    <3>3. RowOK(next'[g], copies'[g], g, streams'[s].seqNumHistoryMask, streams'[s].lastSeqNum)
      BY <1>6, <2>7, <2>11 DEF nx2, cp2
    <3>4. QED
      BY <3>2, <3>3 DEF Remembers, RowOK, Frame
  <2>13. QED
    BY <2>9, <2>10, <2>12 DEF Eliminates, Abreast, Frame, nx2, cp2
<1>12. QED
  BY <1>10, <1>11

EliminationInv == \A h \in Handles : Eliminates(h)

\* The invariant of elimination is inductive.
LEMMA EliminationInvariant ==
  ASSUME WithinWindow
  PROVE  Spec => []EliminationInv
<1>1. Init => EliminationInv
  <2> SUFFICES ASSUME Init, NEW h \in Handles PROVE Eliminates(h)
    BY DEF EliminationInv
  <2>1. Abreast(next[h]) /\ streamCount = 0
    BY FrerAssumption DEF Init, Abreast
  <2>2. \A k \in Frame(h) : copies[h][k] = 0
    BY DEF Init
  <2>3. QED
    BY <2>1, <2>2 DEF Eliminates
<1>2. FrerInv /\ FrerInv' /\ EliminationInv /\ [Next]_vars => EliminationInv'
  <2> SUFFICES ASSUME FrerInv, FrerInv', EliminationInv, [Next]_vars, NEW h \in Handles
               PROVE  Eliminates(h)'
    BY DEF EliminationInv
  <2>0. Eliminates(h)
    BY DEF EliminationInv
  <2>1. CASE UNCHANGED vars
    BY <2>0, <2>1 DEF vars, Eliminates, Remembers, IsSlot, RowOK, Abreast, Frame
  <2>2. CASE FrerInit
    <3>1. \A k \in Frame(h) : copies'[h][k] = 0
      BY <2>2 DEF FrerInit
    <3>2. next' = next
      BY <2>2 DEF FrerInit
    <3>3. QED
      BY <2>0, <3>1, <3>2, StartOver
  <2>3. CASE \E nowNs \in Readings : Tick(nowNs)
    <3>1. \E nowNs \in Nat : Tick(nowNs)
      BY <2>3 DEF FrerInv, TypeOK, Readings
    <3>2. QED
      BY <2>0, <3>1, OthersEliminate
  <2>4. CASE Elapse \/ \E g \in Handles, p \in Paths : FrameLost(g, p) \/ FrameDiscarded(g, p)
    BY <2>0, <2>4, OthersEliminate
  <2>5. CASE \E g \in Handles, p \in Paths : FrameForwarded(g, p)
    BY <2>0, <2>5, ForwardEliminates
  <2>6. CASE \E g \in Handles : RegisterStream(g) \/ DeregisterStream(g)
    BY <2>0, <2>6, RegisterEliminates, DeregisterEliminates
  <2>7. QED
    BY <2>1, <2>2, <2>3, <2>4, <2>5, <2>6 DEF Next
<1>3. QED
  BY <1>1, <1>2, FrerInvariant, PTL DEF Spec

\* Elimination, in a network that keeps within the history window: while a stream
\* stays registered none of its frames is forwarded twice, for every number of
\* streams, paths and frames, through losses, resets of the history, Ticks, and
\* the compaction of the table for other streams.
THEOREM FramesForwardedOnce == WithinWindow => (Spec => []NoFrameTwice)
<1> SUFFICES ASSUME WithinWindow PROVE Spec => []NoFrameTwice
  OBVIOUS
<1>1. Spec => []EliminationInv
  BY EliminationInvariant
<1>2. EliminationInv => NoFrameTwice
  BY DEF EliminationInv, Eliminates, NoFrameTwice
<1>3. QED
  BY <1>1, <1>2, PTL

-----------------------------------------------------------------------------
(* Silent paths.  A second row of a handle, which no lookup reaches, is as *)
(* registration left it: it has had no frame when it becomes the first.    *)

HiddenRowsNew ==
  \A i \in 1 .. streamCount :
    \/ IsSlot(streams[i].streamHandle, i)
    \/ streams[i] = NewStream(streams[i].streamHandle)

\* A Tick finds nothing to do in a row without a frame.
LEMMA TickNewStream ==
  ASSUME NEW h \in Handles, NEW t
  PROVE  TickStream(NewStream(h), t) = NewStream(h)
<1>1. MarkSilent(NewStream(h), t) = NewStream(h)
  BY DEF MarkSilent, NewStream
<1>2. CheckLatentError(NewStream(h)) = NewStream(h)
  <2>1. TotalFrames(NewStream(h)) = 0
    BY DEF TotalFrames, NewStream
  <2>2. QED
    BY <2>1, FrerStreamAssumption DEF CheckLatentError
<1>3. QED
  BY <1>1, <1>2 DEF TickStream

\* Every step keeps hidden rows new.
LEMMA HiddenRowsStayNew ==
  ASSUME FrerInv, HiddenRowsNew, [Next]_vars
  PROVE  HiddenRowsNew'
<1>0. streams \in [1 .. streamCount -> FrerStreamState] /\ streamCount \in Nat
  BY FrerAssumption DEF FrerInv, TypeOK
<1>1. CASE FrerInit
  BY <1>1 DEF FrerInit, HiddenRowsNew
<1>2. ASSUME NEW g \in Handles, RegisterStream(g) PROVE HiddenRowsNew'
  <2> SUFFICES ASSUME NEW i \in 1 .. (streamCount + 1), NEW h,
                      h = streams'[i].streamHandle, ~IsSlot(h, i)'
               PROVE  streams'[i] = NewStream(h)
    BY <1>2 DEF RegisterStream, HiddenRowsNew
  <2>1. \A j \in 1 .. streamCount : streams'[j] = streams[j]
    BY <1>0, <1>2 DEF RegisterStream
  <2>2. CASE i = streamCount + 1
    <3>1. streams'[i] = NewStream(g)
      BY <1>0, <1>2, <2>2 DEF RegisterStream
    <3>2. NewStream(g).streamHandle = g
      BY DEF NewStream
    <3>3. QED
      BY <3>1, <3>2
  <2>3. CASE i \in 1 .. streamCount
    <3>1. \A j \in 1 .. (i - 1) : j \in 1 .. streamCount
      BY <1>0, <2>3
    <3>2. i \in 1 .. streamCount'
      BY <1>0, <1>2, <2>3 DEF RegisterStream
    <3>3. ~IsSlot(h, i) /\ h = streams[i].streamHandle
      BY <2>1, <2>3, <3>1, <3>2 DEF IsSlot
    <3>4. QED
      BY <2>1, <2>3, <3>3 DEF HiddenRowsNew
  <2>4. QED
    BY <1>0, <2>2, <2>3
<1>3. ASSUME NEW g \in Handles, DeregisterStream(g) PROVE HiddenRowsNew'
  BY <1>3, DeregisterMoves DEF HiddenRowsNew
<1>4. ASSUME NEW g \in Handles, NEW p \in Paths, FrameForwarded(g, p) \/ FrameDiscarded(g, p)
      PROVE  HiddenRowsNew'
  <2>1. PICK s \in 1 .. streamCount :
          IsSlot(g, s) /\ \E new : streams' = [streams EXCEPT ![s] = new]
    BY <1>4 DEF FrameForwarded, FrameDiscarded, Receive
  <2>2. /\ streamCount' = streamCount
        /\ \A i \in 1 .. streamCount : streams'[i].streamHandle = streams[i].streamHandle
    BY <1>4, FramesPreserve
  <2>3. \A i \in 1 .. streamCount : i # s => streams'[i] = streams[i]
    BY <1>0, <2>1
  <2>4. streams[s].streamHandle = g
    BY <2>1 DEF IsSlot
  <2>5. \A h : \A i \in 1 .. streamCount : IsSlot(h, i)' <=> IsSlot(h, i)
    BY <2>2, SameSlots
  <2>6. QED
    BY <2>1, <2>2, <2>3, <2>4, <2>5 DEF HiddenRowsNew
<1>5. ASSUME NEW nowNs \in Nat, Tick(nowNs) PROVE HiddenRowsNew'
  <2>1. /\ streamCount' = streamCount
        /\ \A i \in 1 .. streamCount : streams'[i].streamHandle = streams[i].streamHandle
    BY <1>5, TickPreserves
  <2>2. \A h : \A i \in 1 .. streamCount : IsSlot(h, i)' <=> IsSlot(h, i)
    BY <2>1, SameSlots
  <2>3. \A i \in 1 .. streamCount : streams'[i] = TickStream(streams[i], nowNs)
    BY <1>5 DEF Tick
  <2>4. \A i \in 1 .. streamCount : streams[i].streamHandle \in Handles
    BY <1>0 DEF FrerStreamState
  <2>5. QED
    BY <2>1, <2>2, <2>3, <2>4, TickNewStream DEF HiddenRowsNew
<1>6. CASE Elapse \/ UNCHANGED vars \/ \E g \in Handles, p \in Paths : FrameLost(g, p)
  BY <1>6 DEF Elapse, vars, FrameLost, HiddenRowsNew, IsSlot
<1>7. CASE \E nowNs \in Readings : Tick(nowNs)
  BY <1>5, <1>7 DEF FrerInv, TypeOK, Readings
<1>8. QED
  BY <1>1, <1>2, <1>3, <1>4, <1>6, <1>7 DEF Next

\* hd: when each path of stream h was last heard, bl: the paths that a Tick before
\* its time marked, t: the time.  The row has the time of the last frame of any path.
RowQuiet(st, h, hd, bl, t) ==
  /\ st.lastFrameNs <= t
  /\ st.lastFrameNs = 0 => st.pathHealthMask = Paths
  /\ st.lastFrameNs # 0 => \A p \in Paths : hd[p] <= st.lastFrameNs
  /\ \A p \in Paths \ st.pathHealthMask :
       <<h, p>> \in bl \/ t - hd[p] > RecoveryTimeoutNs

\* A frame on path p.
LEMMA FrameQuiet ==
  ASSUME NEW st \in FrerStreamState, NEW h, NEW hd \in [Paths -> Nat], NEW bl, NEW t \in Nat,
         NEW p \in Paths, RowQuiet(st, h, hd, bl, t), \A q \in Paths : hd[q] <= t, t > 0,
         NEW new, new.lastFrameNs = t, new.pathHealthMask = st.pathHealthMask \cup {p}
  PROVE  RowQuiet(new, h, [hd EXCEPT ![p] = t], bl \ {<<h, p>>}, t)
BY DEF RowQuiet, FrerStreamState

\* A Tick at nowNs: not before the last frame, it marks all paths only after the
\* recovery timeout; before it, the marks go to bk.
LEMMA TickQuiet ==
  ASSUME NEW st \in FrerStreamState, NEW h, NEW hd \in [Paths -> Nat], NEW bl, NEW bk,
         NEW t \in 1 .. MaxTime, RowQuiet(st, h, hd, bl, t), NEW nowNs \in 0 .. t,
         \A p \in Paths : <<h, p>> \in bl => <<h, p>> \in bk,
         nowNs < st.lastFrameNs => \A p \in st.pathHealthMask : <<h, p>> \in bk
  PROVE  RowQuiet(TickStream(st, nowNs), h, hd, bk, t)
<1> DEFINE s1 == MarkSilent(st, nowNs)
<1>1. /\ TickStream(st, nowNs).lastFrameNs = s1.lastFrameNs
      /\ TickStream(st, nowNs).pathHealthMask = s1.pathHealthMask
  <2>1. s1 \in FrerStreamState
    BY DEF MarkSilent, FrerStreamState
  <2> HIDE DEF s1
  <2>2. /\ CheckLatentError(s1).lastFrameNs = s1.lastFrameNs
        /\ CheckLatentError(s1).pathHealthMask = s1.pathHealthMask
    BY <2>1 DEF CheckLatentError, FrerStreamState
  <2>3. QED
    BY <2>2 DEF TickStream, s1
<1>2. s1.lastFrameNs = st.lastFrameNs
  BY DEF MarkSilent, FrerStreamState
<1>3. CASE s1 = st
  BY <1>1, <1>3 DEF RowQuiet
<1>4. CASE s1 # st
  <2>1. st.lastFrameNs # 0 /\ (nowNs - st.lastFrameNs) % Word > RecoveryTimeoutNs
    BY <1>4 DEF MarkSilent
  <2>2. /\ t \in Nat /\ nowNs \in Nat /\ nowNs <= t /\ t < Word /\ st.lastFrameNs \in Nat
        /\ Word \in Nat \ {0} /\ RecoveryTimeoutNs \in Nat
    BY FrerAssumption, FrerStreamAssumption DEF FrerStreamState, RowQuiet
  <2>3. ASSUME NEW a \in Nat, NEW d \in Nat \ {0}, a < d
        PROVE  a % d = a
    BY <2>3
  <2>4. CASE nowNs >= st.lastFrameNs
    <3>1. nowNs - st.lastFrameNs \in Nat /\ nowNs - st.lastFrameNs < Word
      BY <2>2, <2>4
    <3>2. nowNs - st.lastFrameNs > RecoveryTimeoutNs
      BY <2>1, <2>2, <2>3, <3>1
    <3>3. \A p \in Paths : hd[p] <= st.lastFrameNs
      BY <2>1 DEF RowQuiet
    <3>4. \A p \in Paths : t - hd[p] > RecoveryTimeoutNs
      BY <2>2, <3>2, <3>3
    <3>5. QED
      BY <1>1, <1>2, <2>1, <3>3, <3>4 DEF RowQuiet
  <2>5. CASE nowNs < st.lastFrameNs
    <3>1. \A p \in Paths : <<h, p>> \in bk \/ t - hd[p] > RecoveryTimeoutNs
      BY <2>5 DEF RowQuiet
    <3>2. QED
      BY <1>1, <1>2, <2>1, <3>1 DEF RowQuiet
  <2>6. QED
    BY <2>2, <2>4, <2>5
<1>5. QED
  BY <1>3, <1>4

\* The inductive invariant of silence, for one stream.
Quiet(h) ==
  /\ \A p \in Paths : heard[h][p] <= now
  /\ \A i \in 1 .. streamCount :
       IsSlot(h, i) => RowQuiet(streams[i], h, heard[h], blind, now)

\* A row without a frame is quiet.
LEMMA NewStreamQuiet ==
  ASSUME NEW h, NEW hd, NEW bl, NEW t \in Nat
  PROVE  RowQuiet(NewStream(h), h, hd, bl, t)
BY DEF RowQuiet, NewStream

\* Another stream is registered or deregistered: h keeps what is known of it.
LEMMA ForgetOther ==
  ASSUME FrerInv, NEW g \in Handles, NEW h \in Handles, g # h, Forget(g)
  PROVE  heard'[h] = heard[h] /\ \A p : <<h, p>> \in blind' <=> <<h, p>> \in blind
<1>1. heard'[h] = heard[h]
  BY DEF Forget, FrerInv, TypeOK
<1>2. \A p : <<h, p>> \in blind' <=> <<h, p>> \in blind
  BY DEF Forget
<1>3. QED
  BY <1>1, <1>2

\* The rows of the table change.
LEMMA TableStepsQuiet ==
  ASSUME FrerInv, HiddenRowsNew, NEW h \in Handles, Quiet(h), NEW g \in Handles,
         RegisterStream(g) \/ DeregisterStream(g)
  PROVE  Quiet(h)'
<1>1. now \in Nat /\ now' = now /\ heard \in [Handles -> [Paths -> 0 .. MaxTime]]
  BY DEF FrerInv, TypeOK, RegisterStream, DeregisterStream
<1>2. CASE g = h /\ (RegisterStream(g) => ~Known(h))
  <2>1. heard'[h] = [p \in Paths |-> now]
    BY <1>1, <1>2 DEF Forget, RegisterStream, DeregisterStream
  <2>2. ASSUME NEW i \in 1 .. streamCount', IsSlot(h, i)'
        PROVE  RowQuiet(streams'[i], h, heard'[h], blind', now')
    <3>1. streams'[i] = NewStream(h)
      <4>1. CASE RegisterStream(g)
        <5>1. i \notin 1 .. streamCount \/ ~IsSlot(h, i)
          BY <1>2, <4>1 DEF IsSlot, Known
        <5>2. QED
          BY <2>2, <4>1, <5>1, RegisterMoves
      <4>2. CASE DeregisterStream(g)
        <5>1. PICK j \in 1 .. streamCount : streams'[i] = streams[j] /\ ~IsSlot(h, j)
          BY <1>2, <4>2, DeregisterMoves
        <5>2. streams[j].streamHandle = h
          BY <2>2, <5>1 DEF IsSlot
        <5>3. QED
          BY <5>1, <5>2 DEF HiddenRowsNew
      <4>3. QED
        BY <4>1, <4>2
    <3>2. QED
      BY <1>1, <3>1, NewStreamQuiet
  <2>3. QED
    BY <1>1, <2>1, <2>2 DEF Quiet
<1>3. CASE g # h \/ (RegisterStream(g) /\ Known(h))
  <2>1. heard'[h] = heard[h] /\ \A p : <<h, p>> \in blind' <=> <<h, p>> \in blind
    BY <1>3, ForgetOther DEF RegisterStream, DeregisterStream, history
  <2>2. ASSUME NEW i \in 1 .. streamCount', IsSlot(h, i)'
        PROVE  \E j \in 1 .. streamCount : IsSlot(h, j) /\ streams'[i] = streams[j]
    BY <1>3, <2>2, RegisterMoves, DeregisterMoves DEF RegisterStream, DeregisterStream
  <2>3. QED
    BY <1>1, <2>1, <2>2 DEF Quiet, RowQuiet
<1>4. QED
  BY <1>2, <1>3

\* What a frame on path p at time t leaves of a row.
LEMMA FrameMarksRow ==
  ASSUME NEW st \in FrerStreamState, NEW p \in Paths, NEW t \in Nat
  PROVE  /\ \A seq : LET new == Accept(PathAlive(st, p, t), seq)
                     IN  new.lastFrameNs = t /\ new.pathHealthMask = st.pathHealthMask \cup {p}
         /\ LET new == Discard(PathAlive(st, p, t))
            IN  new.lastFrameNs = t /\ new.pathHealthMask = st.pathHealthMask \cup {p}
<1> DEFINE s1 == PathAlive(st, p, t)
<1>1. /\ s1 \in FrerStreamState
      /\ s1.lastFrameNs = t /\ s1.pathHealthMask = st.pathHealthMask \cup {p}
  BY DEF PathAlive, FrerStreamState
<1> HIDE DEF s1
<1>2. \A seq : /\ Accept(s1, seq).lastFrameNs = s1.lastFrameNs
               /\ Accept(s1, seq).pathHealthMask = s1.pathHealthMask
  BY <1>1 DEF Accept, FrerStreamState
<1>3. /\ Discard(s1).lastFrameNs = s1.lastFrameNs
      /\ Discard(s1).pathHealthMask = s1.pathHealthMask
  BY <1>1 DEF Discard, FrerStreamState
<1>4. QED
  BY <1>1, <1>2, <1>3 DEF s1

\* A frame reaches stream g.
LEMMA FramesQuiet ==
  ASSUME FrerInv, NEW h \in Handles, Quiet(h), NEW g \in Handles, NEW p \in Paths,
         FrameForwarded(g, p) \/ FrameDiscarded(g, p)
  PROVE  Quiet(h)'
<1>0. PICK s \in 1 .. streamCount :
        \E new : /\ Receive(g, p, s)
                 /\ new \in {Accept(PathAlive(streams[s], p, now), SeqNum(next[g][p])),
                             Discard(PathAlive(streams[s], p, now))}
                 /\ streams' = [streams EXCEPT ![s] = new]
  BY DEF FrameForwarded, FrameDiscarded
<1>1. PICK new :
        /\ Receive(g, p, s)
        /\ new \in {Accept(PathAlive(streams[s], p, now), SeqNum(next[g][p])),
                    Discard(PathAlive(streams[s], p, now))}
        /\ streams' = [streams EXCEPT ![s] = new]
  BY <1>0
<1>2. /\ streams \in [1 .. streamCount -> FrerStreamState] /\ now \in Nat /\ now > 0
      /\ heard \in [Handles -> [Paths -> 0 .. MaxTime]] /\ now' = now
  BY <1>1 DEF FrerInv, TypeOK, Receive
<1>3. /\ streamCount' = streamCount
      /\ \A o : \A i \in 1 .. streamCount : IsSlot(o, i)' <=> IsSlot(o, i)
  BY FramesPreserve, SameSlots
<1>4. /\ streams'[s] = new
      /\ \A i \in 1 .. streamCount : i # s => streams'[i] = streams[i]
      /\ IsSlot(g, s)
      /\ heard'[g] = [heard[g] EXCEPT ![p] = now]
      /\ \A o \in Handles : o # g => heard'[o] = heard[o]
      /\ blind' = blind \ {<<g, p>>}
  BY <1>1, <1>2 DEF Receive
<1>5. CASE h # g
  <2>1. ASSUME NEW i \in 1 .. streamCount, IsSlot(h, i) PROVE i # s
    BY <1>4, <1>5, <2>1 DEF IsSlot
  <2>2. \A q : <<h, q>> \in blind' <=> <<h, q>> \in blind
    BY <1>4, <1>5
  <2>3. QED
    BY <1>2, <1>3, <1>4, <1>5, <2>1, <2>2 DEF Quiet, RowQuiet
<1>6. CASE h = g
  <2>1. RowQuiet(streams[s], h, heard[h], blind, now) /\ \A q \in Paths : heard[h][q] <= now
    BY <1>4, <1>6 DEF Quiet
  <2>2. new.lastFrameNs = now /\ new.pathHealthMask = streams[s].pathHealthMask \cup {p}
    <3> DEFINE st == streams[s]
    <3>1. st \in FrerStreamState /\ now \in Nat
      BY <1>2
    <3>2. \/ new = Accept(PathAlive(st, p, now), SeqNum(next[g][p]))
          \/ new = Discard(PathAlive(st, p, now))
      BY <1>1
    <3> HIDE DEF st
    <3>3. new.lastFrameNs = now /\ new.pathHealthMask = st.pathHealthMask \cup {p}
      BY <3>1, <3>2, FrameMarksRow
    <3>4. QED
      BY <3>3 DEF st
  <2>3. heard[h] \in [Paths -> Nat]
    BY <1>2, FrerAssumption
  <2>4. RowQuiet(new, h, [heard[h] EXCEPT ![p] = now], blind \ {<<h, p>>}, now)
    BY <1>2, <2>1, <2>2, <2>3, FrameQuiet
  <2>5. ASSUME NEW i \in 1 .. streamCount, IsSlot(h, i) PROVE i = s
    BY <1>2, <1>4, <1>6, <2>5 DEF IsSlot
  <2>6. \A q \in Paths : heard'[h][q] <= now
    <3>1. heard'[h] = [heard[h] EXCEPT ![p] = now]
      BY <1>4, <1>6
    <3>2. \A q \in Paths : heard'[h][q] = now \/ heard'[h][q] = heard[h][q]
      BY <2>3, <3>1
    <3>3. now <= now
      BY <1>2
    <3>4. QED
      BY <2>1, <3>2, <3>3
  <2>7. RowQuiet(streams'[s], h, heard'[h], blind', now')
    BY <1>2, <1>4, <1>6, <2>4
  <2>8. QED
    BY <1>2, <1>3, <2>5, <2>6, <2>7 DEF Quiet
<1>7. QED
  BY <1>5, <1>6

\* A Tick, at any time up to the present.
LEMMA TicksQuiet ==
  ASSUME FrerInv, NEW h \in Handles, Quiet(h), NEW nowNs \in 0 .. now, Tick(nowNs)
  PROVE  Quiet(h)'
<1>1. /\ streams \in [1 .. streamCount -> FrerStreamState]
      /\ heard[h] \in [Paths -> Nat] /\ now \in 1 .. MaxTime
      /\ now' = now /\ heard' = heard /\ nowNs \in Nat
  BY FrerAssumption DEF FrerInv, TypeOK, Tick
<1>2. /\ streamCount' = streamCount
      /\ \A i \in 1 .. streamCount : IsSlot(h, i)' <=> IsSlot(h, i)
  BY <1>1, TickPreserves, SameSlots
<1>3. ASSUME NEW i \in 1 .. streamCount, IsSlot(h, i)
      PROVE  RowQuiet(streams'[i], h, heard[h], blind', now)
  <2> DEFINE st == streams[i]
             bk == blind'
  <2>1. st \in FrerStreamState /\ RowQuiet(st, h, heard[h], blind, now)
    BY <1>1, <1>3 DEF Quiet
  <2>2. streams'[i] = TickStream(st, nowNs)
    BY DEF Tick
  <2>3. \A p \in Paths : <<h, p>> \in blind => <<h, p>> \in bk
    BY DEF Tick
  <2>4. ASSUME nowNs < st.lastFrameNs, NEW p \in st.pathHealthMask
        PROVE  <<h, p>> \in bk
    <3>1. p \in Paths
      BY <2>1 DEF FrerStreamState
    <3>2. <<h, p>> \in Ahead(nowNs)
      BY <1>3, <2>4, <3>1 DEF Ahead
    <3>3. QED
      BY <3>2 DEF Tick
  <2> HIDE DEF st, bk
  <2>5. RowQuiet(TickStream(st, nowNs), h, heard[h], bk, now)
    BY <1>1, <2>1, <2>3, <2>4, TickQuiet
  <2>6. QED
    BY <2>2, <2>5 DEF bk
<1>4. QED
  BY <1>1, <1>2, <1>3 DEF Quiet

\* Time passes, or a frame is lost.
LEMMA OthersQuiet ==
  ASSUME FrerInv, NEW h \in Handles, Quiet(h),
         Elapse \/ UNCHANGED vars \/ \E g \in Handles, p \in Paths : FrameLost(g, p)
  PROVE  Quiet(h)'
<1>1. /\ UNCHANGED <<streamCount, streams, heard, blind>>
      /\ now' \in {now, now + 1} /\ now \in Nat
      /\ heard[h] \in [Paths -> Nat] /\ streams \in [1 .. streamCount -> FrerStreamState]
  BY FrerAssumption DEF FrerInv, TypeOK, Elapse, history, vars, FrameLost
<1>2. \A i \in 1 .. streamCount : IsSlot(h, i)' <=> IsSlot(h, i)
  BY <1>1 DEF IsSlot
<1>3. ASSUME NEW st \in FrerStreamState, RowQuiet(st, h, heard[h], blind, now)
      PROVE  RowQuiet(st, h, heard[h], blind, now')
  BY <1>1, <1>3, FrerStreamAssumption DEF RowQuiet, FrerStreamState
<1>4. \A p \in Paths : heard[h][p] <= now'
  BY <1>1 DEF Quiet
<1>5. QED
  BY <1>1, <1>2, <1>3, <1>4 DEF Quiet

\* A path is declared silent only when it has itself been quiet for the recovery
\* timeout, or by a Tick whose time lay before the last frame of the stream: none,
\* torn or overtaken.  For every number of streams and paths, and however the table
\* is compacted in between.
THEOREM SilenceIsReal == Spec => []SilentPathsAreQuiet
<1> DEFINE Inv == HiddenRowsNew /\ \A h \in Handles : Quiet(h)
<1>1. Init => Inv
  BY DEF Init, HiddenRowsNew, Quiet
<1>2. FrerInv /\ Inv /\ [Next]_vars => Inv'
  <2> SUFFICES ASSUME FrerInv, HiddenRowsNew, \A g \in Handles : Quiet(g), [Next]_vars,
                      NEW h \in Handles
               PROVE  Quiet(h)'
    BY HiddenRowsStayNew
  <2>0. Quiet(h)
    OBVIOUS
  <2>1. CASE FrerInit
    BY <2>1 DEF FrerInit, Quiet, FrerInv, TypeOK
  <2>2. CASE \E g \in Handles : RegisterStream(g) \/ DeregisterStream(g)
    BY <2>0, <2>2, TableStepsQuiet
  <2>3. CASE \E g \in Handles, p \in Paths : FrameForwarded(g, p) \/ FrameDiscarded(g, p)
    BY <2>0, <2>3, FramesQuiet
  <2>4. CASE \E nowNs \in Readings : Tick(nowNs)
    <3>1. PICK nowNs \in 0 .. now : Tick(nowNs)
      BY <2>4 DEF FrerInv, TypeOK, Readings
    <3>2. QED
      BY <2>0, <3>1, TicksQuiet
  <2>5. CASE Elapse \/ UNCHANGED vars \/ \E g \in Handles, p \in Paths : FrameLost(g, p)
    BY <2>0, <2>5, OthersQuiet
  <2>6. QED
    BY <2>1, <2>2, <2>3, <2>4, <2>5 DEF Next
<1>3. Inv => SilentPathsAreQuiet
  BY DEF Quiet, RowQuiet, SilentPathsAreQuiet
<1>4. QED
  BY <1>1, <1>2, <1>3, FrerInvariant, PTL DEF Spec

-----------------------------------------------------------------------------
(* Streams do not disturb one another.                                     *)

RowsOf(h) == {i \in 1 .. streamCount : streams[i].streamHandle = h}

\* The rows of a stream are finitely many, before and after a step.
LEMMA RowsFinite ==
  ASSUME FrerInv, NEW h
  PROVE  /\ IsFiniteSet(RowsOf(h)) /\ Cardinality(RowsOf(h)) \in Nat
         /\ Rows(h) = Cardinality(RowsOf(h))
<1>1. IsFiniteSet(1 .. streamCount)
  <2>1. streamCount \in Int
    BY FrerAssumption DEF FrerInv, TypeOK
  <2>2. QED
    BY <2>1, FS_Interval
<1>2. RowsOf(h) \in SUBSET (1 .. streamCount)
  BY DEF RowsOf
<1>3. IsFiniteSet(RowsOf(h))
  BY <1>1, <1>2, FS_Subset
<1>4. QED
  BY <1>3, FS_CardinalityType DEF Rows, RowsOf

\* Its registration adds a row, its deregistration takes one away.
LEMMA RegisterAddsRow ==
  ASSUME FrerInv, NEW h \in Handles, RegisterStream(h)
  PROVE  Cardinality(RowsOf(h)') # Cardinality(RowsOf(h))
<1>1. streamCount \in Nat /\ streamCount' = streamCount + 1
  BY FrerAssumption DEF FrerInv, TypeOK, RegisterStream
<1>2. \A j \in 1 .. streamCount : streams'[j] = streams[j]
  BY <1>1 DEF RegisterStream
<1>3. streams'[streamCount + 1].streamHandle = h
  <2>1. streams'[streamCount + 1] = NewStream(h)
    BY <1>1 DEF RegisterStream
  <2>2. QED
    BY <2>1 DEF NewStream
<1>4. \A i : i \in 1 .. (streamCount + 1) <=> i \in 1 .. streamCount \/ i = streamCount + 1
  BY <1>1
<1>5. RowsOf(h)' = RowsOf(h) \cup {streamCount + 1}
  BY <1>1, <1>2, <1>3, <1>4 DEF RowsOf
<1>6. streamCount + 1 \notin RowsOf(h)
  BY <1>1 DEF RowsOf
<1>7. QED
  BY <1>5, <1>6, RowsFinite, FS_AddElement

\* Deregistering a stream takes one of its rows.
LEMMA DeregisterTakesRow ==
  ASSUME FrerInv, FrerInv', NEW h \in Handles, DeregisterStream(h)
  PROVE  Cardinality(RowsOf(h)') # Cardinality(RowsOf(h))
<1>1. PICK s \in 1 .. streamCount :
        /\ IsSlot(h, s)
        /\ streams' = [j \in 1 .. (streamCount - 1) |->
                         IF j < s THEN streams[j] ELSE streams[j + 1]]
        /\ streamCount' = streamCount - 1
  BY DEF DeregisterStream
<1>2. streamCount \in Nat
  BY FrerAssumption DEF FrerInv, TypeOK
<1> DEFINE A == RowsOf(h)'
           B == RowsOf(h) \ {s}
           f == [i \in A |-> IF i < s THEN i ELSE i + 1]
<1>3. f \in [A -> B]
  BY <1>1, <1>2 DEF RowsOf
<1>4. \A i, j \in A : f[i] = f[j] => i = j
  BY <1>1, <1>2 DEF RowsOf
<1>5. ASSUME NEW j \in B PROVE \E i \in A : f[i] = j
  <2> DEFINE i == IF j < s THEN j ELSE j - 1
  <2>1. i \in 1 .. (streamCount - 1) /\ j = IF i < s THEN i ELSE i + 1
    BY <1>1, <1>2 DEF RowsOf
  <2>2. streams'[i] = streams[j]
    BY <1>1, <1>2, <2>1
  <2>3. i \in A
    BY <1>1, <2>1, <2>2 DEF RowsOf
  <2>4. QED
    BY <2>1, <2>3
<1>6. ExistsBijection(A, B)
  <2> HIDE DEF A, B, f
  <2>1. f \in Bijection(A, B)
    BY <1>3, <1>4, <1>5 DEF Bijection, Injection, Surjection, IsInjective
  <2>2. QED
    BY <2>1 DEF ExistsBijection
<1>7. IsFiniteSet(RowsOf(h)) /\ Cardinality(RowsOf(h)) \in Nat /\ s \in RowsOf(h)
  BY <1>1, RowsFinite DEF RowsOf, IsSlot
<1>8. IsFiniteSet(A)
  <2>1. IsFiniteSet(1 .. (streamCount - 1))
    BY <1>2, FS_Interval
  <2>2. A \in SUBSET (1 .. (streamCount - 1))
    BY <1>1 DEF RowsOf
  <2>3. QED
    BY <2>1, <2>2, FS_Subset
<1> HIDE DEF A, B
<1>9. Cardinality(B) = Cardinality(A)
  BY <1>6, <1>8, FS_Bijection
<1>10. Cardinality(B) = Cardinality(RowsOf(h)) - 1
  BY <1>7, FS_RemoveElement DEF B
<1>11. QED
  BY <1>7, <1>9, <1>10 DEF A

\* The first row of another stream is found again after the table has changed.
LEMMA OthersKeepRow ==
  ASSUME FrerInv, NEW g \in Handles, NEW h, g # h, RegisterStream(g) \/ DeregisterStream(g),
         NEW j \in 1 .. streamCount, IsSlot(h, j)
  PROVE  \E i \in 1 .. streamCount' : IsSlot(h, i)' /\ streams'[i] = streams[j]
<1>1. streamCount \in Nat
  BY FrerAssumption DEF FrerInv, TypeOK
<1>2. CASE RegisterStream(g)
  <2>1. j \in 1 .. streamCount' /\ \A r \in 1 .. j : streams'[r] = streams[r]
    BY <1>1, <1>2 DEF RegisterStream
  <2>2. \A r \in 1 .. (j - 1) : r \in 1 .. j
    BY <1>1
  <2>3. j \in 1 .. j
    BY <1>1
  <2>4. QED
    BY <2>1, <2>2, <2>3 DEF IsSlot
<1>3. CASE DeregisterStream(g)
  <2>1. PICK s \in 1 .. streamCount :
          /\ IsSlot(g, s)
          /\ streams' = [r \in 1 .. (streamCount - 1) |->
                           IF r < s THEN streams[r] ELSE streams[r + 1]]
          /\ streamCount' = streamCount - 1
    BY <1>3 DEF DeregisterStream
  <2>2. j # s
    BY <2>1 DEF IsSlot
  <2> DEFINE i == IF j < s THEN j ELSE j - 1
  <2>3. i \in 1 .. streamCount' /\ streams'[i] = streams[j]
    BY <1>1, <2>1, <2>2
  <2>4. ASSUME NEW r \in 1 .. (i - 1) PROVE streams'[r].streamHandle # h
    <3> DEFINE q == IF r < s THEN r ELSE r + 1
    <3>1. q \in 1 .. (j - 1) /\ streams'[r] = streams[q]
      BY <1>1, <2>1, <2>2
    <3> HIDE DEF i, q
    <3>2. QED
      BY <3>1 DEF IsSlot
  <2> HIDE DEF i
  <2>5. QED
    BY <2>3, <2>4 DEF IsSlot
<1>4. QED
  BY <1>2, <1>3

\* What is known of a stream changes only by its own frames, by its own registration
\* and deregistration, by a Tick and by Init: the compaction of the table for another
\* stream moves its row whole, for every size of the table.
THEOREM StreamsKeptApart == Spec => StreamsIndependent
<1> DEFINE Apart(h) ==
      View(h)' # View(h) =>
        \/ next'[h] # next[h]
        \/ Rows(h)' # Rows(h)
        \/ streamCount' = streamCount /\ next' = next
<1>1. ASSUME FrerInv, FrerInv', [Next]_vars, NEW h \in Handles
      PROVE  Apart(h)
  <2>0. /\ streams \in [1 .. streamCount -> FrerStreamState]
        /\ next \in [Handles -> [Paths -> Nat]]
    BY <1>1 DEF FrerInv, TypeOK
  <2>1. ASSUME \A i \in 1 .. streamCount' : IsSlot(h, i)' =>
                 \E j \in 1 .. streamCount : IsSlot(h, j) /\ streams'[i] = streams[j],
               \A j \in 1 .. streamCount : IsSlot(h, j) =>
                 \E i \in 1 .. streamCount' : IsSlot(h, i)' /\ streams'[i] = streams[j]
        PROVE  Apart(h)
    BY <2>1 DEF View
  <2>2. ASSUME Cardinality(RowsOf(h)') # Cardinality(RowsOf(h)) PROVE Apart(h)
    BY <2>2 DEF Rows, RowsOf
  <2>3. ASSUME NEW g \in Handles, RegisterStream(g) \/ DeregisterStream(g) PROVE Apart(h)
    <3>1. CASE g = h
      BY <1>1, <2>2, <2>3, <3>1, RegisterAddsRow, DeregisterTakesRow
    <3>2. CASE g # h
      <4>1. \A i \in 1 .. streamCount' : IsSlot(h, i)' =>
              \E j \in 1 .. streamCount : IsSlot(h, j) /\ streams'[i] = streams[j]
        BY <1>1, <2>3, <3>2, RegisterMoves, DeregisterMoves
      <4>2. \A j \in 1 .. streamCount : IsSlot(h, j) =>
              \E i \in 1 .. streamCount' : IsSlot(h, i)' /\ streams'[i] = streams[j]
        BY <1>1, <2>3, <3>2, OthersKeepRow
      <4>3. QED
        BY <2>1, <4>1, <4>2
    <3>3. QED
      BY <3>1, <3>2
  <2>4. ASSUME NEW g \in Handles, NEW p \in Paths, FrameForwarded(g, p) \/ FrameDiscarded(g, p)
        PROVE  Apart(h)
    <3>1. PICK s, new :
            /\ s \in 1 .. streamCount /\ IsSlot(g, s) /\ PathAdvances(g, p)
            /\ streams' = [streams EXCEPT ![s] = new]
      BY <2>4 DEF FrameForwarded, FrameDiscarded, Receive
    <3>2. CASE g = h
      <4>1. next'[h] = [next[h] EXCEPT ![p] = next[h][p] + 1] /\ next[h][p] \in Nat
        BY <2>0, <3>1, <3>2 DEF PathAdvances
      <4>2. next'[h][p] # next[h][p]
        BY <2>0, <4>1
      <4>3. QED
        BY <4>2
    <3>3. CASE g # h
      <4>1. /\ streamCount' = streamCount
            /\ \A i \in 1 .. streamCount : IsSlot(h, i)' <=> IsSlot(h, i)
        BY <1>1, <2>4, FramesPreserve, SameSlots
      <4>2. \A i \in 1 .. streamCount : IsSlot(h, i) => streams'[i] = streams[i]
        BY <2>0, <3>1, <3>3 DEF IsSlot
      <4>3. QED
        BY <2>1, <4>1, <4>2
    <3>4. QED
      BY <3>2, <3>3
  <2>5. CASE FrerInit
    <3>1. RowsOf(h)' = {}
      BY <2>5 DEF FrerInit, RowsOf
    <3>2. View(h)' = {}
      BY <2>5 DEF FrerInit, View
    <3>3. View(h) # {} => RowsOf(h) # {}
      BY DEF View, RowsOf, IsSlot
    <3>4. RowsOf(h) # {} => Cardinality(RowsOf(h)) # 0
      BY <1>1, RowsFinite, FS_EmptySet
    <3>5. Cardinality(RowsOf(h)') = 0
      BY <3>1, FS_EmptySet
    <3>6. QED
      BY <2>2, <3>2, <3>3, <3>4, <3>5
  <2>6. CASE Elapse \/ \E nowNs \in Readings : Tick(nowNs)
    BY <2>6 DEF Elapse, Tick
  <2>7. CASE UNCHANGED vars \/ \E g \in Handles, p \in Paths : FrameLost(g, p)
    BY <2>7 DEF vars, FrameLost, View, IsSlot
  <2>8. QED
    BY <1>1, <2>3, <2>4, <2>5, <2>6, <2>7 DEF Next
<1>2. FrerInv /\ FrerInv' /\ [Next]_vars => [\A h \in Handles : Apart(h)]_vars
  BY <1>1
<1>3. QED
  BY <1>2, FrerInvariant, PTL DEF Spec, StreamsIndependent

-----------------------------------------------------------------------------
(* Latent error detection, for streams with two paths.                     *)

\* A frame comes over exactly two paths.
TwoPaths == \E p, q : p # q /\ Paths = {p, q}

\* The two, by name.
PathA == CHOOSE p \in Paths : TRUE
PathB == CHOOSE p \in Paths \ {PathA} : TRUE

\* One path is ahead of the other by so little that the frames it has in hand cannot
\* push the duplicates of a whole window below the threshold: with the code's 10000
\* frames and 5 per cent, by no more than 4500 frames, where the history allows 32.
SkewTolerated ==
  /\ kLedThresholdPercent <= 50
  /\ 100 * MaxSkew <= kLedWindowFrames * (50 - kLedThresholdPercent)

\* The names stand for both paths.
LEMMA PathsNamed ==
  ASSUME TwoPaths
  PROVE  PathA # PathB /\ Paths = {PathA, PathB}
<1>1. PICK p, q : p # q /\ Paths = {p, q}
  BY DEF TwoPaths
<1>2. PathA \in Paths
  BY <1>1 DEF PathA
<1>3. PathB \in Paths \ {PathA}
  BY <1>1, <1>2 DEF PathB
<1>4. QED
  BY <1>1, <1>2, <1>3

\* A quotient is at least t when the dividend holds t divisors.
LEMMA QuotientAtLeast ==
  ASSUME NEW n \in Nat, NEW m \in Nat \ {0}, NEW t \in Nat, n >= m * t
  PROVE  n \div m >= t
<1>1. n \div m \in Nat /\ n < (m * (n \div m)) + m
  <2>1. n = (m * (n \div m)) + (n % m) /\ n % m \in 0 .. (m - 1) /\ n \div m \in Nat
    BY SMT
  <2>2. QED
    BY <2>1
<1>2. ASSUME NEW q \in Nat, n < (m * q) + m PROVE q >= t
  <2>1. CASE q < t
    <3>1. m * t >= (m * q) + m
      BY <2>1, SMT
    <3>2. m * t \in Nat /\ m * q \in Nat
      BY SMT
    <3>3. QED
      BY <1>2, <3>1, <3>2
  <2>2. QED
    BY <2>1
<1>3. QED
  BY <1>1, <1>2

\* Of a whole window of frames enough are duplicates.
LEMMA EnoughDuplicates ==
  ASSUME SkewTolerated, NEW dis \in Nat, NEW total \in Nat,
         2 * dis >= total - (2 * MaxSkew), total >= kLedWindowFrames
  PROVE  (dis * 100) \div total >= kLedThresholdPercent
<1> DEFINE L == kLedWindowFrames
           t == kLedThresholdPercent
           d == 50 - t
<1>1. t \in Nat /\ L \in Nat \ {0} /\ d \in Nat /\ MaxSkew \in Nat /\ 100 * MaxSkew <= L * d
  BY FrerAssumption, FrerStreamAssumption DEF SkewTolerated
<1> HIDE DEF L
<1>2. L * d <= total * d /\ total * d \in Nat /\ L * d \in Nat
  <2>1. L <= total
    BY DEF L
  <2> HIDE DEF d
  <2>2. ASSUME NEW x \in Nat, NEW y \in Nat, NEW z \in Nat, x <= y
        PROVE  x * z <= y * z /\ x * z \in Nat /\ y * z \in Nat
    BY <2>2, SMT
  <2>3. QED
    BY <1>1, <2>1, <2>2
<1>3. total * d = (50 * total) - (total * t) /\ total * t \in Nat
  <2> HIDE DEF t
  <2>1. QED
    BY <1>1, SMT
<1>4. dis * 100 >= total * t
  <2> HIDE DEF t, d
  <2>1. QED
    BY <1>1, <1>2, <1>3
<1>5. dis * 100 \in Nat /\ total \in Nat \ {0}
  BY <1>1 DEF L
<1> HIDE DEF t
<1>6. (dis * 100) \div total >= t
  BY <1>1, <1>4, <1>5, QuotientAtLeast
<1>7. QED
  BY <1>6 DEF t

\* The frames of which a copy was forwarded.
Sent(cp, h) == {k \in Frame(h) : cp[k] > 0}

\* acc and dis count the frames that path A brought since sa and path B since sb, and
\* those forwarded are among them.
Balanced(acc, dis, nx, cp, h, sa, sb) ==
  /\ sa <= nx[PathA] /\ sb <= nx[PathB]
  /\ sa <= sb + MaxSkew /\ sb <= sa + MaxSkew
  /\ acc + dis = (nx[PathA] - sa) + (nx[PathB] - sb)
  /\ acc = Cardinality(Sent(cp, h))
  /\ \A k \in Sent(cp, h) : /\ sa <= k \/ sb <= k
                            /\ k < nx[PathA] \/ k < nx[PathB]

\* Frames of both paths overlap, save for what one is ahead of the other at the
\* beginning and at the end; every frame in the overlap was discarded once.
LEMMA OverlapDiscarded ==
  ASSUME NEW acc \in Nat, NEW dis \in Nat, NEW nx, NEW cp, NEW h \in Handles,
         NEW sa \in Nat, NEW sb \in Nat, nx[PathA] \in Nat, nx[PathB] \in Nat,
         Balanced(acc, dis, nx, cp, h, sa, sb),
         nx[PathA] <= nx[PathB] + MaxSkew, nx[PathB] <= nx[PathA] + MaxSkew
  PROVE  2 * dis >= (acc + dis) - (2 * MaxSkew)
<1> DEFINE lo == IF sa <= sb THEN sa ELSE sb
           hi == IF nx[PathA] <= nx[PathB] THEN nx[PathB] ELSE nx[PathA]
<1>1. lo \in Int /\ hi \in Int /\ lo <= hi /\ MaxSkew \in Nat
  BY FrerAssumption DEF Balanced
<1>2. Sent(cp, h) \in SUBSET (lo .. (hi - 1))
  <2> SUFFICES ASSUME NEW k \in Sent(cp, h) PROVE k \in lo .. (hi - 1)
    OBVIOUS
  <2>1. k \in Nat
    <3>1. MaxFrames[h] \in Nat
      BY FrerAssumption
    <3>2. QED
      BY <3>1 DEF Sent, Frame
  <2>2. (sa <= k \/ sb <= k) /\ (k < nx[PathA] \/ k < nx[PathB])
    BY DEF Balanced
  <2>3. QED
    BY <2>1, <2>2
<1>3. acc <= hi - lo
  <2> HIDE DEF lo, hi
  <2>1. /\ IsFiniteSet(lo .. (hi - 1))
        /\ Cardinality(lo .. (hi - 1)) = IF lo > hi - 1 THEN 0 ELSE ((hi - 1) - lo) + 1
    <3>1. hi - 1 \in Int
      BY <1>1
    <3>2. QED
      BY <1>1, <3>1, FS_Interval
  <2>2. Cardinality(Sent(cp, h)) <= Cardinality(lo .. (hi - 1))
    BY <1>2, <2>1, FS_Subset
  <2>3. Cardinality(lo .. (hi - 1)) <= hi - lo /\ Cardinality(lo .. (hi - 1)) \in Int
    BY <1>1, <2>1
  <2>4. acc = Cardinality(Sent(cp, h))
    BY DEF Balanced
  <2>5. QED
    BY <1>1, <2>2, <2>3, <2>4
<1>4. QED
  BY <1>1, <1>3 DEF Balanced

\* A row without a frame is balanced.
LEMMA NewBalanced ==
  ASSUME NEW nx \in [Paths -> Nat], Abreast(nx), TwoPaths, NEW cp, NEW h,
         \A k \in Frame(h) : cp[k] = 0
  PROVE  \E sa, sb \in Nat : Balanced(0, 0, nx, cp, h, sa, sb)
<1>1. PathA \in Paths /\ PathB \in Paths
  BY PathsNamed
<1>2. nx[PathA] \in Nat /\ nx[PathB] \in Nat
  BY <1>1
<1>3. /\ nx[PathA] <= nx[PathB] + MaxSkew /\ nx[PathB] <= nx[PathA] + MaxSkew
  BY <1>1 DEF Abreast
<1>4. Sent(cp, h) = {}
  BY DEF Sent
<1>5. Cardinality(Sent(cp, h)) = 0
  BY <1>4, FS_EmptySet
<1>6. Balanced(0, 0, nx, cp, h, nx[PathA], nx[PathB])
  BY <1>2, <1>3, <1>4, <1>5 DEF Balanced
<1>7. QED
  BY <1>2, <1>6

\* A duplicate of path p.
LEMMA DiscardBalanced ==
  ASSUME NEW acc \in Nat, NEW dis \in Nat, NEW nx \in [Paths -> Nat], TwoPaths, NEW cp,
         NEW h \in Handles, NEW sa \in Nat, NEW sb \in Nat,
         Balanced(acc, dis, nx, cp, h, sa, sb),
         NEW p \in Paths, NEW nx2, nx2 = [nx EXCEPT ![p] = nx[p] + 1]
  PROVE  Balanced(acc, dis + 1, nx2, cp, h, sa, sb)
<1>1. PathA \in Paths /\ PathB \in Paths /\ PathA # PathB /\ p \in {PathA, PathB}
  BY PathsNamed
<1>2. nx[PathA] \in Nat /\ nx[PathB] \in Nat
  BY <1>1
<1>3. \A k \in Sent(cp, h) : k \in Nat
  <2>1. MaxFrames[h] \in Nat
    BY FrerAssumption
  <2>2. QED
    BY <2>1 DEF Sent, Frame
<1>4. \/ nx2[PathA] = nx[PathA] + 1 /\ nx2[PathB] = nx[PathB]
      \/ nx2[PathB] = nx[PathB] + 1 /\ nx2[PathA] = nx[PathA]
  BY <1>1
<1>5. /\ sa <= nx2[PathA] /\ sb <= nx2[PathB]
      /\ sa <= sb + MaxSkew /\ sb <= sa + MaxSkew
  BY <1>2, <1>4 DEF Balanced
<1>6. acc + (dis + 1) = (nx2[PathA] - sa) + (nx2[PathB] - sb)
  <2>1. acc + dis = (nx[PathA] - sa) + (nx[PathB] - sb)
    BY DEF Balanced
  <2>2. QED
    BY <1>2, <1>4, <2>1
<1>7. ASSUME NEW k \in Sent(cp, h)
      PROVE  /\ sa <= k \/ sb <= k
             /\ k < nx2[PathA] \/ k < nx2[PathB]
  <2>1. k \in Nat /\ (sa <= k \/ sb <= k) /\ (k < nx[PathA] \/ k < nx[PathB])
    BY <1>3 DEF Balanced
  <2>2. QED
    BY <1>2, <1>4, <2>1
<1>8. acc = Cardinality(Sent(cp, h))
  BY DEF Balanced
<1>9. QED
  BY <1>5, <1>6, <1>7, <1>8 DEF Balanced

\* A first copy, from path p.
LEMMA AcceptBalanced ==
  ASSUME NEW acc \in Nat, NEW dis \in Nat, NEW nx \in [Paths -> Nat], TwoPaths,
         NEW h \in Handles, NEW cp \in [Frame(h) -> Nat], NEW sa \in Nat, NEW sb \in Nat,
         Balanced(acc, dis, nx, cp, h, sa, sb),
         NEW p \in Paths, nx[p] \in Frame(h), cp[nx[p]] = 0,
         NEW nx2, nx2 = [nx EXCEPT ![p] = nx[p] + 1],
         NEW cp2, cp2 = [cp EXCEPT ![nx[p]] = 1]
  PROVE  Balanced(acc + 1, dis, nx2, cp2, h, sa, sb)
<1> DEFINE f == nx[p]
<1>1. PathA \in Paths /\ PathB \in Paths /\ PathA # PathB /\ p \in {PathA, PathB}
  BY PathsNamed
<1>2. nx[PathA] \in Nat /\ nx[PathB] \in Nat /\ f \in Nat
  BY <1>1
<1>3. \A k \in Frame(h) : k \in Nat
  <2>1. MaxFrames[h] \in Nat
    BY FrerAssumption
  <2>2. QED
    BY <2>1 DEF Frame
<1>4. \/ p = PathA /\ nx2[PathA] = nx[PathA] + 1 /\ nx2[PathB] = nx[PathB]
      \/ p = PathB /\ nx2[PathB] = nx[PathB] + 1 /\ nx2[PathA] = nx[PathA]
  BY <1>1
<1>5. Sent(cp2, h) = Sent(cp, h) \cup {f} /\ f \notin Sent(cp, h)
  BY DEF Sent
<1>6. Cardinality(Sent(cp2, h)) = Cardinality(Sent(cp, h)) + 1
  <2>1. IsFiniteSet(Frame(h))
    <3>1. 0 \in Int /\ MaxFrames[h] - 1 \in Int
      BY FrerAssumption
    <3>2. IsFiniteSet(0 .. (MaxFrames[h] - 1))
      BY <3>1, FS_Interval
    <3>3. QED
      BY <3>2 DEF Frame
  <2>2. IsFiniteSet(Sent(cp, h))
    <3>1. Sent(cp, h) \in SUBSET Frame(h)
      BY DEF Sent
    <3>2. QED
      BY <2>1, <3>1, FS_Subset
  <2>3. QED
    BY <1>5, <2>2, FS_AddElement
<1>7. ASSUME NEW k \in Sent(cp2, h)
      PROVE  (sa <= k \/ sb <= k) /\ (k < nx2[PathA] \/ k < nx2[PathB])
  <2>1. CASE k = f
    BY <1>2, <1>4, <2>1 DEF Balanced
  <2>2. CASE k \in Sent(cp, h)
    <3>1. k \in Nat /\ (sa <= k \/ sb <= k) /\ (k < nx[PathA] \/ k < nx[PathB])
      BY <1>3, <2>2 DEF Balanced, Sent
    <3>2. QED
      BY <1>2, <1>4, <3>1
  <2>3. QED
    BY <1>5, <2>1, <2>2
<1>8. /\ sa <= nx2[PathA] /\ sb <= nx2[PathB]
      /\ (acc + 1) + dis = (nx2[PathA] - sa) + (nx2[PathB] - sb)
  <2>1. /\ sa <= nx[PathA] /\ sb <= nx[PathB]
        /\ acc + dis = (nx[PathA] - sa) + (nx[PathB] - sb)
    BY DEF Balanced
  <2>2. QED
    BY <1>2, <1>4, <2>1
<1>9. acc + 1 = Cardinality(Sent(cp2, h))
  BY <1>6 DEF Balanced
<1>10. QED
  BY <1>7, <1>8, <1>9 DEF Balanced

\* What latent error detection keeps of a stream none of whose frames was lost.
RowCounted(st, nx, cp, h) ==
  /\ st.latent = FALSE
  /\ \E sa, sb \in Nat :
       Balanced(st.framesAccepted, st.framesDiscardedDuplicate, nx, cp, h, sa, sb)

\* A Tick raises no event for it.
LEMMA TickCounted ==
  ASSUME TwoPaths, SkewTolerated, NEW st \in FrerStreamState, NEW t, NEW h \in Handles,
         NEW nx \in [Paths -> Nat], Abreast(nx), NEW cp, RowCounted(st, nx, cp, h)
  PROVE  RowCounted(TickStream(st, t), nx, cp, h)
<1> DEFINE s1 == MarkSilent(st, t)
<1>1. /\ s1 \in FrerStreamState /\ s1.latent = st.latent
      /\ s1.framesAccepted = st.framesAccepted
      /\ s1.framesDiscardedDuplicate = st.framesDiscardedDuplicate
  BY DEF MarkSilent, FrerStreamState
<1> HIDE DEF s1
<1> DEFINE acc == s1.framesAccepted
           dis == s1.framesDiscardedDuplicate
<1>2. acc \in Nat /\ dis \in Nat
  BY <1>1 DEF FrerStreamState
<1>3. PICK sa \in Nat, sb \in Nat : Balanced(acc, dis, nx, cp, h, sa, sb)
  BY <1>1 DEF RowCounted
<1>4. /\ nx[PathA] \in Nat /\ nx[PathB] \in Nat
      /\ nx[PathA] <= nx[PathB] + MaxSkew /\ nx[PathB] <= nx[PathA] + MaxSkew
  BY PathsNamed DEF Abreast
<1> HIDE DEF acc, dis
<1>5. 2 * dis >= (acc + dis) - (2 * MaxSkew)
  BY <1>2, <1>3, <1>4, OverlapDiscarded
<1>6. acc + dis >= kLedWindowFrames => (dis * 100) \div (acc + dis) >= kLedThresholdPercent
  <2>1. acc + dis \in Nat
    BY <1>2
  <2>2. QED
    BY <1>2, <1>5, <2>1, EnoughDuplicates
<1>7. CheckLatentError(s1) = s1
  <2>1. TotalFrames(s1) = acc + dis /\ acc + dis \in Nat
    BY <1>2 DEF TotalFrames, acc, dis
  <2>2. ~(/\ TotalFrames(s1) >= kLedWindowFrames
          /\ (s1.framesDiscardedDuplicate * 100) \div TotalFrames(s1) < kLedThresholdPercent)
    <3>1. CASE ~(acc + dis >= kLedWindowFrames)
      BY <2>1, <3>1
    <3>2. CASE acc + dis >= kLedWindowFrames
      <4> DEFINE q == (dis * 100) \div (acc + dis)
      <4>1. acc + dis \in Nat \ {0} /\ dis * 100 \in Nat /\ kLedThresholdPercent \in Nat
        BY <1>2, <2>1, <3>2, FrerStreamAssumption
      <4>2. ASSUME NEW n \in Nat, NEW m \in Nat \ {0} PROVE n \div m \in Nat
        BY SMT
      <4>3. q \in Nat /\ q >= kLedThresholdPercent
        BY <1>6, <3>2, <4>1, <4>2
      <4>4. q = (s1.framesDiscardedDuplicate * 100) \div TotalFrames(s1)
        BY <2>1 DEF dis
      <4> HIDE DEF q
      <4>5. ~(q < kLedThresholdPercent)
        BY <4>1, <4>3
      <4>6. QED
        BY <4>4, <4>5
    <3>3. QED
      BY <3>1, <3>2
  <2>3. QED
    BY <2>2 DEF CheckLatentError
<1>8. QED
  BY <1>1, <1>3, <1>7 DEF TickStream, RowCounted, s1, acc, dis

\* A frame counts once.
LEMMA FrameCountsOnce ==
  ASSUME NEW st \in FrerStreamState, NEW p \in Paths, NEW t \in Nat
  PROVE  /\ LET new == Discard(PathAlive(st, p, t))
            IN  /\ new.latent = st.latent /\ new.framesAccepted = st.framesAccepted
                /\ new.framesDiscardedDuplicate = st.framesDiscardedDuplicate + 1
         /\ \A seq : LET new == Accept(PathAlive(st, p, t), seq)
                     IN  /\ new.latent = st.latent
                         /\ new.framesAccepted = st.framesAccepted + 1
                         /\ new.framesDiscardedDuplicate = st.framesDiscardedDuplicate
<1> DEFINE s1 == PathAlive(st, p, t)
<1>1. /\ s1 \in FrerStreamState /\ s1.latent = st.latent
      /\ s1.framesAccepted = st.framesAccepted
      /\ s1.framesDiscardedDuplicate = st.framesDiscardedDuplicate
  BY DEF PathAlive, FrerStreamState
<1> HIDE DEF s1
<1>2. /\ Discard(s1).latent = s1.latent /\ Discard(s1).framesAccepted = s1.framesAccepted
      /\ Discard(s1).framesDiscardedDuplicate = s1.framesDiscardedDuplicate + 1
  BY <1>1 DEF Discard, FrerStreamState
<1>3. \A seq : /\ Accept(s1, seq).latent = s1.latent
               /\ Accept(s1, seq).framesAccepted = s1.framesAccepted + 1
               /\ Accept(s1, seq).framesDiscardedDuplicate = s1.framesDiscardedDuplicate
  BY <1>1 DEF Accept, FrerStreamState
<1>4. QED
  BY <1>1, <1>2, <1>3 DEF s1

\* A frame of path p, discarded or forwarded for the first time.
LEMMA FrameCounted ==
  ASSUME TwoPaths, NEW st \in FrerStreamState, NEW p \in Paths, NEW t \in Nat,
         NEW h \in Handles, NEW nx \in [Paths -> Nat], NEW cp \in [Frame(h) -> Nat],
         RowCounted(st, nx, cp, h)
  PROVE  LET nx2 == [nx EXCEPT ![p] = nx[p] + 1]
         IN  /\ RowCounted(Discard(PathAlive(st, p, t)), nx2, cp, h)
             /\ nx[p] \in Frame(h) /\ cp[nx[p]] = 0 =>
                  \A seq : RowCounted(Accept(PathAlive(st, p, t), seq), nx2,
                                      [cp EXCEPT ![nx[p]] = 1], h)
<1> DEFINE acc == st.framesAccepted
           dis == st.framesDiscardedDuplicate
           nx2 == [nx EXCEPT ![p] = nx[p] + 1]
           cp2 == [cp EXCEPT ![nx[p]] = 1]
<1>1. acc \in Nat /\ dis \in Nat /\ st.latent = FALSE
  BY DEF FrerStreamState, RowCounted
<1>2. PICK sa \in Nat, sb \in Nat : Balanced(acc, dis, nx, cp, h, sa, sb)
  BY DEF RowCounted
<1> HIDE DEF acc, dis, nx2, cp2
<1>3. Balanced(acc, dis + 1, nx2, cp, h, sa, sb)
  BY <1>1, <1>2, DiscardBalanced DEF nx2
<1>4. nx[p] \in Frame(h) /\ cp[nx[p]] = 0 => Balanced(acc + 1, dis, nx2, cp2, h, sa, sb)
  BY <1>1, <1>2, AcceptBalanced DEF nx2, cp2
<1>5. RowCounted(Discard(PathAlive(st, p, t)), nx2, cp, h)
  BY <1>1, <1>3, FrameCountsOnce DEF RowCounted, acc, dis
<1>6. ASSUME nx[p] \in Frame(h), cp[nx[p]] = 0, NEW seq
      PROVE  RowCounted(Accept(PathAlive(st, p, t), seq), nx2, cp2, h)
  BY <1>1, <1>4, <1>6, FrameCountsOnce DEF RowCounted, acc, dis
<1>7. QED
  BY <1>5, <1>6 DEF nx2, cp2

\* The inductive invariant of latent error detection, for one stream.
Counted(h) ==
  h \notin lost =>
    \A i \in 1 .. streamCount :
      IsSlot(h, i) => RowCounted(streams[i], next[h], copies[h], h)

\* A frame reaches stream g.
LEMMA FramesCounted ==
  ASSUME TwoPaths, FrerInv, NEW h \in Handles, Eliminates(h), Counted(h),
         NEW g \in Handles, NEW p \in Paths, FrameForwarded(g, p) \/ FrameDiscarded(g, p)
  PROVE  Counted(h)'
<1> DEFINE f == next[g][p]
<1>1. PICK s \in 1 .. streamCount :
        /\ Receive(g, p, s)
        /\ \/ /\ streams' = [streams EXCEPT ![s] = Discard(PathAlive(streams[s], p, now))]
              /\ copies' = copies
           \/ /\ ~IsDuplicate(PathAlive(streams[s], p, now), SeqNum(f))
              /\ streams' = [streams EXCEPT ![s] =
                               Accept(PathAlive(streams[s], p, now), SeqNum(f))]
              /\ copies' = [copies EXCEPT ![g][f] = @ + 1]
  BY DEF FrameForwarded, FrameDiscarded
<1>2. /\ streams \in [1 .. streamCount -> FrerStreamState]
      /\ streamCount \in Nat /\ now \in Nat /\ lost' = lost
      /\ next[g] \in [Paths -> Nat] /\ copies[g] \in [Frame(g) -> Nat]
      /\ next \in [Handles -> [Paths -> Nat]] /\ DOMAIN copies = Handles
  BY <1>1, FrerAssumption DEF FrerInv, TypeOK, Receive
<1>3. /\ streamCount' = streamCount
      /\ \A o : \A i \in 1 .. streamCount : IsSlot(o, i)' <=> IsSlot(o, i)
  BY FramesPreserve, SameSlots
<1>4. IsSlot(g, s) /\ PathAdvances(g, p)
  BY <1>1 DEF Receive
<1>5. CASE h # g
  <2>1. next'[h] = next[h] /\ copies'[h] = copies[h]
    BY <1>1, <1>2, <1>4, <1>5 DEF PathAdvances
  <2>2. ASSUME NEW i \in 1 .. streamCount, IsSlot(h, i) PROVE streams'[i] = streams[i]
    <3>1. i # s
      BY <1>4, <1>5, <2>2 DEF IsSlot
    <3>2. QED
      BY <1>1, <1>2, <3>1
  <2>3. ASSUME NEW i \in 1 .. streamCount', IsSlot(h, i)', h \notin lost'
        PROVE  RowCounted(streams'[i], next'[h], copies'[h], h)
    BY <1>2, <1>3, <2>1, <2>2, <2>3 DEF Counted
  <2>4. QED
    BY <2>3 DEF Counted, RowCounted, Balanced, Sent, Frame
<1>6. CASE h = g
  <2> DEFINE st == streams[s]
             nx == next[h]
             cp == copies[h]
  <2> SUFFICES ASSUME h \notin lost PROVE RowCounted(streams'[s], next'[h], copies'[h], h)
    <3>1. ASSUME NEW i \in 1 .. streamCount, IsSlot(h, i) PROVE i = s
      BY <1>2, <1>4, <1>6, <3>1 DEF IsSlot
    <3>2. QED
      BY <1>2, <1>3, <3>1 DEF Counted, RowCounted, Balanced, Sent, Frame
  <2>1. /\ st \in FrerStreamState /\ nx \in [Paths -> Nat] /\ cp \in [Frame(h) -> Nat]
        /\ RowCounted(st, nx, cp, h)
    BY <1>2, <1>4, <1>6 DEF Counted
  <2>2. next'[h] = [nx EXCEPT ![p] = nx[p] + 1] /\ nx[p] = f
    BY <1>2, <1>4, <1>6 DEF PathAdvances
  <2>3. nx[p] \in Frame(h)
    <3>1. nx[p] \in Nat /\ MaxFrames[h] \in Nat /\ nx[p] < MaxFrames[h]
      BY <1>2, <1>4, <1>6, FrerAssumption DEF PathAdvances
    <3>2. QED
      BY <3>1 DEF Frame
  <2>4. CASE /\ streams' = [streams EXCEPT ![s] = Discard(PathAlive(streams[s], p, now))]
             /\ copies' = copies
    <3>1. streams'[s] = Discard(PathAlive(st, p, now)) /\ copies'[h] = cp
      BY <1>2, <2>4
    <3> HIDE DEF st, nx, cp
    <3>2. RowCounted(Discard(PathAlive(st, p, now)), [nx EXCEPT ![p] = nx[p] + 1], cp, h)
      BY <1>2, <2>1, FrameCounted
    <3>3. QED
      BY <2>2, <3>1, <3>2
  <2>5. CASE /\ ~IsDuplicate(PathAlive(streams[s], p, now), SeqNum(f))
             /\ streams' = [streams EXCEPT ![s] =
                              Accept(PathAlive(streams[s], p, now), SeqNum(f))]
             /\ copies' = [copies EXCEPT ![g][f] = @ + 1]
    <3>1. streams'[s] = Accept(PathAlive(st, p, now), SeqNum(f))
      BY <1>2, <2>5
    <3>2. cp[nx[p]] = 0
      <4>1. PathAlive(st, p, now).seqNumHistoryMask = st.seqNumHistoryMask
        BY <1>2, <2>1, FrameKeepsHistory DEF SameHistory
      <4>2. Bit(SeqNum(nx[p])) \notin st.seqNumHistoryMask
        BY <2>2, <2>5, <4>1 DEF IsDuplicate
      <4>3. RowOK(nx, cp, h, st.seqNumHistoryMask, st.lastSeqNum)
        BY <1>4, <1>6 DEF Eliminates, Remembers
      <4> HIDE DEF st, nx, cp
      <4>4. QED
        BY <2>1, <2>3, <4>2, <4>3, FirstCopy
    <3>3. copies'[h] = [cp EXCEPT ![nx[p]] = 1]
      <4>1. copies'[h] = [cp EXCEPT ![nx[p]] = cp[nx[p]] + 1]
        BY <1>2, <1>6, <2>2, <2>5
      <4> HIDE DEF nx, cp
      <4>2. QED
        BY <3>2, <4>1
    <3> HIDE DEF st, nx, cp
    <3>4. RowCounted(Accept(PathAlive(st, p, now), SeqNum(f)),
                     [nx EXCEPT ![p] = nx[p] + 1], [cp EXCEPT ![nx[p]] = 1], h)
      BY <1>2, <2>1, <2>3, <3>2, FrameCounted
    <3>5. QED
      BY <2>2, <3>1, <3>3, <3>4
  <2>6. QED
    BY <1>1, <2>4, <2>5
<1>7. QED
  BY <1>5, <1>6

\* The rows of the table change.
LEMMA TableStepsCounted ==
  ASSUME TwoPaths, FrerInv, HiddenRowsNew, NEW h \in Handles, Eliminates(h), Counted(h),
         NEW g \in Handles, RegisterStream(g) \/ DeregisterStream(g)
  PROVE  Counted(h)'
<1>1. next' = next /\ next[h] \in [Paths -> Nat] /\ DOMAIN copies = Handles
  BY DEF FrerInv, TypeOK, RegisterStream, DeregisterStream
<1>2. CASE g = h /\ (RegisterStream(g) => ~Known(h))
  <2>1. \A k \in Frame(h) : copies'[h][k] = 0
    BY <1>1, <1>2 DEF Forget, RegisterStream, DeregisterStream
  <2>2. \E sa, sb \in Nat : Balanced(0, 0, next[h], copies'[h], h, sa, sb)
    BY <1>1, <2>1, NewBalanced DEF Eliminates
  <2>3. RowCounted(NewStream(h), next'[h], copies'[h], h)
    BY <1>1, <2>2 DEF RowCounted, NewStream
  <2>4. ASSUME NEW i \in 1 .. streamCount', IsSlot(h, i)'
        PROVE  streams'[i] = NewStream(h)
    <3>1. CASE RegisterStream(g)
      <4>1. i \notin 1 .. streamCount \/ ~IsSlot(h, i)
        BY <1>2, <3>1 DEF IsSlot, Known
      <4>2. QED
        BY <2>4, <3>1, <4>1, RegisterMoves
    <3>2. CASE DeregisterStream(g)
      <4>1. PICK j \in 1 .. streamCount : streams'[i] = streams[j] /\ ~IsSlot(h, j)
        BY <1>2, <3>2, DeregisterMoves
      <4>2. streams[j].streamHandle = h
        BY <2>4, <4>1 DEF IsSlot
      <4>3. QED
        BY <4>1, <4>2 DEF HiddenRowsNew
    <3>3. QED
      BY <3>1, <3>2
  <2>5. QED
    BY <2>3, <2>4 DEF Counted, RowCounted, Balanced, Sent, Frame
<1>3. CASE g # h \/ (RegisterStream(g) /\ Known(h))
  <2>1. copies'[h] = copies[h] /\ (h \notin lost' => h \notin lost)
    BY <1>1, <1>3 DEF RegisterStream, DeregisterStream, history, Forget
  <2>2. ASSUME NEW i \in 1 .. streamCount', IsSlot(h, i)'
        PROVE  \E j \in 1 .. streamCount : IsSlot(h, j) /\ streams'[i] = streams[j]
    BY <1>3, <2>2, RegisterMoves, DeregisterMoves DEF RegisterStream, DeregisterStream
  <2>3. ASSUME NEW i \in 1 .. streamCount', IsSlot(h, i)', h \notin lost'
        PROVE  RowCounted(streams'[i], next'[h], copies'[h], h)
    BY <1>1, <2>1, <2>2, <2>3 DEF Counted
  <2>4. QED
    BY <2>3 DEF Counted, RowCounted, Balanced, Sent, Frame
<1>4. QED
  BY <1>2, <1>3

\* A Tick, a frame that is lost, time.
LEMMA OthersCounted ==
  ASSUME TwoPaths, SkewTolerated, FrerInv, NEW h \in Handles, Eliminates(h), Counted(h),
         \/ Elapse \/ UNCHANGED vars
         \/ \E nowNs \in Nat : Tick(nowNs)
         \/ \E g \in Handles, p \in Paths : FrameLost(g, p)
  PROVE  Counted(h)'
<1>1. /\ streams \in [1 .. streamCount -> FrerStreamState]
      /\ next \in [Handles -> [Paths -> Nat]] /\ copies' = copies
      /\ Abreast(next[h]) /\ next[h] \in [Paths -> Nat]
  BY DEF FrerInv, TypeOK, Eliminates, Elapse, history, vars, Tick, FrameLost
<1>2. SUFFICES ASSUME h \notin lost', NEW i \in 1 .. streamCount', IsSlot(h, i)'
               PROVE  RowCounted(streams'[i], next'[h], copies'[h], h)
  BY DEF Counted, RowCounted, Balanced, Sent, Frame
<1>3. CASE Elapse \/ UNCHANGED vars
  BY <1>1, <1>2, <1>3 DEF Elapse, history, vars, Counted, IsSlot
<1>4. ASSUME NEW nowNs \in Nat, Tick(nowNs)
      PROVE  RowCounted(streams'[i], next'[h], copies'[h], h)
  <2>1. i \in 1 .. streamCount /\ IsSlot(h, i)
    BY <1>2, <1>4, TickPreserves, SameSlots
  <2>2. /\ streams'[i] = TickStream(streams[i], nowNs) /\ next' = next
        /\ RowCounted(streams[i], next[h], copies[h], h)
    BY <1>2, <1>4, <2>1 DEF Tick, Counted
  <2>3. streams[i] \in FrerStreamState
    BY <1>1, <2>1
  <2>4. RowCounted(TickStream(streams[i], nowNs), next[h], copies[h], h)
    BY <1>1, <2>2, <2>3, TickCounted
  <2>5. QED
    BY <1>1, <2>2, <2>4
<1>5. ASSUME NEW g \in Handles, NEW p \in Paths, FrameLost(g, p)
      PROVE  RowCounted(streams'[i], next'[h], copies'[h], h)
  <2>1. i \in 1 .. streamCount /\ IsSlot(h, i) /\ streams' = streams
    BY <1>2, <1>5 DEF FrameLost, IsSlot
  <2>2. g # h /\ h \notin lost
    <3>1. Known(h)
      BY <2>1 DEF IsSlot, Known
    <3>2. QED
      BY <1>2, <1>5, <3>1 DEF FrameLost
  <2>3. next'[h] = next[h]
    BY <1>1, <1>5, <2>2 DEF FrameLost, PathAdvances
  <2>4. QED
    BY <1>1, <2>1, <2>2, <2>3 DEF Counted
<1>6. QED
  BY <1>3, <1>4, <1>5

\* No false alarm, for streams with two paths in a network that keeps within the
\* history window: while neither path loses a frame of a stream, latent error
\* detection does not fire for it.  The counters of an undisturbed stream hold all
\* frames since its registration, and a frame that both paths brought was discarded
\* once, so that the duplicates miss half of the frames only by the skew.
THEOREM NoAlarmWithoutLoss ==
  ASSUME TwoPaths, WithinWindow, SkewTolerated
  PROVE  Spec => []NoFalseAlarm
<1> DEFINE Inv == HiddenRowsNew /\ \A h \in Handles : Counted(h)
<1>1. Init => Inv
  BY DEF Init, HiddenRowsNew, Counted
<1>2. FrerInv /\ EliminationInv /\ Inv /\ [Next]_vars => Inv'
  <2> SUFFICES ASSUME FrerInv, EliminationInv, HiddenRowsNew, \A g \in Handles : Counted(g),
                      [Next]_vars, NEW h \in Handles
               PROVE  Counted(h)'
    BY HiddenRowsStayNew
  <2>0. Eliminates(h) /\ Counted(h)
    BY DEF EliminationInv
  <2>1. CASE FrerInit
    BY <2>1 DEF FrerInit, Counted
  <2>2. CASE \E g \in Handles : RegisterStream(g) \/ DeregisterStream(g)
    BY <2>0, <2>2, TableStepsCounted
  <2>3. CASE \E g \in Handles, p \in Paths : FrameForwarded(g, p) \/ FrameDiscarded(g, p)
    BY <2>0, <2>3, FramesCounted
  <2>4. CASE \E nowNs \in Readings : Tick(nowNs)
    <3>1. \E nowNs \in Nat : Tick(nowNs)
      BY <2>4 DEF FrerInv, TypeOK, Readings
    <3>2. QED
      BY <2>0, <3>1, OthersCounted
  <2>5. CASE Elapse \/ UNCHANGED vars \/ \E g \in Handles, p \in Paths : FrameLost(g, p)
    BY <2>0, <2>5, OthersCounted
  <2>6. QED
    BY <2>1, <2>2, <2>3, <2>4, <2>5 DEF Next
<1>3. Inv => NoFalseAlarm
  BY DEF Counted, RowCounted, NoFalseAlarm
<1>4. Spec => []EliminationInv
  BY EliminationInvariant
<1>5. QED
  BY <1>1, <1>2, <1>3, <1>4, FrerInvariant, PTL DEF Spec

=============================================================================
