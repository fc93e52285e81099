-------------------------------- MODULE Frer --------------------------------
(***************************************************************************)
(* FrerManager: the table of streams with registration, deregistration and *)
(* compaction, frame reception and the periodic Tick, in front of talkers  *)
(* whose frames reach the switch over several paths.  Frame k of a talker  *)
(* carries sequence number FirstSeq + k; every path passes on the frames   *)
(* in order, may lose any of them, and runs at most MaxSkew frames ahead   *)
(* of another.                                                             *)
(***************************************************************************)
EXTENDS FrerStream, FiniteSets

CONSTANTS
  kMaxFrerEntries,   \* rows of the table
  FirstSeq,          \* sequence number of the first frame of a talker
  MaxFrames,         \* how many frames the talker of a stream sends
  MaxSkew,           \* how many frames a path may be ahead of another
  MaxTime,           \* bound on the monotonic time
  PhcFails           \* whether the orchestrator may misread its time

ASSUME FrerAssumption ==
  /\ kMaxFrerEntries \in Nat
  /\ FirstSeq \in 0 .. (SeqNums - 1)
  /\ MaxFrames \in [Handles -> Nat]
  /\ MaxSkew \in Nat
  /\ MaxTime \in Nat \ {0}
  /\ MaxTime < Word
  /\ PhcFails \in BOOLEAN

VARIABLES
  initialised, streamCount,
  streams,     \* states_ and entries_, rows 1 .. streamCount
  hardware,    \* handles the switch replicates and recovers
  now,         \* monotonic time
  next,        \* the next frame of a stream on each of its paths
  \* What has happened to a stream since it was registered:
  copies,      \* how many copies of a frame were forwarded
  lost,        \* streams that lost a frame on some path
  heard,       \* when a path last delivered a frame
  blind        \* paths not heard since a Tick whose time lay before a frame
               \* that their stream had already received

vars == <<initialised, streamCount, streams, hardware, now, next, copies, lost,
          heard, blind>>

history == <<copies, lost, heard, blind>>

Frame(h) == 0 .. (MaxFrames[h] - 1)
SeqNum(k) == (FirstSeq + k) % SeqNums

\* FindStreamSlot: the first row with the handle.
IsSlot(h, i) ==
  /\ i \in 1 .. streamCount
  /\ streams[i].streamHandle = h
  /\ \A j \in 1 .. (i - 1) : streams[j].streamHandle # h

Known(h) == \E i \in 1 .. streamCount : streams[i].streamHandle = h

Init ==
  /\ initialised = FALSE
  /\ streamCount = 0
  /\ streams = <<>>
  /\ hardware = {}
  /\ now = 1
  /\ next = [h \in Handles |-> [p \in Paths |-> 0]]
  /\ copies = [h \in Handles |-> [k \in Frame(h) |-> 0]]
  /\ lost = {}
  /\ heard = [h \in Handles |-> [p \in Paths |-> 0]]
  /\ blind = {}

\* The story of stream h begins anew.
Forget(h) ==
  /\ copies' = [copies EXCEPT ![h] = [k \in Frame(h) |-> 0]]
  /\ lost' = lost \ {h}
  /\ heard' = [heard EXCEPT ![h] = [p \in Paths |-> now]]
  /\ blind' = {b \in blind : b[1] # h}

-----------------------------------------------------------------------------

\* Init, which the orchestrator calls after it has reset the switch.
FrerInit ==
  /\ initialised' = TRUE
  /\ streamCount' = 0
  /\ streams' = <<>>
  /\ hardware' = {}
  /\ copies' = [h \in Handles |-> [k \in Frame(h) |-> 0]]
  /\ lost' = {}
  /\ heard' = [h \in Handles |-> [p \in Paths |-> 0]]
  /\ blind' = {}
  /\ UNCHANGED <<now, next>>

\* Faulty variant: the test of the table is off by one.
RegisterPastEnd(h) ==
  /\ initialised
  /\ streamCount <= kMaxFrerEntries
  /\ streamCount' = streamCount + 1
  /\ streams' = [i \in 1 .. (streamCount + 1) |->
                   IF i <= streamCount THEN streams[i] ELSE NewStream(h)]
  /\ hardware' = hardware \cup {h}
  /\ IF Known(h) THEN UNCHANGED history ELSE Forget(h)
  /\ UNCHANGED <<initialised, now, next>>

\* Faulty variant: the row keeps the event counter of the stream it last held.
RegisterKeepsEvents(h) ==
  \E stale \in BOOLEAN :
    /\ initialised
    /\ streamCount < kMaxFrerEntries
    /\ streamCount' = streamCount + 1
    /\ streams' = [i \in 1 .. (streamCount + 1) |->
                     IF i <= streamCount THEN streams[i]
                     ELSE [NewStream(h) EXCEPT !.latent = stale]]
    /\ hardware' = hardware \cup {h}
    /\ IF Known(h) THEN UNCHANGED history ELSE Forget(h)
    /\ UNCHANGED <<initialised, now, next>>

\* A call that the table or the switch refuses changes no counted row.  A
\* handle that is known already gets a second row, which no lookup reaches.
RegisterStream(h) ==
  /\ initialised
  /\ streamCount < kMaxFrerEntries
  /\ streamCount' = streamCount + 1
  /\ streams' = [i \in 1 .. (streamCount + 1) |->
                   IF i <= streamCount THEN streams[i] ELSE NewStream(h)]
  /\ hardware' = hardware \cup {h}
  /\ IF Known(h) THEN UNCHANGED history ELSE Forget(h)
  /\ UNCHANGED <<initialised, now, next>>

\* Faulty variant: the row is dropped although the switch refused.
DeregisterAnyway(h) ==
  \E i \in 1 .. streamCount, ok \in BOOLEAN :
    /\ IsSlot(h, i)
    /\ hardware' = IF ok THEN hardware \ {h} ELSE hardware
    /\ streams' = [j \in 1 .. (streamCount - 1) |->
                     IF j < i THEN streams[j] ELSE streams[j + 1]]
    /\ streamCount' = streamCount - 1
    /\ Forget(h)
    /\ UNCHANGED <<initialised, now, next>>

\* Faulty variant: the compaction moves the handles only.
DeregisterMovesHandles(h) ==
  \E i \in 1 .. streamCount :
    /\ IsSlot(h, i)
    /\ hardware' = hardware \ {h}
    /\ streams' = [j \in 1 .. (streamCount - 1) |->
                     IF j < i THEN streams[j] ELSE NewStream(streams[j + 1].streamHandle)]
    /\ streamCount' = streamCount - 1
    /\ Forget(h)
    /\ UNCHANGED <<initialised, now, next>>

\* The rows behind the stream move down by one; if the switch refuses, nothing
\* changes.
DeregisterStream(h) ==
  \E i \in 1 .. streamCount :
    /\ IsSlot(h, i)
    /\ hardware' = hardware \ {h}
    /\ streams' = [j \in 1 .. (streamCount - 1) |->
                     IF j < i THEN streams[j] ELSE streams[j + 1]]
    /\ streamCount' = streamCount - 1
    /\ Forget(h)
    /\ UNCHANGED <<initialised, now, next>>

-----------------------------------------------------------------------------
(* OnFrameReceived, when path p brings the next frame of stream h.         *)

PathAdvances(h, p) ==
  /\ next[h][p] < MaxFrames[h]
  /\ \A q \in Paths : next[h][p] < next[h][q] + MaxSkew
  /\ next' = [next EXCEPT ![h][p] = @ + 1]

Receive(h, p, i) ==
  /\ IsSlot(h, i)
  /\ PathAdvances(h, p)
  /\ heard' = [heard EXCEPT ![h][p] = now]
  /\ blind' = blind \ {<<h, p>>}
  /\ UNCHANGED <<initialised, streamCount, hardware, now, lost>>

FrameDiscarded(h, p) ==
  \E i \in 1 .. streamCount :
    LET k  == next[h][p]
        st == PathAlive(streams[i], p, now)
    IN  /\ Receive(h, p, i)
        /\ IsDuplicate(st, SeqNum(k))
        /\ streams' = [streams EXCEPT ![i] = Discard(st)]
        /\ UNCHANGED copies

FrameForwarded(h, p) ==
  \E i \in 1 .. streamCount :
    LET k  == next[h][p]
        st == PathAlive(streams[i], p, now)
    IN  /\ Receive(h, p, i)
        /\ ~IsDuplicate(st, SeqNum(k))
        /\ streams' = [streams EXCEPT ![i] = Accept(st, SeqNum(k))]
        /\ copies' = [copies EXCEPT ![h][k] = @ + 1]

\* The frame is lost on its way, or its stream is not registered.
FrameLost(h, p) ==
  /\ PathAdvances(h, p)
  /\ lost' = IF Known(h) THEN lost \cup {h} ELSE lost
  /\ UNCHANGED <<initialised, streamCount, streams, hardware, now, copies,
                 heard, blind>>

-----------------------------------------------------------------------------

\* The time that a Tick of the orchestrator can pass on: 0 when the PHC cannot
\* be read, and an earlier one when the two halves of the clock's offset were
\* read around a Sync, or when a frame arrived between the reading and its use.
Readings == IF PhcFails THEN 0 .. now ELSE {now}

\* The healthy paths of the streams that had a frame after the time of a Tick.
Ahead(nowNs) ==
  {b \in Handles \X Paths : \E i \in 1 .. streamCount :
     /\ IsSlot(b[1], i)
     /\ b[2] \in streams[i].pathHealthMask
     /\ nowNs < streams[i].lastFrameNs}

Tick(nowNs) ==
  /\ initialised
  /\ streams' = [i \in 1 .. streamCount |-> TickStream(streams[i], nowNs)]
  /\ blind' = blind \cup Ahead(nowNs)
  /\ UNCHANGED <<initialised, streamCount, hardware, now, next, copies,
                 lost, heard>>

Elapse ==
  /\ now < MaxTime
  /\ now' = now + 1
  /\ UNCHANGED <<initialised, streamCount, streams, hardware, next, history>>

Next ==
  \/ FrerInit
  \/ \E h \in Handles :
       \/ RegisterStream(h)
       \/ DeregisterStream(h)
       \/ \E p \in Paths : FrameForwarded(h, p) \/ FrameDiscarded(h, p) \/ FrameLost(h, p)
  \/ \E nowNs \in Readings : Tick(nowNs)
  \/ Elapse

Spec == Init /\ [][Next]_vars

-----------------------------------------------------------------------------
(* Properties                                                              *)

\* Every variable has its type: the table is never over-full.
TypeOK ==
  /\ initialised \in BOOLEAN
  /\ streamCount \in 0 .. kMaxFrerEntries
  /\ streams \in [1 .. streamCount -> FrerStreamState]
  /\ hardware \in SUBSET Handles
  /\ now \in 1 .. MaxTime
  /\ next \in [Handles -> [Paths -> Nat]]
  /\ \A h \in Handles : copies[h] \in [Frame(h) -> Nat]
  /\ DOMAIN copies = Handles
  /\ lost \in SUBSET Handles
  /\ heard \in [Handles -> [Paths -> 0 .. MaxTime]]
  /\ blind \in SUBSET (Handles \X Paths)

\* Elimination: while a stream stays registered, none of its frames is forwarded
\* twice, however many are lost, whichever path is ahead, through the resets that
\* a gap in the numbers causes and while other streams come and go in the table
\* (within one turn of the 16 bits of the sequence number: see FirstSeq).
NoFrameTwice == \A h \in Handles : \A k \in Frame(h) : copies[h][k] <= 1

\* A frame is discarded only if a copy of it has been forwarded.
DiscardsAreDuplicates ==
  [][\A h \in Handles, p \in Paths :
       FrameDiscarded(h, p) => copies[h][next[h][p]] > 0]_vars

\* A path is declared silent only when it has itself been quiet for the recovery
\* timeout, although the code asks the last frame of the whole stream.  The one
\* exception is a Tick whose time lies before that frame: the subtraction wraps,
\* and a path that it marks stays marked until its own next frame.
SilentPathsAreQuiet ==
  \A h \in Handles : \A i \in 1 .. streamCount : IsSlot(h, i) =>
    \A p \in Paths \ streams[i].pathHealthMask :
      <<h, p>> \in blind \/ now - heard[h][p] > RecoveryTimeoutNs

\* No false alarm: while no path loses a frame of a stream, latent error
\* detection does not fire for it.
NoFalseAlarm ==
  \A h \in Handles \ lost : \A i \in 1 .. streamCount :
    IsSlot(h, i) => ~streams[i].latent

\* The switch never replicates a stream that the table does not know.
NoOrphanInHardware == \A h \in hardware : Known(h)

\* What the manager knows of a stream, and how many rows it has.
View(h) == {streams[i] : i \in {j \in 1 .. streamCount : IsSlot(h, j)}}
Rows(h) == Cardinality({i \in 1 .. streamCount : streams[i].streamHandle = h})

\* What is known of a stream changes only by its own frames, by its own
\* registration and deregistration, by a Tick and by Init, wherever in the table
\* the compaction for another stream moves its row.
StreamsIndependent ==
  [][\A h \in Handles : View(h)' # View(h) =>
       \/ next'[h] # next[h]
       \/ Rows(h)' # Rows(h)
       \/ streamCount' = streamCount /\ next' = next]_vars

Control == INSTANCE FrerControl WITH
  frerCount <- streamCount,
  frerLatent <- \E i \in 1 .. streamCount : streams[i].latent

\* The manager makes only the steps by which the orchestrator's model knows it:
\* the table fills and empties by one row, no alarm comes with a new stream or from
\* the row it is given, and none outlives the last stream.
ImplementsFrerControl == Control!Spec

=============================================================================
