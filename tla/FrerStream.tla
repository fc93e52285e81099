----------------------------- MODULE FrerStream -----------------------------
(***************************************************************************)
(* One row of FrerManager: a registered stream and its sequence recovery,  *)
(* and what each operation does to it.  The history mask is the set of its *)
(* bits, the path health mask the set of healthy paths.  latent stands for *)
(* latentErrorEvents > 0.  Left out is what no decision reads: the         *)
(* recovery state, the expected sequence number, the last path and the     *)
(* count of resets.                                                        *)
(***************************************************************************)
EXTENDS Integers

CONSTANTS
  Handles,               \* stream handles
  Paths,                 \* member paths of every stream
  SeqNums,               \* number of R-TAG sequence numbers, 2^16 in the code
  Word,                  \* number of values of a u64
  RecoveryTimeoutNs,     \* recoveryTimeoutNs of every stream
  kHistoryWindowWidth, kLedWindowFrames, kLedThresholdPercent

ASSUME FrerStreamAssumption ==
  /\ SeqNums \in Nat \ {0}
  /\ Word \in Nat \ {0}
  /\ RecoveryTimeoutNs \in Nat
  /\ kHistoryWindowWidth \in Nat \ {0}
  /\ kLedWindowFrames \in Nat \ {0}
  /\ kLedThresholdPercent \in Nat

FrerStreamState ==
  [streamHandle : Handles, lastSeqNum : 0 .. (SeqNums - 1),
   seqNumHistoryMask : SUBSET (0 .. (kHistoryWindowWidth - 1)),
   pathHealthMask : SUBSET Paths, framesAccepted : Nat,
   framesDiscardedDuplicate : Nat, latent : BOOLEAN, lastFrameNs : Nat]

NewStream(h) ==
  [streamHandle |-> h, lastSeqNum |-> 0, seqNumHistoryMask |-> {},
   pathHealthMask |-> Paths, framesAccepted |-> 0,
   framesDiscardedDuplicate |-> 0, latent |-> FALSE, lastFrameNs |-> 0]

-----------------------------------------------------------------------------
(* A frame with sequence number seq arrives on a path.                     *)

Bit(seq) == seq % kHistoryWindowWidth

IsDuplicate(st, seq) == Bit(seq) \in st.seqNumHistoryMask

\* The difference is taken in i32: it does not wrap with the sequence numbers.
OutOfWindow(st, seq) ==
  LET delta == seq - st.lastSeqNum
  IN  delta < -kHistoryWindowWidth \/ delta > 2 * kHistoryWindowWidth

PathAlive(st, path, nowNs) ==
  [st EXCEPT !.pathHealthMask = @ \cup {path}, !.lastFrameNs = nowNs]

Discard(st) == [st EXCEPT !.framesDiscardedDuplicate = @ + 1]

\* Faulty variant: the history is reset after the bit has been set.
AcceptThenReset(st, seq) ==
  [st EXCEPT !.seqNumHistoryMask = IF OutOfWindow(st, seq) THEN {} ELSE @ \cup {Bit(seq)},
             !.lastSeqNum = seq, !.framesAccepted = @ + 1]

\* Out of window the history starts again with this frame.
Accept(st, seq) ==
  [st EXCEPT !.seqNumHistoryMask = (IF OutOfWindow(st, seq) THEN {} ELSE @) \cup {Bit(seq)},
             !.lastSeqNum = seq, !.framesAccepted = @ + 1]

-----------------------------------------------------------------------------
(* The periodic Tick of one stream.                                        *)

\* Faulty variant: a stream that has had no frame yet is silent since time 0.
MarkSilentUnheard(st, nowNs) ==
  IF (nowNs - st.lastFrameNs) % Word > RecoveryTimeoutNs
  THEN [st EXCEPT !.pathHealthMask = {}] ELSE st

\* Silence is measured from the last frame of any path, in unsigned arithmetic:
\* either every path is marked, or none.
MarkSilent(st, nowNs) ==
  IF st.lastFrameNs # 0 /\ (nowNs - st.lastFrameNs) % Word > RecoveryTimeoutNs
  THEN [st EXCEPT !.pathHealthMask = {}] ELSE st

TotalFrames(st) == st.framesAccepted + st.framesDiscardedDuplicate

\* Faulty variant: the first frames decide.
CheckLatentErrorEarly(st) ==
  IF /\ TotalFrames(st) > 0
     /\ (st.framesDiscardedDuplicate * 100) \div TotalFrames(st) < kLedThresholdPercent
  THEN [st EXCEPT !.latent = TRUE, !.framesAccepted = 0, !.framesDiscardedDuplicate = 0]
  ELSE st

\* The counters start again only with an event.
CheckLatentError(st) ==
  IF /\ TotalFrames(st) >= kLedWindowFrames
     /\ (st.framesDiscardedDuplicate * 100) \div TotalFrames(st) < kLedThresholdPercent
  THEN [st EXCEPT !.latent = TRUE, !.framesAccepted = 0, !.framesDiscardedDuplicate = 0]
  ELSE st

TickStream(st, nowNs) == CheckLatentError(MarkSilent(st, nowNs))

=============================================================================
