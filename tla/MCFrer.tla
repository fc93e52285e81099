------------------------------- MODULE MCFrer -------------------------------
(* Instances of Frer: stream a talks, b comes and goes in the table.        *)
EXTENDS Frer

MCHandles == {"a", "b"}

SixFrames == [h \in MCHandles |-> IF h = "a" THEN 6 ELSE 0]

ThreeFrames == [h \in MCHandles |-> IF h = "a" THEN 3 ELSE 0]

=============================================================================
