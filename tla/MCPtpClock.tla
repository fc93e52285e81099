----------------------------- MODULE MCPtpClock -----------------------------
(* Instances of PtpClock, with offsets on either side of the target.        *)
EXTENDS PtpClock

MCOffsets == {-4, 0, 4}

=============================================================================
