--------------------------- MODULE MCGclService ---------------------------
(* Drafts around the edges of stages 5 and 7: 24608 ns is exactly a 1538-   *)
(* byte window with its guard band, 487696 ns of blocking is exactly the    *)
(* 500 us deadline with the TC7 burst of 12304 ns.                          *)
EXTENDS GclService

MCCycleTimes == {100000, 512304}
MCFrameSizes == {0, 1537, 1538}
MCGateMasks  == {{7}, 0 .. 7, 0 .. 6, {}}
MCIntervals  == {0, 10000, 12304, 24600, 24608, 75392, 90000, 487696, 487704}

=============================================================================
