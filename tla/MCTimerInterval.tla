--------------------------- MODULE MCTimerInterval ---------------------------
(* Instances of TimerInterval for TLC: the boundaries of the arithmetic.   *)
EXTENDS TimerInterval

CONSTANTS t1, t2

MCRequests ==
  {-2147483647, -1001, -1000, -999, -1, 0, 1, 99, 100, 101, 999, 1000, 1001,
   1100, 1999, 2000, 2147483000, 2147483646, 2147483647}

=============================================================================
