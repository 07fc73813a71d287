----------------------------- MODULE MCCalendar -----------------------------
(* Values for TLC: the ends of months and of common and leap years, and fields     *)
(* that are no date. The tests construct 0-0-0; here the year is a near one, for   *)
(* TLC recurses once for every year of a difference.                               *)
EXTENDS Calendar

At(y, m, d, h, i, s, ms) ==
    [year |-> y, month |-> m, day |-> d, hour |-> h, minute |-> i,
     second |-> s, millisecond |-> ms]

MCStarts == {At(1999, 12, 31, 23, 59, 59, 999), At(2000, 2, 29, 13, 37, 42, 7),
             At(2001, 1, 1, 0, 0, 0, 0), At(1996, 2, 28, 23, 30, 60, 0),
             At(2004, 10, 31, 0, 0, 1, 500), At(1998, 0, 0, 0, 0, 0, 0),
             At(1999, 12, 40, 24, 0, 0, 0), At(2004, 200, 1, 12, 0, 0, 1000)}

MCAmounts ==
    [years |-> {-1, 0, 1, 4},
     months |-> {-13, -1, 0, 1, 2, 10, 13, 24},
     days |-> {-366, -59, -1, 0, 1, 29, 366, 1461},
     hours |-> {-49, -25, -24, -1, 0, 1, 23, 505},
     minutes |-> {-1501, -60, -1, 0, 1, 59, 1500},
     seconds |-> {-86401, -3600, -1, 0, 1, 59, 90061},
     milliseconds |-> {-60001, -1000, -1, 0, 1, 999, 86400001}]

MCFields ==
    [year |-> {0, 1999, 2001, 2004},
     month |-> {0, 2, 4, 12, 13},
     day |-> {0, 29, 30, 31, 32},
     dayOfYear |-> {0, 60, 365, 366}]
=============================================================================
