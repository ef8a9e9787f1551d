------------------------------- MODULE MCMLFQ -------------------------------
(***************************************************************************)
(* The command lines and job lists on which TLC checks MLFQ: three jobs    *)
(* and three levels.                                                       *)
(***************************************************************************)
EXTENDS MLFQ

\* A value for each level, the lowest first.
PerLevel(low, mid, high) == [q \in 0 .. 2 |-> <<low, mid, high>>[q + 1]]

CommandLines(quanta, allotments, boosts, ioTimes, stays, iobumps) ==
  [quantum : quanta, allotment : allotments, boost : boosts,
   ioTime : ioTimes, stay : stays, iobump : iobumps]

\* Quanta that shrink or grow with the level, no boost, boosts that cut a
\* quantum short and boosts rarer than a round, I/Os of no time at all.
MCOptions ==
  CommandLines({PerLevel(2, 2, 2), PerLevel(3, 2, 1)},
               {PerLevel(0, 1, 2), PerLevel(1, 2, 1), PerLevel(0, 0, 0)},
               {0, 1, 7}, {0, 2}, BOOLEAN, BOOLEAN)

\* A batch job, an interactive one and one that comes late.
MCJobInputs == {<<0, 6, 0>>, <<0, 8, 1>>, <<2, 6, 3>>}

\* A boost every time unit.
EagerBoost ==
  CommandLines({PerLevel(2, 2, 2)}, {PerLevel(1, 1, 1)}, {1}, {0}, {FALSE}, {FALSE})
LongJobs == {<<0, 12, 0>>}
=============================================================================
