--------------------------- MODULE MCTriggerFirings ---------------------------
(* Five weeks of seven days of four hours.  On day 14 the hour 2 is skipped *)
(* and on day 28 it is repeated.                                            *)
EXTENDS TriggerFirings

MCOffset == [u \in 0..Horizon |-> IF u >= 14 * 4 + 2 /\ u < 28 * 4 + 2 THEN 1 ELSE 0]

MCCalendar ==
  {Daily(h) : h \in {0, 2, 3}} \cup
  {Weekly(days, h) : days \in {{0}, {1}, {0, 3}, {0, 6}}, h \in {0, 2, 3}}

ASSUME TameZone == MidnightPassesOnce /\ GapsAreRare
=============================================================================
