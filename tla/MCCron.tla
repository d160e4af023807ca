------------------------------- MODULE MCCron -------------------------------
(* Hours of three minutes, days of two hours, a clock that is set back or  *)
(* forward by an hour, and one that is not.                                *)
EXTENDS Cron

Field(from, to, step) == {[from |-> from, to |-> to, step |-> step]}
Text(minute, hour, dom, dow) == [minute |-> minute, hour |-> hour, dom |-> dom, dow |-> dow]

MCZones == {[at |-> 7, before |-> 3, after |-> 0], [at |-> 6, before |-> 0, after |-> 3],
            [at |-> 0, before |-> 1, after |-> 1]}

(* Every minute; every other one; one of each hour; hourly and daily       *)
(* lists; days of the month or of the week; 7 for Sunday; and two that     *)
(* are refused.                                                            *)
MCTexts ==
  {Text(Star, Star, Star, Star), Text(Field(0, 2, 2), Star, Star, Star),
   Text(Field(1, 1, 1), Star, Star, Star), Text(Field(0, 0, 1) \cup Field(2, 2, 1), Field(1, 1, 1), Star, Star),
   Text(Field(0, 0, 1), Field(0, 1, 1), Field(2, 2, 1), Field(0, 0, 1)),
   Text(Field(2, 2, 1), Star, Field(1, 3, 2), Star), Text(Field(1, 1, 1), Star, Star, Field(2, 3, 1)),
   Text(Field(3, 3, 1), Star, Star, Star), Text(Star, Field(1, 0, 1), Star, Star)}
=============================================================================
