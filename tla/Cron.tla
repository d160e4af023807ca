-------------------------------- MODULE Cron --------------------------------
(***************************************************************************)
(* Cron expressions over a local clock that is set back or forward once:   *)
(* the parser, next_fire, which tells the owner of a new schedule when it  *)
(* will fire, and is_due, by which every tick of the scheduler decides     *)
(* what to insert into triggers.                                           *)
(*                                                                         *)
(* Time is counted in minutes of UTC.  The calendar is one of small        *)
(* numbers: hours, days, weeks and months of a few units each; the month   *)
(* field, which is matched like the hour, is left out.  A field of an      *)
(* expression is the literal star or a set of terms with their bounds and  *)
(* step.  Catching up, queue and delivery are those of Scheduler, which    *)
(* takes the matching minutes as given.                                    *)
(***************************************************************************)
EXTENDS Integers, FiniteSets, FiniteSetsExt

CONSTANTS MinutesPerHour, HoursPerDay, DaysPerWeek, DaysPerMonth,
          Zones,       \* clock changes: when, and the offset before and after
          Expressions, \* expressions the owner may ask for
          Star,        \* the literal star
          Nothing,     \* no minute, no expression
          Window,      \* catchup_window_s, in minutes
          Lookahead,   \* max_lookahead_days, in minutes
          Horizon      \* bound: the last minute

ASSUME CalendarAssumption ==
  {MinutesPerHour, HoursPerDay, DaysPerWeek, DaysPerMonth} \subseteq Nat \ {0}
ASSUME CronBoundsAssumption == {Window, Lookahead, Horizon} \subseteq Nat
ASSUME ZonesAssumption == Zones \subseteq [at : Int, before : Int, after : Int]
ASSUME NothingAssumption == Nothing \notin Int

VARIABLES
  zone,    \* the schedule's time zone
  now,     \* the minute
  ticked,  \* whether the loop has run in this minute
  expr,    \* the parsed expression, once the schedule is added
  last,    \* last_fire_at
  fired,   \* scheduled_for of the rows in triggers
  since,   \* history: no minute since has passed without a tick
  promise  \* history: what next_fire said, while no minute was missed

cronVars == <<zone, now, ticked, expr, last, fired, since, promise>>

----------------------------------------------------------------------------
(* The local clock.                                                        *)

Wall(u) == u + (IF u < zone.at THEN zone.before ELSE zone.after)

(* datetime with a ZoneInfo: in the hour that occurs twice fold tells the  *)
(* two apart; a wall time that never occurs takes one offset or the other. *)
ToUtc(w, fold) ==
  LET offsets == {zone.before, zone.after}
      turn == zone.at + (IF fold = 0 THEN Max(offsets) ELSE Min(offsets))
  IN  w - (IF w < turn THEN zone.before ELSE zone.after)

IsExisting(w) == Wall(ToUtc(w, 0)) = w
IsAmbiguous(w) == ToUtc(w, 0) # ToUtc(w, 1)

Minute(w) == w % MinutesPerHour
Hour(w) == (w \div MinutesPerHour) % HoursPerDay
Day(w) == w \div (MinutesPerHour * HoursPerDay)
DayOfMonth(w) == 1 + (Day(w) % DaysPerMonth)
DayOfWeek(w) == Day(w) % DaysPerWeek

----------------------------------------------------------------------------
(* Parsing.                                                                *)

Low  == [minute |-> 0, hour |-> 0, dom |-> 1, dow |-> 0]
High == [minute |-> MinutesPerHour - 1, hour |-> HoursPerDay - 1, dom |-> DaysPerMonth,
         dow |-> DaysPerWeek]
Kinds == DOMAIN Low

WellFormed(term, k) ==
  term.step > 0 /\ Low[k] <= term.from /\ term.to <= High[k] /\ term.from <= term.to

(* The last number of a day of the week is the first one again: 7 is 0.    *)
Expand(field, k) ==
  LET terms == IF field = Star THEN {[from |-> Low[k], to |-> High[k], step |-> 1]} ELSE field
      values == UNION {{v \in t.from..t.to : (v - t.from) % t.step = 0} : t \in terms}
  IN  IF k = "dow" THEN {v % DaysPerWeek : v \in values} ELSE values

Parses(text) ==
  \A k \in Kinds : text[k] # Star => text[k] # {} /\ \A t \in text[k] : WellFormed(t, k)

ParseCron(text) ==
  [sets |-> [k \in Kinds |-> Expand(text[k], k)],
   anyDom |-> text.dom = Star, anyDow |-> text.dow = Star]

ASSUME ExpressionsAssumption == \A text \in Expressions : ParseCron(text) # Nothing

(* Two restricted day fields are alternatives.                             *)
Matches(e, w) ==
  LET domOk == DayOfMonth(w) \in e.sets.dom
      dowOk == DayOfWeek(w) \in e.sets.dow
  IN  /\ Minute(w) \in e.sets.minute /\ Hour(w) \in e.sets.hour
      /\ IF ~e.anyDom /\ ~e.anyDow THEN domOk \/ dowOk
         ELSE IF e.anyDom THEN dowOk ELSE domOk

----------------------------------------------------------------------------
(* The two walks over the minutes of UTC.                                  *)

Candidates(e, from, to) == {u \in from..to : IsExisting(Wall(u)) /\ Matches(e, Wall(u))}

(* Variant: a minute of the repeated hour is taken as it comes.            *)
AsItComes(u) == u

(* A minute of the repeated hour stands for its first occurrence.          *)
Canonical(u) == IF IsAmbiguous(Wall(u)) THEN ToUtc(Wall(u), 0) ELSE u

(* Variant: next_fire does not ask whether a minute is ambiguous.          *)
NextFireAsItComes(e, from) ==
  LET found == Candidates(e, from + 1, from + Lookahead)
  IN  IF found = {} THEN Nothing ELSE Min(found)

NextFire(e, from) ==
  LET found == Candidates(e, from + 1, from + Lookahead)
  IN  IF found = {} THEN Nothing ELSE Canonical(Min(found))

(* Variant: a minute outside the window ends the walk.                     *)
IsDueStops(e) ==
  LET from  == IF last = Nothing THEN now ELSE last + 1
      found == Candidates(e, from, now)
  IN  IF found = {} \/ now - Min(found) > Window THEN Nothing ELSE Canonical(Min(found))

(* The oldest matching minute after last_fire_at inside the window; for a  *)
(* schedule that never fired, the current minute only.                     *)
IsDue(e) ==
  LET from  == IF last = Nothing THEN now ELSE last + 1
      found == {u \in Candidates(e, from, now) : now - u <= Window}
  IN  IF found = {} THEN Nothing ELSE Canonical(Min(found))

----------------------------------------------------------------------------
(* The schedule and its ticks.                                             *)

CronInit ==
  /\ zone \in Zones /\ now = 0 /\ ticked = FALSE /\ since = 0
  /\ expr = Nothing /\ last = Nothing /\ fired = {} /\ promise = Nothing

(* schedule_add, with the preview of the next firing.  A tick of this      *)
(* minute is still to come or has been.                                    *)
AddSchedule(text) ==
  /\ expr = Nothing /\ Parses(text)
  /\ expr' = ParseCron(text)
  /\ promise' = NextFire(expr', now)
  /\ since' = now + 1
  /\ UNCHANGED <<zone, now, ticked, last, fired>>

(* A minute that has its row already is refused by the table, and          *)
(* last_fire_at stays.                                                     *)
Tick ==
  /\ ticked' = TRUE
  /\ IF expr = Nothing \/ IsDue(expr) \in fired \cup {Nothing}
       THEN UNCHANGED <<last, fired>>
       ELSE last' = IsDue(expr) /\ fired' = fired \cup {IsDue(expr)}
  /\ UNCHANGED <<zone, now, expr, since, promise>>

(* The loop ticks several times a minute.                                  *)
MinutePasses ==
  /\ ticked /\ now < Horizon
  /\ now' = now + 1 /\ ticked' = FALSE
  /\ UNCHANGED <<zone, expr, last, fired, since, promise>>

(* The process is down, or a tick takes longer than its minute.            *)
Miss(minutes) ==
  /\ now + minutes <= Horizon
  /\ now' = now + minutes /\ ticked' = FALSE
  /\ since' = now' /\ promise' = Nothing
  /\ UNCHANGED <<zone, expr, last, fired>>

CronNext ==
  \/ \E text \in Expressions : AddSchedule(text)
  \/ Tick \/ MinutePasses
  \/ \E minutes \in 1..(Window + 2) : Miss(minutes)

CronSpec == CronInit /\ [][CronNext]_cronVars

----------------------------------------------------------------------------
(* Properties.                                                             *)

(* No wall-clock minute fires twice when the clock is set back, though the *)
(* walk passes each of its minutes twice and the table knows them by UTC.  *)
OncePerWallMinute == \A u, v \in fired : Wall(u) = Wall(v) => u = v

(* A matching minute the loop was there for has its row by the time it     *)
(* leaves the catch-up window.  The minutes of the repeated hour hold up   *)
(* those behind them, because last_fire_at does not pass them; they hold   *)
(* them up for the window and no longer.                                   *)
NothingIsLost ==
  expr # Nothing =>
    \A u \in since..(now - Window - 1) : u \in Candidates(expr, u, u) => Canonical(u) \in fired

(* What next_fire told the owner of a new schedule is what is_due makes    *)
(* the loop insert: two walks with rules of their own for the clock.       *)
PromiseIsKept == promise # Nothing /\ now > promise + Window + 1 /\ ticked => promise \in fired
=============================================================================
