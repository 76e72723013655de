---------------------------- MODULE TriggerFirings ----------------------------
(* The firings of one calendar trigger, each computed from the one before,  *)
(* against the calendar itself.                                             *)
EXTENDS Triggers

CONSTANTS
  Calendar,  \* the triggers that are followed
  Span       \* no firing is followed beyond this instant

ASSUME FiringsAssumption ==
  /\ Span \in Instant
  /\ \A x \in Calendar : IsTrigger(x) /\ x.kind \in {"daily", "weekly"}

(* A clock that is put back to the day before shows hours that it has       *)
(* shown: no zone skips an hour and falls back into the gap afterwards.     *)
ASSUME ZoneAssumption ==
  \A u, v \in Instant :
    u < v /\ LocalDay(v) < LocalDay(u) =>
      \E w \in Instant : w <= u /\ LocalTime(w) = LocalTime(v)

VARIABLES trigger, last

FInit == trigger \in Calendar /\ last \in 0..Span

Fire == /\ last <= Span
        /\ NextAfter(trigger, last) # None
        /\ last' = NextAfter(trigger, last)
        /\ UNCHANGED trigger

FSpec == FInit /\ [][Fire]_<<trigger, last>>

(* The days on which the trigger is due, and their instants. *)
DueOn(day) == trigger.kind = "daily" \/ day % 7 \in trigger.weekdays

Occurrences ==
  {LocalToUtc(d, trigger.hour) : d \in {e \in {LocalDay(u) : u \in Instant} : DueOn(e)}} \ {None}

(* A firing is never late and never early: the next one is the first        *)
(* calendar occurrence after the last, whatever gaps and folds lie between. *)
FiresAtFirstOccurrence ==
  NextAfter(trigger, last) # None =>
    NextAfter(trigger, last) = Earliest({u \in Occurrences : u > last})

(* A daily trigger goes on for ever, also across a day whose hour is in a   *)
(* gap.                                                                     *)
DailyNeverStops == trigger.kind = "daily" /\ last <= Span => NextAfter(trigger, last) # None

(* What it takes of a zone: midnight is not passed twice, no hour is        *)
(* skipped on two days in a row, and the calendar goes on for two days.     *)
MidnightPassesOnce == \A u, v \in Instant : u < v => LocalDay(u) <= LocalDay(v)

GapsAreRare ==
  \A u \in 0..Span, h \in 0..(DayLen - 1) :
    \E d \in {LocalDay(u) + 1, LocalDay(u) + 2} : LocalToUtc(d, h) # None
=============================================================================
