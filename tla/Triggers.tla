------------------------------- MODULE Triggers -------------------------------
(* When a workflow is next due: Trigger::next_after of                      *)
(* services/scheduled_workflows/trigger.rs.  An instant is a number of      *)
(* hours and a day has DayLen of them.  The time zone is the UTC offset at  *)
(* each instant: a step up skips local hours (the spring-forward gap), a    *)
(* step down repeats some (the autumn fold).                                *)
EXTENDS Integers, FiniteSets

CONSTANTS
  DayLen,
  Horizon,   \* instants are 0..Horizon
  Offset,    \* UTC offset of the zone at each instant
  None       \* no instant

ASSUME TriggersAssumption ==
  /\ DayLen \in Nat \ {0} /\ Horizon \in Nat
  /\ Offset \in [0..Horizon -> Int]
  /\ None \notin Int

Instant  == 0..Horizon
Earliest(S) == IF S = {} THEN None ELSE CHOOSE u \in S : \A v \in S : u <= v

Interval(n)     == [kind |-> "interval", every |-> n]
Once(u)         == [kind |-> "once", at |-> u]
Daily(h)        == [kind |-> "daily", hour |-> h]
Weekly(days, h) == [kind |-> "weekly", weekdays |-> days, hour |-> h]

(* Trigger::validate: what every command checks before it stores a trigger. *)
IsTrigger(x) ==
  \/ x.kind = "interval" /\ x.every \in Nat \ {0}
  \/ x.kind = "once" /\ x.at \in Int
  \/ x.kind = "daily" /\ x.hour \in 0..(DayLen - 1)
  \/ x.kind = "weekly" /\ x.weekdays \subseteq 0..6 /\ x.weekdays # {}
                        /\ x.hour \in 0..(DayLen - 1)

LocalTime(u) == u + Offset[u]
LocalDay(u)  == LocalTime(u) \div DayLen

(* local_hm_to_utc: none in a gap, the earlier of two in a fold. *)
LocalToUtc(day, h) == Earliest({u \in Instant : LocalTime(u) = day * DayLen + h})

(* The first of the days whose local hour h exists and is later than t. *)
Later(t, day, h) == LocalToUtc(day, h) # None /\ LocalToUtc(day, h) > t

FirstLater(t, days, h) ==
  LET day == Earliest({d \in days : Later(t, d, h)})
  IN  IF day = None THEN None ELSE LocalToUtc(day, h)

Ahead(t, span) == LocalDay(t)..(LocalDay(t) + span)   \* today and the days after

(* Faults: today and tomorrow only; from tomorrow.                          *)
FaultTwoDays(t, h) == FirstLater(t, Ahead(t, 1), h)
FaultNotToday(t, days, h) ==
  FirstLater(t, {d \in Ahead(t, 7) \ {LocalDay(t)} : d % 7 \in days}, h)

NextDaily(t, h) == FirstLater(t, Ahead(t, 2), h)

NextWeekly(t, days, h) ==
  FirstLater(t, {d \in Ahead(t, 7) : d % 7 \in days}, h)

NextAfter(trigger, t) ==
  CASE trigger.kind = "interval" -> t + trigger.every
    [] trigger.kind = "once"     -> IF trigger.at > t THEN trigger.at ELSE None
    [] trigger.kind = "daily"    -> NextDaily(t, trigger.hour)
    [] trigger.kind = "weekly"   -> NextWeekly(t, trigger.weekdays, trigger.hour)
=============================================================================
