----------------------------- MODULE Schedules -----------------------------
(***************************************************************************)
(* The arithmetic of package schedules (packageSchedule.ts): what a        *)
(* schedule and a start time mean once they are parsed, and when a job     *)
(* runs next.  A schedule is one of                                        *)
(*                                                                         *)
(*   [kind |-> "interval", amount |-> n, unit |-> minutes of a unit]       *)
(*   [kind |-> "cron", fields |-> <<minute, hour, day, month, weekday>>]   *)
(*   [kind |-> "once", at |-> an instant]                                  *)
(*                                                                         *)
(* where a cron field is a set of segments [from, to, step]: from = Star    *)
(* stands for "*", to = Star for a single value, step = 0 for no step.      *)
(* Instants are natural numbers, Minute of them to a minute; the calendar  *)
(* has the shape of the real one, with months of one length.               *)
(***************************************************************************)
EXTENDS Integers, FiniteSets

CONSTANTS
  Minute, MinutesPerHour, HoursPerDay, DaysPerWeek, DaysPerMonth, MonthsPerYear,
  CronLimit,  \* how many minutes the search for a match of a cron goes on
  Star,        \* "*" in a cron field
  Invalid,    \* what a parser throws
  Never       \* no further run: the null of next_run_at

Hour == Minute * MinutesPerHour
Day == Hour * HoursPerDay
LastDay == DaysPerWeek

MinuteOf(t) == (t % Hour) \div Minute
HourOf(t) == (t % Day) \div Hour
WeekdayOf(t) == (t \div Day) % DaysPerWeek
DayOf(t) == 1 + ((t \div Day) % DaysPerMonth)
MonthOf(t) == 1 + ((t \div (Day * DaysPerMonth)) % MonthsPerYear)

CeilDiv(a, b) == (a + b - 1) \div b

\* What a package may ask for: a count of units, an instant or a cron; and when to start.
ScheduleOK(schedule) ==
  CASE schedule.kind = "interval" -> schedule.amount \in Int /\ schedule.unit \in Nat \ {0}
    [] schedule.kind = "once" -> schedule.at \in Nat \cup {Star}
    [] OTHER -> schedule.kind = "cron"
StartOK(start) == start.kind # "none" => start.at \in Nat
Later(a, b) == IF a >= b THEN a ELSE b

-----------------------------------------------------------------------------
(* Parsing.  A step without a range counts to the end of the field only     *)
(* where the field allows it, which is the weekday's alone.                 *)

SegmentEnd(seg, max, openStep) ==
  IF seg.to # Star THEN seg.to ELSE IF openStep /\ seg.step > 0 THEN max ELSE seg.from

SegmentRange(seg, min, max, openStep) ==
  IF seg.from = Star THEN min .. max ELSE seg.from .. SegmentEnd(seg, max, openStep)

ValidSegment(seg, min, max, openStep) ==
  seg.from # Star =>
    /\ seg.from \in min .. max
    /\ SegmentEnd(seg, max, openStep) \in seg.from .. max

AddRangeValues(seg, min, max, openStep) ==
  LET first == IF seg.from = Star THEN min ELSE seg.from
      step == IF seg.step = 0 THEN 1 ELSE seg.step
  IN {v \in SegmentRange(seg, min, max, openStep) : (v - first) % step = 0}

ParseField(field, min, max, openStep) ==
  UNION {AddRangeValues(seg, min, max, openStep) : seg \in field}

ValidField(field, min, max, openStep) ==
  field # {} /\ \A seg \in field : ValidSegment(seg, min, max, openStep)

\* Only a field that is a lone "*" counts as unrestricted: "*/2" does not.
AnyField(field) == field = {[from |-> Star, to |-> Star, step |-> 0]}

ValidCron(fields) ==
  /\ ValidField(fields[1], 0, MinutesPerHour - 1, FALSE)
  /\ ValidField(fields[2], 0, HoursPerDay - 1, FALSE)
  /\ ValidField(fields[3], 1, DaysPerMonth, FALSE)
  /\ ValidField(fields[4], 1, MonthsPerYear, FALSE)
  /\ ValidField(fields[5], 0, LastDay, TRUE)

\* The last weekday is Sunday once more.
ParseCron(fields) ==
  [kind |-> "cron",
   minute |-> ParseField(fields[1], 0, MinutesPerHour - 1, FALSE),
   hour |-> ParseField(fields[2], 0, HoursPerDay - 1, FALSE),
   dayOfMonth |-> ParseField(fields[3], 1, DaysPerMonth, FALSE),
   month |-> ParseField(fields[4], 1, MonthsPerYear, FALSE),
   dayOfWeek |-> {d % DaysPerWeek : d \in ParseField(fields[5], 0, LastDay, TRUE)},
   anyDayOfMonth |-> AnyField(fields[3]),
   anyDayOfWeek |-> AnyField(fields[5])]

ParseInterval(schedule) ==
  IF schedule.amount <= 0 THEN Invalid
  ELSE [kind |-> "interval", cadence |-> schedule.amount * schedule.unit]

\* A one-shot schedule needs a whole date: a time of day alone is refused.
ParseOnce(schedule) ==
  IF schedule.at = Star THEN Invalid ELSE [kind |-> "once", at |-> schedule.at]

ParseSchedule(schedule) ==
  CASE schedule.kind = "once" -> ParseOnce(schedule)
    [] schedule.kind = "cron" -> IF ValidCron(schedule.fields)
                                 THEN ParseCron(schedule.fields) ELSE Invalid
    [] OTHER -> ParseInterval(schedule)

\* A start time is absent, a time of today, or a date: a time of today may be past.
ParseStartTime(start, now) ==
  CASE start.kind = "none" -> now
    [] start.kind = "time" -> (now \div Day) * Day + start.at
    [] OTHER -> start.at

-----------------------------------------------------------------------------
(* The next run.                                                            *)

CronMatches(cron, t) ==
  /\ MinuteOf(t) \in cron.minute
  /\ HourOf(t) \in cron.hour
  /\ MonthOf(t) \in cron.month
  /\ LET dom == DayOf(t) \in cron.dayOfMonth
         dow == WeekdayOf(t) \in cron.dayOfWeek
     IN CASE cron.anyDayOfMonth /\ cron.anyDayOfWeek -> TRUE
          [] cron.anyDayOfMonth -> dow
          [] cron.anyDayOfWeek -> dom
          [] OTHER -> dom \/ dow

\* Whole minutes, from the anchor or the reference on, until one matches.
CronRunAtOrAfter(cron, anchor, reference) ==
  LET first == CeilDiv(Later(anchor, reference), Minute)
      found == {m \in first .. (first + CronLimit - 1) : CronMatches(cron, m * Minute)}
  IN IF found = {} THEN Never ELSE Minute * (CHOOSE m \in found : \A k \in found : m <= k)

IntervalRunAtOrAfter(anchor, cadence, reference) ==
  IF reference <= anchor THEN anchor
  ELSE anchor + CeilDiv(reference - anchor, cadence * Minute) * cadence * Minute

RunAtOrAfter(meta, anchor, reference) ==
  CASE meta.kind = "interval" -> IntervalRunAtOrAfter(anchor, meta.cadence, reference)
    [] meta.kind = "once" -> IF meta.at >= reference THEN meta.at ELSE Never
    [] OTHER -> CronRunAtOrAfter(meta, anchor, reference)

\* The smallest step of time after the run that was due.
NextRun(meta, anchor, after) ==
  IF meta.kind = "once" THEN Never ELSE RunAtOrAfter(meta, anchor, after + 1)

-----------------------------------------------------------------------------
(* What a schedule means, said without computing it.                        *)

Occurs(meta, anchor, t) ==
  CASE meta.kind = "once" -> t = meta.at
    [] meta.kind = "interval" -> t >= anchor /\ (t - anchor) % (meta.cadence * Minute) = 0
    [] OTHER -> t >= anchor /\ t % Minute = 0 /\ CronMatches(meta, t)
=============================================================================
