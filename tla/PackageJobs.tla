---------------------------- MODULE PackageJobs ----------------------------
(***************************************************************************)
(* The scheduler of package jobs (packageJobSchedulerService.ts), the rows *)
(* it reads and writes, and the calls by which packages schedule and       *)
(* cancel jobs.  A tick lists the due jobs once and then takes them one by *)
(* one through the queue of each job; ticks may overlap, since the timer   *)
(* does not wait for the tick before.                                      *)
(***************************************************************************)
EXTENDS Schedules, Sequences, SequencesExt

CONSTANTS
  Jobs, Ticks,       \* jobs; names for the ticks under way
  Requests,          \* the [schedule, start] that packages ask for
  MaxTime,           \* bound on the clock
  Absent

VARIABLES
  now, up,   \* the clock; whether the runtime runs
  jobs,      \* [Jobs -> row or Absent]: the table runtime_package_jobs
  tick,      \* [Ticks -> [left, row] or Absent]: listed jobs to come, and the copy being run
  line,      \* [Jobs -> Seq(Ticks)]: the queue package-job:<job>
  asked,     \* history: what the last call for the job asked, as a row, or Absent
  raced,     \* history: a call for the job came while its action ran
  ran,       \* history: occurrences whose run was not cut off, since the job was asked for
  again      \* history: an occurrence ran twice

Metas == {ParseSchedule(r.schedule) : r \in Requests} \ {Invalid}
JobRow == [meta : Metas, anchor : Nat, next : Nat \cup {Never}]
TickRow == [left : Seq(Jobs), row : JobRow \cup {Absent}]

Row(meta, anchor, next) == [meta |-> meta, anchor |-> anchor, next |-> next]
SaveJob(j, row) == jobs' = [jobs EXCEPT ![j] = row]
IsDue(row) == row # Absent /\ row.next # Never /\ row.next <= now
Running(k) == tick[k] # Absent /\ tick[k].row # Absent
RunningJob(j) == \E k \in Ticks : Running(k) /\ Head(tick[k].left) = j

JobsInit ==
  /\ now = 0 /\ up = TRUE /\ again = FALSE
  /\ jobs = [j \in Jobs |-> Absent] /\ asked = jobs
  /\ tick = [k \in Ticks |-> Absent] /\ line = [j \in Jobs |-> <<>>]
  /\ raced = [j \in Jobs |-> FALSE] /\ ran = [j \in Jobs |-> {}]

-----------------------------------------------------------------------------
Asked(j, row) ==
  /\ SaveJob(j, row)
  /\ asked' = [asked EXCEPT ![j] = row]
  /\ raced' = [raced EXCEPT ![j] = RunningJob(j)]
  /\ ran' = [ran EXCEPT ![j] = {}]
  /\ UNCHANGED <<now, up, tick, line, again>>

\* schedulePackageJob: replaces the row of the job, whatever it was.
SchedulePackageJob(j, schedule, start) ==
  /\ up
  /\ ParseSchedule(schedule) # Invalid
  /\ \E meta \in {ParseSchedule(schedule)}, anchor \in {ParseStartTime(start, now)} :
       Asked(j, Row(meta, anchor, RunAtOrAfter(meta, anchor, now)))

CancelPackageJob(j) ==
  /\ up
  /\ jobs[j] # Absent
  /\ Asked(j, Absent)

-----------------------------------------------------------------------------
DueNow == {j \in Jobs : IsDue(jobs[j]) /\ jobs[j].next = now}  \* mutant: what was missed is not due
DueJobs == {j \in Jobs : IsDue(jobs[j])}

\* The rows due now, the longest overdue first; what is due at once comes in any order.
DueLists ==
  {due \in SetToSeqs(DueJobs) :
     \A m, n \in DOMAIN due : m < n => jobs[due[m]].next <= jobs[due[n]].next}

\* start and the interval of a minute: the listing is awaited job by job.
TimerFires(k) ==
  /\ up /\ tick[k] = Absent /\ DueJobs # {}
  /\ \A i \in Ticks : i < k => tick[i] # Absent   \* names are taken in order
  /\ \E due \in DueLists :
       /\ tick' = [tick EXCEPT ![k] = [left |-> due, row |-> Absent]]
       /\ line' = [line EXCEPT ![Head(due)] = Append(@, k)]
  /\ UNCHANGED <<now, up, jobs, asked, raced, ran, again>>

\* The tick goes on to the next job it listed.
Onward(k) ==
  LET j == Head(tick[k].left)
      rest == Tail(tick[k].left)
      left == [line EXCEPT ![j] = Tail(@)]
  IN /\ tick' = [tick EXCEPT ![k] = IF rest = <<>> THEN Absent ELSE [left |-> rest, row |-> Absent]]
     /\ line' = IF rest = <<>> THEN left ELSE [left EXCEPT ![Head(rest)] = Append(@, k)]

Turn(k) ==
  /\ up /\ tick[k] # Absent /\ tick[k].row = Absent
  /\ Head(line[Head(tick[k].left)]) = k

\* The row as it is when the queue comes to it.
Current(k) == jobs[Head(tick[k].left)]

Skip(k) ==
  /\ Turn(k) /\ ~IsDue(Current(k))
  /\ Onward(k)
  /\ UNCHANGED <<now, up, jobs, asked, raced, ran, again>>

Dispatch(k) ==
  /\ Turn(k) /\ IsDue(Current(k))
  /\ tick' = [tick EXCEPT ![k].row = Current(k)]
  /\ again' = (again \/ Current(k).next \in ran[Head(tick[k].left)])
  /\ ran' = [ran EXCEPT ![Head(tick[k].left)] = @ \cup {Current(k).next}]
  /\ UNCHANGED <<now, up, jobs, line, asked, raced>>

\* reschedule: the copy read before the action ran is written back.
SameAgain(row) == [row EXCEPT !.next = RunAtOrAfter(row.meta, row.anchor, row.next)]  \* mutant
Rescheduled(row) == [row EXCEPT !.next = NextRun(row.meta, row.anchor, row.next)]

\* The action returned or threw: both reschedule.
FinishJob(k) ==
  /\ up /\ Running(k)
  /\ SaveJob(Head(tick[k].left), Rescheduled(tick[k].row))
  /\ Onward(k)
  /\ UNCHANGED <<now, up, asked, raced, ran, again>>

-----------------------------------------------------------------------------
\* A crash or a restart of the runtime: an occurrence that was running counts as not run.
CutOff(j) == {tick[k].row.next : k \in {k \in Ticks : Running(k) /\ Head(tick[k].left) = j}}

JobsCrash ==
  /\ up' = FALSE
  /\ tick' = [k \in Ticks |-> Absent]
  /\ line' = [j \in Jobs |-> <<>>]
  /\ ran' = [j \in Jobs |-> ran[j] \ CutOff(j)]
  /\ UNCHANGED <<now, jobs, asked, raced, again>>

JobsStart ==
  /\ ~up /\ up' = TRUE
  /\ UNCHANGED <<now, jobs, tick, line, asked, raced, ran, again>>

TimePasses ==
  /\ now < MaxTime /\ now' = now + 1
  /\ UNCHANGED <<up, jobs, tick, line, asked, raced, ran, again>>

SchedulerStep(k) == TimerFires(k) \/ Skip(k) \/ Dispatch(k)
ScheduleCall ==
  \E j \in Jobs : \/ CancelPackageJob(j)
                  \/ \E r \in Requests : SchedulePackageJob(j, r.schedule, r.start)

-----------------------------------------------------------------------------
JobsTypeOK ==
  /\ now \in 0 .. MaxTime /\ up \in BOOLEAN /\ again \in BOOLEAN
  /\ jobs \in [Jobs -> JobRow \cup {Absent}]
  /\ tick \in [Ticks -> TickRow \cup {Absent}] /\ line \in [Jobs -> Seq(Ticks)]
  /\ \A j \in Jobs : \A n \in 1 .. Len(line[j]) :
       tick[line[j][n]] # Absent /\ Head(tick[line[j][n]].left) = j

\* What a call asked is what the table holds.
AskedHolds(j) ==
  IF asked[j] = Absent THEN jobs[j] = Absent
  ELSE /\ jobs[j] # Absent
       /\ jobs[j].meta = asked[j].meta /\ jobs[j].anchor = asked[j].anchor

\* The next run is the first occurrence that has not run.
FirstNotRun(j) ==
  jobs[j] # Absent /\ ~RunningJob(j) =>
    LET row == jobs[j]
        from == asked[j].next
        due == {t \in (IF from = Never THEN {} ELSE from .. (MaxTime + 2 * Minute)) :
                  Occurs(row.meta, row.anchor, t) /\ t \notin ran[j]}
    IN IF row.next # Never THEN due # {} => row.next = CHOOSE t \in due : \A u \in due : t <= u
       ELSE due = {}

\* However ticks, runs, cancellations, new schedules and crashes interleave, a
\* job is scheduled as the last call asked and its next run is the first
\* occurrence that has not run; the only exception is a call that came while
\* the job's own action ran, which the write after the run undoes.
RunsAsAsked == \A j \in Jobs : ~raced[j] => AskedHolds(j) /\ FirstNotRun(j)

\* An occurrence runs once, unless the runtime stopped in the middle of it, or
\* the job was asked for anew.
OccurrenceOnce == ~again
=============================================================================
