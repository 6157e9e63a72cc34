----------------------------- MODULE PluginWork ----------------------------
(***************************************************************************)
(* The work that packages do in the runtime: the scheduler starts the      *)
(* actions of due jobs, workflows run when they are confirmed or started,  *)
(* and the code that so runs claims work items, runs gates and settles.    *)
(* Crashes and restarts cut all of it off at once; only the tables stay.   *)
(* A worker of WorkItems is a tick that runs an action, or a workflow run. *)
(***************************************************************************)
EXTENDS Integers, Sequences, FiniteSets

CONSTANTS
  Minute, MinutesPerHour, HoursPerDay, DaysPerWeek, DaysPerMonth, MonthsPerYear,
  CronLimit, Star, Invalid, Never,
  PackageJobIds, Ticks, Requests, MaxTime,   \* the Jobs of PackageJobs
  Items, ItemKeys, NoKey, Priorities, MaxAttempts, Lease, Delay, Gates,   \* the Keys of WorkItems
  Setups, Runs, Answers, Ttl, Confirms,
  Absent,
  Budgets   \* [schedule, enqueue, claim, setup, start, gate, crash]: how often each is called

VARIABLES now, up, jobs, tick, line, asked, raced, ran, again,
          items, holds, gates, lapses, settled, late,
          setups, runs, confirming, twice,
          budget

Workers == Ticks \cup Runs

INSTANCE PackageJobs WITH Jobs <- PackageJobIds
INSTANCE WorkItems WITH Keys <- ItemKeys
INSTANCE Workflows

jobVars == <<now, up, jobs, tick, line, asked, raced, ran, again>>
itemVars == <<items, holds, gates, lapses, settled, late>>
flowVars == <<setups, runs, confirming, twice>>
workVars == <<jobVars, itemVars, flowVars, budget>>

\* The calendar and the limits are numbers, what packages may ask is a schedule and
\* a start, and no row, time, setup or worker is the absent one.
WorkConstants ==
  /\ {Minute, MinutesPerHour, HoursPerDay, MaxAttempts, Lease} \subseteq Nat \ {0}
  /\ {CronLimit, MaxTime, Delay, Ttl} \subseteq Nat /\ Priorities \subseteq Int
  /\ CronLimit * Minute > MaxTime + 2 * Minute
  /\ Ticks \cap Runs = {} /\ IsFiniteSet(PackageJobIds)
  /\ \A r \in Requests : ScheduleOK(r.schedule) /\ StartOK(r.start)
  /\ {Absent, Never} \cap Nat = {} /\ Absent \notin Setups
  /\ Absent \notin JobRow \cup TickRow \cup ItemRow \cup SetupRow \cup RunRow

ASSUME WorkAssumption == WorkConstants

WorkInit == JobsInit /\ ItemsInit /\ FlowsInit /\ budget \in Budgets

\* Package code under way: an action of a job, or a workflow; it waits for a gate it runs.
Busy(w) ==
  /\ up
  /\ (w \in Ticks /\ Running(w)) \/ (w \in Runs /\ Executing(w))
  /\ ~GateRunning(w)

\* Identifiers are fresh: the order in which they are taken does not matter.
FreshRun == {r \in Runs : runs[r] = Absent /\ \A q \in Runs : q < r => runs[q] # Absent}

\* Every call that packages and users make is paid from the budget.
Spend(kind) ==
  /\ budget[kind] > 0
  /\ budget' = [budget EXCEPT ![kind] = @ - 1]

-----------------------------------------------------------------------------
JobStep ==
  \/ ScheduleCall /\ Spend("schedule") /\ UNCHANGED <<itemVars, flowVars>>
  \/ (TimePasses \/ \E k \in Ticks : SchedulerStep(k)) /\ UNCHANGED <<itemVars, flowVars, budget>>

\* The action of a job ends, settled or not: what it held stays as it is in the table.
ActionEnds(k) ==
  /\ Busy(k) /\ FinishJob(k) /\ Dropped({k})
  /\ UNCHANGED <<flowVars, budget>>

ItemStep ==
  /\ \/ \E i \in Items, key \in ItemKeys \cup {NoKey}, p \in Priorities :
          up /\ EnqueueWorkItem(i, key, p) /\ Spend("enqueue")
     \/ \E w \in Workers :
          /\ Busy(w)
          /\ \/ ClaimWorkItem(w) /\ Spend("claim")
             \/ CompleteWorkItem(w) /\ UNCHANGED budget
             \/ \E retry \in BOOLEAN : FailWorkItem(w, retry) /\ UNCHANGED budget
             \/ DeadLetterWorkItem(w) /\ UNCHANGED budget
             \/ \E g \in Gates : RunGate(w, g) /\ Spend("gate")
     \/ \E g \in Gates : GateEnds(g) /\ UNCHANGED budget
  /\ UNCHANGED <<jobVars, flowVars>>

FlowStep ==
  /\ up
  /\ \/ /\ \E s \in Setups : \/ StartWorkflowSetup(s) \/ CancelSetup(s) \/ ConfirmRefused(s)
                             \/ \E a \in Answers : AnswerWorkflowSetup(s, a)
                             \/ \E r \in FreshRun : ConfirmWorkflowSetup(s, r)
        /\ Spend("setup")
     \/ \E r \in FreshRun, a \in Answers : StartWorkflow(r, a) /\ Spend("start")
     \/ \E r \in Runs : ConfirmReturns(r) /\ UNCHANGED budget
  /\ UNCHANGED <<jobVars, itemVars>>

WorkflowEnds(r) ==
  /\ Busy(r) /\ Dropped({r})
  /\ \E ok \in BOOLEAN : RunEnds(r, ok)
  /\ UNCHANGED <<jobVars, budget>>

Crash ==
  /\ up /\ Spend("crash")
  /\ JobsCrash /\ FlowsCrash /\ Dropped(Workers)

Restart == JobsStart /\ UNCHANGED <<itemVars, flowVars, budget>>

WorkNext ==
  \/ JobStep \/ ItemStep \/ FlowStep \/ Crash \/ Restart
  \/ \E k \in Ticks : ActionEnds(k)
  \/ \E r \in Runs : WorkflowEnds(r)

\* The timer fires, the queue of a job goes on, and an action that was started
\* returns, with the gate it waits for; nothing obliges packages to call.
WorkFairness ==
  /\ WF_workVars(Restart)
  /\ \A k \in Ticks :
       /\ WF_workVars(SchedulerStep(k) /\ UNCHANGED <<itemVars, flowVars, budget>>)
       /\ WF_workVars(ActionEnds(k))
  /\ \A g \in Gates : WF_workVars(GateEnds(g) /\ UNCHANGED <<jobVars, flowVars, budget>>)

WorkSpec == WorkInit /\ [][WorkNext]_workVars /\ WorkFairness

-----------------------------------------------------------------------------
\* The shapes of the tables, and that every place in a queue is a tick's.
TablesOK == JobsTypeOK /\ ItemsTypeOK /\ FlowsTypeOK

\* Jobs (packageJobSchedulerService.ts, schedulePackageJob, cancelPackageJob):
\* whatever interleaves, a job is scheduled as the last call asked, its next
\* run is the first occurrence that has not run, and none runs twice; except
\* for a call that comes while the job's own action runs, which is undone.
JobsAsAsked == RunsAsAsked /\ OccurrenceOnce

\* Claims (workItemRepository.ts): leases exclude each other, a key has one
\* item, and only expired leases add to the attempts and to the completions.
ClaimsHold == OneHolder /\ HeldIsRunning /\ OnePerKey /\ AttemptsBounded /\ CompletedOnce

\* Setups (confirmWorkflowSetup): one completed run, of the confirmed input.
SetupsHold == StartedRan /\ CompletesOnce

\* A job that is due is taken by a tick, or stops being due, whatever job runs
\* before it in the tick that listed it.
DueRuns == \A j \in PackageJobIds : IsDue(jobs[j]) ~> (~IsDue(jobs[j]) \/ RunningJob(j))

\* Who works on what, and what was set up, is right in the tables.
WorkSound == TablesOK /\ ClaimsHold /\ SetupsHold
=============================================================================
