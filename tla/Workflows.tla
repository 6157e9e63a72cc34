----------------------------- MODULE Workflows -----------------------------
(***************************************************************************)
(* Workflows: the tables of workflow setups and runs, and the workflow     *)
(* tool that writes them (startWorkflowRun, the setup's handlers and       *)
(* coreWorkflowTool of runtimePluginContextService.ts).  A setup collects  *)
(* an answer, is confirmed, and its run is awaited before the setup is     *)
(* marked as started, from the copy read before the run.                   *)
(***************************************************************************)
EXTENDS Integers, FiniteSets

CONSTANTS
  Setups, Runs, Answers, Ttl,
  Confirms,       \* [Setups -> BOOLEAN]: whether the setup's workflow asks for confirmation
  Absent

VARIABLES
  now,
  setups,     \* [Setups -> [status, draft, run, expires] or Absent]
  runs,       \* [Runs -> [status, input, setup] or Absent]
  confirming, \* [Runs -> setup's row or Absent]: confirmations that await their run
  twice       \* history: [Setups -> BOOLEAN], confirmations overlapped, or one was cut off after its run

SetupStatuses == {"collecting", "awaiting_confirmation", "confirmed", "started",
                  "failed", "expired", "cancelled"}

SetupRow == [status : SetupStatuses, draft : Answers \cup {Absent}, run : Runs \cup {Absent},
             expires : Nat]
RunRow == [status : {"running", "completed", "failed"}, input : Answers \cup {Absent},
           setup : Setups \cup {Absent}, live : BOOLEAN]

FlowsInit ==
  /\ setups = [s \in Setups |-> Absent] /\ runs = [r \in Runs |-> Absent]
  /\ confirming = [r \in Runs |-> Absent] /\ twice = [s \in Setups |-> FALSE]

Executing(r) == runs[r] # Absent /\ runs[r].status = "running" /\ runs[r].live

-----------------------------------------------------------------------------
SaveSetup(s, row) == setups' = [setups EXCEPT ![s] = row]
SaveRun(r, row) == runs' = [runs EXCEPT ![r] = row]

\* start_setup, of a workflow with a setup, from a transport resource if it needs one.
StartWorkflowSetup(s) ==
  /\ setups[s] = Absent
  /\ SaveSetup(s, [status |-> "collecting", draft |-> Absent, run |-> Absent, expires |-> now + Ttl])
  /\ UNCHANGED <<now, runs, confirming, twice>>

\* answer_setup: the first answer ends the collecting, or finds the setup expired.
Answered(s, answer) ==
  IF setups[s].expires <= now THEN [setups[s] EXCEPT !.status = "expired"]
  ELSE [setups[s] EXCEPT !.draft = answer,
          !.status = IF Confirms[s] THEN "awaiting_confirmation" ELSE "confirmed"]

AnswerWorkflowSetup(s, answer) ==
  /\ setups[s] # Absent /\ setups[s].status = "collecting"
  /\ SaveSetup(s, Answered(s, answer))
  /\ UNCHANGED <<now, runs, confirming, twice>>

\* startWorkflowRun: the row is queued and running before the first await.
RunStarted(r, input, s) ==
  SaveRun(r, [status |-> "running", input |-> input, setup |-> s, live |-> TRUE])

MayConfirm(row) == row.status \in {"awaiting_confirmation", "confirmed"}

\* confirm_setup, up to the await: neither its expiry nor another confirmation is looked at.
ConfirmWorkflowSetup(s, r) ==
  /\ setups[s] # Absent /\ MayConfirm(setups[s])
  /\ runs[r] = Absent
  /\ RunStarted(r, setups[s].draft, s)
  /\ confirming' = [confirming EXCEPT ![r] = setups[s]]
  /\ twice' = [twice EXCEPT ![s] =
       @ \/ \E q \in Runs : confirming[q] # Absent /\ runs[q].setup = s]
  /\ UNCHANGED <<now, setups>>

\* The workflow, as its package defines it now, needs a transport resource and
\* the setup's origin names none.
ConfirmRefused(s) ==
  /\ setups[s] # Absent /\ MayConfirm(setups[s])
  /\ SaveSetup(s, [setups[s] EXCEPT !.status = "failed"])
  /\ UNCHANGED <<now, runs, confirming, twice>>

\* start: a workflow without an interactive setup.
StartWorkflow(r, input) ==
  /\ runs[r] = Absent
  /\ RunStarted(r, input, Absent)
  /\ UNCHANGED <<now, setups, confirming, twice>>

\* cancel_setup: whatever its status.
CancelSetup(s) ==
  /\ setups[s] # Absent
  /\ SaveSetup(s, [setups[s] EXCEPT !.status = "cancelled"])
  /\ UNCHANGED <<now, runs, confirming, twice>>

-----------------------------------------------------------------------------
\* The workflow returned or threw; a failure reaches the confirmation, which ends there.
RunEnds(r, ok) ==
  /\ Executing(r)
  /\ SaveRun(r, [runs[r] EXCEPT !.status = IF ok THEN "completed" ELSE "failed", !.live = FALSE])
  /\ confirming' = [confirming EXCEPT ![r] = IF ok THEN @ ELSE Absent]
  /\ UNCHANGED <<now, setups, twice>>

\* The row read before the run is written back, as started.
StartedRow(r) == [confirming[r] EXCEPT !.status = "started", !.run = r]

ConfirmReturns(r) ==
  /\ confirming[r] # Absent /\ runs[r].status = "completed"
  /\ SaveSetup(runs[r].setup, StartedRow(r))
  /\ confirming' = [confirming EXCEPT ![r] = Absent]
  /\ UNCHANGED <<now, runs, twice>>

\* The runtime stops: the rows of the runs under way remain as they are.
FlowsCrash ==
  /\ runs' = [r \in Runs |-> IF Executing(r) THEN [runs[r] EXCEPT !.live = FALSE] ELSE runs[r]]
  /\ confirming' = [r \in Runs |-> Absent]
  /\ twice' = [s \in Setups |-> twice[s] \/
       \E r \in Runs : confirming[r] # Absent /\ runs[r].setup = s /\ runs[r].status = "completed"]
  /\ UNCHANGED setups

-----------------------------------------------------------------------------
FlowsTypeOK ==
  /\ setups \in [Setups -> SetupRow \cup {Absent}]
  /\ runs \in [Runs -> RunRow \cup {Absent}]
  /\ confirming \in [Runs -> SetupRow \cup {Absent}]
  /\ \A r \in Runs : confirming[r] # Absent => runs[r] # Absent

RunsOf(s, status) == {r \in Runs : runs[r] # Absent /\ runs[r].setup = s /\ runs[r].status = status}

\* A setup that says it started names a run that completed, of the very input
\* that was confirmed.
StartedRan ==
  \A s \in Setups : setups[s] # Absent /\ setups[s].status = "started" =>
    /\ setups[s].run \in RunsOf(s, "completed")
    /\ runs[setups[s].run].input = setups[s].draft

\* A setup completes one run, unless confirmations of it overlapped, or the
\* runtime stopped between the end of the run and the mark.
CompletesOnce == \A s \in Setups : ~twice[s] => Cardinality(RunsOf(s, "completed")) <= 1
=============================================================================
