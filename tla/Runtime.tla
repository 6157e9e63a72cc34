------------------------------- MODULE Runtime -------------------------------
(***************************************************************************)
(* A runtime process from its start to its stop (MoorlineRuntime): the     *)
(* order in which it connects, recovers, drains and closes, while the      *)
(* transport delivers intents, commands run turns at providers, providers  *)
(* report their ends, and replies are posted.  Each of the four queues is  *)
(* a KeyedWorker; here a job is queued, running or done, and a drain waits *)
(* for the jobs that were pending when it was called.                      *)
(***************************************************************************)
EXTENDS Naturals, Sequences, FiniteSets, SequencesExt

CONSTANTS
  Commands,    \* intents that become a job of the command queue
  Resource,    \* command -> the transport resource it is about: its key
  Names, Launches, Probed, Restarts, Callers, NoName, NoLaunch, MaxStarts,
  Budgets      \* what happens: the intents that come, and how often the others
               \* [turns, drains, ensures, stops, crashes, failures]; stored and
               \* left are the intents and the sidecars of a former process

VARIABLES
  phase,       \* where start or stop stands
  accepting,   \* acceptingNewWork
  wired,       \* the listener for provider events is there
  pending,     \* intents drainPendingIntents has still to handle, in order
  st,          \* queue -> command -> the state of its job there
  line,        \* commands in the order they were pushed
  at,          \* where the job of a command stands
  turn,        \* its turn at the provider
  drains,      \* the queue that stop drains, 0 for none
  waits,       \* the jobs it waits for there
  abandoned,   \* commands whose hook was given up and runs on without its job
  late,        \* history: commands that came, or whose abandoned hook posted, when stop
               \* had begun to drain that queue, or whose turn began when it had stopped
               \* the providers
  budget,
  rows, children, running, shutting, calls, muddled

INSTANCE Sidecars

Queues == {"provider", "command", "projection", "transport"}
QueueAt == <<"provider", "command", "projection", "transport">>

ASSUME RuntimeAssumption == \A b \in Budgets :
  b.stored \subseteq Commands /\ b.intents \subseteq Commands /\ b.left \in Launches \cup {NoLaunch}
ASSUME SidecarsAssumption ==
  /\ IsFiniteSet(Names) /\ NoName \notin Names /\ MaxStarts \in Nat
  /\ RecoverCall \notin Callers /\ ShutdownCall \notin Callers

flow     == <<pending, st, line, at, turn, abandoned, late>>
draining == <<waits, drains>>
sidecars == <<rows, children, running, shutting, calls, muddled>>
vars == <<phase, accepting, wired, flow, draining, budget, sidecars>>

Init ==
  /\ phase = "off" /\ accepting = TRUE /\ wired = FALSE
  /\ budget \in Budgets /\ \E order \in SetToSeqs(budget.stored) : pending = order
  /\ st = [q \in Queues |-> [c \in Commands |-> "none"]]
  /\ line = <<>> /\ at = [c \in Commands |-> "none"] /\ turn = [c \in Commands |-> "none"]
  /\ drains = 0 /\ waits = {} /\ abandoned = {} /\ late = {}
  /\ SidecarsInit(budget.left)

Spend(kind) == budget[kind] > 0 /\ budget' = [budget EXCEPT ![kind] = @ - 1]

Off      == {"off", "failed", "closed"}
Stopping == {"sidecars", "providers", "queues", "unhosting"}

-----------------------------------------------------------------------------
(* The queues. *)

Underway(q) == {c \in Commands : st[q][c] \in {"queued", "running"}}
Push(q, c) == [st EXCEPT ![q][c] = "queued"]

\* A drain takes the queues in order; each is the jobs pending there now.
SkipsCommands(n) == IF n = 1 THEN 3 ELSE n + 1   \* mutant
NextQueue(n) == n + 1
Drains(n) == drains' = n /\ waits' = Underway(QueueAt[n])
Drained == drains > 0 /\ waits \cap Underway(QueueAt[drains]) = {}

-----------------------------------------------------------------------------
(* Commands: handleTransportIntent, its job, its turn, its reply. *)

\* A command that comes when stop has begun to drain its queue is not waited for.
CommandDrained == phase = "unhosting" \/ (phase = "queues" /\ drains > 1)

Receive(c) ==
  /\ st' = Push("command", c) /\ line' = Append(line, c)
  /\ at' = [at EXCEPT ![c] = "queued"]
  /\ late' = IF CommandDrained THEN late \cup {c} ELSE late

\* The transport delivers from the end of hosting.start to hosting.stop.
Intent(c) ==
  /\ phase \notin Off /\ at[c] = "none" /\ c \notin ToSet(pending)
  /\ c \in budget.intents /\ budget' = [budget EXCEPT !.intents = @ \ {c}]
  /\ Receive(c)
  /\ UNCHANGED <<phase, accepting, wired, pending, turn, abandoned, draining, sidecars>>

First(c) == \A i, j \in DOMAIN line :
  i < j /\ line[j] = c /\ Resource[line[i]] = Resource[c] => st["command"][line[i]] = "done"

\* The job: refused, or given to the plugins.
CommandStarts(c) ==
  /\ st["command"][c] = "queued" /\ First(c)
  /\ st' = [st EXCEPT !["command"][c] = "running"]
  /\ at' = [at EXCEPT ![c] = IF accepting THEN "hook" ELSE "post"]
  /\ UNCHANGED <<phase, accepting, wired, pending, line, turn, abandoned, late, draining,
                 budget, sidecars>>

\* The hook of a plugin runs a turn, answers by itself, or drains the runtime.
ProvidersStopped == phase \in {"providers", "queues", "unhosting", "closed"}
TurnBegins(c) ==
  /\ at[c] = "hook" /\ Spend("turns")
  /\ at' = [at EXCEPT ![c] = "turn"] /\ turn' = [turn EXCEPT ![c] = "open"]
  /\ late' = IF ProvidersStopped THEN late \cup {c} ELSE late
  /\ UNCHANGED <<phase, accepting, wired, pending, st, line, abandoned, draining, sidecars>>
HookReplies(c) ==
  /\ at[c] = "hook" /\ at' = [at EXCEPT ![c] = "post"]
  /\ UNCHANGED <<phase, accepting, wired, pending, st, line, turn, abandoned, late, draining,
                 budget, sidecars>>
\* The drain waits for the job that called it, among others, so that it returns
\* no sooner than that job has been given up.
HookDrains(c) ==
  /\ at[c] = "hook" /\ Spend("drains") /\ at' = [at EXCEPT ![c] = "drain"]
  /\ UNCHANGED <<phase, accepting, wired, pending, st, line, turn, abandoned, late, draining,
                 sidecars>>
HookDrained(c) ==
  /\ at[c] = "drain" /\ st["command"][c] = "done" /\ at' = [at EXCEPT ![c] = "post"]
  /\ UNCHANGED <<phase, accepting, wired, pending, st, line, turn, abandoned, late, draining,
                 budget, sidecars>>

\* runWithTimeout: a hook that takes too long is given up, and its job fails; the
\* hook itself runs on, may begin a turn or post, and returns unheard.
InHookOnly(c) == at[c] \in {"hook", "turn"}   \* mutant: no timer for a hook that drains
InHook(c) == at[c] \in {"hook", "turn", "drain"}
HookGivenUp(c) ==
  /\ InHook(c) /\ c \notin abandoned /\ phase \notin Off
  /\ abandoned' = abandoned \cup {c} /\ st' = [st EXCEPT !["command"][c] = "done"]
  /\ UNCHANGED <<phase, accepting, wired, pending, line, at, turn, late, draining, budget,
                 sidecars>>
Unheard(c) ==
  /\ c \in abandoned /\ at[c] = "post" /\ at' = [at EXCEPT ![c] = "done"]
  /\ UNCHANGED <<phase, accepting, wired, pending, st, line, turn, abandoned, late, draining,
                 budget, sidecars>>

\* The provider ends a turn: the event is pushed if anyone listens, else it is lost.
TurnEnds(c) ==
  /\ turn[c] \in {"open", "given up"} /\ phase \notin Off
  /\ st' = IF wired THEN Push("provider", c) ELSE st
  /\ turn' = [turn EXCEPT ![c] = IF @ = "open" THEN "ended" ELSE "dropped"]
  /\ UNCHANGED <<phase, accepting, wired, pending, line, at, abandoned, late, draining, budget,
                 sidecars>>

\* The wait for a turn ends without it.
TurnTimesOut(c) ==
  /\ at[c] = "turn" /\ phase \notin Off
  /\ at' = [at EXCEPT ![c] = "post"]
  /\ turn' = [turn EXCEPT ![c] = IF @ = "open" THEN "given up" ELSE "dropped"]
  /\ UNCHANGED <<phase, accepting, wired, pending, st, line, abandoned, late, draining,
                 budget, sidecars>>

\* handleProviderEvent: the waiter of the turn, then the projection, and what follows it.
EventStarts(c) ==
  /\ st["provider"][c] = "queued"
  /\ st' = [st EXCEPT !["provider"][c] = "running", !["projection"][c] = "queued"]
  /\ at' = [at EXCEPT ![c] = IF @ = "turn" THEN "post" ELSE @]
  /\ UNCHANGED <<phase, accepting, wired, pending, line, turn, abandoned, late, draining,
                 budget, sidecars>>
Projects(c) ==
  /\ st["projection"][c] = "queued"
  /\ st' = [st EXCEPT !["projection"][c] = "done"]
  /\ UNCHANGED <<phase, accepting, wired, pending, line, at, turn, abandoned, late,
                 draining, budget, sidecars>>
EventDone(c) ==
  /\ st["provider"][c] = "running" /\ st["projection"][c] = "done"
  /\ st' = [st EXCEPT !["provider"][c] = "done"]
  /\ UNCHANGED <<phase, accepting, wired, pending, line, at, turn, abandoned, late,
                 draining, budget, sidecars>>

\* The reply is an effect of the transport queue, which the job awaits; a hook
\* that was given up posts a message of its own there.
TransportDrained == phase \in {"unhosting", "closed"} \/ (phase = "queues" /\ drains > 3)
Posts(c) ==
  /\ at[c] = "post" /\ at' = [at EXCEPT ![c] = "posting"] /\ st' = Push("transport", c)
  /\ late' = IF c \in abandoned /\ TransportDrained THEN late \cup {c} ELSE late
  /\ UNCHANGED <<phase, accepting, wired, pending, line, turn, abandoned, draining, budget,
                 sidecars>>
Posted(c) ==
  /\ at[c] = "posting" /\ at' = [at EXCEPT ![c] = "done"]
  /\ st' = [st EXCEPT !["transport"][c] = "done", !["command"][c] = "done"]
  /\ UNCHANGED <<phase, accepting, wired, pending, line, turn, abandoned, late, draining,
                 budget, sidecars>>

CommandStep(c) == \/ CommandStarts(c) \/ TurnBegins(c) \/ HookReplies(c) \/ HookDrains(c)
                  \/ HookDrained(c) \/ HookGivenUp(c) \/ Unheard(c)
                  \/ EventStarts(c) \/ Projects(c) \/ EventDone(c) \/ Posts(c) \/ Posted(c)
                  \/ TurnEnds(c) \/ TurnTimesOut(c)

-----------------------------------------------------------------------------
(* start. *)

Starting(next) ==
  /\ phase' = next
  /\ UNCHANGED <<flow, draining, budget>>

\* The transport and the management surface; a failure rolls back.
StartHosting ==
  /\ phase = "off" /\ accepting' = TRUE /\ Starting("draining") /\ UNCHANGED <<wired, sidecars>>
HostingFails ==
  /\ phase = "off" /\ Spend("failures") /\ phase' = "failed"
  /\ UNCHANGED <<accepting, wired, flow, draining, sidecars>>

\* drainPendingIntents hands over one pending intent after the other, awaiting each.
DrainPending ==
  /\ phase = "draining" /\ pending # <<>>
  /\ \E c \in {Head(pending)} :
       \/ at[c] = "none" /\ Receive(c) /\ UNCHANGED pending
       \/ st["command"][c] = "done" /\ pending' = Tail(pending) /\ UNCHANGED <<st, line, at, late>>
  /\ UNCHANGED <<phase, accepting, wired, turn, abandoned, draining, budget, sidecars>>

Wire ==
  /\ phase = "draining" /\ pending = <<>>
  /\ wired' = TRUE /\ Starting("hooks") /\ UNCHANGED <<accepting, sidecars>>
StartRecovery ==
  /\ phase = "hooks" /\ Recover /\ Starting("recovering") /\ UNCHANGED <<accepting, wired>>
RecoveryStep ==
  /\ phase = "recovering" /\ (RecoverNext \/ RecoverAwaited)
  /\ UNCHANGED <<phase, accepting, wired, flow, draining, budget>>
Up ==
  /\ phase = "recovering" /\ Recovered /\ Starting("up")
  /\ UNCHANGED <<accepting, wired, sidecars>>

-----------------------------------------------------------------------------
(* shutdownForSupervisor and stop. *)

Quiesce ==
  /\ phase = "up" /\ phase' = "quiescing" /\ accepting' = FALSE
  /\ UNCHANGED <<wired, flow, draining, budget, sidecars>>

\* The waiters of all turns are rejected; a quiescing that times out goes on the same.
StopBegins ==
  /\ phase \in {"up", "quiescing"} /\ phase' = "sidecars" /\ Shutdown
  /\ at' = [c \in Commands |-> IF at[c] = "turn" THEN "post" ELSE at[c]]
  /\ turn' = [c \in Commands |-> IF turn[c] = "open" THEN "given up" ELSE turn[c]]
  /\ UNCHANGED <<accepting, wired, pending, st, line, abandoned, late, draining, budget>>
ShutdownStep ==
  /\ phase = "sidecars" /\ ShutdownNext
  /\ UNCHANGED <<phase, accepting, wired, flow, draining, budget>>
StopAll ==
  /\ phase = "sidecars" /\ IsShutDown /\ phase' = "providers"
  /\ UNCHANGED <<accepting, wired, flow, draining, budget, sidecars>>

\* A turn of a stopped provider ends, or is dropped without an event.
AtStopped(c) == phase = "providers" /\ c \notin late /\ turn[c] \in {"open", "given up"}
TurnDropped(c) ==
  /\ AtStopped(c) /\ turn' = [turn EXCEPT ![c] = "dropped"]
  /\ UNCHANGED <<phase, accepting, wired, pending, st, line, at, abandoned, late, draining,
                 budget, sidecars>>
ProvidersDrained ==
  /\ phase = "providers" /\ \A c \in Commands : ~AtStopped(c)
  /\ phase' = "queues" /\ Drains(1)
  /\ UNCHANGED <<accepting, wired, flow, budget, sidecars>>
DrainStep ==
  /\ phase = "queues" /\ Drained
  /\ \/ /\ NextQueue(drains) <= Len(QueueAt) /\ Drains(NextQueue(drains)) /\ UNCHANGED phase
     \/ /\ NextQueue(drains) > Len(QueueAt) /\ phase' = "unhosting" /\ UNCHANGED draining
  /\ UNCHANGED <<accepting, wired, flow, budget, sidecars>>
Close ==
  /\ phase = "unhosting" /\ phase' = "closed"
  /\ UNCHANGED <<accepting, wired, flow, draining, budget, sidecars>>

\* The process ends, by itself or because its start failed.  The intents it had
\* recorded, and neither processed nor failed, are pending for the next.
Settled(c) == st["command"][c] = "done"
Crash ==
  /\ phase \notin Off /\ Spend("crashes")
  /\ phase' = "off" /\ wired' = FALSE /\ drains' = 0 /\ waits' = {}
  /\ pending' = SelectSeq(line, LAMBDA c : ~Settled(c))
                  \o SelectSeq(pending, LAMBDA c : at[c] = "none")
  /\ at' = [c \in Commands |-> IF Settled(c) THEN "done" ELSE "none"]
  /\ st' = [q \in Queues |-> [c \in Commands |-> IF Settled(c) THEN "done" ELSE "none"]]
  /\ line' = SelectSeq(line, Settled)
  /\ turn' = [c \in Commands |-> "none"] /\ abandoned' = {} /\ late' = {}
  /\ SidecarsCrash /\ UNCHANGED accepting

-----------------------------------------------------------------------------
\* What packages ask of the sidecars, while there is a runtime to ask.  It does
\* not matter which of the callers that are free asks.
Free == {c \in Callers : calls[c] = NoCall}
NextCaller == IF Free = {} THEN {} ELSE {CHOOSE c \in Free : TRUE}
Else == phase \notin Off /\ UNCHANGED <<phase, accepting, wired, flow, draining, budget>>
SidecarStep ==
  /\ phase \notin Off
  /\ \/ \E c \in NextCaller, s \in Names :
          \/ Stop(c, s) /\ Spend("stops")
          \/ \E l \in Launches : Ensure(c, s, l) /\ Spend("ensures")
     \/ \E c \in All : CallStep(c) /\ UNCHANGED budget
     \/ \E k \in DOMAIN children : ChildStep(k) /\ UNCHANGED budget
  /\ UNCHANGED <<phase, accepting, wired, flow, draining>>

StartStep == StartHosting \/ DrainPending \/ Wire \/ StartRecovery \/ RecoveryStep \/ Up
StopStep  == ShutdownStep \/ StopAll \/ ProvidersDrained \/ DrainStep \/ Close
Next ==
  \/ StartStep \/ HostingFails \/ Quiesce \/ StopBegins \/ StopStep \/ Crash \/ SidecarStep
  \/ \E c \in Commands : Intent(c) \/ CommandStep(c) \/ TurnDropped(c)

\* Jobs run, effects end, providers drain, timers fire; no hook need return, and
\* no child become ready or exit, for that.
Fairness ==
  /\ WF_vars(StartStep) /\ WF_vars(StopStep)
  /\ \A c \in Commands :
       /\ WF_vars(CommandStarts(c)) /\ WF_vars(HookGivenUp(c)) /\ WF_vars(TurnTimesOut(c))
       /\ WF_vars(EventStarts(c) \/ Projects(c) \/ EventDone(c)) /\ WF_vars(Posts(c) \/ Posted(c))
       /\ WF_vars(TurnDropped(c))
  /\ \A c \in All : WF_vars(CallStep(c) /\ Else)
  /\ \A k \in 1..MaxStarts : WF_vars(k \in DOMAIN children /\ ReadinessTimeout(k) /\ Else)
Spec == Init /\ [][Next]_vars /\ Fairness

-----------------------------------------------------------------------------
TypeOK ==
  /\ phase \in Off \cup Stopping \cup {"draining", "hooks", "recovering", "up", "quiescing"}
  /\ \A q \in Queues, c \in Commands : st[q][c] \in {"none", "queued", "running", "done"}
  /\ \A c \in Commands : st["command"][c] = "done" <=> at[c] = "done" \/ c \in abandoned
  /\ \A c \in Commands : st["projection"][c] = "queued" => st["provider"][c] = "running"
  /\ drains \in 0..Len(QueueAt) /\ waits \subseteq Commands
  /\ Len(children) <= MaxStarts /\ SidecarsTypeOK

\* stop (moorlineRuntime.ts): when the stores are closed, no job of any queue
\* is under way, but of commands that came, whose turn began, or whose hook,
\* given up by its timer (runWithTimeout), posted too late to be waited for.
ClosedQuiet == phase = "closed" => \A q \in Queues : Underway(q) \subseteq late

\* SidecarManager: once recovery is through, one child of a sidecar lives, and
\* the table tells of it; after the shutdown none does that was there before.
SidecarsTold == /\ phase \notin Off \cup {"draining", "hooks", "recovering"} => RowTells
                /\ OneChild /\ NoneLeft

\* The rows of the sidecars, and their children, at every step of start and stop.
SidecarsSound == TypeOK /\ SidecarsTold

\* A job that was pushed settles and a stop closes the runtime, even when the
\* hook of a plugin never returns or drains the queue that its own job is of; a
\* call about a sidecar returns, unless calls that start it overlap, or SIGKILL
\* does not end a child in time.  All of it but for the end of the process.
EverythingReturns ==
  /\ \A c \in Commands :
       st["command"][c] = "queued" ~> (st["command"][c] = "done" \/ phase \in Off)
  /\ phase = "sidecars" ~> phase \in Off
  /\ \A c \in Callers : calls[c] # NoCall ~>
       \/ calls[c] = NoCall \/ calls[c].name \in muddled \/ phase \in Off
       \/ \E k \in DOMAIN children : children[k].forced
=============================================================================
