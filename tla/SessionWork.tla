----------------------------- MODULE SessionWork -----------------------------
(***************************************************************************)
(* Work sessions in use: users write, plugins answer and run agents, other *)
(* calls create, direct, archive, delete and resume sessions, operators    *)
(* stop and start providers, and the lifecycle tick cools and archives.    *)
(* The jobs of one conversation run one at a time; a plugin that keeps a   *)
(* job too long is given up, and what it started goes on beside the queue. *)
(***************************************************************************)
EXTENDS ProviderControl

CONSTANTS
  Plugins,     \* how many plugins are asked about a message, one after the other
  Requests,    \* guarded actions that are asked about
  NoDecision,
  Scenarios    \* [rows, profile, left]: what there is at first, and how often each call is made

VARIABLES audit,   \* the last decision of the guard that was asked for by itself
          left     \* the calls that are left to be made

storeVars == <<rows, dirs, resources, live, kicks>>
sessionVars == <<now, storeVars, autoDefault, calls, profile, decisionVars, audit, left>>

\* How rules name actors and targets: a target begins with a session.
RuleOK(rule) == rule.actorPrefix \in Seq(STRING) /\ rule.targetPrefixes \subseteq Seq(Sessions)

ASSUME SessionsAssumption ==
  /\ Limit \in Nat /\ Plugins \in Nat \ {0} /\ MaxTime \in Nat
  /\ CoolAfter \in Nat \ {0} /\ ArchiveAfter \in Nat /\ CoolAfter < ArchiveAfter
  /\ IsFiniteSet(Sessions) /\ Sessions \subseteq Nat \ {0}
  /\ \A s \in Sessions : s \notin Calls /\ -s \notin Calls
  /\ Absent \notin SessionRow
  /\ OwnerOf \in [LocalCapabilities -> Seq(STRING)]
  /\ \A r \in Requests : r.actor \in Seq(STRING) /\ r.target \in Seq(Sessions)
  /\ \A scenario \in Scenarios :
       /\ scenario.rows \in [Sessions -> SessionRow \cup {Absent}]
       /\ Cardinality({s \in Sessions : scenario.rows[s] # Absent /\ scenario.rows[s].life # "archived"}) <= Limit
       /\ \A rule \in scenario.profile.rules : RuleOK(rule)

SessionInit == \E scenario \in Scenarios :
  /\ now = 0 /\ autoDefault = TRUE /\ live = {} /\ audit = NoDecision
  /\ rows = scenario.rows
  /\ dirs = {s \in Sessions : Known(s)}
  /\ resources = {s \in Sessions : Known(s)}
  /\ calls = [c \in Slots |-> NoCall]
  /\ kicks = [s \in Sessions |-> "none"]
  /\ said = [s \in Sessions |-> IF ~Known(s) THEN "none"
                                ELSE IF rows[s].life = "archived" THEN "archived" ELSE "active"]
  /\ asked = [s \in Sessions |-> Known(s) /\ rows[s].auto]
  /\ quiet = {} /\ crossed = {} /\ extra = {}
  /\ profile = scenario.profile
  /\ left = scenario.left

Spend(kind) == left[kind] > 0 /\ left' = [left EXCEPT ![kind] = @ - 1]
Otherwise == UNCHANGED <<now, profile, audit>>

-----------------------------------------------------------------------------
(* Messages and plugins.                                                   *)

\* A message is a job of its conversation: it counts as activity, then the plugins are asked.
MessageReceived(s) ==
  /\ Free(s) /\ kicks[s] # "queued" /\ s \in resources
  /\ rows' = RecordActivity(s)
  /\ Set(s, [Call("message", "hook", {}) EXCEPT !.at = 1])
  /\ UNCHANGED <<dirs, resources, live, kicks, decisionVars>>

\* A plugin passes a message on, or handles it, or throws, which ends the job; or it runs an agent
\* in the session, as its row is then.
HookAnswers(s) ==
  /\ calls[s].step = "hook"
  /\ \/ calls[s].at < Plugins /\ calls' = [calls EXCEPT ![s].at = @ + 1]
     \/ Release(s)
     \/ s \in Active /\ Set(s, Call("message", "agent", {Entry(s)}))
  /\ UNCHANGED <<storeVars, decisionVars>>

\* Mutant of HookTimesOut: the timer covers the agent that a plugin runs, but not the hook.
OnlyAgentTimesOut(s) ==
  /\ calls[s].op = "message" /\ calls[s].step # "hook"
  /\ Free(Adrift(s)) /\ calls' = [calls EXCEPT ![s] = NoCall, ![Adrift(s)] = calls[s]]
  /\ UNCHANGED <<storeVars, decisionVars>>

\* The queue goes on; the agent that the plugin runs does as well, and nobody waits for it.
HookTimesOut(s) ==
  /\ calls[s].op = "message"
  /\ IF calls[s].step = "hook" THEN Release(s)
     ELSE Free(Adrift(s)) /\ calls' = [calls EXCEPT ![s] = NoCall, ![Adrift(s)] = calls[s]]
  /\ UNCHANGED <<storeVars, decisionVars>>

\* The kickoff has its turn in the queue: of a session that is gone or archived, it fails.
RunKickoff(s) ==
  /\ Free(s) /\ kicks[s] = "queued"
  /\ IF MayBegin("direct", s)
     THEN Set(s, Call("kick", "guard", {Entry(s)})) /\ kicks' = [kicks EXCEPT ![s] = "running"]
     ELSE kicks' = [kicks EXCEPT ![s] = "failed"] /\ UNCHANGED calls
  /\ UNCHANGED <<rows, dirs, resources, live, decisionVars>>

-----------------------------------------------------------------------------
SessionCall(c) ==
  \/ CreateManagedSession(c) /\ Spend("create")
  \/ \E s \in Sessions :
       \/ BindManagedSession(c, s) /\ Spend("bind")
       \/ \E op \in {"direct", "archive", "delete", "drop", "forget", "resume"} :
            BeginCall(c, op, s) /\ Spend(op)

SessionStep(c) ==
  \/ ResourceCreated(c) \/ Insert(c) \/ Noticed(c) \/ Denied(c) \/ EndProvider(c)
  \/ ArchiveManagedSession(c) \/ DeleteManagedSession(c) \/ DeleteManagedSessionNow(c)
  \/ ResumeManagedSession(c) \/ SweepNext(c)
  \/ RunTurn(c) \/ SessionStarted(c) \/ StartFails(c) \/ TurnEnds(c)

QueueStep(s) == RunKickoff(s) \/ HookTimesOut(s)

Tick == (\E c \in Calls : Sweep(c)) /\ UNCHANGED <<autoDefault, left>> /\ Otherwise

Steps(c) == SessionStep(c) /\ UNCHANGED <<autoDefault, left>> /\ Otherwise
Starts(c) == StartsNext(c) /\ UNCHANGED left /\ Otherwise
Queues(s) == QueueStep(s) /\ UNCHANGED <<autoDefault, left>> /\ Otherwise
Plugin(s) == HookAnswers(s) /\ UNCHANGED <<autoDefault, left>> /\ Otherwise

Calling ==
  /\ \/ (\E c \in Calls : SessionCall(c)) /\ UNCHANGED autoDefault
     \/ (\E s \in Sessions : MessageReceived(s)) /\ Spend("message") /\ UNCHANGED autoDefault
     \/ (\E s \in Sessions : StopSession(s)) /\ Spend("stop")
     \/ StopAllSessions /\ Spend("stopAll")
     \/ (\E c \in Calls, s \in Sessions : StartSession(c, s)) /\ Spend("start")
     \/ (\E c \in Calls : StartAllSessions(c)) /\ Spend("startAll")
  /\ Otherwise

\* A package asks the guard whether it may do something.
GuardedAction(r) ==
  /\ Spend("ask")
  /\ audit' = [request |-> r, allowed |-> Evaluate(profile, r)]
  /\ UNCHANGED <<now, storeVars, autoDefault, calls, profile, decisionVars>>

TimePasses ==
  /\ now < MaxTime /\ Spend("time")
  /\ now' = now + 1
  /\ UNCHANGED <<storeVars, autoDefault, calls, profile, decisionVars, audit>>

\* The runtime dies and starts again: calls, queues and provider sessions are gone.
Crash ==
  /\ Spend("crash")
  /\ calls' = [c \in Slots |-> NoCall]
  /\ live' = {}
  /\ quiet' = {s \in quiet : ~Ending(s)}
  /\ kicks' = [s \in Sessions |-> IF kicks[s] \in {"queued", "running"} THEN "lost" ELSE kicks[s]]
  /\ UNCHANGED <<now, rows, dirs, resources, autoDefault, profile, said, asked, crossed, extra, audit>>

SessionNext ==
  \/ Calling \/ Tick \/ TimePasses \/ Crash
  \/ \E r \in Requests : GuardedAction(r)
  \/ \E c \in Slots : Steps(c) \/ Starts(c)
  \/ \E s \in Sessions : Queues(s) \/ Plugin(s)

\* The guard, the transport, the provider and the sidecars answer, or their timeouts do; the queue
\* and the tick go on. Nothing makes a plugin answer.
SessionFairness ==
  /\ \A c \in Slots : WF_sessionVars(Steps(c) \/ Starts(c))
  /\ \A s \in Sessions : WF_sessionVars(Queues(s))
  /\ WF_sessionVars(Tick)

SessionSpec == SessionInit /\ [][SessionNext]_sessionVars /\ SessionFairness

-----------------------------------------------------------------------------
EntryType == [s : Sessions, row : SessionRow \cup {Absent}, old : BOOLEAN]
CallType == [op : {"none", "create", "bind", "direct", "kick", "message", "archive", "delete", "drop",
                   "forget", "resume", "sweep", "start"},
             step : {"none", "creating", "made", "notice", "guard", "cleanup", "hook", "agent",
                     "starting", "turn", "next"},
             held : SUBSET EntryType, fresh : BOOLEAN, at : 0..Plugins]

SessionsOK ==
  /\ now \in 0..MaxTime /\ autoDefault \in BOOLEAN
  /\ rows \in [Sessions -> SessionRow \cup {Absent}]
  /\ dirs \subseteq Sessions /\ resources \subseteq Sessions /\ live \subseteq Sessions
  /\ calls \in [Slots -> CallType]
  /\ kicks \in [Sessions -> {"none", "queued", "running", "told", "failed", "lost"}]
  /\ said \in [Sessions -> {"none", "active", "archived", "deleted"}]
  /\ asked \in [Sessions -> BOOLEAN]
  /\ quiet \subseteq Sessions /\ crossed \subseteq Sessions /\ extra \subseteq Sessions
  /\ \A s \in Sessions : calls[s].op \in {"none", "message", "kick"}

\* Archived, deleted and stopped stays so: a session is in the state that the last call about it
\* decided, unless a call wrote over it from a copy taken before, or the provider was starting it
\* just then. Its row, its setting and whether the provider runs it agree with that decision.
DecisionsHold == \A s \in Sessions \ crossed :
  /\ Known(s) <=> said[s] \in {"active", "archived"}
  /\ Known(s) => /\ rows[s].life = "archived" <=> said[s] = "archived"
                 /\ rows[s].auto = asked[s]
  /\ s \in quiet => s \notin live

\* An active session has its conversation and its workspace, and a session that is deleted with its
\* workspace leaves none; an owner has no more active sessions than the limit, but for those that
\* were resumed or created while another one was.
SessionsWhole ==
  /\ \A s \in Sessions \ crossed :
       Known(s) => /\ s \in dirs
                   /\ rows[s].life # "archived" => s \in resources
  /\ Cardinality(Active \ (extra \cup crossed)) <= Limit

\* The guard decides as the profile means: the most exact rules, one denial among them deciding.
GuardDecides == audit # NoDecision => audit.allowed = Meant(profile, audit.request)

\* Which sessions there are, and who may do what to them.
SessionsSound == SessionsOK /\ SessionsWhole /\ GuardDecides

\* Once no more calls come everything comes to rest, whatever plugins do: every call has returned,
\* every kickoff was answered, failed or was lost in a crash, and nobody's idle session is active.
Settles == <>[](/\ \A c \in Slots : Free(c)
                /\ \A s \in Sessions : kicks[s] # "queued" /\ ~Idle(s, ArchiveAfter))
=============================================================================
