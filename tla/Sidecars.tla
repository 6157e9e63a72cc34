------------------------------ MODULE Sidecars ------------------------------
(***************************************************************************)
(* SidecarManager: processes that packages have the runtime keep.  A       *)
(* sidecar has one row in managed_sidecars and at most one entry in the    *)
(* map of running ones; every start makes a child process and a record     *)
(* whose promises (ready, stopped) the calls await.  Calls of packages,    *)
(* the recovery at start and the shutdown interleave at these awaits, and  *)
(* with exits, readiness and timers of the children.                       *)
(***************************************************************************)
EXTENDS Naturals, Sequences, FiniteSets, SequencesExt

CONSTANTS
  Names,       \* sidecars
  Launches,    \* launch definitions
  Probed,      \* those whose readiness is read from their output
  Restarts,    \* launch -> maxRestarts (0: the policy is never)
  Callers,     \* calls of packages
  NoName, NoLaunch,
  MaxStarts    \* bound on children

VARIABLES
  rows,        \* sidecar -> its row; child is the pid
  children,    \* the children started, in order
  running,     \* sidecar -> its entry of the map: a child, or 0
  shutting,    \* shuttingDown
  calls,       \* caller -> its call
  muddled      \* history: sidecars two overlapping calls wanted to start, or that
               \* recovery started from a row that was no longer true

RecoverCall  == "recover"
ShutdownCall == "shutdown"
All == Callers \cup {RecoverCall, ShutdownCall}

Statuses == {"starting", "ready", "stopping", "stopped", "failed"}
Row(status, inst, launch, restarts, child) ==
  [status |-> status, inst |-> inst, launch |-> launch, restarts |-> restarts, child |-> child]
NoRow == Row("absent", 0, NoLaunch, 0, 0)
NoCall == [at |-> "idle", name |-> NoName, launch |-> NoLaunch, child |-> 0, restarts |-> 0,
           rest |-> <<>>]

\* left: the launch of the children a former process had, if it had any.
SidecarsInit(left) ==
  /\ rows = [s \in Names |-> IF left = NoLaunch THEN NoRow ELSE Row("ready", 0, left, 0, 0)]
  /\ children = <<>>
  /\ running = [s \in Names |-> 0] /\ shutting = FALSE
  /\ calls = [c \in All |-> NoCall] /\ muddled = {}

-----------------------------------------------------------------------------
(* startSidecar: the child, its row and its entry.  A launch without a probe is ready at once. *)

Child(s, launch, inst, restarts, again) ==
  [name |-> s, launch |-> launch, inst |-> inst, restarts |-> restarts,
   again |-> again,                       \* started by the exit of its predecessor
   alive |-> TRUE, expected |-> FALSE, forced |-> FALSE, timer |-> launch \in Probed,
   settled |-> launch \notin Probed, stopped |-> FALSE,
   ready |-> IF launch \in Probed THEN "pending" ELSE "ok",
   after |-> shutting]                    \* started in a shutdown
RowOf(k, kid, status) ==
  Row(status, kid.inst, kid.launch, kid.restarts, IF status \in {"stopped", "failed"} THEN 0 ELSE k)
Fresh == Len(children) + 1
FirstStatus(launch) == IF launch \in Probed THEN "starting" ELSE "ready"

\* The call goes on to await the readiness of the child.
Starts(c, s, launch, inst, restarts, rest) ==
  /\ Fresh <= MaxStarts
  /\ children' = Append(children, Child(s, launch, inst, restarts, FALSE))
  /\ running' = [running EXCEPT ![s] = Fresh]
  /\ rows' = [rows EXCEPT ![s] = Row(FirstStatus(launch), inst, launch, restarts, Fresh)]
  /\ calls' = [calls EXCEPT ![c] = [NoCall EXCEPT !.at = "ready", !.name = s, !.child = Fresh,
                                                 !.rest = rest]]

\* stopById for an entry: SIGTERM, and the wait for its exit.
Signals(c, s, launch, restarts, rest) ==
  /\ children' = [children EXCEPT ![running[s]].expected = TRUE]
  /\ rows' = [rows EXCEPT ![s] = RowOf(running[s], children[running[s]], "stopping")]
  /\ calls' = [calls EXCEPT ![c] = [at |-> "term", name |-> s, launch |-> launch,
                                    child |-> running[s], restarts |-> restarts, rest |-> rest]]
  /\ UNCHANGED running

\* stopById without an entry writes the row alone.
Stopped(s) == IF rows[s] = NoRow THEN NoRow ELSE [rows[s] EXCEPT !.status = "stopped", !.child = 0]

Busy(c, s) == calls[c].at # "idle" /\ calls[c].name = s
\* A call that may start a child of s overlaps one that uses s.
Overlaps(s) == \E c \in All : Busy(c, s)
Replacing(s) == \E c \in All : Busy(c, s) /\ calls[c].launch # NoLaunch
Muddles(s, does) == muddled' = IF does THEN muddled \cup {s} ELSE muddled

-----------------------------------------------------------------------------
Same(row, launch) == row # NoRow /\ row.launch = launch
Running(s, launch) == running[s] # 0 /\ children[running[s]].launch = launch
Awaits(c, s) ==
  /\ calls' = [calls EXCEPT ![c] = [NoCall EXCEPT !.at = "ready", !.name = s, !.child = running[s]]]
  /\ UNCHANGED <<rows, children, running>>

\* A child of the row is started again under the identifier it had.
Resumes(s) == running[s] = 0 /\ rows[s].status \in {"ready", "starting"}

Ensure(c, s, launch) ==
  /\ calls[c] = NoCall
  /\ \/ Running(s, launch) /\ Awaits(c, s)
     \/ /\ ~Running(s, launch) /\ Same(rows[s], launch) /\ Resumes(s)
        /\ Starts(c, s, launch, rows[s].inst, rows[s].restarts, <<>>)
     \/ /\ ~Running(s, launch) /\ running[s] # 0
        /\ ~(Same(rows[s], launch) /\ rows[s].status = "ready")
        /\ Signals(c, s, launch, rows[s].restarts, <<>>)
     \/ /\ running[s] = 0 /\ ~(Same(rows[s], launch) /\ Resumes(s))
        /\ Starts(c, s, launch, Fresh, rows[s].restarts, <<>>)
  /\ Muddles(s, Overlaps(s))
  /\ UNCHANGED shutting

Stop(c, s) ==
  /\ calls[c] = NoCall
  /\ IF running[s] = 0
     THEN rows' = [rows EXCEPT ![s] = Stopped(s)] /\ UNCHANGED <<children, running, calls>>
     ELSE Signals(c, s, NoLaunch, 0, <<>>)
  /\ Muddles(s, Replacing(s))
  /\ UNCHANGED shutting

\* The await of readiness ends, and with it the call, or its rejection.
ReadyReturns(c) ==
  /\ c \in Callers /\ calls[c].at = "ready" /\ children[calls[c].child].ready # "pending"
  /\ calls' = [calls EXCEPT ![c] = NoCall]
  /\ UNCHANGED <<rows, children, running, shutting, muddled>>

\* stopById returns: so does the call, or it starts what it stopped the child for.
Returns(c) == calls' = [calls EXCEPT ![c] = IF c = ShutdownCall
                                             THEN [NoCall EXCEPT !.at = "next", !.rest = calls[c].rest]
                                             ELSE NoCall]
Replaces(c) == /\ calls[c].launch # NoLaunch
               /\ Starts(c, calls[c].name, calls[c].launch, Fresh, calls[c].restarts, <<>>)

StopReturns(c) ==
  /\ calls[c].at \in {"term", "kill"} /\ children[calls[c].child].stopped
  /\ \/ calls[c].launch = NoLaunch /\ Returns(c) /\ UNCHANGED <<rows, children, running>>
     \/ Replaces(c)
  /\ UNCHANGED <<shutting, muddled>>

\* The grace period is over: SIGKILL.
GraceEnds(c) ==
  /\ calls[c].at = "term" /\ ~children[calls[c].child].stopped
  /\ children' = [children EXCEPT ![calls[c].child].forced = TRUE]
  /\ calls' = [calls EXCEPT ![c].at = "kill"]
  /\ UNCHANGED <<rows, running, shutting, muddled>>

\* So is the one for SIGKILL: the entry of the name goes, whatever it is by now.
KillEnds(c) ==
  /\ calls[c].at = "kill" /\ ~children[calls[c].child].stopped
  /\ \/ /\ calls[c].launch = NoLaunch /\ Returns(c)
        /\ running' = [running EXCEPT ![calls[c].name] = 0]
        /\ rows' = [rows EXCEPT ![calls[c].name] =
                      RowOf(calls[c].child, children[calls[c].child], "failed")]
        /\ UNCHANGED children
     \/ Replaces(c)
  /\ UNCHANGED <<shutting, muddled>>

-----------------------------------------------------------------------------
(* The children. *)

\* Its output is as the probe expects it.
Settles(kid) == [kid EXCEPT !.settled = TRUE, !.timer = FALSE,
                            !.ready = IF @ = "pending" THEN "ok" ELSE @]

\* A child that was killed writes nothing more.
MarkReady(k) ==
  /\ children[k].alive /\ ~children[k].settled /\ ~children[k].forced
  /\ children' = [children EXCEPT ![k] = Settles(@)]
  /\ rows' = [rows EXCEPT ![children[k].name] = RowOf(k, children[k], "ready")]
  /\ UNCHANGED <<running, shutting, calls, muddled>>

\* The start that an exit made has no caller: its rejection writes the row it began with.
RestartFails(k, tab) ==
  IF children[k].again /\ children[k].ready = "pending" /\ ~children[k].settled
  THEN [tab EXCEPT ![children[k].name] = RowOf(0, children[k], "failed")] ELSE tab

\* The readiness timer: SIGTERM, and ready is rejected.
ReadinessTimeout(k) ==
  /\ children[k].alive /\ children[k].timer /\ ~children[k].settled
  /\ children' = [children EXCEPT ![k] = [@ EXCEPT !.timer = FALSE, !.ready = "rejected"]]
  /\ rows' = RestartFails(k, rows)
  /\ UNCHANGED <<running, shutting, calls, muddled>>

\* The exit handler.  It knows its child by the identifier of the instance; an
\* exit of another instance is passed over, with the promises of that child.
AnyMine(cur, k) == cur # 0   \* mutant: whatever instance the entry is
Mine(cur, k) == cur # 0 /\ children[cur].inst = children[k].inst
Failed(cur, ok) == children[cur].forced \/ (~children[cur].expected /\ ~shutting /\ ~ok)
Again(cur, ok) ==
  /\ Failed(cur, ok) /\ ~children[cur].expected
  /\ children[cur].restarts < Restarts[children[cur].launch]

\* Of a child that has ended, no more is read than its promises and its start.
Ended(kid) == [kid EXCEPT !.alive = FALSE, !.timer = FALSE, !.settled = TRUE, !.launch = NoLaunch,
                          !.expected = FALSE, !.restarts = 0]

\* The children as the exit of k leaves them, cur being the entry.
Exited(k, cur) ==
  [i \in DOMAIN children |->
     [(IF i = k THEN Ended(children[i]) ELSE children[i]) EXCEPT
       !.stopped = @ \/ i = cur,
       !.ready = IF @ = "pending" /\ i = cur /\ ~children[k].settled THEN "rejected" ELSE @]]

Ends(k, s, cur, ok) ==
  /\ ~Again(cur, ok) /\ children' = Exited(k, cur)
  /\ running' = [running EXCEPT ![s] = 0]
  /\ rows' = RestartFails(cur, [rows EXCEPT ![s] =
                RowOf(cur, children[cur], IF Failed(cur, ok) THEN "failed" ELSE "stopped")])

\* The same start anew, as another instance.
Anew(s, kid) == Child(s, kid.launch, Fresh, kid.restarts + 1, TRUE)
StartsAnew(k, s, cur, ok) ==
  /\ Again(cur, ok) /\ Fresh <= MaxStarts
  /\ children' = Append(Exited(k, cur), Anew(s, children[cur]))
  /\ running' = [running EXCEPT ![s] = Fresh]
  /\ rows' = RestartFails(cur, [rows EXCEPT ![s] =
                Row(FirstStatus(children[cur].launch), Fresh, children[cur].launch,
                    children[cur].restarts + 1, Fresh)])

Exits(k, ok) ==
  /\ children[k].alive /\ (children[k].forced => ~ok)
  /\ \E s \in {children[k].name} : \E cur \in {running[children[k].name]} :
       \/ /\ ~Mine(cur, k)
          /\ children' = [children EXCEPT ![k] = Ended(@)]
          /\ UNCHANGED <<rows, running>>
       \/ Mine(cur, k) /\ (Ends(k, s, cur, ok) \/ StartsAnew(k, s, cur, ok))
  /\ UNCHANGED <<shutting, calls, muddled>>

-----------------------------------------------------------------------------
(* The runtime: recovery at start, shutdown, crash. *)

\* recover reads the table once, and then starts one after the other, awaiting
\* each; a rejection ends it, and the start of the runtime.
Recoverable == {s \in Names : rows[s].status \in {"starting", "ready"}}
Recover ==
  /\ calls[RecoverCall] = NoCall
  /\ \E order \in SetToSeqs(Recoverable) :
       calls' = [calls EXCEPT ![RecoverCall] = [NoCall EXCEPT !.at = "next",
                   !.rest = [i \in DOMAIN order |-> [name |-> order[i], row |-> rows[order[i]]]]]]
  /\ UNCHANGED <<rows, children, running, shutting, muddled>>

RecoverNext ==
  /\ calls[RecoverCall].at = "next" /\ calls[RecoverCall].rest # <<>>
  /\ \E next \in {Head(calls[RecoverCall].rest)} :
       /\ Starts(RecoverCall, next.name, next.row.launch, next.row.inst, next.row.restarts,
                 Tail(calls[RecoverCall].rest))
       /\ Muddles(next.name, Overlaps(next.name) \/ rows[next.name] # next.row \/ running[next.name] # 0)
  /\ UNCHANGED shutting
RecoverAwaited ==
  /\ calls[RecoverCall].at = "ready" /\ children[calls[RecoverCall].child].ready # "pending"
  /\ calls' = [calls EXCEPT ![RecoverCall] =
       [NoCall EXCEPT !.at = IF children[calls[RecoverCall].child].ready = "ok" THEN "next"
                             ELSE "failed",
                      !.rest = calls[RecoverCall].rest]]
  /\ UNCHANGED <<rows, children, running, shutting, muddled>>
Recovered == calls[RecoverCall].at = "next" /\ calls[RecoverCall].rest = <<>>

\* shutdown lists the map once; ensure goes on as before.
Shutdown ==
  /\ calls[ShutdownCall] = NoCall /\ shutting' = TRUE
  /\ \E order \in SetToSeqs({s \in Names : running[s] # 0}) :
       calls' = [calls EXCEPT ![ShutdownCall] = [NoCall EXCEPT !.at = "next", !.rest = order]]
  /\ UNCHANGED <<rows, children, running, muddled>>
ShutdownNext ==
  /\ calls[ShutdownCall].at = "next" /\ calls[ShutdownCall].rest # <<>>
  /\ \E s \in {Head(calls[ShutdownCall].rest)}, rest \in {Tail(calls[ShutdownCall].rest)} :
       /\ \/ /\ running[s] = 0 /\ rows' = [rows EXCEPT ![s] = Stopped(s)]
             /\ calls' = [calls EXCEPT ![ShutdownCall].rest = rest]
             /\ UNCHANGED <<children, running>>
          \/ running[s] # 0 /\ Signals(ShutdownCall, s, NoLaunch, 0, rest)
       /\ Muddles(s, Replacing(s))
  /\ UNCHANGED shutting
IsShutDown == calls[ShutdownCall].at = "next" /\ calls[ShutdownCall].rest = <<>>

\* The process ends.  A child that goes on without it is unknown to the next one.
SidecarsCrash ==
  /\ children' = [k \in DOMAIN children |-> Ended(children[k])]
  /\ running' = [s \in Names |-> 0] /\ shutting' = FALSE
  /\ calls' = [c \in All |-> NoCall]
  /\ UNCHANGED <<rows, muddled>>

\* What a child does; what becomes of a sidecar that is muddled is not followed.
ChildStep(k) ==
  /\ children[k].name \notin muddled
  /\ MarkReady(k) \/ ReadinessTimeout(k) \/ \E ok \in BOOLEAN : Exits(k, ok)
\* The steps of the calls under way.
CallStep(c) == ReadyReturns(c) \/ StopReturns(c) \/ GraceEnds(c) \/ KillEnds(c)

-----------------------------------------------------------------------------
Living(s) == {k \in DOMAIN children :
                children[k].name = s /\ children[k].alive}

SidecarsTypeOK ==
  /\ \A s \in Names : rows[s].status \in Statuses \cup {"absent"} /\ running[s] \in 0..Len(children)
  /\ \A c \in All : calls[c].at \in {"idle", "ready", "term", "kill", "next", "failed"}
  /\ \A k \in DOMAIN children : children[k].settled \/ children[k].ready # "ok"

\* One child: none lives beside the child the map knows, but one that SIGKILL
\* has not ended yet.
OneChild == \A s \in Names \ muddled :
  \A k \in Living(s) : k = running[s] \/ children[k].forced

\* The table says what the map knows: which child is there and that it is up;
\* not when a start that followed an exit has failed in its turn.
RowTells == \A s \in Names \ muddled :
  IF running[s] = 0
  THEN rows[s].status \notin {"starting", "ready"}
  ELSE \/ rows[s].child = running[s] /\ rows[s].status \in {"starting", "ready", "stopping"}
       \/ rows[s].status = "failed" /\ \E k \in DOMAIN children :
            children[k].again /\ children[k].inst = rows[s].inst

\* A shutdown leaves nothing that was started before it, with the same exception.
NoneLeft == IsShutDown =>
  \A s \in Names \ muddled : \A k \in Living(s) : children[k].after \/ children[k].forced
=============================================================================
