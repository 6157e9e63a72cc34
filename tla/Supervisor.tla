----------------------------- MODULE Supervisor -----------------------------
(***************************************************************************)
(* RuntimeSupervisor: it forks the runtime worker process, restarts it     *)
(* when it dies, replaces it on a reload and shuts it down, under          *)
(* ControlApiRuntimeHostService, which starts a supervisor, and stops it   *)
(* before packages are changed.  The host's operations come one at a time. *)
(*                                                                         *)
(* The supervisor is one thread; what interleaves is the worker processes, *)
(* their messages and exit events, the timers, and the supervisor's own    *)
(* operations, which give way at every await: a crash restart, a reload    *)
(* and a stop may all be under way at once.  One supervisor is modelled,   *)
(* from its start on; the stale workers it clears away before each fork    *)
(* are those of earlier ones.                                              *)
(***************************************************************************)
EXTENDS Naturals, Sequences

CONSTANTS
    MaxForks,   \* bound on forked workers, which are numbered in that order
    MaxRequests,\* bound on control requests
    MaxCrashes, \* bound on workers that die of themselves
    MaxFailures,\* bound on boots that fail or take too long
    None        \* no worker, no state

ASSUME SupervisorBounds ==
    /\ MaxForks \in Nat \ {0}
    /\ MaxRequests \in Nat /\ MaxCrashes \in Nat /\ MaxFailures \in Nat

Workers == 1..MaxForks

\* WorkerStartupState; due: its readiness timer is set.
StartupState == [active : BOOLEAN, ready : BOOLEAN, suppress : BOOLEAN, due : BOOLEAN]

ASSUME NoneAssumption == None \notin Workers \cup StartupState

VARIABLES
    proc,      \* worker -> its process: "none", "booting", "serving", "halting", "dead"
    inbox,     \* worker -> its messages, and its exit event, not handled yet
    startup,   \* startupStates: worker -> [active, ready, suppress, due], or None
    promise,   \* worker -> the promise of its readiness
    exited,    \* workers whose exit event is handled: exitCode is set
    killed,    \* workers that were sent a signal: child.killed
    worker,    \* this.worker
    stopping, restarting,
    cleaning,  \* the starts that still clear stale workers away
    host,      \* the host's view: "off", "starting", ..., "stopped"
    first,     \* the worker start() waits for
    target,    \* the worker stop() waits for
    reload,    \* the running reload: [pc, asker, child]
    reloads,   \* controlTail: who asked for the reloads still to run
    forwarded, \* workers whose other control request is handed back to them to execute
    asked, crashes, failures \* how many so far

vars == <<proc, inbox, startup, promise, exited, killed, worker, stopping, restarting,
          cleaning, host, first, target, reload, reloads, forwarded, asked,
          crashes, failures>>

world == <<asked, crashes, failures>>

WorkerOrNone == Workers \cup {None}
Messages == {"ready", "start_failed", "reload", "request", "executed", "exit"}

\* What starts a worker: start(), a reload, and the exit of a worker.
FirstStart  == <<"start", None>>
Replacing   == <<"reload", None>>
Restart(w)  == <<"restart", w>>
Starts      == {FirstStart, Replacing} \cup {Restart(w) : w \in Workers}

TypeOK ==
    /\ proc \in [Workers -> {"none", "booting", "serving", "halting", "dead"}]
    /\ inbox \in [Workers -> Seq(Messages)]
    /\ startup \in [Workers -> StartupState \cup {None}]
    /\ promise \in [Workers -> {"pending", "resolved", "rejected"}]
    /\ exited \subseteq Workers /\ killed \subseteq Workers
    /\ worker \in WorkerOrNone /\ (worker # None => startup[worker] # None)
    /\ stopping \in BOOLEAN /\ restarting \in BOOLEAN
    /\ cleaning \subseteq Starts
    /\ host \in {"off", "starting", "failed", "running", "stopping", "terming", "stopped",
                "down"}
    /\ first \in WorkerOrNone /\ target \in WorkerOrNone
    /\ reload \in [pc : {"idle", "cleaning", "awaiting", "stopping", "terming"},
                   asker : WorkerOrNone, child : WorkerOrNone]
    /\ reloads \in Seq(Workers) /\ forwarded \subseteq Workers
    /\ asked \in 0..MaxRequests /\ crashes \in 0..MaxCrashes /\ failures \in 0..MaxFailures

NoReload == [pc |-> "idle", asker |-> None, child |-> None]

Init ==
    /\ proc = [w \in Workers |-> "none"]
    /\ inbox = [w \in Workers |-> <<>>]
    /\ startup = [w \in Workers |-> None]
    /\ promise = [w \in Workers |-> "pending"]
    /\ exited = {} /\ killed = {} /\ cleaning = {}
    /\ worker = None /\ first = None /\ target = None
    /\ stopping = FALSE /\ restarting = FALSE
    /\ host = "off"
    /\ reload = NoReload /\ reloads = <<>> /\ forwarded = {}
    /\ asked = 0 /\ crashes = 0 /\ failures = 0

-----------------------------------------------------------------------------
(* The worker processes. *)

Says(w, q) == inbox' = [inbox EXCEPT ![w] = @ \o q]

supervisor == <<startup, promise, exited, killed, worker, stopping, restarting, cleaning,
                host, first, target, reload, reloads, forwarded>>

\* runtime.start() is through.
Boots(w) ==
    /\ proc[w] = "booting"
    /\ proc' = [proc EXCEPT ![w] = "serving"]
    /\ Says(w, <<"ready">>)
    /\ UNCHANGED <<supervisor, world>>

\* runtime.start() throws.
BootFails(w) ==
    /\ proc[w] = "booting" /\ failures < MaxFailures
    /\ failures' = failures + 1
    /\ proc' = [proc EXCEPT ![w] = "dead"]
    /\ Says(w, <<"start_failed", "exit">>)
    /\ UNCHANGED <<supervisor, asked, crashes>>

Crashes(w) ==
    /\ proc[w] \in {"serving", "halting"} /\ crashes < MaxCrashes
    /\ crashes' = crashes + 1
    /\ proc' = [proc EXCEPT ![w] = "dead"]
    /\ Says(w, <<"exit">>)
    /\ UNCHANGED <<supervisor, asked, failures>>

\* The shutdown handler is through, or the signal takes effect.  Neither need
\* ever happen: the runtime's drains, which the worker runs on either, may hang.
Exits(w) ==
    /\ proc[w] = "halting" \/ (w \in killed /\ proc[w] \in {"booting", "serving"})
    /\ proc' = [proc EXCEPT ![w] = "dead"]
    /\ Says(w, <<"exit">>)
    /\ UNCHANGED <<supervisor, world>>

AsksReload(w) ==
    /\ proc[w] = "serving" /\ asked < MaxRequests
    /\ asked' = asked + 1
    /\ Says(w, <<"reload">>)
    /\ UNCHANGED <<proc, supervisor, crashes, failures>>

\* One at a time, which bounds the model.
AsksControl(w) ==
    /\ proc[w] = "serving" /\ asked < MaxRequests
    /\ w \notin forwarded /\ \A i \in DOMAIN inbox[w] : inbox[w][i] # "request"
    /\ asked' = asked + 1
    /\ Says(w, <<"request">>)
    /\ UNCHANGED <<proc, supervisor, crashes, failures>>

Executes(w) ==
    /\ proc[w] \in {"serving", "halting"} /\ w \in forwarded
    /\ \A i \in DOMAIN inbox[w] : inbox[w][i] # "executed"
    /\ Says(w, <<"executed">>)
    /\ UNCHANGED <<proc, supervisor, world>>

-----------------------------------------------------------------------------
(* Starting a worker. *)

Unforked == {w \in Workers : proc[w] = "none"}
NextFork == CHOOSE w \in Unforked : \A v \in Unforked : w <= v

\* startWorker, past the cleanup of stale workers: the fork.
Fork(op) ==
    LET c == NextFork IN
    /\ op \in cleaning /\ Unforked # {}
    /\ cleaning' = cleaning \ {op}
    /\ proc' = [proc EXCEPT ![c] = "booting"]
    /\ startup' = [startup EXCEPT ![c] = [active |-> op # Replacing, ready |-> FALSE,
                                          suppress |-> TRUE, due |-> TRUE]]
    /\ worker' = IF op = Replacing THEN worker ELSE c
    /\ first' = IF op = FirstStart THEN c ELSE first
    /\ reload' = IF op = Replacing THEN [reload EXCEPT !.pc = "awaiting", !.child = c] ELSE reload
    /\ UNCHANGED <<inbox, promise, exited, killed, stopping, restarting, host, target,
                   reloads, forwarded, world>>

\* failWorkerStartup: what becomes of the promise.
Rejected(w) ==
    IF promise[w] = "pending" THEN [promise EXCEPT ![w] = "rejected"] ELSE promise

\* The readiness timer fires.
ReadyTimeout(w) ==
    /\ startup[w] # None /\ startup[w].due
    /\ failures < MaxFailures
    /\ failures' = failures + 1
    /\ startup' = [startup EXCEPT ![w].due = FALSE]
    /\ promise' = Rejected(w)
    /\ killed' = killed \cup {w}
    /\ UNCHANGED <<proc, inbox, exited, worker, stopping, restarting, cleaning, host, first,
                   target, reload, reloads, forwarded, asked, crashes>>

\* startMain: supervisor.start().
HostStart ==
    /\ host = "off"
    /\ host' = "starting"
    /\ cleaning' = cleaning \cup {FirstStart}
    /\ UNCHANGED <<proc, inbox, startup, promise, exited, killed, worker, stopping, restarting,
                   first, target, reload, reloads, forwarded, world>>

\* The first worker is ready, and the host keeps the supervisor, or it is not.
HostStarted ==
    /\ host = "starting" /\ first # None /\ promise[first] # "pending"
    /\ host' = IF promise[first] = "resolved" THEN "running" ELSE "failed"
    /\ UNCHANGED <<proc, inbox, startup, promise, exited, killed, worker, stopping, restarting,
                   cleaning, first, target, reload, reloads, forwarded, world>>

-----------------------------------------------------------------------------
(* What the supervisor hears of a worker. *)

Hears(w, message) ==
    /\ host # "down"
    /\ inbox[w] # <<>> /\ Head(inbox[w]) = message
    /\ inbox' = [inbox EXCEPT ![w] = Tail(@)]

Unready(w) == startup[w] # None /\ ~startup[w].ready

\* markWorkerReady
MadeReady(state) == [state EXCEPT !.ready = TRUE, !.suppress = FALSE, !.due = FALSE]

HearsReady(w) ==
    /\ Hears(w, "ready")
    /\ IF Unready(w)
       THEN /\ startup' = [startup EXCEPT ![w] = MadeReady(startup[w])]
            /\ promise' = IF promise[w] = "pending" THEN [promise EXCEPT ![w] = "resolved"]
                                                    ELSE promise
       ELSE UNCHANGED <<startup, promise>>
    /\ UNCHANGED <<proc, exited, killed, worker, stopping, restarting, cleaning, host, first,
                   target, reload, reloads, forwarded, world>>

HearsStartFailed(w) ==
    /\ Hears(w, "start_failed")
    /\ IF Unready(w)
       THEN startup' = [startup EXCEPT ![w].due = FALSE] /\ promise' = Rejected(w)
       ELSE UNCHANGED <<startup, promise>>
    /\ UNCHANGED <<proc, exited, killed, worker, stopping, restarting, cleaning, host, first,
                   target, reload, reloads, forwarded, world>>

\* Whether the exit of w makes the supervisor start another.
Restarts(w) == startup[w].active /\ ~stopping /\ ~restarting /\ ~startup[w].suppress

\* this.worker, once w has exited.
WorkerWithout(w) == IF worker = w THEN None ELSE worker

HearsExit(w) ==
    /\ Hears(w, "exit") /\ w \notin forwarded
    /\ exited' = exited \cup {w}
    /\ promise' = IF Unready(w) THEN Rejected(w) ELSE promise
    /\ worker' = WorkerWithout(w)
    /\ cleaning' = IF Restarts(w) THEN cleaning \cup {Restart(w)} ELSE cleaning
    /\ startup' = [startup EXCEPT ![w] = None]
    /\ UNCHANGED <<proc, killed, stopping, restarting, host, first, target, reload, reloads,
                   forwarded, world>>

HearsReload(w) ==
    /\ Hears(w, "reload")
    /\ reloads' = Append(reloads, w)
    /\ UNCHANGED <<proc, startup, promise, exited, killed, worker, stopping, restarting,
                   cleaning, host, first, target, reload, forwarded, world>>

\* Any other control request goes back to the worker, to be executed there.
HearsRequest(w) ==
    /\ Hears(w, "request")
    /\ forwarded' = forwarded \cup {w}
    /\ UNCHANGED <<proc, startup, promise, exited, killed, worker, stopping, restarting,
                   cleaning, host, first, target, reload, reloads, world>>

HearsExecuted(w) ==
    /\ Hears(w, "executed")
    /\ forwarded' = forwarded \ {w}
    /\ UNCHANGED <<proc, startup, promise, exited, killed, worker, stopping, restarting,
                   cleaning, host, first, target, reload, reloads, world>>

-----------------------------------------------------------------------------
(* Shutting a worker down, in a reload and in a stop. *)

\* The supervisor.shutdown message, lost on a process that is gone.
Halt(w) == proc' = IF proc[w] = "dead" THEN proc ELSE [proc EXCEPT ![w] = "halting"]

\* The time for w to exit is up: SIGTERM, to a child that was sent no signal yet.
Term(w, pc) ==
    /\ pc = "stopping" /\ w \notin exited \cup killed
    /\ killed' = killed \cup {w}

\* Five seconds after SIGTERM: SIGKILL, but only to a child that was sent none.
Kill(w) == IF w \in killed THEN UNCHANGED proc ELSE proc' = [proc EXCEPT ![w] = "dead"]

\* Faulty variant: there is no time limit.
AwaitsExit(w, pc) ==
    pc \in {"stopping", "terming"} /\ w \in exited /\ UNCHANGED <<proc, killed>>

\* shutdownWorker returns: w has exited, was sent a signal before, or had its time.
ShutdownOver(w, pc) ==
    \/ pc \in {"stopping", "terming"} /\ w \in exited /\ UNCHANGED <<proc, killed>>
    \/ pc = "stopping" /\ w \in killed \ exited /\ UNCHANGED <<proc, killed>>
    \/ pc = "terming" /\ w \notin exited /\ Kill(w) /\ killed' = killed \cup {w}

\* The host's stop(): with no worker at hand it is over at once.
HostStop ==
    /\ host = "running"
    /\ stopping' = TRUE
    /\ host' = IF worker = None THEN "stopped" ELSE "stopping"
    /\ target' = worker
    /\ IF worker = None THEN UNCHANGED proc ELSE Halt(worker)
    /\ UNCHANGED <<inbox, startup, promise, exited, killed, worker, restarting, cleaning,
                   first, reload, reloads, forwarded, world>>

HostStopTerms ==
    /\ Term(target, host)
    /\ host' = "terming"
    /\ UNCHANGED <<proc, inbox, startup, promise, exited, worker, stopping, restarting,
                   cleaning, first, target, reload, reloads, forwarded, world>>

HostStopped ==
    /\ ShutdownOver(target, host)
    /\ host' = "stopped"
    /\ worker' = None
    /\ UNCHANGED <<inbox, startup, promise, exited, stopping, restarting, cleaning, first,
                   target, reload, reloads, forwarded, world>>

-----------------------------------------------------------------------------
(* A reload. *)

ReloadBegins ==
    /\ reload.pc = "idle" /\ reloads # <<>>
    /\ reload' = [pc |-> "cleaning", asker |-> Head(reloads), child |-> None]
    /\ reloads' = Tail(reloads)
    /\ restarting' = TRUE
    /\ cleaning' = cleaning \cup {Replacing}
    /\ UNCHANGED <<proc, inbox, startup, promise, exited, killed, worker, stopping, host,
                   first, target, forwarded, world>>

\* setWorkerActive(asker, false) and setWorkerActive(child, true), each only for
\* a worker that has not exited.
HandedOver(asker, child) ==
    [w \in Workers |->
       IF startup[w] = None \/ w \notin {asker, child} THEN startup[w]
       ELSE [startup[w] EXCEPT !.active = (w = child)]]

\* Faulty variants: the asker goes even if its replacement failed; the asker is
\* forgotten.
SparesKilled(asker, child) == asker \in killed
SparesAlways(asker, child) == TRUE

\* Whether the asker is left alone: the replacement is not to be, or it was sent
\* a signal already.
Spares(asker, child) == promise[child] = "rejected" \/ asker \in killed

\* The replacement is ready: it takes over, and the asker, unless it is gone, is
\* shut down; or the replacement is not to be, and everything stays.
ReloadSettles ==
    LET asker == reload.asker
        child == reload.child
        over  == Spares(asker, child)
    IN
    /\ reload.pc = "awaiting" /\ promise[child] # "pending" /\ asker \notin exited
    /\ restarting' = FALSE
    /\ reload' = IF over THEN NoReload ELSE [reload EXCEPT !.pc = "stopping"]
    /\ IF over THEN UNCHANGED proc ELSE Halt(asker)
    /\ IF promise[child] = "resolved"
       THEN /\ startup' = HandedOver(asker, child)
            /\ worker' = IF startup[child] # None THEN child
                         ELSE IF worker = asker THEN None ELSE worker
       ELSE UNCHANGED <<startup, worker>>
    /\ UNCHANGED <<inbox, promise, exited, killed, stopping, cleaning, host, first, target,
                   reloads, forwarded, world>>

ReloadTerms ==
    /\ Term(reload.asker, reload.pc)
    /\ reload' = [reload EXCEPT !.pc = "terming"]
    /\ UNCHANGED <<proc, inbox, startup, promise, exited, worker, stopping, restarting,
                   cleaning, host, first, target, reloads, forwarded, world>>

ReloadEnds ==
    /\ ShutdownOver(reload.asker, reload.pc)
    /\ reload' = NoReload
    /\ UNCHANGED <<inbox, startup, promise, exited, worker, stopping, restarting, cleaning,
                   host, first, target, reloads, forwarded, world>>

\* child.send to a process that is gone: the answer to a reload, the answers
\* that are due when a worker exits, the shutdown message, a request handed back
\* or its answer.  The child emits an 'error' event, nothing listens to it, and
\* the supervisor's process, which is the host's, ends; the workers do not.
\* Before the exit is handled the message may instead just be lost.
Sends(w) ==
    \/ reload.pc = "awaiting" /\ promise[reload.child] # "pending" /\ reload.asker = w
    \/ inbox[w] # <<>> /\ Head(inbox[w]) = "exit" /\ w \in forwarded
    \/ inbox[w] # <<>> /\ Head(inbox[w]) \in {"request", "executed"}
    \/ host = "running" /\ worker = w

SendFails(w) ==
    /\ host # "down" /\ proc[w] = "dead" /\ Sends(w)
    /\ host' = "down"
    /\ startup' = [v \in Workers |-> None] /\ worker' = None
    /\ cleaning' = {} /\ forwarded' = {} /\ reload' = NoReload /\ reloads' = <<>>
    /\ UNCHANGED <<proc, inbox, promise, exited, killed, stopping, restarting, first, target,
                   world>>

Process(w) == Boots(w) \/ BootFails(w) \/ Crashes(w) \/ Exits(w) \/ AsksReload(w)
              \/ AsksControl(w) \/ Executes(w)

Hearing(w) == HearsReady(w) \/ HearsStartFailed(w) \/ HearsExit(w) \/ HearsReload(w)
              \/ HearsRequest(w) \/ HearsExecuted(w)

Host == HostStart \/ HostStarted \/ HostStop \/ HostStopTerms \/ HostStopped

Reload == ReloadBegins \/ ReloadSettles \/ ReloadTerms \/ ReloadEnds

Next ==
    \/ \E w \in Workers : Process(w) \/ Hearing(w) \/ ReadyTimeout(w) \/ SendFails(w)
    \/ \E op \in Starts : Fork(op)
    \/ Host \/ Reload

Spec == Init /\ [][Next]_vars

\* The supervisor's event loop hears what there is to hear, resumes its
\* operations and fires its timers; a worker that boots gets there or fails.
\* Nothing makes a worker exit, crash, or ask, or the host stop.
Fairness ==
    /\ \A w \in Workers : WF_vars(Boots(w)) /\ WF_vars(Hearing(w) \/ SendFails(w))
    /\ \A op \in Starts : WF_vars(Fork(op))
    /\ WF_vars(HostStarted) /\ WF_vars(HostStopTerms) /\ WF_vars(HostStopped)
    /\ WF_vars(ReloadBegins) /\ WF_vars(ReloadSettles) /\ WF_vars(ReloadTerms)
    /\ WF_vars(ReloadEnds)

FairSpec == Spec /\ Fairness

-----------------------------------------------------------------------------
(* What is to hold. *)

Active == {w \in Workers : startup[w] # None /\ startup[w].active}

\* With one reload at most and no crash, and nothing being started, no worker but
\* this.worker serves: one that serves on forgotten shares the database with it
\* and is never shut down.
NoOrphans ==
    (crashes = 0 /\ asked <= 1 /\ host = "running" /\ reload.pc = "idle" /\ cleaning = {}) =>
        {w \in Workers : proc[w] = "serving" /\ w \notin killed} \subseteq {worker}

\* The supervisor's fields, and the one they are for.
WorkersKnown == TypeOK /\ NoOrphans

\* If no worker dies of itself, one serves, known to the supervisor, for as long
\* as the host is running: a reload, failed or not, never leaves a gap.
ServiceKept ==
    crashes = 0 /\ host = "running" => \E w \in Workers : proc[w] = "serving" /\ startup[w] # None

\* A reload returns, whatever becomes of the replacement and of the asker: the
\* next one waits for it in controlTail.
ReloadReturns == reload.pc # "idle" ~> reload.pc = "idle"

\* A stop returns even if the worker never exits.
StopReturns == host = "stopping" ~> host # "stopping" /\ host # "terming"

\* Without control requests, a supervisor whose active worker died has one again,
\* unless the host stops it; or a replacement failed to start, after which the
\* supervisor does not try again.
CrashRepaired ==
    (host = "running" /\ asked = 0 /\ Active = {})
       ~> (host # "running" \/ asked > 0 \/ Active # {} \/ failures > 0)

\* What the supervisor has begun ends: reloads, stops and the gap after a crash.
Returns == ReloadReturns /\ StopReturns /\ CrashRepaired
=============================================================================
