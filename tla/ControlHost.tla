---------------------------- MODULE ControlHost ----------------------------
(***************************************************************************)
(* Host processes of the Control API (moorline api-run-foreground): the    *)
(* HTTP server, the control plane with its leases and its queue of         *)
(* mutations, and the supervisors of the main process it starts.  Hosts    *)
(* share the bootstrap record, the file that tells the command line where  *)
(* the API listens, and the machine: the first thing a supervisor does is  *)
(* kill every worker of the same configuration that is not its own.        *)
(*                                                                         *)
(* What a supervisor does with its worker is abstracted here to the states *)
(* of Sup below; module Supervisor has the detail.                         *)
(***************************************************************************)
EXTENDS Naturals, Sequences, FiniteSets

CONSTANTS
  Hosts,       \* host processes that may be spawned
  Sups,        \* supervisors that may be created
  Clients,     \* commands run by the operator
  Nobody,      \* no host, no supervisor, no client
  Configured   \* the port of the configuration; port 0 gives a host its own

VARIABLES
  conf,        \* the configuration: policy, autostart, startable; and the scenario
  hosts,       \* host -> its server, control plane and foreground loop
  sup,         \* supervisor -> its host, its worker, and whether it has lost that (stray)
  record,      \* control-api-bootstrap.json: the host it names, or Nobody
  client,      \* the commands, see ControlClients
  faults,      \* crashes, failed boots and late heartbeats left
  clash        \* history: [twice, stolen], see below

controlVars == <<conf, hosts, sup, record, client, faults, clash>>

Idle == [op |-> "idle", by |-> Nobody, at |-> "idle", sup |-> Nobody]

Unborn ==
  [st |-> "unborn", port |-> Nobody, shut |-> FALSE, foreground |-> "starting", queue |-> <<>>,
   job |-> Idle, main |-> Nobody, leases |-> {}, stale |-> {},
   kept |-> FALSE, outlived |-> FALSE, crashed |-> FALSE]

Alive(h) == hosts[h].st \notin {"unborn", "dead"}
Open(h) == hosts[h].st = "open"
Endpoint(port) == {h \in Hosts : Open(h) /\ hosts[h].port = port}
Working(s) == sup[s].st \in {"booting", "up"}
StopPolicy == conf.policy = "stop_on_last_lease"

\* the leases, if the policy counts them, or the operator's word: main is to stay
Wanted(rec) == rec.main # Nobody /\ sup[rec.main].st # "stopping" /\ (StopPolicy => rec.leases # {})
Keep(rec) == [rec EXCEPT !.kept = @ \/ Wanted(rec)]

Answered(c, result) ==
  IF c = Nobody THEN client
  ELSE [client EXCEPT ![c] = [@ EXCEPT !.pc = IF client[c].pc = "waiting" THEN result ELSE client[c].pc]]

Put(h, rec) == hosts' = [hosts EXCEPT ![h] = rec]
PutSup(s, st) == [sup EXCEPT ![s] = [@ EXCEPT !.st = st]]
PutStray(s, st) == [sup EXCEPT ![s] = [@ EXCEPT !.st = st, !.stray = TRUE]]

-----------------------------------------------------------------------------
\* Supervisors.

\* every other worker of the configuration is killed before the fork
Killed(t) ==
  IF ~Working(t) THEN sup[t].st
  ELSE IF ~Alive(sup[t].host) \/ sup[t].stray THEN "over"
  ELSE IF sup[t].st = "up" THEN "down"
  ELSE IF hosts[sup[t].host].main = t THEN "idle" ELSE "failed"

Clean(s) ==
  /\ sup[s].st = "cleaning"
  /\ sup' = [t \in Sups |-> [sup[t] EXCEPT !.st = IF t = s THEN "booting" ELSE Killed(t)]]
  /\ UNCHANGED <<conf, hosts, record, client, faults, clash>>

Finished(h, rec, result) ==
  /\ Put(h, [rec EXCEPT !.job = Idle])
  /\ client' = Answered(rec.job.by, result)

\* the first worker of a new supervisor is ready, or that of a restart
Ready(s) ==
  LET h == sup[s].host
      rec == [hosts[h] EXCEPT !.main = s, !.kept = StopPolicy => hosts[h].leases # {}]
  IN  /\ sup[s].st = "booting"
      /\ sup' = PutSup(s, "up")
      /\ IF hosts[h].job.sup = s
         THEN Finished(h, IF rec.st = "starting" THEN [rec EXCEPT !.st = "binding"] ELSE rec, "done")
         ELSE UNCHANGED <<hosts, client>>
      /\ UNCHANGED <<conf, record, faults, clash>>

WorkerBootFails(s) ==
  /\ sup[s].st = "booting" /\ faults > 0
  /\ sup' = PutSup(s, IF sup[s].stray THEN "over"
                      ELSE IF hosts[sup[s].host].main = s THEN "idle" ELSE "failed")
  /\ faults' = faults - 1
  /\ UNCHANGED <<conf, hosts, record, client, clash>>

WorkerCrashes(s) ==
  /\ sup[s].st = "up" /\ faults > 0 /\ Alive(sup[s].host)
  /\ sup' = PutSup(s, IF sup[s].stray THEN "over" ELSE "down")
  /\ faults' = faults - 1
  /\ UNCHANGED <<conf, hosts, record, client, clash>>

Respawn(s) ==
  /\ sup[s].st = "down"
  /\ sup' = PutSup(s, "cleaning")
  /\ UNCHANGED <<conf, hosts, record, client, faults, clash>>

\* With no worker to shut down a stop returns at once.  Where that is because the
\* restart of a crashed one still cleans up, the fork comes later all the same.
Workerless(s) == sup[s].st \in {"cleaning", "idle"}

HaltMain(s) ==
  IF sup[s].st = "cleaning" THEN PutStray(s, "cleaning")
  ELSE PutSup(s, IF Workerless(s) THEN "over" ELSE "stopping")

\* all who awaited the stop forget the supervisor
Forgets(rec) ==
  [rec EXCEPT !.main = Nobody, !.kept = FALSE, !.st = IF @ = "plane" THEN "stopped" ELSE @]

\* the row of a host that has asked its main to stop
Halting(rec) == IF Workerless(rec.main) THEN Forgets(rec) ELSE rec

StopOver(s) ==
  /\ sup[s].st = "stopping"
  /\ Put(sup[s].host, Forgets(hosts[sup[s].host]))
  /\ UNCHANGED <<conf, record, client, clash>>

StopEnds(s) ==
  /\ StopOver(s)
  /\ sup' = PutSup(s, "over")
  /\ UNCHANGED faults

\* the worker heeds neither the message nor SIGTERM, and SIGKILL is never sent
WorkerStays(s) ==
  /\ faults > 0
  /\ StopOver(s)
  /\ sup' = PutStray(s, "up")
  /\ faults' = faults - 1

-----------------------------------------------------------------------------
\* The end of a host process: a forked worker outlives it.

Outliving(st) ==
  IF st \in {"booting", "up"} THEN "up" ELSE IF st = "unused" THEN st ELSE "over"

Die(h, rec) ==
  /\ Put(h, [rec EXCEPT !.st = "dead", !.queue = <<>>, !.job = Idle, !.main = Nobody,
                         !.leases = {}, !.stale = {}, !.kept = FALSE])
  /\ sup' = [s \in Sups |-> IF sup[s].host = h THEN [sup[s] EXCEPT !.st = Outliving(@)] ELSE sup[s]]

\* whoever's record it is
ClearRecord(h) ==
  /\ record' = Nobody
  /\ clash' = [clash EXCEPT !.stolen = @ \/ record \notin {Nobody, h}]

Crash(h) ==
  /\ Alive(h) /\ faults > 0
  /\ Die(h, [hosts[h] EXCEPT !.crashed = TRUE])
  /\ faults' = faults - 1
  /\ UNCHANGED <<conf, record, client, clash>>

-----------------------------------------------------------------------------
\* Leases.  Only those of the policy that stops the main process are counted.

\* mutant: an expired lease is only marked
KeepsExpired(rec) == [rec EXCEPT !.stale = {}]

Evicted(rec) == [rec EXCEPT !.leases = @ \ rec.stale, !.stale = {}]

\* mutant: the policy does not count the leases
EnforceAlways(rec) == StopPolicy /\ rec.main # Nobody

Enforced(rec) == StopPolicy /\ rec.leases = {} /\ rec.main # Nobody

\* the leases of rec are enforced, beside the queue of mutations
Enforce(h, rec) ==
  LET row == [rec EXCEPT !.kept = @ /\ (StopPolicy => rec.leases # {})]
  IN  IF Enforced(rec)
      THEN Put(h, Halting(row)) /\ sup' = HaltMain(rec.main)
      ELSE Put(h, row) /\ UNCHANGED sup

\* once a second
Tick(h) ==
  LET rec == Evicted(hosts[h])
  IN  /\ hosts[h].st \in {"binding", "open", "closing"}
      /\ rec # hosts[h] \/ (Enforced(rec) /\ sup[rec.main].st # "stopping")
      /\ Enforce(h, rec)
      /\ UNCHANGED <<conf, record, client, faults, clash>>

-----------------------------------------------------------------------------
\* The queue of mutations.

Take(h) ==
  /\ Alive(h) /\ hosts[h].job = Idle /\ hosts[h].queue # <<>>
  /\ LET c == Head(hosts[h].queue)
     IN  Put(h, [hosts[h] EXCEPT !.queue = Tail(@),
                   !.job = [Idle EXCEPT !.op = client[c].cmd, !.by = c,
                              !.at = IF client[c].cmd = "start" THEN "start" ELSE "stop"]])
  /\ UNCHANGED <<conf, sup, record, client, faults, clash>>

JobAt(h, step) == Alive(h) /\ hosts[h].job.at = step
JobTo(h, step) == [hosts[h] EXCEPT !.job = [@ EXCEPT !.at = step]]

StopFirst(h) ==
  /\ JobAt(h, "stop") /\ hosts[h].main # Nobody
  /\ Put(h, Halting([JobTo(h, "stopping") EXCEPT !.kept = FALSE]))
  /\ sup' = HaltMain(hosts[h].main)
  /\ UNCHANGED <<conf, record, client, faults, clash>>

Stopped(h) ==
  /\ JobAt(h, "stop") \/ JobAt(h, "stopping")
  /\ hosts[h].main = Nobody
  /\ LET next == IF hosts[h].job.op = "restart" THEN "start" ELSE "work"
     IN  IF hosts[h].job.op = "stop" THEN Finished(h, hosts[h], "done")
         ELSE Put(h, JobTo(h, next)) /\ UNCHANGED client
  /\ UNCHANGED <<conf, sup, record, faults, clash>>

\* bound: while one is left
NewSup == CHOOSE s \in Sups : sup[s].st = "unused"

StartMain(h, rec, s) ==
  /\ \E t \in Sups : sup[t].st = "unused"
  /\ sup' = [sup EXCEPT ![s] = [host |-> h, st |-> "cleaning", stray |-> FALSE]]
  /\ Put(h, [rec EXCEPT !.job = [@ EXCEPT !.at = "starting", !.sup = s],
                         !.outlived = @ \/ rec.st \in {"closing", "plane", "stopped"}])
  /\ UNCHANGED client

\* a main that is on its way down still counts as running
Start(h) ==
  /\ JobAt(h, "start")
  /\ IF ~conf.startable \/ hosts[h].main # Nobody
     THEN Finished(h, Keep(hosts[h]), "done") /\ UNCHANGED sup
     ELSE StartMain(h, hosts[h], NewSup)
  /\ UNCHANGED <<conf, record, faults, clash>>

\* the host of an autostart that fails ends; any record goes with it
StartFails(h) ==
  /\ JobAt(h, "starting") /\ sup[hosts[h].job.sup].st = "failed"
  /\ IF hosts[h].st = "starting"
     THEN Die(h, hosts[h]) /\ ClearRecord(h) /\ UNCHANGED client
     ELSE /\ sup' = PutSup(hosts[h].job.sup, "over")
          /\ Finished(h, hosts[h], "failed")
          /\ UNCHANGED <<record, clash>>
  /\ UNCHANGED <<conf, faults>>

\* an import wipes the runtime root, the record with it, and is refused or fails
\* before it does, or fails once it has
Works(h) ==
  /\ JobAt(h, "work")
  /\ \E outcome \in IF hosts[h].job.op = "import" THEN {"done", "refused", "torn"} ELSE {"done"} :
       /\ Finished(h, hosts[h], IF outcome = "done" THEN "done" ELSE "failed")
       /\ record' = IF hosts[h].job.op # "import" \/ outcome = "refused" THEN record
                    ELSE IF outcome = "done" /\ hosts[h].st \in {"open", "closing"} THEN h
                    ELSE Nobody
       /\ clash' = [clash EXCEPT !.stolen = @ \/ outcome = "torn"]
  /\ UNCHANGED <<conf, sup, faults>>

-----------------------------------------------------------------------------
\* The server, and the foreground loop around it.

\* the adapter package is loaded; then the control plane starts, and main if so asked
Boot(h) ==
  /\ hosts[h].st = "spawned"
  /\ LET rec == [hosts[h] EXCEPT !.st = "starting", !.job = [Idle EXCEPT !.op = "autostart"]]
     IN  IF conf.autostart /\ conf.startable
         THEN StartMain(h, rec, NewSup)
         ELSE Put(h, [hosts[h] EXCEPT !.st = "binding"]) /\ UNCHANGED <<sup, client>>
  /\ UNCHANGED <<conf, record, faults, clash>>

AdapterFails(h) ==
  /\ hosts[h].st = "spawned" /\ faults > 0
  /\ Die(h, hosts[h]) /\ ClearRecord(h)
  /\ faults' = faults - 1
  /\ UNCHANGED <<conf, client>>

\* the configured port, or any if it is taken; then the record is published
Listen(h) ==
  /\ hosts[h].st = "binding"
  /\ Put(h, [hosts[h] EXCEPT !.st = "open", !.foreground = "waiting",
                             !.port = IF Endpoint(Configured) = {} THEN Configured ELSE h])
  /\ record' = h
  /\ UNCHANGED <<conf, sup, client, faults, clash>>

\* ten milliseconds after /api/shutdown was answered
Shutdown(h) ==
  /\ Open(h) /\ hosts[h].shut
  /\ Put(h, [hosts[h] EXCEPT !.st = "closing", !.kept = FALSE])
  /\ UNCHANGED <<conf, sup, record, client, faults, clash>>

Pending(h) == {c \in Clients : client[c].target = h /\ client[c].pc \in {"waiting", "held"}}

\* mutant: the main process is left to the worker's own devices
PlaneForgets(h) ==
  Put(h, [hosts[h] EXCEPT !.st = "stopped", !.leases = {}, !.stale = {}]) /\ UNCHANGED sup

\* the server is closed: the control plane drops the leases and stops main, if it has one
PlaneStops(h) ==
  LET rec == [hosts[h] EXCEPT !.leases = {}, !.stale = {}, !.kept = FALSE,
                             !.outlived = @ \/ hosts[h].job.at = "starting"]
  IN  IF rec.main = Nobody
      THEN Put(h, [rec EXCEPT !.st = "stopped"]) /\ UNCHANGED sup
      ELSE Put(h, Halting([rec EXCEPT !.st = "plane"])) /\ sup' = HaltMain(rec.main)

Closed(h) ==
  /\ hosts[h].st = "closing" /\ Pending(h) = {}
  /\ PlaneStops(h)
  /\ UNCHANGED <<conf, record, client, faults, clash>>

\* after two seconds the connections still open are cut
ForceClosed(h) ==
  /\ hosts[h].st = "closing" /\ Pending(h) # {}
  /\ client' = [c \in Clients |->
                  IF c \in Pending(h) THEN [client[c] EXCEPT !.pc = "failed"] ELSE client[c]]
  /\ PlaneStops(h)
  /\ UNCHANGED <<conf, record, faults, clash>>

\* the loop polls its own address; whoever listens there keeps it waiting
EndpointClosed(h) ==
  /\ Alive(h) /\ hosts[h].foreground = "waiting" /\ Endpoint(hosts[h].port) = {}
  /\ Put(h, [hosts[h] EXCEPT !.foreground = "quitting"])
  /\ UNCHANGED <<conf, sup, record, client, faults, clash>>

Signal(h) ==
  /\ Open(h) /\ hosts[h].foreground = "waiting" /\ conf.signal
  /\ Put(h, [hosts[h] EXCEPT !.foreground = "quitting", !.st = "closing", !.kept = FALSE])
  /\ UNCHANGED <<conf, sup, record, client, faults, clash>>

\* adapter.stop returned: the record is removed and the process ends
Exit(h) ==
  /\ hosts[h].foreground = "quitting" /\ hosts[h].st = "stopped"
  /\ Die(h, hosts[h]) /\ ClearRecord(h)
  /\ UNCHANGED <<conf, client, faults>>

=============================================================================
