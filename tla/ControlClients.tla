--------------------------- MODULE ControlClients ---------------------------
(***************************************************************************)
(* The command line against the hosts: each command finds the host through *)
(* the bootstrap record, spawns one if none answers there, and sends its   *)
(* request.  api stop and api status go by the record alone; interactive   *)
(* holds a lease until the operator leaves, or is killed.                  *)
(***************************************************************************)
EXTENDS ControlHost

CONSTANTS
  Scenarios    \* [cmds, open, up, policy, autostart, startable, signal, faults]

\* requests the control plane runs one after the other
Mutations == {"start", "stop", "restart", "package", "import"}

Commands == Mutations \cup {"api-start", "api-stop", "api-status", "main-status", "interactive"}

ASSUME ControlAssumption ==
  /\ Nobody \notin Hosts \cup Sups \cup Clients
  /\ Hosts # {} /\ Sups # {}
  /\ Scenarios \subseteq
       [cmds : [Clients -> Commands], open : BOOLEAN, up : BOOLEAN,
        policy : {"detached", "stop_on_last_lease"}, autostart : BOOLEAN, startable : BOOLEAN,
        signal : BOOLEAN, faults : Nat]
  /\ \A s \in Scenarios : s.up => s.open

Command(cmd) == [cmd |-> cmd, pc |-> "begin", target |-> Nobody, sup |-> Nobody]
Ended == {"done", "failed", "killed"}

Answering == record # Nobody /\ Open(record)

At(c, pc) == client[c].pc = pc
Move(c, pc) == client' = [client EXCEPT ![c] = [@ EXCEPT !.pc = pc]]

Connected(c) ==
  client' = [client EXCEPT ![c] =
    [@ EXCEPT !.target = record, !.pc = IF client[c].cmd = "api-start" THEN "done" ELSE "request"]]

Connect(c) ==
  /\ At(c, "begin") /\ client[c].cmd \notin {"api-stop", "api-status"}
  /\ Answering
  /\ Connected(c)
  /\ UNCHANGED <<conf, hosts, sup, record, faults, clash>>

\* nobody answers where the record says: a host is spawned, detached
Spawn(c) ==
  /\ At(c, "begin") /\ client[c].cmd \notin {"api-stop", "api-status"}
  /\ ~Answering
  /\ \E h \in Hosts : hosts[h].st = "unborn"
  /\ LET h == CHOOSE h \in Hosts : hosts[h].st = "unborn"
     IN  Put(h, [hosts[h] EXCEPT !.st = "spawned"])
  /\ clash' = [clash EXCEPT !.twice = @ \/ \E h \in Hosts : Alive(h)]
  /\ Move(c, "polling")
  /\ UNCHANGED <<conf, sup, record, faults>>

Polled(c) ==
  /\ At(c, "polling") /\ Answering
  /\ Connected(c)
  /\ UNCHANGED <<conf, hosts, sup, record, faults, clash>>

\* twenty seconds
PollTimesOut(c) ==
  /\ At(c, "polling") /\ ~Answering
  /\ Move(c, "failed")
  /\ UNCHANGED <<conf, hosts, sup, record, faults, clash>>

Status(c) ==
  /\ At(c, "begin") /\ client[c].cmd = "api-status"
  /\ Move(c, IF record = Nobody \/ Answering THEN "done" ELSE "failed")
  /\ UNCHANGED <<conf, hosts, sup, record, faults, clash>>

FindToStop(c) ==
  /\ At(c, "begin") /\ client[c].cmd = "api-stop"
  /\ client' = [client EXCEPT ![c] =
       [@ EXCEPT !.target = record, !.pc = IF record = Nobody THEN "done" ELSE "request"]]
  /\ UNCHANGED <<conf, hosts, sup, record, faults, clash>>

-----------------------------------------------------------------------------
\* Requests.  A host that took over the port does not know the token.

Reaches(c) == client[c].target \in Endpoint(hosts[client[c].target].port)

Unreached(c) ==
  /\ At(c, "request") /\ ~Reaches(c)
  /\ Move(c, "failed")
  /\ UNCHANGED <<conf, hosts, sup, record, faults, clash>>

Mutate(c) ==
  /\ At(c, "request") /\ Reaches(c) /\ client[c].cmd \in Mutations
  /\ Put(client[c].target, [hosts[client[c].target] EXCEPT !.queue = Append(@, c)])
  /\ Move(c, "waiting")
  /\ UNCHANGED <<conf, sup, record, faults, clash>>

AskShutdown(c) ==
  /\ At(c, "request") /\ Reaches(c) /\ client[c].cmd = "api-stop"
  /\ Put(client[c].target, [hosts[client[c].target] EXCEPT !.shut = TRUE])
  /\ Move(c, "clearing")
  /\ UNCHANGED <<conf, sup, record, faults, clash>>

\* api stop removes the record, whatever it says by now
Clear(c) ==
  /\ At(c, "clearing")
  /\ ClearRecord(client[c].target)
  /\ Move(c, "done")
  /\ UNCHANGED <<conf, hosts, sup, faults>>

\* the call waits while the policy stops main, which it does first
Await(c, rec) ==
  client' = [client EXCEPT ![c] =
    [@ EXCEPT !.pc = "held", !.sup = IF Enforced(rec) THEN rec.main ELSE Nobody]]

\* main status, and the first half of creating a lease
Evict(c) ==
  /\ At(c, "request") /\ Reaches(c) /\ client[c].cmd \in {"main-status", "interactive"}
  /\ LET rec == Evicted(hosts[client[c].target])
     IN  Enforce(client[c].target, rec) /\ Await(c, rec)
  /\ UNCHANGED <<conf, record, faults, clash>>

Held(c) ==
  LET h == client[c].target
      rec == hosts[h]
  IN  /\ At(c, "held") /\ Alive(h)
      /\ client[c].sup = Nobody \/ rec.main # client[c].sup
      /\ IF client[c].cmd = "interactive"
         THEN Put(h, Keep([rec EXCEPT !.leases = @ \cup {c}]))
         ELSE UNCHANGED hosts
      /\ Move(c, IF client[c].cmd = "interactive" THEN "leased" ELSE "done")
      /\ UNCHANGED <<conf, sup, record, faults, clash>>

\* the connection breaks
HostGone(c) ==
  /\ client[c].pc \in {"waiting", "held"} /\ ~Alive(client[c].target)
  /\ Move(c, "failed")
  /\ UNCHANGED <<conf, hosts, sup, record, faults, clash>>

-----------------------------------------------------------------------------
\* An interactive session.

\* no heartbeat in time: the command was killed, or one was late
Expire(c) ==
  LET h == client[c].target
  IN  /\ h # Nobody /\ c \in hosts[h].leases \ hosts[h].stale
      /\ \/ At(c, "killed") /\ UNCHANGED faults
         \/ At(c, "leased") /\ faults > 0 /\ faults' = faults - 1
      /\ Put(h, [hosts[h] EXCEPT !.stale = @ \cup {c}])
      /\ UNCHANGED <<conf, sup, record, client, clash>>

\* a heartbeat evicts first, its own lease if that has expired; nobody creates it again
Heartbeat(c) ==
  LET h == client[c].target
  IN  /\ At(c, "leased") /\ Reaches(c) /\ hosts[h].stale # {}
      /\ Enforce(h, Evicted(hosts[h]))
      /\ UNCHANGED <<conf, record, client, faults, clash>>

Leave(c) ==
  LET h == client[c].target
  IN  /\ At(c, "leased") /\ Reaches(c)
      /\ Enforce(h, [hosts[h] EXCEPT !.leases = @ \ {c}, !.stale = @ \ {c}])
      /\ Move(c, "done")
      /\ UNCHANGED <<conf, record, faults, clash>>

LeaveUnheard(c) ==
  /\ At(c, "leased") /\ ~Reaches(c)
  /\ Move(c, "done")
  /\ UNCHANGED <<conf, hosts, sup, record, faults, clash>>

\* the terminal is closed: nothing is released
Quit(c) ==
  /\ At(c, "leased")
  /\ Move(c, "killed")
  /\ UNCHANGED <<conf, hosts, sup, record, faults, clash>>

-----------------------------------------------------------------------------
\* A scenario begins with no host, or with one that serves, its main up or not.

InitialHost(s, h, m, first) ==
  IF s.open /\ h = first
  THEN [Unborn EXCEPT !.st = "open", !.port = Configured, !.foreground = "waiting",
                      !.main = IF s.up THEN m ELSE Nobody]
  ELSE Unborn

ControlInit ==
  /\ conf \in Scenarios
  /\ LET first == CHOOSE h \in Hosts : TRUE
         m == CHOOSE s \in Sups : TRUE
     IN  /\ hosts = [h \in Hosts |-> InitialHost(conf, h, m, first)]
         /\ sup = [s \in Sups |-> IF conf.up /\ s = m THEN [host |-> first, st |-> "up", stray |-> FALSE]
                                  ELSE [host |-> Nobody, st |-> "unused", stray |-> FALSE]]
         /\ record = IF conf.open THEN first ELSE Nobody
  /\ client = [c \in Clients |-> Command(conf.cmds[c])]
  /\ faults = conf.faults
  /\ clash = [twice |-> FALSE, stolen |-> FALSE]

HostStep(h) ==
  \/ Tick(h) \/ Take(h) \/ StopFirst(h) \/ Stopped(h) \/ Start(h) \/ StartFails(h) \/ Works(h)
  \/ Boot(h) \/ Listen(h) \/ Shutdown(h) \/ Closed(h) \/ ForceClosed(h) \/ EndpointClosed(h)
  \/ Exit(h)

SupStep(s) == Clean(s) \/ Ready(s) \/ Respawn(s) \/ StopEnds(s)

ClientStep(c) ==
  \/ Connect(c) \/ Spawn(c) \/ Polled(c) \/ PollTimesOut(c) \/ Status(c) \/ FindToStop(c)
  \/ Unreached(c) \/ Mutate(c) \/ AskShutdown(c) \/ Clear(c) \/ Evict(c) \/ Held(c) \/ HostGone(c)
  \/ Leave(c) \/ LeaveUnheard(c)

ControlNext ==
  \/ \E c \in Clients : Heartbeat(c) \/ ClientStep(c) \/ Expire(c) \/ Quit(c)
  \/ \E h \in Hosts : HostStep(h) \/ Crash(h) \/ AdapterFails(h) \/ Signal(h)
  \/ \E s \in Sups : SupStep(s) \/ WorkerBootFails(s) \/ WorkerCrashes(s) \/ WorkerStays(s)

(***************************************************************************)
(* Fairness: a hosts's event loop runs what is due; timers fire; a worker   *)
(* that was forked ends up ready, failed or stopped; a command goes on, and *)
(* an expired lease expires.                                               *)
(***************************************************************************)
ControlSpec ==
  /\ ControlInit /\ [][ControlNext]_controlVars
  /\ \A h \in Hosts : WF_controlVars(HostStep(h))
  /\ \A s \in Sups : WF_controlVars(SupStep(s))
  /\ \A c \in Clients : WF_controlVars(ClientStep(c)) /\ WF_controlVars(At(c, "killed") /\ Expire(c))
-----------------------------------------------------------------------------
HostType ==
  [st : {"unborn", "spawned", "starting", "binding", "open", "closing", "plane", "stopped", "dead"},
   port : Hosts \cup {Configured, Nobody}, shut : BOOLEAN,
   foreground : {"starting", "waiting", "quitting"},
   queue : Seq({c \in Clients : conf.cmds[c] \in Mutations}),
   job : [op : Mutations \cup {"idle", "autostart"}, by : Clients \cup {Nobody},
          at : {"idle", "stop", "stopping", "start", "starting", "work"}, sup : Sups \cup {Nobody}],
   main : Sups \cup {Nobody}, leases : SUBSET Clients, stale : SUBSET Clients,
   kept : BOOLEAN, outlived : BOOLEAN, crashed : BOOLEAN]

SupType ==
  [host : Hosts \cup {Nobody},
   st : {"unused", "cleaning", "booting", "up", "down", "idle", "failed", "stopping", "over"},
   stray : BOOLEAN]

ClientType ==
  [cmd : Commands, target : Hosts \cup {Nobody}, sup : Sups \cup {Nobody},
   pc : Ended \cup {"begin", "polling", "request", "waiting", "held", "clearing", "leased"}]

\* main is the supervisor that the host started last and has not stopped
HostsOK ==
  /\ conf \in Scenarios
  /\ hosts \in [Hosts -> HostType]
  /\ sup \in [Sups -> SupType]
  /\ record \in Hosts \cup {Nobody}
  /\ client \in [Clients -> ClientType]
  /\ faults \in 0..conf.faults
  /\ clash \in [twice : BOOLEAN, stolen : BOOLEAN]
  /\ \A h \in Hosts : hosts[h].main # Nobody =>
       /\ sup[hosts[h].main].host = h /\ ~sup[hosts[h].main].stray
       /\ sup[hosts[h].main].st \notin {"unused", "over", "failed"}

(***************************************************************************)
(* A host that ended of itself leaves no worker behind, whatever was asked *)
(* of it while it closed (ControlApiServer.stop, ControlPlane.stop), but   *)
(* in three ways: the queue of mutations was starting main as the server   *)
(* closed, or began to, for the control plane stops what it has, once, and *)
(* does not wait for its queue (outlived); main was told to stop as the    *)
(* restart of its crashed worker was cleaning up, which forks all the      *)
(* same; or its worker did not heed SIGTERM (stray).  And while a host     *)
(* lives it runs no worker but that of its main or of the start under way, *)
(* strays again excepted.                                                  *)
(***************************************************************************)
NoWorkerLeft ==
  \A s \in Sups : Working(s) /\ ~sup[s].stray =>
    LET rec == hosts[sup[s].host]
    IN  IF rec.st = "dead" THEN rec.crashed \/ rec.outlived ELSE s \in {rec.main, rec.job.sup}

(***************************************************************************)
(* The command line finds a host that serves: the record names it until it *)
(* is asked to stop, and no longer once it has ended.  Excepted are the    *)
(* ways in which a record is lost: a host spawned while another lives      *)
(* (twice) - also one that is still on its way down after an api stop,     *)
(* which takes the new one's record with it - and an api stop or a failed  *)
(* import that removes a record not its own (stolen).                      *)
(***************************************************************************)
RecordTells ==
  \/ clash.twice \/ clash.stolen
  \/ \A h \in Hosts :
       /\ Open(h) /\ ~hosts[h].shut /\ hosts[h].foreground = "waiting" => record = h
       /\ record = h => hosts[h].st # "dead" \/ hosts[h].crashed

(***************************************************************************)
(* A main process that is up when a lease that counts is granted, or is    *)
(* started while one is held, or under the detached policy, is not stopped *)
(* before somebody asks for it, the host closes or the last lease goes,    *)
(* whoever else creates, renews, releases or lets expire a lease of his    *)
(* own (enforceLeasePolicy).                                               *)
(***************************************************************************)
MainKept ==
  \A h \in Hosts : hosts[h].kept => hosts[h].main # Nobody /\ sup[hosts[h].main].st # "stopping"

\* What the command line and the leaseholders may rely on of a host.
HostsSound == HostsOK /\ RecordTells /\ MainKept

(***************************************************************************)
(* Every command ends; a host told to stop ends, unless another host has   *)
(* taken over its port and answers its own question whether it is closed;  *)
(* main is stopped once the last lease that counts is gone.                *)
(***************************************************************************)
Rested(h) ==
  /\ hosts[h].shut \/ hosts[h].foreground = "quitting" =>
       \/ hosts[h].st = "dead"
       \/ hosts[h].st = "stopped" /\ Endpoint(hosts[h].port) # {}
  /\ Open(h) /\ StopPolicy /\ hosts[h].leases = {} => hosts[h].main = Nobody
Settles == <>[]((\A c \in Clients : client[c].pc \in Ended) /\ \A h \in Hosts : Rested(h))
=============================================================================
