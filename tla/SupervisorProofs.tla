-------------------------- MODULE SupervisorProofs --------------------------
(***************************************************************************)
(* Supervisor: what its fields say of the worker processes, and that a     *)
(* reload leaves neither a second worker that serves nor a gap, proved for *)
(* any number of forks, requests and failures; then ControlClients: that   *)
(* hosts of the Control API leave no worker behind and serve where the     *)
(* record tells, for any hosts, supervisors, commands and scenarios.       *)
(***************************************************************************)
EXTENDS Supervisor, ControlClients, NaturalsInduction, WellFoundedInduction, TLAPS

Less == {ss \in Nat \X Nat : ss[1] < ss[2]}

Live(w) == proc[w] \in {"booting", "serving"} /\ w \notin killed

\* A worker that serves, is known, and will go on.
Serves(w) ==
    proc[w] = "serving" /\ w \notin killed /\ startup[w] # None /\ startup[w].ready

\* What a worker says comes in its order: that it is ready, or failed, first of
\* all, and its exit last.
MailOf(w) ==
    /\ \A i \in 1..Len(inbox[w]) :
         /\ inbox[w][i] \in {"ready", "start_failed"} => i = 1
         /\ inbox[w][i] = "start_failed" => proc[w] = "dead"
         /\ inbox[w][i] = "exit" => i = Len(inbox[w]) /\ proc[w] = "dead"
    /\ proc[w] \in {"none", "booting"} => inbox[w] = <<>>
    /\ w \in exited => inbox[w] = <<>> /\ proc[w] = "dead"

Mail == \A w \in Workers : MailOf(w)

\* The supervisor knows each worker from its fork to its exit, and its promise
\* and timer agree with what it has heard.
KnownOf(w) ==
    /\ proc[w] = "none" => startup[w] = None /\ promise[w] = "pending" /\ w \notin killed
    /\ host # "down" /\ proc[w] # "none" /\ w \notin exited => startup[w] # None
    /\ startup[w] # None =>
         /\ w \notin exited
         /\ startup[w].ready => promise[w] # "pending" /\ ~startup[w].due
         /\ ~startup[w].ready => promise[w] # "resolved"
         /\ ~startup[w].ready /\ proc[w] = "serving" =>
               inbox[w] # <<>> /\ inbox[w][1] = "ready"
         /\ ~startup[w].ready =>
               \A i \in 1..Len(inbox[w]) : inbox[w][i] = "reload" => inbox[w][1] = "ready"
    /\ promise[w] = "rejected" => w \in killed \/ proc[w] = "dead"

Known == \A w \in Workers : KnownOf(w)

\* Who asks for a reload has been ready; its replacement is another.
Askers ==
    /\ \A i \in 1..Len(reloads) : promise[reloads[i]] # "pending"
    /\ reload.pc # "idle" => reload.asker \in Workers /\ promise[reload.asker] # "pending"
    /\ reload.pc \in {"awaiting", "stopping", "terming"} =>
         reload.child \in Workers /\ reload.child # reload.asker /\ proc[reload.child] # "none"
    /\ Replacing \in cleaning <=> reload.pc = "cleaning"
    /\ host \in {"stopping", "terming"} => target \in Workers /\ proc[target] # "none"

Beginning ==
    /\ host = "off" => /\ \A w \in Workers : proc[w] = "none"
                       /\ cleaning = {} /\ worker = None /\ first = None
    /\ FirstStart \in cleaning => first = None
    /\ first # None => proc[first] # "none"
    /\ host = "running" => first # None /\ promise[first] = "resolved"

\* Before the host stops, and with no crash.
Early == crashes = 0 /\ host \in {"starting", "running"}

Fresh ==
    Early => \A w \in Workers : promise[w] = "pending" =>
        /\ w \notin killed /\ proc[w] # "halting"
        /\ proc[w] = "dead" => inbox[w] # <<>> /\ inbox[w][1] = "start_failed"

Chosen ==
    Early /\ reload.pc = "awaiting" /\ promise[reload.child] = "resolved" => Serves(reload.child)

Begun == Early /\ first # None /\ promise[first] = "resolved"

Service ==
    Begun => \E w \in Workers :
        Serves(w) /\ (reload.pc \in {"stopping", "terming"} => w # reload.asker)

\* One request at most: it is in one place.
Asks(w, i) == inbox[w][i] = "reload"

OnlyOne ==
    \A w \in Workers : \A i \in 1..Len(inbox[w]) : Asks(w, i) =>
        /\ asked = 1 /\ reloads = <<>> /\ reload.pc = "idle"
        /\ \A v \in Workers : \A j \in 1..Len(inbox[v]) : Asks(v, j) => v = w /\ j = i

OneAsk ==
    asked <= 1 =>
        /\ asked = 0 => reloads = <<>> /\ reload.pc = "idle"
        /\ Len(reloads) <= 1
        /\ reloads # <<>> => reload.pc = "idle"
        /\ OnlyOne

Sole == Early /\ asked <= 1 /\ (first # None => promise[first] # "rejected")

\* The reload, if there is to be one, has not forked yet.
Waiting ==
    \/ asked = 0 \/ reload.pc = "cleaning" \/ reloads # <<>>
    \/ \E w \in Workers : \E i \in 1..Len(inbox[w]) : Asks(w, i)

\* At most one request, no crash and no failed start: there are the first worker
\* and, from the fork of its replacement on, that one.
OnlyStarts == cleaning \subseteq {FirstStart, Replacing}

FirstAlone ==
    /\ first = None => \A w \in Workers : proc[w] = "none"
    /\ Waiting /\ first # None =>
         /\ worker = first
         /\ \A w \in Workers : proc[w] # "none" => w = first
         /\ promise[first] = "resolved" => Serves(first)

Replaced ==
    /\ reload.pc = "awaiting" => worker = reload.asker /\ Serves(reload.asker)
    /\ reload.pc \in {"stopping", "terming"} =>
         (startup[reload.asker] # None => ~startup[reload.asker].active)

OnlyLive ==
    \A w \in Workers : Live(w) => w = worker \/ (reload.pc = "awaiting" /\ w = reload.child)

ActiveServe ==
    \A w \in Workers : startup[w] # None /\ startup[w].active =>
        Serves(w) \/ (promise[w] = "pending" /\ w = first)

Lone == Sole => OnlyStarts /\ FirstAlone /\ Replaced /\ OnlyLive /\ ActiveServe

\* The inductive invariant.
IInv ==
    /\ TypeOK /\ Mail /\ Known /\ Askers /\ Beginning
    /\ Fresh /\ Chosen /\ Service /\ OneAsk /\ Lone

-----------------------------------------------------------------------------
(* Messages: what each way of changing the inboxes does to them. *)

\* A worker's message goes to the end of its inbox.
LEMMA Saying ==
    ASSUME inbox \in [Workers -> Seq(Messages)], NEW w \in Workers, NEW m \in Messages,
           Says(w, <<m>>)
    PROVE  /\ inbox' \in [Workers -> Seq(Messages)]
           /\ \A v \in Workers : v # w => inbox'[v] = inbox[v]
           /\ Len(inbox'[w]) = Len(inbox[w]) + 1 /\ Len(inbox[w]) \in Nat
           /\ \A i \in 1..Len(inbox[w]) : inbox'[w][i] = inbox[w][i]
           /\ inbox'[w][Len(inbox[w]) + 1] = m
<1>1. inbox' = [inbox EXCEPT ![w] = inbox[w] \o <<m>>]
  BY DEF Says
<1>2. inbox[w] \in Seq(Messages) /\ <<m>> \in Seq(Messages)
  OBVIOUS
<1>3. inbox'[w] = inbox[w] \o <<m>>
  BY <1>1
<1>4. inbox[w] \o <<m>> \in Seq(Messages)
  BY <1>2
<1>5. Len(inbox[w] \o <<m>>) = Len(inbox[w]) + 1 /\ Len(inbox[w]) \in Nat
  BY <1>2
<1>6. \A i \in 1..Len(inbox[w]) : (inbox[w] \o <<m>>)[i] = inbox[w][i]
  BY <1>2
<1>7. (inbox[w] \o <<m>>)[Len(inbox[w]) + 1] = m
  BY <1>2
<1> QED
  BY <1>1, <1>3, <1>4, <1>5, <1>6, <1>7

\* What a booting worker that fails says is all that is in its inbox.
LEMMA SayingLast ==
    ASSUME inbox \in [Workers -> Seq(Messages)], NEW w \in Workers, inbox[w] = <<>>,
           Says(w, <<"start_failed", "exit">>)
    PROVE  /\ inbox' \in [Workers -> Seq(Messages)]
           /\ \A v \in Workers : v # w => inbox'[v] = inbox[v]
           /\ Len(inbox'[w]) = 2
           /\ inbox'[w][1] = "start_failed" /\ inbox'[w][2] = "exit"
<1>1. inbox' = [inbox EXCEPT ![w] = inbox[w] \o <<"start_failed", "exit">>]
  BY DEF Says
<1>2. <<"start_failed", "exit">> \in Seq(Messages)
  BY DEF Messages
<1>3. inbox[w] \o <<"start_failed", "exit">> = <<"start_failed", "exit">>
  BY <1>2
<1>4. inbox'[w] = <<"start_failed", "exit">>
  BY <1>1, <1>3
<1> QED
  BY <1>1, <1>2, <1>3, <1>4

\* What is heard is the first message, which is gone then.
LEMMA Hearsay ==
    ASSUME inbox \in [Workers -> Seq(Messages)], NEW w \in Workers, NEW m, Hears(w, m)
    PROVE  /\ inbox' \in [Workers -> Seq(Messages)]
           /\ \A v \in Workers : v # w => inbox'[v] = inbox[v]
           /\ inbox[w] # <<>> /\ inbox[w][1] = m /\ host # "down"
           /\ Len(inbox[w]) \in Nat /\ Len(inbox[w]) >= 1
           /\ Len(inbox'[w]) = Len(inbox[w]) - 1
           /\ \A i \in 1..Len(inbox'[w]) :
                i + 1 \in 1..Len(inbox[w]) /\ inbox'[w][i] = inbox[w][i + 1]
<1>1. inbox[w] \in Seq(Messages) /\ inbox[w] # <<>> /\ Head(inbox[w]) = m /\ host # "down"
  BY DEF Hears
<1>2. inbox' = [inbox EXCEPT ![w] = Tail(inbox[w])]
  BY DEF Hears
<1>3. Tail(inbox[w]) \in Seq(Messages) /\ inbox[w][1] = m
  BY <1>1
<1>4. Len(inbox[w]) \in Nat /\ Len(inbox[w]) >= 1 /\ Len(Tail(inbox[w])) = Len(inbox[w]) - 1
  BY <1>1
<1>5. \A i \in 1..Len(Tail(inbox[w])) :
        i + 1 \in 1..Len(inbox[w]) /\ Tail(inbox[w])[i] = inbox[w][i + 1]
  BY <1>1, <1>4
<1>6. inbox'[w] = Tail(inbox[w])
  BY <1>2
<1> QED
  BY <1>1, <1>2, <1>3, <1>4, <1>5, <1>6

\* A fork numbers a worker that has no process yet.
LEMMA NextForkIs ==
    ASSUME Unforked # {}
    PROVE  NextFork \in Workers /\ proc[NextFork] = "none"

<1>1. IsWellFoundedOn(Less, Nat)
  BY NatLessThanWellFounded DEF OpToRel, Less
<1>2. Unforked \in SUBSET Nat
  BY SupervisorBounds DEF Unforked, Workers
<1>3. PICK x \in Unforked : \A y \in Unforked : <<y, x>> \notin Less
  BY <1>1, <1>2, WFMin
<1>0. \A y, z \in Nat : <<y, z>> \notin Less => z <= y
  BY DEF Less
<1>4. \A y \in Unforked : x <= y
  BY <1>0, <1>2, <1>3
<1>5. NextFork \in Unforked
  BY <1>3, <1>4 DEF NextFork
<1> QED BY <1>5 DEF Unforked

-----------------------------------------------------------------------------
(* The types. *)

LEMMA Constants ==
    /\ Workers \subseteq Nat /\ None \notin Workers /\ None \notin StartupState
    /\ \A w \in Workers : Restart(w) # FirstStart /\ Restart(w) # Replacing
    /\ FirstStart # Replacing
BY SupervisorBounds, NoneAssumption DEF Workers, Restart, FirstStart, Replacing

LEMMA States ==
    /\ \A a \in BOOLEAN : [active |-> a, ready |-> FALSE, suppress |-> TRUE, due |-> TRUE]
                             \in StartupState
    /\ \A state \in StartupState :
         /\ MadeReady(state) \in StartupState
         /\ MadeReady(state).active = state.active
         /\ MadeReady(state).ready /\ ~MadeReady(state).due
         /\ [state EXCEPT !.due = FALSE] \in StartupState
         /\ [state EXCEPT !.due = FALSE].active = state.active
         /\ [state EXCEPT !.due = FALSE].ready = state.ready
BY DEF StartupState, MadeReady

\* A reload that succeeds hands over: only active changes, of the asker and the
\* replacement.
LEMMA HandedOverIs ==
    ASSUME startup \in [Workers -> StartupState \cup {None}], NEW asker, NEW child
    PROVE  /\ HandedOver(asker, child) \in [Workers -> StartupState \cup {None}]
           /\ \A w \in Workers :
                /\ HandedOver(asker, child)[w] = None <=> startup[w] = None
                /\ startup[w] # None =>
                     /\ HandedOver(asker, child)[w].ready = startup[w].ready
                     /\ HandedOver(asker, child)[w].due = startup[w].due
                     /\ w = asker /\ asker # child => ~HandedOver(asker, child)[w].active
                     /\ w # child => (HandedOver(asker, child)[w].active => startup[w].active)
<1>1. SUFFICES ASSUME NEW w \in Workers
               PROVE  /\ HandedOver(asker, child)[w] \in StartupState \cup {None}
                      /\ HandedOver(asker, child)[w] = None <=> startup[w] = None
                      /\ startup[w] # None =>
                           /\ HandedOver(asker, child)[w].ready = startup[w].ready
                           /\ HandedOver(asker, child)[w].due = startup[w].due
                           /\ w = asker /\ asker # child => ~HandedOver(asker, child)[w].active
                           /\ w # child =>
                                (HandedOver(asker, child)[w].active => startup[w].active)
  BY DEF HandedOver
<1>2. CASE startup[w] = None \/ w \notin {asker, child}
  BY <1>2 DEF HandedOver
<1>3. CASE startup[w] # None /\ w \in {asker, child}
  <2>1. PICK a \in BOOLEAN : a = (w = child)
    OBVIOUS
  <2>2. HandedOver(asker, child)[w] = [startup[w] EXCEPT !.active = a]
    BY <1>3, <2>1 DEF HandedOver
  <2>3. startup[w] \in StartupState
    BY <1>3
  <2>4. /\ [startup[w] EXCEPT !.active = a] \in StartupState
        /\ [startup[w] EXCEPT !.active = a].ready = startup[w].ready
        /\ [startup[w] EXCEPT !.active = a].due = startup[w].due
        /\ [startup[w] EXCEPT !.active = a].active = a
    BY <2>3 DEF StartupState
  <2>5. None \notin StartupState
    BY Constants
  <2> QED BY <1>3, <2>1, <2>2, <2>4, <2>5
<1> QED BY <1>2, <1>3

\* A change of a worker's startup state leaves this.worker with one.
LEMMA Restated ==
    ASSUME TypeOK, NEW w \in Workers, NEW state \in StartupState,
           startup' = [startup EXCEPT ![w] = state], worker' = worker
    PROVE  /\ startup' \in [Workers -> StartupState \cup {None}]
           /\ worker' # None => startup'[worker'] # None
           /\ startup'[w] = state
           /\ \A v \in Workers : v # w => startup'[v] = startup[v]
<1>1. state # None
  BY Constants
<1>2. startup' \in [Workers -> StartupState \cup {None}] /\ startup'[w] = state
  BY DEF TypeOK
<1>3. \A v \in Workers : v # w => startup'[v] = startup[v]
  BY DEF TypeOK
<1>4. worker # None => worker \in Workers /\ startup[worker] # None
  BY DEF TypeOK, WorkerOrNone
<1> QED BY <1>1, <1>2, <1>3, <1>4

LEMMA TypeStep == TypeOK /\ Askers /\ Beginning /\ [Next]_vars => TypeOK'
<1> SUFFICES ASSUME TypeOK, Askers, Beginning, [Next]_vars PROVE TypeOK'
  OBVIOUS
<1> USE Constants DEF TypeOK
<1>1. CASE UNCHANGED vars
  BY <1>1 DEF vars
<1>2. ASSUME NEW w \in Workers, Process(w) PROVE TypeOK'
  <2>1. CASE Boots(w)
    <3>1. inbox' \in [Workers -> Seq(Messages)]
      BY <2>1, Saying DEF Boots, Messages
    <3> QED BY <2>1, <3>1 DEF Boots, supervisor, world
  <2>2. CASE BootFails(w)
    <3>1. <<"start_failed", "exit">> \in Seq(Messages)
      BY DEF Messages
    <3>2. inbox' \in [Workers -> Seq(Messages)]
      BY <2>2, <3>1 DEF BootFails, Says
    <3>3. failures' \in 0..MaxFailures
      BY <2>2, SupervisorBounds DEF BootFails
    <3> QED BY <2>2, <3>2, <3>3 DEF BootFails, supervisor
  <2>3. CASE Crashes(w)
    <3>1. inbox' \in [Workers -> Seq(Messages)]
      BY <2>3, Saying DEF Crashes, Messages
    <3>2. crashes' \in 0..MaxCrashes
      BY <2>3, SupervisorBounds DEF Crashes
    <3> QED BY <2>3, <3>1, <3>2 DEF Crashes, supervisor
  <2>4. CASE Exits(w)
    <3>1. inbox' \in [Workers -> Seq(Messages)]
      BY <2>4, Saying DEF Exits, Messages
    <3> QED BY <2>4, <3>1 DEF Exits, supervisor, world
  <2>5. CASE AsksReload(w)
    <3>1. inbox' \in [Workers -> Seq(Messages)]
      BY <2>5, Saying DEF AsksReload, Messages
    <3> QED BY <2>5, <3>1, SupervisorBounds DEF AsksReload, supervisor
  <2>6. CASE AsksControl(w)
    <3>1. inbox' \in [Workers -> Seq(Messages)]
      BY <2>6, Saying DEF AsksControl, Messages
    <3> QED BY <2>6, <3>1, SupervisorBounds DEF AsksControl, supervisor
  <2>7. CASE Executes(w)
    <3>1. inbox' \in [Workers -> Seq(Messages)]
      BY <2>7, Saying DEF Executes, Messages
    <3> QED BY <2>7, <3>1 DEF Executes, supervisor, world
  <2> QED BY <1>2, <2>1, <2>2, <2>3, <2>4, <2>5, <2>6, <2>7 DEF Process
<1>3. ASSUME NEW w \in Workers, Hearing(w) PROVE TypeOK'
  <2>0. PICK m : Hears(w, m)
    BY <1>3 DEF Hearing, HearsReady, HearsStartFailed, HearsExit, HearsReload, HearsRequest,
                HearsExecuted
  <2>1. inbox' \in [Workers -> Seq(Messages)]
    BY <2>0, Hearsay
  <2>2. CASE HearsReady(w)
    <3>1. CASE Unready(w)
      <4>1. startup[w] \in StartupState
        BY <3>1 DEF Unready
      <4>2. MadeReady(startup[w]) \in StartupState
        BY <4>1, States
      <4>3. startup' = [startup EXCEPT ![w] = MadeReady(startup[w])]
        BY <2>2, <3>1 DEF HearsReady
      <4>4. promise' \in [Workers -> {"pending", "resolved", "rejected"}]
        BY <2>2, <3>1 DEF HearsReady
      <4>5. worker' = worker
        BY <2>2 DEF HearsReady
      <4>6. /\ startup' \in [Workers -> StartupState \cup {None}]
            /\ worker' # None => startup'[worker'] # None
        BY <4>2, <4>3, <4>5, Restated
      <4> QED BY <2>1, <2>2, <4>4, <4>6 DEF HearsReady, world
    <3>2. CASE ~Unready(w)
      BY <2>1, <2>2, <3>2 DEF HearsReady, world
    <3> QED BY <3>1, <3>2
  <2>3. CASE HearsStartFailed(w)
    <3>1. CASE Unready(w)
      <4>0. startup[w] \in StartupState
        BY <3>1 DEF Unready
      <4>1. [startup[w] EXCEPT !.due = FALSE] \in StartupState
        BY <4>0, States
      <4>2. startup' = [startup EXCEPT ![w] = [startup[w] EXCEPT !.due = FALSE]]
        BY <2>3, <3>1 DEF HearsStartFailed
      <4>3. promise' \in [Workers -> {"pending", "resolved", "rejected"}]
        <5>1. promise' = Rejected(w)
          BY <2>3, <3>1 DEF HearsStartFailed
        <5> QED BY <5>1 DEF Rejected
      <4>5. worker' = worker
        BY <2>3 DEF HearsStartFailed
      <4>6. /\ startup' \in [Workers -> StartupState \cup {None}]
            /\ worker' # None => startup'[worker'] # None
        BY <4>1, <4>2, <4>5, Restated
      <4> QED BY <2>1, <2>3, <4>3, <4>6 DEF HearsStartFailed, world
    <3>2. CASE ~Unready(w)
      BY <2>1, <2>3, <3>2 DEF HearsStartFailed, world
    <3> QED BY <3>1, <3>2
  <2>4. CASE HearsExit(w)
    <3>1. startup' = [startup EXCEPT ![w] = None]
      BY <2>4 DEF HearsExit
    <3>2. promise' \in [Workers -> {"pending", "resolved", "rejected"}]
      BY <2>4 DEF HearsExit, Rejected
    <3>3. cleaning' \subseteq Starts
      BY <2>4 DEF HearsExit, Starts
    <3> QED BY <2>1, <2>4, <3>1, <3>2, <3>3 DEF HearsExit, WorkerWithout, world, WorkerOrNone
  <2>5. CASE HearsReload(w)
    BY <2>1, <2>5 DEF HearsReload, world
  <2>6. CASE HearsRequest(w)
    BY <2>1, <2>6 DEF HearsRequest, world
  <2>7. CASE HearsExecuted(w)
    BY <2>1, <2>7 DEF HearsExecuted, world
  <2> QED BY <1>3, <2>2, <2>3, <2>4, <2>5, <2>6, <2>7 DEF Hearing
<1>4. ASSUME NEW w \in Workers, ReadyTimeout(w) PROVE TypeOK'
  <2>0. startup[w] \in StartupState
    BY <1>4 DEF ReadyTimeout
  <2>1. [startup[w] EXCEPT !.due = FALSE] \in StartupState
    BY <2>0, States
  <2>2. startup' = [startup EXCEPT ![w] = [startup[w] EXCEPT !.due = FALSE]]
    BY <1>4 DEF ReadyTimeout
  <2>3. failures' \in 0..MaxFailures
    BY <1>4, SupervisorBounds DEF ReadyTimeout
  <2>4. promise' \in [Workers -> {"pending", "resolved", "rejected"}]
    BY <1>4 DEF ReadyTimeout, Rejected
  <2>5. worker' = worker
    BY <1>4 DEF ReadyTimeout
  <2>6. /\ startup' \in [Workers -> StartupState \cup {None}]
        /\ worker' # None => startup'[worker'] # None
    BY <2>1, <2>2, <2>5, Restated
  <2> QED BY <1>4, <2>3, <2>4, <2>6 DEF ReadyTimeout
<1>5. ASSUME NEW w \in Workers, SendFails(w) PROVE TypeOK'
  <2>1. reload' = NoReload /\ reloads' = <<>>
    BY <1>5 DEF SendFails
  <2> QED BY <1>5, <2>1 DEF SendFails, NoReload, world, WorkerOrNone
<1>6. ASSUME NEW op \in Starts, Fork(op) PROVE TypeOK'
  <2>1. PICK c \in Workers : c = NextFork /\ proc[c] = "none"
    BY <1>6, NextForkIs DEF Fork
  <2>2. PICK a \in BOOLEAN : a = (op # Replacing)
    OBVIOUS
  <2>3. PICK state \in StartupState :
          state = [active |-> a, ready |-> FALSE, suppress |-> TRUE, due |-> TRUE]
    BY States
  <2>4. startup' = [startup EXCEPT ![c] = state]
    BY <1>6, <2>1, <2>2, <2>3 DEF Fork
  <2>5. startup' \in [Workers -> StartupState \cup {None}] /\ state # None
    BY <2>4
  <2>6. worker' \in WorkerOrNone /\ (worker' # None => startup'[worker'] # None)
    BY <1>6, <2>1, <2>4, <2>5 DEF Fork, WorkerOrNone
  <2>7. /\ reload' \in [pc : {"idle", "cleaning", "awaiting", "stopping", "terming"},
                        asker : WorkerOrNone, child : WorkerOrNone]
        /\ first' \in WorkerOrNone
    BY <1>6, <2>1 DEF Fork, WorkerOrNone
  <2>8. proc' \in [Workers -> {"none", "booting", "serving", "halting", "dead"}]
    BY <1>6, <2>1 DEF Fork
  <2>9. cleaning' \subseteq Starts
    BY <1>6 DEF Fork
  <2> QED BY <1>6, <2>5, <2>6, <2>7, <2>8, <2>9 DEF Fork, world
<1>7. CASE Host
  <2>1. CASE HostStart
    BY <2>1 DEF HostStart, Starts, world
  <2>2. CASE HostStarted
    BY <2>2 DEF HostStarted, world
  <2>3. CASE HostStop
    BY <2>3 DEF HostStop, Halt, world, WorkerOrNone
  <2>4. CASE HostStopTerms
    BY <2>4 DEF HostStopTerms, Term, Askers, world
  <2>5. CASE HostStopped
    BY <2>5 DEF HostStopped, ShutdownOver, Kill, Askers, world, WorkerOrNone
  <2> QED BY <1>7, <2>1, <2>2, <2>3, <2>4, <2>5 DEF Host
<1>8. CASE Reload
  <2>1. CASE ReloadBegins
    <3>1. Head(reloads) \in Workers /\ Tail(reloads) \in Seq(Workers)
      BY <2>1 DEF ReloadBegins
    <3>2. reload' = [pc |-> "cleaning", asker |-> Head(reloads), child |-> None]
      BY <2>1 DEF ReloadBegins
    <3>3. reload' \in [pc : {"idle", "cleaning", "awaiting", "stopping", "terming"},
                       asker : WorkerOrNone, child : WorkerOrNone]
      BY <3>1, <3>2 DEF WorkerOrNone
    <3>4. reloads' \in Seq(Workers) /\ cleaning' \subseteq Starts
      BY <2>1, <3>1 DEF ReloadBegins, Starts
    <3> QED BY <2>1, <3>3, <3>4 DEF ReloadBegins, world
  <2>2. CASE ReloadSettles
    <3>0. /\ startup' = startup \/ startup' = HandedOver(reload.asker, reload.child)
          /\ worker' \in {worker, None} \/ (worker' = reload.child /\ startup[reload.child] # None)
          /\ reload.child \in Workers
      BY <2>2 DEF ReloadSettles, Askers
    <3>1. /\ startup' \in [Workers -> StartupState \cup {None}]
          /\ \A w \in Workers : startup'[w] = None <=> startup[w] = None
      BY <3>0, HandedOverIs
    <3>2. worker' \in WorkerOrNone /\ (worker' # None => startup'[worker'] # None)
      BY <3>0, <3>1 DEF WorkerOrNone
    <3>3. reload' \in [pc : {"idle", "cleaning", "awaiting", "stopping", "terming"},
                       asker : WorkerOrNone, child : WorkerOrNone]
      BY <2>2 DEF ReloadSettles, NoReload, WorkerOrNone
    <3>4. proc' \in [Workers -> {"none", "booting", "serving", "halting", "dead"}]
      BY <2>2 DEF ReloadSettles, Halt
    <3> QED BY <2>2, <3>1, <3>2, <3>3, <3>4 DEF ReloadSettles, world
  <2>3. CASE ReloadTerms
    BY <2>3 DEF ReloadTerms, Term, Askers, world
  <2>4. CASE ReloadEnds
    BY <2>4 DEF ReloadEnds, ShutdownOver, Kill, Askers, NoReload, world, WorkerOrNone
  <2> QED BY <1>8, <2>1, <2>2, <2>3, <2>4 DEF Reload
<1> QED BY <1>1, <1>2, <1>3, <1>4, <1>5, <1>6, <1>7, <1>8 DEF Next

-----------------------------------------------------------------------------
(* Shutting down: what it does to the processes. *)

\* The message that a worker is to shut down, and the signals, stop processes and
\* start none; only those that have one are sent any.
LEMMA Shutting ==
    ASSUME TypeOK, NEW w \in Workers, NEW pc, proc[w] # "none",
           Halt(w) \/ ShutdownOver(w, pc)
    PROVE  /\ proc' \in [Workers -> {"none", "booting", "serving", "halting", "dead"}]
           /\ \A v \in Workers : v # w => proc'[v] = proc[v]
           /\ proc'[w] = proc[w] \/ proc'[w] = "dead" \/ (proc'[w] = "halting" /\ proc[w] # "dead")
BY DEF TypeOK, Halt, ShutdownOver, Kill

-----------------------------------------------------------------------------
(* The messages keep their order. *)

\* Only a worker that has a process is shut down.
LEMMA ShutDown ==
    ASSUME TypeOK, Known, Askers, Host \/ Reload
    PROVE  \/ proc' = proc
           \/ \E w \in Workers : proc[w] # "none" /\ (Halt(w) \/ \E pc : ShutdownOver(w, pc))
<1>1. CASE HostStart \/ HostStarted \/ HostStopTerms \/ ReloadBegins \/ ReloadTerms
  BY <1>1 DEF HostStart, HostStarted, HostStopTerms, ReloadBegins, ReloadTerms
<1>2. CASE HostStop
  <2>1. CASE worker = None
    BY <1>2, <2>1 DEF HostStop
  <2>2. CASE worker # None
    <3>1. worker \in Workers /\ startup[worker] # None /\ Halt(worker)
      BY <1>2, <2>2 DEF HostStop, TypeOK, WorkerOrNone
    <3>2. proc[worker] # "none"
      BY <3>1 DEF Known, KnownOf
    <3> QED BY <3>1, <3>2
  <2> QED BY <2>1, <2>2
<1>3. CASE HostStopped
  <2>1. ShutdownOver(target, host) /\ host \in {"stopping", "terming"}
    BY <1>3 DEF HostStopped, ShutdownOver
  <2>2. target \in Workers /\ proc[target] # "none"
    BY <2>1 DEF Askers
  <2> QED BY <2>1, <2>2
<1>4. CASE ReloadSettles \/ ReloadEnds
  <2>1. reload.pc # "idle"
    BY <1>4 DEF ReloadSettles, ReloadEnds, ShutdownOver
  <2>2. reload.asker \in Workers /\ proc[reload.asker] # "none"
    BY <2>1 DEF Askers, Known, KnownOf
  <2>3. proc' = proc \/ Halt(reload.asker) \/ ShutdownOver(reload.asker, reload.pc)
    BY <1>4 DEF ReloadSettles, ReloadEnds
  <2> QED BY <2>2, <2>3
<1> QED BY <1>1, <1>2, <1>3, <1>4 DEF Host, Reload

LEMMA SameMail ==
    ASSUME NEW v, MailOf(v), inbox'[v] = inbox[v], (v \in exited') <=> (v \in exited),
           \/ proc'[v] = proc[v]
           \/ proc[v] = "none" /\ proc'[v] = "booting"
           \/ proc'[v] = "dead"
           \/ proc[v] # "dead" /\ proc'[v] = "halting"
    PROVE  MailOf(v)'
BY DEF MailOf

\* What a worker that has a process says.
LEMMA MailSaid ==
    ASSUME TypeOK, NEW w \in Workers, NEW m \in Messages, Says(w, <<m>>), MailOf(w),
           exited' = exited, proc[w] # "dead", proc'[w] \notin {"none", "booting"},
           m = "exit" => proc'[w] = "dead",
           m # "exit" => proc'[w] = proc[w] \/ proc[w] = "booting",
           m # "start_failed", m = "ready" => proc[w] = "booting",
           m # "ready" => proc[w] # "booting" \/ proc'[w] = "dead"
    PROVE  MailOf(w)'
<1>1. /\ inbox' \in [Workers -> Seq(Messages)]
      /\ Len(inbox'[w]) = Len(inbox[w]) + 1 /\ Len(inbox[w]) \in Nat
      /\ \A i \in 1..Len(inbox[w]) : inbox'[w][i] = inbox[w][i]
      /\ inbox'[w][Len(inbox[w]) + 1] = m
  BY Saying DEF TypeOK
<1>2. w \notin exited
  BY DEF MailOf
<1>3. ASSUME NEW i \in 1..Len(inbox'[w])
      PROVE  /\ inbox'[w][i] \in {"ready", "start_failed"} => i = 1
             /\ inbox'[w][i] = "start_failed" => proc'[w] = "dead"
             /\ inbox'[w][i] = "exit" => i = Len(inbox'[w]) /\ proc'[w] = "dead"
  <2>1. CASE i \in 1..Len(inbox[w])
    <3>1. /\ inbox[w][i] \in {"ready", "start_failed"} => i = 1
          /\ inbox[w][i] # "start_failed" /\ inbox[w][i] # "exit"
      BY <2>1 DEF MailOf
    <3> QED BY <1>1, <2>1, <3>1
  <2>2. CASE i = Len(inbox[w]) + 1
    <3>1. inbox'[w][i] = m
      BY <1>1, <2>2
    <3>2. CASE m = "ready"
      <4>1. inbox[w] = <<>>
        BY <3>2 DEF MailOf
      <4> QED BY <2>2, <3>1, <3>2, <4>1
    <3>3. CASE m # "ready"
      BY <1>1, <2>2, <3>1, <3>3
    <3> QED BY <3>2, <3>3
  <2> QED BY <1>1, <2>1, <2>2
<1> QED BY <1>2, <1>3 DEF MailOf

LEMMA MailHeard ==
    ASSUME TypeOK, NEW w \in Workers, NEW m, Hears(w, m), MailOf(w), proc' = proc,
           exited' = exited \/ (m = "exit" /\ exited' = exited \cup {w})
    PROVE  MailOf(w)'
<1>1. /\ inbox' \in [Workers -> Seq(Messages)]
      /\ inbox[w] # <<>> /\ inbox[w][1] = m
      /\ Len(inbox[w]) \in Nat /\ Len(inbox[w]) >= 1
      /\ Len(inbox'[w]) = Len(inbox[w]) - 1
      /\ \A i \in 1..Len(inbox'[w]) :
           i + 1 \in 1..Len(inbox[w]) /\ inbox'[w][i] = inbox[w][i + 1]
  BY Hearsay DEF TypeOK
<1>2. w \notin exited /\ proc[w] \notin {"none", "booting"}
  BY <1>1 DEF MailOf
<1>3. ASSUME NEW i \in 1..Len(inbox'[w])
      PROVE  /\ inbox'[w][i] \in {"ready", "start_failed"} => i = 1
             /\ inbox'[w][i] = "start_failed" => proc'[w] = "dead"
             /\ inbox'[w][i] = "exit" => i = Len(inbox'[w]) /\ proc'[w] = "dead"
  <2>1. i + 1 \in 1..Len(inbox[w]) /\ inbox'[w][i] = inbox[w][i + 1] /\ i \in Nat /\ i >= 1
    BY <1>1
  <2>2. /\ inbox[w][i + 1] \in {"ready", "start_failed"} => i + 1 = 1
        /\ inbox[w][i + 1] = "exit" => i + 1 = Len(inbox[w]) /\ proc[w] = "dead"
    BY <2>1 DEF MailOf
  <2> QED BY <1>1, <2>1, <2>2
<1>4. CASE m = "exit"
  <2>0. 1 \in 1..Len(inbox[w]) /\ inbox[w][1] = "exit"
    BY <1>1, <1>4
  <2>1. Len(inbox[w]) = 1 /\ proc[w] = "dead"
    BY <2>0 DEF MailOf
  <2>2. inbox'[w] \in Seq(Messages) /\ Len(inbox'[w]) = 0
    BY <1>1, <2>1
  <2>3. inbox'[w] = <<>>
    BY <2>2
  <2> QED BY <1>2, <1>3, <2>1, <2>3 DEF MailOf
<1>5. CASE m # "exit"
  BY <1>2, <1>3, <1>5 DEF MailOf
<1> QED BY <1>4, <1>5

LEMMA MailStep == TypeOK /\ Mail /\ Known /\ Askers /\ [Next]_vars => Mail'
<1> SUFFICES ASSUME TypeOK, Mail, Known, Askers, [Next]_vars, NEW v \in Workers
             PROVE  MailOf(v)'
  BY DEF Mail
<1>0. MailOf(v)
  BY DEF Mail
<1>1. CASE UNCHANGED vars
  BY <1>0, <1>1, SameMail DEF vars
<1>2. ASSUME NEW w \in Workers, Process(w) PROVE MailOf(v)'
  <2>0. exited' = exited
    BY <1>2 DEF Process, Boots, BootFails, Crashes, Exits, AsksReload, AsksControl, Executes,
                supervisor
  <2>1. CASE v # w
    <3>1. inbox'[v] = inbox[v] /\ proc'[v] = proc[v]
      BY <1>2, <2>1 DEF Process, Boots, BootFails, Crashes, Exits, AsksReload, AsksControl,
                        Executes, Says, TypeOK
    <3> QED BY <1>0, <2>0, <3>1, SameMail
  <2>2. CASE v = w /\ BootFails(w)
    <3>1. inbox[w] = <<>> /\ w \notin exited /\ proc'[w] = "dead"
      BY <1>0, <2>2 DEF BootFails, MailOf, TypeOK
    <3>2. Len(inbox'[w]) = 2 /\ inbox'[w][1] = "start_failed" /\ inbox'[w][2] = "exit"
      BY <2>2, <3>1, SayingLast DEF BootFails, TypeOK
    <3> QED BY <2>0, <2>2, <3>1, <3>2 DEF MailOf
  <2>3. CASE v = w /\ ~BootFails(w)
    <3>1. CASE Boots(w)
      <4>1. proc[w] = "booting" /\ proc'[w] = "serving" /\ Says(w, <<"ready">>)
        BY <3>1 DEF Boots, TypeOK
      <4> QED BY <1>0, <2>0, <2>3, <4>1, MailSaid DEF Messages
    <3>2. CASE Crashes(w) \/ Exits(w)
      <4>1. proc[w] # "dead" /\ proc'[w] = "dead" /\ Says(w, <<"exit">>)
        BY <3>2 DEF Crashes, Exits, TypeOK
      <4> QED BY <1>0, <2>0, <2>3, <4>1, MailSaid DEF Messages
    <3>3. CASE AsksReload(w) \/ AsksControl(w) \/ Executes(w)
      <4>1. PICK m \in {"reload", "request", "executed"} :
              Says(w, <<m>>) /\ proc' = proc /\ proc[w] \in {"serving", "halting"}
        BY <3>3 DEF AsksReload, AsksControl, Executes
      <4> QED BY <1>0, <2>0, <2>3, <4>1, MailSaid DEF Messages
    <3> QED BY <1>2, <2>3, <3>1, <3>2, <3>3 DEF Process
  <2> QED BY <2>1, <2>2, <2>3
<1>3. ASSUME NEW w \in Workers, Hearing(w) PROVE MailOf(v)'
  <2>1. PICK m : Hears(w, m) /\ (exited' = exited \/ (m = "exit" /\ exited' = exited \cup {w}))
    BY <1>3 DEF Hearing, HearsReady, HearsStartFailed, HearsExit, HearsReload, HearsRequest,
                HearsExecuted
  <2>2. proc' = proc
    BY <1>3 DEF Hearing, HearsReady, HearsStartFailed, HearsExit, HearsReload, HearsRequest,
                HearsExecuted
  <2>3. CASE v = w
    BY <1>0, <2>1, <2>2, <2>3, MailHeard
  <2>4. CASE v # w
    <3>1. inbox'[v] = inbox[v] /\ ((v \in exited') <=> (v \in exited))
      BY <2>1, <2>4 DEF Hears, TypeOK
    <3> QED BY <1>0, <2>2, <3>1, SameMail
  <2> QED BY <2>3, <2>4
<1>4. ASSUME NEW w \in Workers, ReadyTimeout(w) \/ SendFails(w) PROVE MailOf(v)'
  BY <1>0, <1>4, SameMail DEF ReadyTimeout, SendFails
<1>5. ASSUME NEW op \in Starts, Fork(op) PROVE MailOf(v)'
  <2>1. PICK c \in Workers : c = NextFork /\ proc[c] = "none"
    BY <1>5, NextForkIs DEF Fork
  <2>2. proc'[v] = proc[v] \/ (proc[v] = "none" /\ proc'[v] = "booting")
    BY <1>5, <2>1 DEF Fork, TypeOK
  <2>3. inbox' = inbox /\ exited' = exited
    BY <1>5 DEF Fork
  <2> QED BY <1>0, <2>2, <2>3, SameMail
<1>6. CASE Host \/ Reload
  <2>1. inbox' = inbox /\ exited' = exited
    BY <1>6 DEF Host, HostStart, HostStarted, HostStop, HostStopTerms, HostStopped, Reload,
                ReloadBegins, ReloadSettles, ReloadTerms, ReloadEnds
  <2>2. \/ proc' = proc
        \/ \E w \in Workers : proc[w] # "none" /\ (Halt(w) \/ \E pc : ShutdownOver(w, pc))
    BY <1>6, ShutDown
  <2>3. CASE proc' = proc
    BY <1>0, <2>1, <2>3, SameMail
  <2>4. ASSUME NEW w \in Workers, proc[w] # "none", NEW pc, Halt(w) \/ ShutdownOver(w, pc)
        PROVE MailOf(v)'
    <3>1. \/ proc'[v] = proc[v] \/ proc'[v] = "dead"
          \/ proc'[v] = "halting" /\ proc[v] # "dead"
      BY <2>4, Shutting
    <3> QED BY <1>0, <2>1, <3>1, SameMail
  <2> QED BY <2>2, <2>3, <2>4
<1> QED BY <1>1, <1>2, <1>3, <1>4, <1>5, <1>6 DEF Next

-----------------------------------------------------------------------------
(* The supervisor knows its workers. *)

\* What a step of the host or of a reload may do to a worker.
LEMMA HostOrReload ==
    ASSUME TypeOK, Known, Askers, Host \/ Reload, NEW v \in Workers
    PROVE  /\ inbox' = inbox /\ exited' = exited /\ promise' = promise
           /\ host' = "down" <=> host = "down"
           /\ \/ proc'[v] = proc[v]
              \/ proc[v] # "none" /\ proc'[v] = "dead"
              \/ proc[v] \notin {"none", "dead"} /\ proc'[v] = "halting"
           /\ v \in killed => v \in killed'
           /\ v \in killed' => v \in killed \/ proc[v] # "none"
           /\ startup'[v] = None <=> startup[v] = None
           /\ startup[v] # None =>
                startup'[v].ready = startup[v].ready /\ startup'[v].due = startup[v].due
<1>1. inbox' = inbox /\ exited' = exited /\ promise' = promise
  BY DEF Host, HostStart, HostStarted, HostStop, HostStopTerms, HostStopped, Reload,
         ReloadBegins, ReloadSettles, ReloadTerms, ReloadEnds
<1>3. \/ proc'[v] = proc[v]
      \/ proc[v] # "none" /\ proc'[v] = "dead"
      \/ proc[v] \notin {"none", "dead"} /\ proc'[v] = "halting"
  <2>1. CASE proc' = proc
    BY <2>1
  <2>2. ASSUME NEW w \in Workers, proc[w] # "none", NEW pc, Halt(w) \/ ShutdownOver(w, pc)
        PROVE  \/ proc'[v] = proc[v]
               \/ proc[v] # "none" /\ proc'[v] = "dead"
               \/ proc[v] \notin {"none", "dead"} /\ proc'[v] = "halting"
    BY <2>2, Shutting
  <2> QED BY <2>1, <2>2, ShutDown
<1>4. (v \in killed => v \in killed') /\ (v \in killed' => v \in killed \/ proc[v] # "none")
  <2>1. CASE HostStopTerms \/ HostStopped
    <3>1. target \in Workers /\ proc[target] # "none"
      BY <2>1 DEF HostStopTerms, HostStopped, Term, ShutdownOver, Askers
    <3>2. killed' = killed \/ killed' = killed \cup {target}
      BY <2>1 DEF HostStopTerms, HostStopped, Term, ShutdownOver
    <3> QED BY <3>1, <3>2
  <2>2. CASE ReloadTerms \/ ReloadEnds
    <3>1. reload.asker \in Workers /\ promise[reload.asker] # "pending"
      BY <2>2 DEF ReloadTerms, ReloadEnds, Term, ShutdownOver, Askers
    <3>2. killed' = killed \/ killed' = killed \cup {reload.asker}
      BY <2>2 DEF ReloadTerms, ReloadEnds, Term, ShutdownOver
    <3>3. proc[reload.asker] # "none"
      BY <3>1 DEF Known, KnownOf
    <3> QED BY <3>2, <3>3
  <2>3. CASE HostStart \/ HostStarted \/ HostStop \/ ReloadBegins \/ ReloadSettles
    BY <2>3 DEF HostStart, HostStarted, HostStop, ReloadBegins, ReloadSettles
  <2> QED BY <2>1, <2>2, <2>3 DEF Host, Reload
<1>5. /\ startup'[v] = None <=> startup[v] = None
      /\ startup[v] # None =>
           startup'[v].ready = startup[v].ready /\ startup'[v].due = startup[v].due
  <2>1. CASE ReloadSettles
    <3>1. startup' = startup \/ startup' = HandedOver(reload.asker, reload.child)
      BY <2>1 DEF ReloadSettles
    <3> QED BY <3>1, HandedOverIs DEF TypeOK
  <2>2. CASE ~ReloadSettles
    BY <2>2 DEF Host, HostStart, HostStarted, HostStop, HostStopTerms, HostStopped, Reload,
                ReloadBegins, ReloadTerms, ReloadEnds
  <2> QED BY <2>1, <2>2
<1>6. host' = "down" <=> host = "down"
  BY DEF Host, HostStart, HostStarted, HostStop, HostStopTerms, HostStopped, Term,
         ShutdownOver, Reload, ReloadBegins, ReloadSettles, ReloadTerms, ReloadEnds
<1> QED BY <1>1, <1>3, <1>4, <1>5, <1>6

LEMMA SameKnown ==
    ASSUME NEW v, KnownOf(v), inbox'[v] = inbox[v], promise'[v] = promise[v],
           (v \in exited') <=> (v \in exited),
           v \in killed => v \in killed', v \in killed' => v \in killed \/ proc[v] # "none",
           host' # "down" => host # "down",
           \/ proc'[v] = proc[v]
           \/ proc[v] # "none" /\ proc'[v] = "dead"
           \/ proc[v] \notin {"none", "dead"} /\ proc'[v] = "halting",
           startup'[v] = None <=> startup[v] = None,
           startup[v] # None =>
             startup'[v].ready = startup[v].ready /\ startup'[v].due = startup[v].due
    PROVE  KnownOf(v)'
<1>1. KnownOf(v)!1'
  BY DEF KnownOf
<1>2. KnownOf(v)!2'
  BY DEF KnownOf
<1>3. KnownOf(v)!3'
  BY DEF KnownOf
<1>4. KnownOf(v)!4'
  BY DEF KnownOf
<1> QED BY <1>1, <1>2, <1>3, <1>4 DEF KnownOf

\* A message that leaves the process as it is, or is its last, changes nothing of
\* what is known of the worker.
LEMMA KnownSaid ==
    ASSUME TypeOK, NEW w \in Workers, KnownOf(w), NEW m \in Messages, Says(w, <<m>>),
           UNCHANGED supervisor, proc[w] # "none",
           m \in {"ready", "reload"} => proc'[w] = "serving",
           m = "ready" => inbox[w] = <<>>,
           proc'[w] \in {proc[w], "dead"} \/ m = "ready",
           m = "reload" => proc[w] = "serving",
           proc[w] = "dead" => proc'[w] = "dead"
    PROVE  KnownOf(w)'
<1>1. /\ inbox' \in [Workers -> Seq(Messages)]
      /\ Len(inbox'[w]) = Len(inbox[w]) + 1 /\ Len(inbox[w]) \in Nat
      /\ \A i \in 1..Len(inbox[w]) : inbox'[w][i] = inbox[w][i]
      /\ inbox'[w][Len(inbox[w]) + 1] = m
  BY Saying DEF TypeOK
<1>2. /\ startup' = startup /\ promise' = promise /\ exited' = exited /\ killed' = killed
      /\ host' = host
  BY DEF supervisor
<1>3. inbox'[w] # <<>>
  BY <1>1
<1>4. inbox[w] # <<>> => inbox'[w][1] = inbox[w][1]
  <2>1. inbox[w] # <<>> => 1 \in 1..Len(inbox[w])
    BY DEF TypeOK
  <2> QED BY <1>1, <2>1
<1>5. m = "ready" => inbox'[w][1] = "ready"
  BY <1>1
<1>6. ASSUME startup[w] # None, ~startup[w].ready
      PROVE  /\ proc'[w] = "serving" => inbox'[w][1] = "ready"
             /\ \A i \in 1..Len(inbox'[w]) : inbox'[w][i] = "reload" => inbox'[w][1] = "ready"
  <2>1. CASE m = "ready"
    BY <1>5, <2>1
  <2>2. CASE m # "ready"
    <3>1. proc'[w] = "serving" => inbox'[w][1] = "ready"
      BY <1>4, <1>6, <2>2 DEF KnownOf
    <3>2. ASSUME NEW i \in 1..Len(inbox'[w]), inbox'[w][i] = "reload"
          PROVE  inbox'[w][1] = "ready"
      <4>1. CASE i \in 1..Len(inbox[w])
        <5>1. inbox[w][i] = "reload" /\ inbox[w] # <<>>
          BY <1>1, <3>2, <4>1 DEF TypeOK
        <5>2. inbox[w][1] = "ready"
          BY <1>6, <4>1, <5>1 DEF KnownOf
        <5> QED BY <1>4, <5>1, <5>2
      <4>2. CASE i = Len(inbox[w]) + 1
        BY <1>1, <3>1, <3>2, <4>2
      <4> QED BY <1>1, <4>1, <4>2
    <3> QED BY <3>1, <3>2
  <2> QED BY <2>1, <2>2
<1>7. proc'[w] # "none"
  OBVIOUS
<1>8. promise[w] = "rejected" => w \in killed \/ proc'[w] = "dead"
  BY DEF KnownOf
<1> QED BY <1>2, <1>3, <1>6, <1>7, <1>8 DEF KnownOf

\* A worker whose first message is not that it is ready has been ready, or never
\* will be.
LEMMA NotReady ==
    ASSUME TypeOK, NEW w \in Workers, KnownOf(w), NEW m, Hears(w, m), m # "ready",
           startup[w] # None, ~startup[w].ready
    PROVE  /\ proc[w] # "serving" /\ m # "reload"
           /\ \A i \in 1..Len(inbox'[w]) : inbox'[w][i] # "reload"
<1>1. /\ inbox[w] # <<>> /\ inbox[w][1] = m /\ Len(inbox[w]) \in Nat /\ Len(inbox[w]) >= 1
      /\ \A i \in 1..Len(inbox'[w]) :
           i + 1 \in 1..Len(inbox[w]) /\ inbox'[w][i] = inbox[w][i + 1]
  BY Hearsay DEF TypeOK
<1>2. \A i \in 1..Len(inbox[w]) : inbox[w][i] # "reload"
  BY <1>1 DEF KnownOf
<1>3. proc[w] # "serving"
  BY <1>1 DEF KnownOf
<1>4. 1 \in 1..Len(inbox[w])
  BY <1>1
<1> QED BY <1>1, <1>2, <1>3, <1>4

LEMMA KnownHeard ==
    ASSUME TypeOK, Mail, NEW w \in Workers, KnownOf(w), Hearing(w)
    PROVE  KnownOf(w)'
<1>0. PICK m : Hears(w, m)
  BY DEF Hearing, HearsReady, HearsStartFailed, HearsExit, HearsReload, HearsRequest,
         HearsExecuted
<1>1. inbox[w] # <<>> /\ inbox[w][1] = m /\ host # "down" /\ 1 \in 1..Len(inbox[w])
  BY <1>0, Hearsay DEF TypeOK
<1>2. w \notin exited /\ proc[w] \notin {"none", "booting"} /\ startup[w] # None
  <2>1. MailOf(w)
    BY DEF Mail
  <2>2. w \notin exited /\ proc[w] \notin {"none", "booting"}
    BY <1>1, <2>1 DEF MailOf
  <2> QED BY <1>1, <2>2 DEF KnownOf
<1>3. startup[w] \in StartupState
  BY <1>2 DEF TypeOK
<1>4. proc' = proc /\ killed' = killed /\ host' = host
  BY DEF Hearing, HearsReady, HearsStartFailed, HearsExit, HearsReload, HearsRequest,
         HearsExecuted
<1>5. CASE HearsReady(w)
  <2>1. exited' = exited
    BY <1>5 DEF HearsReady
  <2>2. CASE startup[w].ready
    <3>1. startup' = startup /\ promise' = promise
      BY <1>5, <2>2 DEF HearsReady, Unready
    <3> QED BY <1>2, <1>4, <2>1, <2>2, <3>1 DEF KnownOf
  <2>3. CASE ~startup[w].ready
    <3>1. startup'[w] = MadeReady(startup[w])
      BY <1>2, <1>5, <2>3 DEF HearsReady, Unready, TypeOK
    <3>0. /\ MadeReady(startup[w]) \in StartupState
          /\ MadeReady(startup[w]).ready /\ ~MadeReady(startup[w]).due
      BY <1>3, States
    <3>2. startup'[w].ready /\ ~startup'[w].due /\ startup'[w] # None
      BY <3>0, <3>1, Constants
    <3>3. promise'[w] # "pending" /\ (promise'[w] = "rejected" => promise[w] = "rejected")
      BY <1>2, <1>5, <2>3 DEF HearsReady, Unready, TypeOK
    <3> QED BY <1>2, <1>4, <2>1, <3>2, <3>3 DEF KnownOf
  <2> QED BY <2>2, <2>3
<1>6. CASE HearsStartFailed(w)
  <2>0. m = "start_failed" /\ proc[w] = "dead"
    <3>1. m = "start_failed"
      BY <1>0, <1>6 DEF HearsStartFailed, Hears
    <3> QED BY <1>1, <3>1 DEF Mail, MailOf
  <2>1. exited' = exited
    BY <1>6 DEF HearsStartFailed
  <2>2. CASE startup[w].ready
    <3>1. startup' = startup /\ promise' = promise
      BY <1>6, <2>2 DEF HearsStartFailed, Unready
    <3> QED BY <1>2, <1>4, <2>1, <2>2, <3>1 DEF KnownOf
  <2>3. CASE ~startup[w].ready
    <3>1. startup'[w] = [startup[w] EXCEPT !.due = FALSE]
      BY <1>2, <1>6, <2>3 DEF HearsStartFailed, Unready, TypeOK
    <3>2. ~startup'[w].ready /\ startup'[w] # None
      BY <1>3, <2>3, <3>1, States, Constants
    <3>3. promise'[w] # "resolved"
      BY <1>2, <1>6, <2>3 DEF HearsStartFailed, Unready, Rejected, KnownOf, TypeOK
    <3>4. \A i \in 1..Len(inbox'[w]) : inbox'[w][i] # "reload"
      BY <1>0, <1>2, <2>0, <2>3, NotReady
    <3> QED BY <1>2, <1>4, <2>0, <2>1, <3>2, <3>3, <3>4 DEF KnownOf
  <2> QED BY <2>2, <2>3
<1>7. CASE HearsExit(w)
  <2>1. m = "exit" /\ proc[w] = "dead"
    <3>1. m = "exit"
      BY <1>0, <1>7 DEF HearsExit, Hears
    <3> QED BY <1>1, <3>1 DEF Mail, MailOf
  <2>2. startup'[w] = None /\ w \in exited'
    BY <1>7 DEF HearsExit, TypeOK
  <2> QED BY <1>4, <2>1, <2>2 DEF KnownOf
<1>8. CASE HearsReload(w) \/ HearsRequest(w) \/ HearsExecuted(w)
  <2>1. startup' = startup /\ promise' = promise /\ exited' = exited /\ m # "ready"
    BY <1>0, <1>8 DEF HearsReload, HearsRequest, HearsExecuted, Hears
  <2>2. CASE startup[w].ready
    BY <1>2, <1>4, <2>1, <2>2 DEF KnownOf
  <2>3. CASE ~startup[w].ready
    <3>1. proc[w] # "serving" /\ \A i \in 1..Len(inbox'[w]) : inbox'[w][i] # "reload"
      BY <1>0, <1>2, <2>1, <2>3, NotReady
    <3> QED BY <1>2, <1>4, <2>1, <2>3, <3>1 DEF KnownOf
  <2> QED BY <2>2, <2>3
<1> QED BY <1>5, <1>6, <1>7, <1>8 DEF Hearing

\* What a fork does.
LEMMA Forking ==
    ASSUME TypeOK, NEW op \in Starts, Fork(op)
    PROVE  \E c \in Workers :
             /\ proc[c] = "none" /\ proc' = [proc EXCEPT ![c] = "booting"]
             /\ startup'[c] # None /\ ~startup'[c].ready
             /\ startup'[c].active <=> op # Replacing
             /\ \A v \in Workers : v # c => startup'[v] = startup[v]
             /\ worker' = (IF op = Replacing THEN worker ELSE c)
             /\ first' = (IF op = FirstStart THEN c ELSE first)
             /\ reload' = (IF op = Replacing THEN [reload EXCEPT !.pc = "awaiting", !.child = c]
                           ELSE reload)
<1>1. PICK c \in Workers : c = NextFork /\ proc[c] = "none"
  BY NextForkIs DEF Fork
<1>2. PICK a \in BOOLEAN : a = (op # Replacing)
  OBVIOUS
<1>3. PICK state \in StartupState :
        state = [active |-> a, ready |-> FALSE, suppress |-> TRUE, due |-> TRUE]
  BY States
<1>4. startup' = [startup EXCEPT ![c] = state]
  BY <1>1, <1>2, <1>3 DEF Fork
<1>5. startup'[c] = state /\ \A v \in Workers : v # c => startup'[v] = startup[v]
  BY <1>4 DEF TypeOK
<1>6. state # None /\ ~state.ready /\ (state.active <=> op # Replacing)
  BY <1>2, <1>3, Constants
<1>7. /\ proc' = [proc EXCEPT ![c] = "booting"]
      /\ worker' = (IF op = Replacing THEN worker ELSE c)
      /\ first' = (IF op = FirstStart THEN c ELSE first)
      /\ reload' = (IF op = Replacing THEN [reload EXCEPT !.pc = "awaiting", !.child = c]
                    ELSE reload)
  BY <1>1 DEF Fork
<1> QED BY <1>1, <1>5, <1>6, <1>7

LEMMA ForkAwaits == TypeOK /\ Fork(Replacing) => reload'.pc = "awaiting"
<1> SUFFICES ASSUME TypeOK, Fork(Replacing) PROVE reload'.pc = "awaiting"
  OBVIOUS
<1>1. PICK op \in Starts : op = Replacing
  BY DEF Starts
<1>2. PICK c \in Workers : reload' = [reload EXCEPT !.pc = "awaiting", !.child = c]
  <2>1. Fork(op)
    BY <1>1
  <2> QED BY <1>1, <2>1, Forking
<1> QED BY <1>2 DEF TypeOK

LEMMA KnownStep == TypeOK /\ Mail /\ Known /\ Askers /\ [Next]_vars => Known'
<1> SUFFICES ASSUME TypeOK, Mail, Known, Askers, [Next]_vars, NEW v \in Workers
             PROVE  KnownOf(v)'
  BY DEF Known
<1>0. KnownOf(v) /\ MailOf(v)
  BY DEF Known, Mail
<1>1. CASE UNCHANGED vars
  BY <1>0, <1>1, SameKnown DEF vars
<1>2. ASSUME NEW w \in Workers, Process(w) PROVE KnownOf(v)'
  <2>0. UNCHANGED supervisor
    BY <1>2 DEF Process, Boots, BootFails, Crashes, Exits, AsksReload, AsksControl, Executes,
                supervisor
  <2>1. CASE v # w
    <3>1. inbox'[v] = inbox[v] /\ proc'[v] = proc[v]
      BY <1>2, <2>1 DEF Process, Boots, BootFails, Crashes, Exits, AsksReload, AsksControl,
                        Executes, Says, TypeOK
    <3> QED BY <1>0, <2>0, <3>1, SameKnown DEF supervisor
  <2>2. CASE v = w /\ BootFails(w)
    <3>1. inbox[w] = <<>> /\ proc'[w] = "dead" /\ proc[w] = "booting"
      BY <1>0, <2>2 DEF BootFails, MailOf, TypeOK
    <3>2. Len(inbox'[w]) = 2 /\ inbox'[w][1] = "start_failed" /\ inbox'[w][2] = "exit"
      BY <2>2, <3>1, SayingLast DEF BootFails, TypeOK
    <3>3. \A i \in 1..Len(inbox'[w]) : inbox'[w][i] # "reload"
      BY <3>2
    <3> QED BY <1>0, <2>0, <2>2, <3>1, <3>3 DEF KnownOf, supervisor
  <2>3. CASE v = w /\ ~BootFails(w)
    <3>1. CASE Boots(w)
      <4>1. proc[w] = "booting" /\ proc'[w] = "serving" /\ Says(w, <<"ready">>)
        BY <3>1 DEF Boots, TypeOK
      <4>2. inbox[w] = <<>>
        BY <1>0, <2>3, <4>1 DEF MailOf
      <4> QED BY <1>0, <2>0, <2>3, <4>1, <4>2, KnownSaid DEF Messages
    <3>2. CASE Crashes(w) \/ Exits(w)
      <4>1. proc[w] \notin {"none", "dead"} /\ proc'[w] = "dead" /\ Says(w, <<"exit">>)
        BY <3>2 DEF Crashes, Exits, TypeOK
      <4> QED BY <1>0, <2>0, <2>3, <4>1, KnownSaid DEF Messages
    <3>3. CASE AsksReload(w)
      <4>1. Says(w, <<"reload">>) /\ proc' = proc /\ proc[w] = "serving"
        BY <3>3 DEF AsksReload
      <4> QED BY <1>0, <2>0, <2>3, <4>1, KnownSaid DEF Messages
    <3>4. CASE AsksControl(w) \/ Executes(w)
      <4>1. PICK m \in {"request", "executed"} :
              Says(w, <<m>>) /\ proc' = proc /\ proc[w] \in {"serving", "halting"}
        BY <3>4 DEF AsksControl, Executes
      <4> QED BY <1>0, <2>0, <2>3, <4>1, KnownSaid DEF Messages
    <3> QED BY <1>2, <2>3, <3>1, <3>2, <3>3, <3>4 DEF Process
  <2> QED BY <2>1, <2>2, <2>3
<1>3. ASSUME NEW w \in Workers, Hearing(w) PROVE KnownOf(v)'
  <2>1. CASE v = w
    BY <1>0, <1>3, <2>1, KnownHeard
  <2>2. CASE v # w
    <3>1. inbox'[v] = inbox[v] /\ ((v \in exited') <=> (v \in exited))
      BY <1>3, <2>2 DEF Hearing, HearsReady, HearsStartFailed, HearsExit, HearsReload,
                        HearsRequest, HearsExecuted, Hears, TypeOK
    <3>2. promise'[v] = promise[v] /\ startup'[v] = startup[v]
      BY <1>3, <2>2 DEF Hearing, HearsReady, HearsStartFailed, HearsExit, HearsReload,
                        HearsRequest, HearsExecuted, Rejected, TypeOK
    <3>3. proc' = proc /\ killed' = killed /\ host' = host
      BY <1>3 DEF Hearing, HearsReady, HearsStartFailed, HearsExit, HearsReload,
                  HearsRequest, HearsExecuted
    <3> QED BY <1>0, <3>1, <3>2, <3>3, SameKnown
  <2> QED BY <2>1, <2>2
<1>4. ASSUME NEW w \in Workers, ReadyTimeout(w) PROVE KnownOf(v)'
  <2>1. startup[w] \in StartupState /\ startup[w] # None /\ startup[w].due
    BY <1>4 DEF ReadyTimeout, TypeOK
  <2>2. ~startup[w].ready /\ proc[w] # "none"
    BY <2>1 DEF Known, KnownOf
  <2>3. startup'[w] = [startup[w] EXCEPT !.due = FALSE]
    BY <1>4 DEF ReadyTimeout, TypeOK
  <2>4. ~startup'[w].ready /\ startup'[w] # None
    BY <2>1, <2>2, <2>3, States, Constants
  <2>5. /\ proc' = proc /\ inbox' = inbox /\ exited' = exited /\ host' = host
        /\ killed' = killed \cup {w}
    BY <1>4 DEF ReadyTimeout
  <2>6. CASE v = w
    <3>1. promise'[w] # "resolved"
      BY <1>0, <1>4, <2>1, <2>2, <2>6 DEF ReadyTimeout, Rejected, KnownOf, TypeOK
    <3> QED BY <1>0, <2>1, <2>2, <2>4, <2>5, <2>6, <3>1 DEF KnownOf
  <2>7. CASE v # w
    <3>1. promise'[v] = promise[v] /\ startup'[v] = startup[v]
      BY <1>4, <2>7 DEF ReadyTimeout, Rejected, TypeOK
    <3> QED BY <1>0, <2>5, <2>7, <3>1, SameKnown
  <2> QED BY <2>6, <2>7
<1>5. ASSUME NEW w \in Workers, SendFails(w) PROVE KnownOf(v)'
  <2>1. startup'[v] = None /\ host' = "down"
    BY <1>5 DEF SendFails
  <2>2. promise' = promise /\ proc' = proc /\ killed' = killed
    BY <1>5 DEF SendFails
  <2> QED BY <1>0, <2>1, <2>2 DEF KnownOf
<1>6. ASSUME NEW op \in Starts, Fork(op) PROVE KnownOf(v)'
  <2>1. PICK c \in Workers :
             /\ proc[c] = "none" /\ proc' = [proc EXCEPT ![c] = "booting"]
             /\ startup'[c] # None /\ ~startup'[c].ready
             /\ \A u \in Workers : u # c => startup'[u] = startup[u]
    BY <1>6, Forking
  <2>2. /\ inbox' = inbox /\ exited' = exited /\ host' = host
        /\ killed' = killed /\ promise' = promise
    BY <1>6 DEF Fork
  <2>3. CASE v = c
    <3>1. inbox[v] = <<>> /\ v \notin exited /\ promise[v] = "pending"
      BY <1>0, <2>1, <2>3 DEF MailOf, KnownOf
    <3>2. proc'[v] = "booting"
      BY <2>1, <2>3 DEF TypeOK
    <3> QED BY <2>1, <2>2, <2>3, <3>1, <3>2 DEF KnownOf
  <2>4. CASE v # c
    <3>1. proc'[v] = proc[v] /\ startup'[v] = startup[v]
      BY <2>1, <2>4 DEF TypeOK
    <3> QED BY <1>0, <2>2, <3>1, SameKnown
  <2> QED BY <2>3, <2>4
<1>7. CASE Host \/ Reload
  BY <1>0, <1>7, HostOrReload, SameKnown
<1> QED BY <1>1, <1>2, <1>3, <1>4, <1>5, <1>6, <1>7 DEF Next

-----------------------------------------------------------------------------
(* Who asks, and how the supervisor begins. *)

\* A promise that is settled stays as it is.
LEMMA PromisesKept ==
    ASSUME TypeOK, [Next]_vars, NEW v \in Workers, promise[v] # "pending"
    PROVE  promise'[v] = promise[v]
BY DEF Next, vars, Process, Boots, BootFails, Crashes, Exits, AsksReload, AsksControl, Executes,
       supervisor, Hearing, HearsReady, HearsStartFailed, HearsExit, HearsReload, HearsRequest,
       HearsExecuted, ReadyTimeout, SendFails, Rejected, Fork, Host, HostStart, HostStarted,
       HostStop, HostStopTerms, HostStopped, Reload, ReloadBegins, ReloadSettles, ReloadTerms,
       ReloadEnds, TypeOK

\* A worker that has a process keeps one, if only a dead one.
LEMMA ForkedOnce ==
    ASSUME TypeOK, Known, Askers, [Next]_vars, NEW v \in Workers, proc[v] # "none"
    PROVE  proc'[v] # "none"
<1>1. CASE Host \/ Reload
  BY <1>1, HostOrReload
<1>2. ASSUME NEW op \in Starts, Fork(op) PROVE proc'[v] # "none"
  BY <1>2, Forking DEF TypeOK
<1>3. ASSUME NEW w \in Workers, Process(w) \/ Hearing(w) \/ ReadyTimeout(w) \/ SendFails(w)
      PROVE  proc'[v] # "none"
  BY <1>3 DEF Process, Boots, BootFails, Crashes, Exits, AsksReload, AsksControl, Executes,
              Hearing, HearsReady, HearsStartFailed, HearsExit, HearsReload, HearsRequest,
              HearsExecuted, ReadyTimeout, SendFails, TypeOK
<1>4. CASE UNCHANGED vars
  BY <1>4 DEF vars
<1> QED BY <1>1, <1>2, <1>3, <1>4 DEF Next

\* A worker that the supervisor hears ask for a reload has been ready.
LEMMA ReadyFirst ==
    ASSUME TypeOK, Mail, Known, NEW w \in Workers, Hears(w, "reload")
    PROVE  promise[w] # "pending" /\ startup[w] # None /\ startup[w].ready
<1>1. KnownOf(w) /\ MailOf(w)
  BY DEF Known, Mail
<1>2. inbox[w] # <<>> /\ host # "down"
  BY DEF Hears
<1>3. startup[w] # None
  BY <1>1, <1>2 DEF MailOf, KnownOf
<1>4. startup[w].ready
  BY <1>1, <1>3, NotReady
<1> QED BY <1>1, <1>3, <1>4 DEF KnownOf

LEMMA AskersStep == TypeOK /\ Mail /\ Known /\ Askers /\ [Next]_vars => Askers'
<1> SUFFICES ASSUME TypeOK, Mail, Known, Askers, [Next]_vars PROVE Askers'
  OBVIOUS
<1>1. \A v \in Workers : promise[v] # "pending" => promise'[v] = promise[v] /\ proc[v] # "none"
  BY PromisesKept DEF Known, KnownOf
<1>2. \A v \in Workers : proc[v] # "none" => proc'[v] # "none"
  BY ForkedOnce
<1>3. \A i \in 1..Len(reloads) : reloads[i] \in Workers
  BY DEF TypeOK
<1>4. CASE reloads' = reloads /\ reload' = reload /\ (Replacing \in cleaning' <=> Replacing \in cleaning)
           /\ (host' \in {"stopping", "terming"} =>
                 host \in {"stopping", "terming"} /\ target' = target)
  BY <1>1, <1>2, <1>3, <1>4 DEF Askers
<1>5. CASE \E w \in Workers : HearsReload(w)
  <2>1. PICK w \in Workers : HearsReload(w)
    BY <1>5
  <2>2. Hears(w, "reload") /\ reloads' = Append(reloads, w)
    BY <2>1 DEF HearsReload
  <2>3. promise[w] # "pending"
    BY <2>2, ReadyFirst
  <2>4. \A i \in 1..Len(reloads') : promise'[reloads'[i]] # "pending"
    <3> SUFFICES ASSUME NEW i \in 1..Len(reloads') PROVE promise'[reloads'[i]] # "pending"
      OBVIOUS
    <3>1. reloads \in Seq(Workers) /\ Len(reloads) \in Nat
      BY DEF TypeOK
    <3>2. CASE i \in 1..Len(reloads)
      <4>1. reloads'[i] = reloads[i]
        BY <2>2, <3>1, <3>2
      <4> QED BY <1>1, <1>3, <3>2, <4>1 DEF Askers
    <3>3. CASE i = Len(reloads) + 1
      <4>1. reloads'[i] = w
        BY <2>2, <3>1, <3>3
      <4> QED BY <1>1, <2>3, <4>1
    <3> QED BY <2>2, <3>1, <3>2, <3>3
  <2>5. reload' = reload /\ cleaning' = cleaning /\ host' = host /\ target' = target
    BY <2>1 DEF HearsReload
  <2> QED BY <1>1, <1>2, <2>4, <2>5 DEF Askers
<1>6. CASE Reload
  <2>1. CASE ReloadBegins
    <3>1. reloads \in Seq(Workers) /\ reloads # <<>> /\ reloads' = Tail(reloads)
      BY <2>1 DEF ReloadBegins, TypeOK
    <3>2. \A i \in 1..Len(reloads') : i + 1 \in 1..Len(reloads) /\ reloads'[i] = reloads[i + 1]
      BY <3>1
    <3>3. \A i \in 1..Len(reloads') : promise'[reloads'[i]] # "pending"
      BY <1>1, <1>3, <3>2 DEF Askers
    <3>4. Head(reloads) = reloads[1] /\ 1 \in 1..Len(reloads)
      BY <3>1
    <3>5. Head(reloads) \in Workers /\ promise'[Head(reloads)] # "pending"
      BY <1>1, <1>3, <3>4 DEF Askers
    <3>6. /\ reload'.pc = "cleaning" /\ reload'.asker = Head(reloads)
          /\ cleaning' = cleaning \cup {Replacing} /\ host' = host /\ target' = target
      BY <2>1 DEF ReloadBegins
    <3> QED BY <1>1, <1>2, <3>3, <3>5, <3>6 DEF Askers
  <2>2. CASE ReloadSettles \/ ReloadTerms \/ ReloadEnds
    <3>1. /\ reloads' = reloads /\ cleaning' = cleaning /\ host' = host /\ target' = target
          /\ reload.pc \in {"awaiting", "stopping", "terming"}
      BY <2>2 DEF ReloadSettles, ReloadTerms, ReloadEnds, Term, ShutdownOver
    <3>2. \/ reload'.pc = "idle"
          \/ /\ reload'.pc \in {"stopping", "terming"}
             /\ reload'.asker = reload.asker /\ reload'.child = reload.child
      BY <2>2 DEF ReloadSettles, ReloadTerms, ReloadEnds, NoReload, TypeOK
    <3> QED BY <1>1, <1>2, <1>3, <3>1, <3>2 DEF Askers
  <2> QED BY <1>6, <2>1, <2>2 DEF Reload
<1>7. CASE \E op \in Starts : Fork(op)
  <2>1. PICK op \in Starts : Fork(op)
    BY <1>7
  <2>2. /\ cleaning' = cleaning \ {op} /\ op \in cleaning /\ host' = host /\ target' = target
        /\ reloads' = reloads
    BY <2>1 DEF Fork
  <2>3. CASE op # Replacing
    BY <1>4, <2>1, <2>2, <2>3 DEF Fork
  <2>4. CASE op = Replacing
    <3>1. PICK c \in Workers :
            /\ proc[c] = "none" /\ proc' = [proc EXCEPT ![c] = "booting"]
            /\ reload' = [reload EXCEPT !.pc = "awaiting", !.child = c]
      BY <2>1, <2>4, Forking
    <3>2. reload'.pc = "awaiting" /\ reload'.child = c /\ reload'.asker = reload.asker
      BY <3>1 DEF TypeOK
    <3>3. reload.pc = "cleaning"
      BY <2>2, <2>4 DEF Askers
    <3>4. promise[c] = "pending" /\ proc'[c] # "none"
      BY <3>1 DEF Known, KnownOf, TypeOK
    <3> QED BY <1>1, <1>2, <1>3, <2>2, <2>4, <3>2, <3>3, <3>4 DEF Askers
  <2> QED BY <2>3, <2>4
<1>8. CASE HostStop
  <2>1. /\ host' = "stopped" \/ (worker # None /\ target' = worker)
        /\ reloads' = reloads /\ reload' = reload /\ cleaning' = cleaning
    BY <1>8 DEF HostStop
  <2>2. worker # None => worker \in Workers /\ proc[worker] # "none"
    BY DEF TypeOK, WorkerOrNone, Known, KnownOf
  <2> QED BY <1>1, <1>2, <1>3, <2>1, <2>2 DEF Askers
<1>9. CASE HostStopTerms \/ HostStopped \/ HostStart \/ HostStarted
  <2>1. /\ reloads' = reloads /\ reload' = reload
        /\ Replacing \in cleaning' <=> Replacing \in cleaning
    BY <1>9, Constants DEF HostStopTerms, HostStopped, HostStart, HostStarted
  <2>2. host' \in {"stopping", "terming"} => host \in {"stopping", "terming"} /\ target' = target
    BY <1>9 DEF HostStopTerms, HostStopped, HostStart, HostStarted, Term
  <2> QED BY <1>4, <2>1, <2>2
<1>10. ASSUME NEW w \in Workers, SendFails(w) PROVE Askers'
  <2>1. reload'.pc = "idle" /\ reloads' = <<>> /\ cleaning' = {} /\ host' = "down"
    BY <1>10 DEF SendFails, NoReload
  <2> QED BY <2>1 DEF Askers
<1>11. ASSUME NEW w \in Workers, Process(w) \/ ReadyTimeout(w) \/ (Hearing(w) /\ ~HearsReload(w))
       PROVE  Askers'
  <2>1. /\ reloads' = reloads /\ reload' = reload /\ host' = host /\ target' = target
        /\ cleaning' = cleaning \/ cleaning' = cleaning \cup {Restart(w)}
    BY <1>11 DEF Process, Boots, BootFails, Crashes, Exits, AsksReload, AsksControl, Executes,
                 supervisor, Hearing, HearsReady, HearsStartFailed, HearsExit, HearsRequest,
                 HearsExecuted, ReadyTimeout
  <2> QED BY <1>4, <2>1, Constants
<1>12. CASE UNCHANGED vars
  BY <1>4, <1>12 DEF vars
<1> QED BY <1>5, <1>6, <1>7, <1>8, <1>9, <1>10, <1>11, <1>12 DEF Next, Host

\* Without a worker, nothing happens but a start.
LEMMA NothingRuns ==
    ASSUME TypeOK, Mail, Known, Askers, Beginning, Next, \A w \in Workers : proc[w] = "none"
    PROVE  HostStart \/ \E op \in Starts : op # Replacing /\ Fork(op)
<1>1. /\ \A w \in Workers : proc[w] = "none" /\ promise[w] = "pending" /\ startup[w] = None
                            /\ inbox[w] = <<>> /\ w \notin killed
      /\ first = None /\ worker = None
  BY DEF Beginning, Known, KnownOf, Mail, MailOf, TypeOK, WorkerOrNone
<1>2. reload.pc = "idle"
  BY <1>1 DEF Askers
<1>3. reloads = <<>>
  <2>1. reloads \in Seq(Workers)
    BY DEF TypeOK
  <2>2. CASE reloads # <<>>
    <3>1. 1 \in 1..Len(reloads) /\ reloads[1] \in Workers
      BY <2>1, <2>2
    <3> QED BY <1>1, <3>1 DEF Askers
  <2> QED BY <2>2
<1>4. ~Reload
  BY <1>2, <1>3 DEF Reload, ReloadBegins, ReloadSettles, ReloadTerms, ReloadEnds, Term,
                    ShutdownOver
<1>5. \A w \in Workers : ~Process(w) /\ ~Hearing(w) /\ ~ReadyTimeout(w)
  BY <1>1 DEF Process, Boots, BootFails, Crashes, Exits, AsksReload, AsksControl, Executes,
              Hearing, HearsReady, HearsStartFailed, HearsExit, HearsReload, HearsRequest,
              HearsExecuted, Hears, ReadyTimeout
<1>6. \A w \in Workers : ~SendFails(w)
  BY <1>1 DEF SendFails
<1>7. ~Fork(Replacing)
  BY <1>2 DEF Fork, Askers
<1>8. Host => HostStart
  BY <1>1 DEF Host, HostStart, HostStarted, HostStop, HostStopTerms, HostStopped, Term,
              ShutdownOver, Askers, Beginning
<1> QED BY <1>4, <1>5, <1>6, <1>7, <1>8 DEF Next

\* Before the host starts the supervisor there is no worker.
LEMMA OnlyStart ==
    ASSUME TypeOK, Mail, Known, Askers, Beginning, Next, host = "off"
    PROVE  HostStart
<1>1. cleaning = {} /\ \A w \in Workers : proc[w] = "none"
  BY DEF Beginning
<1>2. \A op \in Starts : ~Fork(op)
  BY <1>1 DEF Fork
<1> QED BY <1>1, <1>2, NothingRuns

\* The first worker is chosen once.
LEMMA FirstKept ==
    ASSUME TypeOK, Beginning, [Next]_vars, first # None
    PROVE  first' = first
<1>1. ASSUME NEW op \in Starts, Fork(op) PROVE first' = first
  BY <1>1 DEF Fork, Beginning
<1> QED
  BY <1>1 DEF Next, vars, Process, Boots, BootFails, Crashes, Exits, AsksReload, AsksControl,
       Executes, supervisor, Hearing, HearsReady, HearsStartFailed, HearsExit, HearsReload,
       HearsRequest, HearsExecuted, ReadyTimeout, SendFails, Host, HostStart, HostStarted,
       HostStop, HostStopTerms, HostStopped, Reload, ReloadBegins, ReloadSettles, ReloadTerms,
       ReloadEnds

LEMMA BeginningStep == TypeOK /\ Mail /\ Known /\ Askers /\ Beginning /\ [Next]_vars => Beginning'
<1> SUFFICES ASSUME TypeOK, Mail, Known, Askers, Beginning, [Next]_vars PROVE Beginning'
  OBVIOUS
<1>1. CASE UNCHANGED vars
  BY <1>1 DEF vars, Beginning
<1>2. CASE Next /\ host = "off"
  <2>1. HostStart
    BY <1>2, OnlyStart
  <2> QED BY <1>2, <2>1 DEF HostStart, Beginning
<1>3. CASE Next /\ host # "off"
  <2>1. host' # "off"
    BY <1>3 DEF Next, Process, Boots, BootFails, Crashes, Exits, AsksReload, AsksControl,
       Executes, supervisor, Hearing, HearsReady, HearsStartFailed, HearsExit, HearsReload,
       HearsRequest, HearsExecuted, ReadyTimeout, SendFails, Host, HostStart, HostStarted,
       HostStop, HostStopTerms, HostStopped, Reload, ReloadBegins, ReloadSettles, ReloadTerms,
       ReloadEnds, Fork
  <2>2. CASE \E op \in Starts : Fork(op)
    <3>1. PICK op \in Starts : Fork(op)
      BY <2>2
    <3>2. PICK c \in Workers :
             /\ proc[c] = "none" /\ proc' = [proc EXCEPT ![c] = "booting"]
             /\ first' = (IF op = FirstStart THEN c ELSE first)
      BY <3>1, Forking
    <3>3. /\ op \in cleaning /\ cleaning' = cleaning \ {op} /\ host' = host
          /\ promise' = promise
      BY <3>1 DEF Fork
    <3>4. \A v \in Workers : proc[v] # "none" => proc'[v] # "none"
      BY ForkedOnce
    <3>5. proc'[c] # "none"
      BY <3>2 DEF TypeOK
    <3>6. first # None => first \in Workers
      BY DEF TypeOK, WorkerOrNone
    <3>7. CASE op = FirstStart
      BY <2>1, <3>2, <3>3, <3>5, <3>7 DEF Beginning
    <3>8. CASE op # FirstStart
      BY <2>1, <3>2, <3>3, <3>4, <3>6, <3>8 DEF Beginning
    <3> QED BY <3>7, <3>8
  <2>3. CASE ~\E op \in Starts : Fork(op)
    <3>1. first' = first /\ (FirstStart \in cleaning' => FirstStart \in cleaning)
      BY <1>3, <2>3, Constants
         DEF Next, Process, Boots, BootFails, Crashes, Exits, AsksReload, AsksControl,
         Executes, supervisor, Hearing, HearsReady, HearsStartFailed, HearsExit, HearsReload,
         HearsRequest, HearsExecuted, ReadyTimeout, SendFails, Host, HostStart, HostStarted,
         HostStop, HostStopTerms, HostStopped, Reload, ReloadBegins, ReloadSettles, ReloadTerms,
         ReloadEnds
    <3>2. host' = "running" => first # None /\ promise[first] = "resolved"
      BY <1>3, <2>3
         DEF Next, Process, Boots, BootFails, Crashes, Exits, AsksReload, AsksControl,
         Executes, supervisor, Hearing, HearsReady, HearsStartFailed, HearsExit, HearsReload,
         HearsRequest, HearsExecuted, ReadyTimeout, SendFails, Host, HostStart, HostStarted,
         HostStop, HostStopTerms, HostStopped, Reload, ReloadBegins, ReloadSettles, ReloadTerms,
         ReloadEnds, Beginning
    <3>3. first # None => first \in Workers
      BY DEF TypeOK, WorkerOrNone
    <3>4. first # None => proc'[first] # "none"
      BY <3>3, ForkedOnce DEF Beginning
    <3>5. host' = "running" => promise'[first] = "resolved"
      BY <3>2, <3>3, PromisesKept
    <3> QED BY <2>1, <3>1, <3>2, <3>4, <3>5 DEF Beginning
  <2> QED BY <2>2, <2>3
<1> QED BY <1>1, <1>2, <1>3

-----------------------------------------------------------------------------
(* A single request is in one place. *)

\* No step but AsksReload puts a request to reload in an inbox.
LEMMA AsksKept ==
    ASSUME TypeOK, Mail, [Next]_vars, \A w \in Workers : ~AsksReload(w), NEW v \in Workers
    PROVE  \E d \in {0, 1} : \A j \in 1..Len(inbox'[v]) :
             Asks(v, j)' => j + d \in 1..Len(inbox[v]) /\ Asks(v, j + d)
<1>0. Len(inbox[v]) \in Nat
  BY DEF TypeOK
<1>1. CASE inbox'[v] = inbox[v]
  <2>1. \A j \in 1..Len(inbox'[v]) : Asks(v, j)' => j + 0 \in 1..Len(inbox[v]) /\ Asks(v, j + 0)
    BY <1>0, <1>1 DEF Asks
  <2> QED BY <2>1
<1>2. ASSUME NEW m, Hears(v, m)
      PROVE  \A j \in 1..Len(inbox'[v]) :
               Asks(v, j)' => j + 1 \in 1..Len(inbox[v]) /\ Asks(v, j + 1)
  BY <1>2, Hearsay DEF TypeOK, Asks
<1>3. ASSUME NEW m \in Messages, m # "reload", Says(v, <<m>>)
      PROVE  \A j \in 1..Len(inbox'[v]) :
               Asks(v, j)' => j + 0 \in 1..Len(inbox[v]) /\ Asks(v, j + 0)
  <2>1. /\ Len(inbox'[v]) = Len(inbox[v]) + 1
        /\ \A i \in 1..Len(inbox[v]) : inbox'[v][i] = inbox[v][i]
        /\ inbox'[v][Len(inbox[v]) + 1] = m
    BY <1>3, Saying DEF TypeOK
  <2> QED BY <1>0, <1>3, <2>1 DEF Asks
<1>4. ASSUME BootFails(v)
      PROVE  \A j \in 1..Len(inbox'[v]) : ~Asks(v, j)'
  <2>1. inbox[v] = <<>>
    BY <1>4 DEF BootFails, Mail, MailOf
  <2>2. Len(inbox'[v]) = 2 /\ inbox'[v][1] = "start_failed" /\ inbox'[v][2] = "exit"
    BY <1>4, <2>1, SayingLast DEF BootFails, TypeOK
  <2> QED BY <2>2 DEF Asks
<1>5. \/ inbox'[v] = inbox[v] \/ (\E m : Hears(v, m))
      \/ (\E m \in Messages : m # "reload" /\ Says(v, <<m>>)) \/ BootFails(v)
  <2>1. ASSUME NEW w \in Workers, Process(w), w # v PROVE inbox'[v] = inbox[v]
    BY <2>1 DEF Process, Boots, BootFails, Crashes, Exits, AsksReload, AsksControl, Executes,
                Says, TypeOK
  <2>2. ASSUME Process(v), ~BootFails(v)
        PROVE  \E m \in Messages : m # "reload" /\ Says(v, <<m>>)
    BY <2>2 DEF Process, Boots, Crashes, Exits, AsksReload, AsksControl, Executes, Messages
  <2>3. ASSUME NEW w \in Workers, Hearing(w), w # v PROVE inbox'[v] = inbox[v]
    BY <2>3 DEF Hearing, HearsReady, HearsStartFailed, HearsExit, HearsReload, HearsRequest,
                HearsExecuted, Hears, TypeOK
  <2>4. ASSUME Hearing(v) PROVE \E m : Hears(v, m)
    BY <2>4 DEF Hearing, HearsReady, HearsStartFailed, HearsExit, HearsReload, HearsRequest,
                HearsExecuted
  <2>5. ASSUME UNCHANGED vars \/ Host \/ Reload \/ (\E op \in Starts : Fork(op))
               \/ \E w \in Workers : ReadyTimeout(w) \/ SendFails(w)
        PROVE  inbox' = inbox
    BY <2>5 DEF vars, Host, HostStart, HostStarted, HostStop, HostStopTerms, HostStopped, Reload,
                ReloadBegins, ReloadSettles, ReloadTerms, ReloadEnds, Fork, ReadyTimeout,
                SendFails
  <2> QED BY <2>1, <2>2, <2>3, <2>4, <2>5 DEF Next
<1> QED BY <1>1, <1>2, <1>3, <1>4, <1>5

\* The requests in the inboxes are no more after any other step.
LEMMA AlikeAsks ==
    ASSUME TypeOK, Mail, [Next]_vars, \A w \in Workers : ~AsksReload(w),
           \A w \in Workers : \A i \in 1..Len(inbox[w]) : Asks(w, i) =>
             \A v \in Workers : \A j \in 1..Len(inbox[v]) : Asks(v, j) => v = w /\ j = i
    PROVE  \A w \in Workers : \A i \in 1..Len(inbox'[w]) : Asks(w, i)' =>
             /\ \E k \in 1..Len(inbox[w]) : Asks(w, k)
             /\ \A v \in Workers : \A j \in 1..Len(inbox'[v]) : Asks(v, j)' => v = w /\ j = i
<1> SUFFICES ASSUME NEW w \in Workers, NEW i \in 1..Len(inbox'[w]), Asks(w, i)'
             PROVE  /\ \E k \in 1..Len(inbox[w]) : Asks(w, k)
                    /\ \A v \in Workers : \A j \in 1..Len(inbox'[v]) :
                         Asks(v, j)' => v = w /\ j = i
  OBVIOUS
<1>1. PICK d \in {0, 1} : \A j \in 1..Len(inbox'[w]) :
             Asks(w, j)' => j + d \in 1..Len(inbox[w]) /\ Asks(w, j + d)
  BY AsksKept
<1>2. ASSUME NEW v \in Workers, NEW j \in 1..Len(inbox'[v]), Asks(v, j)'
      PROVE  v = w /\ j = i
  <2>1. PICK e \in {0, 1} : \A k \in 1..Len(inbox'[v]) :
               Asks(v, k)' => k + e \in 1..Len(inbox[v]) /\ Asks(v, k + e)
    BY AsksKept
  <2>2. v = w
    BY <1>1, <1>2, <2>1
  <2>3. j + d \in 1..Len(inbox[w]) /\ Asks(w, j + d) /\ i + d \in 1..Len(inbox[w]) /\ Asks(w, i + d)
    BY <1>1, <1>2, <2>2
  <2>4. j + d = i + d
    BY <2>3
  <2> QED BY <2>2, <2>4
<1>3. i + d \in 1..Len(inbox[w]) /\ Asks(w, i + d)
  BY <1>1
<1> QED BY <1>2, <1>3

LEMMA OneAskStep ==
    TypeOK /\ Mail /\ Known /\ Askers /\ Beginning /\ OneAsk /\ [Next]_vars => OneAsk'
<1> SUFFICES ASSUME TypeOK, Mail, Known, Askers, Beginning, OneAsk, [Next]_vars, asked' <= 1
             PROVE  /\ asked' = 0 => reloads' = <<>> /\ reload'.pc = "idle"
                    /\ Len(reloads') <= 1
                    /\ reloads' # <<>> => reload'.pc = "idle"
                    /\ OnlyOne'
  BY DEF OneAsk
<1>0. asked' = asked \/ asked' = asked + 1
  BY DEF Next, vars, world, Process, Boots, BootFails, Crashes, Exits, AsksReload, AsksControl,
         Executes, supervisor, Hearing, HearsReady, HearsStartFailed, HearsExit, HearsReload,
         HearsRequest, HearsExecuted, ReadyTimeout, SendFails, Fork, Host, HostStart, HostStarted,
         HostStop, HostStopTerms, HostStopped, Reload, ReloadBegins, ReloadSettles, ReloadTerms,
         ReloadEnds
<1>1. asked \in Nat /\ asked' \in Nat /\ asked <= 1
  BY <1>0, SupervisorBounds DEF TypeOK
<1>2. /\ asked = 0 => reloads = <<>> /\ reload.pc = "idle"
      /\ Len(reloads) <= 1 /\ (reloads # <<>> => reload.pc = "idle")
      /\ OnlyOne
  BY <1>1 DEF OneAsk
<1>3. CASE \E w \in Workers : AsksReload(w)
  <2>1. PICK w \in Workers : AsksReload(w)
    BY <1>3
  <2>2. asked = 0 /\ asked' = 1 /\ reloads' = reloads /\ reload' = reload
    BY <1>1, <2>1 DEF AsksReload, supervisor
  <2>3. \A v \in Workers : \A i \in 1..Len(inbox[v]) : ~Asks(v, i)
    BY <1>2, <2>2 DEF OnlyOne
  <2>4. /\ \A v \in Workers : v # w => inbox'[v] = inbox[v]
        /\ Len(inbox'[w]) = Len(inbox[w]) + 1 /\ Len(inbox[w]) \in Nat
        /\ \A i \in 1..Len(inbox[w]) : inbox'[w][i] = inbox[w][i]
    BY <2>1, Saying DEF TypeOK, AsksReload, Messages
  <2>5. \A v \in Workers : \A i \in 1..Len(inbox'[v]) : Asks(v, i)' =>
          v = w /\ i = Len(inbox[w]) + 1
    BY <2>3, <2>4 DEF Asks
  <2>6. OnlyOne'
    BY <1>2, <2>2, <2>5 DEF OnlyOne
  <2> QED BY <1>2, <2>2, <2>6
<1>4. CASE ~\E w \in Workers : AsksReload(w)
  <2>1. \A w \in Workers : \A i \in 1..Len(inbox'[w]) : Asks(w, i)' =>
             /\ \E k \in 1..Len(inbox[w]) : Asks(w, k)
             /\ \A v \in Workers : \A j \in 1..Len(inbox'[v]) : Asks(v, j)' => v = w /\ j = i
    BY <1>2, <1>4, AlikeAsks DEF OnlyOne
  <2>2. ASSUME NEW w \in Workers, NEW i \in 1..Len(inbox'[w]), Asks(w, i)'
        PROVE  asked = 1 /\ reloads = <<>> /\ reload.pc = "idle" /\ asked' = 1
    BY <1>0, <1>1, <1>2, <2>1, <2>2 DEF OnlyOne
  <2>3. CASE reloads' = reloads /\ reload'.pc \in {reload.pc, "idle"}
    <3>1. OnlyOne'
      BY <2>1, <2>2, <2>3 DEF OnlyOne
    <3>2. asked' = 0 => asked = 0
      BY <1>0, <1>1
    <3> QED BY <1>2, <2>3, <3>1, <3>2
  <2>4. CASE \E w \in Workers : HearsReload(w)
    <3>1. PICK w \in Workers : HearsReload(w)
      BY <2>4
    <3>2. /\ Hears(w, "reload") /\ reloads' = Append(reloads, w) /\ reload' = reload
          /\ asked' = asked
      BY <3>1 DEF HearsReload, world
    <3>3. 1 \in 1..Len(inbox[w]) /\ Asks(w, 1)
      BY <3>2, Hearsay DEF TypeOK, Asks
    <3>4. asked = 1 /\ reloads = <<>> /\ reload.pc = "idle"
      BY <1>2, <3>3 DEF OnlyOne
    <3>5. ASSUME NEW v \in Workers, NEW i \in 1..Len(inbox'[v]), Asks(v, i)'
          PROVE  FALSE
      <4>1. CASE v = w
        <5>1. i + 1 \in 1..Len(inbox[w]) /\ inbox'[w][i] = inbox[w][i + 1] /\ i \in Nat /\ i >= 1
          BY <3>2, <3>5, <4>1, Hearsay DEF TypeOK
        <5>2. Asks(w, i + 1)
          BY <3>5, <4>1, <5>1 DEF Asks
        <5>3. i + 1 = 1
          BY <1>2, <3>3, <5>1, <5>2 DEF OnlyOne
        <5> QED BY <5>1, <5>3
      <4>2. CASE v # w
        <5>1. i \in 1..Len(inbox[v]) /\ Asks(v, i)
          BY <3>2, <3>5, <4>2, Hearsay DEF TypeOK, Asks
        <5> QED BY <1>2, <3>3, <4>2, <5>1 DEF OnlyOne
      <4> QED BY <4>1, <4>2
    <3>6. Len(reloads') = 1
      BY <3>2, <3>4
    <3> QED BY <3>2, <3>4, <3>5, <3>6 DEF OnlyOne
  <2>5. CASE ReloadBegins
    <3>1. reloads # <<>> /\ reload.pc = "idle" /\ reloads' = Tail(reloads) /\ asked' = asked
      BY <2>5 DEF ReloadBegins, world
    <3>0. reloads \in Seq(Workers) /\ Len(reloads) \in Nat /\ Len(reloads) # 0
      BY <3>1 DEF TypeOK
    <3>2. reloads \in Seq(Workers) /\ Len(reloads) = 1
      BY <1>2, <3>0
    <3>3. reloads' = <<>>
      BY <3>1, <3>2
    <3>4. OnlyOne'
      BY <2>2, <3>1 DEF OnlyOne
    <3> QED BY <1>2, <3>1, <3>3, <3>4
  <2>6. CASE ReloadSettles \/ (\E op \in Starts : Fork(op))
    <3>1. /\ reloads' = reloads /\ asked' = asked
          /\ reload' = reload \/ reload.pc # "idle"
      <4>1. CASE ReloadSettles
        BY <4>1 DEF ReloadSettles, world
      <4>2. ASSUME NEW op \in Starts, Fork(op)
            PROVE  /\ reloads' = reloads /\ asked' = asked
                   /\ reload' = reload \/ reload.pc # "idle"
        BY <4>2 DEF Fork, Askers, world
      <4> QED BY <2>6, <4>1, <4>2
    <3>2. CASE reload' = reload
      BY <2>3, <3>1, <3>2
    <3>3. CASE reload.pc # "idle"
      <4>1. reloads = <<>> /\ asked # 0
        BY <1>2, <3>3
      <4>2. OnlyOne'
        BY <2>2, <3>3 DEF OnlyOne
      <4> QED BY <3>1, <4>1, <4>2
    <3> QED BY <3>1, <3>2, <3>3
  <2>7. CASE \E w \in Workers : SendFails(w)
    <3>1. reloads' = <<>> /\ reload'.pc = "idle" /\ asked' = asked
      BY <2>7 DEF SendFails, NoReload, world
    <3>2. OnlyOne'
      BY <2>1, <2>2, <3>1 DEF OnlyOne
    <3> QED BY <3>1, <3>2
  <2>8. CASE ReloadTerms \/ ReloadEnds
    <3>1. reloads' = reloads /\ asked' = asked /\ reload.pc # "idle"
      BY <2>8 DEF ReloadTerms, ReloadEnds, Term, ShutdownOver, world
    <3>2. reloads = <<>> /\ asked # 0
      BY <1>2, <3>1
    <3>3. OnlyOne'
      BY <2>2, <3>1 DEF OnlyOne
    <3> QED BY <3>1, <3>2, <3>3
  <2>9. CASE \/ UNCHANGED vars \/ Host
             \/ \E w \in Workers : Process(w) \/ ReadyTimeout(w) \/ (Hearing(w) /\ ~HearsReload(w))
    <3>1. reloads' = reloads /\ reload' = reload
      BY <2>9 DEF vars, Process, Boots, BootFails, Crashes, Exits, AsksReload, AsksControl,
         Executes, supervisor, Hearing, HearsReady, HearsStartFailed, HearsExit,
         HearsRequest, HearsExecuted, ReadyTimeout, Host, HostStart, HostStarted,
         HostStop, HostStopTerms, HostStopped
    <3> QED BY <2>3, <3>1
  <2> QED BY <2>4, <2>5, <2>6, <2>7, <2>8, <2>9 DEF Next, Reload
<1> QED BY <1>3, <1>4

-----------------------------------------------------------------------------
(* Workers that serve go on, before the host stops and with no crash. *)

\* How such a state comes about.
LEMMA EarlyBefore ==
    ASSUME TypeOK, Mail, Known, Askers, Beginning, [Next]_vars, Early'
    PROVE  /\ crashes = 0 /\ \A w \in Workers : ~Crashes(w) /\ ~SendFails(w)
           /\ ~HostStop /\ ~HostStopTerms /\ ~HostStopped
           /\ Early \/ HostStart
<1>1. crashes \in Nat /\ crashes' = 0 /\ (crashes' = crashes \/ crashes' = crashes + 1)
  <2>1. crashes \in Nat
    BY SupervisorBounds DEF TypeOK
  <2>2. crashes' = crashes \/ crashes' = crashes + 1
    BY DEF Next, vars, world, Process, Boots, BootFails, Crashes, Exits, AsksReload, AsksControl,
         Executes, supervisor, Hearing, HearsReady, HearsStartFailed, HearsExit, HearsReload,
         HearsRequest, HearsExecuted, ReadyTimeout, SendFails, Fork, Host, HostStart, HostStarted,
         HostStop, HostStopTerms, HostStopped, Reload, ReloadBegins, ReloadSettles, ReloadTerms,
         ReloadEnds
  <2> QED BY <2>1, <2>2 DEF Early
<1>2. crashes = 0 /\ \A w \in Workers : ~Crashes(w)
  BY <1>1 DEF Crashes
<1>3. /\ \A w \in Workers : ~SendFails(w)
      /\ ~HostStop /\ ~HostStopTerms /\ ~HostStopped
  BY DEF Early, SendFails, HostStop, HostStopTerms, HostStopped
<1>4. CASE host = "off"
  <2>1. Next
    BY <1>4 DEF Early, vars
  <2> QED BY <1>2, <1>3, <1>4, <2>1, OnlyStart
<1>5. CASE host # "off"
  <2>1. host \in {"starting", "running"}
    BY <1>5 DEF Early, Next, vars, Process, Boots, BootFails, Crashes, Exits, AsksReload,
         AsksControl, Executes, supervisor, Hearing, HearsReady, HearsStartFailed, HearsExit,
         HearsReload, HearsRequest, HearsExecuted, ReadyTimeout, SendFails, Fork, Host, HostStart,
         HostStarted, HostStop, HostStopTerms, HostStopped, Reload, ReloadBegins, ReloadSettles,
         ReloadTerms, ReloadEnds
  <2> QED BY <1>2, <1>3, <2>1 DEF Early
<1> QED BY <1>4, <1>5

\* A worker dies, is halted or is sent a signal only if it was to be, or if it
\* fails to boot or is not ready in time.
LEMMA EarlyProcess ==
    ASSUME TypeOK, Mail, Known, Askers, Beginning, [Next]_vars, Early', NEW v \in Workers,
           v \notin killed, proc[v] # "halting",
           v # reload.asker \/ ~Reload \/ (proc' = proc /\ killed' = killed)
    PROVE  /\ \/ proc'[v] = proc[v]
              \/ proc[v] = "none" /\ proc'[v] = "booting"
              \/ Boots(v) /\ proc'[v] = "serving"
              \/ BootFails(v) /\ proc'[v] = "dead"
           /\ v \notin killed' \/ ReadyTimeout(v)
<1>0. \A w \in Workers : ~Crashes(w) /\ ~SendFails(w)
  BY EarlyBefore
<1>1. CASE UNCHANGED vars
  BY <1>1 DEF vars
<1>2. ASSUME NEW w \in Workers, Process(w)
      PROVE  /\ proc'[v] = proc[v] \/ (Boots(v) /\ proc'[v] = "serving")
                \/ (BootFails(v) /\ proc'[v] = "dead")
             /\ killed' = killed
  <2>1. killed' = killed
    BY <1>2 DEF Process, Boots, BootFails, Crashes, Exits, AsksReload, AsksControl, Executes,
                supervisor
  <2>2. CASE w # v
    BY <1>2, <2>1, <2>2 DEF Process, Boots, BootFails, Crashes, Exits, AsksReload, AsksControl,
                            Executes, TypeOK
  <2>3. CASE w = v
    BY <1>0, <1>2, <2>1, <2>3 DEF Process, Boots, BootFails, Exits, AsksReload, AsksControl,
                                  Executes, TypeOK
  <2> QED BY <2>2, <2>3
<1>3. ASSUME NEW w \in Workers, Hearing(w) PROVE proc' = proc /\ killed' = killed
  BY <1>3 DEF Hearing, HearsReady, HearsStartFailed, HearsExit, HearsReload, HearsRequest,
              HearsExecuted
<1>4. ASSUME NEW w \in Workers, ReadyTimeout(w)
      PROVE  proc' = proc /\ (v \notin killed' \/ ReadyTimeout(v))
  BY <1>4 DEF ReadyTimeout
<1>5. ASSUME NEW op \in Starts, Fork(op)
      PROVE  /\ proc'[v] = proc[v] \/ (proc[v] = "none" /\ proc'[v] = "booting")
             /\ killed' = killed
  <2>1. PICK c \in Workers : proc[c] = "none" /\ proc' = [proc EXCEPT ![c] = "booting"]
    BY <1>5, Forking
  <2>2. killed' = killed
    BY <1>5 DEF Fork
  <2> QED BY <2>1, <2>2 DEF TypeOK
<1>6. CASE Host
  BY <1>6, EarlyBefore DEF Host, HostStart, HostStarted
<1>7. CASE Reload /\ v # reload.asker
  BY <1>7 DEF Reload, ReloadBegins, ReloadSettles, ReloadTerms, ReloadEnds, Halt, Term,
              ShutdownOver, Kill, TypeOK
<1>8. CASE Reload /\ proc' = proc /\ killed' = killed
  BY <1>8
<1> QED BY <1>0, <1>1, <1>2, <1>3, <1>4, <1>5, <1>6, <1>7, <1>8 DEF Next

\* A worker's startup state, once it is ready, goes only with the worker.
LEMMA ReadyKept ==
    ASSUME TypeOK, Mail, Known, Askers, Beginning, [Next]_vars, Early', NEW v \in Workers,
           startup[v] # None, startup[v].ready, proc[v] # "dead"
    PROVE  startup'[v] # None /\ startup'[v].ready
<1>1. CASE Host \/ Reload
  BY <1>1, HostOrReload
<1>2. ASSUME NEW op \in Starts, Fork(op) PROVE startup'[v] # None /\ startup'[v].ready
  <2>1. PICK c \in Workers : proc[c] = "none" /\ \A u \in Workers : u # c => startup'[u] = startup[u]
    BY <1>2, Forking
  <2>2. v # c
    BY <2>1 DEF Known, KnownOf
  <2> QED BY <2>1, <2>2
<1>3. ASSUME NEW w \in Workers, Process(w) PROVE startup' = startup
  BY <1>3 DEF Process, Boots, BootFails, Crashes, Exits, AsksReload, AsksControl, Executes,
              supervisor
<1>4. ASSUME NEW w \in Workers, Hearing(w) PROVE startup'[v] = startup[v]
  <2>1. CASE w # v
    BY <1>4, <2>1 DEF Hearing, HearsReady, HearsStartFailed, HearsExit, HearsReload, HearsRequest,
                      HearsExecuted, TypeOK
  <2>2. CASE w = v
    <3>1. ~HearsExit(v)
      <4>1. SUFFICES ASSUME Hears(v, "exit") PROVE FALSE
        BY DEF HearsExit
      <4>2. 1 \in 1..Len(inbox[v]) /\ inbox[v][1] = "exit"
        BY <4>1, Hearsay DEF TypeOK
      <4> QED BY <4>2 DEF Mail, MailOf
    <3> QED BY <1>4, <2>2, <3>1 DEF Hearing, HearsReady, HearsStartFailed, HearsReload,
                                    HearsRequest, HearsExecuted, Unready
  <2> QED BY <2>1, <2>2
<1>5. ASSUME NEW w \in Workers, ReadyTimeout(w) PROVE startup'[v] = startup[v]
  <2>1. w # v
    BY <1>5 DEF ReadyTimeout, Known, KnownOf
  <2> QED BY <1>5, <2>1 DEF ReadyTimeout, TypeOK
<1>6. \A w \in Workers : ~SendFails(w)
  BY EarlyBefore
<1>7. CASE UNCHANGED vars
  BY <1>7 DEF vars
<1> QED BY <1>1, <1>2, <1>3, <1>4, <1>5, <1>6, <1>7 DEF Next

\* A worker that serves goes on, unless a reload replaces it.
LEMMA ServesOn ==
    ASSUME TypeOK, Mail, Known, Askers, Beginning, [Next]_vars, Early', NEW v \in Workers,
           Serves(v), v # reload.asker \/ ~Reload \/ (proc' = proc /\ killed' = killed)
    PROVE  Serves(v)'
<1>1. proc[v] = "serving" /\ v \notin killed /\ startup[v] # None /\ startup[v].ready
  BY DEF Serves
<1>2. startup'[v] # None /\ startup'[v].ready
  BY <1>1, ReadyKept
<1>3. ~ReadyTimeout(v)
  BY <1>1 DEF ReadyTimeout, Known, KnownOf
<1>4. proc'[v] = "serving" /\ v \notin killed'
  BY <1>1, <1>3, EarlyProcess DEF Boots, BootFails
<1> QED BY <1>2, <1>4 DEF Serves

LEMMA FreshStep ==
    TypeOK /\ Mail /\ Known /\ Askers /\ Beginning /\ Fresh /\ [Next]_vars => Fresh'
<1> SUFFICES ASSUME TypeOK, Mail, Known, Askers, Beginning, Fresh, [Next]_vars, Early',
                    NEW v \in Workers, promise'[v] = "pending"
             PROVE  /\ v \notin killed' /\ proc'[v] # "halting"
                    /\ proc'[v] = "dead" => inbox'[v] # <<>> /\ inbox'[v][1] = "start_failed"
  BY DEF Fresh
<1>1. promise[v] = "pending"
  BY PromisesKept
<1>2. Early \/ HostStart
  BY EarlyBefore
<1>3. CASE HostStart
  <2>1. proc[v] = "none" /\ proc' = proc /\ killed' = killed
    BY <1>3 DEF HostStart, Beginning
  <2> QED BY <2>1 DEF Known, KnownOf
<1>4. CASE Early
  <2>1. /\ v \notin killed /\ proc[v] # "halting"
        /\ proc[v] = "dead" => inbox[v] # <<>> /\ inbox[v][1] = "start_failed"
    BY <1>1, <1>4 DEF Fresh
  <2>2. v # reload.asker \/ ~Reload \/ (proc' = proc /\ killed' = killed)
    <3>1. reload.pc # "idle" => v # reload.asker
      BY <1>1 DEF Askers
    <3>2. reload.pc = "idle" /\ Reload => proc' = proc /\ killed' = killed
      BY DEF Reload, ReloadBegins, ReloadSettles, ReloadTerms, ReloadEnds, Term, ShutdownOver
    <3> QED BY <3>1, <3>2
  <2>4. ~ReadyTimeout(v)
    BY <1>1 DEF ReadyTimeout, Rejected, TypeOK
  <2>5. /\ \/ proc'[v] = proc[v]
           \/ proc[v] = "none" /\ proc'[v] = "booting"
           \/ Boots(v) /\ proc'[v] = "serving"
           \/ BootFails(v) /\ proc'[v] = "dead"
        /\ v \notin killed'
    BY <2>1, <2>2, <2>4, EarlyProcess
  <2>6. CASE BootFails(v)
    <3>1. inbox[v] = <<>>
      BY <2>6 DEF BootFails, Mail, MailOf
    <3>2. Len(inbox'[v]) = 2 /\ inbox'[v][1] = "start_failed"
      BY <2>6, <3>1, SayingLast DEF BootFails, TypeOK
    <3>3. proc'[v] = "dead"
      BY <2>6 DEF BootFails, TypeOK
    <3> QED BY <2>5, <3>2, <3>3
  <2>7. CASE proc'[v] = proc[v] /\ proc[v] = "dead"
    <3>1. inbox'[v] = inbox[v]
      <4>1. ASSUME NEW w \in Workers, Process(w) PROVE inbox'[v] = inbox[v]
        <5>1. w # v
          BY <2>7, <4>1 DEF Process, Boots, BootFails, Crashes, Exits, AsksReload, AsksControl,
                            Executes
        <5> QED BY <4>1, <5>1 DEF Process, Boots, BootFails, Crashes, Exits, AsksReload,
                                  AsksControl, Executes, Says, TypeOK
      <4>2. ASSUME NEW w \in Workers, Hearing(w), w # v PROVE inbox'[v] = inbox[v]
        BY <4>2 DEF Hearing, HearsReady, HearsStartFailed, HearsExit, HearsReload, HearsRequest,
                    HearsExecuted, Hears, TypeOK
      <4>3. ~Hearing(v)
        <5>1. SUFFICES ASSUME Hearing(v) PROVE FALSE
          OBVIOUS
        <5>2. HearsStartFailed(v)
          BY <2>1, <2>7, <5>1 DEF Hearing, HearsReady, HearsExit, HearsReload, HearsRequest,
                                  HearsExecuted, Hears, TypeOK
        <5>3. startup[v] # None /\ ~startup[v].ready
          <6>1. v \notin exited /\ host # "down"
            BY <2>1, <2>7, <1>4 DEF Mail, MailOf, Early
          <6> QED BY <1>1, <2>7, <6>1 DEF Known, KnownOf
        <5>4. promise'[v] = "rejected"
          BY <1>1, <5>2, <5>3 DEF HearsStartFailed, Unready, Rejected, TypeOK
        <5> QED BY <5>4
      <4>4. ASSUME UNCHANGED vars \/ Host \/ Reload \/ (\E op \in Starts : Fork(op))
               \/ \E w \in Workers : ReadyTimeout(w) \/ SendFails(w)
            PROVE  inbox' = inbox
        BY <4>4 DEF vars, Host, HostStart, HostStarted, HostStop, HostStopTerms, HostStopped,
                Reload, ReloadBegins, ReloadSettles, ReloadTerms, ReloadEnds, Fork, ReadyTimeout,
                SendFails
      <4> QED BY <4>1, <4>2, <4>3, <4>4 DEF Next
    <3> QED BY <2>1, <2>5, <2>7, <3>1
  <2> QED BY <2>1, <2>5, <2>6, <2>7
<1> QED BY <1>2, <1>3, <1>4

\* A promise is resolved when the worker is ready, which serves from then on.
LEMMA BecomesReady ==
    ASSUME TypeOK, Mail, Known, Askers, Beginning, Fresh, [Next]_vars, Early',
           NEW v \in Workers, promise[v] = "pending", promise'[v] = "resolved"
    PROVE  HearsReady(v) /\ Serves(v)'
<1>1. HearsReady(v)
  BY DEF Next, vars, Process, Boots, BootFails, Crashes, Exits, AsksReload, AsksControl, Executes,
       supervisor, Hearing, HearsReady, HearsStartFailed, HearsExit, HearsReload, HearsRequest,
       HearsExecuted, ReadyTimeout, SendFails, Rejected, Fork, Host, HostStart, HostStarted,
       HostStop, HostStopTerms, HostStopped, Reload, ReloadBegins, ReloadSettles, ReloadTerms,
       ReloadEnds, TypeOK
<1>2. Hears(v, "ready") /\ proc' = proc /\ killed' = killed /\ host' = host
  BY <1>1 DEF HearsReady
<1>3. Early
  BY <1>1, EarlyBefore DEF HearsReady, HostStart, Hears, TypeOK, Early
<1>4. inbox[v] # <<>> /\ inbox[v][1] = "ready"
  BY <1>2, Hearsay DEF TypeOK
<1>5. proc[v] = "serving" /\ v \notin killed
  BY <1>3, <1>4 DEF Fresh, Mail, MailOf, TypeOK
<1>6. Unready(v)
  BY <1>1 DEF HearsReady
<1>7. startup[v] \in StartupState /\ startup'[v] = MadeReady(startup[v])
  BY <1>1, <1>6 DEF HearsReady, Unready, TypeOK
<1>8. MadeReady(startup[v]).ready /\ MadeReady(startup[v]) \in StartupState
  BY <1>7, States
<1>9. startup'[v] # None /\ startup'[v].ready
  BY <1>7, <1>8, Constants
<1> QED BY <1>1, <1>2, <1>5, <1>9 DEF Serves

\* Where the reload stands after a step.
LEMMA ReloadMoves ==
    ASSUME TypeOK, [Next]_vars
    PROVE  \/ reload' = reload
           \/ reload'.pc \in {"idle", "cleaning"}
           \/ \E op \in Starts : Fork(op) /\ op = Replacing
           \/ /\ ReloadSettles \/ ReloadTerms
              /\ reload'.pc \in {"stopping", "terming"}
              /\ reload'.asker = reload.asker /\ reload'.child = reload.child
<1>1. ASSUME NEW op \in Starts, Fork(op), op # Replacing PROVE reload' = reload
  BY <1>1 DEF Fork
<1>2. CASE Reload
  BY <1>2 DEF Reload, ReloadBegins, ReloadSettles, ReloadTerms, ReloadEnds, NoReload, TypeOK
<1>3. ASSUME NEW w \in Workers, Process(w) \/ Hearing(w) \/ ReadyTimeout(w) PROVE reload' = reload
  BY <1>3 DEF Process, Boots, BootFails, Crashes, Exits, AsksReload, AsksControl, Executes,
       supervisor, Hearing, HearsReady, HearsStartFailed, HearsExit, HearsReload, HearsRequest,
       HearsExecuted, ReadyTimeout
<1>4. ASSUME NEW w \in Workers, SendFails(w) PROVE reload'.pc = "idle"
  BY <1>4 DEF SendFails, NoReload
<1>5. CASE Host \/ UNCHANGED vars
  BY <1>5 DEF vars, Host, HostStart, HostStarted, HostStop, HostStopTerms, HostStopped
<1> QED BY <1>1, <1>2, <1>3, <1>4, <1>5 DEF Next

LEMMA ChosenStep ==
    TypeOK /\ Mail /\ Known /\ Askers /\ Beginning /\ Fresh /\ Chosen /\ [Next]_vars => Chosen'
<1> SUFFICES ASSUME TypeOK, Mail, Known, Askers, Beginning, Fresh, Chosen, [Next]_vars, Early',
                    reload'.pc = "awaiting", promise'[reload'.child] = "resolved"
             PROVE  Serves(reload.child)'
  BY DEF Chosen, Serves
<1>1. CASE reload' = reload
  <2>1. PICK c \in Workers : c = reload.child /\ c # reload.asker
    BY <1>1 DEF Askers
  <2>2. CASE promise[c] = "pending"
    <3>1. Serves(c)'
      BY <1>1, <2>1, <2>2, BecomesReady
    <3> QED BY <1>1, <2>1, <3>1 DEF Serves
  <2>3. CASE promise[c] # "pending"
    <3>1. promise[c] = "resolved"
      BY <1>1, <2>1, <2>3, PromisesKept
    <3>2. Early
      BY <1>1, EarlyBefore DEF HostStart, Askers, Beginning, Known, KnownOf
    <3>3. Serves(c)
      BY <1>1, <2>1, <3>1, <3>2 DEF Chosen
    <3>4. Serves(c)'
      BY <1>1, <2>1, <3>3, ServesOn
    <3> QED BY <1>1, <2>1, <3>4 DEF Serves
  <2> QED BY <2>2, <2>3
<1>2. CASE \E op \in Starts : Fork(op) /\ op = Replacing
  <2>1. PICK op \in Starts : Fork(op) /\ op = Replacing
    BY <1>2
  <2>2. PICK c \in Workers :
             proc[c] = "none" /\ reload' = [reload EXCEPT !.pc = "awaiting", !.child = c]
    BY <2>1, Forking
  <2>3. reload'.child = c /\ promise'[c] = promise[c]
    BY <2>1, <2>2 DEF Fork, TypeOK
  <2>4. promise[c] = "pending"
    BY <2>2 DEF Known, KnownOf
  <2> QED BY <2>3, <2>4
<1> QED BY <1>1, <1>2, ReloadMoves

LEMMA ServiceStep ==
    TypeOK /\ Mail /\ Known /\ Askers /\ Beginning /\ Fresh /\ Chosen /\ Service /\ [Next]_vars
      => Service'
<1> SUFFICES ASSUME TypeOK, Mail, Known, Askers, Beginning, Fresh, Chosen, Service, [Next]_vars,
                    Begun'
             PROVE  \E w \in Workers :
                      Serves(w)' /\ (reload'.pc \in {"stopping", "terming"} => w # reload'.asker)
  BY DEF Service
<1>0. Early' /\ first' # None /\ promise'[first'] = "resolved"
  BY DEF Begun
<1>1. first # None
  <2>1. SUFFICES ASSUME first = None PROVE FALSE
    OBVIOUS
  <2>2. PICK op \in Starts : Fork(op) /\ op = FirstStart
    BY <1>0, <2>1 DEF Next, vars, Process, Boots, BootFails, Crashes, Exits, AsksReload,
       AsksControl, Executes, supervisor, Hearing, HearsReady, HearsStartFailed, HearsExit,
       HearsReload, HearsRequest, HearsExecuted, ReadyTimeout, SendFails, Fork, Host, HostStart,
       HostStarted, HostStop, HostStopTerms, HostStopped, Reload, ReloadBegins, ReloadSettles,
       ReloadTerms, ReloadEnds
  <2>3. PICK c \in Workers : proc[c] = "none" /\ first' = c
    BY <2>2, Forking
  <2>4. promise'[c] = "pending"
    BY <2>2, <2>3 DEF Fork, Known, KnownOf
  <2> QED BY <1>0, <2>3, <2>4
<1>2. first' = first /\ first \in Workers
  BY <1>1, FirstKept DEF TypeOK, WorkerOrNone
<1>3. CASE promise[first] = "pending"
  <2>1. HearsReady(first) /\ Serves(first)'
    BY <1>0, <1>2, <1>3, BecomesReady
  <2>2. reload' = reload
    BY <2>1 DEF HearsReady
  <2>3. reload'.pc \in {"stopping", "terming"} => first # reload'.asker
    BY <1>3, <2>2 DEF Askers
  <2> QED BY <1>2, <2>1, <2>3
<1>4. CASE promise[first] # "pending"
  <2>1. promise[first] = "resolved"
    BY <1>0, <1>2, <1>4, PromisesKept
  <2>2. Early
    BY <1>0, <1>1, EarlyBefore DEF HostStart, Beginning
  <2>3. PICK w \in Workers :
          Serves(w) /\ (reload.pc \in {"stopping", "terming"} => w # reload.asker)
    BY <1>1, <2>1, <2>2 DEF Service, Begun
  <2>4. CASE ReloadSettles /\ reload'.pc # "idle"
    <3>1. PICK c \in Workers : c = reload.child /\ c # reload.asker
      BY <2>4 DEF ReloadSettles, Askers
    <3>2. reload' = [reload EXCEPT !.pc = "stopping"] /\ promise[c] = "resolved"
          /\ reload.pc = "awaiting"
      BY <2>4, <3>1 DEF ReloadSettles, NoReload, Spares, TypeOK
    <3>3. Serves(c)
      BY <2>2, <3>1, <3>2 DEF Chosen
    <3>4. Serves(c)'
      BY <1>0, <3>1, <3>3, ServesOn
    <3>5. reload'.asker = reload.asker
      BY <3>2 DEF TypeOK
    <3> QED BY <3>1, <3>4, <3>5
  <2>5. CASE ReloadSettles /\ reload'.pc = "idle"
    <3>1. proc' = proc /\ killed' = killed
      BY <2>5 DEF ReloadSettles, NoReload, TypeOK
    <3>2. Serves(w)'
      BY <1>0, <2>3, <3>1, ServesOn
    <3> QED BY <2>5, <3>2
  <2>6. CASE ~ReloadSettles
    <3>1. w # reload.asker \/ ~Reload \/ (proc' = proc /\ killed' = killed)
      BY <2>3, <2>6 DEF Reload, ReloadBegins, ReloadTerms, ReloadEnds, Term, ShutdownOver
    <3>2. Serves(w)'
      BY <1>0, <2>3, <3>1, ServesOn
    <3>3. reload'.pc \in {"stopping", "terming"} =>
            reload'.asker = reload.asker /\ reload.pc \in {"stopping", "terming"}
      <4>1. CASE reload' = reload
        BY <4>1
      <4>2. CASE ReloadTerms
        BY <4>2 DEF ReloadTerms, Term, TypeOK
      <4>3. ASSUME NEW op \in Starts, Fork(op), op = Replacing
            PROVE  reload'.pc = "awaiting"
        BY <4>3, ForkAwaits
      <4> QED BY <2>6, <4>1, <4>2, <4>3, ReloadMoves
    <3> QED BY <2>3, <3>2, <3>3
  <2> QED BY <2>4, <2>5, <2>6
<1> QED BY <1>3, <1>4

-----------------------------------------------------------------------------
(* One request at most: nobody but this.worker and its replacement. *)

LEMMA SoleBefore ==
    ASSUME TypeOK, Mail, Known, Askers, Beginning, [Next]_vars, Sole'
    PROVE  Sole \/ HostStart
<1>1. Early \/ HostStart
  BY EarlyBefore DEF Sole
<1>2. asked <= 1
  <2>1. asked' = asked \/ asked' = asked + 1
    BY DEF Next, vars, world, Process, Boots, BootFails, Crashes, Exits, AsksReload, AsksControl,
         Executes, supervisor, Hearing, HearsReady, HearsStartFailed, HearsExit, HearsReload,
         HearsRequest, HearsExecuted, ReadyTimeout, SendFails, Fork, Host, HostStart, HostStarted,
         HostStop, HostStopTerms, HostStopped, Reload, ReloadBegins, ReloadSettles, ReloadTerms,
         ReloadEnds
  <2> QED BY <2>1, SupervisorBounds DEF TypeOK, Sole
<1>3. first # None => promise[first] # "rejected"
  <2>1. SUFFICES ASSUME first # None, promise[first] = "rejected" PROVE FALSE
    OBVIOUS
  <2>2. first' = first /\ first \in Workers
    BY <2>1, FirstKept DEF TypeOK, WorkerOrNone
  <2>3. promise'[first] = "rejected"
    BY <2>1, <2>2, PromisesKept
  <2> QED BY <2>1, <2>2, <2>3 DEF Sole
<1> QED BY <1>1, <1>2, <1>3 DEF Sole

\* A worker that is dead and was the first, or replaces it, is not active.
LEMMA NoRestart ==
    ASSUME TypeOK, Mail, Known, Fresh, Sole, ActiveServe, NEW w \in Workers, HearsExit(w)
    PROVE  cleaning' = cleaning
<1>1. inbox[w] # <<>> /\ inbox[w][1] = "exit" /\ 1 \in 1..Len(inbox[w])
  BY Hearsay DEF HearsExit, TypeOK
<1>2. proc[w] = "dead"
  BY <1>1 DEF Mail, MailOf
<1>3. startup[w] # None
  BY <1>1, <1>2 DEF HearsExit, Hears, Mail, MailOf, Known, KnownOf
<1>4. ~startup[w].active
  BY <1>1, <1>2, <1>3 DEF ActiveServe, Serves, Fresh, Sole
<1> QED BY <1>4 DEF HearsExit, Restarts

\* There are no requests but the one.
LEMMA NotWaiting ==
    ASSUME TypeOK, OneAsk, Sole, reload.pc \in {"awaiting", "stopping", "terming"}
    PROVE  ~Waiting
BY DEF OneAsk, OnlyOne, Sole, Waiting

LEMMA WaitingBefore ==
    ASSUME TypeOK, Mail, Askers, OneAsk, [Next]_vars, Sole', Sole, Waiting'
    PROVE  Waiting
<1>0. asked \in Nat /\ asked' <= 1 /\ (asked' = asked \/ asked' = asked + 1)
  <2>1. asked' = asked \/ asked' = asked + 1
    BY DEF Next, vars, world, Process, Boots, BootFails, Crashes, Exits, AsksReload, AsksControl,
         Executes, supervisor, Hearing, HearsReady, HearsStartFailed, HearsExit, HearsReload,
         HearsRequest, HearsExecuted, ReadyTimeout, SendFails, Fork, Host, HostStart, HostStarted,
         HostStop, HostStopTerms, HostStopped, Reload, ReloadBegins, ReloadSettles, ReloadTerms,
         ReloadEnds
  <2> QED BY <2>1, SupervisorBounds DEF TypeOK, Sole
<1>1. CASE asked' = 0
  BY <1>0, <1>1 DEF Waiting
<1>2. CASE reload'.pc = "cleaning"
  <2>1. ReloadBegins \/ reload' = reload
    <3>1. ASSUME NEW op \in Starts, Fork(op), op = Replacing PROVE reload'.pc = "awaiting"
      BY <3>1, ForkAwaits
    <3>2. ~(\E w \in Workers : SendFails(w))
      BY DEF SendFails, Sole, Early
    <3>3. ~ReloadSettles /\ ~ReloadTerms /\ ~ReloadEnds
      BY <1>2 DEF ReloadSettles, ReloadTerms, ReloadEnds, NoReload, Term, TypeOK
    <3>4. ASSUME NEW op \in Starts, Fork(op), op # Replacing PROVE reload' = reload
      BY <3>4 DEF Fork
    <3>5. ASSUME NEW w \in Workers, Process(w) \/ Hearing(w) \/ ReadyTimeout(w)
          PROVE  reload' = reload
      BY <3>5 DEF Process, Boots, BootFails, Crashes, Exits, AsksReload, AsksControl, Executes,
       supervisor, Hearing, HearsReady, HearsStartFailed, HearsExit, HearsReload, HearsRequest,
       HearsExecuted, ReadyTimeout
    <3>6. ASSUME Host \/ UNCHANGED vars PROVE reload' = reload
      BY <3>6 DEF vars, Host, HostStart, HostStarted, HostStop, HostStopTerms, HostStopped
    <3> QED BY <1>2, <3>1, <3>2, <3>3, <3>4, <3>5, <3>6 DEF Next, Reload
  <2> QED BY <1>2, <2>1 DEF Waiting, ReloadBegins
<1>3. CASE reloads' # <<>>
  <2>1. CASE reloads # <<>>
    BY <2>1 DEF Waiting
  <2>2. CASE reloads = <<>>
    <3>1. PICK w \in Workers : HearsReload(w)
      BY <1>3, <2>2 DEF Next, vars, Process, Boots, BootFails, Crashes, Exits, AsksReload,
         AsksControl, Executes, supervisor, Hearing, HearsReady, HearsStartFailed, HearsExit,
         HearsRequest, HearsExecuted, ReadyTimeout, SendFails, Fork, Host, HostStart, HostStarted,
         HostStop, HostStopTerms, HostStopped, Reload, ReloadBegins, ReloadSettles, ReloadTerms,
         ReloadEnds
    <3>2. 1 \in 1..Len(inbox[w]) /\ Asks(w, 1)
      BY <3>1, Hearsay DEF HearsReload, TypeOK, Asks
    <3> QED BY <3>2 DEF Waiting
  <2> QED BY <2>1, <2>2
<1>4. ASSUME NEW w \in Workers, NEW i \in 1..Len(inbox'[w]), Asks(w, i)' PROVE Waiting
  <2>1. CASE \E v \in Workers : AsksReload(v)
    <3>1. asked = 0
      BY <1>0, <2>1 DEF AsksReload
    <3> QED BY <3>1 DEF Waiting
  <2>2. CASE ~\E v \in Workers : AsksReload(v)
    <3>1. PICK d \in {0, 1} : i + d \in 1..Len(inbox[w]) /\ Asks(w, i + d)
      BY <1>4, <2>2, AsksKept
    <3> QED BY <3>1 DEF Waiting
  <2> QED BY <2>1, <2>2
<1>5. Waiting' => \/ asked' = 0 \/ reload'.pc = "cleaning" \/ reloads' # <<>>
                  \/ \E w \in Workers : \E i \in 1..Len(inbox'[w]) : Asks(w, i)'
  BY DEF Waiting
<1> QED BY <1>1, <1>2, <1>3, <1>4, <1>5

\* The invariant's parts before the last, and a step within Sole.
Within == TypeOK /\ Mail /\ Known /\ Askers /\ Beginning /\ Fresh /\ Chosen /\ OneAsk

LEMMA StartsStep ==
    ASSUME Within, Sole, OnlyStarts, ActiveServe, [Next]_vars, Sole'
    PROVE  OnlyStarts'
<1>1. ASSUME NEW w \in Workers, HearsExit(w) PROVE cleaning' = cleaning
  BY <1>1, NoRestart DEF Within
<1>2. ASSUME NEW op \in Starts, Fork(op) PROVE cleaning' \subseteq cleaning
  BY <1>2 DEF Fork
<1>3. cleaning' \subseteq cleaning \cup {FirstStart, Replacing}
  BY <1>1, <1>2 DEF Next, vars, Process, Boots, BootFails, Crashes, Exits, AsksReload,
       AsksControl, Executes, supervisor, Hearing, HearsReady, HearsStartFailed, HearsReload,
       HearsRequest, HearsExecuted, ReadyTimeout, SendFails, Host, HostStart, HostStarted,
       HostStop, HostStopTerms, HostStopped, Reload, ReloadBegins, ReloadSettles, ReloadTerms,
       ReloadEnds
<1> QED BY <1>3 DEF OnlyStarts

\* this.worker changes only by the first fork and by a reload that succeeds.
LEMMA WorkerKept ==
    ASSUME Within, Sole, OnlyStarts, [Next]_vars, Sole', first # None, ~ReloadSettles,
           worker \in Workers => proc[worker] # "dead"
    PROVE  worker' = worker
<1>1. ASSUME NEW op \in Starts, Fork(op) PROVE worker' = worker
  <2>1. op = Replacing
    BY <1>1 DEF Within, OnlyStarts, Beginning, Fork
  <2> QED BY <1>1, <2>1 DEF Fork
<1>2. ASSUME NEW w \in Workers, HearsExit(w) PROVE worker' = worker
  <2>1. 1 \in 1..Len(inbox[w]) /\ inbox[w][1] = "exit"
    BY <1>2, Hearsay DEF HearsExit, Within, TypeOK
  <2>2. proc[w] = "dead"
    BY <2>1 DEF Within, Mail, MailOf
  <2> QED BY <1>2, <2>2 DEF HearsExit, WorkerWithout
<1>3. ~HostStopped /\ \A w \in Workers : ~SendFails(w)
  BY EarlyBefore DEF Within, Sole
<1> QED BY <1>1, <1>2, <1>3 DEF Next, vars, Process, Boots, BootFails, Crashes, Exits, AsksReload,
       AsksControl, Executes, supervisor, Hearing, HearsReady, HearsStartFailed, HearsReload,
       HearsRequest, HearsExecuted, ReadyTimeout, Host, HostStart, HostStarted,
       HostStop, HostStopTerms, Reload, ReloadBegins, ReloadTerms,
       ReloadEnds

\* What the first fork leads to.
LEMMA FirstFork ==
    ASSUME Within, Sole, OnlyStarts, FirstAlone, Next, Sole', first = None
    PROVE  \E c \in Workers :
             /\ first' = c /\ worker' = c /\ reload' = reload /\ reload.pc = "idle"
             /\ promise'[c] = "pending"
             /\ \A w \in Workers : w # c => proc'[w] = "none" /\ startup'[w] = None
<1>1. \A w \in Workers : proc[w] = "none" /\ startup[w] = None /\ promise[w] = "pending"
  BY DEF FirstAlone, Within, Known, KnownOf
<1>2. ~HostStart
  BY DEF HostStart, Sole, Early
<1>3. PICK op \in Starts : op # Replacing /\ Fork(op)
  BY <1>1, <1>2, NothingRuns DEF Within
<1>4. op = FirstStart
  BY <1>3 DEF Fork, OnlyStarts
<1>5. PICK c \in Workers :
        /\ proc' = [proc EXCEPT ![c] = "booting"]
        /\ \A v \in Workers : v # c => startup'[v] = startup[v]
        /\ worker' = (IF op = Replacing THEN worker ELSE c)
        /\ first' = (IF op = FirstStart THEN c ELSE first)
        /\ reload' = (IF op = Replacing THEN [reload EXCEPT !.pc = "awaiting", !.child = c]
                      ELSE reload)
  BY <1>3, Forking DEF Within
<1>6. promise' = promise
  BY <1>3 DEF Fork
<1>7. reload.pc = "idle"
  BY <1>1 DEF Within, Askers
<1> QED BY <1>1, <1>3, <1>4, <1>5, <1>6, <1>7 DEF Within, TypeOK

\* The first worker, while it is alone, goes on or fails to start.
LEMMA FirstStays ==
    ASSUME Within, Sole, OnlyStarts, FirstAlone, [Next]_vars, Sole', first # None, Waiting
    PROVE  /\ first' = first /\ first \in Workers /\ ~ReloadSettles /\ worker' = worker
           /\ promise'[first] = "resolved" => Serves(first)'
<1>1. first' = first /\ first \in Workers
  BY FirstKept DEF Within, TypeOK, WorkerOrNone
<1>2. reload.pc \notin {"awaiting", "stopping", "terming"}
  BY NotWaiting DEF Within
<1>3. ~ReloadSettles /\ ~ReloadTerms /\ ~ReloadEnds
  BY <1>2 DEF ReloadSettles, ReloadTerms, ReloadEnds, Term, ShutdownOver
<1>4. Reload => proc' = proc /\ killed' = killed
  BY <1>3 DEF Reload, ReloadBegins
<1>5. worker' = worker
  <2>1. CASE proc[first] # "dead"
    BY <1>3, <2>1, WorkerKept DEF FirstAlone
  <2>2. CASE proc[first] = "dead"
    <3>1. promise[first] = "pending"
      BY <1>1, <2>2 DEF FirstAlone, Serves, Sole, Within, TypeOK
    <3>2. inbox[first] # <<>> /\ inbox[first][1] = "start_failed"
      BY <1>1, <2>2, <3>1 DEF Within, Fresh, Sole
    <3>3. ~HearsExit(first)
      <4>1. SUFFICES ASSUME HearsExit(first) PROVE FALSE
        OBVIOUS
      <4>2. inbox[first][1] = "exit"
        BY <1>1, <4>1, Hearsay DEF HearsExit, Within, TypeOK
      <4> QED BY <3>2, <4>2
    <3>4. ASSUME NEW w \in Workers, HearsExit(w) PROVE worker' = worker
      BY <3>3, <3>4 DEF HearsExit, WorkerWithout, FirstAlone
    <3>5. ASSUME NEW op \in Starts, Fork(op) PROVE worker' = worker
      <4>1. op = Replacing
        BY <3>5 DEF Within, OnlyStarts, Beginning, Fork
      <4> QED BY <3>5, <4>1 DEF Fork
    <3>6. ~HostStopped /\ \A w \in Workers : ~SendFails(w)
      BY EarlyBefore DEF Within, Sole
    <3> QED BY <1>3, <3>4, <3>5, <3>6 DEF Next, vars, Process, Boots, BootFails, Crashes, Exits,
       AsksReload, AsksControl, Executes, supervisor, Hearing, HearsReady, HearsStartFailed,
       HearsReload, HearsRequest, HearsExecuted, ReadyTimeout, Host, HostStart, HostStarted,
       HostStop, HostStopTerms, Reload, ReloadBegins
  <2> QED BY <2>1, <2>2
<1>6. ASSUME promise'[first] = "resolved" PROVE Serves(first)'
  <2>1. Early'
    BY DEF Sole
  <2>2. CASE promise[first] = "pending"
    BY <1>1, <1>6, <2>1, <2>2, BecomesReady DEF Within
  <2>3. CASE promise[first] # "pending"
    <3>1. promise[first] = "resolved"
      BY <1>1, <1>6, <2>3, PromisesKept DEF Within
    <3>2. Serves(first)
      BY <3>1 DEF FirstAlone
    <3> QED BY <1>1, <1>4, <2>1, <3>2, ServesOn DEF Within
  <2> QED BY <2>2, <2>3
<1> QED BY <1>1, <1>3, <1>5, <1>6

LEMMA AloneStep ==
    ASSUME Within, Sole, OnlyStarts, FirstAlone, [Next]_vars, Sole'
    PROVE  FirstAlone'
<1>1. CASE UNCHANGED vars
  BY <1>1 DEF vars, FirstAlone, Waiting, Asks, Serves
<1>2. CASE Next /\ first = None
  BY <1>2, FirstFork, Constants DEF FirstAlone, Within
<1>3. CASE Next /\ first # None
  <2>1. first' = first /\ first \in Workers
    BY <1>3, FirstKept DEF Within, TypeOK, WorkerOrNone
  <2>2. CASE ~Waiting'
    BY <1>3, <2>1, <2>2 DEF FirstAlone
  <2>3. CASE Waiting'
    <3>1. Waiting
      BY <2>3, WaitingBefore DEF Within
    <3>2. /\ worker' = worker
          /\ promise'[first] = "resolved" => Serves(first)'
      BY <1>3, <3>1, FirstStays
    <3>3. ASSUME NEW w \in Workers, w # first PROVE proc'[w] = "none"
      <4>1. proc[w] = "none"
        BY <1>3, <3>1, <3>3 DEF FirstAlone
      <4>2. CASE \E op \in Starts : Fork(op)
        <5>1. PICK op \in Starts : Fork(op)
          BY <4>2
        <5>2. op \in cleaning
          BY <5>1 DEF Fork
        <5>3. op = Replacing
          BY <1>3, <5>2 DEF OnlyStarts, Within, Beginning
        <5>4. PICK c \in Workers : reload' = [reload EXCEPT !.pc = "awaiting", !.child = c]
          BY <5>1, <5>3, Forking DEF Within
        <5>5. reload'.pc = "awaiting"
          BY <5>4 DEF Within, TypeOK
        <5>6. reload.pc # "idle"
          BY <5>2, <5>3 DEF Within, Askers
        <5>7. OneAsk' /\ TypeOK'
          BY OneAskStep, TypeStep DEF Within
        <5>8. ~Waiting'
          BY <5>5, <5>7 DEF OneAsk, OnlyOne, Sole, Waiting
        <5> QED BY <2>3, <5>8
      <4>3. CASE ~\E op \in Starts : Fork(op)
        <5>1. CASE Host \/ Reload
          BY <4>1, <5>1, HostOrReload DEF Within
        <5>2. ASSUME NEW v \in Workers, Process(v) PROVE proc'[w] = "none"
          <6>1. v # w
            BY <4>1, <5>2 DEF Process, Boots, BootFails, Crashes, Exits, AsksReload, AsksControl,
                              Executes
          <6> QED BY <4>1, <5>2, <6>1 DEF Process, Boots, BootFails, Crashes, Exits, AsksReload,
                                          AsksControl, Executes, Within, TypeOK
        <5>3. ASSUME NEW v \in Workers, Hearing(v) \/ ReadyTimeout(v) \/ SendFails(v)
              PROVE proc' = proc
          BY <5>3 DEF Hearing, HearsReady, HearsStartFailed, HearsExit, HearsReload,
                      HearsRequest, HearsExecuted, ReadyTimeout, SendFails
        <5> QED BY <1>3, <4>1, <4>3, <5>1, <5>2, <5>3 DEF Next
      <4> QED BY <4>2, <4>3
    <3> QED BY <1>3, <2>1, <3>1, <3>2, <3>3 DEF FirstAlone
  <2> QED BY <2>2, <2>3
<1> QED BY <1>1, <1>2, <1>3

\* Nobody becomes active but by a fork or by a reload that succeeds.
LEMMA ActiveBefore ==
    ASSUME Within, [Next]_vars, NEW v \in Workers, proc[v] # "none",
           startup'[v] # None, startup'[v].active, ~ReloadSettles \/ v # reload.child
    PROVE  startup[v] # None /\ startup[v].active
<1>1. CASE ReloadSettles
  <2>1. startup' = startup \/ startup' = HandedOver(reload.asker, reload.child)
    BY <1>1 DEF ReloadSettles
  <2> QED BY <1>1, <2>1, HandedOverIs DEF Within, TypeOK
<1>2. ASSUME NEW op \in Starts, Fork(op) PROVE startup'[v] = startup[v]
  BY <1>2, Forking DEF Within
<1>3. ASSUME NEW w \in Workers, HearsReady(w), Unready(w)
      PROVE  startup[v] # None /\ startup[v].active
  <2>1. startup'[w] = MadeReady(startup[w]) /\ (v # w => startup'[v] = startup[v])
    BY <1>3 DEF HearsReady, Within, TypeOK
  <2>2. startup[w] \in StartupState
    BY <1>3 DEF Unready, Within, TypeOK
  <2>3. MadeReady(startup[w]).active = startup[w].active
    BY <2>2, States
  <2>4. startup[w] # None
    BY <1>3 DEF Unready
  <2> QED BY <2>1, <2>3, <2>4
<1>4. ASSUME NEW w \in Workers, startup[w] # None,
             startup' = [startup EXCEPT ![w] = [startup[w] EXCEPT !.due = FALSE]]
      PROVE  startup[v] # None /\ startup[v].active
  <2>1. startup[w] \in StartupState
    BY <1>4 DEF Within, TypeOK
  <2>2. [startup[w] EXCEPT !.due = FALSE].active = startup[w].active
    BY <2>1, States
  <2>3. startup'[w] = [startup[w] EXCEPT !.due = FALSE] /\ (v # w => startup'[v] = startup[v])
    BY <1>4 DEF Within, TypeOK
  <2> QED BY <1>4, <2>2, <2>3
<1>5. ASSUME NEW w \in Workers, HearsStartFailed(w) \/ ReadyTimeout(w)
      PROVE  startup[v] # None /\ startup[v].active
  BY <1>4, <1>5 DEF HearsStartFailed, ReadyTimeout, Unready
<1>6. ASSUME NEW w \in Workers, HearsReady(w), ~Unready(w) PROVE startup' = startup
  BY <1>6 DEF HearsReady
<1>7. ASSUME NEW w \in Workers, HearsExit(w) PROVE startup'[v] \in {None, startup[v]}
  BY <1>7 DEF HearsExit, Within, TypeOK
<1>8. ASSUME NEW w \in Workers, SendFails(w) PROVE startup'[v] = None
  BY <1>8 DEF SendFails
<1>9. ASSUME \/ UNCHANGED vars \/ Host \/ (Reload /\ ~ReloadSettles)
             \/ \E w \in Workers : Process(w) \/ HearsReload(w) \/ HearsRequest(w)
                                   \/ HearsExecuted(w)
      PROVE  startup' = startup
  BY <1>9 DEF vars, Process, Boots, BootFails, Crashes, Exits, AsksReload, AsksControl, Executes,
       supervisor, HearsReload, HearsRequest, HearsExecuted, Host, HostStart, HostStarted,
       HostStop, HostStopTerms, HostStopped, Reload, ReloadBegins, ReloadTerms, ReloadEnds
<1> QED BY <1>1, <1>2, <1>3, <1>5, <1>6, <1>7, <1>8, <1>9 DEF Next, Hearing

\* The reload in a step within Sole.
LEMMA Settling ==
    ASSUME Within, Sole, Replaced, [Next]_vars, Sole', ReloadSettles
    PROVE  /\ reload.asker \in Workers /\ reload.child \in Workers /\ reload.child # reload.asker
           /\ worker = reload.asker /\ Serves(reload.asker)
           /\ \/ /\ promise[reload.child] = "rejected" /\ reload' = NoReload
                 /\ proc' = proc /\ startup' = startup /\ worker' = worker
              \/ /\ promise[reload.child] = "resolved"
                 /\ Serves(reload.child)
                 /\ reload'.pc = "stopping" /\ reload'.asker = reload.asker
                 /\ proc'[reload.asker] = "halting"
                 /\ startup' = HandedOver(reload.asker, reload.child)
                 /\ worker' = reload.child
           /\ killed' = killed
<1>1. /\ reload.pc = "awaiting" /\ promise[reload.child] # "pending" /\ killed' = killed
  BY DEF ReloadSettles
<1>2. /\ reload.asker \in Workers /\ reload.child \in Workers /\ reload.child # reload.asker
      /\ worker = reload.asker /\ Serves(reload.asker)
  BY <1>1 DEF Within, Askers, Replaced
<1>3. CASE promise[reload.child] = "rejected"
  BY <1>1, <1>2, <1>3 DEF ReloadSettles, Spares
<1>4. CASE promise[reload.child] # "rejected"
  <2>1. promise[reload.child] = "resolved"
    BY <1>1, <1>2, <1>4 DEF Within, TypeOK
  <2>2. Serves(reload.child)
    BY <1>1, <2>1 DEF Within, Chosen, Sole
  <2>3. ~Spares(reload.asker, reload.child)
    BY <1>2, <1>4 DEF Spares, Serves
  <2>4. Halt(reload.asker) /\ reload' = [reload EXCEPT !.pc = "stopping"]
    BY <2>3 DEF ReloadSettles
  <2>5. proc'[reload.asker] = "halting"
    BY <1>2, <2>4 DEF Halt, Serves, Within, TypeOK
  <2>6. reload'.pc = "stopping" /\ reload'.asker = reload.asker
    BY <2>4 DEF Within, TypeOK
  <2>7. startup' = HandedOver(reload.asker, reload.child)
    BY <2>1 DEF ReloadSettles
  <2>8. worker' = reload.child
    BY <2>1, <2>2 DEF ReloadSettles, Serves
  <2> QED BY <1>1, <1>2, <2>1, <2>2, <2>5, <2>6, <2>7, <2>8
<1> QED BY <1>1, <1>2, <1>3, <1>4

LEMMA ReplacedStep ==
    ASSUME Within, Sole, OnlyStarts, FirstAlone, Replaced, [Next]_vars, Sole'
    PROVE  Replaced'
<1>0. Early'
  BY DEF Sole
<1>1. CASE reload' = reload /\ ~ReloadSettles
  <2>1. ASSUME reload.pc = "awaiting"
        PROVE  worker' = reload.asker /\ Serves(reload.asker)'
    <3>1. PICK a \in Workers : a = reload.asker
      BY <2>1 DEF Within, Askers
    <3>2. worker = a /\ Serves(a)
      BY <2>1, <3>1 DEF Replaced
    <3>3. ~Reload
      BY <1>1, <2>1 DEF Reload, ReloadBegins, ReloadTerms, ReloadEnds, Term, ShutdownOver
    <3>4. Serves(a)'
      BY <1>0, <3>2, <3>3, ServesOn DEF Within
    <3>5. first # None
      BY <3>1, <3>2 DEF FirstAlone, Serves
    <3>6. worker' = worker
      BY <1>1, <3>2, <3>5, WorkerKept DEF Serves
    <3> QED BY <1>1, <3>1, <3>2, <3>4, <3>6 DEF Serves
  <2>2. ASSUME reload.pc \in {"stopping", "terming"}, startup'[reload.asker] # None
        PROVE  ~startup'[reload.asker].active
    <3>1. PICK a \in Workers : a = reload.asker /\ proc[a] # "none"
      BY <2>2 DEF Within, Askers, Known, KnownOf
    <3> QED BY <1>1, <2>2, <3>1, ActiveBefore DEF Replaced
  <2> QED BY <1>1, <2>1, <2>2 DEF Replaced, Serves
<1>2. CASE ReloadSettles
  <2>1. CASE reload' = NoReload
    BY <2>1 DEF Replaced, NoReload
  <2>2. CASE reload' # NoReload
    <3>1. /\ reload.asker \in Workers /\ reload.child # reload.asker
          /\ reload'.pc = "stopping" /\ reload'.asker = reload.asker
          /\ startup' = HandedOver(reload.asker, reload.child)
          /\ Serves(reload.asker)
      BY <1>2, <2>2, Settling
    <3>2. ~startup'[reload.asker].active
      BY <3>1, HandedOverIs DEF Serves, Within, TypeOK
    <3> QED BY <3>1, <3>2 DEF Replaced
  <2> QED BY <2>1, <2>2
<1>3. CASE reload'.pc \in {"idle", "cleaning"}
  BY <1>3 DEF Replaced
<1>4. CASE \E op \in Starts : Fork(op) /\ op = Replacing
  <2>1. PICK op \in Starts : Fork(op) /\ op = Replacing
    BY <1>4
  <2>2. PICK c \in Workers : reload' = [reload EXCEPT !.pc = "awaiting", !.child = c]
    BY <2>1, Forking DEF Within
  <2>3. reload'.pc = "awaiting" /\ reload'.asker = reload.asker
    BY <2>2 DEF Within, TypeOK
  <2>4. reload.pc = "cleaning"
    BY <2>1 DEF Fork, Within, Askers
  <2>5. PICK a \in Workers : a = reload.asker /\ promise[a] # "pending" /\ proc[a] # "none"
    BY <2>4 DEF Within, Askers, Known, KnownOf
  <2>6. Waiting
    BY <2>4 DEF Waiting
  <2>7. first # None
    BY <2>5 DEF FirstAlone
  <2>8. a = first /\ worker = a
    BY <2>5, <2>6, <2>7 DEF FirstAlone
  <2>9. promise[a] = "resolved"
    BY <2>5, <2>7, <2>8 DEF Sole, Within, TypeOK
  <2>10. Serves(a)
    BY <2>6, <2>7, <2>8, <2>9 DEF FirstAlone
  <2>11. ~Reload
    BY <2>4 DEF Reload, ReloadBegins, ReloadSettles, ReloadTerms, ReloadEnds, Term, ShutdownOver
  <2>12. Serves(a)'
    BY <1>0, <2>10, <2>11, ServesOn DEF Within
  <2>13. worker' = worker
    BY <2>1 DEF Fork
  <2> QED BY <2>3, <2>5, <2>8, <2>12, <2>13 DEF Replaced, Serves
<1>5. CASE /\ ReloadTerms
           /\ reload'.pc \in {"stopping", "terming"}
           /\ reload'.asker = reload.asker
  <2>1. startup' = startup /\ reload.pc \in {"stopping", "terming"}
    BY <1>5 DEF ReloadTerms, Term
  <2> QED BY <1>5, <2>1 DEF Replaced
<1> QED BY <1>1, <1>2, <1>3, <1>4, <1>5, ReloadMoves DEF Within

LEMMA LiveStep ==
    ASSUME Within, Sole, OnlyStarts, FirstAlone, Replaced, OnlyLive, [Next]_vars, Sole'
    PROVE  OnlyLive'
<1> SUFFICES ASSUME NEW v \in Workers, Live(v)'
             PROVE  v = worker' \/ (reload'.pc = "awaiting" /\ v = reload'.child)
  BY DEF OnlyLive
<1>1. CASE UNCHANGED vars
  BY <1>1 DEF vars, OnlyLive, Live
<1>2. CASE Next /\ first = None
  <2>1. PICK c \in Workers : worker' = c /\ \A w \in Workers : w # c => proc'[w] = "none"
    BY <1>2, FirstFork
  <2> QED BY <2>1 DEF Live
<1>3. CASE Next /\ first # None
  <2>1. CASE \E op \in Starts : Fork(op)
    <3>1. PICK op \in Starts : Fork(op)
      BY <2>1
    <3>2. op = Replacing
      BY <1>3, <3>1 DEF Fork, OnlyStarts, Within, Beginning
    <3>3. PICK c \in Workers :
            /\ proc' = [proc EXCEPT ![c] = "booting"] /\ worker' = worker
            /\ reload' = [reload EXCEPT !.pc = "awaiting", !.child = c]
      BY <3>1, <3>2, Forking DEF Within
    <3>4. reload'.pc = "awaiting" /\ reload'.child = c
      BY <3>3 DEF Within, TypeOK
    <3>5. v # c => Live(v)
      BY <3>1, <3>3 DEF Fork, Live, Within, TypeOK
    <3>6. reload.pc = "cleaning"
      BY <3>1, <3>2 DEF Fork, Within, Askers
    <3> QED BY <3>3, <3>4, <3>5, <3>6 DEF OnlyLive
  <2>2. CASE ~\E op \in Starts : Fork(op)
    <3>1. Live(v)
      <4>1. CASE Host \/ Reload
        BY <4>1, HostOrReload DEF Within, Live
      <4>2. ASSUME NEW w \in Workers, Process(w) PROVE Live(v)
        <5>1. CASE w # v
          BY <4>2, <5>1 DEF Process, Boots, BootFails, Crashes, Exits, AsksReload, AsksControl,
                            Executes, supervisor, Within, TypeOK, Live
        <5>2. CASE w = v
          BY <4>2, <5>2 DEF Process, Boots, BootFails, Crashes, Exits, AsksReload, AsksControl,
                            Executes, supervisor, Within, TypeOK, Live
        <5> QED BY <5>1, <5>2
      <4>3. ASSUME NEW w \in Workers, Hearing(w) \/ ReadyTimeout(w) \/ SendFails(w)
            PROVE Live(v)
        BY <4>3 DEF Hearing, HearsReady, HearsStartFailed, HearsExit, HearsReload,
                    HearsRequest, HearsExecuted, ReadyTimeout, SendFails, Live
      <4> QED BY <1>3, <2>2, <4>1, <4>2, <4>3 DEF Next
    <3>2. v = worker \/ (reload.pc = "awaiting" /\ v = reload.child)
      BY <3>1 DEF OnlyLive
    <3>3. CASE ReloadSettles
      <4>1. /\ worker = reload.asker /\ reload.child \in Workers
            /\ \/ promise[reload.child] = "rejected" /\ proc' = proc /\ worker' = worker
               \/ proc'[reload.asker] = "halting" /\ worker' = reload.child
            /\ killed' = killed
        BY <3>3, Settling
      <4>2. CASE promise[reload.child] = "rejected" /\ proc' = proc /\ worker' = worker
        <5>1. ~Live(reload.child)
          BY <4>1, <4>2 DEF Within, Known, KnownOf, Live
        <5> QED BY <3>1, <3>2, <4>2, <5>1
      <4>3. CASE proc'[reload.asker] = "halting" /\ worker' = reload.child
        BY <3>2, <4>1, <4>3 DEF Live
      <4> QED BY <4>1, <4>2, <4>3
    <3>4. CASE ~ReloadSettles
      <4>1. v = worker => worker' = worker
        <5>1. v = worker => proc[worker] # "dead"
          BY <3>1 DEF Live
        <5> QED BY <1>3, <3>4, <5>1, WorkerKept
      <4>2. reload.pc = "awaiting" => reload' = reload
        <5>1. ~Reload \/ reload.pc # "awaiting"
          BY <3>4 DEF Reload, ReloadBegins, ReloadTerms, ReloadEnds, Term, ShutdownOver
        <5>2. \A w \in Workers : ~SendFails(w)
          BY EarlyBefore DEF Within, Sole
        <5> QED BY <1>3, <2>2, <5>1, <5>2 DEF Next, Process, Boots, BootFails, Crashes, Exits,
                AsksReload, AsksControl, Executes, supervisor, Hearing, HearsReady,
                HearsStartFailed, HearsExit, HearsReload, HearsRequest, HearsExecuted,
                ReadyTimeout, Host, HostStart, HostStarted, HostStop, HostStopTerms, HostStopped
      <4> QED BY <3>2, <4>1, <4>2
    <3> QED BY <3>3, <3>4
  <2> QED BY <2>1, <2>2
<1> QED BY <1>1, <1>2, <1>3

LEMMA ActiveStep ==
    ASSUME Within, Sole, OnlyStarts, FirstAlone, Replaced, ActiveServe, [Next]_vars, Sole'
    PROVE  ActiveServe'
<1> SUFFICES ASSUME NEW v \in Workers, startup'[v] # None, startup'[v].active
             PROVE  Serves(v)' \/ (promise'[v] = "pending" /\ v = first')
  BY DEF ActiveServe
<1>0. Early'
  BY DEF Sole
<1>1. CASE UNCHANGED vars
  BY <1>1 DEF vars, ActiveServe, Serves
<1>2. CASE Next /\ first = None
  <2>1. PICK c \in Workers : first' = c /\ promise'[c] = "pending"
                             /\ \A w \in Workers : w # c => startup'[w] = None
    BY <1>2, FirstFork
  <2> QED BY <2>1
<1>3. CASE Next /\ first # None
  <2>1. first' = first /\ first \in Workers
    BY <1>3, FirstKept DEF Within, TypeOK, WorkerOrNone
  <2>2. CASE ReloadSettles /\ v = reload.child /\ promise[v] = "resolved"
    <3>1. Serves(v) /\ v # reload.asker
      BY <2>2, Settling
    <3> QED BY <1>0, <3>1, ServesOn DEF Within
  <2>3. CASE ~(ReloadSettles /\ v = reload.child /\ promise[v] = "resolved")
    <3>1. startup[v] # None /\ startup[v].active
      <4>1. CASE proc[v] = "none"
        <5>1. startup[v] = None
          BY <4>1 DEF Within, Known, KnownOf
        <5>2. ~Host /\ ~Reload
          BY <5>1, HostOrReload DEF Within
        <5>3. ASSUME NEW w \in Workers, Process(w) \/ Hearing(w) \/ ReadyTimeout(w) \/ SendFails(w)
              PROVE  startup'[v] = None
          BY <5>1, <5>3 DEF Process, Boots, BootFails, Crashes, Exits, AsksReload, AsksControl,
               Executes, supervisor, Hearing, HearsReady, HearsStartFailed, HearsExit, HearsReload,
               HearsRequest, HearsExecuted, Unready, ReadyTimeout, SendFails, Within, TypeOK
        <5>4. PICK op \in Starts : Fork(op)
          BY <1>3, <5>2, <5>3 DEF Next
        <5>5. op = Replacing
          BY <1>3, <5>4 DEF Fork, OnlyStarts, Within, Beginning
        <5>6. PICK c \in Workers :
                ~startup'[c].active /\ \A u \in Workers : u # c => startup'[u] = startup[u]
          BY <5>4, <5>5, Forking DEF Within
        <5> QED BY <5>1, <5>6
      <4>2. CASE proc[v] # "none" /\ (~ReloadSettles \/ v # reload.child)
        BY <4>2, ActiveBefore
      <4>3. CASE ReloadSettles /\ v = reload.child
        <5>1. startup' = startup
          BY <2>3, <4>3, Settling
        <5> QED BY <5>1
      <4> QED BY <4>1, <4>2, <4>3
    <3>2. v # reload.asker \/ ~Reload \/ (proc' = proc /\ killed' = killed)
      <4>1. CASE ReloadSettles
        <5>1. \/ proc' = proc /\ killed' = killed
              \/ startup' = HandedOver(reload.asker, reload.child) /\ reload.child # reload.asker
          BY <4>1, Settling
        <5> QED BY <3>1, <5>1, HandedOverIs DEF Within, TypeOK
      <4>2. CASE ReloadTerms \/ ReloadEnds
        <5>1. reload.pc \in {"stopping", "terming"}
          BY <4>2 DEF ReloadTerms, ReloadEnds, Term, ShutdownOver
        <5> QED BY <3>1, <5>1 DEF Replaced
      <4>3. CASE ReloadBegins
        BY <4>3 DEF ReloadBegins
      <4> QED BY <4>1, <4>2, <4>3 DEF Reload
    <3>3. CASE Serves(v)
      BY <1>0, <3>2, <3>3, ServesOn DEF Within
    <3>4. CASE promise[v] = "pending" /\ v = first
      <4>1. promise'[v] \in {"pending", "resolved"}
        <5>1. TypeOK'
          BY TypeStep DEF Within
        <5> QED BY <1>3, <2>1, <3>4, <5>1 DEF Sole, TypeOK
      <4>2. CASE promise'[v] = "pending"
        BY <2>1, <3>4, <4>2
      <4>3. CASE promise'[v] = "resolved"
        BY <1>0, <3>4, <4>3, BecomesReady DEF Within
      <4> QED BY <4>1, <4>2, <4>3
    <3> QED BY <3>1, <3>3, <3>4 DEF ActiveServe
  <2> QED BY <2>2, <2>3
<1> QED BY <1>1, <1>2, <1>3

LEMMA LoneStep ==
    ASSUME Within, Lone, [Next]_vars
    PROVE  Lone'
<1> SUFFICES ASSUME Sole' PROVE (OnlyStarts /\ FirstAlone /\ Replaced /\ OnlyLive /\ ActiveServe)'
  BY DEF Lone
<1>1. CASE Sole
  <2>1. OnlyStarts /\ FirstAlone /\ Replaced /\ OnlyLive /\ ActiveServe
    BY <1>1 DEF Lone
  <2> QED BY <1>1, <2>1, StartsStep, AloneStep, ReplacedStep, LiveStep, ActiveStep
<1>2. CASE HostStart
  <2>1. /\ \A w \in Workers : proc[w] = "none" /\ startup[w] = None /\ promise[w] = "pending"
        /\ cleaning = {} /\ first = None
    BY <1>2 DEF HostStart, Within, Beginning, Known, KnownOf
  <2>2. /\ proc' = proc /\ startup' = startup /\ first' = first /\ reload' = reload
        /\ cleaning' = {FirstStart}
    BY <1>2, <2>1 DEF HostStart
  <2>3. reload.pc = "idle"
    BY <2>1 DEF Within, Askers
  <2> QED BY <2>1, <2>2, <2>3 DEF OnlyStarts, FirstAlone, Replaced, OnlyLive, Live, ActiveServe
<1> QED BY <1>1, <1>2, SoleBefore DEF Within

-----------------------------------------------------------------------------
(* The theorems. *)

LEMMA InitIInv == Init => IInv
<1> SUFFICES ASSUME Init PROVE IInv
  OBVIOUS
<1>1. TypeOK
  <2>1. reload \in [pc : {"idle", "cleaning", "awaiting", "stopping", "terming"},
                    asker : WorkerOrNone, child : WorkerOrNone]
    BY DEF Init, NoReload, WorkerOrNone
  <2>2. asked \in 0..MaxRequests /\ crashes \in 0..MaxCrashes /\ failures \in 0..MaxFailures
    BY SupervisorBounds DEF Init
  <2>3. reloads \in Seq(Workers) /\ inbox \in [Workers -> Seq(Messages)]
    BY DEF Init
  <2> QED BY <2>1, <2>2, <2>3 DEF Init, TypeOK, WorkerOrNone
<1>2. Mail
  BY DEF Init, Mail, MailOf
<1>3. Known
  BY DEF Init, Known, KnownOf
<1>4. Askers
  BY DEF Init, Askers, NoReload
<1>5. Beginning
  BY DEF Init, Beginning
<1>6. Fresh /\ Chosen /\ Service /\ Lone
  BY DEF Init, Fresh, Chosen, Service, Begun, Lone, Sole, Early
<1>7. OneAsk
  BY DEF Init, OneAsk, OnlyOne, Asks, NoReload
<1> QED BY <1>1, <1>2, <1>3, <1>4, <1>5, <1>6, <1>7 DEF IInv

\* The fields of the supervisor, the workers' messages and their processes agree
\* as IInv says, in every reachable state.
THEOREM Invariance == Spec => []IInv
<1>1. IInv /\ [Next]_vars => IInv'
  BY TypeStep, MailStep, KnownStep, AskersStep, BeginningStep, FreshStep, ChosenStep,
     ServiceStep, OneAskStep, LoneStep DEF IInv, Within
<1> QED BY <1>1, InitIInv, PTL DEF Spec

\* RuntimeSupervisor.reloadWorker, setWorkerActive and shutdownWorker: after one
\* reload at most, and no crash, no worker but this.worker serves.
THEOREM WorkersRight == Spec => []WorkersKnown
<1>1. IInv => NoOrphans
  <2> SUFFICES ASSUME IInv, crashes = 0, asked <= 1, host = "running", reload.pc = "idle",
                      NEW w \in Workers, proc[w] = "serving", w \notin killed
               PROVE  w = worker
    BY DEF NoOrphans
  <2>1. Sole
    BY DEF IInv, Sole, Early, Beginning
  <2>2. OnlyLive
    BY <2>1 DEF IInv, Lone
  <2> QED BY <2>2 DEF OnlyLive, Live
<1>2. IInv => WorkersKnown
  BY <1>1 DEF IInv, WorkersKnown
<1> QED BY <1>2, Invariance, PTL

\* RuntimeSupervisor.reloadWorker: with no crash, a worker serves, known to the
\* supervisor, for as long as the host runs, through any number of reloads.
THEOREM ServiceRight == Spec => []ServiceKept
<1>1. IInv => ServiceKept
  BY DEF IInv, ServiceKept, Service, Begun, Early, Beginning, Serves
<1> QED BY <1>1, Invariance, PTL


-----------------------------------------------------------------------------
(* Hosts of the Control API: their supervisors, commands and record.       *)

\* What a supervisor says of its worker agrees with its host: a worker that may
\* serve is that of main, or of the start under way.
ServesHost(h, s) ==
    /\ sup[s].st \in {"up", "down", "idle", "stopping"} => hosts[h].main = s
    /\ sup[s].st \in {"cleaning", "booting"} =>
         hosts[h].main = s \/ (hosts[h].main = Nobody /\ hosts[h].job.sup = s)
    /\ sup[s].st = "failed" => hosts[h].main = Nobody /\ hosts[h].job.sup = s

\* A stray is nobody's main.
Strayed(h, s) ==
    /\ sup[s].st \in {"cleaning", "booting", "up", "over"}
    /\ hosts[h].main # s /\ hosts[h].job.sup # s

LeftBehind(h, s) ==
    /\ sup[s].st \in {"up", "over"}
    /\ sup[s].st = "up" => hosts[h].crashed \/ hosts[h].outlived \/ sup[s].stray

SupRight(s) ==
    /\ sup[s].st = "unused" <=> sup[s].host = Nobody
    /\ sup[s].host # Nobody =>
         /\ hosts[sup[s].host].st \notin {"unborn", "spawned"}
         /\ hosts[sup[s].host].st = "dead" => LeftBehind(sup[s].host, s)
         /\ hosts[sup[s].host].st # "dead" =>
              IF sup[s].stray THEN Strayed(sup[s].host, s) ELSE ServesHost(sup[s].host, s)

\* A host has a main, or starts one, or neither, and only while it lives.
MainRight(h) ==
    hosts[h].main # Nobody =>
      /\ Alive(h)
      /\ sup[hosts[h].main].host = h /\ ~sup[hosts[h].main].stray
      /\ sup[hosts[h].main].st \notin {"unused", "over", "failed"}

JobRightOf(h) ==
    /\ hosts[h].job.sup # Nobody <=> hosts[h].job.at = "starting"
    /\ hosts[h].job.sup # Nobody =>
         /\ Alive(h) /\ hosts[h].main = Nobody
         /\ sup[hosts[h].job.sup].host = h /\ ~sup[hosts[h].job.sup].stray
         /\ sup[hosts[h].job.sup].st \in {"cleaning", "booting", "failed"}

StageRight(h) ==
    /\ hosts[h].st \in {"unborn", "spawned"} =>
         hosts[h].main = Nobody /\ hosts[h].job = Idle /\ hosts[h].queue = <<>>
    /\ hosts[h].st = "starting" => hosts[h].job.at = "starting"
    /\ hosts[h].st = "plane" =>
         hosts[h].main # Nobody /\ sup[hosts[h].main].st = "stopping"
    /\ hosts[h].st = "stopped" =>
         hosts[h].outlived \/ (hosts[h].main = Nobody /\ hosts[h].job.sup = Nobody)
    /\ hosts[h].kept => hosts[h].main # Nobody /\ sup[hosts[h].main].st # "stopping"

HostRight(h) == MainRight(h) /\ JobRightOf(h) /\ StageRight(h)

\* A command that speaks to a host knows it; who asked for its end finds it told so.
ClientRight(c) ==
    /\ client[c].cmd = conf.cmds[c]
    /\ client[c].pc \in {"request", "waiting", "held", "clearing", "leased", "killed"} =>
         client[c].target \in Hosts
    /\ client[c].pc = "clearing" => hosts[client[c].target].shut

\* One host at a time, but for those spawned beside another.
Alone == clash.twice \/ \A g, h \in Hosts : Alive(g) /\ Alive(h) => g = h

ControlTypes ==
    /\ conf \in Scenarios
    /\ hosts \in [Hosts -> HostType]
    /\ sup \in [Sups -> SupType]
    /\ record \in Hosts \cup {Nobody}
    /\ client \in [Clients -> ClientType]
    /\ faults \in 0..conf.faults
    /\ clash \in [twice : BOOLEAN, stolen : BOOLEAN]

SupsRight == \A s \in Sups : SupRight(s)
HostsRight == \A h \in Hosts : HostRight(h)
ClientsRight == \A c \in Clients : ClientRight(c)
ControlInv ==
    ControlTypes /\ SupsRight /\ HostsRight /\ ClientsRight /\ Alone /\ RecordTells

-----------------------------------------------------------------------------
(* One host moves, and perhaps tells its main to stop. *)

Placed(h, rec) ==
    /\ hosts' \in [Hosts -> HostType']
    /\ hosts'[h] = rec
    /\ \A g \in Hosts : g # h => hosts'[g] = hosts[g]

SupPlaced(s, st) ==
    /\ sup' \in [Sups -> SupType]
    /\ sup'[s].host = sup[s].host /\ sup'[s].stray = sup[s].stray /\ sup'[s].st = st
    /\ \A t \in Sups : t # s => sup'[t] = sup[t]

SupLost(s, st) ==
    /\ sup' \in [Sups -> SupType]
    /\ sup'[s].host = sup[s].host /\ sup'[s].stray /\ sup'[s].st = st
    /\ \A t \in Sups : t # s => sup'[t] = sup[t]

\* A row written over that of one host.
LEMMA Putting ==
  ASSUME ControlTypes, conf' = conf, NEW h \in Hosts, NEW rec \in HostType, Put(h, rec)
  PROVE  Placed(h, rec)
<1>1. HostType' = HostType
  BY DEF HostType
<1> QED BY <1>1 DEF ControlTypes, Placed, Put

\* The state of one supervisor.
LEMMA PuttingSup ==
  ASSUME ControlTypes, NEW s \in Sups, NEW st,
         st \in {"unused", "cleaning", "booting", "up", "down", "idle", "failed", "stopping", "over"},
         sup' = PutSup(s, st)
  PROVE  SupPlaced(s, st)
<1> DEFINE row == [sup[s] EXCEPT !.st = st]
<1>1. sup \in [Sups -> SupType] /\ sup[s] \in SupType
  BY DEF ControlTypes
<1>2. row \in SupType /\ row.host = sup[s].host /\ row.stray = sup[s].stray /\ row.st = st
  BY <1>1 DEF SupType
<1>3. sup' = [sup EXCEPT ![s] = row]
  BY DEF PutSup
<1> HIDE DEF row
<1> QED BY <1>1, <1>2, <1>3 DEF SupPlaced

LEMMA PuttingStray ==
  ASSUME ControlTypes, NEW s \in Sups, NEW st,
         st \in {"unused", "cleaning", "booting", "up", "down", "idle", "failed", "stopping", "over"},
         sup' = PutStray(s, st)
  PROVE  SupLost(s, st)
<1> DEFINE row == [sup[s] EXCEPT !.st = st, !.stray = TRUE]
<1>1. sup \in [Sups -> SupType] /\ sup[s] \in SupType
  BY DEF ControlTypes
<1>2. row \in SupType /\ row.host = sup[s].host /\ row.stray /\ row.st = st
  BY <1>1 DEF SupType
<1>3. sup' = [sup EXCEPT ![s] = row]
  BY DEF PutStray
<1> HIDE DEF row
<1> QED BY <1>1, <1>2, <1>3 DEF SupLost

\* A stop leaves the supervisor behind, at once or in the end.
LeftOver(s) == SupPlaced(s, "over") \/ SupLost(s, "cleaning") \/ SupLost(s, "up")

LEMMA MainHalts ==
  ASSUME ControlTypes, NEW s \in Sups, sup' = HaltMain(s)
  PROVE  IF Workerless(s) THEN LeftOver(s) ELSE SupPlaced(s, "stopping")
<1>1. CASE sup[s].st = "cleaning"
  BY <1>1, PuttingStray DEF HaltMain, Workerless, LeftOver
<1>2. CASE sup[s].st # "cleaning" /\ Workerless(s)
  BY <1>2, PuttingSup DEF HaltMain, LeftOver
<1>3. CASE ~Workerless(s)
  <2>1. sup' = PutSup(s, "stopping")
    BY <1>3 DEF HaltMain, Workerless
  <2> QED BY <1>3, <2>1, PuttingSup
<1> QED BY <1>1, <1>2, <1>3

LEMMA ForgetsRow ==
  ASSUME NEW rec \in HostType
  PROVE  /\ Forgets(rec) \in HostType /\ Forgets(rec).main = Nobody /\ ~Forgets(rec).kept
         /\ Forgets(rec).st = (IF rec.st = "plane" THEN "stopped" ELSE rec.st)
         /\ Forgets(rec).job = rec.job /\ Forgets(rec).queue = rec.queue
         /\ Forgets(rec).shut = rec.shut /\ Forgets(rec).foreground = rec.foreground
         /\ Forgets(rec).outlived = rec.outlived /\ Forgets(rec).crashed = rec.crashed
BY DEF Forgets, HostType

\* What keeps of a host's row while its main and its start stay what they are.
Mild(a, b) ==
    /\ b.main = a.main /\ b.job.sup = a.job.sup
    /\ b.job.at = "starting" <=> a.job.at = "starting"
    /\ b.crashed = a.crashed /\ (a.outlived => b.outlived)
    /\ b.st = "dead" <=> a.st = "dead"
    /\ b.st = "starting" => a.st = "starting"
    /\ b.st = "unborn" => a.st = "unborn"
    /\ b.st \in {"unborn", "spawned"} =>
         a.st \in {"unborn", "spawned"} /\ b.queue = a.queue /\ b.job = a.job
    /\ b.st = "stopped" =>
         a.st = "stopped" \/ b.outlived \/ (b.main = Nobody /\ b.job.sup = Nobody)

\* Main is left alone, or halted, or let go.
Unhalted(a, b) ==
    /\ sup' = sup
    /\ b.st = "plane" => a.st = "plane"
    /\ b.kept => a.kept \/ (a.main # Nobody /\ sup[a.main].st # "stopping")

Halts(a, b) ==
    /\ a.main # Nobody /\ ~Workerless(a.main) /\ sup' = HaltMain(a.main)
    /\ ~b.kept

Drops(a, b) ==
    /\ a.main # Nobody /\ LeftOver(a.main)
    /\ \E r \in HostType : Mild(a, r) /\ b = Forgets(r)

Moves(a, b) == Drops(a, b) \/ (Mild(a, b) /\ (Unhalted(a, b) \/ Halts(a, b)))

\* Nothing the record is about has become more.
Calm(a, b) ==
    /\ b.st \notin {"unborn", "dead"} => a.st \notin {"unborn", "dead"}
    /\ b.st = "open" /\ ~b.shut /\ b.foreground = "waiting" =>
         a.st = "open" /\ ~a.shut /\ a.foreground = "waiting"
    /\ b.st = "dead" => a.st = "dead" \/ b.crashed
    /\ a.crashed => b.crashed

\* What main and a start say holds of the hosts and the supervisors that a step
\* of the host h leaves alone.
Elsewhere(h) ==
    /\ \A g \in Hosts : g # h => hosts'[g] = hosts[g]
    /\ \A t \in Sups :
         /\ sup[t].host \notin {h, Nobody} => sup'[t] = sup[t]
         /\ sup[t].host = Nobody => sup'[t] = sup[t] \/ sup'[t].host = h
         /\ sup[t].host = h => sup'[t].host = h

LEMMA Apart ==
  ASSUME ControlTypes, SupsRight, HostsRight, NEW h \in Hosts, Elsewhere(h)
  PROVE  /\ \A g \in Hosts : g # h => HostRight(g)'
         /\ \A t \in Sups : sup'[t].host # h => SupRight(t)'
<1>0. Nobody \notin Hosts /\ Nobody \notin Sups
  BY ControlAssumption
<1>1. ASSUME NEW g \in Hosts, g # h
      PROVE  HostRight(g)'
  <2>1. hosts'[g] = hosts[g] /\ HostRight(g)
    BY <1>1 DEF Elsewhere, HostsRight
  <2>2. hosts[g] \in HostType
    BY DEF ControlTypes
  <2>3. hosts[g].main \in Sups \cup {Nobody} /\ hosts[g].job.sup \in Sups \cup {Nobody}
    BY <2>2 DEF HostType
  <2>4. hosts[g].main # Nobody => sup'[hosts[g].main] = sup[hosts[g].main]
    BY <1>0, <1>1, <2>1, <2>3 DEF Elsewhere, HostRight, MainRight
  <2>5. hosts[g].job.sup # Nobody => sup'[hosts[g].job.sup] = sup[hosts[g].job.sup]
    BY <1>0, <1>1, <2>1, <2>3 DEF Elsewhere, HostRight, JobRightOf
  <2>6. MainRight(g)'
    BY <2>1, <2>4 DEF HostRight, MainRight, Alive
  <2>7. JobRightOf(g)'
    BY <2>1, <2>5 DEF HostRight, JobRightOf, Alive
  <2>8. StageRight(g)'
    BY <2>1, <2>4 DEF HostRight, StageRight, Idle
  <2> QED BY <2>6, <2>7, <2>8 DEF HostRight
<1>2. ASSUME NEW t \in Sups, sup'[t].host # h
      PROVE  SupRight(t)'
  <2>1. sup'[t] = sup[t]
    BY <1>2 DEF Elsewhere
  <2>2. sup[t].host # Nobody => sup[t].host \in Hosts
    BY DEF ControlTypes, SupType
  <2>3. sup[t].host # Nobody => hosts'[sup[t].host] = hosts[sup[t].host]
    BY <1>2, <2>1, <2>2 DEF Elsewhere
  <2>4. SupRight(t)
    BY DEF SupsRight
  <2> QED BY <2>1, <2>3, <2>4 DEF SupRight, ServesHost, Strayed, LeftBehind
<1> QED BY <1>1, <1>2

\* Main is what it was, or is told to stop.
MainMoves(a) ==
    /\ \A t \in Sups : sup'[t].host = sup[t].host /\ sup'[t].stray = sup[t].stray
    /\ \A t \in Sups : sup'[t] = sup[t] \/ (t = a.main /\ sup'[t].st = "stopping")

LEMMA MovesMain ==
  ASSUME ControlTypes, NEW h \in Hosts, NEW b, Unhalted(hosts[h], b) \/ Halts(hosts[h], b)
  PROVE  MainMoves(hosts[h])
<1>1. hosts[h].main \in Sups \cup {Nobody}
  BY DEF ControlTypes, HostType
<1>2. CASE Unhalted(hosts[h], b)
  BY <1>2 DEF Unhalted, MainMoves
<1>3. CASE Halts(hosts[h], b)
  <2>1. SupPlaced(hosts[h].main, "stopping")
    BY <1>1, <1>3, MainHalts DEF Halts
  <2> QED BY <2>1 DEF SupPlaced, MainMoves
<1> QED BY <1>2, <1>3

\* A host that has let its main go is right, and so are the supervisors.
LEMMA MainGone ==
  ASSUME ControlTypes, ControlTypes', SupsRight, HostsRight,
         NEW h \in Hosts, hosts[h].main # Nobody, LeftOver(hosts[h].main),
         NEW r \in HostType, Mild(hosts[h], r), Placed(h, Forgets(r))
  PROVE  SupsRight' /\ HostsRight'
<1> DEFINE a == hosts[h]
           s == a.main
           b == Forgets(r)
<1>0. Nobody \notin Hosts /\ Nobody \notin Sups
  BY ControlAssumption
<1>1. /\ a \in HostType /\ HostRight(h) /\ s \in Sups /\ hosts'[h] = b
  BY DEF ControlTypes, HostsRight, Placed, HostType
<1>2. /\ Alive(h) /\ a.st \notin {"unborn", "spawned", "dead"} /\ a.job.sup = Nobody
      /\ sup[s].host = h /\ ~sup[s].stray
  BY <1>0, <1>1 DEF HostRight, MainRight, JobRightOf, StageRight, Alive
<1>3. /\ b.main = Nobody /\ ~b.kept /\ b.job.sup = Nobody /\ b.job.at # "starting"
      /\ b.st \notin {"unborn", "spawned", "starting", "dead", "plane"}
  <2>1. r.job.sup = Nobody /\ r.job.at # "starting" /\ r.st \notin {"unborn", "spawned", "starting", "dead"}
    BY <1>0, <1>1, <1>2 DEF Mild, HostRight, JobRightOf, StageRight
  <2> HIDE DEF b
  <2>2. /\ b.main = Nobody /\ ~b.kept /\ b.job = r.job
        /\ b.st = (IF r.st = "plane" THEN "stopped" ELSE r.st)
    BY ForgetsRow DEF b
  <2> QED BY <2>1, <2>2
<1> HIDE DEF b
<1>4. /\ sup'[s].host = h
      /\ sup'[s].st = "over" \/ (sup'[s].stray /\ sup'[s].st \in {"cleaning", "up"})
      /\ \A t \in Sups : t # s => sup'[t] = sup[t]
  BY <1>2 DEF LeftOver, SupPlaced, SupLost
<1>5. Elsewhere(h)
  BY <1>0, <1>2, <1>4 DEF Elsewhere, Placed
<1>6. HostRight(h)'
  <2>1. MainRight(h)'
    BY <1>1, <1>3 DEF MainRight
  <2>2. JobRightOf(h)'
    BY <1>1, <1>3 DEF JobRightOf
  <2>3. StageRight(h)'
    BY <1>1, <1>3 DEF StageRight
  <2> QED BY <2>1, <2>2, <2>3 DEF HostRight
<1>7. ASSUME NEW t \in Sups, sup'[t].host = h
      PROVE  SupRight(t)'
  <2>1. CASE t = s
    BY <1>0, <1>1, <1>3, <1>4, <2>1 DEF SupRight, ServesHost, Strayed
  <2>2. CASE t # s
    <3>1. sup'[t] = sup[t] /\ SupRight(t) /\ sup[t].host = h
      BY <1>4, <1>7, <2>2 DEF SupsRight
    <3>2. sup[t].st = "over" \/ (sup[t].stray /\ Strayed(h, t))
      BY <1>0, <1>2, <2>2, <3>1 DEF SupRight, ServesHost, ControlTypes, SupType
    <3> QED BY <1>0, <1>1, <1>3, <3>1, <3>2 DEF SupRight, ServesHost, Strayed
  <2> QED BY <2>1, <2>2
<1>8. (\A g \in Hosts : g # h => HostRight(g)') /\ (\A t \in Sups : sup'[t].host # h => SupRight(t)')
  BY <1>5, Apart
<1> QED BY <1>6, <1>7, <1>8 DEF SupsRight, HostsRight

\* A host that moves mildly is right, and so are its supervisors.
LEMMA HostMoves ==
  ASSUME ControlTypes, ControlTypes', SupsRight, HostsRight,
         NEW h \in Hosts, NEW b, Placed(h, b), Moves(hosts[h], b)
  PROVE  SupsRight' /\ HostsRight'
<1> DEFINE a == hosts[h]
<1>d. CASE Drops(a, b)
  BY <1>d, MainGone DEF Drops
<1> SUFFICES ASSUME Mild(a, b), Unhalted(a, b) \/ Halts(a, b)
             PROVE  SupsRight' /\ HostsRight'
  BY <1>d DEF Moves
<1>0. Nobody \notin Hosts /\ Nobody \notin Sups
  BY ControlAssumption
<1>1. /\ a \in HostType /\ HostRight(h) /\ Mild(a, b) /\ hosts'[h] = b
      /\ MainMoves(a)
  BY MovesMain DEF ControlTypes, HostsRight, Placed
<1>2. /\ a.main \in Sups \cup {Nobody} /\ a.job.sup \in Sups \cup {Nobody}
      /\ b.main = a.main /\ b.job.sup = a.job.sup
  BY <1>1 DEF HostType, Mild
<1>3. Elsewhere(h)
  <2>1. ASSUME NEW t \in Sups, sup[t].host # h
        PROVE  sup'[t] = sup[t]
    <3>1. t # a.main
      BY <1>0, <1>1, <2>1 DEF HostRight, MainRight
    <3> QED BY <1>1, <3>1 DEF MainMoves
  <2>2. \A t \in Sups : sup[t].host = h => sup'[t].host = h
    BY <1>1 DEF MainMoves
  <2> QED BY <2>1, <2>2 DEF Elsewhere, Placed
<1>4. HostRight(h)'
  <2>0. Alive(h) => Alive(h)'
    BY <1>1 DEF Alive, Mild
  <2>1. MainRight(h)'
    BY <1>0, <1>1, <1>2, <2>0 DEF HostRight, MainRight, MainMoves
  <2>2. JobRightOf(h)'
    <3>1. a.job.sup # Nobody => sup'[a.job.sup] = sup[a.job.sup]
      BY <1>0, <1>1, <1>2 DEF HostRight, JobRightOf, MainMoves
    <3>2. a.job.sup # Nobody <=> b.job.at = "starting"
      BY <1>1 DEF HostRight, JobRightOf, Mild
    <3> QED BY <1>0, <1>1, <1>2, <2>0, <3>1, <3>2 DEF HostRight, JobRightOf
  <2>3. StageRight(h)'
    <3>1. b.st \in {"unborn", "spawned"} => b.main = Nobody /\ b.job = Idle /\ b.queue = <<>>
      BY <1>1 DEF HostRight, StageRight, Mild
    <3>2. b.st = "starting" => b.job.at = "starting"
      BY <1>1 DEF HostRight, StageRight, Mild
    <3>3. b.st = "stopped" => b.outlived \/ (b.main = Nobody /\ b.job.sup = Nobody)
      BY <1>1 DEF HostRight, StageRight, Mild
    <3>4. /\ b.st = "plane" => b.main # Nobody /\ sup'[b.main].st = "stopping"
          /\ b.kept => b.main # Nobody /\ sup'[b.main].st # "stopping"
      <4>1. CASE Unhalted(a, b)
        BY <1>1, <1>2, <4>1 DEF HostRight, StageRight, Unhalted
      <4>2. CASE Halts(a, b)
        <5>1. SupPlaced(a.main, "stopping")
          BY <1>2, <4>2, MainHalts DEF Halts
        <5> QED BY <1>2, <4>2, <5>1 DEF SupPlaced, Halts
      <4> QED BY <4>1, <4>2
    <3> QED BY <1>1, <3>1, <3>2, <3>3, <3>4 DEF StageRight, Idle
  <2> QED BY <2>1, <2>2, <2>3 DEF HostRight
<1>5. ASSUME NEW t \in Sups, sup'[t].host = h
      PROVE  SupRight(t)'
  <2>1. sup[t].host = h /\ SupRight(t)
    BY <1>1, <1>5 DEF MainMoves, SupsRight
  <2>2. a.st \notin {"unborn", "spawned"} => b.st \notin {"unborn", "spawned"}
    BY <1>1 DEF Mild
  <2>3. CASE sup'[t] = sup[t]
    BY <1>0, <1>1, <1>2, <2>1, <2>2, <2>3 DEF SupRight, ServesHost, Strayed, LeftBehind, Mild
  <2>4. CASE t = a.main /\ sup'[t].st = "stopping"
    <3>1. a.st # "dead" /\ ~sup'[t].stray
      BY <1>0, <1>1, <2>4 DEF HostRight, MainRight, MainMoves, Alive
    <3> QED BY <1>0, <1>1, <1>2, <1>5, <2>1, <2>2, <2>4, <3>1 DEF SupRight, ServesHost, Mild
  <2> QED BY <1>1, <2>3, <2>4 DEF MainMoves
<1>6. (\A g \in Hosts : g # h => HostRight(g)') /\ (\A t \in Sups : sup'[t].host # h => SupRight(t)')
  BY <1>3, Apart
<1> QED BY <1>4, <1>5, <1>6 DEF SupsRight, HostsRight

-----------------------------------------------------------------------------
(* Workers move, and the supervisors with them. *)

To(t, st) == sup'[t].st = st
WorkerMove(t) ==
    /\ sup'[t].host = sup[t].host /\ sup'[t].stray = sup[t].stray
    /\ \/ To(t, sup[t].st)
       \/ sup[t].st = "cleaning" /\ To(t, "booting")
       \/ sup[t].st = "booting" /\ hosts[sup[t].host].main # t /\ ~sup[t].stray /\ To(t, "failed")
       \/ sup[t].st = "booting" /\ hosts[sup[t].host].main = t /\ To(t, "idle")
       \/ sup[t].st = "booting" /\ hosts[sup[t].host].main = t /\ To(t, "up")
       \/ sup[t].st = "booting" /\ sup[t].stray /\ To(t, "up")
       \/ sup[t].st = "up" /\ Alive(sup[t].host) /\ ~sup[t].stray /\ To(t, "down")
       \/ sup[t].st \in {"booting", "up"} /\ (sup[t].stray \/ ~Alive(sup[t].host)) /\ To(t, "over")
       \/ sup[t].st = "down" /\ To(t, "cleaning")

WorkersMove == hosts' = hosts /\ \A t \in Sups : WorkerMove(t)

LEMMA WorkersMoved ==
  ASSUME ControlTypes, ControlTypes', SupsRight, HostsRight, WorkersMove
  PROVE  SupsRight' /\ HostsRight'
<1>0. Nobody \notin Hosts /\ Nobody \notin Sups
  BY ControlAssumption
<1>1. ASSUME NEW t \in Sups
      PROVE  SupRight(t)'
  <2>1. SupRight(t) /\ WorkerMove(t) /\ hosts' = hosts
    BY DEF SupsRight, WorkersMove
  <2>2. sup[t].host # Nobody => sup[t].host \in Hosts
    BY DEF ControlTypes, SupType
  <2>3. CASE sup[t].host = Nobody
    BY <2>1, <2>3 DEF SupRight, WorkerMove, To
  <2>4. CASE sup[t].host # Nobody
    <3> DEFINE h == sup[t].host
    <3>1. /\ sup[t].st # "unused" /\ hosts[h].st \notin {"unborn", "spawned"}
          /\ Alive(h) <=> hosts[h].st # "dead"
      BY <2>1, <2>4 DEF SupRight, Alive
    <3>2. hosts[h].st = "dead" => LeftBehind(h, t)'
      BY <2>1, <2>4, <3>1 DEF SupRight, LeftBehind, WorkerMove, To
    <3>3. hosts[h].st # "dead" => IF sup[t].stray THEN Strayed(h, t)' ELSE ServesHost(h, t)'
      BY <2>1, <2>4, <3>1 DEF SupRight, ServesHost, Strayed, WorkerMove, To
    <3>4. sup'[t].st # "unused" /\ sup'[t].host = h /\ sup'[t].stray = sup[t].stray
      BY <2>1, <3>1 DEF WorkerMove, To
    <3> QED BY <2>1, <2>4, <3>1, <3>2, <3>3, <3>4 DEF SupRight, LeftBehind, ServesHost, Strayed
  <2> QED BY <2>3, <2>4
<1>2. ASSUME NEW h \in Hosts
      PROVE  HostRight(h)'
  <2>1. HostRight(h) /\ hosts' = hosts /\ \A t \in Sups : WorkerMove(t)
    BY DEF HostsRight, WorkersMove
  <2>2. hosts[h].main \in Sups \cup {Nobody} /\ hosts[h].job.sup \in Sups \cup {Nobody}
    BY DEF ControlTypes, HostType
  <2>3. MainRight(h)'
    BY <1>0, <2>1, <2>2 DEF HostRight, MainRight, Alive, WorkerMove, To
  <2>4. JobRightOf(h)'
    BY <1>0, <2>1, <2>2 DEF HostRight, JobRightOf, Alive, WorkerMove, To
  <2>5. hosts[h].main # Nobody => (sup[hosts[h].main].st = "stopping" <=> To(hosts[h].main, "stopping"))
    BY <2>1, <2>2 DEF WorkerMove, To
  <2>6. StageRight(h)'
    BY <2>1, <2>2, <2>5 DEF HostRight, StageRight, Idle, To
  <2> QED BY <2>3, <2>4, <2>6 DEF HostRight
<1> QED BY <1>1, <1>2 DEF SupsRight, HostsRight

-----------------------------------------------------------------------------
(* The commands, and the record. *)

\* A command goes on, and knows the host it turns to.
ClientMove(c) ==
    /\ client'[c].cmd = client[c].cmd
    /\ \/ client'[c].target = client[c].target /\ client'[c].pc = client[c].pc
       \/ client'[c].pc \in {"begin", "polling", "done", "failed"}
       \/ /\ client'[c].pc \in {"request", "waiting", "held", "leased", "killed"}
          /\ client'[c].target \in Hosts
       \/ client'[c].target \in Hosts /\ hosts'[client'[c].target].shut

ClientsMove == \A c \in Clients : ClientMove(c)
StayShut == \A h \in Hosts : hosts[h].shut => hosts'[h].shut

LEMMA ClientsKnow ==
  ASSUME ControlTypes, ClientsRight, conf' = conf, ClientsMove, StayShut
  PROVE  ClientsRight'
<1> SUFFICES ASSUME NEW c \in Clients
             PROVE  ClientRight(c)'
  BY DEF ClientsRight
<1>1. ClientRight(c) /\ ClientMove(c)
  BY DEF ClientsRight, ClientsMove
<1> QED BY <1>1 DEF ClientRight, ClientMove, StayShut

\* Commands that are answered, or cut off.
LEMMA AnsweredMove ==
  ASSUME ControlTypes, NEW d \in Clients \cup {Nobody}, NEW result \in {"done", "failed"},
         client' = Answered(d, result)
  PROVE  ClientsMove /\ client' \in [Clients -> ClientType]
<1>1. CASE d = Nobody
  BY <1>1 DEF Answered, ClientsMove, ClientMove, ControlTypes
<1>2. CASE d # Nobody
  <2> DEFINE row == [client[d] EXCEPT !.pc = IF client[d].pc = "waiting" THEN result ELSE client[d].pc]
  <2>1. client \in [Clients -> ClientType] /\ d \in Clients /\ client[d] \in ClientType
    BY <1>2 DEF ControlTypes
  <2>2. /\ row \in ClientType /\ row.cmd = client[d].cmd /\ row.target = client[d].target
        /\ row.pc = client[d].pc \/ row.pc \in {"done", "failed"}
    BY <2>1 DEF ClientType, Ended
  <2>3. client' = [client EXCEPT ![d] = row]
    BY <1>2 DEF Answered
  <2> HIDE DEF row
  <2> QED BY <2>1, <2>2, <2>3 DEF ClientsMove, ClientMove
<1> QED BY <1>1, <1>2

LEMMA MoveMoves ==
  ASSUME ControlTypes, NEW c \in Clients,
         NEW pc \in {"polling", "waiting", "done", "failed", "leased", "killed", "clearing"},
         Move(c, pc),
         pc \in {"waiting", "leased", "killed"} => client[c].target \in Hosts,
         pc = "clearing" => client[c].target \in Hosts /\ hosts'[client[c].target].shut
  PROVE  ClientsMove /\ client' \in [Clients -> ClientType]
<1> DEFINE row == [client[c] EXCEPT !.pc = pc]
<1>1. client \in [Clients -> ClientType] /\ client[c] \in ClientType
  BY DEF ControlTypes
<1>2. row \in ClientType /\ row.cmd = client[c].cmd /\ row.target = client[c].target /\ row.pc = pc
  BY <1>1 DEF ClientType, Ended
<1>3. client' = [client EXCEPT ![c] = row]
  BY DEF Move
<1> HIDE DEF row
<1> QED BY <1>1, <1>2, <1>3 DEF ClientsMove, ClientMove

\* The record as it was says of the hosts what it did.
RecordRests == /\ record' = record /\ clash' = clash
               /\ \A h \in Hosts : Calm(hosts[h], hosts'[h])

LEMMA RecordHolds ==
  ASSUME ControlTypes, Alone, RecordTells, RecordRests
  PROVE  Alone' /\ RecordTells'
<1>1. \A h \in Hosts : Alive(h)' => Alive(h)
  BY DEF RecordRests, Calm, Alive
<1>2. Alone'
  BY <1>1 DEF Alone, RecordRests
<1>3. \A h \in Hosts : Open(h)' /\ ~hosts'[h].shut /\ hosts'[h].foreground = "waiting" =>
        Open(h) /\ ~hosts[h].shut /\ hosts[h].foreground = "waiting"
  BY DEF RecordRests, Calm, Open
<1>4. \A h \in Hosts : hosts'[h].st # "dead" \/ hosts'[h].crashed \/ ~(hosts[h].st # "dead" \/ hosts[h].crashed)
  BY DEF RecordRests, Calm
<1> QED BY <1>2, <1>3, <1>4 DEF RecordTells, RecordRests

-----------------------------------------------------------------------------
(* The steps of a host that change neither what is main nor the record. *)

Turning(h, b) == Placed(h, b) /\ Moves(hosts[h], b) /\ (hosts[h].shut => b.shut)
Turns(h) == \E b \in HostType : Turning(h, b) /\ Calm(hosts[h], b)

ClientsGo == ClientsMove /\ client' \in [Clients -> ClientType]
Spent == conf' = conf /\ faults' \in Nat /\ faults' <= faults
RecordStays == record' = record /\ clash' = clash

LEMMA FaultsLeft ==
  ASSUME ControlTypes, Spent
  PROVE  conf' \in Scenarios /\ faults' \in 0..conf'.faults
<1>1. conf \in Scenarios /\ conf.faults \in Nat
  BY ControlAssumption DEF ControlTypes
<1> QED BY <1>1 DEF ControlTypes, Spent

LEMMA SameFaults ==
  ASSUME ControlTypes, faults' = faults, conf' = conf
  PROVE  Spent
<1>1. conf \in Scenarios /\ conf.faults \in Nat
  BY ControlAssumption DEF ControlTypes
<1> QED BY <1>1 DEF ControlTypes, Spent

LEMMA LessFaults ==
  ASSUME ControlTypes, faults > 0, faults' = faults - 1, conf' = conf
  PROVE  Spent
<1>1. conf \in Scenarios /\ conf.faults \in Nat
  BY ControlAssumption DEF ControlTypes
<1> QED BY <1>1 DEF ControlTypes, Spent

LEMMA StandStill ==
  ASSUME ControlTypes, client' = client
  PROVE  ClientsGo
BY DEF ClientsGo, ClientsMove, ClientMove, ControlTypes

\* The rest of the invariant follows, whatever the record says.
LEMMA TurningParts ==
  ASSUME ControlInv, NEW h \in Hosts, NEW b \in HostType, Turning(h, b), Spent, ClientsGo,
         record' \in Hosts \cup {Nobody}, clash' \in [twice : BOOLEAN, stolen : BOOLEAN]
  PROVE  ControlTypes' /\ SupsRight' /\ HostsRight' /\ ClientsRight'
<1>1. Placed(h, b) /\ Moves(hosts[h], b) /\ (hosts[h].shut => b.shut)
  BY DEF Turning
<1>2. ControlTypes /\ SupsRight /\ HostsRight /\ ClientsRight
  BY DEF ControlInv
<1>3. sup' \in [Sups -> SupType]
  <2>1. CASE Unhalted(hosts[h], b)
    BY <1>2, <2>1 DEF Unhalted, ControlTypes
  <2>2. CASE Halts(hosts[h], b)
    <3>1. hosts[h].main \in Sups
      BY <1>2, <2>2 DEF Halts, ControlTypes, HostType
    <3> QED BY <1>2, <2>2, <3>1, MainHalts DEF Halts, SupPlaced
  <2>3. CASE Drops(hosts[h], b)
    BY <2>3 DEF Drops, LeftOver, SupPlaced, SupLost
  <2> QED BY <1>1, <2>1, <2>2, <2>3 DEF Moves
<1>4. ControlTypes'
  BY <1>1, <1>2, <1>3, FaultsLeft DEF ControlTypes, Placed, ClientsGo
<1>5. SupsRight' /\ HostsRight'
  BY <1>1, <1>2, <1>4, HostMoves
<1>6. StayShut
  BY <1>1 DEF Placed, StayShut
<1>7. ClientsRight'
  BY <1>2, <1>6, ClientsKnow DEF Spent, ClientsGo
<1> QED BY <1>4, <1>5, <1>7

LEMMA Turned ==
  ASSUME ControlInv, NEW h \in Hosts, Turns(h), Spent, RecordStays, ClientsGo
  PROVE  ControlInv'
<1>1. PICK b \in HostType : Turning(h, b) /\ Calm(hosts[h], b)
  BY DEF Turns
<1>2. ControlTypes /\ Alone /\ RecordTells
  BY DEF ControlInv
<1>3. ControlTypes' /\ SupsRight' /\ HostsRight' /\ ClientsRight'
  BY <1>1, <1>2, TurningParts DEF RecordStays, ControlTypes
<1>4. \A g \in Hosts : Calm(hosts[g], hosts'[g])
  BY <1>1 DEF Turning, Placed, Calm
<1>5. Alone' /\ RecordTells'
  BY <1>2, <1>4, RecordHolds DEF RecordRests, RecordStays
<1> QED BY <1>3, <1>5 DEF ControlInv

\* A row that differs only in its leases.
Like(rec, a) ==
    /\ rec.st = a.st /\ rec.shut = a.shut /\ rec.foreground = a.foreground
    /\ rec.queue = a.queue /\ rec.job = a.job /\ rec.main = a.main /\ rec.kept = a.kept
    /\ rec.outlived = a.outlived /\ rec.crashed = a.crashed

\* The right row of a host in the invariant.
LEMMA RowOf ==
  ASSUME ControlInv, NEW h \in Hosts
  PROVE  ControlTypes /\ hosts[h] \in HostType /\ HostRight(h)
BY DEF ControlInv, ControlTypes, HostsRight

\* A row is written and the rest follows.
LEMMA Writing ==
  ASSUME ControlInv, conf' = conf, NEW h \in Hosts, NEW b \in HostType, Put(h, b),
         Moves(hosts[h], b), Calm(hosts[h], b), hosts[h].shut => b.shut
  PROVE  Turns(h)
<1>1. Placed(h, b)
  BY Putting DEF ControlInv
<1> QED BY <1>1 DEF Turns, Turning

\* Main is told to stop, and is gone at once or later.
LEMMA HaltingTurns ==
  ASSUME ControlInv, conf' = conf, NEW h \in Hosts, NEW r \in HostType, Mild(hosts[h], r),
         Calm(hosts[h], r), hosts[h].shut => r.shut, ~r.kept,
         hosts[h].main # Nobody, sup' = HaltMain(hosts[h].main), Put(h, Halting(r))
  PROVE  Turns(h)
<1> DEFINE a == hosts[h]
<1>1. ControlTypes /\ a.main \in Sups /\ r.main = a.main
  BY RowOf DEF HostType, Mild
<1>2. CASE Workerless(a.main)
  <2>1. Put(h, Forgets(r)) /\ LeftOver(a.main)
    BY <1>1, <1>2, MainHalts DEF Halting
  <2>2. Calm(a, Forgets(r)) /\ (a.shut => Forgets(r).shut) /\ Forgets(r) \in HostType
    BY ForgetsRow DEF Calm
  <2>3. Moves(a, Forgets(r))
    BY <2>1 DEF Moves, Drops
  <2> QED BY <2>1, <2>2, <2>3, Writing
<1>3. CASE ~Workerless(a.main)
  <2>1. Put(h, r)
    BY <1>1, <1>3 DEF Halting
  <2>2. Moves(a, r)
    BY <1>3 DEF Moves, Halts
  <2> QED BY <2>1, <2>2, Writing
<1> QED BY <1>2, <1>3

\* Main stops when the last lease that counts is gone, and not before.
LEMMA Enforcing ==
  ASSUME ControlInv, conf' = conf, NEW h \in Hosts, NEW rec \in HostType, Like(rec, hosts[h]),
         Enforce(h, rec)
  PROVE  Turns(h)
<1> DEFINE a == hosts[h]
           b == [rec EXCEPT !.kept = @ /\ (StopPolicy => rec.leases # {})]
<1>1. ControlTypes /\ a \in HostType /\ HostRight(h)
  BY RowOf
<1>2. /\ b \in HostType
      /\ b.leases = rec.leases /\ (b.kept => a.kept /\ (StopPolicy => rec.leases # {}))
  BY DEF HostType, Like
<1>3. /\ b.st = a.st /\ b.shut = a.shut /\ b.foreground = a.foreground
      /\ b.queue = a.queue /\ b.job = a.job /\ b.main = a.main
      /\ b.outlived = a.outlived /\ b.crashed = a.crashed
  BY DEF HostType, Like
<1>4. IF Enforced(rec) THEN Put(h, Halting(b)) /\ sup' = HaltMain(rec.main)
                       ELSE Put(h, b) /\ sup' = sup
  BY DEF Enforce
<1>5. Enforced(rec) => a.main # Nobody /\ rec.main = a.main /\ ~b.kept
  BY <1>2 DEF Enforced, Like
<1> HIDE DEF b
<1>6. Mild(a, b) /\ Calm(a, b) /\ (a.shut => b.shut)
  BY <1>1, <1>3 DEF Mild, Calm, HostRight, StageRight
<1>7. CASE Enforced(rec)
  BY <1>2, <1>4, <1>5, <1>6, <1>7, HaltingTurns
<1>8. CASE ~Enforced(rec)
  <2>1. Unhalted(a, b)
    BY <1>2, <1>3, <1>4, <1>8 DEF Unhalted
  <2> QED BY <1>2, <1>4, <1>6, <1>8, <2>1, Writing DEF Moves
<1> QED BY <1>7, <1>8

LEMMA EvictedLike ==
  ASSUME NEW rec \in HostType
  PROVE  Evicted(rec) \in HostType /\ Like(Evicted(rec), rec)
BY DEF Evicted, HostType, Like

LEMMA IdleJob ==
  /\ Idle \in [op : Mutations \cup {"idle", "autostart"}, by : Clients \cup {Nobody},
               at : {"idle", "stop", "stopping", "start", "starting", "work"}, sup : Sups \cup {Nobody}]
  /\ Idle.sup = Nobody /\ Idle.at = "idle" /\ Idle.op = "idle" /\ Idle.by = Nobody
BY DEF Idle

LEMMA TickRight ==
  ASSUME ControlInv, NEW h \in Hosts, Tick(h)
  PROVE  ControlInv'
<1>1. ControlTypes /\ hosts[h] \in HostType
  BY RowOf
<1>2. Turns(h)
  BY <1>1, EvictedLike, Enforcing DEF Tick
<1> QED BY <1>1, <1>2, Turned, SameFaults, StandStill DEF Tick, RecordStays

LEMMA WithJob ==
  ASSUME NEW a \in HostType,
         NEW job \in [op : Mutations \cup {"idle", "autostart"}, by : Clients \cup {Nobody},
               at : {"idle", "stop", "stopping", "start", "starting", "work"}, sup : Sups \cup {Nobody}]
  PROVE  [a EXCEPT !.job = job] \in HostType
BY DEF HostType

\* The next mutation of the queue, which one of those commands has asked for.
LEMMA TakeRight ==
  ASSUME ControlInv, NEW h \in Hosts, Take(h)
  PROVE  ControlInv'
<1> DEFINE a == hosts[h]
           c == Head(a.queue)
           job == [Idle EXCEPT !.op = client[c].cmd, !.by = c,
                               !.at = IF client[c].cmd = "start" THEN "start" ELSE "stop"]
           b == [a EXCEPT !.queue = Tail(@), !.job = job]
<1>1. ControlTypes /\ a \in HostType /\ HostRight(h)
  BY RowOf
<1>2. PICK q \in Seq({d \in Clients : conf.cmds[d] \in Mutations}) : q = a.queue
  BY <1>1 DEF HostType
<1>3. q # <<>> /\ Alive(h) /\ a.job = Idle
  BY <1>2 DEF Take
<1>4. c \in Clients /\ conf.cmds[c] \in Mutations
      /\ Tail(q) \in Seq({d \in Clients : conf.cmds[d] \in Mutations})
  BY <1>2, <1>3
<1>5. client[c].cmd \in Mutations
  BY <1>4 DEF ControlInv, ClientsRight, ClientRight
<1>6. /\ job \in [op : Mutations \cup {"idle", "autostart"}, by : Clients \cup {Nobody},
               at : {"idle", "stop", "stopping", "start", "starting", "work"}, sup : Sups \cup {Nobody}]
      /\ job.at # "starting" /\ job.sup = Nobody
  BY <1>4, <1>5 DEF Idle
<1>7. Put(h, b)
  BY DEF Take
<1> HIDE DEF job
<1>8. b \in HostType
  <2> DEFINE one == [a EXCEPT !.queue = Tail(q)]
  <2>1. one \in HostType
    BY <1>1, <1>4 DEF HostType
  <2>2. b = [one EXCEPT !.job = job]
    BY <1>1, <1>2 DEF HostType
  <2> HIDE DEF one, b
  <2> QED BY <1>6, <2>1, <2>2, WithJob
<1>9. /\ b.st = a.st /\ b.shut = a.shut /\ b.foreground = a.foreground /\ b.job = job
      /\ b.main = a.main /\ b.outlived = a.outlived /\ b.crashed = a.crashed /\ b.kept = a.kept
  BY <1>1 DEF HostType
<1>10. a.st \notin {"unborn", "spawned"}
  BY <1>1, <1>2, <1>3 DEF HostRight, StageRight
<1>11. a.st # "starting"
  BY <1>1, <1>3, IdleJob DEF HostRight, StageRight
<1>12. Mild(a, b)
  BY <1>1, <1>3, <1>6, <1>9, <1>10, <1>11, IdleJob DEF Mild, HostRight, StageRight
<1>13. Moves(a, b) /\ Calm(a, b)
  BY <1>1, <1>9, <1>12 DEF Moves, Unhalted, Calm, HostRight, StageRight, Take
<1> HIDE DEF b
<1>14. Turns(h)
  BY <1>7, <1>8, <1>9, <1>13, Writing DEF Take
<1> QED BY <1>1, <1>14, Turned, SameFaults, StandStill DEF Take, RecordStays

\* What a row keeps whose job goes on.
OnJob(r, a) ==
    /\ r.st = a.st /\ r.shut = a.shut /\ r.foreground = a.foreground /\ r.queue = a.queue
    /\ r.main = a.main /\ r.kept = a.kept /\ r.outlived = a.outlived /\ r.crashed = a.crashed

LEMMA JobToRow ==
  ASSUME ControlTypes, NEW h \in Hosts, NEW step \in {"stop", "stopping", "start", "work"}
  PROVE  /\ JobTo(h, step) \in HostType /\ OnJob(JobTo(h, step), hosts[h])
         /\ JobTo(h, step).job.sup = hosts[h].job.sup /\ JobTo(h, step).job.at = step
<1> DEFINE a == hosts[h]
           job == [a.job EXCEPT !.at = step]
<1>1. a \in HostType
  BY DEF ControlTypes
<1>2. a.job \in [op : Mutations \cup {"idle", "autostart"}, by : Clients \cup {Nobody},
               at : {"idle", "stop", "stopping", "start", "starting", "work"}, sup : Sups \cup {Nobody}]
  BY <1>1 DEF HostType
<1>3. /\ job \in [op : Mutations \cup {"idle", "autostart"}, by : Clients \cup {Nobody},
               at : {"idle", "stop", "stopping", "start", "starting", "work"}, sup : Sups \cup {Nobody}]
      /\ job.at = step /\ job.sup = a.job.sup
  BY <1>2
<1>4. JobTo(h, step) = [a EXCEPT !.job = job]
  BY DEF JobTo
<1> HIDE DEF job
<1> QED BY <1>1, <1>3, <1>4 DEF HostType, OnJob

LEMMA FinishedRow ==
  ASSUME NEW rec \in HostType, NEW b, b = [rec EXCEPT !.job = Idle]
  PROVE  b \in HostType /\ OnJob(b, rec) /\ b.job = Idle
BY IdleJob DEF HostType, OnJob

\* A job that is not a start of main goes on or ends, and main is left alone.
LEMMA JobGoes ==
  ASSUME ControlInv, conf' = conf, NEW h \in Hosts, NEW r \in HostType, OnJob(r, hosts[h]),
         Alive(h), hosts[h].job.at \notin {"starting", "idle"}, r.job.at # "starting", r.job.sup = Nobody,
         Put(h, r), sup' = sup
  PROVE  Turns(h)
<1> DEFINE a == hosts[h]
<1>1. ControlTypes /\ a \in HostType /\ HostRight(h)
  BY RowOf
<1>2. a.job # Idle /\ a.job.sup = Nobody
  BY <1>1, IdleJob DEF HostRight, JobRightOf
<1>3. a.st \notin {"unborn", "spawned", "starting"}
  BY <1>1, <1>2 DEF HostRight, StageRight
<1>4. Mild(a, r) /\ Calm(a, r) /\ (a.shut => r.shut)
  BY <1>1, <1>2, <1>3 DEF OnJob, Mild, Calm, HostRight, StageRight
<1>5. Moves(a, r)
  BY <1>4 DEF OnJob, Moves, Unhalted
<1> QED BY <1>4, <1>5, Writing

\* Main is told to stop.
LEMMA StopFirstRight ==
  ASSUME ControlInv, NEW h \in Hosts, StopFirst(h)
  PROVE  ControlInv'
<1> DEFINE a == hosts[h]
           r == JobTo(h, "stopping")
           b == [r EXCEPT !.kept = FALSE]
<1>1. ControlTypes /\ a \in HostType /\ HostRight(h)
  BY RowOf
<1>2. r \in HostType /\ OnJob(r, a) /\ r.job.sup = a.job.sup /\ r.job.at = "stopping"
  BY <1>1, JobToRow
<1>3. Put(h, Halting(b))
  BY DEF StopFirst
<1> HIDE DEF r
<1>4. /\ b \in HostType /\ b.job = r.job /\ ~b.kept
      /\ b.st = a.st /\ b.shut = a.shut /\ b.foreground = a.foreground
      /\ b.main = a.main /\ b.outlived = a.outlived /\ b.crashed = a.crashed
  BY <1>2 DEF HostType, OnJob
<1> HIDE DEF b
<1>5. a.job.at = "stop" /\ Alive(h) /\ a.main # Nobody /\ sup' = HaltMain(a.main)
  BY DEF StopFirst, JobAt
<1>6. a.st \notin {"unborn", "spawned", "starting"}
  BY <1>1, <1>5 DEF HostRight, StageRight
<1>7. Mild(a, b) /\ Calm(a, b) /\ (a.shut => b.shut)
  BY <1>1, <1>2, <1>4, <1>5, <1>6 DEF Mild, Calm, HostRight, StageRight
<1>8. Turns(h)
  BY <1>3, <1>4, <1>5, <1>7, HaltingTurns DEF StopFirst
<1> QED BY <1>1, <1>8, Turned, SameFaults, StandStill DEF StopFirst, RecordStays

LEMMA StoppedRight ==
  ASSUME ControlInv, NEW h \in Hosts, Stopped(h)
  PROVE  ControlInv'
<1> DEFINE a == hosts[h]
           next == IF a.job.op = "restart" THEN "start" ELSE "work"
<1>1. ControlTypes /\ a \in HostType /\ HostRight(h)
  BY RowOf
<1>2. /\ Alive(h) /\ a.job.at \in {"stop", "stopping"} /\ sup' = sup /\ conf' = conf
      /\ record' = record /\ faults' = faults /\ clash' = clash
  BY DEF Stopped, JobAt
<1>3. a.job.sup = Nobody
  BY <1>1, <1>2 DEF HostRight, JobRightOf
<1>4. CASE a.job.op = "stop"
  <2> DEFINE b == [a EXCEPT !.job = Idle]
  <2>1. Put(h, b) /\ client' = Answered(a.job.by, "done")
    BY <1>4 DEF Stopped, Finished
  <2>2. b \in HostType /\ OnJob(b, a) /\ b.job = Idle
    BY <1>1, FinishedRow
  <2> HIDE DEF b
  <2>3. Turns(h)
    BY <1>2, <2>1, <2>2, IdleJob, JobGoes
  <2>4. a.job.by \in Clients \cup {Nobody}
    BY <1>1 DEF HostType
  <2>5. ClientsGo
    BY <1>1, <2>1, <2>4, AnsweredMove DEF ClientsGo
  <2> QED BY <1>1, <1>2, <2>3, <2>5, Turned, SameFaults DEF RecordStays
<1>5. CASE a.job.op # "stop"
  <2>1. Put(h, JobTo(h, next)) /\ client' = client /\ next \in {"start", "work"}
    BY <1>5 DEF Stopped
  <2>2. /\ JobTo(h, next) \in HostType /\ OnJob(JobTo(h, next), a)
        /\ JobTo(h, next).job.sup = a.job.sup /\ JobTo(h, next).job.at = next
    BY <1>1, <2>1, JobToRow
  <2>3. Turns(h)
    BY <1>2, <1>3, <2>1, <2>2, JobGoes
  <2> QED BY <1>1, <1>2, <2>1, <2>3, Turned, SameFaults, StandStill DEF RecordStays
<1> QED BY <1>4, <1>5

-----------------------------------------------------------------------------
(* A main is started. *)

LEMMA Concluding ==
  ASSUME ControlInv, Spent, ControlTypes', SupsRight', HostsRight', ClientsMove, StayShut, RecordRests
  PROVE  ControlInv'
<1>1. ClientsRight'
  BY ClientsKnow DEF ControlInv, Spent
<1>2. Alone' /\ RecordTells'
  BY RecordHolds DEF ControlInv
<1> QED BY <1>1, <1>2 DEF ControlInv

LEMMA TypesFollow ==
  ASSUME ControlInv, Spent, record' \in Hosts \cup {Nobody}, clash' \in [twice : BOOLEAN, stolen : BOOLEAN],
         client' \in [Clients -> ClientType],
         hosts' \in [Hosts -> HostType'], sup' \in [Sups -> SupType]
  PROVE  ControlTypes'
BY FaultsLeft DEF ControlInv, ControlTypes

LEMMA AllStays ==
  ASSUME ControlInv, Spent, RecordStays, ClientsGo, hosts' = hosts, sup' \in [Sups -> SupType]
  PROVE  /\ ControlTypes' /\ ClientsMove /\ StayShut /\ RecordRests
         /\ hosts' \in [Hosts -> HostType']
<1>1. HostType' = HostType
  BY DEF HostType, Spent
<1>2. hosts' \in [Hosts -> HostType']
  BY <1>1 DEF ControlInv, ControlTypes
<1>3. ControlTypes'
  BY <1>2, TypesFollow DEF ControlInv, ControlTypes, RecordStays, ClientsGo
<1> QED BY <1>2, <1>3 DEF ClientsGo, StayShut, RecordRests, RecordStays, Calm

\* A host that starts its main, from a row that may differ in its state and job.
StartsFrom(h, rec) ==
    /\ hosts[h].main = Nobody /\ hosts[h].job.sup = Nobody /\ ~hosts[h].kept
    /\ rec.main = Nobody /\ ~rec.kept /\ rec.shut = hosts[h].shut
    /\ rec.foreground = hosts[h].foreground
    /\ rec.crashed = hosts[h].crashed /\ rec.outlived = hosts[h].outlived
    /\ rec.st \notin {"unborn", "spawned", "dead", "plane"}
    /\ hosts[h].st \notin {"unborn", "dead"}
    /\ rec.st = hosts[h].st \/ rec.st = "starting"

LEMMA StartingMain ==
  ASSUME ControlInv, Spent, RecordStays, NEW h \in Hosts, NEW rec \in HostType, StartsFrom(h, rec),
         StartMain(h, rec, NewSup)
  PROVE  ControlInv'
<1> DEFINE a == hosts[h]
           s == NewSup
           job == [rec.job EXCEPT !.at = "starting", !.sup = s]
           late == rec.outlived \/ rec.st \in {"closing", "plane", "stopped"}
           b == [rec EXCEPT !.job = job, !.outlived = late]
<1>0. Nobody \notin Hosts /\ Nobody \notin Sups
  BY ControlAssumption
<1>1. /\ ControlTypes /\ SupsRight /\ HostsRight
      /\ a \in HostType /\ HostRight(h)
  BY RowOf DEF ControlInv
<1>2. s \in Sups /\ sup[s].st = "unused"
  BY DEF StartMain, NewSup
<1>3. sup[s].host = Nobody
  BY <1>1, <1>2 DEF SupsRight, SupRight
<1>4. /\ job \in [op : Mutations \cup {"idle", "autostart"}, by : Clients \cup {Nobody},
               at : {"idle", "stop", "stopping", "start", "starting", "work"}, sup : Sups \cup {Nobody}]
      /\ job.at = "starting" /\ job.sup = s
  BY <1>2 DEF HostType
<1>5. Put(h, b) /\ client' = client
  BY DEF StartMain
<1> HIDE DEF job
<1>6. /\ b \in HostType /\ b.job = job /\ b.st = rec.st /\ b.main = Nobody /\ ~b.kept
      /\ b.shut = a.shut /\ b.foreground = a.foreground /\ b.crashed = a.crashed
      /\ a.outlived => b.outlived
      /\ b.st = "stopped" => b.outlived
  <2>1. late \in BOOLEAN /\ (rec.outlived => late) /\ (rec.st = "stopped" => late)
    OBVIOUS
  <2> HIDE DEF late
  <2>2. b \in HostType
    BY <1>4, <2>1 DEF HostType
  <2>3. b.job = job /\ b.outlived = late
    BY DEF HostType
  <2>4. /\ b.st = rec.st /\ b.main = rec.main /\ b.kept = rec.kept
        /\ b.shut = rec.shut /\ b.foreground = rec.foreground /\ b.crashed = rec.crashed
    BY DEF HostType
  <2> HIDE DEF b
  <2> QED BY <2>1, <2>2, <2>3, <2>4 DEF StartsFrom
<1> HIDE DEF b, s
<1>7. Placed(h, b)
  BY <1>1, <1>5, <1>6, Putting DEF Spent
<1>8. /\ sup' \in [Sups -> SupType]
      /\ sup'[s] = [host |-> h, st |-> "cleaning", stray |-> FALSE]
      /\ \A t \in Sups : t # s => sup'[t] = sup[t]
  <2>1. sup \in [Sups -> SupType] /\ [host |-> h, st |-> "cleaning", stray |-> FALSE] \in SupType
    BY <1>1 DEF ControlTypes, SupType
  <2>2. sup' = [sup EXCEPT ![s] = [host |-> h, st |-> "cleaning", stray |-> FALSE]]
    BY DEF StartMain, s
  <2> QED BY <1>2, <2>1, <2>2
<1>9. ClientsGo /\ ControlTypes'
  <2>1. ClientsGo
    BY <1>1, <1>5, StandStill
  <2> QED BY <1>1, <1>7, <1>8, <2>1, TypesFollow DEF Placed, ClientsGo, RecordStays, ControlTypes
<1>10. Elsewhere(h)
  BY <1>0, <1>3, <1>7, <1>8 DEF Elsewhere, Placed
<1>11. HostRight(h)'
  <2>1. hosts'[h] = b /\ sup'[s].host = h /\ sup'[s].st = "cleaning" /\ ~sup'[s].stray /\ s # Nobody
    BY <1>0, <1>2, <1>7, <1>8 DEF Placed
  <2>2. MainRight(h)'
    BY <1>6, <2>1 DEF MainRight
  <2>3. JobRightOf(h)'
    BY <1>4, <1>6, <2>1 DEF JobRightOf, Alive, StartsFrom
  <2>4. StageRight(h)'
    BY <1>4, <1>6, <2>1 DEF StageRight, StartsFrom
  <2> QED BY <2>2, <2>3, <2>4 DEF HostRight
<1>12. ASSUME NEW t \in Sups, sup'[t].host = h
       PROVE  SupRight(t)'
  <2>0. hosts'[h] = b
    BY <1>7 DEF Placed
  <2>1. CASE t = s
    BY <1>0, <1>4, <1>6, <1>8, <2>0, <2>1 DEF SupRight, ServesHost, StartsFrom
  <2>2. CASE t # s
    <3>1. sup'[t] = sup[t] /\ SupRight(t)
      BY <1>1, <1>8, <2>2 DEF SupsRight
    <3>2. sup[t].host = h /\ a.st # "dead" /\ a.main = Nobody /\ a.job.sup = Nobody /\ t # Nobody
      BY <1>0, <1>12, <3>1 DEF StartsFrom
    <3>3. sup[t].st = "over" \/ (sup[t].stray /\ Strayed(h, t))
      BY <1>0, <3>1, <3>2, <1>1 DEF SupRight, ServesHost, ControlTypes, SupType
    <3> QED BY <1>0, <1>4, <1>6, <2>0, <2>2, <3>1, <3>2, <3>3
            DEF SupRight, ServesHost, Strayed, StartsFrom
  <2> QED BY <2>1, <2>2
<1>13. SupsRight' /\ HostsRight'
  BY <1>1, <1>9, <1>10, <1>11, <1>12, Apart DEF SupsRight, HostsRight
<1>14. \A g \in Hosts : Calm(hosts[g], hosts'[g]) /\ (hosts[g].shut => hosts'[g].shut)
  <2>1. Calm(a, b) /\ (a.shut => b.shut)
    BY <1>6 DEF Calm, StartsFrom
  <2> QED BY <1>7, <2>1 DEF Placed, Calm
<1> QED BY <1>9, <1>13, <1>14, Concluding DEF ClientsGo, StayShut, RecordRests, RecordStays

LEMMA KeptRow ==
  ASSUME NEW rec \in HostType, NEW b, b = Keep(rec)
  PROVE  /\ b \in HostType
         /\ b.st = rec.st /\ b.shut = rec.shut /\ b.foreground = rec.foreground
         /\ b.queue = rec.queue /\ b.job = rec.job /\ b.main = rec.main
         /\ b.outlived = rec.outlived /\ b.crashed = rec.crashed /\ b.leases = rec.leases
         /\ b.kept => rec.kept \/ (rec.main # Nobody /\ sup[rec.main].st # "stopping")
<1> DEFINE kept == rec.kept \/ Wanted(rec)
<1>1. kept \in BOOLEAN /\ (kept => rec.kept \/ (rec.main # Nobody /\ sup[rec.main].st # "stopping"))
  BY DEF HostType, Wanted
<1>2. b = [rec EXCEPT !.kept = kept]
  BY DEF Keep
<1> HIDE DEF kept
<1> QED BY <1>1, <1>2 DEF HostType

\* The start that a command asks for, with a main that runs already and without.
LEMMA StartRight ==
  ASSUME ControlInv, NEW h \in Hosts, Start(h)
  PROVE  ControlInv'
<1> DEFINE a == hosts[h]
<1>1. ControlTypes /\ a \in HostType /\ HostRight(h)
  BY RowOf
<1>2. /\ Alive(h) /\ a.job.at = "start" /\ conf' = conf
      /\ record' = record /\ faults' = faults /\ clash' = clash
  BY DEF Start, JobAt
<1>3. a.job.sup = Nobody
  BY <1>1, <1>2 DEF HostRight, JobRightOf
<1>4. a.st \notin {"unborn", "spawned", "starting", "dead"}
  BY <1>1, <1>2, IdleJob DEF HostRight, StageRight, Alive
<1>5. CASE ~conf.startable \/ a.main # Nobody
  <2> DEFINE rec == Keep(a)
             b == [rec EXCEPT !.job = Idle]
  <2>1. Put(h, b) /\ client' = Answered(rec.job.by, "done") /\ sup' = sup
    BY <1>5 DEF Start, Finished
  <2>2. /\ rec \in HostType /\ rec.job = a.job
        /\ rec.st = a.st /\ rec.shut = a.shut /\ rec.foreground = a.foreground /\ rec.main = a.main
        /\ rec.outlived = a.outlived /\ rec.crashed = a.crashed
        /\ rec.kept => a.kept \/ (a.main # Nobody /\ sup[a.main].st # "stopping")
    BY <1>1, KeptRow
  <2> HIDE DEF rec
  <2>3. b \in HostType /\ OnJob(b, rec) /\ b.job = Idle
    BY <2>2, FinishedRow
  <2> HIDE DEF b
  <2>4. Mild(a, b) /\ Calm(a, b) /\ (a.shut => b.shut)
    BY <1>1, <1>2, <1>3, <1>4, <2>2, <2>3, IdleJob DEF OnJob, Mild, Calm, HostRight, StageRight
  <2>5. Moves(a, b)
    BY <2>1, <2>2, <2>3, <2>4 DEF OnJob, Moves, Unhalted
  <2>6. Turns(h)
    BY <1>2, <2>1, <2>3, <2>4, <2>5, Writing
  <2>7. rec.job.by \in Clients \cup {Nobody}
    BY <2>2 DEF HostType
  <2>8. ClientsGo
    BY <1>1, <2>1, <2>7, AnsweredMove DEF ClientsGo
  <2> QED BY <1>1, <1>2, <2>6, <2>8, Turned, SameFaults DEF RecordStays
<1>6. CASE ~(~conf.startable \/ a.main # Nobody)
  <2>1. StartMain(h, a, NewSup)
    BY <1>6 DEF Start
  <2>2. StartsFrom(h, a)
    BY <1>1, <1>2, <1>3, <1>4, <1>6 DEF StartsFrom, HostRight, StageRight
  <2> QED BY <1>1, <1>2, <2>1, <2>2, StartingMain, SameFaults DEF RecordStays
<1> QED BY <1>5, <1>6

\* A host comes up, with a main to start or without.
LEMMA BootRight ==
  ASSUME ControlInv, NEW h \in Hosts, Boot(h)
  PROVE  ControlInv'
<1> DEFINE a == hosts[h]
<1>1. ControlTypes /\ a \in HostType /\ HostRight(h)
  BY RowOf
<1>2. /\ a.st = "spawned" /\ conf' = conf
      /\ record' = record /\ faults' = faults /\ clash' = clash
  BY DEF Boot
<1>3. a.main = Nobody /\ a.job = Idle /\ a.queue = <<>> /\ ~a.kept
  BY <1>1, <1>2 DEF HostRight, StageRight
<1>4. CASE conf.autostart /\ conf.startable
  <2> DEFINE job == [Idle EXCEPT !.op = "autostart"]
             rec == [a EXCEPT !.st = "starting", !.job = job]
  <2>1. /\ job \in [op : Mutations \cup {"idle", "autostart"}, by : Clients \cup {Nobody},
               at : {"idle", "stop", "stopping", "start", "starting", "work"}, sup : Sups \cup {Nobody}]
    BY DEF Idle
  <2>2. StartMain(h, rec, NewSup)
    BY <1>4 DEF Boot
  <2> HIDE DEF job
  <2>3. /\ rec \in HostType /\ rec.st = "starting" /\ rec.main = a.main /\ rec.kept = a.kept
        /\ rec.shut = a.shut /\ rec.foreground = a.foreground /\ rec.crashed = a.crashed
        /\ rec.outlived = a.outlived
    <3>1. rec \in HostType
      BY <1>1, <2>1 DEF HostType
    <3>2. /\ rec.st = "starting" /\ rec.main = a.main /\ rec.kept = a.kept
          /\ rec.shut = a.shut /\ rec.foreground = a.foreground
      BY <1>1 DEF HostType
    <3>3. rec.crashed = a.crashed /\ rec.outlived = a.outlived
      BY <1>1 DEF HostType
    <3> QED BY <3>1, <3>2, <3>3
  <2> HIDE DEF rec
  <2>4. StartsFrom(h, rec)
    BY <1>2, <1>3, <2>3, IdleJob DEF StartsFrom
  <2> QED BY <1>1, <1>2, <2>2, <2>3, <2>4, StartingMain, SameFaults DEF RecordStays
<1>5. CASE ~(conf.autostart /\ conf.startable)
  <2> DEFINE b == [a EXCEPT !.st = "binding"]
  <2>1. Put(h, b) /\ sup' = sup /\ client' = client
    BY <1>5 DEF Boot
  <2>2. b \in HostType /\ b.job = a.job /\ b.st = "binding"
    BY <1>1 DEF HostType
  <2>3. /\ b.shut = a.shut /\ b.foreground = a.foreground /\ b.queue = a.queue
        /\ b.main = a.main /\ b.kept = a.kept /\ b.outlived = a.outlived /\ b.crashed = a.crashed
    BY <1>1 DEF HostType
  <2> HIDE DEF b
  <2>4. Mild(a, b) /\ Calm(a, b) /\ (a.shut => b.shut) /\ Moves(a, b)
    BY <1>2, <1>3, <2>1, <2>2, <2>3, IdleJob DEF Mild, Calm, Moves, Unhalted
  <2>5. Turns(h)
    BY <1>2, <2>1, <2>2, <2>4, Writing
  <2> QED BY <1>1, <1>2, <2>1, <2>5, Turned, SameFaults, StandStill DEF RecordStays
<1> QED BY <1>4, <1>5

-----------------------------------------------------------------------------
(* A worker is ready, stops, fails or dies. *)

SupMoved(s, st) == SupPlaced(s, st) /\ hosts' = hosts /\ WorkerMove(s)

LEMMA WorkerSteps ==
  ASSUME ControlInv, Spent, RecordStays, client' = client, hosts' = hosts,
         sup' \in [Sups -> SupType], \A t \in Sups : WorkerMove(t)
  PROVE  ControlInv'
<1>1. ClientsGo
  BY StandStill DEF ControlInv
<1>2. ControlTypes' /\ ClientsMove /\ StayShut /\ RecordRests
  BY <1>1, AllStays
<1>3. SupsRight' /\ HostsRight'
  BY <1>2, WorkersMoved DEF ControlInv, WorkersMove
<1> QED BY <1>2, <1>3, Concluding

\* The state of one supervisor moves, and nothing else but the faults left.
LEMMA OneWorker ==
  ASSUME ControlInv, Spent, RecordStays, client' = client, hosts' = hosts,
         NEW s \in Sups, NEW st, SupPlaced(s, st), WorkerMove(s)
  PROVE  ControlInv'
<1>1. \A t \in Sups : WorkerMove(t)
  BY DEF SupPlaced, WorkerMove, To
<1> QED BY <1>1, WorkerSteps DEF SupPlaced

\* The host of a worker that boots, and what it is to it.
LEMMA BootsFor ==
  ASSUME ControlInv, NEW s \in Sups, sup[s].st = "booting"
  PROVE  /\ sup[s].host \in Hosts /\ Alive(sup[s].host)
         /\ hosts[sup[s].host].st \notin {"unborn", "spawned", "dead"}
         /\ \/ sup[s].stray /\ Strayed(sup[s].host, s)
            \/ hosts[sup[s].host].main = s
            \/ (hosts[sup[s].host].main = Nobody /\ hosts[sup[s].host].job.sup = s)
<1>1. SupRight(s) /\ sup[s].host \in Hosts \cup {Nobody}
  BY DEF ControlInv, SupsRight, ControlTypes, SupType
<1>2. sup[s].host # Nobody
  BY <1>1 DEF SupRight
<1>3. hosts[sup[s].host].st \notin {"unborn", "spawned", "dead"}
  BY <1>1, <1>2 DEF SupRight, LeftBehind
<1> QED BY <1>1, <1>2, <1>3 DEF SupRight, ServesHost, Alive

LEMMA WorkerBootFailsRight ==
  ASSUME ControlInv, NEW s \in Sups, WorkerBootFails(s)
  PROVE  ControlInv'
<1> DEFINE st == IF sup[s].stray THEN "over"
                 ELSE IF hosts[sup[s].host].main = s THEN "idle" ELSE "failed"
<1>1. ControlTypes
  BY DEF ControlInv
<1>2. sup[s].st = "booting" /\ hosts' = hosts /\ client' = client /\ sup' = PutSup(s, st)
  BY DEF WorkerBootFails
<1>3. SupPlaced(s, st)
  BY <1>1, <1>2, PuttingSup
<1>4. WorkerMove(s)
  BY <1>2, <1>3 DEF WorkerMove, To, SupPlaced
<1> QED BY <1>1, <1>2, <1>3, <1>4, OneWorker, LessFaults DEF WorkerBootFails, RecordStays

LEMMA WorkerCrashesRight ==
  ASSUME ControlInv, NEW s \in Sups, WorkerCrashes(s)
  PROVE  ControlInv'
<1> DEFINE st == IF sup[s].stray THEN "over" ELSE "down"
<1>1. ControlTypes
  BY DEF ControlInv
<1>2. SupPlaced(s, st)
  BY <1>1, PuttingSup DEF WorkerCrashes
<1>3. WorkerMove(s)
  BY <1>2 DEF WorkerCrashes, WorkerMove, To, SupPlaced
<1> QED BY <1>1, <1>2, <1>3, OneWorker, LessFaults DEF WorkerCrashes, RecordStays

LEMMA RespawnRight ==
  ASSUME ControlInv, NEW s \in Sups, Respawn(s)
  PROVE  ControlInv'
<1>1. ControlTypes
  BY DEF ControlInv
<1>2. SupPlaced(s, "cleaning")
  BY <1>1, PuttingSup DEF Respawn
<1>3. WorkerMove(s)
  BY <1>2 DEF Respawn, WorkerMove, To, SupPlaced
<1> QED BY <1>1, <1>2, <1>3, OneWorker, SameFaults DEF Respawn, RecordStays

\* Every other worker of the configuration is killed, whoever's it is.
LEMMA CleanRight ==
  ASSUME ControlInv, NEW s \in Sups, Clean(s)
  PROVE  ControlInv'
<1>1. ControlTypes
  BY DEF ControlInv
<1>2. ASSUME NEW t \in Sups
      PROVE  sup'[t] \in SupType /\ WorkerMove(t)
  <2> DEFINE st == IF t = s THEN "booting" ELSE Killed(t)
             row == [sup[t] EXCEPT !.st = st]
  <2>1. sup[t] \in SupType
    BY <1>1 DEF ControlTypes
  <2>2. sup'[t] = row
    BY DEF Clean
  <2>3. /\ t = s => st = "booting"
        /\ t # s => st = Killed(t)
    OBVIOUS
  <2>4. \/ ~Working(t) /\ Killed(t) = sup[t].st
        \/ Working(t) /\ (~Alive(sup[t].host) \/ sup[t].stray) /\ Killed(t) = "over"
        \/ sup[t].st = "up" /\ Alive(sup[t].host) /\ ~sup[t].stray /\ Killed(t) = "down"
        \/ sup[t].st = "booting" /\ hosts[sup[t].host].main = t /\ Killed(t) = "idle"
        \/ sup[t].st = "booting" /\ hosts[sup[t].host].main # t /\ ~sup[t].stray /\ Killed(t) = "failed"
    <3>1. CASE ~Working(t)
      BY <3>1 DEF Killed
    <3>2. CASE Working(t) /\ (~Alive(sup[t].host) \/ sup[t].stray)
      BY <3>2 DEF Killed
    <3>3. CASE Working(t) /\ Alive(sup[t].host) /\ ~sup[t].stray /\ sup[t].st = "up"
      BY <3>3 DEF Killed
    <3>4. CASE Working(t) /\ Alive(sup[t].host) /\ ~sup[t].stray /\ sup[t].st # "up"
      <4>1. sup[t].st = "booting"
        BY <3>4 DEF Working
      <4>2. Killed(t) = IF hosts[sup[t].host].main = t THEN "idle" ELSE "failed"
        BY <3>4 DEF Killed
      <4> QED BY <3>4, <4>1, <4>2
    <3> QED BY <3>1, <3>2, <3>3, <3>4
  <2>5. st \in {"unused", "cleaning", "booting", "up", "down", "idle", "failed", "stopping", "over"}
    BY <2>1, <2>3, <2>4 DEF SupType
  <2> HIDE DEF st
  <2>6. row \in SupType /\ row.host = sup[t].host /\ row.stray = sup[t].stray /\ row.st = st
    BY <2>1, <2>5 DEF SupType
  <2> HIDE DEF row
  <2>7. sup[s].st = "cleaning"
    BY DEF Clean
  <2>8. WorkerMove(t)
    <3>1. CASE t = s
      BY <2>2, <2>3, <2>6, <2>7, <3>1 DEF WorkerMove, To
    <3>2. CASE t # s
      BY <2>2, <2>3, <2>4, <2>6, <3>2 DEF WorkerMove, To, Working
    <3> QED BY <3>1, <3>2
  <2> QED BY <2>2, <2>6, <2>8
<1>3. sup' \in [Sups -> SupType]
  BY <1>2 DEF Clean
<1> QED BY <1>1, <1>2, <1>3, WorkerSteps, SameFaults DEF Clean, RecordStays

\* The promise of a start is kept: what was started is main.
LEMMA ReadyRight ==
  ASSUME ControlInv, NEW s \in Sups, Ready(s)
  PROVE  ControlInv'
<1>h. PICK h \in Hosts : h = sup[s].host
  BY BootsFor DEF Ready
<1> DEFINE a == hosts[h]
           kept == StopPolicy => a.leases # {}
           rec == [a EXCEPT !.main = s, !.kept = kept]
           placed == IF rec.st = "starting" THEN [rec EXCEPT !.st = "binding"] ELSE rec
           b == [placed EXCEPT !.job = Idle]
<1>0. Nobody \notin Hosts /\ Nobody \notin Sups
  BY ControlAssumption
<1>1. /\ sup[s].st = "booting" /\ sup' = PutSup(s, "up")
      /\ conf' = conf /\ record' = record /\ faults' = faults /\ clash' = clash
  BY DEF Ready
<1>2. /\ h \in Hosts /\ Alive(h) /\ a.st \notin {"unborn", "spawned", "dead"}
      /\ \/ sup[s].stray /\ Strayed(h, s)
         \/ a.main = s
         \/ (a.main = Nobody /\ a.job.sup = s)
  BY <1>h, <1>1, BootsFor
<1>3. /\ ControlTypes /\ SupsRight /\ HostsRight
      /\ a \in HostType /\ HostRight(h)
  BY <1>2, RowOf DEF ControlInv
<1>4. SupPlaced(s, "up") /\ Spent
  BY <1>1, <1>3, PuttingSup, SameFaults
<1>5. CASE a.job.sup # s
  <2>1. hosts' = hosts /\ client' = client
    BY <1>h, <1>5 DEF Ready
  <2>2. WorkerMove(s)
    BY <1>h, <1>1, <1>2, <1>4, <1>5 DEF WorkerMove, To, SupPlaced
  <2> QED BY <1>1, <1>4, <2>1, <2>2, OneWorker DEF RecordStays
<1>6. CASE a.job.sup = s
  <2>1. Put(h, b) /\ client' = Answered(placed.job.by, "done")
    BY <1>h, <1>6 DEF Ready, Finished
  <2>2. a.main = Nobody /\ a.job.sup = s /\ ~sup[s].stray
    BY <1>0, <1>3, <1>6 DEF HostRight, JobRightOf
  <2>3. a.st # "plane" /\ (a.st = "stopped" => a.outlived)
    BY <1>0, <1>3, <2>2 DEF HostRight, StageRight
  <2>4. kept \in BOOLEAN
    OBVIOUS
  <2> HIDE DEF kept
  <2>5. /\ rec \in HostType /\ rec.main = s /\ rec.st = a.st /\ rec.shut = a.shut
        /\ rec.foreground = a.foreground /\ rec.outlived = a.outlived /\ rec.crashed = a.crashed
    BY <1>3, <2>4 DEF HostType
  <2> HIDE DEF rec
  <2>6. /\ placed \in HostType /\ placed.main = s /\ placed.shut = a.shut
        /\ placed.foreground = a.foreground /\ placed.outlived = a.outlived
        /\ placed.crashed = a.crashed
        /\ placed.st = (IF a.st = "starting" THEN "binding" ELSE a.st)
    BY <2>5 DEF HostType
  <2> HIDE DEF placed
  <2>7. /\ b \in HostType /\ b.job = Idle /\ b.main = s /\ b.shut = a.shut
        /\ b.foreground = a.foreground /\ b.outlived = a.outlived /\ b.crashed = a.crashed
        /\ b.st = (IF a.st = "starting" THEN "binding" ELSE a.st)
    BY <2>6, FinishedRow DEF OnJob
  <2> HIDE DEF b
  <2>8. Placed(h, b)
    BY <1>1, <1>2, <1>3, <2>1, <2>7, Putting
  <2>9. ClientsGo
    <3>1. placed.job.by \in Clients \cup {Nobody}
      BY <2>6 DEF HostType
    <3> QED BY <1>3, <2>1, <3>1, AnsweredMove DEF ClientsGo
  <2>10. ControlTypes'
    BY <1>1, <1>3, <1>4, <2>8, <2>9, TypesFollow DEF Placed, SupPlaced, ClientsGo, ControlTypes
  <2>11. Elsewhere(h)
    BY <1>h, <1>0, <1>2, <1>4, <2>8 DEF Elsewhere, Placed, SupPlaced
  <2>12. HostRight(h)'
    <3>1. hosts'[h] = b /\ sup'[s].host = h /\ sup'[s].st = "up" /\ ~sup'[s].stray
      BY <1>h, <1>4, <2>2, <2>8 DEF Placed, SupPlaced
    <3>2. MainRight(h)'
      BY <1>2, <2>7, <3>1 DEF MainRight, Alive
    <3>3. JobRightOf(h)'
      BY <2>7, <3>1, IdleJob DEF JobRightOf
    <3>4. StageRight(h)'
      BY <1>0, <1>2, <2>3, <2>7, <3>1 DEF StageRight
    <3> QED BY <3>2, <3>3, <3>4 DEF HostRight
  <2>13. ASSUME NEW t \in Sups, sup'[t].host = h
         PROVE  SupRight(t)'
    <3>0. hosts'[h] = b /\ b.st \notin {"unborn", "spawned", "dead"}
      BY <1>2, <2>7, <2>8 DEF Placed
    <3>1. CASE t = s
      BY <1>h, <1>0, <1>2, <1>4, <2>2, <2>7, <3>0, <3>1 DEF SupRight, ServesHost, SupPlaced
    <3>2. CASE t # s
      <4>1. sup'[t] = sup[t] /\ SupRight(t) /\ sup[t].host = h
        BY <1>3, <1>4, <2>13, <3>2 DEF SupsRight, SupPlaced
      <4>2. sup[t].st = "over" \/ (sup[t].stray /\ Strayed(h, t))
        BY <1>0, <1>2, <1>3, <2>2, <3>2, <4>1 DEF SupRight, ServesHost, ControlTypes, SupType
      <4> QED BY <1>0, <1>2, <2>7, <3>0, <3>2, <4>1, <4>2, IdleJob DEF SupRight, ServesHost, Strayed
    <3> QED BY <3>1, <3>2
  <2>14. SupsRight' /\ HostsRight'
    BY <1>2, <1>3, <2>10, <2>11, <2>12, <2>13, Apart DEF SupsRight, HostsRight
  <2>15. StayShut /\ RecordRests
    <3>1. Calm(a, b) /\ (a.shut => b.shut)
      BY <1>2, <2>7 DEF Calm
    <3> QED BY <1>1, <2>8, <3>1 DEF Placed, Calm, StayShut, RecordRests
  <2> QED BY <1>4, <2>9, <2>10, <2>14, <2>15, Concluding DEF ClientsGo
<1> QED BY <1>5, <1>6

\* Main has stopped, or will not: the host forgets it.
LEMMA StopOverRight ==
  ASSUME ControlInv, NEW s \in Sups, StopOver(s), LeftOver(s), Spent
  PROVE  ControlInv'
<1>0. Nobody \notin Hosts /\ Nobody \notin Sups
  BY ControlAssumption
<1>h. PICK h \in Hosts : h = sup[s].host
  <2>1. sup[s].host \in Hosts \cup {Nobody} /\ SupRight(s)
    BY DEF ControlInv, SupsRight, ControlTypes, SupType
  <2> QED BY <2>1 DEF StopOver, SupRight
<1> DEFINE a == hosts[h]
<1>1. ControlTypes /\ SupRight(s) /\ a \in HostType /\ HostRight(h)
  BY RowOf DEF ControlInv, SupsRight
<1>2. sup[s].st = "stopping" /\ Put(h, Forgets(a)) /\ client' = client /\ RecordStays
  BY <1>h DEF StopOver, RecordStays
<1>3. a.st \notin {"unborn", "spawned", "dead"} /\ a.main = s
  BY <1>h, <1>0, <1>1, <1>2 DEF SupRight, LeftBehind, ServesHost, Strayed
<1>4. Mild(a, a)
  BY <1>1, <1>3 DEF Mild, HostRight, StageRight
<1>5. Moves(a, Forgets(a))
  BY <1>0, <1>1, <1>3, <1>4 DEF Moves, Drops
<1>6. Calm(a, Forgets(a)) /\ (a.shut => Forgets(a).shut) /\ Forgets(a) \in HostType
  BY <1>1, ForgetsRow DEF Calm
<1>7. Turns(h)
  BY <1>2, <1>5, <1>6, Writing DEF Spent
<1> QED BY <1>1, <1>2, <1>7, Turned, StandStill

LEMMA StopEndsRight ==
  ASSUME ControlInv, NEW s \in Sups, StopEnds(s)
  PROVE  ControlInv'
<1>1. ControlTypes
  BY DEF ControlInv
<1>2. LeftOver(s)
  BY <1>1, PuttingSup DEF StopEnds, LeftOver
<1> QED BY <1>1, <1>2, StopOverRight, SameFaults DEF StopEnds, StopOver

LEMMA WorkerStaysRight ==
  ASSUME ControlInv, NEW s \in Sups, WorkerStays(s)
  PROVE  ControlInv'
<1>1. ControlTypes
  BY DEF ControlInv
<1>2. LeftOver(s)
  BY <1>1, PuttingStray DEF WorkerStays, LeftOver
<1> QED BY <1>1, <1>2, StopOverRight, LessFaults DEF WorkerStays, StopOver

-----------------------------------------------------------------------------
(* The end of a host. *)

\* Whatever serves for a host that ends is excused.
Excused(h, rec) ==
    \A t \in Sups : sup[t].host = h /\ sup[t].st \in {"booting", "up"} =>
      rec.crashed \/ rec.outlived \/ sup[t].stray

Gone(h, rec) ==
    /\ hosts' \in [Hosts -> HostType'] /\ sup' \in [Sups -> SupType]
    /\ \A g \in Hosts : g # h => hosts'[g] = hosts[g]
    /\ hosts'[h].st = "dead" /\ hosts'[h].shut = rec.shut /\ hosts'[h].crashed = rec.crashed
    /\ SupsRight' /\ HostsRight'

LEMMA Dying ==
  ASSUME ControlInv, conf' = conf, NEW h \in Hosts, NEW rec \in HostType,
         hosts[h].st # "unborn", Excused(h, rec), Die(h, rec)
  PROVE  Gone(h, rec)
<1> DEFINE b == [rec EXCEPT !.st = "dead", !.queue = <<>>, !.job = Idle, !.main = Nobody,
                            !.leases = {}, !.stale = {}, !.kept = FALSE]
<1>0. Nobody \notin Hosts /\ Nobody \notin Sups
  BY ControlAssumption
<1>1. ControlTypes /\ SupsRight /\ HostsRight
  BY DEF ControlInv
<1>2. Put(h, b)
  BY DEF Die
<1>3. /\ b \in HostType /\ b.st = "dead" /\ b.job = Idle /\ b.main = Nobody /\ ~b.kept
      /\ b.shut = rec.shut /\ b.crashed = rec.crashed /\ b.outlived = rec.outlived
  <2>1. <<>> \in Seq({c \in Clients : conf.cmds[c] \in Mutations})
    OBVIOUS
  <2>2. b \in HostType
    BY <2>1, IdleJob DEF HostType
  <2>3. /\ b.st = "dead" /\ b.job = Idle /\ b.main = Nobody /\ ~b.kept
        /\ b.shut = rec.shut /\ b.crashed = rec.crashed /\ b.outlived = rec.outlived
    BY DEF HostType
  <2> QED BY <2>2, <2>3
<1> HIDE DEF b
<1>4. Placed(h, b)
  BY <1>1, <1>2, <1>3, Putting
<1>5. ASSUME NEW t \in Sups
      PROVE  /\ sup'[t] \in SupType /\ sup'[t].host = sup[t].host
             /\ sup'[t].stray = sup[t].stray
             /\ sup[t].host # h => sup'[t] = sup[t]
             /\ sup[t].host = h => sup'[t].st = Outliving(sup[t].st)
  <2> DEFINE row == [sup[t] EXCEPT !.st = Outliving(sup[t].st)]
  <2>1. sup[t] \in SupType
    BY <1>1 DEF ControlTypes
  <2>2. Outliving(sup[t].st) \in {"up", "unused", "over"}
    BY DEF Outliving
  <2>3. row \in SupType /\ row.host = sup[t].host /\ row.stray = sup[t].stray /\ row.st = Outliving(sup[t].st)
    BY <2>1, <2>2 DEF SupType
  <2>4. sup'[t] = IF sup[t].host = h THEN row ELSE sup[t]
    BY DEF Die
  <2> HIDE DEF row
  <2> QED BY <2>1, <2>3, <2>4
<1>6. sup' \in [Sups -> SupType]
  BY <1>5 DEF Die
<1>7. Elsewhere(h)
  BY <1>0, <1>4, <1>5 DEF Elsewhere, Placed
<1>8. HostRight(h)'
  BY <1>3, <1>4, IdleJob DEF Placed, HostRight, MainRight, JobRightOf, StageRight
<1>9. ASSUME NEW t \in Sups, sup'[t].host = h
      PROVE  SupRight(t)'
  <2>1. sup[t].host = h /\ SupRight(t) /\ sup'[t].st = Outliving(sup[t].st) /\ hosts'[h] = b
    BY <1>1, <1>4, <1>5, <1>9 DEF SupsRight, Placed
  <2>2. sup[t].st # "unused"
    BY <1>0, <2>1 DEF SupRight
  <2>3. /\ sup'[t].st \in {"up", "over"}
        /\ sup'[t].st = "up" => sup[t].st \in {"booting", "up"}
    BY <2>1, <2>2 DEF Outliving
  <2>4. LeftBehind(h, t)'
    BY <1>3, <1>5, <2>1, <2>3 DEF LeftBehind, Excused
  <2> QED BY <1>0, <1>3, <1>9, <2>1, <2>3, <2>4 DEF SupRight, LeftBehind
<1>10. SupsRight' /\ HostsRight'
  BY <1>1, <1>7, <1>8, <1>9, Apart DEF SupsRight, HostsRight
<1> QED BY <1>3, <1>4, <1>6, <1>10 DEF Gone, Placed

LEMMA CrashRight ==
  ASSUME ControlInv, NEW h \in Hosts, Crash(h)
  PROVE  ControlInv'
<1> DEFINE a == hosts[h]
           rec == [a EXCEPT !.crashed = TRUE]
<1>1. ControlTypes /\ a \in HostType /\ Spent /\ client' = client
  BY RowOf, LessFaults DEF Crash
<1>2. rec \in HostType /\ rec.crashed /\ rec.shut = a.shut
  BY <1>1 DEF HostType
<1>3. Die(h, rec) /\ a.st \notin {"unborn", "dead"}
  BY DEF Crash, Alive
<1> HIDE DEF rec
<1>4. Gone(h, rec)
  BY <1>1, <1>2, <1>3, Dying DEF Excused, Spent
<1>5. ClientsGo
  BY <1>1, StandStill
<1>6. ControlTypes'
  BY <1>1, <1>4, <1>5, TypesFollow DEF Gone, Crash, ClientsGo, ControlTypes
<1>7. StayShut /\ RecordRests
  <2>1. Calm(hosts[h], hosts'[h]) /\ (hosts[h].shut => hosts'[h].shut)
    BY <1>2, <1>3, <1>4 DEF Calm, Gone
  <2> QED BY <1>4, <2>1 DEF Gone, Crash, Calm, StayShut, RecordRests
<1> QED BY <1>1, <1>4, <1>5, <1>6, <1>7, Concluding DEF Gone, ClientsGo

\* A host that ends of itself takes the record with it.
LEMMA Ending ==
  ASSUME ControlInv, Spent, NEW h \in Hosts, Alive(h), Excused(h, hosts[h]), Die(h, hosts[h]), ClearRecord(h),
         client' = client
  PROVE  ControlInv'
<1>0. Nobody \notin Hosts
  BY ControlAssumption
<1>1. ControlTypes /\ hosts[h] \in HostType
  BY RowOf
<1>2. Gone(h, hosts[h])
  BY <1>1, Dying DEF Alive, Spent
<1>3. ClientsGo
  BY <1>1, StandStill
<1>4. /\ record' = Nobody /\ clash' \in [twice : BOOLEAN, stolen : BOOLEAN]
      /\ clash'.twice = clash.twice
  <2> DEFINE stolen == clash.stolen \/ record \notin {Nobody, h}
  <2>1. clash' = [clash EXCEPT !.stolen = stolen] /\ stolen \in BOOLEAN
    BY <1>1 DEF ClearRecord, ControlTypes
  <2> HIDE DEF stolen
  <2> QED BY <1>1, <2>1 DEF ClearRecord, ControlTypes
<1>5. ControlTypes'
  BY <1>2, <1>3, <1>4, TypesFollow DEF Gone, ClientsGo
<1>6. StayShut
  BY <1>2 DEF Gone, StayShut
<1>7. ClientsRight'
  BY <1>1, <1>3, <1>6, ClientsKnow DEF ControlInv, ClientsGo, Spent
<1>8. ~clash'.twice => \A g \in Hosts : ~(Alive(g)')
  BY <1>1, <1>2, <1>4 DEF ControlInv, Alone, Gone, Alive
<1>9. Alone' /\ RecordTells'
  BY <1>0, <1>4, <1>8 DEF Alone, RecordTells, Alive, Open
<1> QED BY <1>2, <1>5, <1>7, <1>9 DEF ControlInv, Gone

LEMMA ExitRight ==
  ASSUME ControlInv, NEW h \in Hosts, Exit(h)
  PROVE  ControlInv'
<1>0. Nobody \notin Sups
  BY ControlAssumption
<1>1. ControlTypes /\ HostRight(h) /\ SupsRight
  BY RowOf DEF ControlInv
<1>2. hosts[h].st = "stopped" /\ Alive(h)
  BY DEF Exit, Alive
<1>3. Excused(h, hosts[h])
  BY <1>0, <1>1, <1>2 DEF Excused, SupsRight, SupRight, ServesHost, HostRight, StageRight
<1> QED BY <1>1, <1>2, <1>3, Ending, SameFaults DEF Exit

LEMMA AdapterFailsRight ==
  ASSUME ControlInv, NEW h \in Hosts, AdapterFails(h)
  PROVE  ControlInv'
<1>0. Nobody \notin Hosts
  BY ControlAssumption
<1>1. ControlTypes /\ HostRight(h) /\ SupsRight
  BY RowOf DEF ControlInv
<1>2. hosts[h].st = "spawned" /\ Alive(h)
  BY DEF AdapterFails, Alive
<1>3. Excused(h, hosts[h])
  BY <1>0, <1>1, <1>2 DEF Excused, SupsRight, SupRight
<1> QED BY <1>1, <1>2, <1>3, Ending, LessFaults DEF AdapterFails

\* A start that fails ends the host that has none but for it; another goes on.
LEMMA StartFailsRight ==
  ASSUME ControlInv, NEW h \in Hosts, StartFails(h)
  PROVE  ControlInv'
<1> DEFINE a == hosts[h]
           s == a.job.sup
<1>0. Nobody \notin Hosts /\ Nobody \notin Sups
  BY ControlAssumption
<1>1. /\ ControlTypes /\ SupsRight /\ HostsRight
      /\ a \in HostType /\ HostRight(h)
  BY RowOf DEF ControlInv
<1>2. Alive(h) /\ a.job.at = "starting" /\ sup[s].st = "failed" /\ Spent
  BY <1>1, SameFaults DEF StartFails, JobAt
<1>3. s \in Sups /\ a.main = Nobody /\ sup[s].host = h /\ ~sup[s].stray
  BY <1>0, <1>1, <1>2 DEF HostRight, JobRightOf, HostType
<1>4. CASE a.st = "starting"
  <2>1. Die(h, a) /\ ClearRecord(h) /\ client' = client
    BY <1>4 DEF StartFails
  <2>2. Excused(h, a)
    BY <1>0, <1>1, <1>2, <1>3, <1>4 DEF Excused, SupsRight, SupRight, ServesHost
  <2> QED BY <1>2, <2>1, <2>2, Ending
<1>5. CASE a.st # "starting"
  <2> DEFINE b == [a EXCEPT !.job = Idle]
  <2>1. /\ sup' = PutSup(s, "over") /\ Put(h, b) /\ client' = Answered(a.job.by, "failed")
        /\ record' = record /\ clash' = clash
    BY <1>5 DEF StartFails, Finished
  <2>2. b \in HostType /\ OnJob(b, a) /\ b.job = Idle
    BY <1>1, FinishedRow
  <2> HIDE DEF b
  <2>3. Placed(h, b) /\ SupPlaced(s, "over")
    BY <1>1, <1>2, <1>3, <2>1, <2>2, Putting, PuttingSup DEF Spent
  <2>4. ClientsGo
    <3>1. a.job.by \in Clients \cup {Nobody}
      BY <1>1 DEF HostType
    <3> QED BY <1>1, <2>1, <3>1, AnsweredMove DEF ClientsGo
  <2>5. ControlTypes'
    BY <1>1, <1>2, <2>1, <2>3, <2>4, TypesFollow DEF Placed, SupPlaced, ClientsGo, ControlTypes
  <2>6. Elsewhere(h)
    BY <1>0, <1>3, <2>3 DEF Elsewhere, Placed, SupPlaced
  <2>7. a.st \notin {"unborn", "spawned", "dead", "plane"}
    BY <1>0, <1>1, <1>2, <1>3, IdleJob DEF HostRight, StageRight, Alive
  <2>8. HostRight(h)'
    BY <1>1, <1>3, <1>5, <2>2, <2>3, <2>7, IdleJob
       DEF Placed, OnJob, HostRight, MainRight, JobRightOf, StageRight
  <2>9. ASSUME NEW t \in Sups, sup'[t].host = h
        PROVE  SupRight(t)'
    <3>0. hosts'[h] = b /\ b.st = a.st
      BY <2>2, <2>3 DEF Placed, OnJob
    <3>1. CASE t = s
      BY <1>0, <1>3, <2>3, <2>7, <3>0, <3>1 DEF SupRight, ServesHost, SupPlaced
    <3>2. CASE t # s
      <4>1. sup'[t] = sup[t] /\ SupRight(t) /\ sup[t].host = h
        BY <1>1, <2>3, <2>9, <3>2 DEF SupsRight, SupPlaced
      <4>2. sup[t].st = "over" \/ (sup[t].stray /\ Strayed(h, t))
        BY <1>0, <1>1, <1>3, <2>7, <3>2, <4>1 DEF SupRight, ServesHost, ControlTypes, SupType
      <4> QED BY <1>0, <1>3, <2>2, <2>3, <2>7, <3>0, <3>2, <4>1, <4>2, IdleJob
            DEF SupRight, ServesHost, Strayed, OnJob, Placed
    <3> QED BY <3>1, <3>2
  <2>10. SupsRight' /\ HostsRight'
    BY <1>1, <2>6, <2>8, <2>9, Apart DEF SupsRight, HostsRight
  <2>11. StayShut /\ RecordRests
    <3>1. Calm(a, b) /\ (a.shut => b.shut)
      BY <2>2, <2>7 DEF OnJob, Calm
    <3> QED BY <2>1, <2>3, <3>1 DEF Placed, Calm, StayShut, RecordRests
  <2> QED BY <1>2, <2>4, <2>5, <2>10, <2>11, Concluding DEF ClientsGo
<1> QED BY <1>4, <1>5

\* The only host that lives writes the record, or takes it away.
LEMMA OnlyHost ==
  ASSUME Alone', NEW h \in Hosts, Alive(h)', record' \in {h, Nobody}, Open(h)' => record' = h
  PROVE  RecordTells'
<1>0. Nobody \notin Hosts
  BY ControlAssumption
<1>1. CASE clash'.twice
  BY <1>1 DEF RecordTells
<1>2. CASE ~clash'.twice
  <2>1. \A g \in Hosts : Alive(g)' => g = h
    BY <1>2 DEF Alone
  <2>2. \A g \in Hosts : Open(g)' => Alive(g)'
    BY DEF Open, Alive
  <2>3. hosts'[h].st # "dead"
    BY DEF Alive
  <2> QED BY <1>0, <2>1, <2>2, <2>3 DEF RecordTells
<1> QED BY <1>1, <1>2

\* A mutation of the packages, or an import, which may tear the record away.
LEMMA WorksRight ==
  ASSUME ControlInv, NEW h \in Hosts, Works(h)
  PROVE  ControlInv'
<1> DEFINE a == hosts[h]
           b == [a EXCEPT !.job = Idle]
<1>1. /\ ControlTypes /\ a \in HostType /\ HostRight(h)
      /\ Alone /\ RecordTells
  BY RowOf DEF ControlInv
<1>2. PICK outcome \in {"done", "refused", "torn"} :
        /\ Finished(h, a, IF outcome = "done" THEN "done" ELSE "failed")
        /\ record' = IF a.job.op # "import" \/ outcome = "refused" THEN record
                     ELSE IF outcome = "done" /\ a.st \in {"open", "closing"} THEN h
                     ELSE Nobody
        /\ clash' = [clash EXCEPT !.stolen = @ \/ outcome = "torn"]
  BY DEF Works
<1>3. Alive(h) /\ a.job.at = "work" /\ sup' = sup /\ conf' = conf /\ faults' = faults
  BY DEF Works, JobAt
<1>4. Put(h, b) /\ b \in HostType /\ OnJob(b, a) /\ b.job = Idle
  BY <1>1, <1>2, FinishedRow DEF Finished
<1> HIDE DEF b
<1>5. Turns(h)
  BY <1>3, <1>4, IdleJob, JobGoes
<1>6. ClientsGo
  <2>1. a.job.by \in Clients \cup {Nobody}
    BY <1>1 DEF HostType
  <2>2. PICK result \in {"done", "failed"} : client' = Answered(a.job.by, result)
    BY <1>2 DEF Finished
  <2> QED BY <1>1, <2>1, <2>2, AnsweredMove DEF ClientsGo
<1>7. /\ clash' \in [twice : BOOLEAN, stolen : BOOLEAN] /\ clash'.twice = clash.twice
      /\ clash.stolen => clash'.stolen
      /\ outcome = "torn" => clash'.stolen
  <2> DEFINE stolen == clash.stolen \/ outcome = "torn"
  <2>1. stolen \in BOOLEAN /\ (clash.stolen => stolen) /\ (outcome = "torn" => stolen)
    OBVIOUS
  <2>2. clash' = [clash EXCEPT !.stolen = stolen]
    BY <1>2
  <2> HIDE DEF stolen
  <2> QED BY <1>1, <2>1, <2>2 DEF ControlTypes
<1>8. PICK c \in HostType : Turning(h, c) /\ Calm(a, c)
  BY <1>5 DEF Turns
<1>9. record' \in Hosts \cup {Nobody}
  BY <1>1, <1>2 DEF ControlTypes
<1>10. ControlTypes' /\ SupsRight' /\ HostsRight' /\ ClientsRight'
  BY <1>1, <1>3, <1>6, <1>7, <1>8, <1>9, TurningParts, SameFaults
<1>11. hosts'[h].st = a.st /\ \A g \in Hosts : Calm(hosts[g], hosts'[g])
  BY <1>1, <1>3, <1>4, <1>8, Putting DEF Placed, OnJob, Turning, Calm
<1>12. Alone'
  BY <1>1, <1>7, <1>11 DEF Alone, Alive, Calm
<1>13. RecordTells'
  <2>1. CASE record' = record
    BY <1>1, <1>7, <1>11, <2>1 DEF RecordTells, Open, Calm
  <2>2. CASE outcome = "torn"
    BY <1>7, <2>2 DEF RecordTells
  <2>3. CASE record' # record /\ outcome # "torn"
    <3>1. outcome = "done" /\ record' = IF a.st \in {"open", "closing"} THEN h ELSE Nobody
      BY <1>2, <2>3
    <3>2. Alive(h)' /\ (Open(h)' => record' = h)
      BY <1>3, <1>11, <3>1 DEF Alive, Open
    <3> QED BY <1>12, <3>1, <3>2, OnlyHost
  <2> QED BY <2>1, <2>2, <2>3
<1> QED BY <1>10, <1>12, <1>13 DEF ControlInv

\* The server listens, and says so.
LEMMA ListenRight ==
  ASSUME ControlInv, NEW h \in Hosts, Listen(h)
  PROVE  ControlInv'
<1> DEFINE a == hosts[h]
           port == IF Endpoint(Configured) = {} THEN Configured ELSE h
           b == [a EXCEPT !.st = "open", !.foreground = "waiting", !.port = port]
<1>1. /\ ControlTypes /\ a \in HostType /\ HostRight(h)
      /\ Alone
  BY RowOf DEF ControlInv
<1>2. /\ a.st = "binding" /\ Put(h, b) /\ record' = h /\ sup' = sup /\ client' = client
      /\ conf' = conf /\ faults' = faults /\ clash' = clash
  BY DEF Listen
<1>3. port \in Hosts \cup {Configured, Nobody}
  OBVIOUS
<1> HIDE DEF port
<1>4. /\ b \in HostType /\ b.st = "open" /\ b.shut = a.shut /\ b.queue = a.queue /\ b.job = a.job
      /\ b.main = a.main /\ b.kept = a.kept /\ b.outlived = a.outlived /\ b.crashed = a.crashed
  BY <1>1, <1>3 DEF HostType
<1> HIDE DEF b
<1>5. Placed(h, b)
  BY <1>1, <1>2, <1>4, Putting
<1>6. Turning(h, b)
  BY <1>2, <1>4, <1>5 DEF Turning, Moves, Mild, Unhalted
<1>7. ClientsGo /\ Spent
  BY <1>1, <1>2, StandStill, SameFaults
<1>8. ControlTypes' /\ SupsRight' /\ HostsRight' /\ ClientsRight'
  BY <1>1, <1>2, <1>4, <1>6, <1>7, TurningParts DEF ControlTypes
<1>9. Alone' /\ Alive(h)'
  BY <1>1, <1>2, <1>4, <1>5 DEF Alone, Alive, Placed
<1>10. RecordTells'
  BY <1>2, <1>9, OnlyHost
<1> QED BY <1>8, <1>9, <1>10 DEF ControlInv

-----------------------------------------------------------------------------
(* The server closes. *)

LEMMA ShutdownRight ==
  ASSUME ControlInv, NEW h \in Hosts, Shutdown(h)
  PROVE  ControlInv'
<1> DEFINE a == hosts[h]
           b == [a EXCEPT !.st = "closing", !.kept = FALSE]
<1>1. ControlTypes /\ a \in HostType
  BY RowOf
<1>2. /\ a.st = "open" /\ Put(h, b) /\ sup' = sup /\ client' = client
      /\ conf' = conf /\ faults' = faults /\ record' = record /\ clash' = clash
  BY DEF Shutdown, Open
<1>3. /\ b \in HostType /\ b.st = "closing" /\ b.shut = a.shut /\ b.foreground = a.foreground
      /\ b.job = a.job /\ b.main = a.main /\ ~b.kept /\ b.outlived = a.outlived
      /\ b.crashed = a.crashed
  BY <1>1 DEF HostType
<1> HIDE DEF b
<1>4. Moves(a, b) /\ Calm(a, b)
  BY <1>2, <1>3 DEF Moves, Mild, Unhalted, Calm
<1>5. Turns(h)
  BY <1>2, <1>3, <1>4, Writing
<1> QED BY <1>1, <1>2, <1>5, Turned, SameFaults, StandStill DEF RecordStays

LEMMA SignalRight ==
  ASSUME ControlInv, NEW h \in Hosts, Signal(h)
  PROVE  ControlInv'
<1> DEFINE a == hosts[h]
           b == [a EXCEPT !.foreground = "quitting", !.st = "closing", !.kept = FALSE]
<1>1. ControlTypes /\ a \in HostType
  BY RowOf
<1>2. /\ a.st = "open" /\ Put(h, b) /\ sup' = sup /\ client' = client
      /\ conf' = conf /\ faults' = faults /\ record' = record /\ clash' = clash
  BY DEF Signal, Open
<1>3. /\ b \in HostType /\ b.st = "closing" /\ b.shut = a.shut /\ b.foreground = "quitting"
      /\ b.job = a.job /\ b.main = a.main /\ ~b.kept /\ b.outlived = a.outlived
      /\ b.crashed = a.crashed
  BY <1>1 DEF HostType
<1> HIDE DEF b
<1>4. Moves(a, b) /\ Calm(a, b)
  BY <1>2, <1>3 DEF Moves, Mild, Unhalted, Calm
<1>5. Turns(h)
  BY <1>2, <1>3, <1>4, Writing
<1> QED BY <1>1, <1>2, <1>5, Turned, SameFaults, StandStill DEF RecordStays

LEMMA EndpointClosedRight ==
  ASSUME ControlInv, NEW h \in Hosts, EndpointClosed(h)
  PROVE  ControlInv'
<1> DEFINE a == hosts[h]
           b == [a EXCEPT !.foreground = "quitting"]
<1>1. ControlTypes /\ a \in HostType /\ HostRight(h)
  BY RowOf
<1>2. /\ Put(h, b) /\ sup' = sup /\ client' = client
      /\ conf' = conf /\ faults' = faults /\ record' = record /\ clash' = clash
  BY DEF EndpointClosed
<1>3. /\ b \in HostType /\ b.st = a.st /\ b.shut = a.shut /\ b.foreground = "quitting"
      /\ b.queue = a.queue /\ b.job = a.job /\ b.main = a.main /\ b.kept = a.kept
      /\ b.outlived = a.outlived /\ b.crashed = a.crashed
  BY <1>1 DEF HostType
<1> HIDE DEF b
<1>4. Moves(a, b) /\ Calm(a, b)
  BY <1>1, <1>2, <1>3 DEF Moves, Mild, Unhalted, Calm, HostRight, StageRight
<1>5. Turns(h)
  BY <1>2, <1>3, <1>4, Writing
<1> QED BY <1>1, <1>2, <1>5, Turned, SameFaults, StandStill DEF RecordStays

\* The control plane stops what it has, once.
LEMMA PlaneStopping ==
  ASSUME ControlInv, conf' = conf, NEW h \in Hosts, hosts[h].st = "closing", PlaneStops(h)
  PROVE  Turns(h)
<1> DEFINE a == hosts[h]
           late == a.outlived \/ a.job.at = "starting"
           rec == [a EXCEPT !.leases = {}, !.stale = {}, !.kept = FALSE, !.outlived = late]
<1>1. ControlTypes /\ a \in HostType /\ HostRight(h)
  BY RowOf
<1>2. IF rec.main = Nobody
      THEN Put(h, [rec EXCEPT !.st = "stopped"]) /\ sup' = sup
      ELSE Put(h, Halting([rec EXCEPT !.st = "plane"])) /\ sup' = HaltMain(rec.main)
  BY DEF PlaneStops
<1>3. late \in BOOLEAN /\ (a.outlived => late) /\ (a.job.at = "starting" => late)
  OBVIOUS
<1> HIDE DEF late
<1>4. /\ rec \in HostType /\ rec.shut = a.shut /\ rec.foreground = a.foreground
      /\ rec.job = a.job /\ rec.main = a.main /\ ~rec.kept /\ rec.outlived = late
      /\ rec.crashed = a.crashed
  BY <1>1, <1>3 DEF HostType
<1> HIDE DEF rec
<1>5. ASSUME NEW b, b \in HostType, b.st \in {"plane", "stopped"},
             b.shut = rec.shut, b.foreground = rec.foreground, b.job = rec.job, b.main = rec.main,
             b.outlived = rec.outlived, b.crashed = rec.crashed, b.st = "stopped" => a.main = Nobody
      PROVE  Mild(a, b) /\ Calm(a, b) /\ (a.shut => b.shut)
  BY <1>1, <1>3, <1>4, <1>5 DEF Mild, Calm, HostRight, JobRightOf
<1>6. CASE rec.main = Nobody
  <2> DEFINE b == [rec EXCEPT !.st = "stopped"]
  <2>1. Put(h, b) /\ sup' = sup
    BY <1>2, <1>6
  <2>2. /\ b \in HostType /\ b.st = "stopped" /\ b.shut = rec.shut /\ b.foreground = rec.foreground
        /\ b.job = rec.job /\ b.main = rec.main /\ b.kept = rec.kept
        /\ b.outlived = rec.outlived /\ b.crashed = rec.crashed
    BY <1>4 DEF HostType
  <2> HIDE DEF b
  <2>3. Mild(a, b) /\ Calm(a, b) /\ (a.shut => b.shut)
    BY <1>4, <1>5, <1>6, <2>2
  <2>4. Moves(a, b)
    BY <1>4, <2>1, <2>2, <2>3 DEF Moves, Unhalted
  <2> QED BY <2>1, <2>2, <2>3, <2>4, Writing
<1>7. CASE rec.main # Nobody
  <2> DEFINE b == [rec EXCEPT !.st = "plane"]
  <2>1. Put(h, Halting(b)) /\ sup' = HaltMain(rec.main)
    BY <1>2, <1>7
  <2>2. /\ b \in HostType /\ b.st = "plane" /\ b.shut = rec.shut /\ b.foreground = rec.foreground
        /\ b.job = rec.job /\ b.main = rec.main /\ b.kept = rec.kept
        /\ b.outlived = rec.outlived /\ b.crashed = rec.crashed
    BY <1>4 DEF HostType
  <2> HIDE DEF b
  <2>3. Mild(a, b) /\ Calm(a, b) /\ (a.shut => b.shut)
    BY <1>4, <1>5, <2>2
  <2> QED BY <1>4, <1>7, <2>1, <2>2, <2>3, HaltingTurns
<1> QED BY <1>6, <1>7

LEMMA ClosedRight ==
  ASSUME ControlInv, NEW h \in Hosts, Closed(h)
  PROVE  ControlInv'
<1>1. ControlTypes /\ Turns(h)
  BY RowOf, PlaneStopping DEF Closed
<1> QED BY <1>1, Turned, SameFaults, StandStill DEF Closed, RecordStays

LEMMA ForceClosedRight ==
  ASSUME ControlInv, NEW h \in Hosts, ForceClosed(h)
  PROVE  ControlInv'
<1>1. ControlTypes /\ Turns(h)
  BY RowOf, PlaneStopping DEF ForceClosed
<1>2. ASSUME NEW c \in Clients
      PROVE  client'[c] \in ClientType /\ ClientMove(c)
  <2> DEFINE row == [client[c] EXCEPT !.pc = "failed"]
  <2>1. client[c] \in ClientType
    BY <1>1 DEF ControlTypes
  <2>2. row \in ClientType /\ row.cmd = client[c].cmd /\ row.pc = "failed"
    BY <2>1 DEF ClientType, Ended
  <2>3. client'[c] = IF c \in Pending(h) THEN row ELSE client[c]
    BY DEF ForceClosed
  <2> HIDE DEF row
  <2> QED BY <2>1, <2>2, <2>3 DEF ClientMove
<1>3. ClientsGo
  BY <1>2 DEF ClientsGo, ClientsMove, ForceClosed
<1> QED BY <1>1, <1>3, Turned, SameFaults DEF ForceClosed, RecordStays

-----------------------------------------------------------------------------
(* The commands. *)

LEMMA ClientSteps ==
  ASSUME ControlInv, Spent, RecordStays, ClientsGo, hosts' = hosts, sup' = sup
  PROVE  ControlInv'
<1>1. sup' \in [Sups -> SupType] /\ ControlTypes
  BY DEF ControlInv, ControlTypes
<1>2. ControlTypes' /\ ClientsMove /\ StayShut /\ RecordRests
  BY <1>1, AllStays
<1>3. WorkersMove
  BY DEF WorkersMove, WorkerMove, To
<1>4. SupsRight' /\ HostsRight'
  BY <1>1, <1>2, <1>3, WorkersMoved DEF ControlInv
<1> QED BY <1>2, <1>4, Concluding

\* A command as it is, and the host it turns to.
LEMMA CommandOf ==
  ASSUME ControlInv, NEW c \in Clients
  PROVE  /\ ControlTypes /\ ClientRight(c) /\ client[c] \in ClientType
         /\ record \in Hosts \cup {Nobody}
BY DEF ControlInv, ClientsRight, ControlTypes

\* A command changes in what it turns to, what it is at, and whom it waits for.
LEMMA Rewritten ==
  ASSUME ControlTypes, NEW c \in Clients, NEW row \in ClientType,
         client' = [client EXCEPT ![c] = row], row.cmd = client[c].cmd,
         \/ row.pc \in {"begin", "polling", "done", "failed"}
         \/ row.pc \in {"request", "waiting", "held", "leased", "killed"} /\ row.target \in Hosts
  PROVE  ClientsGo
BY DEF ControlTypes, ClientsGo, ClientsMove, ClientMove

LEMMA ConnectedGo ==
  ASSUME ControlInv, NEW c \in Clients, Answering, Connected(c)
  PROVE  ClientsGo
<1> DEFINE pc == IF client[c].cmd = "api-start" THEN "done" ELSE "request"
           row == [client[c] EXCEPT !.target = record, !.pc = pc]
<1>1. ControlTypes /\ client[c] \in ClientType /\ record \in Hosts
  BY CommandOf DEF Answering
<1>2. /\ row \in ClientType /\ row.cmd = client[c].cmd /\ row.target = record
      /\ row.pc \in {"done", "request"}
  BY <1>1 DEF ClientType, Ended
<1>3. client' = [client EXCEPT ![c] = row]
  BY DEF Connected
<1> HIDE DEF row
<1> QED BY <1>1, <1>2, <1>3, Rewritten

LEMMA ConnectRight ==
  ASSUME ControlInv, NEW c \in Clients, Connect(c) \/ Polled(c)
  PROVE  ControlInv'
<1>1. ControlTypes /\ ClientsGo
  BY CommandOf, ConnectedGo DEF Connect, Polled
<1> QED BY <1>1, ClientSteps, SameFaults DEF Connect, Polled, RecordStays

LEMMA FindToStopRight ==
  ASSUME ControlInv, NEW c \in Clients, FindToStop(c)
  PROVE  ControlInv'
<1> DEFINE pc == IF record = Nobody THEN "done" ELSE "request"
           row == [client[c] EXCEPT !.target = record, !.pc = pc]
<1>1. ControlTypes /\ client[c] \in ClientType /\ record \in Hosts \cup {Nobody}
  BY CommandOf
<1>2. /\ row \in ClientType /\ row.cmd = client[c].cmd /\ row.target = record
      /\ row.pc = "done" \/ (row.pc = "request" /\ record \in Hosts)
  BY <1>1 DEF ClientType, Ended
<1>3. client' = [client EXCEPT ![c] = row]
  BY DEF FindToStop
<1> HIDE DEF row
<1>4. ClientsGo
  BY <1>1, <1>2, <1>3, Rewritten
<1> QED BY <1>1, <1>4, ClientSteps, SameFaults DEF FindToStop, RecordStays

\* A command ends, or its session is left behind.
LEMMA MovedOnly ==
  ASSUME ControlInv, NEW c \in Clients, NEW pc \in {"done", "failed", "killed"}, Move(c, pc),
         pc = "killed" => At(c, "leased"),
         UNCHANGED <<conf, hosts, sup, record, faults, clash>>
  PROVE  ControlInv'
<1>1. ControlTypes /\ ClientRight(c)
  BY CommandOf
<1>2. ClientsGo
  BY <1>1, MoveMoves DEF ClientRight, At, ClientsGo
<1> QED BY <1>1, <1>2, ClientSteps, SameFaults DEF RecordStays

LEMMA EndsRight ==
  ASSUME ControlInv, NEW c \in Clients,
         PollTimesOut(c) \/ Status(c) \/ Unreached(c) \/ HostGone(c) \/ LeaveUnheard(c) \/ Quit(c)
  PROVE  ControlInv'
<1>1. CASE PollTimesOut(c) \/ Unreached(c) \/ HostGone(c)
  BY <1>1, MovedOnly DEF PollTimesOut, Unreached, HostGone
<1>2. CASE Status(c)
  <2>1. PICK pc \in {"done", "failed"} : Move(c, pc)
    BY <1>2 DEF Status
  <2> QED BY <1>2, <2>1, MovedOnly DEF Status
<1>3. CASE LeaveUnheard(c)
  BY <1>3, MovedOnly DEF LeaveUnheard
<1>4. CASE Quit(c)
  BY <1>4, MovedOnly DEF Quit
<1> QED BY <1>1, <1>2, <1>3, <1>4

\* A host is spawned: it has nothing, and nobody has heard of it.
LEMMA SpawnRight ==
  ASSUME ControlInv, NEW c \in Clients, Spawn(c)
  PROVE  ControlInv'
<1>0. Nobody \notin Hosts
  BY ControlAssumption
<1>1. /\ ControlTypes /\ Alone /\ RecordTells
      /\ sup' = sup /\ record' = record /\ conf' = conf /\ faults' = faults
  BY DEF ControlInv, Spawn
<1>2. PICK h \in Hosts : hosts[h].st = "unborn" /\ Put(h, [hosts[h] EXCEPT !.st = "spawned"])
  BY DEF Spawn
<1> DEFINE a == hosts[h]
           b == [a EXCEPT !.st = "spawned"]
<1>3. a \in HostType
  BY <1>1 DEF ControlTypes
<1>4. /\ b \in HostType /\ b.st = "spawned" /\ b.shut = a.shut /\ b.queue = a.queue /\ b.job = a.job
      /\ b.main = a.main /\ b.kept = a.kept /\ b.outlived = a.outlived /\ b.crashed = a.crashed
  BY <1>3 DEF HostType
<1>5. Put(h, b)
  BY <1>2
<1> HIDE DEF b
<1>6. Placed(h, b)
  BY <1>1, <1>4, <1>5, Putting
<1>7. Turning(h, b)
  BY <1>1, <1>2, <1>4, <1>6 DEF Turning, Moves, Mild, Unhalted
<1>8. ClientsGo
  BY <1>1, MoveMoves DEF Spawn, ClientsGo
<1>9. /\ clash' \in [twice : BOOLEAN, stolen : BOOLEAN]
      /\ clash.twice => clash'.twice
      /\ clash.stolen = clash'.stolen
      /\ (\E g \in Hosts : Alive(g)) => clash'.twice
  <2> DEFINE twice == clash.twice \/ \E g \in Hosts : Alive(g)
  <2>1. twice \in BOOLEAN /\ (clash.twice => twice) /\ ((\E g \in Hosts : Alive(g)) => twice)
    OBVIOUS
  <2>2. clash' = [clash EXCEPT !.twice = twice]
    BY DEF Spawn
  <2> HIDE DEF twice
  <2> QED BY <1>1, <2>1, <2>2 DEF ControlTypes
<1>10. ControlTypes' /\ SupsRight' /\ HostsRight' /\ ClientsRight'
  BY <1>1, <1>4, <1>7, <1>8, <1>9, TurningParts, SameFaults DEF ControlTypes
<1>11. \A g \in Hosts : g # h => hosts'[g] = hosts[g]
  BY <1>6 DEF Placed
<1>12. Alone'
  BY <1>9, <1>11 DEF Alone, Alive
<1>13. RecordTells'
  <2>1. hosts'[h].st = "spawned"
    BY <1>4, <1>6 DEF Placed
  <2> QED BY <1>1, <1>9, <1>11, <2>1 DEF RecordTells, Open
<1> QED BY <1>10, <1>12, <1>13 DEF ControlInv

\* The record goes, whoever it names by now.
LEMMA ClearRight ==
  ASSUME ControlInv, NEW c \in Clients, Clear(c)
  PROVE  ControlInv'
<1> DEFINE h == client[c].target
<1>0. Nobody \notin Hosts
  BY ControlAssumption
<1>1. /\ ControlTypes /\ SupsRight /\ HostsRight /\ ClientsRight /\ Alone /\ RecordTells
      /\ sup' = sup /\ hosts' = hosts /\ conf' = conf /\ faults' = faults
  BY DEF ControlInv, Clear
<1>2. h \in Hosts /\ hosts[h].shut
  BY CommandOf DEF Clear, At, ClientRight
<1>3. ClientsGo
  BY <1>1, MoveMoves DEF Clear, ClientsGo
<1>4. /\ clash' \in [twice : BOOLEAN, stolen : BOOLEAN] /\ clash'.twice = clash.twice
      /\ clash.stolen => clash'.stolen
      /\ record \notin {Nobody, h} => clash'.stolen
      /\ record' = Nobody
  <2> DEFINE stolen == clash.stolen \/ record \notin {Nobody, h}
  <2>1. stolen \in BOOLEAN /\ (clash.stolen => stolen) /\ (record \notin {Nobody, h} => stolen)
    OBVIOUS
  <2>2. clash' = [clash EXCEPT !.stolen = stolen] /\ record' = Nobody
    BY DEF Clear, ClearRecord
  <2> HIDE DEF stolen
  <2> QED BY <1>1, <2>1, <2>2 DEF ControlTypes
<1>5. HostType' = HostType
  BY <1>1 DEF HostType
<1>6. ControlTypes'
  BY <1>1, <1>3, <1>4, <1>5, TypesFollow, SameFaults DEF ControlTypes, ClientsGo
<1>7. WorkersMove
  BY <1>1 DEF WorkersMove, WorkerMove, To
<1>8. SupsRight' /\ HostsRight'
  BY <1>1, <1>6, <1>7, WorkersMoved
<1>9. ClientsRight'
  BY <1>1, <1>3, ClientsKnow DEF ClientsGo, StayShut
<1>10. Alone'
  BY <1>1, <1>4 DEF Alone, Alive
<1>11. RecordTells'
  BY <1>0, <1>1, <1>2, <1>4 DEF RecordTells, Open
<1> QED BY <1>6, <1>8, <1>9, <1>10, <1>11 DEF ControlInv

\* A request that arrives: the server it reaches is open.
LEMMA Reached ==
  ASSUME NEW c \in Clients, Reaches(c)
  PROVE  client[c].target \in Hosts /\ hosts[client[c].target].st = "open"
BY DEF Reaches, Endpoint, Open

LEMMA MutateRight ==
  ASSUME ControlInv, NEW c \in Clients, Mutate(c)
  PROVE  ControlInv'
<1>h. PICK h \in Hosts : h = client[c].target /\ hosts[h].st = "open"
  BY Reached DEF Mutate
<1> DEFINE a == hosts[h]
           S == {d \in Clients : conf.cmds[d] \in Mutations}
           b == [a EXCEPT !.queue = Append(@, c)]
<1>1. ControlTypes /\ a \in HostType /\ ClientRight(c)
  BY RowOf, CommandOf
<1>2. PICK q \in Seq(S) : q = a.queue
  BY <1>1 DEF HostType
<1>3. c \in S
  BY <1>1 DEF Mutate, ClientRight
<1>4. Append(a.queue, c) \in Seq(S)
  BY <1>2, <1>3
<1>5. /\ Put(h, b) /\ sup' = sup /\ Move(c, "waiting")
      /\ conf' = conf /\ faults' = faults /\ record' = record /\ clash' = clash
  BY <1>h DEF Mutate
<1>6. /\ b \in HostType /\ b.st = a.st /\ b.shut = a.shut /\ b.foreground = a.foreground
      /\ b.job = a.job /\ b.main = a.main /\ b.kept = a.kept /\ b.outlived = a.outlived
      /\ b.crashed = a.crashed
  BY <1>1, <1>4 DEF HostType
<1> HIDE DEF b
<1>7. Moves(a, b) /\ Calm(a, b)
  BY <1>h, <1>5, <1>6 DEF Moves, Mild, Unhalted, Calm
<1>8. Turns(h)
  BY <1>5, <1>6, <1>7, <1>1, Writing
<1>9. ClientsGo
  BY <1>h, <1>1, <1>5, MoveMoves DEF ClientsGo
<1> QED BY <1>1, <1>5, <1>8, <1>9, Turned, SameFaults DEF RecordStays

\* A host is told to stop.
LEMMA AskShutdownRight ==
  ASSUME ControlInv, NEW c \in Clients, AskShutdown(c)
  PROVE  ControlInv'
<1>h. PICK h \in Hosts : h = client[c].target /\ hosts[h].st = "open"
  BY Reached DEF AskShutdown
<1> DEFINE a == hosts[h]
           b == [a EXCEPT !.shut = TRUE]
<1>1. ControlTypes /\ a \in HostType
  BY RowOf
<1>2. /\ Put(h, b) /\ sup' = sup /\ Move(c, "clearing")
      /\ conf' = conf /\ faults' = faults /\ record' = record /\ clash' = clash
  BY <1>h DEF AskShutdown
<1>3. /\ b \in HostType /\ b.st = a.st /\ b.shut /\ b.foreground = a.foreground
      /\ b.job = a.job /\ b.main = a.main /\ b.kept = a.kept /\ b.outlived = a.outlived
      /\ b.crashed = a.crashed
  BY <1>1 DEF HostType
<1> HIDE DEF b
<1>4. Moves(a, b) /\ Calm(a, b)
  BY <1>h, <1>2, <1>3 DEF Moves, Mild, Unhalted, Calm
<1>5. Turns(h)
  BY <1>1, <1>2, <1>3, <1>4, Writing
<1>6. hosts'[h].shut
  BY <1>1, <1>2, <1>3, Putting DEF Placed
<1>7. ClientsGo
  BY <1>h, <1>1, <1>2, <1>6, MoveMoves DEF ClientsGo
<1> QED BY <1>1, <1>2, <1>5, <1>7, Turned, SameFaults DEF RecordStays

\* The leases that have expired go before a status is told or a lease is created.
LEMMA EvictRight ==
  ASSUME ControlInv, NEW c \in Clients, Evict(c)
  PROVE  ControlInv'
<1>h. PICK h \in Hosts : h = client[c].target
  BY Reached DEF Evict
<1> DEFINE rec == Evicted(hosts[h])
           waits == IF Enforced(rec) THEN rec.main ELSE Nobody
           row == [client[c] EXCEPT !.pc = "held", !.sup = waits]
<1>1. ControlTypes /\ hosts[h] \in HostType /\ client[c] \in ClientType
  BY RowOf, CommandOf
<1>2. /\ Enforce(h, rec) /\ client' = [client EXCEPT ![c] = row]
      /\ conf' = conf /\ faults' = faults /\ record' = record /\ clash' = clash
  BY <1>h DEF Evict, Await
<1>3. rec \in HostType /\ Like(rec, hosts[h])
  BY <1>1, EvictedLike
<1> HIDE DEF rec
<1>4. Turns(h)
  BY <1>2, <1>3, Enforcing
<1>5. waits \in Sups \cup {Nobody}
  BY <1>3 DEF HostType
<1> HIDE DEF waits
<1>6. /\ row \in ClientType /\ row.cmd = client[c].cmd /\ row.pc = "held" /\ row.target = h
  BY <1>h, <1>1, <1>5 DEF ClientType, Ended
<1> HIDE DEF row
<1>7. ClientsGo
  BY <1>1, <1>2, <1>6, Rewritten
<1> QED BY <1>1, <1>2, <1>4, <1>7, Turned, SameFaults DEF RecordStays

\* The call that waited returns, with its lease.
LEMMA HeldRight ==
  ASSUME ControlInv, NEW c \in Clients, Held(c)
  PROVE  ControlInv'
<1>0. /\ At(c, "held") /\ Alive(client[c].target) /\ sup' = sup
      /\ conf' = conf /\ faults' = faults /\ record' = record /\ clash' = clash
  BY DEF Held
<1>h. PICK h \in Hosts : h = client[c].target
  BY <1>0, CommandOf DEF ClientRight, At
<1> DEFINE a == hosts[h]
           rec == [a EXCEPT !.leases = @ \cup {c}]
           b == Keep(rec)
<1>1. ControlTypes /\ a \in HostType /\ HostRight(h)
  BY RowOf, CommandOf
<1>2. CASE client[c].cmd = "interactive"
  <2>1. Put(h, b) /\ Move(c, "leased")
    BY <1>h, <1>2 DEF Held
  <2>2. /\ rec \in HostType /\ rec.st = a.st /\ rec.shut = a.shut /\ rec.foreground = a.foreground
        /\ rec.queue = a.queue /\ rec.job = a.job /\ rec.main = a.main /\ rec.kept = a.kept
        /\ rec.outlived = a.outlived /\ rec.crashed = a.crashed
    BY <1>1 DEF HostType
  <2> HIDE DEF rec
  <2>3. /\ b \in HostType
        /\ b.st = rec.st /\ b.shut = rec.shut /\ b.foreground = rec.foreground
        /\ b.queue = rec.queue /\ b.job = rec.job /\ b.main = rec.main
        /\ b.outlived = rec.outlived /\ b.crashed = rec.crashed
        /\ b.kept => rec.kept \/ (rec.main # Nobody /\ sup[rec.main].st # "stopping")
    BY <2>2, KeptRow
  <2> HIDE DEF b
  <2>4. Moves(a, b) /\ Calm(a, b)
    BY <1>0, <1>1, <2>2, <2>3 DEF Moves, Mild, Unhalted, Calm, HostRight, StageRight
  <2>5. Turns(h)
    BY <1>0, <2>1, <2>2, <2>3, <2>4, Writing
  <2>6. ClientsGo
    BY <1>h, <1>1, <2>1, MoveMoves DEF ClientsGo
  <2> QED BY <1>0, <1>1, <2>5, <2>6, Turned, SameFaults DEF RecordStays
<1>3. CASE client[c].cmd # "interactive"
  <2>1. hosts' = hosts /\ Move(c, "done")
    BY <1>3 DEF Held
  <2> QED BY <1>0, <2>1, MovedOnly
<1> QED BY <1>2, <1>3

LEMMA ExpireRight ==
  ASSUME ControlInv, NEW c \in Clients, Expire(c)
  PROVE  ControlInv'
<1>h. PICK h \in Hosts : h = client[c].target
  <2>1. client[c].target \in Hosts \cup {Nobody}
    BY CommandOf DEF ClientType
  <2> QED BY <2>1 DEF Expire
<1> DEFINE a == hosts[h]
           b == [a EXCEPT !.stale = @ \cup {c}]
<1>1. ControlTypes /\ a \in HostType /\ HostRight(h)
  BY RowOf
<1>2. /\ Put(h, b) /\ sup' = sup /\ client' = client
      /\ conf' = conf /\ record' = record /\ clash' = clash
  BY <1>h DEF Expire
<1>3. Spent
  BY <1>1, <1>2, SameFaults, LessFaults DEF Expire
<1>4. /\ b \in HostType /\ b.st = a.st /\ b.shut = a.shut /\ b.foreground = a.foreground
      /\ b.queue = a.queue /\ b.job = a.job /\ b.main = a.main /\ b.kept = a.kept
      /\ b.outlived = a.outlived /\ b.crashed = a.crashed
  BY <1>1 DEF HostType
<1> HIDE DEF b
<1>5. Moves(a, b) /\ Calm(a, b)
  BY <1>1, <1>2, <1>4 DEF Moves, Mild, Unhalted, Calm, HostRight, StageRight
<1>6. Turns(h)
  BY <1>2, <1>4, <1>5, Writing
<1> QED BY <1>1, <1>2, <1>3, <1>6, Turned, StandStill DEF RecordStays

LEMMA HeartbeatRight ==
  ASSUME ControlInv, NEW c \in Clients, Heartbeat(c)
  PROVE  ControlInv'
<1>h. PICK h \in Hosts : h = client[c].target
  BY Reached DEF Heartbeat
<1>1. ControlTypes /\ hosts[h] \in HostType
  BY RowOf
<1>2. Turns(h)
  BY <1>h, <1>1, EvictedLike, Enforcing DEF Heartbeat
<1> QED BY <1>1, <1>2, Turned, SameFaults, StandStill DEF Heartbeat, RecordStays

LEMMA LeaveRight ==
  ASSUME ControlInv, NEW c \in Clients, Leave(c)
  PROVE  ControlInv'
<1>h. PICK h \in Hosts : h = client[c].target
  BY Reached DEF Leave
<1> DEFINE a == hosts[h]
           rec == [a EXCEPT !.leases = @ \ {c}, !.stale = @ \ {c}]
<1>1. ControlTypes /\ a \in HostType
  BY RowOf
<1>2. Enforce(h, rec) /\ Move(c, "done")
  BY <1>h DEF Leave
<1>3. rec \in HostType /\ Like(rec, a)
  BY <1>1 DEF HostType, Like
<1> HIDE DEF rec
<1>4. Turns(h)
  BY <1>2, <1>3, Enforcing DEF Leave
<1>5. ClientsGo
  BY <1>1, <1>2, MoveMoves DEF ClientsGo
<1> QED BY <1>1, <1>4, <1>5, Turned, SameFaults DEF Leave, RecordStays

-----------------------------------------------------------------------------
(* The invariant. *)

LEMMA UnbornRow ==
  ASSUME NEW m \in Sups \cup {Nobody}
  PROVE  /\ Unborn \in HostType
         /\ [Unborn EXCEPT !.st = "open", !.port = Configured, !.foreground = "waiting", !.main = m]
              \in HostType
<1>1. <<>> \in Seq({c \in Clients : conf.cmds[c] \in Mutations})
  OBVIOUS
<1>2. Unborn \in HostType
  BY <1>1, IdleJob DEF Unborn, HostType
<1> QED BY <1>2 DEF HostType

LEMMA ControlBegins == ControlInit => ControlInv
<1> SUFFICES ASSUME ControlInit PROVE ControlInv
  OBVIOUS
<1> DEFINE one == CHOOSE h \in Hosts : TRUE
           m == CHOOSE s \in Sups : TRUE
           main == IF conf.up THEN m ELSE Nobody
           open == [Unborn EXCEPT !.st = "open", !.port = Configured, !.foreground = "waiting",
                                  !.main = main]
<1>0. Nobody \notin Hosts /\ Nobody \notin Sups
  BY ControlAssumption
<1>1. one \in Hosts /\ m \in Sups
  BY ControlAssumption
<1>2. /\ conf \in Scenarios /\ conf.cmds \in [Clients -> Commands] /\ conf.faults \in Nat
      /\ conf.up => conf.open
      /\ conf.up \in BOOLEAN /\ conf.open \in BOOLEAN
  BY ControlAssumption DEF ControlInit
<1>3. /\ hosts = [h \in Hosts |-> InitialHost(conf, h, m, one)]
      /\ sup = [s \in Sups |-> IF conf.up /\ s = m THEN [host |-> one, st |-> "up", stray |-> FALSE]
                               ELSE [host |-> Nobody, st |-> "unused", stray |-> FALSE]]
      /\ record = IF conf.open THEN one ELSE Nobody
      /\ client = [c \in Clients |-> Command(conf.cmds[c])]
      /\ faults = conf.faults
      /\ clash = [twice |-> FALSE, stolen |-> FALSE]
  BY DEF ControlInit
<1> HIDE DEF one, m
<1>4. main \in Sups \cup {Nobody} /\ (main = IF conf.up THEN m ELSE Nobody)
  BY <1>1
<1>5. \A h \in Hosts : hosts[h] = IF conf.open /\ h = one THEN open ELSE Unborn
  BY <1>3 DEF InitialHost
<1> HIDE DEF main
<1>6. Unborn \in HostType /\ open \in HostType
  BY <1>4, UnbornRow
<1>7. /\ open.st = "open" /\ ~open.shut /\ open.foreground = "waiting" /\ open.main = main
      /\ open.job = Idle /\ ~open.kept
  BY DEF Unborn
<1>8. Unborn.st = "unborn" /\ Unborn.main = Nobody /\ Unborn.job = Idle /\ Unborn.queue = <<>> /\ ~Unborn.kept
  BY DEF Unborn
<1> HIDE DEF open
<1>9. ControlTypes
  <2>1. hosts \in [Hosts -> HostType]
    BY <1>3, <1>5, <1>6
  <2>2. sup \in [Sups -> SupType]
    BY <1>1, <1>3 DEF SupType
  <2>3. client \in [Clients -> ClientType]
    BY <1>2, <1>3 DEF Command, ClientType
  <2>4. record \in Hosts \cup {Nobody} /\ faults \in 0..conf.faults
        /\ clash \in [twice : BOOLEAN, stolen : BOOLEAN]
    BY <1>1, <1>2, <1>3
  <2> QED BY <1>2, <2>1, <2>2, <2>3, <2>4 DEF ControlTypes
<1>10. ASSUME NEW s \in Sups
       PROVE  SupRight(s)
  <2>1. CASE conf.up /\ s = m
    <3>1. sup[s].host = one /\ sup[s].st = "up" /\ ~sup[s].stray
      BY <1>3, <2>1
    <3>2. hosts[one] = open /\ open.main = s
      BY <1>1, <1>2, <1>4, <1>5, <1>7, <2>1
    <3> QED BY <1>0, <1>1, <1>7, <3>1, <3>2 DEF SupRight, ServesHost
  <2>2. CASE ~(conf.up /\ s = m)
    <3>1. sup[s].host = Nobody /\ sup[s].st = "unused"
      BY <1>3, <2>2
    <3> QED BY <3>1 DEF SupRight
  <2> QED BY <2>1, <2>2
<1>11. ASSUME NEW h \in Hosts
       PROVE  HostRight(h)
  <2>1. CASE conf.open /\ h = one
    <3>1. hosts[h] = open
      BY <1>5, <2>1
    <3>2. main # Nobody => sup[main].host = h /\ sup[main].st = "up" /\ ~sup[main].stray
      BY <1>1, <1>3, <1>4, <2>1
    <3> QED BY <1>7, <3>1, <3>2, IdleJob DEF HostRight, MainRight, JobRightOf, StageRight, Alive
  <2>2. CASE ~(conf.open /\ h = one)
    BY <1>5, <1>8, <2>2, IdleJob DEF HostRight, MainRight, JobRightOf, StageRight
  <2> QED BY <2>1, <2>2
<1>12. ASSUME NEW c \in Clients
       PROVE  ClientRight(c)
  BY <1>3 DEF ClientRight, Command
<1>13. Alone /\ RecordTells
  BY <1>0, <1>1, <1>3, <1>5, <1>7, <1>8 DEF Alone, RecordTells, Alive, Open
<1> QED BY <1>9, <1>10, <1>11, <1>12, <1>13 DEF ControlInv, SupsRight, HostsRight, ClientsRight

LEMMA ControlStutters ==
  ASSUME ControlInv, UNCHANGED controlVars
  PROVE  ControlInv'
<1>1. ControlTypes
  BY DEF ControlInv
<1> QED BY <1>1, ClientSteps, SameFaults, StandStill DEF controlVars, RecordStays

LEMMA ControlSteps ==
  ASSUME ControlInv, ControlNext
  PROVE  ControlInv'
<1>1. ASSUME NEW c \in Clients, ClientStep(c)
      PROVE  ControlInv'
  BY <1>1, ConnectRight, SpawnRight, EndsRight, FindToStopRight, MutateRight, AskShutdownRight,
     ClearRight, EvictRight, HeldRight, LeaveRight DEF ClientStep
<1>2. ASSUME NEW h \in Hosts, HostStep(h)
      PROVE  ControlInv'
  BY <1>2, TickRight, TakeRight, StopFirstRight, StoppedRight, StartRight, StartFailsRight,
     WorksRight, BootRight, ListenRight, ShutdownRight, ClosedRight, ForceClosedRight,
     EndpointClosedRight, ExitRight DEF HostStep
<1>3. ASSUME NEW s \in Sups, SupStep(s)
      PROVE  ControlInv'
  BY <1>3, CleanRight, ReadyRight, RespawnRight, StopEndsRight DEF SupStep
<1>4. CASE \E c \in Clients : Heartbeat(c) \/ ClientStep(c) \/ Expire(c) \/ Quit(c)
  BY <1>1, <1>4, HeartbeatRight, ExpireRight, EndsRight
<1>5. CASE \E h \in Hosts : HostStep(h) \/ Crash(h) \/ AdapterFails(h) \/ Signal(h)
  BY <1>2, <1>5, CrashRight, AdapterFailsRight, SignalRight
<1>6. CASE \E s \in Sups : SupStep(s) \/ WorkerBootFails(s) \/ WorkerCrashes(s) \/ WorkerStays(s)
  BY <1>3, <1>6, WorkerBootFailsRight, WorkerCrashesRight, WorkerStaysRight
<1> QED BY <1>4, <1>5, <1>6 DEF ControlNext

LEMMA ControlInvHolds == ControlSpec => []ControlInv
<1>1. ControlInit => ControlInv
  BY ControlBegins
<1>2. ControlInv /\ [ControlNext]_controlVars => ControlInv'
  BY ControlSteps, ControlStutters
<1> QED BY <1>1, <1>2, PTL DEF ControlSpec

\* NoWorkerLeft: a worker runs for the main of a host that lives or for its start
\* under way; of a host that ended of itself (runApiForeground, ControlPlane.stop),
\* whatever was asked of it while it closed, one is left only if a start was under way
\* as it closed, or if the stop of main met a restart before its fork or a worker that
\* did not heed it.  For any number of hosts, supervisors, commands, crashes and failures.
THEOREM NothingLeft == ControlSpec => []NoWorkerLeft
<1>1. ControlInv => NoWorkerLeft
  <2> SUFFICES ASSUME ControlInv, NEW s \in Sups, Working(s), ~sup[s].stray
               PROVE  LET rec == hosts[sup[s].host]
                      IN  IF rec.st = "dead" THEN rec.crashed \/ rec.outlived
                          ELSE s \in {rec.main, rec.job.sup}
    BY DEF NoWorkerLeft
  <2>1. SupRight(s)
    BY DEF ControlInv, SupsRight
  <2> QED BY <2>1 DEF SupRight, ServesHost, LeftBehind, Working
<1> QED BY <1>1, ControlInvHolds, PTL

\* HostsSound: what a host calls its main is a supervisor it started and has not
\* stopped, the bootstrap record names the host that serves, and a main that a
\* lease or the operator asked to keep is not stopped (enforceLeasePolicy), for any
\* scenario of any number of commands.
THEOREM HostsServe == ControlSpec => []HostsSound
<1>1. ControlInv => HostsSound
  <2> SUFFICES ASSUME ControlInv
               PROVE  HostsSound
    OBVIOUS
  <2>1. ControlTypes /\ RecordTells /\ \A h \in Hosts : MainRight(h) /\ StageRight(h)
    BY DEF ControlInv, HostsRight, HostRight
  <2>2. HostsOK
    BY <2>1 DEF HostsOK, ControlTypes, MainRight
  <2>3. MainKept
    BY <2>1 DEF MainKept, StageRight
  <2> QED BY <2>1, <2>2, <2>3 DEF HostsSound
<1> QED BY <1>1, ControlInvHolds, PTL
=============================================================================
