---------------------------- MODULE RuntimeProofs ----------------------------
(***************************************************************************)
(* Runtime: the order in which a stop drains the queues is enough, proved  *)
(* for any number of commands: when the stores are closed, only commands   *)
(* that came, began a turn or, their hook given up, posted too late have   *)
(* jobs left.  And Sidecars, for any number of sidecars, children and      *)
(* calls: one child of a sidecar, which the table tells of, and none left  *)
(* by the shutdown.                                                        *)
(***************************************************************************)
EXTENDS Runtime, FiniteSetTheorems, TLAPS

JobStates == {"none", "queued", "running", "done"}
Stages    == {"none", "queued", "hook", "turn", "drain", "post", "posting", "done"}
TurnStates == {"none", "open", "ended", "given up", "dropped"}

FlowType ==
    /\ st \in [Queues -> [Commands -> JobStates]]
    /\ at \in [Commands -> Stages]
    /\ turn \in [Commands -> TurnStates]

\* Where the job of a command stands, the other queues' jobs that it has or has
\* had, and its turn, agree.
JobOf(c) ==
    /\ st["command"][c] = "none" <=> at[c] = "none"
    /\ st["command"][c] = "queued" <=> at[c] = "queued"
    /\ st["command"][c] = "done" <=> at[c] = "done" \/ c \in abandoned
    /\ c \in abandoned => at[c] \notin {"none", "queued"}
    /\ st["transport"][c] # "running"
    /\ st["transport"][c] = "queued" <=> at[c] = "posting"
    /\ st["projection"][c] # "running"
    /\ st["projection"][c] = "queued" => st["provider"][c] = "running"
    /\ at[c] \in {"none", "queued", "hook"} \/ turn[c] \in {"open", "given up"} =>
         st["provider"][c] = "none"
    /\ turn[c] \in {"open", "given up"} => at[c] \notin {"none", "queued", "hook"}

Jobs == \A c \in Commands : JobOf(c)

\* The queue has no job left but of commands that were late, or only jobs that
\* the drain waits for.
Under(q, c) == st[q][c] \in {"queued", "running"}

Emptied(q)  == \A c \in Commands : Under(q, c) => c \in late
Draining(q) == \A c \in Commands : Under(q, c) => c \in late \cup waits

\* From the end of the providers on: no turn is open, and the queues are drained
\* in their order.
TurnsLate ==
    \A c \in Commands : turn[c] \in {"open", "given up"} => c \in late
Drain ==
    /\ drains \in 1..4
    /\ drains = 1 => Draining("provider")
    /\ drains = 2 => Draining("command")
    /\ drains = 4 => Draining("transport")
    /\ drains > 1 => Emptied("provider")
    /\ drains > 2 => Emptied("command")
AllEmptied == Emptied("provider") /\ Emptied("command") /\ Emptied("transport")

Order ==
    /\ phase \in {"queues", "unhosting", "closed"} => TurnsLate
    /\ phase = "queues" => Drain
    /\ phase \in {"unhosting", "closed"} => AllEmptied

\* The inductive invariant.
IInv == FlowType /\ Jobs /\ Order

-----------------------------------------------------------------------------
(* The jobs of a command. *)

LEMMA StillSteps ==
    ASSUME \/ StartHosting \/ HostingFails \/ Wire \/ StartRecovery \/ RecoveryStep \/ Up \/ Quiesce
           \/ ShutdownStep \/ StopAll \/ ProvidersDrained \/ DrainStep \/ Close \/ SidecarStep
           \/ UNCHANGED vars
    PROVE  st' = st /\ at' = at /\ turn' = turn /\ late' = late /\ abandoned' = abandoned
BY DEF StartHosting, HostingFails, Wire, StartRecovery, RecoveryStep, Up, Quiesce, ShutdownStep,
       StopAll, ProvidersDrained, DrainStep, Close, SidecarStep, vars, flow, Starting

LEMMA Receiving ==
    ASSUME FlowType, NEW d, Receive(d)
    PROVE  /\ st' \in [Queues -> [Commands -> JobStates]] /\ at' \in [Commands -> Stages]
           /\ \A c \in Commands : c # d => at'[c] = at[c]
           /\ \A c \in Commands : c = d => at'[c] = "queued" /\ st'["command"][c] = "queued"
           /\ \A q \in Queues, c \in Commands : q # "command" \/ c # d => st'[q][c] = st[q][c]
           /\ \A c \in late : c \in late'
           /\ CommandDrained => d \in late'
BY DEF FlowType, Receive, Push, Queues, JobStates, Stages

LEMMA FlowStep == FlowType /\ [Next]_vars => FlowType'
<1> SUFFICES ASSUME FlowType, [Next]_vars PROVE FlowType'
  OBVIOUS
<1>1. ASSUME NEW c \in Commands, Intent(c) PROVE FlowType'
  BY <1>1, Receiving DEF Intent, FlowType
<1>2. ASSUME NEW c \in Commands, CommandStep(c) PROVE FlowType'
  <2> USE <1>2 DEF FlowType, Queues, JobStates, Stages, TurnStates
  <2>1. CASE CommandStarts(c)
    BY <2>1 DEF CommandStarts
  <2>2. CASE TurnBegins(c)
    BY <2>2 DEF TurnBegins
  <2>3. CASE HookReplies(c)
    BY <2>3 DEF HookReplies
  <2>4. CASE HookDrains(c)
    BY <2>4 DEF HookDrains
  <2>5. CASE EventStarts(c)
    BY <2>5 DEF EventStarts
  <2>6. CASE Projects(c)
    BY <2>6 DEF Projects
  <2>7. CASE EventDone(c)
    BY <2>7 DEF EventDone
  <2>8. CASE Posts(c)
    BY <2>8 DEF Posts, Push
  <2>9. CASE Posted(c)
    BY <2>9 DEF Posted
  <2>10. CASE TurnEnds(c)
    BY <2>10 DEF TurnEnds, Push
  <2>11. CASE TurnTimesOut(c)
    BY <2>11 DEF TurnTimesOut
  <2>12. CASE HookDrained(c)
    BY <2>12 DEF HookDrained
  <2>13. CASE HookGivenUp(c)
    BY <2>13 DEF HookGivenUp
  <2>14. CASE Unheard(c)
    BY <2>14 DEF Unheard
  <2> QED BY <2>1, <2>2, <2>3, <2>4, <2>5, <2>6, <2>7, <2>8, <2>9, <2>10, <2>11, <2>12,
             <2>13, <2>14 DEF CommandStep
<1>3. ASSUME NEW c \in Commands, TurnDropped(c) PROVE FlowType'
  BY <1>3 DEF TurnDropped, FlowType, TurnStates
<1>4. CASE DrainPending
  <2>1. PICK c : Receive(c) \/ UNCHANGED <<st, at>>
    BY <1>4 DEF DrainPending
  <2>2. turn' = turn
    BY <1>4 DEF DrainPending
  <2> QED BY <2>1, <2>2, Receiving DEF FlowType
<1>5. CASE StopBegins
  BY <1>5 DEF StopBegins, FlowType, Stages, TurnStates
<1>6. CASE Crash
  BY <1>6 DEF Crash, FlowType, Stages, TurnStates, JobStates
<1>7. CASE st' = st /\ at' = at /\ turn' = turn
  BY <1>7 DEF FlowType
<1> QED BY <1>1, <1>2, <1>3, <1>4, <1>5, <1>6, <1>7, StillSteps DEF Next, StartStep, StopStep

\* What is known of one command carries over when nothing of it changes.
LEMMA JobStays ==
    ASSUME NEW c \in Commands, JobOf(c), at'[c] = at[c], turn'[c] = turn[c],
           c \in abandoned' <=> c \in abandoned, \A q \in Queues : st'[q][c] = st[q][c]
    PROVE  JobOf(c)'
BY DEF JobOf, Queues

LEMMA ReceivedJob ==
    ASSUME FlowType, Jobs, NEW d \in Commands, at[d] = "none", Receive(d), turn' = turn,
           abandoned' = abandoned
    PROVE  Jobs'
<1> SUFFICES ASSUME NEW c \in Commands PROVE JobOf(c)'
  BY DEF Jobs
<1>1. JobOf(c)
  BY DEF Jobs
<1>2. CASE c = d
  BY <1>1, <1>2, Receiving DEF JobOf, Queues
<1>3. CASE c # d
  <2>1. at'[c] = at[c] /\ \A q \in Queues : st'[q][c] = st[q][c]
    BY <1>3, Receiving
  <2> QED BY <1>1, <2>1, JobStays
<1> QED BY <1>2, <1>3

LEMMA CommandJob ==
    ASSUME FlowType, Jobs, NEW d \in Commands, CommandStep(d)
    PROVE  Jobs'
<1> SUFFICES ASSUME NEW c \in Commands PROVE JobOf(c)'
  BY DEF Jobs
<1>1. JobOf(c) /\ JobOf(d)
  BY DEF Jobs
<1> USE DEF FlowType, Queues
<1>2. CASE c # d
  <2>1. /\ at'[c] = at[c] /\ turn'[c] = turn[c] /\ \A q \in Queues : st'[q][c] = st[q][c]
        /\ c \in abandoned' <=> c \in abandoned
    <3> USE <1>2
    <3>1. CASE CommandStarts(d)
      BY <3>1 DEF CommandStarts
    <3>2. CASE TurnBegins(d)
      BY <3>2 DEF TurnBegins
    <3>3. CASE HookReplies(d)
      BY <3>3 DEF HookReplies
    <3>4. CASE HookDrains(d)
      BY <3>4 DEF HookDrains
    <3>5. CASE EventStarts(d)
      BY <3>5 DEF EventStarts
    <3>6. CASE Projects(d)
      BY <3>6 DEF Projects
    <3>7. CASE EventDone(d)
      BY <3>7 DEF EventDone
    <3>8. CASE Posts(d)
      BY <3>8 DEF Posts, Push
    <3>9. CASE Posted(d)
      BY <3>9 DEF Posted
    <3>10. CASE TurnEnds(d)
      BY <3>10 DEF TurnEnds, Push
    <3>11. CASE TurnTimesOut(d)
      BY <3>11 DEF TurnTimesOut
    <3>12. CASE HookDrained(d) \/ HookGivenUp(d) \/ Unheard(d)
      BY <3>12 DEF HookDrained, HookGivenUp, Unheard
    <3> QED BY CommandStep(d), <3>1, <3>2, <3>3, <3>4, <3>5, <3>6, <3>7, <3>8, <3>9, <3>10,
               <3>11, <3>12 DEF CommandStep
  <2> QED BY <1>1, <2>1, JobStays
<1>3. JobOf(d)'
  <2> USE <1>1 DEF JobOf, JobStates, Stages, TurnStates
  <2>1. CASE CommandStarts(d)
    BY <2>1 DEF CommandStarts
  <2>2. CASE TurnBegins(d)
    BY <2>2 DEF TurnBegins
  <2>3. CASE HookReplies(d)
    BY <2>3 DEF HookReplies
  <2>4. CASE HookDrains(d)
    BY <2>4 DEF HookDrains
  <2>5. CASE EventStarts(d)
    BY <2>5 DEF EventStarts
  <2>6. CASE Projects(d)
    BY <2>6 DEF Projects
  <2>7. CASE EventDone(d)
    BY <2>7 DEF EventDone
  <2>8. CASE Posts(d)
    BY <2>8 DEF Posts, Push
  <2>9. CASE Posted(d)
    BY <2>9 DEF Posted
  <2>10. CASE TurnEnds(d)
    BY <2>10 DEF TurnEnds, Push
  <2>11. CASE TurnTimesOut(d)
    BY <2>11 DEF TurnTimesOut
  <2>12. CASE HookDrained(d)
    BY <2>12 DEF HookDrained
  <2>13. CASE HookGivenUp(d)
    BY <2>13 DEF HookGivenUp, InHook
  <2>14. CASE Unheard(d)
    BY <2>14 DEF Unheard
  <2> QED BY CommandStep(d), <2>1, <2>2, <2>3, <2>4, <2>5, <2>6, <2>7, <2>8, <2>9, <2>10, <2>11,
             <2>12, <2>13, <2>14 DEF CommandStep
<1> QED BY <1>2, <1>3

LEMMA JobsStep == FlowType /\ Jobs /\ [Next]_vars => Jobs'
<1> SUFFICES ASSUME FlowType, Jobs, [Next]_vars PROVE Jobs'
  OBVIOUS
<1>1. ASSUME NEW c \in Commands, Intent(c) PROVE Jobs'
  BY <1>1, ReceivedJob DEF Intent
<1>2. ASSUME NEW c \in Commands, CommandStep(c) PROVE Jobs'
  BY <1>2, CommandJob
<1>3. ASSUME NEW c \in Commands, TurnDropped(c) PROVE Jobs'
  BY <1>3 DEF TurnDropped, Jobs, JobOf, FlowType
<1>4. CASE DrainPending
  <2>1. turn' = turn /\ abandoned' = abandoned
    BY <1>4 DEF DrainPending
  <2>2. CASE UNCHANGED <<st, at>>
    BY <2>1, <2>2 DEF Jobs, JobOf
  <2>3. ASSUME NEW c, at[c] = "none", Receive(c) PROVE Jobs'
    <3>1. CASE c \in Commands
      BY <2>1, <2>3, <3>1, ReceivedJob
    <3>2. CASE c \notin Commands
      BY <2>1, <2>3, <3>2 DEF Jobs, JobOf, FlowType, Receive, Push, Queues
    <3> QED BY <3>1, <3>2
  <2> QED BY <1>4, <2>2, <2>3 DEF DrainPending
<1>5. CASE StopBegins
  <2> SUFFICES ASSUME NEW c \in Commands PROVE JobOf(c)'
    BY DEF Jobs
  <2>1. JobOf(c)
    BY DEF Jobs
  <2>2. /\ at'[c] = (IF at[c] = "turn" THEN "post" ELSE at[c])
        /\ turn'[c] = (IF turn[c] = "open" THEN "given up" ELSE turn[c]) /\ st' = st
        /\ abandoned' = abandoned
    BY <1>5 DEF StopBegins
  <2> QED BY <2>1, <2>2 DEF JobOf
<1>6. CASE Crash
  <2> SUFFICES ASSUME NEW c \in Commands PROVE JobOf(c)'
    BY DEF Jobs
  <2>1. /\ at'[c] = (IF Settled(c) THEN "done" ELSE "none") /\ turn'[c] = "none"
        /\ abandoned' = {}
    BY <1>6 DEF Crash
  <2>2. \A q \in Queues : st'[q][c] = (IF Settled(c) THEN "done" ELSE "none")
    BY <1>6 DEF Crash
  <2> QED BY <2>1, <2>2 DEF JobOf, Queues
<1>7. CASE st' = st /\ at' = at /\ turn' = turn /\ abandoned' = abandoned
  BY <1>7 DEF Jobs, JobOf
<1> QED BY <1>1, <1>2, <1>3, <1>4, <1>5, <1>6, <1>7, StillSteps DEF Next, StartStep, StopStep

-----------------------------------------------------------------------------
(* The drains of a stop. *)

\* Once the providers are stopped, a step gives a queue that was drained, or is
\* being drained, no job but of a command that is late.
Grows(q) == \A c \in Commands : Under(q, c)' => Under(q, c) \/ c \in late'

\* What a step of a command, or an intent, may do then.
Kept ==
    /\ phase' = phase /\ drains' = drains /\ waits' = waits
    /\ \A c \in late : c \in late'
    /\ Grows("provider")
    /\ CommandDrained \/ phase = "closed" => Grows("command")
    /\ Emptied("command") /\ TransportDrained => Grows("transport")
    /\ Emptied("command") \/ phase # "closed" =>
         \A c \in Commands : turn'[c] \in {"open", "given up"} =>
                               turn[c] \in {"open", "given up"} \/ c \in late'

LEMMA CommandKeeps ==
    ASSUME FlowType, Jobs, Order, phase \in {"queues", "unhosting", "closed"},
           NEW d \in Commands, CommandStep(d)
    PROVE  Kept
<1> USE DEF FlowType, Queues, Kept, Grows, Under
<1>1. JobOf(d)
  BY DEF Jobs
<1>2. CASE CommandStarts(d)
  BY <1>2 DEF CommandStarts, draining
<1>3. CASE TurnBegins(d)
  <2>1. d \in late'
    BY <1>3 DEF TurnBegins, ProvidersStopped
  <2> QED BY <1>3, <2>1 DEF TurnBegins, draining
<1>4. CASE HookReplies(d)
  BY <1>4 DEF HookReplies, draining
<1>5. CASE HookDrains(d)
  BY <1>5 DEF HookDrains, draining
<1>6. CASE EventStarts(d)
  BY <1>6 DEF EventStarts, draining
<1>7. CASE Projects(d)
  BY <1>7 DEF Projects, draining
<1>8. CASE EventDone(d)
  BY <1>8 DEF EventDone, draining
<1>9. CASE Posts(d)
  <2>1. d \notin abandoned => st["command"][d] = "running"
    BY <1>1, <1>9 DEF Posts, JobOf, JobStates
  <2>2. Emptied("command") /\ TransportDrained => d \in late'
    BY <1>9, <2>1 DEF Emptied, Posts
  <2> QED BY <1>9, <2>2 DEF Posts, Push, draining
<1>10. CASE Posted(d)
  BY <1>10 DEF Posted, draining
<1>11. CASE TurnEnds(d)
  <2>1. d \in late
    BY <1>11 DEF TurnEnds, Order, TurnsLate, Drain, AllEmptied
  <2> QED BY <1>11, <2>1 DEF TurnEnds, Push, draining, TurnStates
<1>12. CASE TurnTimesOut(d)
  BY <1>12 DEF TurnTimesOut, draining, TurnStates
<1>13. CASE HookDrained(d) \/ HookGivenUp(d) \/ Unheard(d)
  BY <1>13 DEF HookDrained, HookGivenUp, Unheard, draining
<1> QED BY <1>2, <1>3, <1>4, <1>5, <1>6, <1>7, <1>8, <1>9, <1>10, <1>11, <1>12, <1>13
        DEF CommandStep

LEMMA IntentKeeps ==
    ASSUME FlowType, Order, phase \in {"queues", "unhosting", "closed"},
           NEW d \in Commands, Intent(d)
    PROVE  Kept
<1>1. Receive(d) /\ phase # "closed"
  BY DEF Intent, Off
<1>2. phase' = phase /\ drains' = drains /\ waits' = waits /\ turn' = turn
  BY DEF Intent, draining
<1>3. \A q \in Queues, c \in Commands : q # "command" \/ c # d => st'[q][c] = st[q][c]
  BY <1>1, Receiving
<1>4. Grows("provider") /\ Grows("transport")
  BY <1>3 DEF Grows, Under, Queues
<1>5. CommandDrained => d \in late'
  BY <1>1, Receiving
<1>6. CommandDrained => Grows("command")
  BY <1>3, <1>5 DEF Grows, Under, Queues
<1>7. \A c \in late : c \in late'
  BY <1>1, Receiving
<1> QED BY <1>1, <1>2, <1>4, <1>6, <1>7 DEF Kept

\* What such a step keeps of the order of the drains.
LEMMA KeptOrder ==
    ASSUME FlowType, Order, phase \in {"queues", "unhosting", "closed"}, Kept
    PROVE  Order'
<1> USE DEF Kept
<1>1. \A c \in Commands : turn'[c] \in {"open", "given up"} => c \in late'
  <2>1. Emptied("command") \/ phase # "closed"
    BY DEF Order, TurnsLate, Drain, AllEmptied
  <2> QED BY <2>1 DEF Order, TurnsLate, Drain, AllEmptied
<1>2. Emptied("provider") => Emptied("provider")'
  BY DEF Emptied, Grows
<1>3. Draining("provider") => Draining("provider")'
  BY DEF Draining, Grows
<1>4. CommandDrained \/ phase = "closed" => (Emptied("command") => Emptied("command")')
  BY DEF Emptied, Grows
<1>5. CommandDrained => (Draining("command") => Draining("command")')
  BY DEF Draining, Grows
<1>6. Emptied("command") /\ TransportDrained => (Emptied("transport") => Emptied("transport")')
  BY DEF Emptied, Grows
<1>7. Emptied("command") /\ TransportDrained => (Draining("transport") => Draining("transport")')
  BY DEF Draining, Grows
<1>8. CASE phase = "queues"
  <2>1. drains \in 1..4 /\ (drains > 1 => CommandDrained)
    BY <1>8 DEF Order, TurnsLate, Drain, AllEmptied, CommandDrained
  <2>2. Drain
    BY <1>8 DEF Order
  <2>3. drains \in Nat
    <3>1. drains \in 1..4
      BY <2>1
    <3> QED BY ONLY <3>1
  <2>4. (drains > 2 \/ drains = 2 => drains > 1) /\ (drains = 4 => drains > 2 /\ drains > 3)
    BY ONLY <2>3
  <2>6. /\ drains = 1 => Draining("provider")'
        /\ drains > 1 => Emptied("provider")'
    BY <1>2, <1>3, <2>2 DEF Drain
  <2>7. /\ drains = 2 => Draining("command")'
        /\ drains > 2 => Emptied("command")'
    BY <1>4, <1>5, <2>1, <2>2, <2>4 DEF Drain
  <2>8. drains = 4 => Draining("transport")'
    <3>1. drains = 4 => TransportDrained
      BY <1>8, <2>4 DEF TransportDrained
    <3> QED BY <1>7, <2>2, <2>4, <3>1 DEF Drain
  <2>9. Drain'
    BY <2>1, <2>6, <2>7, <2>8 DEF Drain
  <2> QED BY <1>1, <1>8, <2>9 DEF Order, TurnsLate
<1>9. CASE phase \in {"unhosting", "closed"}
  <2>1. (CommandDrained \/ phase = "closed") /\ TransportDrained
    BY <1>9 DEF CommandDrained, TransportDrained
  <2> QED BY <1>1, <1>2, <1>4, <1>6, <1>9, <2>1 DEF Order, TurnsLate, Drain, AllEmptied
<1> QED BY <1>8, <1>9

LEMMA DrainsOn ==
    ASSUME FlowType, Order, DrainStep
    PROVE  Order'
<1>1. /\ phase = "queues" /\ drains \in 1..4 /\ waits \cap Underway(QueueAt[drains]) = {}
      /\ st' = st /\ turn' = turn /\ late' = late
  BY DEF DrainStep, Drained, Order, TurnsLate, Drain, AllEmptied, flow
<1>2. \A c \in Commands : turn'[c] \in {"open", "given up"} => c \in late'
  BY <1>1 DEF Order, TurnsLate, Drain, AllEmptied
<1>3. \A q \in Queues : Emptied(q)' <=> Emptied(q)
  BY <1>1 DEF Emptied, Under
<1>4. QueueAt[1] = "provider" /\ QueueAt[2] = "command" /\ QueueAt[4] = "transport"
      /\ Len(QueueAt) = 4
  BY DEF QueueAt
<1>5. \A q \in Queues : q = QueueAt[drains] /\ Draining(q) => Emptied(q)
  BY <1>1 DEF Draining, Emptied, Under, Underway
<1>6. ASSUME drains < 4
      PROVE  /\ drains' = drains + 1 /\ phase' = phase
             /\ waits' = Underway(QueueAt[drains + 1])
  BY <1>1, <1>4, <1>6 DEF DrainStep, NextQueue, Drains
<1>7. \A q \in Queues : waits' = Underway(q) => Draining(q)'
  BY <1>1 DEF Draining, Under, Underway
<1> USE DEF Queues
<1>8. CASE drains = 1
  <2>1. drains' = 2 /\ waits' = Underway("command") /\ phase' = phase
    BY <1>4, <1>6, <1>8
  <2>2. Emptied("provider")' /\ Draining("command")'
    BY <1>1, <1>3, <1>4, <1>5, <1>7, <1>8, <2>1 DEF Order, Drain
  <2>3. Drain'
    BY <2>1, <2>2 DEF Drain
  <2> QED BY <1>1, <1>2, <2>1, <2>3 DEF Order, TurnsLate
<1>9. CASE drains = 2
  <2>1. drains' = 3 /\ phase' = phase
    BY <1>6, <1>9
  <2>2. Emptied("provider")' /\ Emptied("command")'
    BY <1>1, <1>3, <1>4, <1>5, <1>9 DEF Order, Drain
  <2>3. Drain'
    BY <2>1, <2>2 DEF Drain
  <2> QED BY <1>1, <1>2, <2>1, <2>3 DEF Order, TurnsLate
<1>10. CASE drains = 3
  <2>1. drains' = 4 /\ waits' = Underway("transport") /\ phase' = phase
    BY <1>4, <1>6, <1>10
  <2>2. Emptied("provider")' /\ Emptied("command")' /\ Draining("transport")'
    BY <1>1, <1>3, <1>7, <1>10, <2>1 DEF Order, Drain
  <2>3. Drain'
    BY <2>1, <2>2 DEF Drain
  <2> QED BY <1>1, <1>2, <2>1, <2>3 DEF Order, TurnsLate
<1>11. CASE drains = 4
  <2>1. phase' = "unhosting"
    BY <1>1, <1>4, <1>11 DEF DrainStep, NextQueue
  <2>2. Emptied("provider")' /\ Emptied("command")' /\ Emptied("transport")'
    BY <1>1, <1>3, <1>4, <1>5, <1>11 DEF Order, Drain
  <2> QED BY <1>2, <2>1, <2>2 DEF Order, TurnsLate, AllEmptied
<1> QED BY <1>1, <1>8, <1>9, <1>10, <1>11

LEMMA OrderStep == FlowType /\ Jobs /\ Order /\ [Next]_vars => Order'
<1> SUFFICES ASSUME FlowType, Jobs, Order, [Next]_vars PROVE Order'
  OBVIOUS
<1>1. CASE phase' \notin {"queues", "unhosting", "closed"}
  BY <1>1 DEF Order, TurnsLate, Drain, AllEmptied
<1>2. ASSUME NEW c \in Commands, Intent(c) \/ CommandStep(c) \/ TurnDropped(c),
             phase \in {"queues", "unhosting", "closed"}
      PROVE  Order'
  <2>1. CASE Intent(c)
    BY <1>2, <2>1, IntentKeeps, KeptOrder
  <2>2. CASE CommandStep(c)
    BY <1>2, <2>2, CommandKeeps, KeptOrder
  <2>3. CASE TurnDropped(c)
    BY <1>2, <2>3 DEF TurnDropped, AtStopped
  <2> QED BY <1>2, <2>1, <2>2, <2>3
<1>3. CASE ProvidersDrained
  <2>1. /\ phase' = "queues" /\ drains' = 1 /\ waits' = Underway("provider")
        /\ st' = st /\ turn' = turn /\ late' = late
    BY <1>3 DEF ProvidersDrained, Drains, QueueAt, flow
  <2>2. \A c \in Commands : turn[c] \in {"open", "given up"} => c \in late
    BY <1>3 DEF ProvidersDrained, AtStopped
  <2>3. Draining("provider")'
    BY <2>1 DEF Draining, Under, Underway
  <2>4. Drain'
    BY <2>1, <2>3 DEF Drain
  <2>5. TurnsLate'
    BY <2>1, <2>2 DEF TurnsLate
  <2> QED BY <2>1, <2>4, <2>5 DEF Order
<1>4. CASE DrainStep
  BY <1>4, DrainsOn
<1>5. CASE Close
  BY <1>5 DEF Close, Order, TurnsLate, Drain, AllEmptied, Emptied, Under, flow
<1>6. CASE phase \in {"queues", "unhosting", "closed"} /\ (SidecarStep \/ UNCHANGED vars)
  <2>1. UNCHANGED <<st, turn, late, phase, drains, waits>>
    BY <1>6 DEF SidecarStep, vars, flow, draining
  <2> QED BY <2>1 DEF Order, TurnsLate, Drain, AllEmptied, Emptied, Draining, Under
<1>7. CASE phase' = phase \/ phase' \notin {"queues", "unhosting", "closed"} \/ ProvidersDrained
           \/ DrainStep \/ Close
  <2> SUFFICES ASSUME phase' = phase, phase \in {"queues", "unhosting", "closed"} PROVE Order'
    BY <1>1, <1>3, <1>4, <1>5, <1>7
  <2>1. \/ \E c \in Commands : Intent(c) \/ CommandStep(c) \/ TurnDropped(c)
        \/ DrainStep \/ SidecarStep \/ UNCHANGED vars
    BY DEF Next, StartStep, StopStep, StartHosting, HostingFails, DrainPending, Wire, StartRecovery,
           RecoveryStep, Up, Quiesce, StopBegins, ShutdownStep, StopAll, ProvidersDrained, Close,
           Crash, Starting
  <2> QED BY <1>2, <1>4, <1>6, <2>1
<1>8. phase' = phase \/ phase' \notin {"queues", "unhosting", "closed"} \/ ProvidersDrained
      \/ DrainStep \/ Close
  BY DEF Next, StartStep, StopStep, Intent, CommandStep, CommandStarts, TurnBegins, HookReplies,
         HookDrains, HookDrained, HookGivenUp, Unheard, EventStarts, Projects, EventDone, Posts,
         Posted, TurnEnds, TurnTimesOut,
         StartHosting, HostingFails, DrainPending, Wire, StartRecovery, RecoveryStep, Up, Quiesce,
         StopBegins, ShutdownStep, StopAll, TurnDropped, Crash, SidecarStep, Starting, vars
<1> QED BY <1>7, <1>8

-----------------------------------------------------------------------------
LEMMA InitHolds == Init => IInv
BY DEF Init, IInv, FlowType, Jobs, JobOf, Order, TurnsLate, Drain, AllEmptied, Queues, JobStates, Stages, TurnStates

\* The invariant holds of every state of a runtime.
THEOREM Invariance == Spec => []IInv
<1>1. IInv /\ [Next]_vars => IInv'
  BY FlowStep, JobsStep, OrderStep DEF IInv
<1> QED BY InitHolds, <1>1, PTL DEF Spec

\* When the stores are closed, no job of any queue is under way, but of commands
\* that came, whose turn began, or whose hook, given up by its timer, posted too
\* late: the order of the drains is enough, with the projections that provider
\* events wait for drained with them, also when hooks run on without their jobs.
THEOREM QuietRight == Spec => []ClosedQuiet
<1>1. IInv => ClosedQuiet
  <2> SUFFICES ASSUME IInv, phase = "closed", NEW q \in Queues, NEW c \in Commands, Under(q, c)
               PROVE  c \in late
    BY DEF ClosedQuiet, Underway, Under
  <2>1. Emptied("provider") /\ Emptied("command") /\ Emptied("transport")
    BY DEF IInv, Order, TurnsLate, Drain, AllEmptied
  <2>2. JobOf(c)
    BY DEF IInv, Jobs
  <2>3. CASE q = "projection"
    BY <2>1, <2>2, <2>3 DEF JobOf, Under, Emptied
  <2>4. CASE q # "projection"
    BY <2>1, <2>4 DEF Emptied, Queues
  <2> QED BY <2>3, <2>4
<1> QED BY Invariance, <1>1, PTL

-----------------------------------------------------------------------------
(* Sidecars: types, and numbers that are of children there are. *)

LaunchOrNone == Launches \cup {NoLaunch}

Rows == [status : Statuses \cup {"absent"}, inst : Nat, launch : LaunchOrNone, restarts : Nat, child : Nat]
Kids == [name : Names, launch : LaunchOrNone, inst : Nat, restarts : Nat, again : BOOLEAN,
         alive : BOOLEAN, expected : BOOLEAN, forced : BOOLEAN, timer : BOOLEAN,
         settled : BOOLEAN, stopped : BOOLEAN, ready : {"pending", "ok", "rejected"}, after : BOOLEAN]
Planned == [name : Names, row : Rows]
Ats == {"idle", "ready", "term", "kill", "next", "failed"}
CallRecords == [at : Ats, name : Names \cup {NoName}, launch : LaunchOrNone, child : Nat, restarts : Nat,
                rest : Seq(Names) \cup Seq(Planned)]

\* An instance has the number its first child had.
RowFits(row, n) == row \in Rows /\ row.inst <= n
KidFits(kid, n) == kid \in Kids /\ kid.inst <= n /\ (kid.settled \/ kid.ready # "ok")

\* What recovery has still to start, and the calls, each with the places it comes to.
Due(rest, n) ==
    /\ rest \in Seq(Planned)
    /\ \A i \in 1..Len(rest) : rest[i].row.inst <= n /\ rest[i].row.status \in {"starting", "ready"}
CallFits(c, call, n) ==
    /\ call \in CallRecords
    /\ call.at \in {"ready", "term", "kill"} => call.name \in Names /\ call.child \in 1..n
    /\ c = RecoverCall => call.at \in {"idle", "next", "ready", "failed"} /\ Due(call.rest, n)
    /\ c = ShutdownCall => /\ call.at \in {"idle", "next", "term", "kill"}
                           /\ call.launch = NoLaunch /\ call.rest \in Seq(Names)
                           /\ call.at = "next" => call.name = NoName
    /\ c \in Callers => call.at \in {"idle", "ready", "term", "kill"}

KidsOK ==
    /\ children \in Seq(Kids) /\ Len(children) <= MaxStarts
    /\ \A k \in 1..Len(children) : KidFits(children[k], Len(children))
RowsOK ==
    /\ rows \in [Names -> Rows]
    /\ \A s \in Names : RowFits(rows[s], Len(children))
RunningOK == running \in [Names -> Nat] /\ \A s \in Names : running[s] <= Len(children)
CallsOK ==
    /\ calls \in [All -> CallRecords]
    /\ \A c \in All : CallFits(c, calls[c], Len(children))
    /\ calls[ShutdownCall].at # "idle" => shutting

Shape == KidsOK /\ RowsOK /\ RunningOK /\ CallsOK /\ shutting \in BOOLEAN /\ muddled \subseteq Names

-----------------------------------------------------------------------------
(* One sidecar. *)

\* Its entry is its only living child, but for those SIGKILL has not ended yet,
\* and those are of other instances.
Entered(s) ==
    /\ running[s] # 0 => /\ children[running[s]].name = s /\ children[running[s]].alive
                         /\ ~children[running[s]].stopped
    /\ \A k \in Living(s) : k = running[s] \/ children[k].forced
    /\ \A k \in Living(s) : running[s] # 0 /\ children[k].inst = children[running[s]].inst => k = running[s]

\* What a row says that runs: with no entry it is of a former process, and still
\* to be recovered once the recovery has read the table.
Told(s) ==
    /\ running[s] = 0 /\ rows[s].status \in {"starting", "ready"} =>
         /\ Living(s) = {}
         /\ calls[RecoverCall].at # "idle" =>
              \E i \in 1..Len(calls[RecoverCall].rest) : calls[RecoverCall].rest[i].name = s
    /\ running[s] # 0 =>
         \/ rows[s].child = running[s] /\ rows[s].status \in {"starting", "ready", "stopping"}
         \/ rows[s].status = "failed" /\ \E k \in DOMAIN children :
              children[k].again /\ children[k].inst = rows[s].inst

\* Who waits for its child to end: nobody else has started another, and who is
\* to replace it is alone.
Awaited(s) ==
    \A c \in All : calls[c].name = s =>
        /\ calls[c].at \in {"term", "kill"} =>
             /\ running[s] \in {0, calls[c].child}
             /\ running[s] # 0 => children[calls[c].child].expected
        /\ calls[c].at = "kill" => children[calls[c].child].forced
        /\ calls[c].at # "idle" /\ calls[c].launch # NoLaunch =>
             \A d \in All \ {c} : ~Busy(d, s)

\* What the shutdown has still to stop.
Leaving(s) ==
    calls[ShutdownCall].at # "idle" => \A k \in Living(s) :
        \/ children[k].after \/ children[k].forced
        \/ s \in ToSet(calls[ShutdownCall].rest)
        \/ /\ calls[ShutdownCall].at \in {"term", "kill"} /\ calls[ShutdownCall].name = s
           /\ calls[ShutdownCall].child = k

OneSidecar(s) == Entered(s) /\ Told(s) /\ Awaited(s) /\ Leaving(s)

Supervised == Shape /\ \A s \in Names \ muddled : OneSidecar(s)

-----------------------------------------------------------------------------
(* Rows and children. *)

LEMMA FitsMore ==
    ASSUME NEW n \in Nat, NEW m \in Nat, n <= m
    PROVE  /\ \A row : RowFits(row, n) => RowFits(row, m)
           /\ \A kid : KidFits(kid, n) => KidFits(kid, m)
           /\ \A c, call : CallFits(c, call, n) => CallFits(c, call, m)
<1>1. ASSUME NEW row, RowFits(row, n) PROVE RowFits(row, m)
  <2>1. row.inst \in Nat /\ row.inst <= n
    BY <1>1 DEF RowFits, Rows
  <2>2. row.inst <= m
    BY ONLY <2>1, n \in Nat, m \in Nat, n <= m
  <2> QED BY <1>1, <2>2 DEF RowFits
<1>2. ASSUME NEW kid, KidFits(kid, n) PROVE KidFits(kid, m)
  <2>1. kid.inst \in Nat /\ kid.inst <= n
    BY <1>2 DEF KidFits, Kids
  <2>2. kid.inst <= m
    BY ONLY <2>1, n \in Nat, m \in Nat, n <= m
  <2> QED BY <1>2, <2>2 DEF KidFits
<1>3. ASSUME NEW rest, Due(rest, n) PROVE Due(rest, m)
  <2>1. SUFFICES ASSUME NEW i \in 1..Len(rest) PROVE rest[i].row.inst <= m
    BY <1>3 DEF Due
  <2>2. rest[i] \in Planned
    BY <1>3 DEF Due
  <2>3. rest[i].row.inst \in Nat /\ rest[i].row.inst <= n
    BY <1>3, <2>2 DEF Due, Planned, Rows
  <2> QED BY ONLY <2>3, n \in Nat, m \in Nat, n <= m
<1>4. ASSUME NEW c, NEW call, CallFits(c, call, n) PROVE CallFits(c, call, m)
  <2>1. 1..n \subseteq 1..m
    OBVIOUS
  <2> QED BY <1>3, <1>4, <2>1 DEF CallFits
<1> QED BY <1>1, <1>2, <1>4

RowHas(row, status, inst, child) ==
    row \in Rows /\ row.status = status /\ row.inst = inst /\ row.child = child

LEMMA RowIs ==
    ASSUME NEW status \in Statuses \cup {"absent"}, NEW inst \in Nat, NEW launch \in LaunchOrNone,
           NEW restarts \in Nat, NEW child \in Nat
    PROVE  RowHas(Row(status, inst, launch, restarts, child), status, inst, child)
BY DEF RowHas, Row, Rows

LEMMA RowOfIs ==
    ASSUME NEW k \in Nat, NEW n, NEW kid, KidFits(kid, n), NEW status \in Statuses
    PROVE  /\ RowFits(RowOf(k, kid, status), n)
           /\ RowOf(k, kid, status).status = status
           /\ RowOf(k, kid, status).inst = kid.inst
           /\ status \notin {"stopped", "failed"} => RowOf(k, kid, status).child = k
<1>1. kid.inst \in Nat /\ kid.launch \in LaunchOrNone /\ kid.restarts \in Nat /\ kid.inst <= n
  BY DEF Kids, KidFits
<1>2. PICK child \in Nat : child = IF status \in {"stopped", "failed"} THEN 0 ELSE k
  OBVIOUS
<1>3. RowOf(k, kid, status) = Row(status, kid.inst, kid.launch, kid.restarts, child)
  BY <1>2 DEF RowOf
<1>4. status \in Statuses \cup {"absent"}
  OBVIOUS
<1>5. PICK row : row = RowOf(k, kid, status)
  OBVIOUS
<1>6. RowHas(row, status, kid.inst, child)
  <2>1. RowHas(Row(status, kid.inst, kid.launch, kid.restarts, child), status, kid.inst, child)
    BY ONLY <1>1, <1>2, <1>4, RowIs
  <2> QED BY ONLY <1>3, <1>5, <2>1
<1>7. row.status = status /\ row.inst = kid.inst /\ row.child = child /\ RowFits(row, n)
  BY ONLY <1>1, <1>6 DEF RowHas, RowFits
<1>8. status \notin {"stopped", "failed"} => child = k
  BY ONLY <1>2
<1> QED BY ONLY <1>5, <1>7, <1>8

LEMMA StoppedIs ==
    ASSUME RowsOK, KidsOK, NEW s \in Names
    PROVE  /\ RowFits(Stopped(s), Len(children))
           /\ Stopped(s).status \in {"stopped", "absent"}
<1>1. rows[s] \in Rows /\ RowFits(rows[s], Len(children)) /\ Len(children) \in Nat
  BY DEF RowsOK, KidsOK
<1>2. NoRow \in Rows /\ NoRow.status = "absent" /\ NoRow.inst = 0
  <2>1. NoLaunch \in LaunchOrNone /\ "absent" \in Statuses \cup {"absent"} /\ 0 \in Nat
    BY DEF LaunchOrNone
  <2> QED BY <2>1, RowIs DEF NoRow, RowHas
<1>3. RowFits(NoRow, Len(children))
  BY <1>1, <1>2 DEF RowFits
<1>4. [rows[s] EXCEPT !.status = "stopped", !.child = 0] \in Rows
  BY <1>1 DEF Rows, Statuses
<1>5. /\ [rows[s] EXCEPT !.status = "stopped", !.child = 0].status = "stopped"
      /\ [rows[s] EXCEPT !.status = "stopped", !.child = 0].inst = rows[s].inst
  BY <1>1 DEF Rows
<1> QED BY <1>1, <1>2, <1>3, <1>4, <1>5 DEF Stopped, RowFits

\* A child that has just been started.
Begun(kid, s, inst, again) ==
    /\ kid \in Kids /\ (kid.settled \/ kid.ready # "ok")
    /\ kid.name = s /\ kid.inst = inst /\ kid.again = again /\ kid.after = shutting
    /\ kid.alive = TRUE /\ kid.stopped = FALSE

LEMMA ChildIs ==
    ASSUME NEW s \in Names, NEW launch \in LaunchOrNone, NEW inst \in Nat, NEW restarts \in Nat,
           NEW again, again \in BOOLEAN, shutting \in BOOLEAN
    PROVE  Begun(Child(s, launch, inst, restarts, again), s, inst, again)
<1>1. PICK timer \in BOOLEAN : timer = (launch \in Probed)
  <2>1. CASE launch \in Probed
    <3>1. (launch \in Probed) = TRUE
      BY <2>1
    <3> QED BY <3>1
  <2>2. CASE launch \notin Probed
    <3>1. (launch \in Probed) = FALSE
      BY <2>2
    <3> QED BY <3>1
  <2> QED BY <2>1, <2>2
<1>2. PICK settled \in BOOLEAN : settled = (launch \notin Probed)
  OBVIOUS
<1>3. PICK ready \in {"pending", "ok"} :
         ready = (IF launch \in Probed THEN "pending" ELSE "ok") /\ (settled \/ ready # "ok")
  BY <1>2
<1>4. Child(s, launch, inst, restarts, again) =
        [name |-> s, launch |-> launch, inst |-> inst, restarts |-> restarts, again |-> again,
         alive |-> TRUE, expected |-> FALSE, forced |-> FALSE, timer |-> timer,
         settled |-> settled, stopped |-> FALSE, ready |-> ready, after |-> shutting]
  BY <1>1, <1>2, <1>3 DEF Child
<1> QED BY <1>1, <1>2, <1>3, <1>4 DEF Begun, Kids

\* What a step leaves of a child.
SameKid(old, new) ==
    /\ new.name = old.name /\ new.inst = old.inst /\ new.again = old.again
    /\ new.after = old.after /\ (new.alive => old.alive) /\ (old.forced => new.forced)
    /\ new \in Kids /\ (old.settled \/ old.ready # "ok" => new.settled \/ new.ready # "ok")

LEMMA SameIs ==
    ASSUME NEW kid \in Kids
    PROVE  SameKid(kid, kid)
BY DEF SameKid

LEMMA SameFits ==
    ASSUME NEW n, NEW kid, KidFits(kid, n), NEW new, SameKid(kid, new)
    PROVE  KidFits(new, n)
BY DEF KidFits, SameKid

LEMMA ExpectedIs ==
    ASSUME NEW kid \in Kids
    PROVE  /\ SameKid(kid, [kid EXCEPT !.expected = TRUE]) /\ [kid EXCEPT !.expected = TRUE].expected
           /\ [kid EXCEPT !.expected = TRUE].alive = kid.alive
           /\ [kid EXCEPT !.expected = TRUE].stopped = kid.stopped
BY DEF Kids, SameKid

LEMMA ForcedIs ==
    ASSUME NEW kid \in Kids
    PROVE  /\ SameKid(kid, [kid EXCEPT !.forced = TRUE]) /\ [kid EXCEPT !.forced = TRUE].forced
           /\ [kid EXCEPT !.forced = TRUE].alive = kid.alive
           /\ [kid EXCEPT !.forced = TRUE].expected = kid.expected
           /\ [kid EXCEPT !.forced = TRUE].stopped = kid.stopped
BY DEF Kids, SameKid

\* Readiness, in time or not.
LEMMA ReadyIs ==
    ASSUME NEW kid \in Kids,
           NEW new \in {Settles(kid), [kid EXCEPT !.timer = FALSE, !.ready = "rejected"]}
    PROVE  /\ SameKid(kid, new) /\ new.alive = kid.alive /\ new.expected = kid.expected
           /\ new.stopped = kid.stopped
BY DEF Kids, SameKid, Settles

\* The promises of a child, when child i ends as that of the entry cur.
Hears(kid, i, cur, ready) == [kid EXCEPT !.stopped = @ \/ i = cur, !.ready = ready]

LEMMA HearsIs ==
    ASSUME NEW kid \in Kids, NEW i, NEW cur, NEW ready \in {kid.ready, "rejected"}
    PROVE  /\ SameKid(kid, Hears(kid, i, cur, ready))
           /\ Hears(kid, i, cur, ready).alive = kid.alive
           /\ Hears(kid, i, cur, ready).expected = kid.expected
           /\ i # cur => Hears(kid, i, cur, ready).stopped = kid.stopped
BY DEF Kids, SameKid, Hears

LEMMA EndedIs ==
    ASSUME NEW kid \in Kids
    PROVE  SameKid(kid, Ended(kid)) /\ ~Ended(kid).alive /\ Ended(kid).settled
BY DEF Kids, SameKid, Ended, LaunchOrNone

-----------------------------------------------------------------------------
(* What a step that is not about a sidecar leaves of it. *)

\* The children stay who they are, and those that come are started in this phase.
KidsGrow ==
    /\ Len(children) <= Len(children')
    /\ \A k \in 1..Len(children) : SameKid(children[k], children'[k])
    /\ \A k \in 1..Len(children') : k > Len(children) => children'[k].after = shutting
NoNew(s) == \A k \in 1..Len(children') : k > Len(children) => children'[k].name # s

EntryStays(s) ==
    /\ running'[s] = running[s]
    /\ running[s] # 0 => /\ children'[running[s]].alive = children[running[s]].alive
                         /\ children'[running[s]].stopped = children[running[s]].stopped
                         /\ children[running[s]].expected => children'[running[s]].expected

\* A call is what it was, or about another, or over, or it awaits readiness while
\* nobody replaces the child.
CallStays(c, s) ==
    \/ calls'[c] = calls[c]
    \/ calls'[c].name # s
    \/ /\ calls'[c].at \notin {"term", "kill"} /\ calls'[c].launch = NoLaunch
       /\ calls'[c].at = "idle" \/ ~Replacing(s)
RecoverStays(s) ==
    calls'[RecoverCall].at # "idle" =>
        /\ calls[RecoverCall].at # "idle"
        /\ (\E i \in 1..Len(calls[RecoverCall].rest) : calls[RecoverCall].rest[i].name = s) =>
           (\E i \in 1..Len(calls'[RecoverCall].rest) : calls'[RecoverCall].rest[i].name = s)

LEMMA Counted ==
    ASSUME KidsOK
    PROVE  /\ Len(children) \in Nat /\ DOMAIN children = 1..Len(children)
           /\ \A k \in 1..Len(children) : children[k] \in Kids /\ KidFits(children[k], Len(children))
           /\ \A s \in Names : Living(s) \subseteq 1..Len(children)
BY DEF KidsOK, Living

LEMMA LivingStays ==
    ASSUME KidsOK, KidsOK', KidsGrow, NEW s, NoNew(s), NEW k \in Living(s)'
    PROVE  /\ k \in Living(s) /\ children'[k].inst = children[k].inst
           /\ children[k].forced => children'[k].forced
           /\ children'[k].after = children[k].after
<1>1. k \in 1..Len(children') /\ children'[k].name = s /\ children'[k].alive
  BY DEF Living, KidsOK
<1>2. k \in 1..Len(children)
  <2>1. ~(k > Len(children))
    BY <1>1 DEF NoNew
  <2>2. Len(children) \in Nat /\ Len(children') \in Nat
    BY DEF KidsOK
  <2> QED BY ONLY <1>1, <2>1, <2>2
<1>3. SameKid(children[k], children'[k])
  BY <1>2 DEF KidsGrow
<1>4. k \in DOMAIN children
  BY <1>2 DEF KidsOK
<1> QED BY <1>1, <1>3, <1>4 DEF SameKid, Living

LEMMA EnteredStays ==
    ASSUME KidsOK, KidsOK', RunningOK, KidsGrow, NEW s \in Names, NoNew(s), EntryStays(s), Entered(s)
    PROVE  Entered(s)'
<1>1. running[s] # 0 => running[s] \in 1..Len(children)
  <2>1. running[s] \in Nat /\ running[s] <= Len(children) /\ Len(children) \in Nat
    BY DEF RunningOK, KidsOK
  <2> QED BY ONLY <2>1
<1>2. running[s] # 0 => SameKid(children[running[s]], children'[running[s]])
  BY <1>1 DEF KidsGrow
<1>3. running'[s] = running[s]
  BY DEF EntryStays
<1>4. running'[s] # 0 => /\ children'[running'[s]].name = s /\ children'[running'[s]].alive
                         /\ ~children'[running'[s]].stopped
  BY <1>2, <1>3 DEF EntryStays, Entered, SameKid
<1>5. ASSUME NEW k \in Living(s)'
      PROVE  /\ k = running'[s] \/ children'[k].forced
             /\ running'[s] # 0 /\ children'[k].inst = children'[running'[s]].inst => k = running'[s]
  <2>1. k \in Living(s) /\ children'[k].inst = children[k].inst
        /\ (children[k].forced => children'[k].forced)
    BY <1>5, LivingStays
  <2>2. running[s] # 0 => children'[running[s]].inst = children[running[s]].inst
    BY <1>2 DEF SameKid
  <2> QED BY <1>3, <2>1, <2>2 DEF Entered
<1> QED BY <1>4, <1>5 DEF Entered

LEMMA ToldStays ==
    ASSUME KidsOK, KidsOK', KidsGrow, NEW s \in Names, NoNew(s), running'[s] = running[s],
           rows'[s] = rows[s], RecoverStays(s), Told(s)
    PROVE  Told(s)'
<1>1. ASSUME running'[s] = 0, rows'[s].status \in {"starting", "ready"}
      PROVE  /\ Living(s)' = {}
             /\ calls'[RecoverCall].at # "idle" =>
                  \E i \in 1..Len(calls'[RecoverCall].rest) : calls'[RecoverCall].rest[i].name = s
  <2>1. Living(s) = {}
    BY <1>1 DEF Told
  <2>2. Living(s)' = {}
    BY <2>1, LivingStays
  <2> QED BY <1>1, <2>2 DEF Told, RecoverStays
<1>2. ASSUME NEW k \in DOMAIN children, children[k].again, children[k].inst = rows[s].inst
      PROVE  \E i \in DOMAIN children' : children'[i].again /\ children'[i].inst = rows'[s].inst
  <2>1. k \in 1..Len(children) /\ Len(children) \in Nat /\ Len(children') \in Nat
    BY <1>2 DEF KidsOK
  <2>2. k \in 1..Len(children')
    BY ONLY <2>1, Len(children) <= Len(children') DEF KidsGrow
  <2>3. SameKid(children[k], children'[k]) /\ k \in DOMAIN children'
    BY <2>1, <2>2 DEF KidsGrow, KidsOK
  <2> QED BY <1>2, <2>3 DEF SameKid
<1> QED BY <1>1, <1>2 DEF Told

LEMMA AwaitedStays ==
    ASSUME KidsOK, CallsOK, KidsGrow, NEW s \in Names, EntryStays(s) \/ running'[s] = 0,
           \A c \in All : CallStays(c, s), Awaited(s)
    PROVE  Awaited(s)'
<1> SUFFICES ASSUME NEW c \in All, calls'[c].name = s
             PROVE  /\ calls'[c].at \in {"term", "kill"} =>
                         /\ running'[s] \in {0, calls'[c].child}
                         /\ running'[s] # 0 => children'[calls'[c].child].expected
                    /\ calls'[c].at = "kill" => children'[calls'[c].child].forced
                    /\ calls'[c].at # "idle" /\ calls'[c].launch # NoLaunch =>
                         \A d \in All \ {c} : ~(calls'[d].at # "idle" /\ calls'[d].name = s)
  BY DEF Awaited, Busy
<1>1. CASE calls'[c].at \notin {"term", "kill"} /\ calls'[c].launch = NoLaunch
  BY <1>1
<1>2. CASE calls'[c] = calls[c]
  <2>1. calls[c].at \in {"term", "kill"} => calls[c].child \in 1..Len(children)
    BY DEF CallsOK, CallFits
  <2>2. calls[c].at = "kill" => children'[calls[c].child].forced
    BY <1>2, <2>1 DEF Awaited, KidsGrow, SameKid
  <2>3. calls[c].at \in {"term", "kill"} =>
          /\ running'[s] \in {0, calls[c].child}
          /\ running'[s] # 0 => children'[calls[c].child].expected
    BY <1>2 DEF Awaited, EntryStays
  <2>4. ASSUME calls[c].at # "idle", calls[c].launch # NoLaunch, NEW d \in All \ {c},
               calls'[d].at # "idle", calls'[d].name = s
        PROVE  FALSE
    <3>1. Replacing(s)
      BY <1>2, <2>4 DEF Replacing, Busy
    <3>2. ~(calls[d].at # "idle" /\ calls[d].name = s)
      BY <1>2, <2>4 DEF Awaited, Busy
    <3> QED BY <2>4, <3>1, <3>2 DEF CallStays
  <2> QED BY <1>2, <2>2, <2>3, <2>4
<1> QED BY <1>1, <1>2 DEF CallStays

\* A shutdown that has begun: who comes after it was started in it.
LEMMA LeavingStays ==
    ASSUME KidsOK, KidsOK', CallsOK, KidsGrow, NEW s \in Names, Leaving(s),
           calls'[ShutdownCall] = calls[ShutdownCall] \/ calls'[ShutdownCall].at = "idle"
    PROVE  Leaving(s)'
<1> SUFFICES ASSUME calls'[ShutdownCall].at # "idle", NEW k \in Living(s)'
             PROVE  \/ children'[k].after \/ children'[k].forced
                    \/ s \in ToSet(calls'[ShutdownCall].rest)
                    \/ /\ calls'[ShutdownCall].at \in {"term", "kill"}
                       /\ calls'[ShutdownCall].name = s /\ calls'[ShutdownCall].child = k
  BY DEF Leaving
<1>1. calls'[ShutdownCall] = calls[ShutdownCall]
  OBVIOUS
<1>2. k \in 1..Len(children') /\ children'[k].name = s /\ children'[k].alive
  BY DEF Living, KidsOK
<1>3. Len(children) \in Nat /\ Len(children') \in Nat
  BY DEF KidsOK
<1>4. CASE k > Len(children)
  BY <1>1, <1>2, <1>4 DEF KidsGrow, CallsOK
<1>5. CASE k \in 1..Len(children)
  <2>1. SameKid(children[k], children'[k]) /\ k \in DOMAIN children
    BY <1>5 DEF KidsGrow, KidsOK
  <2>2. k \in Living(s)
    BY <1>2, <2>1 DEF SameKid, Living
  <2> QED BY <1>1, <2>1, <2>2 DEF Leaving, SameKid
<1>6. k > Len(children) \/ k \in 1..Len(children)
  BY ONLY <1>2, <1>3
<1> QED BY <1>4, <1>5, <1>6

-----------------------------------------------------------------------------
(* What the parts of a step leave of the types. *)

LEMMA KidsSame ==
    ASSUME KidsOK, children' = children
    PROVE  KidsOK' /\ KidsGrow /\ \A s : NoNew(s)
<1>1. Len(children) \in Nat /\ \A k \in 1..Len(children) : children[k] \in Kids
  BY DEF KidsOK
<1>2. \A k \in 1..Len(children) : ~(k > Len(children))
  BY ONLY Len(children) \in Nat, <1>1
<1> QED BY <1>1, <1>2, SameIs DEF KidsOK, KidsGrow, NoNew

LEMMA KidsEach ==
    ASSUME KidsOK, NEW kids, DOMAIN kids = 1..Len(children), kids = [k \in DOMAIN kids |-> kids[k]],
           \A k \in 1..Len(children) : SameKid(children[k], kids[k])
    PROVE  kids \in Seq(Kids) /\ Len(kids) = Len(children)
<1>1. \A k \in 1..Len(children) : kids[k] \in Kids
  BY DEF SameKid
<1>2. kids \in [1..Len(children) -> Kids]
  BY <1>1
<1>3. Len(children) \in Nat
  BY DEF KidsOK
<1> QED BY <1>2, <1>3

LEMMA KidsBecome ==
    ASSUME KidsOK, children' \in Seq(Kids), Len(children') = Len(children),
           \A k \in 1..Len(children) : SameKid(children[k], children'[k])
    PROVE  KidsOK' /\ KidsGrow /\ \A s : NoNew(s)
<1>1. Len(children) \in Nat
  BY DEF KidsOK
<1>2. \A k \in 1..Len(children) : ~(k > Len(children))
  BY ONLY <1>1
<1>3. Len(children) <= Len(children')
  BY ONLY <1>1, Len(children') = Len(children)
<1>4. \A k \in 1..Len(children) : KidFits(children'[k], Len(children))
  BY SameFits DEF KidsOK
<1> QED BY <1>1, <1>2, <1>3, <1>4 DEF Begun, KidsOK, KidsGrow, NoNew

LEMMA KidChanges ==
    ASSUME KidsOK, NEW k \in 1..Len(children), NEW kid, SameKid(children[k], kid),
           children' = [children EXCEPT ![k] = kid]
    PROVE  /\ KidsOK' /\ KidsGrow /\ \A s : NoNew(s)
           /\ Len(children') = Len(children) /\ children'[k] = kid
           /\ \A i \in 1..Len(children) : i # k => children'[i] = children[i]
<1>1. children \in Seq(Kids) /\ Len(children) \in Nat /\ DOMAIN children = 1..Len(children)
  BY DEF KidsOK
<1>2. \A i \in 1..Len(children) : children'[i] = IF i = k THEN kid ELSE children[i]
  BY <1>1
<1>3. \A i \in 1..Len(children) : SameKid(children[i], children'[i])
  BY <1>1, <1>2, SameIs
<1>4. DOMAIN children' = 1..Len(children) /\ children' = [i \in DOMAIN children' |-> children'[i]]
  BY <1>1
<1>5. children' \in Seq(Kids) /\ Len(children') = Len(children)
  BY <1>3, <1>4, KidsEach
<1> QED BY <1>2, <1>3, <1>5, KidsBecome

LEMMA KidComes ==
    ASSUME KidsOK, NEW kids \in Seq(Kids), Len(kids) = Len(children),
           \A k \in 1..Len(children) : SameKid(children[k], kids[k]),
           NEW kid, KidFits(kid, Fresh), kid.after = shutting, Fresh <= MaxStarts,
           children' = Append(kids, kid)
    PROVE  /\ KidsOK' /\ KidsGrow /\ \A s : kid.name # s => NoNew(s)
           /\ Len(children') = Fresh /\ Fresh \in Nat /\ children'[Fresh] = kid
           /\ \A k \in 1..Len(children) : children'[k] = kids[k]
<1>1. Len(children) \in Nat /\ Fresh \in Nat /\ Len(children) <= Fresh
  <2>1. Len(children) \in Nat
    BY DEF KidsOK
  <2> QED BY <2>1 DEF Fresh
<1>2. kid \in Kids
  BY DEF KidFits
<1>3. children' \in Seq(Kids) /\ Len(children') = Fresh /\ children'[Fresh] = kid
  BY <1>2 DEF Fresh
<1>4. \A k \in 1..Len(children) : children'[k] = kids[k]
  BY <1>1
<1>5. \A k \in 1..Len(children') : (k \in 1..Len(children) /\ ~(k > Len(children))) \/ k = Fresh
  BY ONLY <1>1, Len(children') = Fresh, <1>3 DEF Fresh
<1>6. \A k \in 1..Len(children) : KidFits(children'[k], Fresh)
  <2> SUFFICES ASSUME NEW k \in 1..Len(children) PROVE KidFits(children'[k], Fresh)
    OBVIOUS
  <2>1. KidFits(children[k], Len(children))
    BY DEF KidsOK
  <2>2. KidFits(children'[k], Len(children))
    BY <1>4, <2>1, SameFits
  <2> QED BY <1>1, <2>2, FitsMore
<1>7. \A k \in 1..Len(children') : KidFits(children'[k], Len(children'))
  BY <1>3, <1>5, <1>6
<1>8. KidsOK'
  BY <1>3, <1>7, SidecarsAssumption DEF KidsOK
<1>9. KidsGrow
  BY <1>1, <1>3, <1>4, <1>5 DEF KidsGrow
<1>10. \A s : kid.name # s => NoNew(s)
  BY <1>3, <1>5 DEF NoNew
<1> QED BY <1>1, <1>3, <1>4, <1>8, <1>9, <1>10

LEMMA RowsChange ==
    ASSUME RowsOK, KidsOK, KidsOK', KidsGrow, NEW s \in Names, NEW row, RowFits(row, Len(children')),
           rows' = [rows EXCEPT ![s] = row]
    PROVE  RowsOK' /\ rows'[s] = row /\ \A n \in Names : n # s => rows'[n] = rows[n]
<1>1. Len(children) \in Nat /\ Len(children') \in Nat /\ Len(children) <= Len(children')
  BY DEF KidsOK, KidsGrow
<1>2. row \in Rows
  BY DEF RowFits
<1>3. \A n \in Names : rows'[n] = IF n = s THEN row ELSE rows[n]
  BY DEF RowsOK
<1>4. rows' \in [Names -> Rows]
  BY <1>2 DEF RowsOK
<1>5. \A n \in Names : RowFits(rows'[n], Len(children'))
  <2> SUFFICES ASSUME NEW n \in Names PROVE RowFits(rows'[n], Len(children'))
    OBVIOUS
  <2>1. RowFits(rows[n], Len(children'))
    BY <1>1, FitsMore DEF RowsOK
  <2> QED BY <1>3, <2>1
<1> QED BY <1>3, <1>4, <1>5 DEF RowsOK

LEMMA RowsSame ==
    ASSUME RowsOK, KidsOK, KidsOK', KidsGrow, rows' = rows
    PROVE  RowsOK'
<1>1. Len(children) \in Nat /\ Len(children') \in Nat /\ Len(children) <= Len(children')
  BY DEF KidsOK, KidsGrow
<1>2. \A n \in Names : RowFits(rows[n], Len(children'))
  BY <1>1, FitsMore DEF RowsOK
<1> QED BY <1>2 DEF RowsOK

LEMMA RunningChanges ==
    ASSUME RunningOK, KidsOK, KidsOK', KidsGrow, NEW s \in Names, NEW k \in 0..Len(children'),
           running' = [running EXCEPT ![s] = k]
    PROVE  RunningOK' /\ running'[s] = k /\ \A n \in Names : n # s => running'[n] = running[n]
<1>1. Len(children) \in Nat /\ Len(children') \in Nat /\ Len(children) <= Len(children')
  BY DEF KidsOK, KidsGrow
<1>2. \A n \in Names : running'[n] = IF n = s THEN k ELSE running[n]
  BY DEF RunningOK
<1>3. running' \in [Names -> Nat]
  BY <1>1 DEF RunningOK
<1>4. \A n \in Names : running[n] \in Nat /\ running[n] <= Len(children')
  <2> SUFFICES ASSUME NEW n \in Names PROVE running[n] \in Nat /\ running[n] <= Len(children')
    OBVIOUS
  <2>1. running[n] \in Nat /\ running[n] <= Len(children)
    BY DEF RunningOK
  <2> QED BY ONLY <1>1, <2>1
<1>5. k <= Len(children')
  BY ONLY <1>1, k \in 0..Len(children')
<1> QED BY <1>2, <1>3, <1>4, <1>5 DEF RunningOK

LEMMA RunningSame ==
    ASSUME RunningOK, KidsOK, KidsOK', KidsGrow, running' = running
    PROVE  RunningOK'
<1>1. Len(children) \in Nat /\ Len(children') \in Nat /\ Len(children) <= Len(children')
  BY DEF KidsOK, KidsGrow
<1>2. \A n \in Names : running[n] <= Len(children')
  <2> SUFFICES ASSUME NEW n \in Names PROVE running[n] <= Len(children')
    OBVIOUS
  <2>1. running[n] \in Nat /\ running[n] <= Len(children)
    BY DEF RunningOK
  <2> QED BY ONLY <1>1, <2>1
<1> QED BY <1>2 DEF RunningOK

LEMMA CallsChange ==
    ASSUME CallsOK, KidsOK, KidsOK', KidsGrow, NEW c \in All, NEW call,
           CallFits(c, call, Len(children')), calls' = [calls EXCEPT ![c] = call],
           c = ShutdownCall /\ call.at # "idle" => shutting', shutting => shutting'
    PROVE  CallsOK' /\ calls'[c] = call /\ \A d \in All : d # c => calls'[d] = calls[d]
<1>1. Len(children) \in Nat /\ Len(children') \in Nat /\ Len(children) <= Len(children')
  BY DEF KidsOK, KidsGrow
<1>2. call \in CallRecords
  BY DEF CallFits
<1>3. \A d \in All : calls'[d] = IF d = c THEN call ELSE calls[d]
  BY DEF CallsOK
<1>4. calls' \in [All -> CallRecords]
  BY <1>2 DEF CallsOK
<1>5. \A d \in All : CallFits(d, calls'[d], Len(children'))
  <2> SUFFICES ASSUME NEW d \in All PROVE CallFits(d, calls'[d], Len(children'))
    OBVIOUS
  <2>1. CallFits(d, calls[d], Len(children'))
    BY <1>1, FitsMore DEF CallsOK
  <2> QED BY <1>3, <2>1
<1>6. calls'[ShutdownCall].at # "idle" => shutting'
  BY <1>3 DEF CallsOK, All
<1> QED BY <1>3, <1>4, <1>5, <1>6 DEF CallsOK

LEMMA CallsSame ==
    ASSUME CallsOK, KidsOK, KidsOK', KidsGrow, calls' = calls, shutting => shutting'
    PROVE  CallsOK'
<1>1. Len(children) \in Nat /\ Len(children') \in Nat /\ Len(children) <= Len(children')
  BY DEF KidsOK, KidsGrow
<1>2. \A d \in All : CallFits(d, calls[d], Len(children'))
  BY <1>1, FitsMore DEF CallsOK
<1> QED BY <1>2 DEF CallsOK

-----------------------------------------------------------------------------
(* Starts and signals. *)

LEMMA WhoCalls ==
    /\ RecoverCall \in All /\ ShutdownCall \in All /\ RecoverCall # ShutdownCall
    /\ \A c \in Callers : c \in All /\ c # RecoverCall /\ c # ShutdownCall
BY SidecarsAssumption DEF All, RecoverCall, ShutdownCall

\* A call that is to replace nothing.
CallHas(call, stage, name, child, rest) ==
    /\ call \in CallRecords /\ call.at = stage /\ call.name = name /\ call.launch = NoLaunch
    /\ call.child = child /\ call.rest = rest

LEMMA NoneIs == <<>> \in Seq(Names) /\ <<>> \in Seq(Planned) /\ \A n : Due(<<>>, n)
BY DEF Due

LEMMA CallForms ==
    ASSUME NEW stage \in Ats, NEW name \in Names \cup {NoName}, NEW child \in Nat,
           NEW rest \in Seq(Names) \cup Seq(Planned)
    PROVE  /\ CallHas([NoCall EXCEPT !.at = stage, !.name = name, !.child = child, !.rest = rest],
                      stage, name, child, rest)
           /\ CallHas([NoCall EXCEPT !.at = stage, !.name = name, !.child = child],
                      stage, name, child, <<>>)
           /\ CallHas([NoCall EXCEPT !.at = stage, !.rest = rest], stage, NoName, 0, rest)
           /\ CallHas(NoCall, "idle", NoName, 0, <<>>)
<1>1. PICK none : none = <<>>
  OBVIOUS
<1>2. none \in Seq(Names) \cup Seq(Planned)
  BY <1>1, NoneIs
<1>3. NoCall = [at |-> "idle", name |-> NoName, launch |-> NoLaunch, child |-> 0, restarts |-> 0,
                rest |-> none]
  BY <1>1 DEF NoCall
<1>4. NoCall \in CallRecords
  BY <1>2, <1>3 DEF CallRecords, Ats, LaunchOrNone
<1>5. /\ CallHas([NoCall EXCEPT !.at = stage, !.name = name, !.child = child, !.rest = rest],
                 stage, name, child, rest)
      /\ CallHas([NoCall EXCEPT !.at = stage, !.name = name, !.child = child], stage, name, child, none)
      /\ CallHas([NoCall EXCEPT !.at = stage, !.rest = rest], stage, NoName, 0, rest)
      /\ CallHas(NoCall, "idle", NoName, 0, none)
  BY <1>3, <1>4 DEF CallHas, CallRecords
<1> QED BY <1>1, <1>5

LEMMA ReadyFits ==
    ASSUME NEW c \in All, c # ShutdownCall, NEW s \in Names, NEW n \in Nat, NEW k \in 1..n,
           NEW rest, c = RecoverCall => Due(rest, n), NEW call, CallHas(call, "ready", s, k, rest)
    PROVE  CallFits(c, call, n)
BY DEF CallFits, CallHas

\* A call that is between two of what it goes through, or has failed.
LEMMA NextFits ==
    ASSUME NEW c \in {RecoverCall, ShutdownCall}, NEW n \in Nat, NEW stage \in {"next", "failed"},
           NEW rest, c = RecoverCall => Due(rest, n),
           c = ShutdownCall => stage = "next" /\ rest \in Seq(Names),
           NEW call, CallHas(call, stage, NoName, 0, rest)
    PROVE  CallFits(c, call, n)
BY WhoCalls DEF CallFits, CallHas

LEMMA IdleFits ==
    ASSUME NEW c \in All, NEW n
    PROVE  CallFits(c, NoCall, n) /\ NoCall.at = "idle" /\ NoCall.name = NoName /\ NoCall.launch = NoLaunch
<1>1. PICK none : none = <<>>
  OBVIOUS
<1>2. none \in Seq(Names) /\ Due(none, n)
  BY <1>1, NoneIs
<1>3. CallHas(NoCall, "idle", NoName, 0, none)
  <2>1. PICK stage \in Ats, name \in Names \cup {NoName}, child \in Nat, rest \in Seq(Names) \cup Seq(Planned) :
          stage = "idle" /\ name = NoName /\ child = 0 /\ rest = none
    BY <1>2 DEF Ats
  <2> QED BY <1>1, <2>1, CallForms
<1> QED BY <1>2, <1>3 DEF CallFits, CallHas

\* A step, and what it leaves of the types; what a start and a signal have done.
Typed == KidsOK' /\ KidsGrow /\ RowsOK' /\ RunningOK' /\ CallsOK'
Started(c, s, inst, rest) ==
    /\ Typed /\ \A n : s # n => NoNew(n)
    /\ Len(children') = Fresh /\ Fresh \in Nat
    /\ children'[Fresh].name = s /\ children'[Fresh].inst = inst /\ children'[Fresh].alive
    /\ ~children'[Fresh].stopped
    /\ \A k \in 1..Len(children) : children'[k] = children[k]
    /\ running'[s] = Fresh /\ \A n \in Names : n # s => running'[n] = running[n]
    /\ rows'[s].child = Fresh /\ rows'[s].status \in {"starting", "ready"}
    /\ \A n \in Names : n # s => rows'[n] = rows[n]
    /\ CallHas(calls'[c], "ready", s, Fresh, rest)
    /\ \A d \in All : d # c => calls'[d] = calls[d]
Signalled(c, s, launch, rest) ==
    /\ Typed /\ \A n : NoNew(n)
    /\ \A n \in Names : running'[n] = running[n]
    /\ running[s] \in 1..Len(children) /\ Len(children') = Len(children)
    /\ \A k \in 1..Len(children) : /\ children'[k].alive = children[k].alive
                                   /\ children'[k].stopped = children[k].stopped
                                   /\ children[k].expected => children'[k].expected
    /\ children'[running[s]].expected
    /\ rows'[s].child = running[s] /\ rows'[s].status = "stopping"
    /\ \A n \in Names : n # s => rows'[n] = rows[n]
    /\ calls'[c].at = "term" /\ calls'[c].name = s /\ calls'[c].launch = launch
    /\ calls'[c].child = running[s] /\ calls'[c].rest = rest
    /\ \A d \in All : d # c => calls'[d] = calls[d]

LEMMA StartsIs ==
    ASSUME Shape, NEW c \in All, c # ShutdownCall, NEW s \in Names, NEW launch \in LaunchOrNone,
           NEW inst \in Nat, inst <= Fresh, NEW restarts \in Nat,
           NEW rest \in Seq(Names) \cup Seq(Planned), c = RecoverCall => Due(rest, Len(children)),
           Starts(c, s, launch, inst, restarts, rest), shutting' = shutting
    PROVE  Started(c, s, inst, rest)
<1>0. KidsOK /\ RowsOK /\ RunningOK /\ CallsOK /\ shutting \in BOOLEAN
  BY DEF Shape
<1>1. Len(children) \in Nat /\ Fresh \in Nat /\ Fresh \in 0..Fresh /\ Fresh \in 1..Fresh
      /\ Len(children) <= Fresh
  <2>1. Len(children) \in Nat
    BY <1>0 DEF KidsOK
  <2> QED BY ONLY <2>1 DEF Fresh
<1>0a. PICK fresh \in Nat : fresh = Fresh
  BY <1>1
<1>2. PICK kid : kid = Child(s, launch, inst, restarts, FALSE)
  OBVIOUS
<1>3. /\ KidFits(kid, Fresh) /\ kid.name = s /\ kid.inst = inst /\ kid.alive /\ ~kid.stopped
      /\ kid.after = shutting
  <2>1. Begun(kid, s, inst, FALSE)
    BY ONLY <1>0, <1>2, s \in Names, launch \in LaunchOrNone, inst \in Nat, restarts \in Nat, ChildIs
  <2> QED BY <2>1 DEF KidFits, Begun
<1>4. children' = Append(children, kid) /\ Fresh <= MaxStarts
  BY <1>2 DEF Starts
<1>5. children \in Seq(Kids) /\ \A k \in 1..Len(children) : SameKid(children[k], children[k])
  BY <1>0, SameIs DEF KidsOK
<1>6. /\ KidsOK' /\ KidsGrow /\ (\A n : s # n => NoNew(n))
      /\ Len(children') = Fresh /\ children'[Fresh] = kid
      /\ \A k \in 1..Len(children) : children'[k] = children[k]
  BY <1>0, <1>3, <1>4, <1>5, KidComes
<1>7. running' = [running EXCEPT ![s] = Fresh]
  BY DEF Starts
<1>8. RunningOK' /\ running'[s] = Fresh /\ \A n \in Names : n # s => running'[n] = running[n]
  BY <1>0, <1>1, <1>6, <1>7, RunningChanges
<1>9. PICK row : row = Row(FirstStatus(launch), inst, launch, restarts, Fresh)
  OBVIOUS
<1>10. FirstStatus(launch) \in {"starting", "ready"}
  BY DEF FirstStatus
<1>11. FirstStatus(launch) \in Statuses \cup {"absent"}
  BY <1>10 DEF Statuses
<1>12. row \in Rows /\ row.status \in {"starting", "ready"} /\ row.inst = inst /\ row.child = Fresh
  <2>1. PICK status \in Statuses \cup {"absent"} : status = FirstStatus(launch)
    BY <1>11
  <2>2. row = Row(status, inst, launch, restarts, fresh)
    BY <1>0a, <1>9, <2>1
  <2>3. RowHas(row, status, inst, fresh)
    BY ONLY <1>0a, <2>1, <2>2, inst \in Nat, launch \in LaunchOrNone, restarts \in Nat, RowIs
  <2> QED BY <1>0a, <1>10, <2>1, <2>3 DEF RowHas
<1>13. rows' = [rows EXCEPT ![s] = row] /\ RowFits(row, Len(children'))
  BY <1>6, <1>9, <1>12 DEF Starts, RowFits
<1>14. RowsOK' /\ rows'[s] = row /\ \A n \in Names : n # s => rows'[n] = rows[n]
  BY <1>0, <1>6, <1>13, RowsChange
<1>15. PICK call : call = [NoCall EXCEPT !.at = "ready", !.name = s, !.child = Fresh, !.rest = rest]
  OBVIOUS
<1>15a. calls' = [calls EXCEPT ![c] = call]
  BY <1>15 DEF Starts
<1>15b. CallHas(call, "ready", s, Fresh, rest)
  <2>1. "ready" \in Ats /\ s \in Names \cup {NoName}
    BY DEF Ats
  <2> QED BY <1>1, <1>15, <2>1, CallForms
<1>16. c = RecoverCall => Due(rest, Fresh)
  <2>1. ASSUME Due(rest, Len(children)), NEW i \in 1..Len(rest) PROVE rest[i].row.inst <= Fresh
    <3>1. rest[i].row.inst \in Nat /\ rest[i].row.inst <= Len(children)
      <4>1. rest[i] \in Planned
        BY <2>1 DEF Due
      <4> QED BY <2>1, <4>1 DEF Due, Planned, Rows
    <3> QED BY ONLY <1>1, <3>1
  <2> QED BY <2>1 DEF Due
<1>17. CallFits(c, call, Len(children'))
  BY <1>1, <1>6, <1>15b, <1>16, ReadyFits
<1>18. CallsOK' /\ calls'[c] = call /\ \A d \in All : d # c => calls'[d] = calls[d]
  BY <1>0, <1>6, <1>15a, <1>17, CallsChange
<1> QED BY <1>1, <1>3, <1>6, <1>8, <1>12, <1>14, <1>15b, <1>18 DEF Started, Typed

LEMMA SignalsIs ==
    ASSUME Shape, NEW c \in All, c # RecoverCall, NEW s \in Names, running[s] # 0,
           NEW launch \in LaunchOrNone, NEW restarts \in Nat, NEW rest \in Seq(Names),
           c = ShutdownCall => launch = NoLaunch /\ shutting,
           Signals(c, s, launch, restarts, rest), shutting' = shutting
    PROVE  Signalled(c, s, launch, rest)
<1> USE DEF Shape
<1>1. PICK k : k = running[s]
  OBVIOUS
<1>2. Len(children) \in Nat /\ k \in 1..Len(children)
  <2>1. k \in Nat /\ k <= Len(children) /\ Len(children) \in Nat /\ k # 0
    BY <1>1 DEF KidsOK, RunningOK
  <2> QED BY ONLY <2>1
<1>3. PICK kid : kid = [children[k] EXCEPT !.expected = TRUE]
  OBVIOUS
<1>4. children[k] \in Kids /\ KidFits(children[k], Len(children))
  BY <1>2, Counted
<1>5. /\ SameKid(children[k], kid) /\ kid.expected /\ kid.alive = children[k].alive
      /\ kid.stopped = children[k].stopped
  BY <1>3, <1>4, ExpectedIs
<1>6. children' = [children EXCEPT ![k] = kid]
  BY <1>1, <1>3 DEF Signals
<1>7. /\ KidsOK' /\ KidsGrow /\ (\A n : NoNew(n))
      /\ Len(children') = Len(children) /\ children'[k] = kid
      /\ \A i \in 1..Len(children) : i # k => children'[i] = children[i]
  BY <1>2, <1>5, <1>6, KidChanges
<1>8. running' = running
  BY DEF Signals
<1>9. RunningOK'
  BY <1>7, <1>8, RunningSame
<1>10. PICK row : row = RowOf(k, children[k], "stopping")
  OBVIOUS
<1>11. RowFits(row, Len(children)) /\ row.status = "stopping" /\ row.child = k
  <2>1. "stopping" \in Statuses /\ k \in Nat
    BY <1>2 DEF Statuses
  <2> QED BY <1>4, <1>10, <2>1, RowOfIs
<1>12. rows' = [rows EXCEPT ![s] = row]
  BY <1>1, <1>10 DEF Signals
<1>13. RowsOK' /\ rows'[s] = row /\ \A n \in Names : n # s => rows'[n] = rows[n]
  BY <1>7, <1>11, <1>12, RowsChange
<1>14. PICK call : call = [at |-> "term", name |-> s, launch |-> launch, child |-> k,
                           restarts |-> restarts, rest |-> rest]
  OBVIOUS
<1>15. /\ call \in CallRecords /\ call.at = "term" /\ call.name = s /\ call.launch = launch
       /\ call.child = k /\ call.rest = rest
  BY <1>2, <1>14 DEF CallRecords, Ats
<1>16. calls' = [calls EXCEPT ![c] = call]
  BY <1>1, <1>14 DEF Signals
<1>17. CallFits(c, call, Len(children'))
  BY <1>2, <1>7, <1>15 DEF CallFits
<1>18. CallsOK' /\ calls'[c] = call /\ \A d \in All : d # c => calls'[d] = calls[d]
  BY <1>7, <1>16, <1>17, CallsChange
<1> QED BY <1>1, <1>2, <1>5, <1>7, <1>8, <1>9, <1>11, <1>13, <1>15, <1>18 DEF Signalled, Typed

-----------------------------------------------------------------------------
(* What a start and a signal leave of the sidecar, and of the others. *)

LEMMA LeavingGoes ==
    ASSUME KidsOK, KidsOK', KidsGrow, NEW s \in Names, shutting,
           \A k \in Living(s) : k \in Living(s)' =>
               \/ children[k].after \/ children'[k].forced
               \/ s \in ToSet(calls'[ShutdownCall].rest)
               \/ /\ calls'[ShutdownCall].at \in {"term", "kill"}
                  /\ calls'[ShutdownCall].name = s /\ calls'[ShutdownCall].child = k
    PROVE  Leaving(s)'
<1> SUFFICES ASSUME NEW k \in Living(s)'
             PROVE  \/ children'[k].after \/ children'[k].forced
                    \/ s \in ToSet(calls'[ShutdownCall].rest)
                    \/ /\ calls'[ShutdownCall].at \in {"term", "kill"}
                       /\ calls'[ShutdownCall].name = s /\ calls'[ShutdownCall].child = k
  BY DEF Leaving
<1>1. k \in 1..Len(children') /\ children'[k].name = s /\ children'[k].alive
  BY DEF Living, KidsOK
<1>2. Len(children) \in Nat /\ Len(children') \in Nat
  BY DEF KidsOK
<1>3. CASE k > Len(children)
  BY <1>1, <1>3 DEF KidsGrow
<1>4. CASE k \in 1..Len(children)
  <2>1. SameKid(children[k], children'[k]) /\ k \in DOMAIN children
    BY <1>4 DEF KidsGrow, KidsOK
  <2>2. k \in Living(s)
    BY <1>1, <2>1 DEF SameKid, Living
  <2> QED BY <2>1, <2>2 DEF SameKid
<1>5. k > Len(children) \/ k \in 1..Len(children)
  BY ONLY <1>1, <1>2
<1> QED BY <1>3, <1>4, <1>5

LEMMA EntryIs ==
    ASSUME Shape, NEW s \in Names
    PROVE  /\ running[s] \in Nat /\ Len(children) \in Nat
           /\ running[s] # 0 => running[s] \in 1..Len(children)
<1>1. running[s] \in Nat /\ running[s] <= Len(children) /\ Len(children) \in Nat
  BY DEF Shape, RunningOK, KidsOK
<1> QED BY ONLY <1>1

LEMMA StartedOther ==
    ASSUME Shape, NEW c \in All, c # ShutdownCall, NEW s \in Names, NEW inst, NEW rest, Started(c, s, inst, rest),
           NEW n \in Names, n # s, OneSidecar(n), RecoverStays(n)
    PROVE  OneSidecar(n)'
<1> USE DEF Shape
<1>1. KidsOK' /\ KidsGrow /\ NoNew(n)
  BY DEF Started, Typed
<1>2. EntryStays(n) /\ running'[n] = running[n] /\ rows'[n] = rows[n]
  <2>1. running'[n] = running[n] /\ rows'[n] = rows[n]
    BY DEF Started
  <2>2. running[n] # 0 => children'[running[n]] = children[running[n]]
    BY EntryIs DEF Started
  <2> QED BY <2>1, <2>2 DEF EntryStays
<1>3. \A d \in All : CallStays(d, n)
  BY DEF CallStays, Started, CallHas
<1>4. calls'[ShutdownCall] = calls[ShutdownCall]
  BY WhoCalls DEF Started
<1> QED BY <1>1, <1>2, <1>3, <1>4, EnteredStays, ToldStays, AwaitedStays, LeavingStays DEF OneSidecar

LEMMA StartedHolds ==
    ASSUME Shape, NEW c \in All, c # ShutdownCall, NEW s \in Names, NEW inst, NEW rest, Started(c, s, inst, rest),
           OneSidecar(s), \A k \in Living(s) : children[k].forced /\ children[k].inst # inst,
           \A d \in All \ {c} : Busy(d, s) => calls[d].at \notin {"term", "kill"} /\ calls[d].launch = NoLaunch
    PROVE  OneSidecar(s)'
<1>1. KidsOK /\ KidsOK' /\ KidsGrow /\ CallsOK
  BY DEF Started, Typed, Shape
<1>2. Len(children) \in Nat /\ Fresh = Len(children) + 1 /\ Len(children') = Fresh
  BY <1>1 DEF KidsOK, Started, Fresh
<1>3. ASSUME NEW k \in Living(s)'
      PROVE  k = Fresh \/ (children'[k].forced /\ children'[k].inst # inst)
  <2>1. k \in 1..Len(children') /\ children'[k].name = s /\ children'[k].alive
    BY <1>1, <1>3 DEF Living, KidsOK
  <2>2. CASE k \in 1..Len(children)
    <3>1. children'[k] = children[k] /\ k \in DOMAIN children
      BY <1>1, <2>2 DEF Started, KidsOK
    <3>2. k \in Living(s)
      BY <2>1, <3>1 DEF Living
    <3> QED BY <3>1, <3>2
  <2>3. k \in 1..Len(children) \/ k = Fresh
    BY ONLY <1>2, <2>1
  <2> QED BY <2>2, <2>3
<1>4. Entered(s)'
  BY <1>3 DEF Entered, Started
<1>5. Told(s)'
  <2>1. Fresh # 0
    BY ONLY <1>2
  <2> QED BY <2>1 DEF Told, Started
<1>6. Awaited(s)'
  <2> SUFFICES ASSUME NEW d \in All, calls'[d].name = s
               PROVE  /\ calls'[d].at \notin {"term", "kill"}
                      /\ calls'[d].at # "idle" => calls'[d].launch = NoLaunch
    BY DEF Awaited
  <2>1. CASE d = c
    BY <2>1 DEF Started, CallHas
  <2>2. CASE d # c
    BY <2>2 DEF Started, Busy
  <2> QED BY <2>1, <2>2
<1>7. Leaving(s)'
  <2>1. calls'[ShutdownCall] = calls[ShutdownCall]
    BY WhoCalls DEF Started
  <2> QED BY <1>1, <2>1, LeavingStays DEF OneSidecar
<1> QED BY <1>4, <1>5, <1>6, <1>7 DEF OneSidecar

\* The shutdown signals what it had next.
LEMMA SignalledLeaves ==
    ASSUME Shape, NEW c \in All, NEW s \in Names, NEW launch, NEW rest, Signalled(c, s, launch, rest),
           NEW n \in Names, OneSidecar(n),
           c = ShutdownCall => /\ calls[ShutdownCall].at = "next" /\ shutting
                               /\ n # s /\ n \in ToSet(calls[ShutdownCall].rest) => n \in ToSet(rest)
    PROVE  Leaving(n)'
<1>1. KidsOK /\ KidsOK' /\ KidsGrow /\ CallsOK
  BY DEF Signalled, Typed, Shape
<1>2. CASE c # ShutdownCall
  <2>1. calls'[ShutdownCall] = calls[ShutdownCall]
    BY <1>2, WhoCalls DEF Signalled
  <2> QED BY <1>1, <2>1, LeavingStays DEF OneSidecar
<1>3. CASE c = ShutdownCall
  <2>1. /\ calls'[ShutdownCall].at = "term" /\ calls'[ShutdownCall].name = s
        /\ calls'[ShutdownCall].child = running[s] /\ calls'[ShutdownCall].rest = rest
    BY <1>3 DEF Signalled
  <2>2. ASSUME NEW k \in Living(n), k \in Living(n)'
        PROVE  \/ children[k].after \/ children'[k].forced
               \/ n \in ToSet(calls'[ShutdownCall].rest)
               \/ /\ calls'[ShutdownCall].at \in {"term", "kill"}
                  /\ calls'[ShutdownCall].name = n /\ calls'[ShutdownCall].child = k
    <3>1. k \in 1..Len(children)
      BY <1>1, <2>2 DEF Living, KidsOK
    <3>2. SameKid(children[k], children'[k])
      BY <1>1, <3>1 DEF KidsGrow
    <3>3. CASE n = s
      BY <2>1, <2>2, <3>2, <3>3 DEF OneSidecar, Entered, SameKid
    <3>4. CASE n # s
      BY <1>3, <2>1, <2>2, <3>2, <3>4 DEF OneSidecar, Leaving, SameKid
    <3> QED BY <3>3, <3>4
  <2> QED BY <1>1, <1>3, <2>2, LeavingGoes
<1> QED BY <1>2, <1>3

LEMMA SignalledHolds ==
    ASSUME Shape, NEW c \in All, c # RecoverCall, NEW s \in Names, NEW launch, NEW rest, Signalled(c, s, launch, rest),
           NEW n \in Names, OneSidecar(n),
           c = ShutdownCall => /\ calls[ShutdownCall].at = "next" /\ shutting
                               /\ n # s /\ n \in ToSet(calls[ShutdownCall].rest) => n \in ToSet(rest),
           n = s => /\ \A d \in All \ {c} : Busy(d, s) => calls[d].launch = NoLaunch
                    /\ launch # NoLaunch => \A d \in All \ {c} : ~Busy(d, s)
    PROVE  OneSidecar(n)'
<1>1. KidsOK /\ KidsOK' /\ KidsGrow /\ NoNew(n) /\ RunningOK /\ CallsOK
  BY DEF Signalled, Typed, Shape
<1>2. EntryStays(n) /\ running'[n] = running[n]
  BY EntryIs DEF EntryStays, Signalled
<1>3. Entered(n)'
  BY <1>1, <1>2, EnteredStays DEF OneSidecar
<1>4. Leaving(n)'
  BY SignalledLeaves
<1>5. calls'[RecoverCall] = calls[RecoverCall]
  BY WhoCalls DEF Signalled
<1>6. Told(n)'
  <2>1. CASE n = s
    <3>1. running[s] # 0
      <4>1. running[s] \in 1..Len(children)
        BY DEF Signalled
      <4> QED BY ONLY <4>1
    <3> QED BY <2>1, <3>1 DEF Told, Signalled
  <2>2. CASE n # s
    <3>1. rows'[n] = rows[n] /\ RecoverStays(n)
      BY <1>5, <2>2 DEF Signalled, RecoverStays
    <3> QED BY <1>1, <1>2, <3>1, ToldStays DEF OneSidecar
  <2> QED BY <2>1, <2>2
<1>7. Awaited(n)'
  <2>1. CASE n # s
    <3>1. \A d \in All : CallStays(d, n)
      BY <2>1 DEF CallStays, Signalled
    <3> QED BY <1>1, <1>2, <3>1, AwaitedStays DEF OneSidecar
  <2>2. CASE n = s
    <3> SUFFICES ASSUME NEW d \in All, calls'[d].name = s
                 PROVE  /\ calls'[d].at \in {"term", "kill"} =>
                             /\ running'[s] \in {0, calls'[d].child}
                             /\ running'[s] # 0 => children'[calls'[d].child].expected
                        /\ calls'[d].at = "kill" => children'[calls'[d].child].forced
                        /\ calls'[d].at # "idle" /\ calls'[d].launch # NoLaunch =>
                             \A e \in All \ {d} : ~(calls'[e].at # "idle" /\ calls'[e].name = s)
      BY <2>2 DEF Awaited, Busy
    <3>1. CASE d = c
      BY <1>2, <2>2, <3>1 DEF Signalled, Busy
    <3>2. CASE d # c
      <4>1. calls'[d] = calls[d]
        BY <3>2 DEF Signalled
      <4>2. calls[d].at \in {"term", "kill"} => calls[d].child \in 1..Len(children)
        BY <1>1 DEF CallsOK, CallFits
      <4>3. calls[d].at \in {"term", "kill"} =>
               /\ running[s] \in {0, calls[d].child}
               /\ running[s] # 0 => children[calls[d].child].expected
               /\ calls[d].at = "kill" => children[calls[d].child].forced
        BY <2>2, <4>1 DEF OneSidecar, Awaited
      <4>4. calls[d].at = "kill" => children'[calls[d].child].forced
        BY <1>1, <4>2, <4>3 DEF KidsGrow, SameKid
      <4>5. calls[d].at \in {"term", "kill"} /\ running[s] # 0 => children'[calls[d].child].expected
        BY <4>2, <4>3 DEF Signalled
      <4>6. calls[d].at # "idle" => calls[d].launch = NoLaunch
        BY <2>2, <3>2, <4>1 DEF Busy
      <4> QED BY <1>2, <2>2, <4>1, <4>3, <4>4, <4>5, <4>6
    <3> QED BY <3>1, <3>2
  <2> QED BY <2>1, <2>2
<1> QED BY <1>3, <1>4, <1>6, <1>7 DEF OneSidecar

-----------------------------------------------------------------------------
(* The calls. *)

LEMMA StillTyped ==
    ASSUME Shape, children' = children, running' = running, rows' = rows, NEW c \in All, NEW call,
           CallFits(c, call, Len(children)), calls' = [calls EXCEPT ![c] = call],
           c = ShutdownCall /\ call.at # "idle" => shutting', shutting => shutting'
    PROVE  Typed /\ calls'[c] = call /\ \A d \in All : d # c => calls'[d] = calls[d]
<1> USE DEF Shape
<1>1. KidsOK' /\ KidsGrow
  BY KidsSame
<1>2. RowsOK' /\ RunningOK'
  BY <1>1, RowsSame, RunningSame
<1>3. CallFits(c, call, Len(children'))
  OBVIOUS
<1>4. CallsOK' /\ calls'[c] = call /\ \A d \in All : d # c => calls'[d] = calls[d]
  BY <1>1, <1>3, CallsChange
<1> QED BY <1>1, <1>2, <1>4 DEF Typed

LEMMA StillHolds ==
    ASSUME Shape, children' = children, running' = running, rows' = rows,
           NEW n \in Names, OneSidecar(n), \A d \in All : CallStays(d, n), RecoverStays(n), Leaving(n)'
    PROVE  OneSidecar(n)'
<1> USE DEF Shape
<1>1. KidsOK' /\ KidsGrow /\ NoNew(n) /\ EntryStays(n)
  BY KidsSame DEF EntryStays
<1>2. Entered(n)'
  BY <1>1, EnteredStays DEF OneSidecar
<1>3. Told(n)'
  BY <1>1, ToldStays DEF OneSidecar
<1>4. Awaited(n)'
  BY <1>1, AwaitedStays DEF OneSidecar
<1> QED BY <1>2, <1>3, <1>4 DEF OneSidecar

\* A sidecar whose call nobody else has any part in.
LEMMA Alone ==
    ASSUME NEW s, ~Overlaps(s)
    PROVE  ~Replacing(s) /\ \A d \in All : ~Busy(d, s)
BY DEF Overlaps, Replacing

LEMMA MuddlesIs ==
    ASSUME Shape, NEW s \in Names, NEW does, Muddles(s, does)
    PROVE  /\ muddled' \subseteq Names /\ (Names \ muddled') \subseteq (Names \ muddled)
           /\ s \notin muddled' => ~does
BY DEF Muddles, Shape

LEMMA ShapeGoes ==
    ASSUME Typed, shutting' \in BOOLEAN, muddled' \subseteq Names
    PROVE  Shape'
BY DEF Typed, Shape

LEMMA EnsureHolds ==
    ASSUME Supervised, NEW c \in Callers, NEW s \in Names, NEW launch \in Launches, Ensure(c, s, launch)
    PROVE  Supervised'
<1>1. Shape /\ KidsOK /\ RowsOK /\ CallsOK /\ shutting \in BOOLEAN
  BY DEF Supervised, Shape
<1>2. /\ c \in All /\ c # ShutdownCall /\ c # RecoverCall /\ calls[c] = NoCall
      /\ shutting' = shutting /\ Muddles(s, Overlaps(s))
  BY WhoCalls DEF Ensure
<1>3. /\ muddled' \subseteq Names /\ (Names \ muddled') \subseteq (Names \ muddled)
      /\ s \notin muddled' => ~Overlaps(s)
  BY <1>1, <1>2, MuddlesIs
<1>4. \A n \in Names \ muddled' : OneSidecar(n) /\ (n = s => ~Replacing(s) /\ \A d \in All : ~Busy(d, s))
  BY <1>3, Alone DEF Supervised
<1>5. PICK none : none = <<>>
  OBVIOUS
<1>6. none \in Seq(Names) /\ none \in Seq(Names) \cup Seq(Planned)
  BY <1>5, NoneIs
<1>7. launch \in LaunchOrNone /\ rows[s].restarts \in Nat /\ rows[s].inst \in Nat
      /\ rows[s].inst <= Len(children) /\ Len(children) \in Nat /\ Fresh = Len(children) + 1
  BY <1>1 DEF LaunchOrNone, RowsOK, RowFits, Rows, KidsOK, Fresh
<1>8. calls'[RecoverCall] = calls[RecoverCall] =>
        \A n \in Names : RecoverStays(n)
  BY DEF RecoverStays
<1>9. CASE Running(s, launch) /\ Awaits(c, s)
  <2>1. running[s] \in 1..Len(children) /\ running[s] \in Nat
    BY <1>1, <1>9, EntryIs DEF Running
  <2>2. PICK call : call = [NoCall EXCEPT !.at = "ready", !.name = s, !.child = running[s]]
    OBVIOUS
  <2>3. CallHas(call, "ready", s, running[s], none)
    <3>1. "ready" \in Ats /\ s \in Names \cup {NoName}
      BY DEF Ats
    <3> QED BY <1>5, <1>6, <2>1, <2>2, <3>1, CallForms
  <2>4. CallFits(c, call, Len(children))
    BY <1>2, <1>7, <2>1, <2>3, ReadyFits
  <2>5. children' = children /\ running' = running /\ rows' = rows /\ calls' = [calls EXCEPT ![c] = call]
    BY <1>9, <2>2 DEF Awaits
  <2>6. Typed /\ calls'[c] = call /\ \A d \in All : d # c => calls'[d] = calls[d]
    BY <1>1, <1>2, <2>4, <2>5, StillTyped
  <2>7. ASSUME NEW n \in Names \ muddled' PROVE OneSidecar(n)'
    <3>1. \A d \in All : CallStays(d, n)
      BY <1>4, <2>3, <2>6 DEF CallStays, CallHas
    <3>2. calls'[ShutdownCall] = calls[ShutdownCall] /\ calls'[RecoverCall] = calls[RecoverCall]
      BY <1>2, <2>6, WhoCalls
    <3>3. Leaving(n)'
      BY <1>1, <1>4, <2>6, <3>2, LeavingStays DEF OneSidecar, Typed
    <3> QED BY <1>1, <1>4, <1>8, <2>5, <3>1, <3>2, <3>3, StillHolds
  <2> QED BY <1>1, <1>2, <1>3, <2>6, <2>7, ShapeGoes DEF Supervised
<1>10. ASSUME NEW inst \in Nat, inst <= Fresh, Starts(c, s, launch, inst, rows[s].restarts, <<>>),
              s \notin muddled' => \A k \in Living(s) : children[k].forced /\ children[k].inst # inst
       PROVE  Supervised'
  <2>1. Started(c, s, inst, none)
    BY <1>1, <1>2, <1>5, <1>6, <1>7, <1>10, StartsIs
  <2>2. calls'[RecoverCall] = calls[RecoverCall]
    BY <1>2, <2>1, WhoCalls DEF Started
  <2>3. ASSUME NEW n \in Names \ muddled' PROVE OneSidecar(n)'
    <3>1. CASE n = s
      <4>1. \A d \in All \ {c} : Busy(d, s) => calls[d].at \notin {"term", "kill"} /\ calls[d].launch = NoLaunch
        BY <1>4, <3>1
      <4>2. OneSidecar(s) /\ \A k \in Living(s) : children[k].forced /\ children[k].inst # inst
        BY <1>4, <1>10, <3>1
      <4>3. OneSidecar(s)'
        BY <1>1, <1>2, <2>1, <4>1, <4>2, StartedHolds
      <4> QED BY <3>1, <4>3
    <3>2. CASE n # s
      BY <1>1, <1>2, <1>4, <1>8, <2>1, <2>2, <3>2, StartedOther
    <3> QED BY <3>1, <3>2
  <2> QED BY <1>1, <1>2, <1>3, <2>1, <2>3, ShapeGoes DEF Supervised, Started
<1>11. CASE /\ ~Running(s, launch) /\ Same(rows[s], launch) /\ Resumes(s)
            /\ Starts(c, s, launch, rows[s].inst, rows[s].restarts, <<>>)
  <2>1. s \notin muddled' => Living(s) = {}
    BY <1>4, <1>11 DEF OneSidecar, Told, Resumes
  <2>2. rows[s].inst <= Fresh
    BY ONLY <1>7
  <2> QED BY <1>7, <1>10, <1>11, <2>1, <2>2
<1>12. CASE /\ running[s] # 0 /\ Signals(c, s, launch, rows[s].restarts, <<>>)
  <2>1. Signalled(c, s, launch, none)
    BY <1>1, <1>2, <1>5, <1>6, <1>7, <1>12, SignalsIs
  <2>2. ASSUME NEW n \in Names \ muddled' PROVE OneSidecar(n)'
    <3>1. n = s => /\ \A d \in All \ {c} : Busy(d, s) => calls[d].launch = NoLaunch
                   /\ launch # NoLaunch => \A d \in All \ {c} : ~Busy(d, s)
      BY <1>4
    <3> QED BY <1>1, <1>2, <1>4, <2>1, <3>1, SignalledHolds
  <2> QED BY <1>1, <1>2, <1>3, <2>1, <2>2, ShapeGoes DEF Supervised, Signalled
<1>13. CASE running[s] = 0 /\ Starts(c, s, launch, Fresh, rows[s].restarts, <<>>)
  <2>1. ASSUME s \notin muddled', NEW k \in Living(s) PROVE children[k].forced /\ children[k].inst # Fresh
    <3>1. k \in 1..Len(children)
      BY <1>1, <2>1 DEF Living, KidsOK
    <3>2. k # 0
      BY ONLY <1>7, <3>1
    <3>3. children[k].forced
      BY <1>4, <1>13, <2>1, <3>2 DEF OneSidecar, Entered
    <3>4. children[k].inst \in Nat /\ children[k].inst <= Len(children)
      BY <1>1, <3>1 DEF KidsOK, KidFits, Kids
    <3>5. children[k].inst # Fresh
      BY ONLY <1>7, <3>4
    <3> QED BY <3>3, <3>5
  <2>2. Fresh \in Nat /\ Fresh <= Fresh
    BY ONLY <1>7
  <2> QED BY <1>10, <1>13, <2>1, <2>2
<1> QED BY <1>9, <1>11, <1>12, <1>13 DEF Ensure

\* A row alone is written, of a sidecar without an entry.
LEMMA RowHolds ==
    ASSUME Shape, children' = children, running' = running, NEW s \in Names, running[s] = 0,
           rows' = [rows EXCEPT ![s] = Stopped(s)],
           NEW n \in Names, OneSidecar(n), \A d \in All : CallStays(d, n), RecoverStays(n), Leaving(n)'
    PROVE  OneSidecar(n)'
<1> USE DEF Shape
<1>1. KidsOK' /\ KidsGrow /\ NoNew(n) /\ EntryStays(n)
  BY KidsSame DEF EntryStays
<1>2. Stopped(s).status \in {"stopped", "absent"}
  BY StoppedIs
<1>3. rows'[n] = IF n = s THEN Stopped(s) ELSE rows[n]
  BY DEF RowsOK
<1>4. Entered(n)'
  BY <1>1, EnteredStays DEF OneSidecar
<1>5. Told(n)'
  <2>1. CASE n = s
    BY <1>2, <1>3, <2>1 DEF Told
  <2>2. CASE n # s
    BY <1>1, <1>3, <2>2, ToldStays DEF OneSidecar
  <2> QED BY <2>1, <2>2
<1>6. Awaited(n)'
  BY <1>1, AwaitedStays DEF OneSidecar
<1> QED BY <1>4, <1>5, <1>6 DEF OneSidecar

LEMMA StopHolds ==
    ASSUME Supervised, NEW c \in Callers, NEW s \in Names, Stop(c, s)
    PROVE  Supervised'
<1>1. Shape /\ KidsOK /\ RowsOK /\ RunningOK /\ CallsOK /\ shutting \in BOOLEAN
  BY DEF Supervised, Shape
<1>2. /\ c \in All /\ c # ShutdownCall /\ c # RecoverCall
      /\ shutting' = shutting /\ Muddles(s, Replacing(s))
  BY WhoCalls DEF Stop
<1>3. /\ muddled' \subseteq Names /\ (Names \ muddled') \subseteq (Names \ muddled)
      /\ s \notin muddled' => ~Replacing(s)
  BY <1>1, <1>2, MuddlesIs
<1>4. \A n \in Names \ muddled' : OneSidecar(n)
  BY <1>3 DEF Supervised
<1>5. CASE /\ running[s] = 0 /\ rows' = [rows EXCEPT ![s] = Stopped(s)]
           /\ UNCHANGED <<children, running, calls>>
  <2>1. KidsOK' /\ KidsGrow
    BY <1>1, <1>5, KidsSame
  <2>2. RowFits(Stopped(s), Len(children'))
    BY <1>1, <1>5, StoppedIs
  <2>3. RowsOK'
    BY <1>1, <1>5, <2>1, <2>2, RowsChange
  <2>4. RunningOK' /\ CallsOK'
    BY <1>1, <1>2, <1>5, <2>1, RunningSame, CallsSame
  <2>5. ASSUME NEW n \in Names \ muddled' PROVE OneSidecar(n)'
    <3>1. (\A d \in All : CallStays(d, n)) /\ RecoverStays(n)
      BY <1>5 DEF CallStays, RecoverStays
    <3>2. Leaving(n)'
      BY <1>1, <1>4, <1>5, <2>1, LeavingStays DEF OneSidecar
    <3> QED BY <1>1, <1>4, <1>5, <3>1, <3>2, RowHolds
  <2> QED BY <1>1, <1>2, <1>3, <2>1, <2>3, <2>4, <2>5, ShapeGoes DEF Supervised, Typed
<1>6. CASE running[s] # 0 /\ Signals(c, s, NoLaunch, 0, <<>>)
  <2>1. PICK none : none = <<>>
    OBVIOUS
  <2>2. none \in Seq(Names)
    BY <2>1, NoneIs
  <2>3. NoLaunch \in LaunchOrNone
    BY DEF LaunchOrNone
  <2>4. Signalled(c, s, NoLaunch, none)
    BY <1>1, <1>2, <1>6, <2>1, <2>2, <2>3, SignalsIs
  <2>5. ASSUME NEW n \in Names \ muddled' PROVE OneSidecar(n)'
    <3>1. n = s => /\ \A d \in All \ {c} : Busy(d, s) => calls[d].launch = NoLaunch
                   /\ NoLaunch # NoLaunch => \A d \in All \ {c} : ~Busy(d, s)
      BY <1>3 DEF Replacing
    <3> QED BY <1>1, <1>2, <1>4, <2>4, <3>1, SignalledHolds
  <2> QED BY <1>1, <1>2, <1>3, <2>4, <2>5, ShapeGoes DEF Supervised, Signalled
<1> QED BY <1>5, <1>6 DEF Stop

LEMMA ReadyReturnsHolds ==
    ASSUME Supervised, NEW c \in All, ReadyReturns(c)
    PROVE  Supervised'
<1>1. Shape /\ KidsOK /\ CallsOK /\ shutting \in BOOLEAN /\ muddled \subseteq Names
  BY DEF Supervised, Shape
<1>2. /\ c # ShutdownCall /\ c # RecoverCall /\ calls' = [calls EXCEPT ![c] = NoCall]
      /\ UNCHANGED <<rows, children, running, shutting, muddled>>
  BY WhoCalls DEF ReadyReturns
<1>3. CallFits(c, NoCall, Len(children)) /\ NoCall.at = "idle" /\ NoCall.name = NoName
  BY IdleFits
<1>4. Typed /\ calls'[c] = NoCall /\ \A d \in All : d # c => calls'[d] = calls[d]
  BY <1>1, <1>2, <1>3, StillTyped
<1>5. ASSUME NEW n \in Names \ muddled PROVE OneSidecar(n)'
  <2>1. OneSidecar(n)
    BY DEF Supervised
  <2>2. \A d \in All : CallStays(d, n)
    BY <1>3, <1>4, SidecarsAssumption DEF CallStays
  <2>3. calls'[ShutdownCall] = calls[ShutdownCall] /\ calls'[RecoverCall] = calls[RecoverCall]
    BY <1>2, <1>4, WhoCalls
  <2>4. Leaving(n)' /\ RecoverStays(n)
    BY <1>1, <1>4, <2>1, <2>3, LeavingStays DEF OneSidecar, Typed, RecoverStays
  <2> QED BY <1>1, <1>2, <2>1, <2>2, <2>4, StillHolds
<1> QED BY <1>1, <1>2, <1>4, <1>5, ShapeGoes DEF Supervised

\* Who waits for a child to end, and what follows.
LEMMA WaitsIs ==
    ASSUME Shape, NEW c \in All, calls[c].at \in {"term", "kill"}
    PROVE  /\ c # RecoverCall /\ calls[c].name \in Names /\ calls[c].child \in 1..Len(children)
           /\ c = ShutdownCall => calls[c].launch = NoLaunch /\ shutting
           /\ calls[c] \in CallRecords /\ CallFits(c, calls[c], Len(children))
<1>1. CallFits(c, calls[c], Len(children)) /\ (calls[ShutdownCall].at # "idle" => shutting)
  BY DEF Shape, CallsOK
<1> QED BY <1>1 DEF CallFits

LEMMA ReturnsIs ==
    ASSUME Shape, NEW c \in All, calls[c].at \in {"term", "kill"}, Returns(c)
    PROVE  \E call : /\ calls' = [calls EXCEPT ![c] = call] /\ CallFits(c, call, Len(children))
                     /\ call.name = NoName /\ call.launch = NoLaunch
                     /\ c # ShutdownCall => call.at = "idle"
                     /\ c = ShutdownCall => call.at = "next" /\ call.rest = calls[c].rest
<1>1. Len(children) \in Nat
  BY DEF Shape, KidsOK
<1>2. CASE c = ShutdownCall
  <2>1. PICK rest : rest = calls[c].rest
    OBVIOUS
  <2>2. rest \in Seq(Names)
    BY <1>2, <2>1, WaitsIs DEF CallFits
  <2>3. PICK call : call = [NoCall EXCEPT !.at = "next", !.rest = rest]
    OBVIOUS
  <2>4. CallHas(call, "next", NoName, 0, rest)
    <3>1. PICK stage \in Ats, name \in Names \cup {NoName}, child \in Nat : stage = "next" /\ name = NoName /\ child = 0
      BY DEF Ats
    <3> QED BY <2>2, <2>3, <3>1, CallForms
  <2>5. CallFits(c, call, Len(children))
    <3>1. PICK stage \in {"next", "failed"} : stage = "next"
      OBVIOUS
    <3> QED BY <1>1, <1>2, <2>2, <2>4, <3>1, NextFits, WhoCalls
  <2>6. calls' = [calls EXCEPT ![c] = call]
    BY <1>2, <2>1, <2>3 DEF Returns
  <2> QED BY <1>2, <2>1, <2>4, <2>5, <2>6 DEF CallHas
<1>3. CASE c # ShutdownCall
  <2>1. calls' = [calls EXCEPT ![c] = NoCall]
    BY <1>3 DEF Returns
  <2> QED BY <1>3, <2>1, IdleFits
<1> QED BY <1>2, <1>3

\* The shutdown goes on when the child it waited for has ended, or was killed.
LEMMA ReturnLeaves ==
    ASSUME Shape, NEW c \in All, calls[c].at \in {"term", "kill"}, children' = children,
           NEW call, calls'[c] = call, \A d \in All : d # c => calls'[d] = calls[d],
           c = ShutdownCall => call.at = "next" /\ call.rest = calls[c].rest,
           NEW n \in Names, OneSidecar(n),
           calls[c].name = n /\ calls[c].child \in Living(n) => children[calls[c].child].forced
    PROVE  Leaving(n)'
<1>1. KidsOK /\ KidsOK' /\ KidsGrow /\ CallsOK
  BY KidsSame DEF Shape
<1>2. CASE c # ShutdownCall
  <2>1. calls'[ShutdownCall] = calls[ShutdownCall]
    BY <1>2, WhoCalls
  <2> QED BY <1>1, <2>1, LeavingStays DEF OneSidecar
<1>3. CASE c = ShutdownCall
  <2>1. shutting
    BY <1>3, WaitsIs
  <2>2. ASSUME NEW k \in Living(n)
        PROVE  children[k].after \/ children'[k].forced \/ n \in ToSet(calls'[ShutdownCall].rest)
    BY <1>3, <2>2 DEF OneSidecar, Leaving
  <2> QED BY <1>1, <2>1, <2>2, LeavingGoes
<1> QED BY <1>2, <1>3

\* The call starts the child it has stopped another for.
LEMMA ReplacesHolds ==
    ASSUME Supervised, NEW c \in All, calls[c].at \in {"term", "kill"}, Replaces(c),
           shutting' = shutting, muddled' = muddled,
           calls[c].name \notin muddled => \A k \in Living(calls[c].name) : children[k].forced
    PROVE  Supervised'
<1>1. Shape /\ KidsOK /\ CallsOK /\ shutting \in BOOLEAN /\ muddled \subseteq Names
  BY DEF Supervised, Shape
<1>2. PICK s \in Names : s = calls[c].name
  BY <1>1, WaitsIs
<1>3. PICK launch \in LaunchOrNone, restarts \in Nat : launch = calls[c].launch /\ restarts = calls[c].restarts
  BY <1>1, WaitsIs DEF CallRecords
<1>4. launch # NoLaunch /\ c # RecoverCall /\ c # ShutdownCall
  BY <1>1, <1>3, WaitsIs DEF Replaces
<1>5. PICK none : none = <<>>
  OBVIOUS
<1>6. none \in Seq(Names) \cup Seq(Planned)
  BY <1>5, NoneIs
<1>7. Starts(c, s, launch, Fresh, restarts, none)
  BY <1>2, <1>3, <1>5 DEF Replaces
<1>8. Len(children) \in Nat /\ Fresh \in Nat /\ Fresh <= Fresh /\ Fresh = Len(children) + 1
  <2>1. Len(children) \in Nat
    BY <1>1 DEF KidsOK
  <2> QED BY ONLY <2>1 DEF Fresh
<1>9. Started(c, s, Fresh, none)
  BY <1>1, <1>4, <1>6, <1>7, <1>8, StartsIs
<1>10. ASSUME NEW n \in Names \ muddled PROVE OneSidecar(n)'
  <2>1. OneSidecar(n)
    BY DEF Supervised
  <2>2. CASE n = s
    <3>1. \A k \in Living(s) : children[k].forced /\ children[k].inst # Fresh
      <4> SUFFICES ASSUME NEW k \in Living(s) PROVE children[k].forced /\ children[k].inst # Fresh
        OBVIOUS
      <4>1. k \in 1..Len(children)
        BY <1>1 DEF Living, KidsOK
      <4>2. children[k].inst \in Nat /\ children[k].inst <= Len(children)
        BY <1>1, <4>1 DEF KidsOK, KidFits, Kids
      <4>3. children[k].inst # Fresh
        BY ONLY <1>8, <4>2
      <4> QED BY <1>2, <2>2, <4>3
    <3>2. \A d \in All \ {c} : ~Busy(d, s)
      BY <1>2, <1>3, <1>4, <2>1, <2>2 DEF OneSidecar, Awaited
    <3>3. OneSidecar(s)'
      BY <1>1, <1>4, <1>9, <2>1, <2>2, <3>1, <3>2, StartedHolds
    <3> QED BY <2>2, <3>3
  <2>3. CASE n # s
    <3>1. RecoverStays(n)
      BY <1>4, <1>9, WhoCalls DEF RecoverStays, Started
    <3> QED BY <1>1, <1>4, <1>9, <2>1, <2>3, <3>1, StartedOther
  <2> QED BY <2>2, <2>3
<1> QED BY <1>1, <1>9, <1>10, ShapeGoes DEF Supervised, Started

LEMMA StopReturnsHolds ==
    ASSUME Supervised, NEW c \in All, StopReturns(c)
    PROVE  Supervised'
<1>1. Shape /\ KidsOK /\ CallsOK /\ shutting \in BOOLEAN /\ muddled \subseteq Names
  BY DEF Supervised, Shape
<1>2. /\ calls[c].at \in {"term", "kill"} /\ children[calls[c].child].stopped
      /\ shutting' = shutting /\ muddled' = muddled
  BY DEF StopReturns
<1>3. ASSUME NEW n \in Names \ muddled, calls[c].name = n
      PROVE  running[n] = 0 /\ \A k \in Living(n) : children[k].forced
  <2>1. OneSidecar(n) /\ running[n] \in {0, calls[c].child}
    BY <1>2, <1>3 DEF Supervised, OneSidecar, Awaited
  <2>2. running[n] = 0
    BY <1>2, <2>1 DEF OneSidecar, Entered
  <2>3. \A k \in Living(n) : k # 0
    <3>1. \A k \in 1..Len(children) : k # 0
      OBVIOUS
    <3> QED BY <1>1, <3>1 DEF Living, KidsOK
  <2> QED BY <2>1, <2>2, <2>3 DEF OneSidecar, Entered
<1>4. CASE Replaces(c)
  <2>1. calls[c].name \notin muddled => \A k \in Living(calls[c].name) : children[k].forced
    BY <1>1, <1>2, <1>3, WaitsIs
  <2> QED BY <1>2, <1>4, <2>1, ReplacesHolds
<1>5. CASE Returns(c) /\ UNCHANGED <<rows, children, running>>
  <2>1. PICK call : /\ calls' = [calls EXCEPT ![c] = call] /\ CallFits(c, call, Len(children))
                    /\ call.name = NoName /\ call.launch = NoLaunch
                    /\ c # ShutdownCall => call.at = "idle"
                    /\ c = ShutdownCall => call.at = "next" /\ call.rest = calls[c].rest
    BY <1>1, <1>2, <1>5, ReturnsIs
  <2>2. c # RecoverCall /\ (c = ShutdownCall => shutting)
    BY <1>1, <1>2, WaitsIs
  <2>3. Typed /\ calls'[c] = call /\ \A d \in All : d # c => calls'[d] = calls[d]
    BY <1>1, <1>2, <1>5, <2>1, <2>2, StillTyped
  <2>4. ASSUME NEW n \in Names \ muddled PROVE OneSidecar(n)'
    <3>1. OneSidecar(n)
      BY DEF Supervised
    <3>2. \A d \in All : CallStays(d, n)
      BY <2>1, <2>3, SidecarsAssumption DEF CallStays
    <3>3. RecoverStays(n)
      BY <2>2, <2>3, WhoCalls DEF RecoverStays
    <3>4. Leaving(n)'
      BY <1>1, <1>2, <1>3, <1>5, <2>1, <2>3, <3>1, ReturnLeaves
    <3> QED BY <1>1, <1>5, <3>1, <3>2, <3>3, <3>4, StillHolds
  <2> QED BY <1>1, <1>2, <2>3, <2>4, ShapeGoes DEF Supervised
<1> QED BY <1>4, <1>5 DEF StopReturns

LEMMA GraceEndsHolds ==
    ASSUME Supervised, NEW c \in All, GraceEnds(c)
    PROVE  Supervised'
<1>1. Shape /\ KidsOK /\ RowsOK /\ RunningOK /\ CallsOK /\ shutting \in BOOLEAN /\ muddled \subseteq Names
  BY DEF Supervised, Shape
<1>2. calls[c].at = "term" /\ UNCHANGED <<rows, running, shutting, muddled>>
  BY DEF GraceEnds
<1>3. PICK k \in 1..Len(children) : k = calls[c].child
  BY <1>1, <1>2, WaitsIs
<1>4. c # RecoverCall /\ calls[c].name \in Names /\ (c = ShutdownCall => shutting)
      /\ calls[c] \in CallRecords /\ CallFits(c, calls[c], Len(children))
  BY <1>1, <1>2, WaitsIs
<1>5. PICK kid : kid = [children[k] EXCEPT !.forced = TRUE]
  OBVIOUS
<1>6. children' = [children EXCEPT ![k] = kid]
  BY <1>3, <1>5 DEF GraceEnds
<1>7. /\ SameKid(children[k], kid) /\ kid.forced /\ kid.alive = children[k].alive
      /\ kid.expected = children[k].expected /\ kid.stopped = children[k].stopped
  BY <1>1, <1>5, Counted, ForcedIs
<1>8. /\ KidsOK' /\ KidsGrow /\ (\A s : NoNew(s)) /\ Len(children') = Len(children) /\ children'[k] = kid
      /\ \A i \in 1..Len(children) : i # k => children'[i] = children[i]
  BY <1>1, <1>6, <1>7, KidChanges
<1>9. PICK call : call = [calls[c] EXCEPT !.at = "kill"]
  OBVIOUS
<1>10. /\ call \in CallRecords /\ call.at = "kill" /\ call.name = calls[c].name
       /\ call.launch = calls[c].launch /\ call.child = k /\ call.rest = calls[c].rest
  BY <1>3, <1>4, <1>9 DEF CallRecords, Ats
<1>11. CallFits(c, call, Len(children'))
  BY <1>2, <1>4, <1>8, <1>10 DEF CallFits
<1>12. calls' = [calls EXCEPT ![c] = call]
  BY <1>9 DEF GraceEnds
<1>13. CallsOK' /\ calls'[c] = call /\ \A d \in All : d # c => calls'[d] = calls[d]
  BY <1>1, <1>2, <1>4, <1>8, <1>11, <1>12, CallsChange
<1>14. RowsOK' /\ RunningOK'
  BY <1>1, <1>2, <1>8, RowsSame, RunningSame
<1>15. ASSUME NEW n \in Names \ muddled PROVE OneSidecar(n)'
  <2>1. OneSidecar(n)
    BY DEF Supervised
  <2>2. \A i \in 1..Len(children) : /\ children'[i].alive = children[i].alive
                                    /\ children'[i].stopped = children[i].stopped
                                    /\ children'[i].expected = children[i].expected
    BY <1>7, <1>8
  <2>3. EntryStays(n)
    BY <1>1, <1>2, <2>2, EntryIs DEF EntryStays
  <2>4. Entered(n)'
    BY <1>1, <1>8, <2>1, <2>3, EnteredStays DEF OneSidecar
  <2>5. RecoverStays(n)
    BY <1>4, <1>13, WhoCalls DEF RecoverStays
  <2>6. Told(n)'
    BY <1>1, <1>2, <1>8, <2>1, <2>3, <2>5, ToldStays DEF OneSidecar
  <2>7. Awaited(n)'
    <3> SUFFICES ASSUME NEW d \in All, calls'[d].name = n
                 PROVE  /\ calls'[d].at \in {"term", "kill"} =>
                             /\ running'[n] \in {0, calls'[d].child}
                             /\ running'[n] # 0 => children'[calls'[d].child].expected
                        /\ calls'[d].at = "kill" => children'[calls'[d].child].forced
                        /\ calls'[d].at # "idle" /\ calls'[d].launch # NoLaunch =>
                             \A e \in All \ {d} : ~(calls'[e].at # "idle" /\ calls'[e].name = n)
      BY DEF Awaited, Busy
    <3>1. /\ calls'[d].name = calls[d].name /\ calls'[d].launch = calls[d].launch
          /\ calls'[d].child = calls[d].child
          /\ calls'[d].at \in {"term", "kill"} => calls[d].at \in {"term", "kill"}
          /\ calls'[d].at # "idle" => calls[d].at # "idle"
      BY <1>2, <1>3, <1>10, <1>13
    <3>2. calls[d].at \in {"term", "kill"} => calls[d].child \in 1..Len(children)
      BY <1>1 DEF CallsOK, CallFits
    <3>3. calls'[d].at = "kill" => children'[calls'[d].child].forced
      <4>1. CASE d = c
        BY <1>7, <1>8, <1>10, <1>13, <4>1
      <4>2. CASE d # c
        <5>1. calls'[d] = calls[d]
          BY <1>13, <4>2
        <5>2. calls[d].at = "kill" => children[calls[d].child].forced
          BY <2>1, <3>1 DEF OneSidecar, Awaited
        <5>3. calls[d].at = "kill" => SameKid(children[calls[d].child], children'[calls[d].child])
          BY <1>8, <3>2 DEF KidsGrow
        <5> QED BY <5>1, <5>2, <5>3 DEF SameKid
      <4> QED BY <4>1, <4>2
    <3>4. calls'[d].at \in {"term", "kill"} =>
            /\ running'[n] \in {0, calls'[d].child}
            /\ running'[n] # 0 => children'[calls'[d].child].expected
      BY <1>2, <2>1, <2>2, <3>1, <3>2 DEF OneSidecar, Awaited
    <3>5. ASSUME calls'[d].at # "idle", calls'[d].launch # NoLaunch, NEW e \in All \ {d}
          PROVE  ~(calls'[e].at # "idle" /\ calls'[e].name = n)
      <4>1. ~(calls[e].at # "idle" /\ calls[e].name = n)
        BY <2>1, <3>1, <3>5 DEF OneSidecar, Awaited, Busy
      <4>2. calls'[e].name = calls[e].name /\ (calls'[e].at # "idle" => calls[e].at # "idle")
        BY <1>2, <1>10, <1>13
      <4> QED BY <4>1, <4>2
    <3> QED BY <3>3, <3>4, <3>5
  <2>8. Leaving(n)'
    <3>1. CASE c # ShutdownCall
      <4>1. calls'[ShutdownCall] = calls[ShutdownCall]
        BY <1>13, <3>1, WhoCalls
      <4> QED BY <1>1, <1>8, <2>1, <4>1, LeavingStays DEF OneSidecar
    <3>2. CASE c = ShutdownCall
      <4>1. ASSUME NEW i \in Living(n)
            PROVE  \/ children[i].after \/ children'[i].forced
                   \/ n \in ToSet(calls'[ShutdownCall].rest)
                   \/ /\ calls'[ShutdownCall].at \in {"term", "kill"}
                      /\ calls'[ShutdownCall].name = n /\ calls'[ShutdownCall].child = i
        <5>1. i \in 1..Len(children)
          BY <1>1, <4>1 DEF Living, KidsOK
        <5>2. SameKid(children[i], children'[i])
          BY <1>8, <5>1 DEF KidsGrow
        <5> QED BY <1>2, <1>3, <1>10, <1>13, <2>1, <3>2, <4>1, <5>2 DEF OneSidecar, Leaving, SameKid
      <4> QED BY <1>1, <1>4, <1>8, <3>2, <4>1, LeavingGoes
    <3> QED BY <3>1, <3>2
  <2> QED BY <2>4, <2>6, <2>7, <2>8 DEF OneSidecar
<1> QED BY <1>1, <1>2, <1>8, <1>13, <1>14, <1>15, ShapeGoes DEF Supervised, Typed

LEMMA KillEndsHolds ==
    ASSUME Supervised, NEW c \in All, KillEnds(c)
    PROVE  Supervised'
<1>1. Shape /\ KidsOK /\ RowsOK /\ RunningOK /\ CallsOK /\ shutting \in BOOLEAN /\ muddled \subseteq Names
  BY DEF Supervised, Shape
<1>2. calls[c].at = "kill" /\ shutting' = shutting /\ muddled' = muddled
  BY DEF KillEnds
<1>3. PICK s \in Names, k \in 1..Len(children) : s = calls[c].name /\ k = calls[c].child
  BY <1>1, <1>2, WaitsIs
<1>4. ASSUME s \notin muddled
      PROVE  /\ OneSidecar(s) /\ children[k].forced
             /\ \A i \in Living(s) : children[i].forced
  <2>1. OneSidecar(s) /\ running[s] \in {0, k} /\ children[k].forced
    BY <1>2, <1>3, <1>4 DEF Supervised, OneSidecar, Awaited
  <2>2. \A i \in Living(s) : i # 0
    <3>1. \A i \in 1..Len(children) : i # 0
      OBVIOUS
    <3> QED BY <1>1, <3>1 DEF Living, KidsOK
  <2> QED BY <2>1, <2>2 DEF OneSidecar, Entered
<1>5. CASE Replaces(c)
  BY <1>2, <1>3, <1>4, <1>5, ReplacesHolds
<1>6. CASE /\ Returns(c) /\ children' = children /\ running' = [running EXCEPT ![s] = 0]
           /\ rows' = [rows EXCEPT ![s] = RowOf(k, children[k], "failed")]
  <2>1. PICK call : /\ calls' = [calls EXCEPT ![c] = call] /\ CallFits(c, call, Len(children))
                    /\ call.name = NoName /\ call.launch = NoLaunch
                    /\ c # ShutdownCall => call.at = "idle"
                    /\ c = ShutdownCall => call.at = "next" /\ call.rest = calls[c].rest
    BY <1>1, <1>2, <1>6, ReturnsIs
  <2>2. c # RecoverCall /\ (c = ShutdownCall => shutting)
    BY <1>1, <1>2, WaitsIs
  <2>3. KidsOK' /\ KidsGrow /\ \A n : NoNew(n)
    BY <1>1, <1>6, KidsSame
  <2>4. CallsOK' /\ calls'[c] = call /\ \A d \in All : d # c => calls'[d] = calls[d]
    BY <1>1, <1>2, <1>6, <2>1, <2>2, <2>3, CallsChange
  <2>5. 0 \in 0..Len(children')
    <3>1. Len(children') \in Nat
      BY <2>3 DEF KidsOK
    <3> QED BY ONLY <3>1
  <2>6. RunningOK' /\ running'[s] = 0 /\ \A n \in Names : n # s => running'[n] = running[n]
    BY <1>1, <1>6, <2>3, <2>5, RunningChanges
  <2>7. PICK row : row = RowOf(k, children[k], "failed")
    OBVIOUS
  <2>8. RowFits(row, Len(children')) /\ row.status = "failed"
    <3>1. "failed" \in Statuses /\ k \in Nat
      BY DEF Statuses
    <3>2. KidFits(children[k], Len(children))
      BY <1>1 DEF KidsOK
    <3> QED BY <1>6, <2>7, <3>1, <3>2, RowOfIs
  <2>9. RowsOK' /\ rows'[s] = row /\ \A n \in Names : n # s => rows'[n] = rows[n]
    BY <1>1, <1>6, <2>3, <2>7, <2>8, RowsChange
  <2>10. ASSUME NEW n \in Names \ muddled PROVE OneSidecar(n)'
    <3>1. OneSidecar(n)
      BY DEF Supervised
    <3>2. \A d \in All : CallStays(d, n)
      BY <2>1, <2>4, SidecarsAssumption DEF CallStays
    <3>3. RecoverStays(n)
      BY <2>2, <2>4, WhoCalls DEF RecoverStays
    <3>4. Leaving(n)'
      BY <1>1, <1>2, <1>3, <1>4, <1>6, <2>1, <2>4, <3>1, ReturnLeaves
    <3>5. n = s => running'[n] = 0
      BY <2>6
    <3>6. n # s => EntryStays(n) /\ rows'[n] = rows[n]
      BY <1>6, <2>6, <2>9 DEF EntryStays
    <3>7. Awaited(n)'
      BY <1>1, <2>3, <3>1, <3>2, <3>5, <3>6, AwaitedStays DEF OneSidecar
    <3>8. Entered(n)' /\ Told(n)'
      <4>1. CASE n = s
        <5>1. \A i \in Living(s)' : children'[i].forced
          BY <1>4, <1>6, <4>1 DEF Living
        <5> QED BY <2>6, <2>8, <2>9, <4>1, <5>1 DEF Entered, Told
      <4>2. CASE n # s
        BY <1>1, <2>3, <3>1, <3>3, <3>6, <4>2, EnteredStays, ToldStays DEF OneSidecar, EntryStays
      <4> QED BY <4>1, <4>2
    <3> QED BY <3>4, <3>7, <3>8 DEF OneSidecar
  <2> QED BY <1>1, <1>2, <2>3, <2>4, <2>6, <2>9, <2>10, ShapeGoes DEF Supervised, Typed
<1> QED BY <1>3, <1>5, <1>6 DEF KillEnds

-----------------------------------------------------------------------------
(* The children. *)

LEMMA KidIs ==
    ASSUME Supervised, NEW k \in DOMAIN children, children[k].name \notin muddled, children[k].alive
    PROVE  /\ k \in 1..Len(children) /\ k # 0 /\ children[k] \in Kids
           /\ KidFits(children[k], Len(children))
           /\ children[k].name \in Names /\ OneSidecar(children[k].name)
           /\ k \in Living(children[k].name)
<1>1. k \in 1..Len(children) /\ KidsOK
  BY DEF Supervised, Shape, KidsOK
<1>2. children[k] \in Kids /\ KidFits(children[k], Len(children))
  BY <1>1, Counted
<1>3. children[k].name \in Names
  BY <1>2 DEF Kids
<1>4. k # 0
  BY ONLY <1>1
<1>5. OneSidecar(children[k].name)
  BY <1>3 DEF Supervised
<1>6. k \in Living(children[k].name)
  BY DEF Living
<1> QED BY <1>1, <1>2, <1>3, <1>4, <1>5, <1>6

\* A child becomes ready, or does not in time: it is who it was, and the row of
\* its sidecar may be written.
LEMMA KidTurns ==
    ASSUME Supervised, NEW k \in DOMAIN children, children[k].name \notin muddled, children[k].alive,
           NEW kid, SameKid(children[k], kid), kid.alive = children[k].alive,
           kid.stopped = children[k].stopped, kid.expected = children[k].expected,
           children' = [children EXCEPT ![k] = kid],
           NEW row, RowFits(row, Len(children)), rows' = [rows EXCEPT ![children[k].name] = row],
           UNCHANGED <<running, shutting, calls, muddled>>,
           \/ row = rows[children[k].name]
           \/ row.status = "ready" /\ row.child = k /\ running[children[k].name] = k
           \/ row.status = "failed" /\ row.inst = children[k].inst /\ children[k].again
    PROVE  Supervised'
<1>1. Shape /\ KidsOK /\ RowsOK /\ RunningOK /\ CallsOK /\ shutting \in BOOLEAN /\ muddled \subseteq Names
  BY DEF Supervised, Shape
<1>2. PICK s \in Names : s = children[k].name
  BY KidIs
<1>3. k \in 1..Len(children) /\ k # 0
  BY KidIs
<1>4. /\ KidsOK' /\ KidsGrow /\ (\A n : NoNew(n)) /\ Len(children') = Len(children) /\ children'[k] = kid
      /\ \A i \in 1..Len(children) : i # k => children'[i] = children[i]
  BY <1>1, <1>3, KidChanges
<1>5. RowsOK' /\ rows'[s] = row /\ \A n \in Names : n # s => rows'[n] = rows[n]
  BY <1>1, <1>2, <1>4, RowsChange
<1>6. RunningOK' /\ CallsOK'
  BY <1>1, <1>4, RunningSame, CallsSame
<1>7. ASSUME NEW n \in Names \ muddled PROVE OneSidecar(n)'
  <2>1. OneSidecar(n)
    BY DEF Supervised
  <2>2. EntryStays(n)
    <3>1. \A i \in 1..Len(children) : /\ children'[i].alive = children[i].alive
                                      /\ children'[i].stopped = children[i].stopped
                                      /\ children'[i].expected = children[i].expected
      BY <1>4
    <3> QED BY <1>1, <3>1, EntryIs DEF EntryStays
  <2>3. Entered(n)'
    BY <1>1, <1>4, <2>1, <2>2, EnteredStays DEF OneSidecar
  <2>4. (\A d \in All : CallStays(d, n)) /\ RecoverStays(n)
    BY DEF CallStays, RecoverStays
  <2>5. Awaited(n)' /\ Leaving(n)'
    BY <1>1, <1>4, <2>1, <2>2, <2>4, AwaitedStays, LeavingStays DEF OneSidecar
  <2>6. Told(n)'
    <3>1. CASE rows'[n] = rows[n]
      BY <1>1, <1>4, <2>1, <2>2, <2>4, <3>1, ToldStays DEF OneSidecar, EntryStays
    <3>2. CASE n = s /\ row.status = "ready" /\ row.child = k /\ running[s] = k
      BY <1>3, <1>5, <3>2 DEF Told
    <3>3. CASE n = s /\ row.status = "failed" /\ row.inst = children[k].inst /\ children[k].again
      <4>1. k \in DOMAIN children' /\ children'[k].again /\ children'[k].inst = children[k].inst
        <5>1. k \in 1..Len(children')
          BY <1>3, <1>4
        <5> QED BY <1>4, <3>3, <5>1 DEF SameKid, KidsOK
      <4> QED BY <1>5, <3>3, <4>1 DEF Told
    <3> QED BY <1>2, <1>5, <3>1, <3>2, <3>3
  <2> QED BY <2>3, <2>5, <2>6 DEF OneSidecar
<1> QED BY <1>1, <1>4, <1>5, <1>6, <1>7, ShapeGoes DEF Supervised, Typed

LEMMA MarkReadyHolds ==
    ASSUME Supervised, NEW k \in DOMAIN children, children[k].name \notin muddled, MarkReady(k)
    PROVE  Supervised'
<1>1. children[k].alive /\ ~children[k].forced /\ UNCHANGED <<running, shutting, calls, muddled>>
  BY DEF MarkReady
<1>2. PICK kid : kid = Settles(children[k])
  OBVIOUS
<1>3. children[k] \in Kids /\ KidFits(children[k], Len(children)) /\ k \in 1..Len(children)
  BY <1>1, KidIs
<1>4. /\ SameKid(children[k], kid) /\ kid.alive = children[k].alive
      /\ kid.stopped = children[k].stopped /\ kid.expected = children[k].expected
  BY <1>2, <1>3, ReadyIs
<1>5. PICK row : row = RowOf(k, children[k], "ready")
  OBVIOUS
<1>6. RowFits(row, Len(children)) /\ row.status = "ready" /\ row.child = k
  <2>1. "ready" \in Statuses /\ k \in Nat
    BY <1>3 DEF Statuses
  <2> QED BY <1>3, <1>5, <2>1, RowOfIs
<1>7. children' = [children EXCEPT ![k] = kid] /\ rows' = [rows EXCEPT ![children[k].name] = row]
  BY <1>2, <1>5 DEF MarkReady
<1>8. running[children[k].name] = k
  BY <1>1, KidIs DEF OneSidecar, Entered
<1> QED BY <1>1, <1>4, <1>6, <1>7, <1>8, KidTurns

\* The table with another row of a sidecar, and the row that a failed start leaves.
With(s, row) == [rows EXCEPT ![s] = row]

LEMMA FailsIs ==
    ASSUME Shape, NEW k \in 1..Len(children), NEW row, NEW n,
           RowFits(row, n), KidFits(children[k], n)
    PROVE  \E new : /\ RestartFails(k, With(children[k].name, row)) = With(children[k].name, new)
                    /\ RowFits(new, n)
                    /\ \/ new = row
                       \/ new.status = "failed" /\ new.inst = children[k].inst /\ children[k].again
<1>0. PICK tab : tab = [rows EXCEPT ![children[k].name] = row]
  OBVIOUS
<1>1. rows \in [Names -> Rows] /\ children[k].name \in Names
  BY DEF Shape, RowsOK, KidFits, Kids
<1>2. PICK bad : bad = RowOf(0, children[k], "failed")
  OBVIOUS
<1>3. RowFits(bad, n) /\ bad.status = "failed" /\ bad.inst = children[k].inst
  <2>1. PICK none \in Nat : none = 0
    OBVIOUS
  <2>2. "failed" \in Statuses
    BY DEF Statuses
  <2>3. bad = RowOf(none, children[k], "failed")
    BY <1>2, <2>1
  <2> QED BY <2>1, <2>2, <2>3, RowOfIs
<1>3a. SUFFICES \E new : /\ RestartFails(k, tab) = [rows EXCEPT ![children[k].name] = new]
                           /\ RowFits(new, n)
                           /\ \/ new = row
                              \/ new.status = "failed" /\ new.inst = children[k].inst /\ children[k].again
  BY <1>0 DEF With
<1>4. CASE children[k].again /\ children[k].ready = "pending" /\ ~children[k].settled
  <2>1. RestartFails(k, tab) = [tab EXCEPT ![children[k].name] = bad]
    BY <1>2, <1>4 DEF RestartFails
  <2>2. [tab EXCEPT ![children[k].name] = bad] = [rows EXCEPT ![children[k].name] = bad]
    BY <1>0, <1>1
  <2> QED BY <1>0, <1>3, <1>4, <2>1, <2>2
<1>5. CASE ~(children[k].again /\ children[k].ready = "pending" /\ ~children[k].settled)
  BY <1>0, <1>5 DEF RestartFails
<1> QED BY <1>4, <1>5

LEMMA ReadinessTimeoutHolds ==
    ASSUME Supervised, NEW k \in DOMAIN children, children[k].name \notin muddled, ReadinessTimeout(k)
    PROVE  Supervised'
<1>1. children[k].alive /\ UNCHANGED <<running, shutting, calls, muddled>>
  BY DEF ReadinessTimeout
<1>2. PICK kid : kid = [children[k] EXCEPT !.timer = FALSE, !.ready = "rejected"]
  OBVIOUS
<1>3. children[k] \in Kids /\ KidFits(children[k], Len(children)) /\ k \in 1..Len(children)
      /\ children[k].name \in Names
  BY <1>1, KidIs
<1>4. /\ SameKid(children[k], kid) /\ kid.alive = children[k].alive
      /\ kid.stopped = children[k].stopped /\ kid.expected = children[k].expected
  BY <1>2, <1>3, ReadyIs
<1>5. Shape
  BY DEF Supervised
<1>6. PICK row : row = rows[children[k].name]
  OBVIOUS
<1>7. RowFits(row, Len(children)) /\ rows = [rows EXCEPT ![children[k].name] = row]
  BY <1>3, <1>5, <1>6 DEF Shape, RowsOK
<1>8. PICK new : /\ RestartFails(k, rows) = [rows EXCEPT ![children[k].name] = new]
                 /\ RowFits(new, Len(children))
                 /\ \/ new = row
                    \/ new.status = "failed" /\ new.inst = children[k].inst /\ children[k].again
  <2>1. PICK new : /\ RestartFails(k, With(children[k].name, row)) = With(children[k].name, new)
                   /\ RowFits(new, Len(children))
                   /\ \/ new = row
                      \/ new.status = "failed" /\ new.inst = children[k].inst /\ children[k].again
    <3>1. RowFits(row, Len(children))
      BY <1>7
    <3> QED BY ONLY <1>3, <1>5, <3>1, FailsIs
  <2> QED BY <1>7, <2>1 DEF With
<1>9. children' = [children EXCEPT ![k] = kid] /\ rows' = [rows EXCEPT ![children[k].name] = new]
  BY <1>2, <1>8 DEF ReadinessTimeout
<1> QED BY <1>1, <1>4, <1>6, <1>8, <1>9, KidTurns

\* The children as the exit of k leaves them, when cur is the entry.
LEMMA GoneIs ==
    ASSUME KidsOK, NEW k \in 1..Len(children), NEW cur
    PROVE  /\ Exited(k, cur) \in Seq(Kids) /\ Len(Exited(k, cur)) = Len(children)
           /\ \A i \in 1..Len(children) :
                /\ SameKid(children[i], Exited(k, cur)[i])
                /\ i = k => ~Exited(k, cur)[i].alive
                /\ i # k => Exited(k, cur)[i].alive = children[i].alive /\ Exited(k, cur)[i].expected = children[i].expected
                /\ i # k /\ i # cur => Exited(k, cur)[i].stopped = children[i].stopped
<1>0. PICK gone : gone = Exited(k, cur)
  OBVIOUS
<1>1. DOMAIN children = 1..Len(children) /\ \A i \in 1..Len(children) : children[i] \in Kids
  BY Counted
<1>2. ASSUME NEW i \in 1..Len(children)
      PROVE  /\ SameKid(children[i], gone[i])
             /\ i = k => ~gone[i].alive
             /\ i # k => gone[i].alive = children[i].alive /\ gone[i].expected = children[i].expected
             /\ i # k /\ i # cur => gone[i].stopped = children[i].stopped
  <2>1. PICK kid : kid = IF i = k THEN Ended(children[i]) ELSE children[i]
    OBVIOUS
  <2>2. children[i] \in Kids
    BY <1>1
  <2>3. SameKid(children[i], kid) /\ (i = k => ~kid.alive) /\ (i # k => kid = children[i])
    BY <2>1, <2>2, EndedIs, SameIs
  <2>4. kid \in Kids
    BY <2>3 DEF SameKid
  <2>5. PICK ready \in {kid.ready, "rejected"} :
          ready = IF kid.ready = "pending" /\ i = cur /\ ~children[k].settled THEN "rejected" ELSE kid.ready
    OBVIOUS
  <2>5a. gone[i] = [kid EXCEPT !.stopped = @ \/ i = cur,
                               !.ready = IF @ = "pending" /\ i = cur /\ ~children[k].settled
                                         THEN "rejected" ELSE @]
    BY <1>0, <1>1, <2>1 DEF Exited
  <2>5b. gone[i] = Hears(kid, i, cur, ready)
    BY <2>5, <2>5a DEF Hears
  <2>6. /\ SameKid(kid, gone[i]) /\ gone[i].alive = kid.alive /\ gone[i].expected = kid.expected
        /\ i # cur => gone[i].stopped = kid.stopped
    BY ONLY <2>4, <2>5, <2>5b, HearsIs
  <2>7. SameKid(children[i], gone[i])
    BY <2>3, <2>6 DEF SameKid
  <2> QED BY <2>3, <2>6, <2>7
<1>3. DOMAIN gone = 1..Len(children) /\ gone = [i \in DOMAIN gone |-> gone[i]]
  BY <1>0, <1>1 DEF Exited
<1>4. gone \in Seq(Kids) /\ Len(gone) = Len(children)
  BY <1>2, <1>3, KidsEach
<1> QED BY <1>0, <1>2, <1>4

\* An exit that is passed over: of an instance that is not the entry's.
LEMMA PassedHolds ==
    ASSUME Supervised, NEW k \in DOMAIN children, children[k].name \notin muddled, children[k].alive,
           ~Mine(running[children[k].name], k), children' = [children EXCEPT ![k] = Ended(@)],
           UNCHANGED <<rows, running, shutting, calls, muddled>>
    PROVE  Supervised'
<1>1. Shape /\ KidsOK /\ RowsOK /\ RunningOK /\ CallsOK /\ shutting \in BOOLEAN /\ muddled \subseteq Names
  BY DEF Supervised, Shape
<1>2. PICK s \in Names : s = children[k].name
  BY KidIs
<1>3. k \in 1..Len(children) /\ k # 0 /\ children[k] \in Kids
  BY KidIs
<1>4. PICK kid : kid = Ended(children[k])
  OBVIOUS
<1>5. SameKid(children[k], kid) /\ children' = [children EXCEPT ![k] = kid]
  BY <1>3, <1>4, EndedIs
<1>6. /\ KidsOK' /\ KidsGrow /\ (\A n : NoNew(n)) /\ Len(children') = Len(children) /\ children'[k] = kid
      /\ \A i \in 1..Len(children) : i # k => children'[i] = children[i]
  BY <1>1, <1>3, <1>5, KidChanges
<1>7. RowsOK' /\ RunningOK' /\ CallsOK'
  BY <1>1, <1>6, RowsSame, RunningSame, CallsSame
<1>8. ASSUME NEW n \in Names \ muddled PROVE OneSidecar(n)'
  <2>1. OneSidecar(n)
    BY DEF Supervised
  <2>2. running[n] # k
    <3>1. CASE n = s
      BY <1>2, <1>3, <3>1 DEF Mine
    <3>2. CASE n # s
      BY <1>2, <1>3, <2>1, <3>2 DEF OneSidecar, Entered
    <3> QED BY <3>1, <3>2
  <2>3. EntryStays(n)
    BY <1>1, <1>6, <2>2, EntryIs DEF EntryStays
  <2>4. (\A d \in All : CallStays(d, n)) /\ RecoverStays(n)
    BY DEF CallStays, RecoverStays
  <2> QED BY <1>1, <1>6, <2>1, <2>3, <2>4, EnteredStays, ToldStays, AwaitedStays, LeavingStays
          DEF OneSidecar
<1> QED BY <1>1, <1>6, <1>7, <1>8, ShapeGoes DEF Supervised, Typed

\* The entry's child has ended, and is not started again.
LEMMA EndsHolds ==
    ASSUME Supervised, NEW k \in DOMAIN children, children[k].name \notin muddled, children[k].alive,
           running[children[k].name] = k, KidsOK', KidsGrow, \A n : NoNew(n),
           \A i \in 1..Len(children) : i # k => /\ children'[i].alive = children[i].alive
                                                /\ children'[i].expected = children[i].expected
                                                /\ children'[i].stopped = children[i].stopped,
           ~children'[k].alive, running' = [running EXCEPT ![children[k].name] = 0],
           NEW row, RowFits(row, Len(children')), rows' = [rows EXCEPT ![children[k].name] = row],
           row.status \in {"failed", "stopped"}, UNCHANGED <<shutting, calls, muddled>>
    PROVE  Supervised'
<1>1. Shape /\ KidsOK /\ RowsOK /\ RunningOK /\ CallsOK /\ shutting \in BOOLEAN /\ muddled \subseteq Names
  BY DEF Supervised, Shape
<1>2. PICK s \in Names : s = children[k].name
  BY KidIs
<1>3. k \in 1..Len(children) /\ k # 0
  BY KidIs
<1>4. 0 \in 0..Len(children')
  <2>1. Len(children') \in Nat
    BY DEF KidsOK
  <2> QED BY ONLY <2>1
<1>5. RunningOK' /\ running'[s] = 0 /\ \A n \in Names : n # s => running'[n] = running[n]
  BY <1>1, <1>2, <1>4, RunningChanges
<1>6. RowsOK' /\ rows'[s] = row /\ \A n \in Names : n # s => rows'[n] = rows[n]
  BY <1>1, <1>2, RowsChange
<1>7. CallsOK'
  BY <1>1, CallsSame
<1>8. ASSUME NEW n \in Names \ muddled PROVE OneSidecar(n)'
  <2>1. OneSidecar(n)
    BY DEF Supervised
  <2>2. (\A d \in All : CallStays(d, n)) /\ RecoverStays(n)
    BY DEF CallStays, RecoverStays
  <2>3. Leaving(n)'
    BY <1>1, <2>1, LeavingStays DEF OneSidecar
  <2>4. CASE n = s
    <3>1. ASSUME NEW i \in Living(s)' PROVE children'[i].forced
      <4>1. i \in Living(s) /\ (children[i].forced => children'[i].forced)
        BY <1>1, <3>1, LivingStays
      <4>2. children'[i].alive
        BY <3>1 DEF Living
      <4>3. i # k
        BY <4>2
      <4> QED BY <1>2, <2>1, <2>4, <4>1, <4>3 DEF OneSidecar, Entered
    <3>2. Entered(s)' /\ Told(s)'
      BY <1>5, <1>6, <3>1 DEF Entered, Told
    <3>3. Awaited(s)'
      BY <1>1, <1>5, <2>1, <2>2, <2>4, AwaitedStays DEF OneSidecar
    <3> QED BY <2>3, <2>4, <3>2, <3>3 DEF OneSidecar
  <2>5. CASE n # s
    <3>1. running[n] # k
      BY <1>2, <1>3, <2>1, <2>5 DEF OneSidecar, Entered
    <3>2. EntryStays(n) /\ rows'[n] = rows[n]
      BY <1>1, <1>5, <1>6, <2>5, <3>1, EntryIs DEF EntryStays
    <3> QED BY <1>1, <2>1, <2>2, <2>3, <3>2, EnteredStays, ToldStays, AwaitedStays
            DEF OneSidecar, EntryStays
  <2> QED BY <2>4, <2>5
<1> QED BY <1>1, <1>5, <1>6, <1>7, <1>8, ShapeGoes DEF Supervised, Typed

\* It is started again, with an identifier of its own.
LEMMA AgainHolds ==
    ASSUME Supervised, NEW k \in DOMAIN children, children[k].name \notin muddled, children[k].alive,
           running[children[k].name] = k, ~children[k].expected, KidsOK', KidsGrow,
           \A i \in 1..Len(children) : i # k => /\ children'[i].alive = children[i].alive
                                                /\ children'[i].expected = children[i].expected
                                                /\ children'[i].stopped = children[i].stopped,
           ~children'[k].alive, running' = [running EXCEPT ![children[k].name] = Fresh],
           Len(children') = Fresh, \A n : n # children[k].name => NoNew(n),
           children'[Fresh].name = children[k].name, children'[Fresh].inst = Fresh,
           children'[Fresh].alive, ~children'[Fresh].stopped,
           NEW row, RowFits(row, Len(children')), rows' = [rows EXCEPT ![children[k].name] = row],
           \/ row.status \in {"starting", "ready"} /\ row.child = Fresh
           \/ row.status = "failed" /\ row.inst = children[k].inst /\ children[k].again,
           UNCHANGED <<shutting, calls, muddled>>
    PROVE  Supervised'
<1>1. Shape /\ KidsOK /\ RowsOK /\ RunningOK /\ CallsOK /\ shutting \in BOOLEAN /\ muddled \subseteq Names
  BY DEF Supervised, Shape
<1>2. PICK s \in Names : s = children[k].name
  BY KidIs
<1>3. k \in 1..Len(children) /\ k # 0 /\ OneSidecar(s) /\ s \notin muddled
  BY <1>2, KidIs
<1>4. Len(children) \in Nat /\ Fresh = Len(children) + 1 /\ Fresh # 0 /\ Fresh \in 0..Len(children')
      /\ Fresh \in 1..Len(children') /\ k \in 1..Len(children')
  <2>1. Len(children) \in Nat
    BY <1>1 DEF KidsOK
  <2> QED BY ONLY <1>3, <2>1, Len(children') = Fresh DEF Fresh
<1>5. RunningOK' /\ running'[s] = Fresh /\ \A n \in Names : n # s => running'[n] = running[n]
  BY <1>1, <1>2, <1>4, RunningChanges
<1>6. RowsOK' /\ rows'[s] = row /\ \A n \in Names : n # s => rows'[n] = rows[n]
  BY <1>1, <1>2, RowsChange
<1>7. CallsOK'
  BY <1>1, CallsSame
<1>8. ASSUME NEW n \in Names \ muddled PROVE OneSidecar(n)'
  <2>1. OneSidecar(n)
    BY DEF Supervised
  <2>2. (\A d \in All : CallStays(d, n)) /\ RecoverStays(n)
    BY DEF CallStays, RecoverStays
  <2>3. Leaving(n)'
    BY <1>1, <2>1, LeavingStays DEF OneSidecar
  <2>4. CASE n = s
    <3>1. ASSUME NEW i \in Living(s)'
          PROVE  i = Fresh \/ (children'[i].forced /\ children'[i].inst # Fresh)
      <4>1. i \in 1..Len(children') /\ children'[i].name = s /\ children'[i].alive
        BY <1>1, <3>1 DEF Living, KidsOK
      <4>2. CASE i \in 1..Len(children)
        <5>1. SameKid(children[i], children'[i]) /\ i \in DOMAIN children
          BY <1>1, <4>2 DEF KidsGrow, KidsOK
        <5>2. i \in Living(s) /\ i # k
          BY <4>1, <5>1 DEF Living, SameKid
        <5>3. children'[i].forced
          BY <1>2, <1>3, <5>1, <5>2 DEF OneSidecar, Entered, SameKid
        <5>4. children[i].inst \in Nat /\ children[i].inst <= Len(children)
          BY <1>1, <4>2 DEF KidsOK, KidFits, Kids
        <5>5. children[i].inst # Fresh
          BY ONLY <1>4, <5>4
        <5> QED BY <5>1, <5>3, <5>5 DEF SameKid
      <4>3. i \in 1..Len(children) \/ i = Fresh
        BY ONLY <1>4, <4>1, Len(children') = Fresh
      <4> QED BY <4>2, <4>3
    <3>2. Entered(s)'
      BY <1>2, <1>5, <3>1 DEF Entered
    <3>3. Told(s)'
      <4>1. CASE row.status \in {"starting", "ready"} /\ row.child = Fresh
        BY <1>4, <1>5, <1>6, <4>1 DEF Told
      <4>2. CASE row.status = "failed" /\ row.inst = children[k].inst /\ children[k].again
        <5>1. SameKid(children[k], children'[k]) /\ k \in DOMAIN children'
          BY <1>1, <1>3, <1>4 DEF KidsGrow, KidsOK
        <5>2. children'[k].again /\ children'[k].inst = rows'[s].inst
          BY <1>6, <4>2, <5>1 DEF SameKid
        <5> QED BY <1>4, <1>5, <1>6, <4>2, <5>1, <5>2 DEF Told
      <4> QED BY <4>1, <4>2
    <3>4. ASSUME NEW d \in All, calls[d].name = s PROVE calls[d].at \notin {"term", "kill"}
      <4>1. SUFFICES ASSUME calls[d].at \in {"term", "kill"} PROVE FALSE
        OBVIOUS
      <4>2. running[s] \in {0, calls[d].child} /\ (running[s] # 0 => children[calls[d].child].expected)
        BY <1>3, <3>4, <4>1 DEF OneSidecar, Awaited
      <4> QED BY <1>2, <1>3, <4>2
    <3>5. Awaited(s)'
      BY <1>3, <3>4 DEF OneSidecar, Awaited, Busy
    <3> QED BY <2>3, <2>4, <3>2, <3>3, <3>5 DEF OneSidecar
  <2>5. CASE n # s
    <3>1. running[n] # k
      BY <1>2, <1>3, <2>1, <2>5 DEF OneSidecar, Entered
    <3>2. EntryStays(n) /\ rows'[n] = rows[n] /\ NoNew(n)
      BY <1>1, <1>2, <1>5, <1>6, <2>5, <3>1, EntryIs DEF EntryStays
    <3> QED BY <1>1, <2>1, <2>2, <2>3, <3>2, EnteredStays, ToldStays, AwaitedStays
            DEF OneSidecar, EntryStays
  <2> QED BY <2>4, <2>5
<1> QED BY <1>1, <1>5, <1>6, <1>7, <1>8, ShapeGoes DEF Supervised, Typed

LEMMA EndsGoes ==
    ASSUME Supervised, NEW k \in DOMAIN children, children[k].name \notin muddled, children[k].alive,
           running[children[k].name] = k, NEW ok, Ends(k, children[k].name, k, ok),
           UNCHANGED <<shutting, calls, muddled>>
    PROVE  Supervised'
<1>1. Shape /\ KidsOK
  BY DEF Supervised, Shape
<1>2. k \in 1..Len(children) /\ KidFits(children[k], Len(children)) /\ k \in Nat
  <2>1. k \in 1..Len(children) /\ KidFits(children[k], Len(children))
    BY KidIs
  <2> QED BY ONLY <2>1
<1>3. PICK gone : gone = Exited(k, k)
  OBVIOUS
<1>4. /\ gone \in Seq(Kids) /\ Len(gone) = Len(children)
      /\ \A i \in 1..Len(children) :
           /\ SameKid(children[i], gone[i])
           /\ i = k => ~gone[i].alive
           /\ i # k => /\ gone[i].alive = children[i].alive /\ gone[i].expected = children[i].expected
                       /\ gone[i].stopped = children[i].stopped
  BY <1>1, <1>2, <1>3, GoneIs
<1>5. children' = gone
  BY <1>3 DEF Ends
<1>6. KidsOK' /\ KidsGrow /\ \A n : NoNew(n)
  BY ONLY <1>1, <1>4, <1>5, KidsBecome
<1>7. PICK status \in {"failed", "stopped"} : status = IF Failed(k, ok) THEN "failed" ELSE "stopped"
  OBVIOUS
<1>8. PICK row : row = RowOf(k, children[k], status)
  OBVIOUS
<1>9. RowFits(row, Len(children)) /\ row.status = status
  <2>1. status \in Statuses
    BY ONLY <1>7 DEF Statuses
  <2> QED BY ONLY <1>2, <1>8, <2>1, RowOfIs
<1>10. PICK new : /\ RestartFails(k, With(children[k].name, row)) = With(children[k].name, new)
                  /\ RowFits(new, Len(children))
                  /\ \/ new = row
                     \/ new.status = "failed" /\ new.inst = children[k].inst /\ children[k].again
  BY ONLY <1>1, <1>2, <1>9, FailsIs
<1>11. rows' = [rows EXCEPT ![children[k].name] = new]
  BY <1>7, <1>8, <1>10 DEF Ends, With
<1>12. RowFits(new, Len(children')) /\ new.status \in {"failed", "stopped"}
  BY ONLY <1>4, <1>5, <1>7, <1>9, <1>10
<1>13. /\ \A i \in 1..Len(children) : i # k => /\ children'[i].alive = children[i].alive
                                               /\ children'[i].expected = children[i].expected
                                               /\ children'[i].stopped = children[i].stopped
       /\ ~children'[k].alive
  BY ONLY <1>2, <1>4, <1>5
<1>14. running' = [running EXCEPT ![children[k].name] = 0]
  BY DEF Ends
<1> QED BY <1>6, <1>11, <1>12, <1>13, <1>14, EndsHolds

LEMMA StartsAnewGoes ==
    ASSUME Supervised, NEW k \in DOMAIN children, children[k].name \notin muddled, children[k].alive,
           running[children[k].name] = k, NEW ok, StartsAnew(k, children[k].name, k, ok),
           UNCHANGED <<shutting, calls, muddled>>
    PROVE  Supervised'
<1>1. Shape /\ KidsOK /\ shutting \in BOOLEAN
  BY DEF Supervised, Shape
<1>2. k \in 1..Len(children) /\ KidFits(children[k], Len(children)) /\ k \in Nat
      /\ children[k].name \in Names /\ children[k] \in Kids
  <2>1. k \in 1..Len(children) /\ KidFits(children[k], Len(children))
        /\ children[k].name \in Names /\ children[k] \in Kids
    BY KidIs
  <2> QED BY ONLY <2>1
<1>3. PICK gone : gone = Exited(k, k)
  OBVIOUS
<1>4. /\ gone \in Seq(Kids) /\ Len(gone) = Len(children)
      /\ \A i \in 1..Len(children) :
           /\ SameKid(children[i], gone[i])
           /\ i = k => ~gone[i].alive
           /\ i # k => /\ gone[i].alive = children[i].alive /\ gone[i].expected = children[i].expected
                       /\ gone[i].stopped = children[i].stopped
  BY <1>1, <1>2, <1>3, GoneIs
<1>5. Len(children) \in Nat /\ Fresh \in Nat /\ Fresh = Len(children) + 1 /\ Len(children) <= Fresh
  <2>1. Len(children) \in Nat
    BY <1>1 DEF KidsOK
  <2> QED BY ONLY <2>1 DEF Fresh
<1>6. PICK launch \in LaunchOrNone, restarts \in Nat :
        launch = children[k].launch /\ restarts = children[k].restarts + 1
  <2>1. children[k].launch \in LaunchOrNone /\ children[k].restarts \in Nat
    BY ONLY <1>2 DEF Kids
  <2> QED BY ONLY <2>1
<1>7. PICK kid : kid = Anew(children[k].name, children[k])
  OBVIOUS
<1>8. Begun(kid, children[k].name, Fresh, TRUE)
  <2>1. PICK fresh \in Nat, yes \in BOOLEAN : fresh = Fresh /\ yes = TRUE
    BY ONLY <1>5
  <2>2. kid = Child(children[k].name, launch, fresh, restarts, yes)
    BY ONLY <1>6, <1>7, <2>1 DEF Anew
  <2>3. Begun(kid, children[k].name, fresh, yes)
    BY ONLY <1>1, <1>2, <1>6, <2>1, <2>2, ChildIs
  <2> QED BY ONLY <2>1, <2>3
<1>9. KidFits(kid, Fresh) /\ kid.name = children[k].name /\ kid.inst = Fresh /\ kid.alive /\ ~kid.stopped
      /\ kid.after = shutting
  BY ONLY <1>5, <1>8 DEF KidFits, Begun
<1>10. children' = Append(gone, kid) /\ Fresh <= MaxStarts
  BY <1>3, <1>7 DEF StartsAnew
<1>11. /\ KidsOK' /\ KidsGrow /\ (\A n : kid.name # n => NoNew(n))
       /\ Len(children') = Fresh /\ children'[Fresh] = kid
       /\ \A i \in 1..Len(children) : children'[i] = gone[i]
  BY ONLY <1>1, <1>4, <1>9, <1>10, KidComes
<1>12. PICK status \in {"starting", "ready"} : status = FirstStatus(launch)
  BY ONLY TRUE DEF FirstStatus
<1>13. PICK row : row = Row(status, Fresh, launch, restarts, Fresh)
  OBVIOUS
<1>14. RowHas(row, status, Fresh, Fresh)
  <2>1. status \in Statuses \cup {"absent"}
    BY ONLY <1>12 DEF Statuses
  <2>2. PICK fresh \in Nat : fresh = Fresh
    BY ONLY <1>5
  <2>3. row = Row(status, fresh, launch, restarts, fresh)
    BY ONLY <1>13, <2>2
  <2>4. RowHas(row, status, fresh, fresh)
    BY ONLY <1>6, <2>1, <2>2, <2>3, RowIs
  <2> QED BY ONLY <2>2, <2>4
<1>15. RowFits(row, Fresh)
  BY ONLY <1>5, <1>14 DEF RowHas, RowFits
<1>16. KidFits(children[k], Fresh)
  BY ONLY <1>2, <1>5, FitsMore
<1>17. PICK new : /\ RestartFails(k, With(children[k].name, row)) = With(children[k].name, new)
                  /\ RowFits(new, Fresh)
                  /\ \/ new = row
                     \/ new.status = "failed" /\ new.inst = children[k].inst /\ children[k].again
  BY ONLY <1>1, <1>2, <1>15, <1>16, FailsIs
<1>18. rows' = [rows EXCEPT ![children[k].name] = new]
  BY <1>6, <1>12, <1>13, <1>17 DEF StartsAnew, With
<1>19. \/ new.status \in {"starting", "ready"} /\ new.child = Fresh
       \/ new.status = "failed" /\ new.inst = children[k].inst /\ children[k].again
  BY ONLY <1>12, <1>14, <1>17 DEF RowHas
<1>20. /\ \A i \in 1..Len(children) : i # k => /\ children'[i].alive = children[i].alive
                                               /\ children'[i].expected = children[i].expected
                                               /\ children'[i].stopped = children[i].stopped
       /\ ~children'[k].alive
  BY ONLY <1>2, <1>4, <1>11
<1>21. ~children[k].expected
  BY DEF StartsAnew, Again
<1>22. running' = [running EXCEPT ![children[k].name] = Fresh]
  BY DEF StartsAnew
<1>23. /\ \A n : n # children[k].name => NoNew(n)
       /\ children'[Fresh].name = children[k].name /\ children'[Fresh].inst = Fresh
       /\ children'[Fresh].alive /\ ~children'[Fresh].stopped
       /\ RowFits(new, Len(children'))
  BY ONLY <1>9, <1>11, <1>17
<1> QED BY <1>11, <1>18, <1>19, <1>20, <1>21, <1>22, <1>23, AgainHolds

LEMMA ExitsHolds ==
    ASSUME Supervised, NEW k \in DOMAIN children, children[k].name \notin muddled,
           NEW ok \in BOOLEAN, Exits(k, ok)
    PROVE  Supervised'
<1>1. children[k].alive /\ UNCHANGED <<shutting, calls, muddled>>
  BY DEF Exits
<1>2. CASE ~Mine(running[children[k].name], k) /\ children' = [children EXCEPT ![k] = Ended(@)]
           /\ UNCHANGED <<rows, running>>
  BY <1>1, <1>2, PassedHolds
<1>3. Mine(running[children[k].name], k) => running[children[k].name] = k
  BY <1>1, KidIs DEF Mine, OneSidecar, Entered
<1>4. CASE Mine(running[children[k].name], k)
           /\ Ends(k, children[k].name, running[children[k].name], ok)
  BY <1>1, <1>3, <1>4, EndsGoes
<1>5. CASE Mine(running[children[k].name], k)
           /\ StartsAnew(k, children[k].name, running[children[k].name], ok)
  BY <1>1, <1>3, <1>5, StartsAnewGoes
<1> QED BY <1>2, <1>4, <1>5 DEF Exits

-----------------------------------------------------------------------------
(* Recovery, shutdown, crash. *)

LEMMA OrderIs ==
    ASSUME NEW S \in SUBSET Names, NEW order \in SetToSeqs(S)
    PROVE  /\ order \in Seq(Names) /\ order = [i \in DOMAIN order |-> order[i]]
           /\ DOMAIN order = 1..Len(order) /\ Len(order) \in Nat
           /\ \A i \in 1..Len(order) : order[i] \in S
           /\ \A s \in S : \E i \in 1..Len(order) : order[i] = s
<1>1. IsFiniteSet(S) /\ Cardinality(S) \in Nat
  BY SidecarsAssumption, FS_Subset, FS_CardinalityType
<1>2. PICK n \in Nat : n = Cardinality(S)
  BY <1>1
<1>3. order \in [1..n -> S] /\ \A i, j \in 1..n : i # j => order[i] # order[j]
  BY <1>2 DEF SetToSeqs
<1>4. order \in Seq(Names) /\ Len(order) = n /\ DOMAIN order = 1..n
  <2>1. order \in [1..n -> Names]
    BY <1>3
  <2> QED BY ONLY n \in Nat, <2>1
<1>5. order \in Injection(1..n, S)
  BY ONLY <1>3 DEF Injection, IsInjective
<1>6. IsFiniteSet(1..n) /\ Cardinality(1..n) = n
  <2>1. 1 \in Int /\ n \in Int
    OBVIOUS
  <2>2. IsFiniteSet(1..n) /\ Cardinality(1..n) = IF 1 > n THEN 0 ELSE n - 1 + 1
    BY ONLY <2>1, FS_Interval
  <2>3. (IF 1 > n THEN 0 ELSE n - 1 + 1) = n
    BY ONLY n \in Nat
  <2> QED BY ONLY <2>2, <2>3
<1>7. order \in Surjection(1..n, S)
  BY ONLY <1>1, <1>2, <1>5, <1>6, FS_Injection
<1>8. \A s \in S : \E i \in 1..n : order[i] = s
  BY ONLY <1>7 DEF Surjection
<1> QED BY <1>3, <1>4, <1>8

\* The recovery or the shutdown begins, with all it has to do.
LEMMA NextIs ==
    ASSUME NEW rest \in Seq(Names) \cup Seq(Planned)
    PROVE  CallHas([NoCall EXCEPT !.at = "next", !.rest = rest], "next", NoName, 0, rest)
<1>1. PICK stage \in Ats, name \in Names \cup {NoName}, child \in Nat : stage = "next" /\ name = NoName /\ child = 0
  BY DEF Ats
<1> QED BY <1>1, CallForms

LEMMA RecoverHolds ==
    ASSUME Supervised, Recover
    PROVE  Supervised'
<1>1. Shape /\ KidsOK /\ RowsOK /\ CallsOK /\ shutting \in BOOLEAN /\ muddled \subseteq Names
  BY DEF Supervised, Shape
<1>2. calls[RecoverCall] = NoCall /\ UNCHANGED <<rows, children, running, shutting, muddled>>
  BY DEF Recover
<1>3. PICK order \in SetToSeqs(Recoverable) :
        calls' = [calls EXCEPT ![RecoverCall] = [NoCall EXCEPT !.at = "next",
                   !.rest = [i \in DOMAIN order |-> [name |-> order[i], row |-> rows[order[i]]]]]]
  BY DEF Recover
<1>4. PICK n \in Nat : n = Len(order)
  BY OrderIs DEF Recoverable
<1>5. /\ DOMAIN order = 1..n
      /\ \A i \in 1..n : order[i] \in Recoverable
      /\ \A s \in Recoverable : \E i \in 1..n : order[i] = s
  BY ONLY <1>4, order \in SetToSeqs(Recoverable), Recoverable \in SUBSET Names, OrderIs DEF Recoverable
<1>6. PICK rest : rest = [i \in 1..n |-> [name |-> order[i], row |-> rows[order[i]]]]
  OBVIOUS
<1>7. \A i \in 1..n : /\ rest[i].name = order[i] /\ rest[i].row = rows[order[i]]
                      /\ rest[i] \in Planned
                      /\ rest[i].row.inst <= Len(children) /\ rest[i].row.status \in {"starting", "ready"}
  BY <1>1, <1>5, <1>6 DEF RowsOK, RowFits, Planned, Recoverable
<1>8. rest \in Seq(Planned) /\ Len(rest) = n
  <2>1. rest \in [1..n -> Planned]
    BY ONLY <1>6, <1>7
  <2> QED BY ONLY n \in Nat, <2>1
<1>9. Due(rest, Len(children))
  BY <1>7, <1>8 DEF Due
<1>10. PICK call : call = [NoCall EXCEPT !.at = "next", !.rest = rest]
  OBVIOUS
<1>11. CallHas(call, "next", NoName, 0, rest)
  BY ONLY <1>8, <1>10, NextIs
<1>12. calls' = [calls EXCEPT ![RecoverCall] = call]
  BY <1>3, <1>5, <1>6, <1>10
<1>13. CallFits(RecoverCall, call, Len(children))
  <2>1. PICK c \in {RecoverCall, ShutdownCall}, m \in Nat, stage \in {"next", "failed"} :
          c = RecoverCall /\ stage = "next" /\ m = Len(children)
    BY <1>1 DEF KidsOK
  <2>2. c = ShutdownCall => stage = "next" /\ rest \in Seq(Names)
    BY <2>1, WhoCalls
  <2> QED BY ONLY <1>9, <1>11, <2>1, <2>2, NextFits
<1>14. Typed /\ calls'[RecoverCall] = call /\ \A d \in All : d # RecoverCall => calls'[d] = calls[d]
  <2>1. RecoverCall \in All /\ RecoverCall # ShutdownCall
    BY WhoCalls
  <2> QED BY <1>1, <1>2, <1>12, <1>13, <2>1, StillTyped
<1>15. ASSUME NEW s \in Names \ muddled PROVE OneSidecar(s)'
  <2>1. OneSidecar(s) /\ KidsOK' /\ KidsGrow /\ EntryStays(s) /\ NoNew(s)
    BY <1>1, <1>2, KidsSame DEF Supervised, EntryStays
  <2>2. Entered(s)'
    BY <1>1, <1>2, <2>1, EnteredStays DEF OneSidecar, Shape
  <2>3. \A d \in All : CallStays(d, s)
    BY <1>11, <1>14, SidecarsAssumption DEF CallStays, CallHas
  <2>4. Awaited(s)'
    BY <1>1, <2>1, <2>3, AwaitedStays DEF OneSidecar
  <2>5. Leaving(s)'
    BY <1>1, <1>14, <2>1, WhoCalls, LeavingStays DEF OneSidecar
  <2>6. Told(s)'
    <3>1. ASSUME running[s] = 0, rows[s].status \in {"starting", "ready"}
          PROVE  \E i \in 1..Len(rest) : rest[i].name = s
      BY <1>5, <1>7, <1>8, <3>1 DEF Recoverable
    <3>2. calls'[RecoverCall].rest = rest
      BY <1>11, <1>14 DEF CallHas
    <3>3. Living(s)' = Living(s)
      BY <1>2 DEF Living
    <3> QED BY <1>2, <2>1, <3>1, <3>2, <3>3 DEF OneSidecar, Told
  <2> QED BY <2>2, <2>4, <2>5, <2>6 DEF OneSidecar
<1> QED BY <1>1, <1>2, <1>14, <1>15, ShapeGoes DEF Supervised

LEMMA ShutdownHolds ==
    ASSUME Supervised, Shutdown
    PROVE  Supervised'
<1>1. Shape /\ KidsOK /\ RowsOK /\ CallsOK /\ shutting \in BOOLEAN /\ muddled \subseteq Names
  BY DEF Supervised, Shape
<1>2. calls[ShutdownCall] = NoCall /\ shutting' = TRUE /\ UNCHANGED <<rows, children, running, muddled>>
  BY DEF Shutdown
<1>3. PICK order \in SetToSeqs({s \in Names : running[s] # 0}) :
        calls' = [calls EXCEPT ![ShutdownCall] = [NoCall EXCEPT !.at = "next", !.rest = order]]
  BY DEF Shutdown
<1>4. /\ order \in Seq(Names) /\ DOMAIN order = 1..Len(order)
      /\ \A s \in Names : running[s] # 0 => \E i \in 1..Len(order) : order[i] = s
  <2>1. PICK S \in SUBSET Names : S = {s \in Names : running[s] # 0}
    OBVIOUS
  <2>2. order \in SetToSeqs(S)
    BY <1>3, <2>1
  <2>3. /\ order \in Seq(Names) /\ DOMAIN order = 1..Len(order)
        /\ \A s \in S : \E i \in 1..Len(order) : order[i] = s
    BY ONLY <2>2, S \in SUBSET Names, OrderIs
  <2> QED BY ONLY <2>1, <2>3
<1>5. PICK call : call = [NoCall EXCEPT !.at = "next", !.rest = order]
  OBVIOUS
<1>6. CallHas(call, "next", NoName, 0, order)
  BY <1>4, <1>5, NextIs
<1>7. CallFits(ShutdownCall, call, Len(children))
  <2>1. PICK c \in {RecoverCall, ShutdownCall}, m \in Nat, stage \in {"next", "failed"} :
          c = ShutdownCall /\ stage = "next" /\ m = Len(children)
    BY <1>1 DEF KidsOK
  <2>2. c # RecoverCall
    BY <2>1, WhoCalls
  <2> QED BY ONLY <1>4, <1>6, <2>1, <2>2, NextFits
<1>8. Typed /\ calls'[ShutdownCall] = call /\ \A d \in All : d # ShutdownCall => calls'[d] = calls[d]
  <2>1. ShutdownCall \in All
    BY WhoCalls
  <2>2. calls' = [calls EXCEPT ![ShutdownCall] = call]
    BY <1>3, <1>5
  <2> QED BY <1>1, <1>2, <1>7, <2>1, <2>2, StillTyped
<1>9. ASSUME NEW s \in Names \ muddled PROVE OneSidecar(s)'
  <2>1. OneSidecar(s)
    BY DEF Supervised
  <2>2. (\A d \in All : CallStays(d, s)) /\ RecoverStays(s)
    BY <1>6, <1>8, WhoCalls, SidecarsAssumption DEF CallStays, CallHas, RecoverStays
  <2>3. Leaving(s)'
    <3>1. calls'[ShutdownCall].rest = order
      BY <1>6, <1>8 DEF CallHas
    <3>2. ASSUME NEW k \in Living(s)' PROVE children'[k].forced \/ s \in ToSet(order)
      <4>1. k \in Living(s) /\ k # 0
        <5>1. k \in Living(s) /\ k \in 1..Len(children)
          BY <1>1, <1>2, <3>2 DEF Living, KidsOK
        <5> QED BY ONLY <5>1
      <4>2. running[s] # 0 => s \in ToSet(order)
        BY <1>4 DEF ToSet
      <4> QED BY <1>2, <2>1, <4>1, <4>2 DEF OneSidecar, Entered
    <3> QED BY <3>1, <3>2 DEF Leaving
  <2> QED BY <1>1, <1>2, <2>1, <2>2, <2>3, StillHolds
<1> QED BY <1>1, <1>2, <1>8, <1>9, ShapeGoes DEF Supervised

LEMMA TailIs ==
    ASSUME NEW S, NEW rest \in Seq(S), rest # <<>>
    PROVE  /\ 1 \in 1..Len(rest) /\ Head(rest) = rest[1] /\ Head(rest) \in S
           /\ Tail(rest) \in Seq(S)
           /\ \A i \in 1..Len(Tail(rest)) : i + 1 \in 1..Len(rest) /\ Tail(rest)[i] = rest[i + 1]
           /\ \A i \in 1..Len(rest) : i # 1 => \E j \in 1..Len(Tail(rest)) : Tail(rest)[j] = rest[i]
<1>1. Len(rest) \in Nat /\ Len(rest) # 0 /\ Len(Tail(rest)) = Len(rest) - 1 /\ Tail(rest) \in Seq(S)
  OBVIOUS
<1>2. \A j \in 1..Len(Tail(rest)) : j + 1 \in 1..Len(rest) /\ Tail(rest)[j] = rest[j + 1]
  OBVIOUS
<1>3. 1 \in 1..Len(rest) /\ Head(rest) = rest[1] /\ Head(rest) \in S
  OBVIOUS
<1>4. ASSUME NEW i \in 1..Len(rest), i # 1
      PROVE  \E j \in 1..Len(Tail(rest)) : Tail(rest)[j] = rest[i]
  <2>1. i - 1 \in 1..Len(Tail(rest)) /\ (i - 1) + 1 = i
    BY ONLY <1>1, <1>4
  <2> QED BY <1>2, <2>1
<1> QED BY <1>1, <1>2, <1>3, <1>4

LEMMA RecoverNextHolds ==
    ASSUME Supervised, RecoverNext
    PROVE  Supervised'
<1>1. Shape /\ KidsOK /\ RowsOK /\ CallsOK /\ shutting \in BOOLEAN
  BY DEF Supervised, Shape
<1>2. PICK rest : rest = calls[RecoverCall].rest
  OBVIOUS
<1>3. /\ calls[RecoverCall].at = "next" /\ rest # <<>> /\ shutting' = shutting
      /\ RecoverCall \in All /\ RecoverCall # ShutdownCall
  BY <1>2, WhoCalls DEF RecoverNext
<1>4. Due(rest, Len(children)) /\ rest \in Seq(Planned)
  BY <1>1, <1>2, <1>3 DEF CallsOK, CallFits, Due
<1>5. PICK tail : tail = Tail(rest)
  OBVIOUS
<1>6. PICK next : next = Head(rest)
  OBVIOUS
<1>7. /\ 1 \in 1..Len(rest) /\ next = rest[1] /\ next \in Planned /\ tail \in Seq(Planned)
      /\ \A i \in 1..Len(tail) : i + 1 \in 1..Len(rest) /\ tail[i] = rest[i + 1]
      /\ \A i \in 1..Len(rest) : i # 1 => \E j \in 1..Len(tail) : tail[j] = rest[i]
  BY ONLY <1>3, <1>4, <1>5, <1>6, TailIs
<1>8. Due(tail, Len(children))
  BY <1>4, <1>7 DEF Due
<1>9. PICK s \in Names, launch \in LaunchOrNone, inst \in Nat, restarts \in Nat :
        s = next.name /\ launch = next.row.launch /\ inst = next.row.inst /\ restarts = next.row.restarts
  BY <1>7 DEF Planned, Rows
<1>10. inst <= Fresh /\ next.row.status \in {"starting", "ready"}
  <2>1. inst <= Len(children) /\ Len(children) \in Nat /\ next.row.status \in {"starting", "ready"}
    BY <1>1, <1>4, <1>7, <1>9 DEF Due, KidsOK
  <2> QED BY ONLY <2>1, inst \in Nat DEF Fresh
<1>11. /\ Starts(RecoverCall, s, launch, inst, restarts, tail)
       /\ Muddles(s, Overlaps(s) \/ rows[s] # next.row \/ running[s] # 0)
  BY <1>2, <1>5, <1>6, <1>9 DEF RecoverNext
<1>12. Started(RecoverCall, s, inst, tail)
  BY <1>1, <1>3, <1>7, <1>8, <1>10, <1>11, StartsIs
<1>13. /\ muddled' \subseteq Names /\ (Names \ muddled') \subseteq (Names \ muddled)
       /\ s \notin muddled' => ~Overlaps(s) /\ rows[s] = next.row /\ running[s] = 0
  BY <1>1, <1>11, MuddlesIs
<1>14. ASSUME NEW n \in Names \ muddled' PROVE OneSidecar(n)'
  <2>1. OneSidecar(n)
    BY <1>13 DEF Supervised
  <2>2. CASE n = s
    <3>1. Living(s) = {}
      BY <1>10, <1>13, <2>1, <2>2 DEF OneSidecar, Told
    <3>2. \A d \in All : ~Busy(d, s)
      BY <1>13, <2>2, Alone
    <3>3. OneSidecar(s)'
      BY <1>1, <1>3, <1>12, <2>1, <2>2, <3>1, <3>2, StartedHolds
    <3> QED BY <2>2, <3>3
  <2>3. CASE n # s
    <3>1. calls'[RecoverCall].rest = tail
      BY <1>12 DEF Started, CallHas
    <3>2. ASSUME NEW i \in 1..Len(rest), rest[i].name = n PROVE \E j \in 1..Len(tail) : tail[j].name = n
      <4>1. i # 1
        BY <1>7, <1>9, <2>3, <3>2
      <4>2. PICK j \in 1..Len(tail) : tail[j] = rest[i]
        BY <1>7, <4>1
      <4> QED BY <3>2, <4>2
    <3>3. RecoverStays(n)
      BY <1>2, <1>3, <3>1, <3>2 DEF RecoverStays
    <3> QED BY <1>1, <1>3, <1>12, <2>1, <2>3, <3>3, StartedOther
  <2> QED BY <2>2, <2>3
<1> QED BY <1>1, <1>3, <1>12, <1>13, <1>14, ShapeGoes DEF Supervised, Started

LEMMA RecoverAwaitedHolds ==
    ASSUME Supervised, RecoverAwaited
    PROVE  Supervised'
<1>1. Shape /\ KidsOK /\ CallsOK /\ shutting \in BOOLEAN /\ muddled \subseteq Names
  BY DEF Supervised, Shape
<1>2. PICK rest : rest = calls[RecoverCall].rest
  OBVIOUS
<1>3. /\ calls[RecoverCall].at = "ready" /\ UNCHANGED <<rows, children, running, shutting, muddled>>
      /\ RecoverCall \in All /\ RecoverCall # ShutdownCall
  BY WhoCalls DEF RecoverAwaited
<1>4. Due(rest, Len(children)) /\ rest \in Seq(Planned)
  BY <1>1, <1>2, <1>3 DEF CallsOK, CallFits, Due
<1>5. PICK stage \in {"next", "failed"} :
        stage = IF children[calls[RecoverCall].child].ready = "ok" THEN "next" ELSE "failed"
  OBVIOUS
<1>6. PICK call : call = [NoCall EXCEPT !.at = stage, !.rest = rest]
  OBVIOUS
<1>7. CallHas(call, stage, NoName, 0, rest)
  <2>1. PICK name \in Names \cup {NoName}, child \in Nat : name = NoName /\ child = 0
    OBVIOUS
  <2>2. stage \in Ats
    BY DEF Ats
  <2> QED BY <1>4, <1>6, <2>1, <2>2, CallForms
<1>8. calls' = [calls EXCEPT ![RecoverCall] = call]
  BY <1>2, <1>5, <1>6 DEF RecoverAwaited
<1>9. CallFits(RecoverCall, call, Len(children))
  <2>1. PICK c \in {RecoverCall, ShutdownCall}, m \in Nat : c = RecoverCall /\ m = Len(children)
    BY <1>1 DEF KidsOK
  <2>2. c # ShutdownCall
    BY <1>3, <2>1
  <2> QED BY ONLY <1>4, <1>5, <1>7, <2>1, <2>2, NextFits
<1>10. Typed /\ calls'[RecoverCall] = call /\ \A d \in All : d # RecoverCall => calls'[d] = calls[d]
  BY <1>1, <1>3, <1>8, <1>9, StillTyped
<1>11. ASSUME NEW n \in Names \ muddled PROVE OneSidecar(n)'
  <2>1. OneSidecar(n)
    BY DEF Supervised
  <2>2. (\A d \in All : CallStays(d, n)) /\ RecoverStays(n)
    BY <1>2, <1>3, <1>7, <1>10, SidecarsAssumption DEF CallStays, RecoverStays, CallHas
  <2>3. Leaving(n)'
    BY <1>1, <1>3, <1>10, <2>1, WhoCalls, LeavingStays DEF OneSidecar, Typed
  <2> QED BY <1>1, <1>3, <2>1, <2>2, <2>3, StillHolds
<1> QED BY <1>1, <1>3, <1>10, <1>11, ShapeGoes DEF Supervised

LEMMA ShutdownNextHolds ==
    ASSUME Supervised, ShutdownNext
    PROVE  Supervised'
<1>1. Shape /\ KidsOK /\ RowsOK /\ RunningOK /\ CallsOK /\ shutting \in BOOLEAN
  BY DEF Supervised, Shape
<1>2. PICK rest : rest = calls[ShutdownCall].rest
  OBVIOUS
<1>3. PICK s : s = Head(rest)
  OBVIOUS
<1>4. PICK tail : tail = Tail(rest)
  OBVIOUS
<1>5. /\ calls[ShutdownCall].at = "next" /\ rest # <<>> /\ shutting' = shutting /\ shutting
      /\ ShutdownCall \in All /\ ShutdownCall # RecoverCall
      /\ Muddles(s, Replacing(s))
  BY <1>1, <1>2, <1>3, WhoCalls DEF ShutdownNext, CallsOK
<1>6. /\ calls[ShutdownCall] \in CallRecords /\ calls[ShutdownCall].launch = NoLaunch
      /\ rest \in Seq(Names) /\ calls[ShutdownCall].name = NoName
  BY <1>1, <1>2, <1>5 DEF CallsOK, CallFits
<1>7. /\ 1 \in 1..Len(rest) /\ s = rest[1] /\ s \in Names /\ tail \in Seq(Names)
      /\ \A i \in 1..Len(rest) : i # 1 => \E j \in 1..Len(tail) : tail[j] = rest[i]
  BY ONLY <1>3, <1>4, <1>5, <1>6, TailIs
<1>8. /\ muddled' \subseteq Names /\ (Names \ muddled') \subseteq (Names \ muddled)
      /\ s \notin muddled' => ~Replacing(s)
  BY <1>1, <1>5, <1>7, MuddlesIs
<1>9. ASSUME NEW n \in ToSet(rest), n # s PROVE n \in ToSet(tail)
  <2>1. PICK i \in 1..Len(rest) : n = rest[i]
    BY <1>6, <1>9 DEF ToSet
  <2>2. PICK j \in 1..Len(tail) : tail[j] = rest[i]
    BY <1>7, <1>9, <2>1
  <2> QED BY <1>7, <2>1, <2>2 DEF ToSet
<1>10. \A n \in Names \ muddled' : OneSidecar(n)
  BY <1>8 DEF Supervised
<1>11. CASE /\ running[s] = 0 /\ rows' = [rows EXCEPT ![s] = Stopped(s)]
            /\ calls' = [calls EXCEPT ![ShutdownCall].rest = tail]
            /\ UNCHANGED <<children, running>>
  <2>1. PICK call : call = [calls[ShutdownCall] EXCEPT !.rest = tail]
    OBVIOUS
  <2>2. call \in CallRecords /\ call.at = "next" /\ call.launch = NoLaunch /\ call.name = NoName
        /\ call.rest = tail
    BY <1>5, <1>6, <1>7, <2>1 DEF CallRecords
  <2>3. CallFits(ShutdownCall, call, Len(children'))
    BY ONLY <1>5, <1>7, <2>2, WhoCalls DEF CallFits
  <2>4. calls' = [calls EXCEPT ![ShutdownCall] = call]
    BY <1>11, <2>1
  <2>5. KidsOK' /\ KidsGrow
    BY <1>1, <1>11, KidsSame
  <2>6. RowFits(Stopped(s), Len(children'))
    BY <1>1, <1>7, <1>11, StoppedIs
  <2>7. RowsOK' /\ RunningOK'
    BY <1>1, <1>7, <1>11, <2>5, <2>6, RowsChange, RunningSame
  <2>8. CallsOK' /\ calls'[ShutdownCall] = call /\ \A d \in All : d # ShutdownCall => calls'[d] = calls[d]
    BY <1>1, <1>5, <2>3, <2>4, <2>5, CallsChange
  <2>9. ASSUME NEW n \in Names \ muddled' PROVE OneSidecar(n)'
    <3>1. (\A d \in All : CallStays(d, n)) /\ RecoverStays(n)
      BY <1>5, <2>2, <2>8, WhoCalls, SidecarsAssumption DEF CallStays, RecoverStays
    <3>2. ASSUME NEW k \in Living(n)
          PROVE  children[k].after \/ children'[k].forced \/ n \in ToSet(calls'[ShutdownCall].rest)
      <4>1. k # 0
        <5>1. k \in 1..Len(children)
          BY <1>1, <3>2 DEF Living, KidsOK
        <5> QED BY ONLY <5>1
      <4>2. CASE n = s
        BY <1>10, <1>11, <3>2, <4>1, <4>2 DEF OneSidecar, Entered
      <4>3. CASE n # s
        BY <1>2, <1>5, <1>9, <1>10, <1>11, <2>2, <2>8, <3>2, <4>3 DEF OneSidecar, Leaving
      <4> QED BY <4>2, <4>3
    <3>3. Leaving(n)'
      BY <1>1, <1>5, <2>5, <3>2, LeavingGoes
    <3> QED BY <1>1, <1>7, <1>10, <1>11, <3>1, <3>3, RowHolds
  <2> QED BY <1>1, <1>5, <1>8, <2>5, <2>7, <2>8, <2>9, ShapeGoes DEF Supervised, Typed
<1>12. CASE running[s] # 0 /\ Signals(ShutdownCall, s, NoLaunch, 0, tail)
  <2>1. NoLaunch \in LaunchOrNone
    BY DEF LaunchOrNone
  <2>2. Signalled(ShutdownCall, s, NoLaunch, tail)
    BY <1>1, <1>5, <1>7, <1>12, <2>1, SignalsIs
  <2>3. ASSUME NEW n \in Names \ muddled' PROVE OneSidecar(n)'
    <3>1. n = s => /\ \A d \in All \ {ShutdownCall} : Busy(d, s) => calls[d].launch = NoLaunch
                   /\ NoLaunch # NoLaunch => \A d \in All \ {ShutdownCall} : ~Busy(d, s)
      BY <1>8 DEF Replacing
    <3>2. n # s /\ n \in ToSet(calls[ShutdownCall].rest) => n \in ToSet(tail)
      BY <1>2, <1>9
    <3> QED BY <1>1, <1>5, <1>7, <1>10, <2>2, <3>1, <3>2, SignalledHolds
  <2> QED BY <1>1, <1>5, <1>8, <2>2, <2>3, ShapeGoes DEF Supervised, Signalled
<1> QED BY <1>2, <1>3, <1>4, <1>11, <1>12 DEF ShutdownNext

LEMMA CrashHolds ==
    ASSUME Supervised, SidecarsCrash
    PROVE  Supervised'
<1>1. Shape /\ KidsOK /\ RowsOK /\ RunningOK /\ CallsOK /\ shutting \in BOOLEAN /\ muddled \subseteq Names
  BY DEF Supervised, Shape
<1>2. /\ running' = [s \in Names |-> 0] /\ shutting' = FALSE
      /\ calls' = [c \in All |-> NoCall] /\ UNCHANGED <<rows, muddled>>
  BY DEF SidecarsCrash
<1>3. PICK gone : gone = [k \in 1..Len(children) |-> Ended(children[k])]
  OBVIOUS
<1>4. DOMAIN children = 1..Len(children) /\ Len(children) \in Nat
      /\ \A i \in 1..Len(children) : children[i] \in Kids
  BY <1>1, Counted
<1>5. children' = gone
  BY <1>3, <1>4 DEF SidecarsCrash
<1>6. \A i \in 1..Len(children) : SameKid(children[i], gone[i]) /\ ~gone[i].alive
  BY <1>3, <1>4, EndedIs
<1>7. gone \in Seq(Kids) /\ Len(gone) = Len(children)
  <2>1. DOMAIN gone = 1..Len(children) /\ gone = [i \in DOMAIN gone |-> gone[i]]
    BY <1>3
  <2> QED BY <1>1, <1>6, <2>1, KidsEach
<1>8. KidsOK' /\ KidsGrow
  BY ONLY <1>1, <1>5, <1>6, <1>7, KidsBecome
<1>9. RowsOK'
  BY <1>1, <1>2, <1>8, RowsSame
<1>10. RunningOK'
  <2>1. Len(children') \in Nat /\ \A s \in Names : running'[s] = 0
    BY <1>2, <1>8 DEF KidsOK
  <2>2. \A s \in Names : running'[s] <= Len(children')
    BY ONLY <2>1
  <2> QED BY <1>2, <2>2 DEF RunningOK
<1>11. \A c \in All : calls'[c] = NoCall /\ CallFits(c, NoCall, Len(children')) /\ NoCall.at = "idle"
  BY <1>2, IdleFits
<1>12. CallsOK'
  <2>1. calls' \in [All -> CallRecords]
    BY <1>2, <1>11 DEF CallFits
  <2> QED BY <1>11, <2>1, WhoCalls DEF CallsOK
<1>13. \A s : Living(s)' = {}
  BY <1>5, <1>6, <1>7, <1>8 DEF Living, KidsOK
<1>14. ASSUME NEW s \in Names PROVE OneSidecar(s)'
  <2>1. running'[s] = 0 /\ calls'[RecoverCall].at = "idle" /\ calls'[ShutdownCall].at = "idle"
    BY <1>2, <1>11, WhoCalls
  <2>2. Entered(s)' /\ Told(s)'
    BY <1>13, <2>1 DEF Entered, Told
  <2>3. Awaited(s)' /\ Leaving(s)'
    BY <1>11, <2>1 DEF Awaited, Leaving
  <2> QED BY <2>2, <2>3 DEF OneSidecar
<1> QED BY <1>1, <1>2, <1>8, <1>9, <1>10, <1>12, <1>14, ShapeGoes DEF Supervised, Typed

-----------------------------------------------------------------------------
(* The runtime. *)

LEMMA InitSupervised == Init => Supervised
<1> SUFFICES ASSUME Init PROVE Supervised
  OBVIOUS
<1>1. PICK left : SidecarsInit(left) /\ left \in LaunchOrNone
  BY RuntimeAssumption DEF Init, LaunchOrNone
<1>2. /\ rows = [s \in Names |-> IF left = NoLaunch THEN NoRow ELSE Row("ready", 0, left, 0, 0)]
      /\ children = <<>> /\ running = [s \in Names |-> 0] /\ shutting = FALSE
      /\ calls = [c \in All |-> NoCall] /\ muddled = {}
  BY <1>1 DEF SidecarsInit
<1>3. Len(children) = 0 /\ DOMAIN children = {} /\ children \in Seq(Kids)
  BY <1>2
<1>4. KidsOK
  <2>1. Len(children) <= MaxStarts
    BY ONLY <1>3, SidecarsAssumption
  <2> QED BY <1>3, <2>1 DEF KidsOK
<1>5. RowsOK
  <2>1. PICK row : row = IF left = NoLaunch THEN NoRow ELSE Row("ready", 0, left, 0, 0)
    OBVIOUS
  <2>2. row \in Rows /\ row.inst = 0
    <3>1. PICK none \in LaunchOrNone : none = NoLaunch
      BY DEF LaunchOrNone
    <3>2. PICK nought \in Nat : nought = 0
      OBVIOUS
    <3>3. "absent" \in Statuses \cup {"absent"} /\ "ready" \in Statuses \cup {"absent"}
      BY DEF Statuses
    <3>4. RowHas(Row("absent", nought, none, nought, nought), "absent", nought, nought)
          /\ RowHas(Row("ready", nought, left, nought, nought), "ready", nought, nought)
      BY ONLY <1>1, <3>3, RowIs, nought \in Nat, none \in LaunchOrNone
    <3> QED BY ONLY <2>1, <3>1, <3>2, <3>4 DEF NoRow, RowHas
  <2>3. rows = [s \in Names |-> row]
    BY <1>2, <2>1
  <2>4. RowFits(row, Len(children))
    BY ONLY <1>3, <2>2 DEF RowFits
  <2> QED BY <2>2, <2>3, <2>4 DEF RowsOK
<1>6. RunningOK
  BY <1>2, <1>3 DEF RunningOK
<1>7. \A c \in All : calls[c] = NoCall /\ CallFits(c, NoCall, Len(children)) /\ NoCall.at = "idle"
  BY <1>2, IdleFits
<1>8. CallsOK
  <2>1. calls \in [All -> CallRecords]
    BY <1>2, <1>7 DEF CallFits
  <2> QED BY <1>7, <2>1, WhoCalls DEF CallsOK
<1>9. ASSUME NEW s \in Names PROVE OneSidecar(s)
  <2>1. running[s] = 0 /\ calls[RecoverCall].at = "idle" /\ calls[ShutdownCall].at = "idle" /\ Living(s) = {}
    BY <1>2, <1>3, <1>7, WhoCalls DEF Living
  <2>2. Entered(s) /\ Told(s)
    BY <2>1 DEF Entered, Told
  <2>3. Awaited(s) /\ Leaving(s)
    BY <1>7, <2>1 DEF Awaited, Leaving
  <2> QED BY <2>2, <2>3 DEF OneSidecar
<1> QED BY <1>2, <1>4, <1>5, <1>6, <1>8, <1>9 DEF Supervised, Shape

LEMMA CallersAsk == NextCaller \subseteq Callers
<1>1. CASE Free = {}
  BY <1>1 DEF NextCaller
<1>2. CASE Free # {}
  <2>1. (CHOOSE c \in Free : TRUE) \in Free
    BY <1>2
  <2> QED BY <2>1 DEF NextCaller, Free
<1> QED BY <1>1, <1>2

\* What packages and children do.
LEMMA SidecarStepHolds ==
    ASSUME Supervised, SidecarStep
    PROVE  Supervised'
<1>1. ASSUME NEW c \in NextCaller, NEW s \in Names, Stop(c, s) PROVE Supervised'
  BY <1>1, CallersAsk, StopHolds
<1>2. ASSUME NEW c \in NextCaller, NEW s \in Names, NEW l \in Launches, Ensure(c, s, l) PROVE Supervised'
  BY <1>2, CallersAsk, EnsureHolds
<1>3. ASSUME NEW c \in All, CallStep(c) PROVE Supervised'
  BY <1>3, ReadyReturnsHolds, StopReturnsHolds, GraceEndsHolds, KillEndsHolds DEF CallStep
<1>4. ASSUME NEW k \in DOMAIN children, ChildStep(k) PROVE Supervised'
  BY <1>4, MarkReadyHolds, ReadinessTimeoutHolds, ExitsHolds DEF ChildStep
<1> QED BY <1>1, <1>2, <1>3, <1>4 DEF SidecarStep

LEMMA SupervisedStep == Supervised /\ [Next]_vars => Supervised'
<1> SUFFICES ASSUME Supervised, [Next]_vars PROVE Supervised'
  OBVIOUS
<1>1. CASE UNCHANGED sidecars
  BY <1>1 DEF sidecars, Supervised, Shape, KidsOK, RowsOK, RunningOK, CallsOK, OneSidecar, Entered,
              Told, Awaited, Leaving, Living, Busy
<1>2. CASE SidecarStep
  BY <1>2, SidecarStepHolds
<1>3. CASE StartRecovery
  BY <1>3, RecoverHolds DEF StartRecovery
<1>4. CASE RecoveryStep
  BY <1>4, RecoverNextHolds, RecoverAwaitedHolds DEF RecoveryStep
<1>5. CASE StopBegins
  BY <1>5, ShutdownHolds DEF StopBegins
<1>6. CASE ShutdownStep
  BY <1>6, ShutdownNextHolds DEF ShutdownStep
<1>7. CASE Crash
  BY <1>7, CrashHolds DEF Crash
<1>8. ASSUME \/ StartHosting \/ HostingFails \/ DrainPending \/ Wire \/ Up \/ Quiesce \/ StopAll
             \/ ProvidersDrained \/ DrainStep \/ Close \/ UNCHANGED vars
             \/ \E c \in Commands : Intent(c) \/ CommandStep(c) \/ TurnDropped(c)
      PROVE  UNCHANGED sidecars
  BY <1>8 DEF StartHosting, HostingFails, DrainPending, Wire, Up, Quiesce, StopAll, ProvidersDrained,
              DrainStep, Close, vars, Intent, CommandStep, TurnDropped, CommandStarts, TurnBegins,
              HookReplies, HookDrains, HookDrained, HookGivenUp, Unheard, EventStarts, Projects,
              EventDone, Posts, Posted, TurnEnds, TurnTimesOut
<1> QED BY <1>1, <1>2, <1>3, <1>4, <1>5, <1>6, <1>7, <1>8 DEF Next, StartStep, StopStep

\* When the runtime is up, recovery is through; and it stays so.
Unrecovered == Off \cup {"draining", "hooks", "recovering"}
Phases == Off \cup Stopping \cup {"draining", "hooks", "recovering", "up", "quiescing"}
Lifecycle ==
    /\ phase \in Phases /\ drains \in 0..4 /\ waits \subseteq Commands
    /\ phase \notin Unrecovered => Recovered

LEMMA RecoverKeeps ==
    ASSUME Shape, Recovered,
           \/ SidecarStep \/ Shutdown \/ ShutdownNext \/ calls' = calls
    PROVE  Recovered'
<1>1. calls \in [All -> CallRecords] /\ RecoverCall \in All
  BY WhoCalls DEF Shape, CallsOK
<1>2. SUFFICES calls'[RecoverCall] = calls[RecoverCall]
  BY DEF Recovered
<1>3. ASSUME NEW c \in All, c # RecoverCall, NEW call, calls' = [calls EXCEPT ![c] = call]
      PROVE  calls'[RecoverCall] = calls[RecoverCall]
  BY <1>1, <1>3
<1>4. ASSUME NEW c \in NextCaller, NEW s \in Names, Stop(c, s)
      PROVE  calls'[RecoverCall] = calls[RecoverCall]
  BY <1>3, <1>4, CallersAsk, WhoCalls DEF Stop, Signals
<1>5. ASSUME NEW c \in NextCaller, NEW s \in Names, NEW l \in Launches, Ensure(c, s, l)
      PROVE  calls'[RecoverCall] = calls[RecoverCall]
  BY <1>3, <1>5, CallersAsk, WhoCalls DEF Ensure, Signals, Starts, Awaits
<1>6. ASSUME NEW c \in All, CallStep(c)
      PROVE  calls'[RecoverCall] = calls[RecoverCall]
  <2>1. CASE ReadyReturns(c)
    BY <1>3, <2>1, WhoCalls DEF ReadyReturns
  <2>2. CASE StopReturns(c)
    <3>1. c # RecoverCall
      BY <2>2 DEF StopReturns, Recovered
    <3> QED BY <1>3, <2>2, <3>1 DEF StopReturns, Returns, Replaces, Starts
  <2>3. CASE GraceEnds(c)
    <3>1. c # RecoverCall
      BY <2>3 DEF GraceEnds, Recovered
    <3> QED BY <1>3, <2>3, <3>1 DEF GraceEnds
  <2>4. CASE KillEnds(c)
    <3>1. c # RecoverCall
      BY <2>4 DEF KillEnds, Recovered
    <3> QED BY <1>3, <2>4, <3>1 DEF KillEnds, Returns, Replaces, Starts
  <2> QED BY <1>6, <2>1, <2>2, <2>3, <2>4 DEF CallStep
<1>7. ASSUME NEW k \in DOMAIN children, ChildStep(k)
      PROVE  calls'[RecoverCall] = calls[RecoverCall]
  BY <1>7 DEF ChildStep, MarkReady, ReadinessTimeout, Exits
<1>8. CASE SidecarStep
  BY <1>4, <1>5, <1>6, <1>7, <1>8 DEF SidecarStep
<1>9. CASE Shutdown
  BY <1>1, <1>9, WhoCalls DEF Shutdown
<1>10. CASE ShutdownNext
  BY <1>1, <1>10, WhoCalls DEF ShutdownNext, Signals
<1> QED BY <1>8, <1>9, <1>10

LEMMA LifecycleStep == Shape /\ Lifecycle /\ [Next]_vars => Lifecycle'
<1> SUFFICES ASSUME Shape, Lifecycle, [Next]_vars PROVE Lifecycle'
  OBVIOUS
<1> USE DEF Unrecovered, Phases, Off, Stopping
<1>1. CASE phase' = phase /\ UNCHANGED draining /\ (phase \in Unrecovered \/ Recovered')
  BY <1>1 DEF Lifecycle, draining
<1>2. ASSUME \/ \E c \in Commands : Intent(c) \/ CommandStep(c) \/ TurnDropped(c)
             \/ DrainPending \/ UNCHANGED vars
      PROVE  phase' = phase /\ UNCHANGED draining /\ calls' = calls
  BY <1>2 DEF DrainPending, vars, Intent, CommandStep, TurnDropped, CommandStarts, TurnBegins,
              HookReplies, HookDrains, HookDrained, HookGivenUp, Unheard, EventStarts, Projects,
              EventDone, Posts, Posted, TurnEnds, TurnTimesOut, sidecars
<1>3. CASE SidecarStep \/ ShutdownStep
  <2>1. phase' = phase /\ UNCHANGED draining
    BY <1>3 DEF SidecarStep, ShutdownStep
  <2> QED BY <1>1, <1>3, <2>1, RecoverKeeps DEF ShutdownStep, Lifecycle
<1>4. CASE RecoveryStep
  BY <1>1, <1>4 DEF RecoveryStep
<1>5. CASE \/ StartHosting \/ HostingFails \/ Wire \/ StartRecovery \/ Close
  BY <1>5 DEF StartHosting, HostingFails, Wire, StartRecovery, Close, Starting, draining, Lifecycle
<1>6. CASE Up
  BY <1>6 DEF Up, Starting, draining, sidecars, Lifecycle, Recovered
<1>7. CASE Quiesce \/ StopAll
  BY <1>7 DEF Quiesce, StopAll, draining, sidecars, Lifecycle, Recovered
<1>8. CASE StopBegins
  <2>1. phase \in {"up", "quiescing"} /\ phase' = "sidecars" /\ UNCHANGED draining /\ Shutdown
    BY <1>8 DEF StopBegins
  <2>2. Recovered'
    BY <2>1, RecoverKeeps DEF Lifecycle
  <2> QED BY <2>1, <2>2 DEF Lifecycle, draining
<1>9. CASE ProvidersDrained
  BY <1>9 DEF ProvidersDrained, Drains, Underway, sidecars, Lifecycle, Recovered
<1>10. CASE DrainStep
  <2>1. phase = "queues" /\ phase' \in {"queues", "unhosting"} /\ Recovered'
    BY <1>10 DEF DrainStep, sidecars, Lifecycle, Recovered
  <2>2. drains' \in 0..4 /\ waits' \subseteq Commands
    <3>1. Len(QueueAt) = 4 /\ drains \in 0..4 /\ waits \subseteq Commands
      BY DEF QueueAt, Lifecycle
    <3> QED BY <1>10, <3>1 DEF DrainStep, Drains, NextQueue, Underway, draining
  <2> QED BY <2>1, <2>2 DEF Lifecycle
<1>11. CASE Crash
  BY <1>11 DEF Crash, Lifecycle
<1> QED BY <1>1, <1>2, <1>3, <1>4, <1>5, <1>6, <1>7, <1>8, <1>9, <1>10, <1>11, RecoverKeeps
        DEF Next, StartStep, StopStep, Lifecycle

\* The rows, the children and the calls about them, at every step of start and stop.
THEOREM SidecarsKept == Spec => [](Supervised /\ Lifecycle)
<1>1. Init => Supervised /\ Lifecycle
  BY InitSupervised DEF Init, Lifecycle, Phases, Unrecovered, Off
<1>2. (Supervised /\ Lifecycle) /\ [Next]_vars => (Supervised /\ Lifecycle)'
  BY SupervisedStep, LifecycleStep DEF Supervised
<1> QED BY <1>1, <1>2, PTL DEF Spec

\* Once recovery is through, the table tells which child of a sidecar runs and
\* that it is up; one child of it lives, but those that SIGKILL has not ended yet;
\* after the shutdown none does that was there before: for any number of sidecars,
\* of calls that overlap and of children, as long as no two calls want to start
\* the same sidecar.
THEOREM SidecarsRight == Spec => []SidecarsSound
<1>1. ASSUME IInv, Supervised, Lifecycle PROVE TypeOK
  <2>1. /\ \A q \in Queues, c \in Commands : st[q][c] \in {"none", "queued", "running", "done"}
        /\ \A c \in Commands : st["command"][c] = "done" <=> at[c] = "done" \/ c \in abandoned
        /\ \A c \in Commands : st["projection"][c] = "queued" => st["provider"][c] = "running"
    BY <1>1 DEF IInv, FlowType, JobStates, Jobs, JobOf
  <2>2. /\ phase \in Off \cup Stopping \cup {"draining", "hooks", "recovering", "up", "quiescing"}
        /\ drains \in 0..Len(QueueAt) /\ waits \subseteq Commands
    <3>1. Len(QueueAt) = 4
      BY DEF QueueAt
    <3> QED BY <1>1, <3>1 DEF Lifecycle, Phases
  <2>3. KidsOK /\ RowsOK /\ CallsOK /\ Shape
    BY <1>1 DEF Supervised, Shape
  <2>4. \A s \in Names : rows[s].status \in Statuses \cup {"absent"} /\ running[s] \in 0..Len(children)
    <3> SUFFICES ASSUME NEW s \in Names
                 PROVE  rows[s].status \in Statuses \cup {"absent"} /\ running[s] \in 0..Len(children)
      OBVIOUS
    <3>1. running[s] \in Nat /\ Len(children) \in Nat /\ running[s] <= Len(children)
      BY <2>3 DEF Shape, RunningOK, KidsOK
    <3>2. running[s] \in 0..Len(children)
      BY ONLY <3>1
    <3> QED BY <2>3, <3>2 DEF RowsOK, Rows
  <2>5. \A c \in All : calls[c].at \in {"idle", "ready", "term", "kill", "next", "failed"}
    BY <2>3 DEF CallsOK, CallRecords, Ats
  <2>6. Len(children) <= MaxStarts /\ \A k \in DOMAIN children : children[k].settled \/ children[k].ready # "ok"
    BY <2>3 DEF KidsOK, KidFits
  <2> QED BY <2>1, <2>2, <2>4, <2>5, <2>6 DEF TypeOK, SidecarsTypeOK
<1>2. ASSUME Supervised, Lifecycle PROVE SidecarsTold
  <2>1. \A s \in Names \ muddled : OneSidecar(s)
    BY <1>2 DEF Supervised
  <2>2. ASSUME phase \notin Unrecovered PROVE RowTells
    <3>1. calls[RecoverCall].at = "next" /\ Len(calls[RecoverCall].rest) = 0
      BY <1>2, <2>2 DEF Lifecycle, Recovered
    <3>2. \A i : i \notin 1..Len(calls[RecoverCall].rest)
      BY ONLY <3>1
    <3>3. ASSUME NEW s \in Names \ muddled, running[s] = 0 PROVE rows[s].status \notin {"starting", "ready"}
      BY <2>1, <3>1, <3>2, <3>3 DEF OneSidecar, Told
    <3>4. ASSUME NEW s \in Names \ muddled, running[s] # 0
          PROVE  \/ rows[s].child = running[s] /\ rows[s].status \in {"starting", "ready", "stopping"}
                 \/ rows[s].status = "failed" /\ \E k \in DOMAIN children :
                      children[k].again /\ children[k].inst = rows[s].inst
      BY <2>1, <3>4 DEF OneSidecar, Told
    <3> QED BY <3>3, <3>4 DEF RowTells
  <2>3. OneChild
    BY <2>1 DEF OneChild, OneSidecar, Entered
  <2>4. NoneLeft
    <3> SUFFICES ASSUME IsShutDown, NEW s \in Names \ muddled, NEW k \in Living(s)
                 PROVE  children[k].after \/ children[k].forced
      BY DEF NoneLeft
    <3>1. s \notin ToSet(calls[ShutdownCall].rest)
      BY DEF ToSet, IsShutDown
    <3> QED BY <2>1, <3>1 DEF OneSidecar, Leaving, IsShutDown
  <2> QED BY <2>2, <2>3, <2>4 DEF SidecarsTold, Unrecovered
<1> QED BY Invariance, SidecarsKept, <1>1, <1>2, PTL DEF SidecarsSound

=============================================================================
