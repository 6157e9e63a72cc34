---------------------------- MODULE KeyedWorker ----------------------------
(***************************************************************************)
(* KeyedDrainableWorker (runtime/execution/drainableWorker.ts): the queue  *)
(* behind the runtime's provider, command, projection and transport        *)
(* queues.  Work pushed under one key runs one at a time in push order;    *)
(* work of different keys overlaps.  A job is one call of push; what the   *)
(* work does and whether it resolves or rejects is abstracted, because     *)
(* previous.then(work, work) continues the chain either way.               *)
(*                                                                         *)
(* Each action is one stretch of JavaScript that runs to completion.  The  *)
(* run promise settles in Finish; the cleanup of settled.finally is a later *)
(* microtask, so whoever awaits the run promise may push in between.       *)
(***************************************************************************)
EXTENDS Naturals, Sequences, FiniteSets

CONSTANTS
    Keys,              \* queue keys (thread, channel or session identifiers)
    Jobs,              \* calls of push
    KeyOf,             \* the key each call of push is made with
    Drains,            \* calls of drain
    NoJob,             \* no promise: the key has no tail
    MaxPendingPerKey,
    MaxPendingTotal

ASSUME KeysAssumption   == KeyOf \in [Jobs -> Keys]
ASSUME JobsAssumption   == IsFiniteSet(Jobs) /\ NoJob \notin Jobs
ASSUME LimitsAssumption == MaxPendingPerKey \in Nat /\ MaxPendingTotal \in Nat

VARIABLES
    tails,             \* key -> job whose settled promise is the tail, or NoJob
    pendingByKey,      \* key -> count (0 when the map has no entry)
    pendingTotal,
    enqueuedAtByKey,   \* key -> the jobs whose time stamps are listed, oldest first
    phase,             \* where each call of push is
    previous,          \* job -> the promise its work was chained on, or NoJob
    drain,             \* call of drain -> "idle", "waiting" or "returned"
    snapshot,          \* call of drain -> the tails it awaits
    accepted           \* call of drain -> the jobs still pending when it was made
                       \* (history: no action reads it)

vars == <<tails, pendingByKey, pendingTotal, enqueuedAtByKey, phase, previous,
          drain, snapshot, accepted>>

Phases == {"new", "rejected", "queued", "running", "finished", "done"}
Pending == {"queued", "running", "finished"}

PendingJobs    == {j \in Jobs : phase[j] \in Pending}
PendingOf(k)   == {j \in PendingJobs : KeyOf[j] = k}

TypeOK ==
    /\ tails \in [Keys -> Jobs \cup {NoJob}]
    /\ pendingByKey \in [Keys -> Nat]
    /\ pendingTotal \in Nat
    /\ enqueuedAtByKey \in [Keys -> Seq(Jobs)]
    /\ phase \in [Jobs -> Phases]
    /\ previous \in [Jobs -> Jobs \cup {NoJob}]
    /\ drain \in [Drains -> {"idle", "waiting", "returned"}]
    /\ snapshot \in [Drains -> SUBSET Jobs]
    /\ accepted \in [Drains -> SUBSET Jobs]

Init ==
    /\ tails = [k \in Keys |-> NoJob]
    /\ pendingByKey = [k \in Keys |-> 0]
    /\ pendingTotal = 0
    /\ enqueuedAtByKey = [k \in Keys |-> << >>]
    /\ phase = [j \in Jobs |-> "new"]
    /\ previous = [j \in Jobs |-> NoJob]
    /\ drain = [d \in Drains |-> "idle"]
    /\ snapshot = [d \in Drains |-> {}]
    /\ accepted = [d \in Drains |-> {}]

-----------------------------------------------------------------------------
AtLimit(k) == \/ pendingByKey[k] >= MaxPendingPerKey
              \/ pendingTotal >= MaxPendingTotal

\* push returns a rejected promise and changes nothing.
Reject(j) ==
    /\ phase[j] = "new"
    /\ AtLimit(KeyOf[j])
    /\ phase' = [phase EXCEPT ![j] = "rejected"]
    /\ UNCHANGED <<tails, pendingByKey, pendingTotal, enqueuedAtByKey, previous,
                   drain, snapshot, accepted>>

\* Faulty variant: the tail is replaced before it is read.
ChainedOnItself(j) == j

ChainedOn(j) == tails[KeyOf[j]]

\* push counts the work and chains it on the tail of its key.
Push(j) ==
    LET k == KeyOf[j] IN
    /\ phase[j] = "new"
    /\ ~AtLimit(k)
    /\ pendingByKey' = [pendingByKey EXCEPT ![k] = @ + 1]
    /\ enqueuedAtByKey' = [enqueuedAtByKey EXCEPT ![k] = Append(@, j)]
    /\ pendingTotal' = pendingTotal + 1
    /\ previous' = [previous EXCEPT ![j] = ChainedOn(j)]
    /\ tails' = [tails EXCEPT ![k] = j]
    /\ phase' = [phase EXCEPT ![j] = "queued"]
    /\ UNCHANGED <<drain, snapshot, accepted>>

\* Faulty variant: the work does not wait for the promise it is chained on.
NoWait(j) == TRUE

\* The work is called once the promise it is chained on has settled.  The
\* cleanup of that promise is its first reaction, registered by the push that
\* made it, so it has run by then.
PreviousSettled(j) == previous[j] \in {NoJob} \cup {i \in Jobs : phase[i] = "done"}

Start(j) ==
    /\ phase[j] = "queued"
    /\ PreviousSettled(j)
    /\ phase' = [phase EXCEPT ![j] = "running"]
    /\ UNCHANGED <<tails, pendingByKey, pendingTotal, enqueuedAtByKey, previous,
                   drain, snapshot, accepted>>

\* The run promise resolves or rejects; its awaiter may go on.
Finish(j) ==
    /\ phase[j] = "running"
    /\ phase' = [phase EXCEPT ![j] = "finished"]
    /\ UNCHANGED <<tails, pendingByKey, pendingTotal, enqueuedAtByKey, previous,
                   drain, snapshot, accepted>>

\* Faulty variants: the tail of a key goes with any of its jobs; the total loses
\* the whole count of the key.
DropTail(j) == NoJob
DropTotal(k) == pendingTotal - pendingByKey[k]

TailAfter(j)  == IF tails[KeyOf[j]] = j THEN NoJob ELSE tails[KeyOf[j]]
CountAfter(k) == IF pendingByKey[k] <= 1 THEN 0 ELSE pendingByKey[k] - 1
TotalAfter(k) == IF pendingTotal = 0 THEN 0 ELSE pendingTotal - 1

\* settled.finally: the counters go down, the oldest time stamp goes, and the
\* tail goes unless later work was chained on it.
Cleanup(j) ==
    LET k == KeyOf[j] IN
    /\ phase[j] = "finished"
    /\ pendingByKey' = [pendingByKey EXCEPT ![k] = CountAfter(k)]
    /\ enqueuedAtByKey' =
           [enqueuedAtByKey EXCEPT ![k] = IF @ = << >> THEN @ ELSE Tail(@)]
    /\ pendingTotal' = TotalAfter(k)
    /\ tails' = [tails EXCEPT ![k] = TailAfter(j)]
    /\ phase' = [phase EXCEPT ![j] = "done"]
    /\ UNCHANGED <<previous, drain, snapshot, accepted>>

\* drain awaits the tails of this moment, not those of work pushed later.
DrainCall(d) ==
    /\ drain[d] = "idle"
    /\ drain' = [drain EXCEPT ![d] = "waiting"]
    /\ snapshot' = [snapshot EXCEPT ![d] = {tails[k] : k \in Keys} \ {NoJob}]
    /\ accepted' = [accepted EXCEPT ![d] = PendingJobs]
    /\ UNCHANGED <<tails, pendingByKey, pendingTotal, enqueuedAtByKey, phase, previous>>

DrainReturn(d) ==
    /\ drain[d] = "waiting"
    /\ \A j \in snapshot[d] : phase[j] = "done"
    /\ drain' = [drain EXCEPT ![d] = "returned"]
    /\ UNCHANGED <<tails, pendingByKey, pendingTotal, enqueuedAtByKey, phase, previous,
                   snapshot, accepted>>

Next ==
    \/ \E j \in Jobs : Reject(j) \/ Push(j) \/ Start(j) \/ Finish(j) \/ Cleanup(j)
    \/ \E d \in Drains : DrainCall(d) \/ DrainReturn(d)

\* The event loop runs every microtask that is due, and work that was started
\* settles (each turn, gate and request the queues carry has a timeout).  No
\* caller is obliged to push or to drain.
Fairness ==
    /\ \A j \in Jobs : WF_vars(Start(j)) /\ WF_vars(Finish(j)) /\ WF_vars(Cleanup(j))
    /\ \A d \in Drains : WF_vars(DrainReturn(d))

Spec == Init /\ [][Next]_vars
FairSpec == Spec /\ Fairness

-----------------------------------------------------------------------------
(* Safety. *)

\* Work under one key never overlaps: the provider events of a thread and the
\* commands of a channel rely on it for every read-modify-write they make
\* across an await.
OneAtATime ==
    \A i, j \in Jobs :
        phase[i] = "running" /\ phase[j] = "running" /\ KeyOf[i] = KeyOf[j] => i = j

\* The counters that admission and getStats read never drift from the work
\* that is really pending, whatever the order of pushes and cleanups: drift
\* upwards would refuse work for ever, drift downwards would lift the limits.
ExactCounters ==
    /\ \A k \in Keys : pendingByKey[k] = Cardinality(PendingOf(k))
    /\ pendingTotal = Cardinality(PendingJobs)

\* A drain that returned has seen the end of every job that was pending when it
\* was called, although it awaits only one promise for each key.
DrainSeesAll ==
    \A d \in Drains : drain[d] = "returned" => \A j \in accepted[d] : phase[j] = "done"

(* Liveness. *)

\* Accepted work runs to its end, behind any number of failed predecessors; and
\* a drain returns even while other callers go on pushing.
AcceptedSettles ==
    /\ \A j \in Jobs : (phase[j] = "queued") ~> (phase[j] = "done")
    /\ \A d \in Drains : (drain[d] = "waiting") ~> (drain[d] = "returned")

-----------------------------------------------------------------------------
(* What the worker promises its users: a bounded first-in first-out executor
   for each key.  The time stamps are the backlog. *)

stage == [j \in Jobs |->
            CASE phase[j] = "queued" -> "waiting"
              [] phase[j] \in {"running", "finished"} -> "active"
              [] OTHER -> phase[j]]

Fifo == INSTANCE FifoExecutor WITH backlog <- enqueuedAtByKey, stage <- stage

\* Promise chains, tails and counters implement the first-in first-out executor.
ImplementsFifo == Fifo!Spec
=============================================================================
