----------------------- MODULE OrchestrationRequests -----------------------
(***************************************************************************)
(* The durable table of runtime orchestration requests: the operations a   *)
(* client of the Control API asks of the runtime (create or archive a      *)
(* session, post a message, reload, start and stop providers, ...).        *)
(*                                                                         *)
(* The Control API process inserts a row and polls it; a runtime worker    *)
(* process polls the table, claims pending rows, executes them and writes  *)
(* the outcome.  Workers crash, are restarted and, on a reload, overlap:   *)
(* the supervisor waits until the replacement is ready before it shuts     *)
(* the old worker down.  A worker here is one operating-system process.    *)
(*                                                                         *)
(* Each action is one SQL statement, or one stretch of JavaScript between  *)
(* two awaits that makes one.                                              *)
(***************************************************************************)
EXTENDS Naturals, FiniteSets

CONSTANTS
    Callers,     \* concurrent calls of runRuntimeRequest in the Control API
    Contents,    \* what distinguishes requests: type, target and payload
    Workers,     \* worker processes, each started once
    MaxRequests, \* bound on inserted rows
    MaxWindow,   \* bound on the dedupe window, one minute of wall clock each
    MaxLive,     \* workers alive at once: 1 for restarts alone, 2 for reloads too
    None         \* no row, no owner, no token

ASSUME CallersAssumption == None \notin Workers /\ IsFiniteSet(Workers)
ASSUME BoundsAssumption  == /\ MaxRequests \in Nat \ {0}
                            /\ MaxWindow \in Nat \ {0}
                            /\ MaxLive \in Nat \ {0}

Ids      == 1..MaxRequests     \* in order of creation
Statuses == {"pending", "running", "completed", "failed"}

VARIABLES
    rows,        \* id -> row of runtime_orchestration_requests, or None
    window,      \* the current minute
    waiting,     \* caller -> the id it polls, or None
    told,        \* <<id, status>> pairs that callers were given (history)
    state,       \* worker -> "new", "up", "stopping", "draining", "closed", "dead"
    recovered,   \* worker -> abandonedRunningRecovered
    listed,      \* worker -> the ids its running drain has yet to claim
    inFlight,    \* claims being executed: [worker, id, attempt, performed]
    forced,      \* workers whose last drain gave up waiting
    performed,   \* id -> how often its side effects have been made (history)
    usurped,     \* ids failed as abandoned while another worker executed them (history)
    late         \* ids claimed when another live worker had made its recovery (history)

vars == <<rows, window, waiting, told, state, recovered, listed, inFlight,
          forced, performed, usurped, late>>

history == <<usurped, late>>

Row == [content : Contents, window : 1..MaxWindow, status : Statuses,
        owner : Workers \cup {None}, attempt : 0..1, token : Workers \cup {None}]

ASSUME NoneAssumption == None \notin Row   \* None is no row

Execution == [worker : Workers, id : Ids, attempt : 0..1, performed : BOOLEAN]

TypeOK ==
    /\ rows \in [Ids -> Row \cup {None}]
    /\ window \in 1..MaxWindow
    /\ waiting \in [Callers -> Ids \cup {None}]
    /\ told \in SUBSET (Ids \X {"completed", "failed"})
    /\ state \in [Workers -> {"new", "up", "stopping", "draining", "closed", "dead"}]
    /\ recovered \in [Workers -> BOOLEAN]
    /\ listed \in [Workers -> SUBSET Ids]
    /\ inFlight \in SUBSET Execution
    /\ forced \in SUBSET Workers
    /\ performed \in [Ids -> Nat]
    /\ usurped \subseteq Ids /\ late \subseteq Ids

Init ==
    /\ rows = [r \in Ids |-> None]
    /\ window = 1
    /\ waiting = [c \in Callers |-> None]
    /\ told = {}
    /\ state = [w \in Workers |-> "new"]
    /\ recovered = [w \in Workers |-> FALSE]
    /\ listed = [w \in Workers |-> {}]
    /\ inFlight = {}
    /\ forced = {}
    /\ performed = [r \in Ids |-> 0]
    /\ usurped = {} /\ late = {}

-----------------------------------------------------------------------------
(* The table. *)

Used == {r \in Ids : rows[r] # None}
Open == {r \in Used : rows[r].status \in {"pending", "running"}}

\* Faulty variant: the claim takes any open row.
ClaimOpen(r) == r \in Open

Claimable(r) == r \in Used /\ rows[r].status = "pending"

\* Faulty variants: recovery takes what another worker owns whatever became of
\* it, or only what this process, new as it is, has claimed itself.
OwnedByOther(w, r) == r \in Used /\ rows[r].owner # w
OwnedHere(w, r)    == r \in Open /\ rows[r].owner = w

\* failAbandonedRunningOrchestrationRequests: which rows, and what becomes of one.
IsAbandoned(w, r) == r \in Used /\ rows[r].status = "running" /\ rows[r].token = None

Abandoned(w, r) == [rows[r] EXCEPT !.status = "failed", !.owner = w]

\* The row process writes: the claimed copy with an outcome.
Outcome(e, status) ==
    [rows[e.id] EXCEPT !.status = status, !.owner = e.worker, !.attempt = e.attempt,
                       !.token = IF status = "completed" THEN e.worker ELSE None]

-----------------------------------------------------------------------------
(* The Control API: enqueueOrchestrationRequest and waitForOrchestrationRequest. *)

SameKey(content) == {r \in Used : rows[r].content = content /\ rows[r].window = window}
Latest(content)  == {r \in SameKey(content) : \A q \in SameKey(content) : q <= r}

\* The row that answers for a new request: the latest of its dedupe key,
\* unless that one failed.
Reusable(content) == {r \in Latest(content) : rows[r].status # "failed"}

NewRow(content) == [content |-> content, window |-> window, status |-> "pending",
                    owner |-> None, attempt |-> 0, token |-> None]

\* Joined to an earlier request of the same dedupe key.
CallJoins(c, content) ==
    /\ waiting[c] = None
    /\ \E r \in Reusable(content) : waiting' = [waiting EXCEPT ![c] = r]
    /\ UNCHANGED <<rows, window, told, state, recovered, listed, inFlight, forced, performed, history>>

CallInserts(c, content) ==
    /\ waiting[c] = None
    /\ Reusable(content) = {}
    /\ \E r \in Ids \ Used :
         /\ \A q \in Ids \ Used : r <= q
         /\ rows' = [rows EXCEPT ![r] = NewRow(content)]
         /\ waiting' = [waiting EXCEPT ![c] = r]
    /\ UNCHANGED <<window, told, state, recovered, listed, inFlight, forced, performed, history>>

\* The poll of a caller finds its request completed or failed.
CallReturns(c) ==
    /\ waiting[c] \in Used \ Open
    /\ told' = told \cup {<<waiting[c], rows[waiting[c]].status>>}
    /\ waiting' = [waiting EXCEPT ![c] = None]
    /\ UNCHANGED <<rows, window, state, recovered, listed, inFlight, forced, performed, history>>

\* The caller gives up; the request stays in the table.
CallTimesOut(c) ==
    /\ waiting[c] \in Open
    /\ waiting' = [waiting EXCEPT ![c] = None]
    /\ UNCHANGED <<rows, window, told, state, recovered, listed, inFlight, forced, performed, history>>

NextMinute ==
    /\ window < MaxWindow
    /\ window' = window + 1
    /\ UNCHANGED <<rows, waiting, told, state, recovered, listed, inFlight, forced, performed, history>>

-----------------------------------------------------------------------------
(* Worker processes. *)

Live == {w \in Workers : state[w] \in {"up", "stopping", "draining", "closed"}}

\* The JavaScript of a worker is free to run something else: no drain is half
\* way through its list.
Idle(w) == listed[w] = {}

\* The supervisor forks a worker when it has none, and on a reload while the
\* old one is still up.
StartWorker(w) ==
    /\ state[w] = "new"
    /\ Cardinality(Live) < MaxLive
    /\ state' = [state EXCEPT ![w] = "up"]
    /\ UNCHANGED <<rows, window, waiting, told, recovered, listed, inFlight, forced, performed, history>>

Mine(w) == {e \in inFlight : e.worker = w}

MustRecover(w) == ~recovered[w]

\* The first drain of a worker fails every row that is running.
Recover(w) ==
    /\ state[w] \in {"up", "stopping"}
    /\ MustRecover(w)
    /\ recovered' = [recovered EXCEPT ![w] = TRUE]
    /\ rows' = [r \in Ids |-> IF IsAbandoned(w, r) THEN Abandoned(w, r) ELSE rows[r]]
    /\ usurped' = usurped \cup {r \in {e.id : e \in inFlight \ Mine(w)} : IsAbandoned(w, r)}
    /\ UNCHANGED <<window, waiting, told, state, listed, inFlight, forced, performed, late>>

\* A tick of the poller: list the open rows that are not in flight here.
Poll(w) ==
    /\ state[w] = "up"
    /\ recovered[w] /\ Idle(w)
    /\ listed' = [listed EXCEPT ![w] = Open \ {e.id : e \in Mine(w)}]
    /\ UNCHANGED <<rows, window, waiting, told, state, recovered, inFlight, forced, performed, history>>

\* The row as the conditional UPDATE of claimPendingOrchestrationRequest leaves it.
Taken(w, r) == [rows[r] EXCEPT !.status = "running", !.owner = w,
                               !.attempt = rows[r].attempt + 1, !.token = None]

\* The conditional UPDATE of one listed row, and its execution put in flight.
Claim(w, r) ==
    /\ r \in listed[w]
    /\ listed' = [listed EXCEPT ![w] = @ \ {r}]
    /\ IF Claimable(r)
       THEN /\ rows' = [rows EXCEPT ![r] = Taken(w, r)]
            /\ inFlight' = inFlight \cup {[worker |-> w, id |-> r, performed |-> FALSE,
                                           attempt |-> rows[r].attempt + 1]}
            /\ late' = IF \E v \in Live \ {w} : recovered[v] THEN late \cup {r} ELSE late
       ELSE UNCHANGED <<rows, inFlight, late>>
    /\ UNCHANGED <<window, waiting, told, state, recovered, forced, performed, usurped>>

\* The side effects of a claimed request are made.
Perform(e) ==
    /\ state[e.worker] # "dead" /\ Idle(e.worker)
    /\ ~e.performed
    /\ inFlight' = (inFlight \ {e}) \cup {[e EXCEPT !.performed = TRUE]}
    /\ performed' = [performed EXCEPT ![e.id] = @ + 1]
    /\ UNCHANGED <<rows, window, waiting, told, state, recovered, listed, forced, history>>

\* process writes the outcome; an execution may fail before or after its side
\* effects.  Once the store is closed the write throws and leaves no trace.
Settle(e, status) ==
    /\ state[e.worker] # "dead" /\ Idle(e.worker)
    /\ status = "completed" => e.performed
    /\ inFlight' = inFlight \ {e}
    /\ rows' = IF state[e.worker] = "closed" THEN rows
               ELSE [rows EXCEPT ![e.id] = Outcome(e, status)]
    /\ UNCHANGED <<window, waiting, told, state, recovered, listed, forced, performed, history>>

\* Another worker is left to take over (bound: the last one is never stopped).
Successor(w) == \E v \in Workers \ {w} : state[v] \in {"new", "up"}

\* stop(): the poller is stopped first, and the last drain comes after the
\* other queues have drained.
StopPoller(w) ==
    /\ state[w] = "up" /\ Idle(w)
    /\ Successor(w)
    /\ state' = [state EXCEPT ![w] = "stopping"]
    /\ UNCHANGED <<rows, window, waiting, told, recovered, listed, inFlight, forced, performed, history>>

\* The last drain recovers, lists and claims like any other, and then waits.
LastDrain(w) ==
    /\ state[w] = "stopping"
    /\ recovered[w]
    /\ state' = [state EXCEPT ![w] = "draining"]
    /\ listed' = [listed EXCEPT ![w] = Open \ {e.id : e \in Mine(w)}]
    /\ UNCHANGED <<rows, window, waiting, told, recovered, inFlight, forced, performed, history>>

\* Faulty variant: the last drain does not wait for what is in flight.
CloseAtOnce(w) == TRUE

\* waitForInFlight: nothing of this worker is in flight.
Drained(w) == Mine(w) = {}

Close(w) ==
    /\ state[w] = "draining" /\ Idle(w)
    /\ Drained(w)
    /\ state' = [state EXCEPT ![w] = "closed"]
    /\ UNCHANGED <<rows, window, waiting, told, recovered, listed, inFlight, forced, performed, history>>

\* The wait has lasted drainWaitTimeoutMs: signalForcedDrain, then the store closes.
CloseForced(w) ==
    /\ state[w] = "draining" /\ Idle(w)
    /\ ~Drained(w)
    /\ state' = [state EXCEPT ![w] = "closed"]
    /\ forced' = forced \cup {w}
    /\ UNCHANGED <<rows, window, waiting, told, recovered, listed, inFlight, performed, history>>

\* The process ends: after its stop, or killed at any moment.
Exit(w) ==
    /\ state[w] = "closed" \/ (w \in Live /\ Successor(w))
    /\ state' = [state EXCEPT ![w] = "dead"]
    /\ listed' = [listed EXCEPT ![w] = {}]
    /\ inFlight' = inFlight \ Mine(w)
    /\ UNCHANGED <<rows, window, waiting, told, recovered, forced, performed, history>>

-----------------------------------------------------------------------------
Next ==
    \/ \E c \in Callers : \/ \E content \in Contents : CallJoins(c, content) \/ CallInserts(c, content)
                          \/ CallReturns(c) \/ CallTimesOut(c)
    \/ NextMinute
    \/ \E w \in Workers : \/ StartWorker(w) \/ Recover(w) \/ Poll(w)
                          \/ \E r \in Ids : Claim(w, r)
                          \/ StopPoller(w) \/ LastDrain(w) \/ Close(w) \/ CloseForced(w) \/ Exit(w)
    \/ \E e \in inFlight : \/ Perform(e)
                          \/ \E status \in {"completed", "failed"} : Settle(e, status)

\* The supervisor starts a worker whenever it has none, a started worker polls,
\* an execution ends (its effects have timeouts of their own; strongly fair, since
\* the event loop comes to it between two polls), and a stop that has begun goes
\* on.  Nothing obliges anybody to call, to stop or to crash.
Fairness ==
    /\ WF_vars(\E w \in Workers : Live = {} /\ StartWorker(w))
    /\ \A w \in Workers :
         /\ WF_vars(Recover(w)) /\ WF_vars(Poll(w))
         /\ WF_vars(\E r \in Ids : Claim(w, r))
         /\ SF_vars(\E e \in Mine(w) : \E status \in {"completed", "failed"} : Settle(e, status))
         /\ WF_vars(LastDrain(w)) /\ WF_vars(Close(w) \/ CloseForced(w))
         /\ WF_vars(state[w] = "closed" /\ Exit(w))

Spec == Init /\ [][Next]_vars
FairSpec == Spec /\ Fairness

-----------------------------------------------------------------------------
(* Safety. *)

\* What an API client was told about a request stays true of it, unless recovery
\* failed the request while its owner was alive.
AnswersHold == \A t \in told : t[1] \notin usurped => rows[t[1]].status = t[2]

\* Identical requests of one minute are done once: at most one of them ever
\* completes, however many clients ask and retry, with the same exception.
OneResultPerKey ==
    \A q, r \in Used \ usurped :
        /\ rows[q].status = "completed" /\ rows[r].status = "completed"
        /\ rows[q].content = rows[r].content /\ rows[q].window = rows[r].window
        => q = r

\* The side effects of a request are never made twice: not by two workers that
\* poll the same table during a reload, and not by the worker that finds the
\* request still running after a crash; nor those of identical requests.
ExecutedOnce ==
    /\ \A r \in Ids : performed[r] <= 1
    /\ OneResultPerKey

\* Nothing but that recovery takes a request from the worker that executes it:
\* it stands as running in the table, and as that worker's.
InFlightIsRunning ==
    \A e \in inFlight : e.id \notin usurped =>
        rows[e.id].status = "running" /\ rows[e.id].owner = e.worker

\* A stop that was not forced leaves no request of this worker running, so the
\* next worker has none of them to fail.
CleanStop ==
    \A w \in Workers : state[w] = "closed" /\ w \notin forced =>
        \A r \in Used : ~(rows[r].status = "running" /\ rows[r].owner = w)

\* Who owns a running row is right at every moment, of workers at work, stopping
\* and stopped; and every row is one the table can hold.
OwnersHold == TypeOK /\ InFlightIsRunning /\ CleanStop

(* Liveness. *)

\* A request does not stay open for ever, whatever crashes and stops happen
\* while it waits or runs; except that one claimed during an overlap, when the
\* other worker had made its one recovery, may be left running by a crash.
OpenSettles == \A r \in Ids : (r \in Open) ~> (r \notin Open \/ r \in late)
=============================================================================
