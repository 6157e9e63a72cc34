----------------------------- MODULE TurnBroker -----------------------------
(***************************************************************************)
(* ProviderTurnBroker: runTurn sends a prompt to the provider and waits    *)
(* for the answer, which comes back as a stream of events.  The events of  *)
(* a thread are handled one at a time, by a queue of their own, so they    *)
(* interleave with runTurn at each of its awaits; in particular they may   *)
(* be handled before runTurn, resumed after sendTurn, registers the waiter *)
(* they are for.                                                           *)
(*                                                                         *)
(* The provider (a package outside the repository) gives every turn an id  *)
(* of its own: a turn stands for the call of runTurn, for its id and for   *)
(* the user who asked.  A call whose session has auto-start disabled       *)
(* returns at once and changes nothing, and is left out.                   *)
(***************************************************************************)
EXTENDS Naturals, Sequences, FiniteSets, SequencesExt

CONSTANTS
    Turns,      \* calls of runTurn
    Threads,    \* provider threads
    ThreadOf,   \* turn -> thread
    Attributed, \* turns whose author id holds no ':', so that it is recorded
    MaxSealed,  \* MAX_SEALED_TURN_KEYS
    MaxDeltas,  \* bound on the chunks of text of one turn
    MaxFaults,  \* bound on session failures, errors and archivings, of all threads
    None        \* no buffer, no requester, no failure, no completion

ASSUME ThreadsAssumption == /\ ThreadOf \in [Turns -> Threads] /\ IsFiniteSet(Turns)
                            /\ Attributed \subseteq Turns
ASSUME BoundsAssumption  == MaxSealed \in Nat \ {0} /\ MaxDeltas \in Nat /\ MaxFaults \in Nat

VARIABLES
    phase,     \* turn -> how far runTurn is, or how it ended
    reply,     \* turn -> the text it was answered with
    buffer,    \* turn -> turnBuffers: the chunks so far and the completion, or None
    sealed,    \* sealedTurnKeys and sealedTurnOrder
    requester, \* thread -> threadRequesters: whose requests the thread's are, or None
    failure,   \* thread -> threadFailures: for a reason, the calls then open; or None
    active,    \* thread -> whether the provider lists a session for it
    closing,   \* thread -> the turns of a session whose close is not handled yet, or None
    run,       \* turn -> the provider's side of it
    sent,      \* turn -> number of chunks handled
    stopping,  \* stoppingReason of the runtime is set
    faults     \* failures injected so far

vars == <<phase, reply, buffer, sealed, requester, failure, active, closing, run,
          sent, stopping, faults>>

Settled == {"replied", "failed", "aborted", "cut", "timedout", "unsent"}
Phases  == {"new", "starting", "ready", "sending", "waiting"} \cup Settled

Chunks(n) == UNION {[1..k -> 1..n] : k \in 0..n}

Buffer == [chunks : Chunks(MaxDeltas), completion : {None, "completed", "failed"}]

ASSUME NoneAssumption == /\ None \notin Turns \cup Buffer \cup {"completed", "failed"}
                         /\ \A S \in SUBSET Turns : None # S

TypeOK ==
    /\ phase \in [Turns -> Phases]
    /\ reply \in [Turns -> Chunks(MaxDeltas)]
    /\ buffer \in [Turns -> Buffer \cup {None}]
    /\ sealed \in [keys : SUBSET Turns, order : Seq(Turns)]
    /\ sealed.keys \subseteq ToSet(sealed.order) /\ Len(sealed.order) <= MaxSealed
    /\ requester \in [Threads -> Attributed \cup {None}]
    /\ failure \in [Threads -> (SUBSET Turns) \cup {None}]
    /\ active \in [Threads -> BOOLEAN]
    /\ closing \in [Threads -> (SUBSET Turns) \cup {None}]
    /\ run \in [Turns -> {"none", "running", "completed", "failed", "aborted", "lost"}]
    /\ sent \in [Turns -> 0..MaxDeltas]
    /\ stopping \in BOOLEAN
    /\ faults \in 0..MaxFaults

Init ==
    /\ phase = [t \in Turns |-> "new"]
    /\ reply = [t \in Turns |-> <<>>]
    /\ buffer = [t \in Turns |-> None]
    /\ sealed = [keys |-> {}, order |-> <<>>]
    /\ requester = [h \in Threads |-> None]
    /\ failure = [h \in Threads |-> None]
    /\ active = [h \in Threads |-> FALSE]
    /\ closing = [h \in Threads |-> None]
    /\ run = [t \in Turns |-> "none"]
    /\ sent = [t \in Turns |-> 0]
    /\ stopping = FALSE
    /\ faults = 0

-----------------------------------------------------------------------------
(* The bookkeeping. *)

Waiting(t) == phase[t] = "waiting"
HasOpenTurn(h) == \E t \in Turns : ThreadOf[t] = h /\ Waiting(t)
OpenOn(h) == {t \in Turns : ThreadOf[t] = h /\ phase[t] \notin Settled \cup {"new"}}

\* Faulty variants of the next: what was sealed does not matter; nothing is kept
\* for a turn that has no waiter yet.
TrackSealed(t, who)  == Waiting(t) \/ buffer[t] # None \/ who[ThreadOf[t]] # None
TrackWaiters(t, who) == t \notin sealed.keys /\ Waiting(t)

\* shouldTrackTurnEvent, where who is the requester of each thread.
ShouldTrack(t, who) ==
    /\ t \notin sealed.keys
    /\ Waiting(t) \/ buffer[t] # None \/ who[ThreadOf[t]] # None

Empty == [chunks |-> <<>>, completion |-> None]

\* getTurnBuffer
BufferOf(t) == IF buffer[t] # None THEN buffer[t] ELSE Empty

\* markTurnKeySealed
SealOne(s, t) ==
    LET order == Append(s.order, t) IN
    IF t \in s.keys THEN s
    ELSE IF Len(order) <= MaxSealed THEN [keys |-> s.keys \cup {t}, order |-> order]
    ELSE [keys |-> (s.keys \cup {t}) \ {Head(order)}, order |-> Tail(order)]

\* The keys of q, one after the other.
SealAll(s, q) ==
    LET after[i \in 0..Len(q)] == IF i = 0 THEN s ELSE SealOne(after[i - 1], q[i])
    IN  after[Len(q)]

\* clearThreadFailure, in ensureSession.
FailureCleared(h) == [failure EXCEPT ![h] = None]

RequesterDeleted(h) == [requester EXCEPT ![h] = None]

\* The call t ends, its buffer is dropped and its key sealed in s.
Settle(t, how, text, s) ==
    /\ phase' = [phase EXCEPT ![t] = how]
    /\ reply' = [reply EXCEPT ![t] = text]
    /\ buffer' = [buffer EXCEPT ![t] = None]
    /\ sealed' = SealOne(s, t)

\* flushTurnBuffer, when the waiter of t finds the complete buffer b.
Answer(t, b, s) ==
    IF b.completion = "completed" THEN Settle(t, "replied", b.chunks, s)
                                  ELSE Settle(t, "failed", <<>>, s)

\* rejectThread, of each thread in H: its waiters, in the order of the map.
RejectWaiters(H) ==
    LET cut == {t \in Turns : ThreadOf[t] \in H /\ Waiting(t)} IN
    /\ failure' = [h \in Threads |-> IF h \in H THEN OpenOn(h) ELSE failure[h]]
    /\ phase' = [t \in Turns |-> IF t \in cut THEN "cut" ELSE phase[t]]
    /\ buffer' = [t \in Turns |-> IF t \in cut THEN None ELSE buffer[t]]
    /\ \E q \in SetToSeqs(cut) : sealed' = SealAll(sealed, q)
    /\ UNCHANGED reply

-----------------------------------------------------------------------------
(* runTurn. *)

\* Up to the first await: the requester is recorded; ensureSession finds the
\* thread's session or asks the provider to start one.
Begin(t) ==
    LET h == ThreadOf[t] IN
    /\ phase[t] = "new"
    /\ requester' = [requester EXCEPT ![h] = IF t \in Attributed THEN t ELSE None]
    /\ IF active[h]
       THEN /\ phase' = [phase EXCEPT ![t] = "ready"]
            /\ failure' = FailureCleared(h)
       ELSE /\ phase' = [phase EXCEPT ![t] = "starting"]
            /\ UNCHANGED failure
    /\ UNCHANGED <<reply, buffer, sealed, active, closing, run, sent, stopping, faults>>

\* startOrResumeSession answered.
Started(t) ==
    /\ phase[t] = "starting"
    /\ phase' = [phase EXCEPT ![t] = "ready"]
    /\ active' = [active EXCEPT ![ThreadOf[t]] = TRUE]
    /\ failure' = FailureCleared(ThreadOf[t])
    /\ UNCHANGED <<reply, buffer, sealed, requester, closing, run, sent, stopping, faults>>

\* The guard allows the turn and the provider takes it; its answer, the turn's
\* id, is on its way back.
Send(t) ==
    /\ phase[t] = "ready"
    /\ active[ThreadOf[t]]
    /\ phase' = [phase EXCEPT ![t] = "sending"]
    /\ run' = [run EXCEPT ![t] = "running"]
    /\ UNCHANGED <<reply, buffer, sealed, requester, failure, active, closing, sent, stopping, faults>>

\* The session does not start, the guard denies, or the provider refuses.
Unsent(t) ==
    /\ phase[t] \in {"starting", "ready"}
    /\ phase' = [phase EXCEPT ![t] = "unsent"]
    /\ requester' = RequesterDeleted(ThreadOf[t])
    /\ UNCHANGED <<reply, buffer, sealed, failure, active, closing, run, sent, stopping, faults>>

\* Whether flushTurnBuffer finds a completion.
Complete(t) == buffer[t] # None /\ buffer[t].completion # None

\* runTurn resumes with the id: the key is unsealed, the waiter registered, and
\* rejected or answered at once if the thread failed or the turn completed.
Register(t) ==
    LET h        == ThreadOf[t]
        unsealed == [sealed EXCEPT !.keys = @ \ {t}]
    IN
    /\ phase[t] = "sending"
    /\ failure' = FailureCleared(h)
    /\ \/ failure[h] # None /\ Settle(t, "cut", <<>>, unsealed)
       \/ failure[h] = None /\ Complete(t) /\ Answer(t, buffer[t], unsealed)
       \/ /\ failure[h] = None /\ ~Complete(t)
          /\ phase' = [phase EXCEPT ![t] = "waiting"]
          /\ sealed' = unsealed
          /\ UNCHANGED <<reply, buffer>>
    /\ UNCHANGED <<requester, active, closing, run, sent, stopping, faults>>

\* Faulty variant: the first chunk clears the timer.
ExpiresIfSilent(t) == Waiting(t) /\ buffer[t] = None

Expires(t) == Waiting(t)

\* The timer of the waiter fires.  The interrupt it sends shows in the events.
Timeout(t) ==
    /\ Expires(t)
    /\ Settle(t, "timedout", <<>>, sealed)
    /\ requester' = RequesterDeleted(ThreadOf[t])
    /\ UNCHANGED <<failure, active, closing, run, sent, stopping, faults>>

-----------------------------------------------------------------------------
(* The provider's events, as the queue of the thread handles them. *)

\* The next event may be one of turn t: it runs and, if a session of the thread
\* has closed since, it ran in that one.
Streams(t) ==
    LET lost == closing[ThreadOf[t]] IN
    run[t] = "running" /\ (lost # None => t \in lost)

\* onContentDelta
ContentDelta(t) ==
    /\ Streams(t)
    /\ sent[t] < MaxDeltas
    /\ sent' = [sent EXCEPT ![t] = @ + 1]
    /\ buffer' = IF ShouldTrack(t, requester)
                 THEN [buffer EXCEPT ![t] =
                         [BufferOf(t) EXCEPT !.chunks = Append(@, sent[t] + 1)]]
                 ELSE buffer
    /\ UNCHANGED <<phase, reply, sealed, requester, failure, active, closing, run, stopping, faults>>

\* onTurnCompleted: the requester is forgotten before the event is looked at.
TurnCompleted(t, state) ==
    LET gone == RequesterDeleted(ThreadOf[t])
        b    == [BufferOf(t) EXCEPT !.completion = state]
    IN
    /\ Streams(t)
    /\ run' = [run EXCEPT ![t] = state]
    /\ requester' = gone
    /\ \/ Waiting(t) /\ ShouldTrack(t, gone) /\ Answer(t, b, sealed)
       \/ /\ ~Waiting(t) /\ ShouldTrack(t, gone)
          /\ buffer' = [buffer EXCEPT ![t] = b]
          /\ UNCHANGED <<phase, reply, sealed>>
       \/ ~ShouldTrack(t, gone) /\ UNCHANGED <<phase, reply, buffer, sealed>>
    /\ UNCHANGED <<failure, active, closing, sent, stopping, faults>>

\* onTurnAborted: rejectTurnWaiter seals the key, waiter or none.
TurnAborted(t) ==
    /\ Streams(t)
    /\ run' = [run EXCEPT ![t] = "aborted"]
    /\ requester' = RequesterDeleted(ThreadOf[t])
    /\ IF Waiting(t)
       THEN Settle(t, "aborted", <<>>, sealed)
       ELSE /\ buffer' = [buffer EXCEPT ![t] = None]
            /\ sealed' = SealOne(sealed, t)
            /\ UNCHANGED <<phase, reply>>
    /\ UNCHANGED <<failure, active, closing, sent, stopping, faults>>

\* A runtime.error of the thread: onProviderFailure.
RuntimeError(h) ==
    /\ active[h] /\ closing[h] = None
    /\ faults < MaxFaults
    /\ faults' = faults + 1
    /\ requester' = RequesterDeleted(h)
    /\ RejectWaiters({h})
    /\ UNCHANGED <<active, closing, run, sent, stopping>>

\* The provider's session of the thread dies under its turns.
SessionDies(h) ==
    /\ active[h] /\ closing[h] = None
    /\ faults < MaxFaults
    /\ faults' = faults + 1
    /\ active' = [active EXCEPT ![h] = FALSE]
    /\ closing' = [closing EXCEPT ![h] =
                     {t \in Turns : ThreadOf[t] = h /\ run[t] = "running"}]
    /\ UNCHANGED <<phase, reply, buffer, sealed, requester, failure, run, sent, stopping>>

\* session.state.changed to closed or error, which fails the thread if a turn of
\* it has a waiter and does nothing otherwise.
SessionClosed(h) ==
    /\ closing[h] # None
    /\ run' = [t \in Turns |-> IF t \in closing[h] /\ run[t] = "running" THEN "lost" ELSE run[t]]
    /\ closing' = [closing EXCEPT ![h] = None]
    /\ IF HasOpenTurn(h)
       THEN RejectWaiters({h}) /\ requester' = RequesterDeleted(h)
       ELSE UNCHANGED <<phase, reply, buffer, sealed, requester, failure>>
    /\ UNCHANGED <<active, sent, stopping, faults>>

\* The session is archived or deleted: the waiters of its thread are rejected.
\* The provider's session is stopped, and its close is an event still to come.
Archive(h) ==
    /\ closing[h] = None
    /\ faults < MaxFaults
    /\ faults' = faults + 1
    /\ active' = [active EXCEPT ![h] = FALSE]
    /\ closing' = [closing EXCEPT ![h] =
                     {t \in Turns : ThreadOf[t] = h /\ run[t] = "running"}]
    /\ RejectWaiters({h})
    /\ UNCHANGED <<requester, run, sent, stopping>>

\* The runtime stops: no thread has a requester, each is rejected.  That the
\* sessions are stopped comes after an await, and is SessionDies.
Stop ==
    /\ ~stopping
    /\ stopping' = TRUE
    /\ requester' = [h \in Threads |-> None]
    /\ RejectWaiters(Threads)
    /\ UNCHANGED <<active, closing, run, sent, faults>>

Resume(t) == Begin(t) \/ Started(t) \/ Send(t) \/ Unsent(t) \/ Register(t) \/ Timeout(t)

Handle(t) ==
    \/ ContentDelta(t)
    \/ \E state \in {"completed", "failed"} : TurnCompleted(t, state)
    \/ TurnAborted(t)

Next ==
    \/ \E t \in Turns : Resume(t) \/ Handle(t)
    \/ Stop
    \/ \E h \in Threads : RuntimeError(h) \/ SessionDies(h) \/ SessionClosed(h) \/ Archive(h)

Spec == Init /\ [][Next]_vars

\* The event loop resumes a call whose promise has settled, fires a timer that
\* is due, and works off the queue of events.  Whether the provider answers,
\* and what it does with a turn, is up to it.
Fairness ==
    /\ \A t \in Turns : WF_vars(Register(t)) /\ WF_vars(Timeout(t))
    /\ \A h \in Threads : WF_vars(SessionClosed(h))

FairSpec == Spec /\ Fairness

-----------------------------------------------------------------------------
(* What is to hold. *)

\* No other turn was ever asked of the thread of t.
Alone(t) == \A u \in Turns \ {t} : ThreadOf[u] = ThreadOf[t] => phase[u] = "new"

\* Nothing waits with a complete answer beside it: runTurn and the handlers miss
\* no flush, and flushThread, on quiescence, finds nothing left to do.
NothingToFlush ==
    \A t \in Turns : (Waiting(t) /\ buffer[t] # None) => buffer[t].completion = None

\* A reply misses no chunk in the middle or at the end: whatever other turns,
\* failures and timeouts do to the thread, once the broker keeps the text of a
\* turn it keeps all that follows.
ReplyIsTail ==
    \A t \in Turns : phase[t] = "replied" =>
        \E k \in 0..sent[t] : reply[t] = [i \in 1..(sent[t] - k) |-> k + i]

\* While the runtime is not stopping, a turn that has its thread to itself and
\* whose author is attributed is answered with the whole text, even if all of it
\* came before the waiter; and no other reply has a gap.
WholeReply ==
    /\ \A t \in Attributed : (phase[t] = "replied" /\ Alone(t) /\ ~stopping) =>
         reply[t] = [i \in 1..sent[t] |-> i]
    /\ ReplyIsTail

\* Such a turn, if it said anything, does not time out when it has completed:
\* its completion is kept until the waiter is there.  A turn that said nothing
\* may: onTurnCompleted forgets the thread's requester first and then keeps the
\* completion only for a turn that has a waiter, a buffer or a requester.
NoLateTimeout ==
    [][\A t \in Attributed :
         (/\ phase[t] # "timedout" /\ phase'[t] = "timedout"
          /\ Alone(t) /\ ~stopping /\ sent[t] > 0)
           => run[t] \notin {"completed", "failed"}]_vars

\* A call that has ended leaves no buffer, and late events of its turn start
\* none for as long as its key is remembered: the broker's memory does not grow
\* with what the provider still sends.
SettledLeavesNothing ==
    \A t \in Turns : (phase[t] \in Settled /\ (t \in sealed.keys \/ run[t] = "none")) =>
        buffer[t] = None

\* The failure a call would find when it registers was marked while that call
\* was under way: a failure left over from earlier turns rejects no later one.
FreshFailure ==
    \A t \in Turns :
        (phase[t] \in {"ready", "sending"} /\ failure[ThreadOf[t]] # None)
          => t \in failure[ThreadOf[t]]

\* Between any two events the broker's maps fit each other.
BrokerSound == TypeOK /\ NothingToFlush /\ SettledLeavesNothing /\ FreshFailure

\* A turn the provider has taken is answered or rejected, whatever is lost; and
\* by a timeout only when nothing else is left.
TurnSettles ==
    /\ \A t \in Turns : phase[t] = "sending" ~> phase[t] \in Settled
    /\ NoLateTimeout
=============================================================================
