---------------------------- MODULE EventPipeline ----------------------------
(***************************************************************************)
(* What becomes of a provider's events (ProviderEventPipeline, ingestion,  *)
(* runtimeDomain, RuntimeProjectionService, OrchestrationEngine): an event *)
(* is logged, folded into the row of its session, turned into domain       *)
(* events; each of these is logged, folded into the receipt of the thread  *)
(* and shown as an activity; in the end the event is marked as processed.  *)
(* The handler awaits plugin hooks, the provider and the projection queue, *)
(* the database has a transaction per statement, and the process may end   *)
(* at any of these awaits: after the restart the provider may deliver      *)
(* again what was not marked.                                              *)
(*                                                                         *)
(* One thread: its events are handled one at a time.  The answers people   *)
(* give to requests are the subject of PendingRequests, the waiters of     *)
(* turns the subject of TurnBroker.                                        *)
(***************************************************************************)
EXTENDS Naturals, Sequences, SequencesExt

CONSTANTS
  Requests,   \* approvals the provider may ask for
  NoRequest,
  MaxEvents,  \* bound on events the provider emits
  Budgets     \* bounds on turns, questions, usage reports, items, crashes and postings
              \* that fail: the scenarios

Bounded == {"turns", "asks", "usages", "items", "crashes", "failures"}
ASSUME EventBounds == /\ MaxEvents \in Nat /\ NoRequest \notin Requests
                      /\ Budgets \subseteq [Bounded -> Nat]

VARIABLES
  emitted,    \* the provider's events; an event's identifier is its index
  turn,       \* TRUE while a turn runs at the provider
  asked,      \* requests the provider waits for
  runtime,    \* "up", "down", or "recovering" (before reconcileRecoveredState)
  queue,      \* identifiers pushed to the provider queue, the first being handled
  work,       \* [at, rest]: the await at which the handler stands, the domain events left
  logged, processed,   \* runtime_events, provider_event_processing
  session,    \* [status, turn]: the columns of the session that events write
  receipt,    \* the thread's row of runtime_receipts
  rows,       \* request -> its row of pending_runtime_requests
  domain,     \* <<event, ordinal, request row>>: domain_events
  shown,      \* runtime_activities, as <<event, ordinal>>
  found,      \* the row that project returned, NoRow for none (memory)
  requester,  \* TRUE: the thread's requester is known (memory)
  latch,      \* the thread is in compactingThreads (memory)
  compacting, \* compactions the provider was asked for and has not confirmed
  budget,     \* what is left of the scenario
  cut,        \* history: events whose handling a crash or a conflict ended
  behind,     \* history: events left unmarked while the handler went on to later ones
  lapsed,     \* history: latches released with the provider still at work
  stranded    \* history: at a crash a turn was running or a request open

durable == <<logged, processed, session, receipt, rows, domain, shown>>
memory  == <<queue, work, found, requester, latch>>
outside == <<emitted, turn, asked, compacting>>
history == <<cut, behind, lapsed, stranded>>
vars == <<durable, memory, outside, runtime, budget, history>>

Ids   == 1..MaxEvents
Ends  == {"completed", "failed", "interrupted", "cancelled"}
Event == [type : {"turn.started", "turn.aborted", "runtime.error", "closed", "usage",
                  "compacted", "item"}, arg : {NoRequest}]
         \cup [type : {"turn.completed"}, arg : Ends]
         \cup [type : {"request.opened", "request.resolved"}, arg : Requests]

States  == Ends \cup {"idle", "running", "waiting"}
Quiet   == Ends \cup {"idle"}        \* isQuiesced
NoRow   == [status |-> "absent", message |-> FALSE, requester |-> FALSE]
Idle    == [at |-> "idle", rest |-> <<>>]

Init ==
  /\ emitted = <<>> /\ turn = FALSE /\ asked = {} /\ compacting = 0
  /\ runtime = "up" /\ queue = <<>> /\ work = Idle
  /\ logged = {} /\ processed = {}
  /\ session = [status |-> "ready", turn |-> FALSE]
  /\ receipt = [state |-> "idle", turn |-> FALSE, request |-> NoRequest]
  /\ rows = [r \in Requests |-> NoRow]
  /\ domain = {} /\ shown = <<>> /\ found = NoRow /\ requester = FALSE /\ latch = FALSE
  /\ budget \in Budgets /\ cut = {} /\ behind = {} /\ lapsed = 0 /\ stranded = FALSE

-----------------------------------------------------------------------------
(* The provider, as far as the runtime sees it. *)

\* The listener of start: one push per event, under the thread's key.
Emit(type, arg) ==
  /\ runtime = "up" /\ Len(emitted) < MaxEvents
  /\ emitted' = Append(emitted, [type |-> type, arg |-> arg])
  /\ queue' = Append(queue, Len(emitted'))

Spend(what) == budget[what] > 0 /\ budget' = [budget EXCEPT ![what] = @ - 1]
Unmoved == UNCHANGED <<durable, work, found, latch, runtime, cut, behind, lapsed>>

\* runTurn has recorded who asked before the provider begins.
TurnBegins ==
  /\ ~turn /\ Spend("turns") /\ Emit("turn.started", NoRequest)
  /\ turn' = TRUE /\ requester' = TRUE /\ stranded' = FALSE
  /\ UNCHANGED <<asked, compacting>> /\ Unmoved

\* A request has an identifier of its own: it is asked once.
Asks(r) ==
  /\ turn /\ [type |-> "request.opened", arg |-> r] \notin ToSet(emitted) /\ Spend("asks")
  /\ Emit("request.opened", r)
  /\ asked' = asked \cup {r}
  /\ UNCHANGED <<turn, compacting, requester, stranded>> /\ Unmoved

IsAnswered(r) ==
  /\ r \in asked /\ Emit("request.resolved", r)
  /\ asked' = asked \ {r}
  /\ UNCHANGED <<turn, compacting, requester, stranded, budget>> /\ Unmoved

\* A turn that waits for nothing is completed; any turn may end otherwise, or
\* with the provider's session.
TurnEnds ==
  /\ turn
  /\ \/ asked = {} /\ Emit("turn.completed", "completed")
     \/ \E how \in Ends \ {"completed"} : Emit("turn.completed", how)
     \/ \E type \in {"turn.aborted", "runtime.error", "closed"} : Emit(type, NoRequest)
  /\ turn' = FALSE /\ asked' = {} /\ requester' = FALSE
  /\ UNCHANGED <<compacting, stranded, budget>> /\ Unmoved

Tells ==
  /\ \/ Spend("usages") /\ Emit("usage", NoRequest)
     \/ Spend("items") /\ Emit("item", NoRequest)
  /\ UNCHANGED <<turn, asked, compacting, requester, stranded>> /\ Unmoved

Compacted ==
  /\ compacting > 0 /\ Emit("compacted", NoRequest)
  /\ compacting' = compacting - 1
  /\ UNCHANGED <<turn, asked, requester, stranded, budget>> /\ Unmoved

-----------------------------------------------------------------------------
(* ingestProviderEvent and the compaction policy. *)

Ingested(e) ==
  [status |-> CASE e.type = "closed" -> "closed"
                [] e.type = "turn.started" -> "running"
                [] e.type = "turn.completed" -> IF e.arg = "failed" THEN "error" ELSE "ready"
                [] e.type = "turn.aborted" -> "error"
                [] OTHER -> session.status,
   turn   |-> \/ e.type = "turn.started"
              \/ session.turn /\ e.type \notin {"turn.completed", "turn.aborted"}]

Compacts(e, row) ==
  e.type = "usage" /\ ~latch /\ ~row.turn /\ row.status \notin {"running", "connecting"}

Processed(id) == processed \cup {id}

\* The latch names the thread, not the compaction: what releases it may be a
\* timer, an error, or the report of an earlier one.
Lapses == IF latch /\ compacting > 0 THEN lapsed + 1 ELSE lapsed

\* An event that is logged and processed is dropped; else it is logged, the
\* session is written, and the handler goes on to its first await.
Skips(id) == id \in logged /\ id \in processed
Skip ==
  /\ runtime = "up" /\ queue # <<>> /\ work = Idle /\ Skips(Head(queue))
  /\ queue' = Tail(queue)
  /\ UNCHANGED <<durable, work, found, requester, latch, outside, runtime, budget, history>>

Take ==
  /\ runtime = "up" /\ queue # <<>> /\ work = Idle /\ ~Skips(Head(queue))
  /\ \E e \in {emitted[Head(queue)]}, row \in {Ingested(emitted[Head(queue)])} :
       /\ logged' = logged \cup {Head(queue)}
       /\ session' = row
       /\ work' = [at |-> IF Compacts(e, row) THEN "compacting" ELSE "hook", rest |-> <<>>]
       /\ latch' = (Compacts(e, row) \/ (latch /\ e.type # "compacted"))
       /\ compacting' = IF Compacts(e, row) THEN compacting + 1 ELSE compacting
       /\ lapsed' = IF e.type = "compacted" THEN Lapses ELSE lapsed
  /\ UNCHANGED <<queue, found, requester, processed, receipt, rows, domain, shown, emitted, turn,
                 asked, runtime, budget, cut, behind, stranded>>

\* compactThread returns or is refused.
CompactionAsked(accepted) ==
  /\ runtime = "up" /\ work.at = "compacting"
  /\ work' = [work EXCEPT !.at = "hook"]
  /\ latch' = (latch /\ accepted)
  /\ compacting' = IF accepted \/ compacting = 0 THEN compacting ELSE compacting - 1
  /\ UNCHANGED <<durable, queue, found, requester, emitted, turn, asked, runtime, budget, history>>

ForgottenTimeout == FALSE /\ UNCHANGED vars   \* mutant: no timer is set
LatchTimeout ==
  /\ runtime = "up" /\ latch /\ latch' = FALSE
  /\ lapsed' = Lapses
  /\ UNCHANGED <<durable, queue, work, found, requester, outside, runtime, budget, cut, behind,
                 stranded>>

-----------------------------------------------------------------------------
(* Domain events. *)

Active == session.turn \/ receipt.turn \/ receipt.state \in {"running", "waiting"}

\* domainEventsFromProviderEvent, where row is what project returned for a
\* request.  A domain event carries its ordinal and what the receipt reads of it.
D(k, type, arg)   == [k |-> k, type |-> type, arg |-> arg, row |-> NoRow]
R(type, r, row)   == [k |-> 1, type |-> type, arg |-> r, row |-> row]
DomainEvents(e, row) ==
  CASE e.type = "turn.started" -> <<D(1, "turn.started", NoRequest), D(2, "runtime.busy", "running")>>
    [] e.type = "request.opened" ->
         IF row = NoRow THEN <<>>
         ELSE <<R("request.opened", e.arg, row), D(2, "turn.waiting", e.arg), D(3, "runtime.waiting", "waiting")>>
    [] e.type = "request.resolved" ->
         IF row = NoRow THEN <<>>
         ELSE <<R("request.resolved", e.arg, row), D(2, "runtime.busy", "running")>>
    [] e.type = "turn.completed" ->
         <<D(1, "turn.ended", e.arg),
           IF e.arg = "failed" THEN D(2, "runtime.error", NoRequest) ELSE D(2, "runtime.idle", NoRequest)>>
    [] e.type = "turn.aborted" -> <<D(1, "turn.ended", "interrupted"), D(2, "runtime.error", NoRequest)>>
    [] e.type = "closed" -> IF Active THEN <<D(1, "provider.closed", NoRequest)>> ELSE <<>>
    [] e.type = "compacted" -> <<D(1, "thread.compacted", NoRequest)>>
    [] OTHER -> <<D(1, e.type, NoRequest)>>

\* ingestDomainEvent: the receipt after a domain event.
Receipt(state, running, request) == [state |-> state, turn |-> running, request |-> request]
KeepsReceipt(d) == receipt   \* mutant: a closed session leaves the receipt
ClosedReceipt(d) == IF Active THEN Receipt("interrupted", FALSE, NoRequest) ELSE receipt
ReceiptAfter(d) ==
  CASE d.type = "turn.started"    -> Receipt("running", TRUE, NoRequest)
    [] d.type = "turn.waiting"    -> Receipt("waiting", receipt.turn, d.arg)
    [] d.type = "turn.ended"      -> Receipt(d.arg, FALSE, NoRequest)
    [] d.type = "runtime.idle"    -> Receipt("idle", FALSE, NoRequest)
    [] d.type = "runtime.busy"    -> Receipt("running", receipt.turn, NoRequest)
    [] d.type = "runtime.waiting" -> Receipt("waiting", receipt.turn, receipt.request)
    [] d.type = "runtime.error"   -> Receipt("failed", FALSE, NoRequest)
    [] d.type = "provider.closed" -> ClosedReceipt(d)
    [] OTHER -> receipt

\* appendDomainEvent: inserted, the same again, or the same identifier with
\* other content, which throws.  Of the contents only a request's row may differ.
Mine(d)      == {x \in domain : x.event = Head(queue) /\ x.k = d.k}
Conflicts(d) == \E x \in Mine(d) : x.row # d.row
AlwaysNew(d) == TRUE   \* mutant: the answer of appendDomainEvent is not looked at
IsNew(d)     == Mine(d) = {}

\* The domain events of rest that are in the log are passed over.
FirstOpen(rest) == SelectInSeq(rest, LAMBDA d : IsNew(d) \/ Conflicts(d))
Left(rest) == IF FirstOpen(rest) = 0 THEN <<>> ELSE SubSeq(rest, FirstOpen(rest), Len(rest))

\* The handler is through: the event is marked.
Finish ==
  /\ processed' = Processed(Head(queue))
  /\ queue' = Tail(queue) /\ work' = Idle
  /\ UNCHANGED <<receipt, domain, cut, behind>>

\* RuntimeEventIntegrityError ends the handler; the event stays unmarked.
Abandon ==
  /\ queue' = Tail(queue) /\ work' = Idle
  /\ cut' = cut \cup {Head(queue)} /\ behind' = behind \cup {Head(queue)}
  /\ UNCHANGED <<processed, receipt, domain>>

Record(rest) ==
  /\ domain' = domain \cup {[event |-> Head(queue), k |-> Head(rest).k, row |-> Head(rest).row]}
  /\ receipt' = ReceiptAfter(Head(rest))
  /\ work' = [at |-> "receipt", rest |-> rest]
  /\ UNCHANGED <<queue, processed, cut, behind>>

\* handleDomainEvent up to its first await, for the first event that needs it.
NextDomainEvent(rest) ==
  \/ rest = <<>> /\ Finish
  \/ rest # <<>> /\ Record(rest)

\* ProviderRequestProjector.project: the row it writes and returns, if any.  A
\* new row has no message, and is posted; a row with a message is returned as it is.
OpenRow == [status |-> "open", message |-> FALSE, requester |-> requester]
Posts(e) == /\ e.type = "request.opened"
            /\ \/ rows[e.arg].status = "absent"
               \/ rows[e.arg].status = "open" /\ ~rows[e.arg].message
Project(e) ==
  CASE Posts(e) -> OpenRow
    [] e.type = "request.opened" /\ ~Posts(e) /\ rows[e.arg].status = "open" -> rows[e.arg]
    [] e.type = "request.resolved" /\ rows[e.arg].status # "absent" ->
         [rows[e.arg] EXCEPT !.status = "resolved"]
    [] OTHER -> NoRow

\* After onRuntimeEvent, up to the posting of a new request.
Hooked ==
  /\ runtime = "up" /\ work.at = "hook"
  /\ \E e \in {emitted[Head(queue)]} :
       /\ found' = Project(e)
       /\ rows' = IF found' = NoRow THEN rows ELSE [rows EXCEPT ![e.arg] = found']
       /\ work' = [work EXCEPT !.at = IF Posts(e) THEN "posting" ELSE "found"]
       /\ latch' = (latch /\ e.type \notin {"runtime.error", "closed"})
       /\ lapsed' = IF e.type \in {"runtime.error", "closed"} THEN Lapses ELSE lapsed
  /\ UNCHANGED <<logged, processed, session, receipt, domain, shown, queue, requester, outside,
                 runtime, budget, cut, behind, stranded>>

\* postRuntimeRequestMessage: the message is posted, and the row written again, with
\* it; what project returns has none.  A posting that fails ends the handler.
Posted ==
  /\ runtime = "up" /\ work.at = "posting"
  /\ rows' = [rows EXCEPT ![emitted[Head(queue)].arg] = [found EXCEPT !.message = TRUE]]
  /\ work' = [work EXCEPT !.at = "found"]
  /\ UNCHANGED <<logged, processed, session, receipt, domain, shown, queue, found, requester,
                 latch, outside, runtime, budget, history>>
PostFails ==
  /\ runtime = "up" /\ work.at = "posting" /\ Spend("failures") /\ Abandon /\ found' = NoRow
  /\ UNCHANGED <<logged, session, rows, shown, requester, latch, outside, runtime, lapsed, stranded>>

\* After project: the domain events.
Requested ==
  /\ runtime = "up" /\ work.at = "found" /\ found' = NoRow
  /\ \E rest \in {Left(DomainEvents(emitted[Head(queue)], found))} :
       \/ rest # <<>> /\ Conflicts(Head(rest)) /\ Abandon
       \/ ~(rest # <<>> /\ Conflicts(Head(rest))) /\ NextDomainEvent(rest)
  /\ UNCHANGED <<logged, session, rows, shown, requester, latch, outside, runtime, budget, lapsed,
                 stranded>>

\* After onRuntimeReceipt: a turn that ended badly closes the thread's requests.
ClosesRequests(d) == d.type = "turn.ended" /\ d.arg # "completed"
ReceiptHooked ==
  /\ runtime = "up" /\ work.at = "receipt"
  /\ rows' = IF ClosesRequests(Head(work.rest))
             THEN [r \in Requests |-> IF rows[r].status = "open"
                                      THEN [rows[r] EXCEPT !.status = "resolved"] ELSE rows[r]]
             ELSE rows
  /\ work' = [work EXCEPT !.at = "projecting"]
  /\ UNCHANGED <<logged, processed, session, receipt, domain, shown, queue, found, requester,
                 latch, outside, runtime, budget, history>>

\* OrchestrationEngine.process, on the projection queue: the activity, and for a
\* request the row as the domain event carries it.
Silent == {"runtime.busy", "runtime.idle", "runtime.waiting"}
Activities(d) == IF d.type \in Silent THEN <<>> ELSE <<<<Head(queue), d.k>>>>
Projected ==
  /\ runtime = "up" /\ work.at = "projecting"
  /\ \E d \in {Head(work.rest)} :
       /\ shown' = shown \o Activities(d)
       /\ rows' = IF d.type \in {"request.opened", "request.resolved"}
                  THEN [rows EXCEPT ![d.arg] = d.row] ELSE rows
  /\ work' = [work EXCEPT !.at = "domain"]
  /\ UNCHANGED <<logged, processed, session, receipt, domain, queue, found, requester, latch,
                 outside, runtime, budget, history>>

\* After onDomainEvent.  Only the first domain event of a provider event carries a
\* row, so no later one conflicts.
DomainHooked ==
  /\ runtime = "up" /\ work.at = "domain"
  /\ NextDomainEvent(Left(Tail(work.rest)))
  /\ UNCHANGED <<logged, session, rows, shown, found, requester, latch, outside, runtime, budget,
                 lapsed, stranded>>

-----------------------------------------------------------------------------
(* Crash and restart. *)

\* The turn ends with the process that ran it.
Crash ==
  /\ runtime = "up" /\ Spend("crashes")
  /\ runtime' = "down" /\ stranded' = (stranded \/ turn \/ \E r \in Requests : rows[r].status = "open")
  /\ cut' = IF work = Idle THEN cut ELSE cut \cup {Head(queue)}
  /\ queue' = <<>> /\ work' = Idle /\ found' = NoRow /\ requester' = FALSE /\ latch' = FALSE
  /\ turn' = FALSE /\ asked' = {} /\ compacting' = 0
  /\ UNCHANGED <<durable, emitted, behind, lapsed>>

Restart ==
  /\ runtime = "down" /\ runtime' = "recovering"
  /\ UNCHANGED <<durable, memory, outside, budget, history>>

\* The provider, resumed, delivers again the events from one of them on; or none.
Redelivered == {<<>>} \cup
  {[i \in 1..(Len(emitted) - n) |-> n + i] :
     n \in 0..(Len(emitted) - 1)}

\* reconcileRecoveredState: an open request whose receipt does not say so gets
\* one that does.
Stale == {r \in Requests : rows[r].status = "open" /\ receipt.state # "waiting"}
Rebuilt == IF Stale = {} THEN receipt
           ELSE Receipt("waiting", TRUE, CHOOSE r \in Stale : TRUE)
Reconcile ==
  /\ runtime = "recovering" /\ runtime' = "up"
  /\ receipt' = Rebuilt
  /\ queue' \in Redelivered
  /\ behind' = behind \cup (DOMAIN emitted \ (processed \cup ToSet(queue')))
  /\ UNCHANGED <<logged, processed, session, rows, domain, shown, work, found, requester,
                 latch, outside, budget, cut, lapsed, stranded>>

-----------------------------------------------------------------------------
Provider == \/ TurnBegins \/ TurnEnds \/ Tells \/ Compacted
            \/ \E r \in Requests : Asks(r) \/ IsAnswered(r)
Pipeline == \/ Skip \/ Take \/ Hooked \/ Posted \/ PostFails \/ Requested
            \/ ReceiptHooked \/ Projected \/ DomainHooked
            \/ \E accepted \in BOOLEAN : CompactionAsked(accepted)
Next == Provider \/ Pipeline \/ LatchTimeout \/ Crash \/ Restart \/ Reconcile

\* Hooks end (each has a timeout), the provider answers, timers fire, and the
\* runtime is restarted.
Fairness == /\ WF_vars(Pipeline) /\ WF_vars(LatchTimeout)
            /\ WF_vars(Restart) /\ WF_vars(Reconcile)
Spec == Init /\ [][Next]_vars /\ Fairness

-----------------------------------------------------------------------------
Rows == [status : {"absent", "open", "resolved"}, message : BOOLEAN, requester : BOOLEAN]

TypeOK ==
  /\ emitted \in Seq(Event) /\ queue \in Seq(Ids)
  /\ runtime \in {"up", "down", "recovering"}
  /\ work.at \in {"idle", "compacting", "hook", "posting", "found", "receipt", "projecting", "domain"}
  /\ (work.at \in {"receipt", "projecting", "domain"}) <=> (work.rest # <<>>)
  /\ processed \subseteq logged /\ logged \subseteq 1..Len(emitted)
  /\ session \in [status : {"ready", "running", "error", "closed"}, turn : BOOLEAN]
  /\ receipt \in [state : States, turn : BOOLEAN, request : Requests \cup {NoRequest}]
  /\ rows \in [Requests -> Rows]

\* Delivered once or again after a crash, in the middle of which the handling
\* was, a provider event has each of its domain events logged once, and shown
\* at most once and in the order of the events, but for an event that was left
\* behind unmarked; the first of them is shown unless the handling was cut
\* between the log and the projection.
EachOnce ==
  /\ \A i, j \in DOMAIN shown : i < j =>
       \/ shown[i][1] < shown[j][1] \/ (shown[i][1] = shown[j][1] /\ shown[i][2] < shown[j][2])
       \/ shown[i][1] > shown[j][1] /\ shown[j][1] \in behind
  /\ \A x, y \in domain : x.event = y.event /\ x.k = y.k => x = y
  /\ \A id \in processed \ cut : \A x \in domain : x.event = id /\ x.k = 1 =>
       <<id, 1>> \in ToSet(shown)

\* Nothing is under way, no event was lost or left behind, and the database was
\* not left half written.
Settled == runtime = "up" /\ queue = <<>> /\ processed = 1..Len(emitted) /\ cut = {} /\ behind = {}

\* What the log says: a turn has begun and not ended; a request was opened, and no
\* resolution of it came, nor the end of a turn that did not complete it.
Since(i, types) == \E j \in DOMAIN emitted : j > i /\ emitted[j].type \in types
TurnLeft == \E i \in DOMAIN emitted :
  /\ emitted[i].type = "turn.started"
  /\ ~Since(i, {"turn.completed", "turn.aborted", "runtime.error", "closed"})
Closes(e, r) == \/ e.type = "request.resolved" /\ e.arg = r
                \/ e.type = "turn.completed" /\ e.arg # "completed"
                \/ e.type = "turn.aborted"
Unanswered(r) == \E i \in DOMAIN emitted :
  /\ emitted[i].type = "request.opened" /\ emitted[i].arg = r
  /\ \A j \in DOMAIN emitted : j > i => ~Closes(emitted[j], r)

\* What the graceful shutdown and the health report read is true, once the events
\* are handled.  A request is shown as open exactly while nobody has resolved it
\* and no turn was since aborted, or ended as failed, interrupted or cancelled: a
\* closed session and a runtime.error close none.  The receipt of the thread is
\* busy while the log has a turn that has not ended, and else only when a recovery
\* made it wait for a request that is open; so that after a crash in a turn it is
\* busy until the next turn ends, which nothing corrects.  But for that, it is
\* quiet exactly when no turn runs at the provider, and it waits only for a
\* request that the provider waits for.
ReceiptTells == Settled =>
  /\ \A r \in Requests : rows[r].status = "open" <=> Unanswered(r)
  /\ TurnLeft => receipt.state \notin Quiet
  /\ receipt.state \notin Quiet /\ ~TurnLeft =>
       receipt.state = "waiting" /\ rows[receipt.request].status = "open"
  /\ ~stranded => /\ receipt.state \in Quiet <=> ~turn
                  /\ receipt.state = "waiting" => receipt.request \in asked

\* Between events the receipt of a thread can be relied on.
ReceiptSound == TypeOK /\ ReceiptTells

\* After a restart, and before the next event, an open request is waited for.
RecoveredWaits ==
  [][Reconcile => \A r \in Requests : rows'[r].status = "open" => receipt'.state = "waiting"]_vars

\* Every event pushed is processed, unless the process ends or its replay
\* conflicts with the log; and a compaction latch is always released.  A recovery
\* in between leaves no open request unheeded.
Handled ==
  /\ \A id \in Ids : (id \in ToSet(queue)) ~> (id \in processed \/ id \in cut \/ runtime = "down")
  /\ latch ~> ~latch
  /\ RecoveredWaits

\* The provider is at work on no more compactions than the one its latch stands
\* for and those whose latch was released before they were done: by the timer, by
\* an error, or by the report of an earlier compaction.
OneCompaction == compacting <= lapsed + (IF latch THEN 1 ELSE 0)

\* Whatever crashes cut, the pipeline makes no effect of its own twice: domain
\* event, projection or compaction.
EffectsOnce == EachOnce /\ OneCompaction
=============================================================================
