-------------------------- MODULE PendingRequests --------------------------
(***************************************************************************)
(* The requests an agent's turn waits for: a provider asks for an approval *)
(* or for user input, or one of the agent's tools asks Moorline itself for *)
(* an approval.  Each is a row of pending_runtime_requests, which people   *)
(* see as a message and answer by a button or through the Control API.     *)
(*                                                                         *)
(* Five parties write the row, none of them in a transaction with what it  *)
(* has read: the handler of the provider's events (one event of the thread *)
(* at a time, but it awaits the posting of a message and plugin hooks), the *)
(* buttons (which bypass the queue of the thread), the Control API, the    *)
(* end of a turn, and the recovery that posts open requests again after a  *)
(* restart.  One thread is modelled: rows of other threads are not touched.*)
(***************************************************************************)
EXTENDS Naturals, Sequences, FiniteSets

CONSTANTS
    Approvals,  \* approval requests of the provider
    Inputs,     \* requests of the provider for user input
    Tools,      \* approvals asked for by runtime tools (dynamic_tool_call)
    Verdicts,   \* how people answer approvals: "accept", "decline", "cancel"
    MaxCalls,   \* bound on answers: buttons pressed, calls of the Control API
    Counts      \* bound on how many announcements by the provider, turns and sessions that
                \* end badly on its side, and crashes there are: triples that may be reached

ASSUME KindsAssumption == /\ Approvals \cap Inputs = {}
                          /\ (Approvals \cup Inputs) \cap Tools = {}
                          /\ Approvals \cup Inputs \cup Tools # {}
                          /\ Verdicts \subseteq {"accept", "decline", "cancel"}
ASSUME CallBounds == MaxCalls \in Nat /\ Counts \subseteq Nat \X Nat \X Nat

Callers   == 1..MaxCalls             \* answers, numbered as they are begun
Asked     == Approvals \cup Inputs   \* what the provider waits for
Requests  == Asked \cup Tools
Decisions == {"accept", "decline", "cancel"}

VARIABLES
    pending,    \* request -> its row
    provider,   \* request -> "new", "waiting", "done" (answered), "gone"
    answer,     \* request -> the decision the provider was given, or "none"
    events,     \* the thread's provider events, the one being handled first
    work,       \* the await at which the handler of Head(events) stands
    calls,      \* number of an answer -> how far it has come
    runtime,    \* "up", "down", or "starting" (before recoverOpenRequests)
    todo,       \* what recoverOpenRequests has read and not yet posted
    asks, opens, ends, crashes,   \* counters for the bounds
    executed,   \* tool request -> how often it was carried out (history)
    unwritten,  \* tool request -> how often that was not written down (history)
    unheeded,   \* requests dropped by an end that closes no row, until one does (history)
    orphaned,   \* requests whose answer the provider did not know (history)
    doubled,    \* tool requests accepted while being carried out (history)
    reopened    \* requests set open again after they were resolved (history)

counters == <<asks, opens, ends, crashes>>
history  == <<executed, unwritten, unheeded, orphaned, doubled, reopened>>
vars == <<pending, provider, answer, events, work, calls, runtime,
          todo, counters, history>>

Row == [status : {"absent", "open", "resolved"}, decision : Decisions \cup {"none"},
        message : BOOLEAN]

Event == [type : {"opened", "resolved"}, request : Asked, decision : Decisions \cup {"none"}]
         \cup [type : {"ended", "closed"}]

Absent == [status |-> "absent", decision |-> "none", message |-> FALSE]
Opened == [Absent EXCEPT !.status = "open"]
NoWork == [at |-> "idle", row |-> Absent]
NoCall == [at |-> "idle", request |-> CHOOSE r \in Requests : TRUE, decision |-> "none",
           row |-> Absent]

TypeOK ==
    /\ pending \in [Requests -> Row]
    /\ provider \in [Asked -> {"new", "waiting", "done", "gone"}]
    /\ answer \in [Asked -> Decisions \cup {"none", "text"}]
    /\ events \in Seq(Event)
    /\ work \in [at : {"idle", "posting", "projecting"}, row : Row]
    /\ calls \in [Callers -> [at : {"idle", "checked", "unknown", "interrupted", "executing",
                                    "performed"},
                              request : Requests, decision : Decisions \cup {"none", "text"},
                              row : Row]]
    /\ runtime \in {"up", "down", "starting"}
    /\ todo \in [Requests -> Row]
    /\ asks \in 0..MaxCalls /\ opens \in Nat /\ ends \in Nat /\ crashes \in Nat
    /\ executed \in [Tools -> Nat] /\ unwritten \in [Tools -> Nat] /\ unheeded \subseteq Asked
    /\ orphaned \subseteq Requests /\ doubled \subseteq Tools /\ reopened \subseteq Requests

Init ==
    /\ pending = [r \in Requests |-> Absent]
    /\ provider = [r \in Asked |-> "new"]
    /\ answer = [r \in Asked |-> "none"]
    /\ events = <<>> /\ work = NoWork
    /\ calls = [c \in Callers |-> NoCall]
    /\ runtime = "up" /\ todo = [r \in Requests |-> Absent]
    /\ asks = 0 /\ opens = 0 /\ ends = 0 /\ crashes = 0
    /\ executed = [r \in Tools |-> 0] /\ unwritten = [r \in Tools |-> 0] /\ unheeded = {}
    /\ orphaned = {} /\ doubled = {} /\ reopened = {}

-----------------------------------------------------------------------------
(* The table. *)

IsOpen(r)     == pending[r].status = "open"
IsResolved(r) == pending[r].status = "resolved"
OpenRows      == {r \in Requests : IsOpen(r)}

Settled(row, decision) == [row EXCEPT !.status = "resolved", !.decision = decision]

\* upsertPendingRequest of the rows in a function from requests.  A row that is
\* set open again is remembered.
Upsert(rows) ==
    /\ pending' = [r \in Requests |-> IF r \in DOMAIN rows THEN rows[r] ELSE pending[r]]
    /\ reopened' = reopened \cup
          {r \in DOMAIN rows : IsResolved(r) /\ rows[r].status = "open"}

Put(r, row) == Upsert([x \in {r} |-> row])

-----------------------------------------------------------------------------
(* The provider, as far as the runtime sees it. *)

\* It asks, or announces again what it still waits for.
Announce(r) ==
    /\ runtime # "down" /\ provider[r] \in {"new", "waiting"}
    /\ <<opens + 1, ends, crashes>> \in Counts /\ opens' = opens + 1
    /\ provider' = [provider EXCEPT ![r] = "waiting"]
    /\ events' = Append(events, [type |-> "opened", request |-> r, decision |-> "none"])
    /\ UNCHANGED <<pending, answer, work, calls, runtime, todo, asks, ends, crashes,
                   history>>

Dropped == [r \in Asked |-> IF provider[r] = "waiting" THEN "gone" ELSE provider[r]]

endElse == <<pending, answer, work, calls, runtime, todo, asks, opens, crashes, executed,
             unwritten, orphaned, doubled, reopened>>

\* A turn fails, or is cancelled from the provider's side.
TurnEnds ==
    /\ runtime # "down" /\ <<opens, ends + 1, crashes>> \in Counts
    /\ ends' = ends + 1
    /\ provider' = Dropped /\ unheeded' = {}
    /\ events' = Append(events, [type |-> "ended"])
    /\ UNCHANGED endElse

\* The session closes or errs under its turn, or the provider's runtime does.
SessionEnds ==
    /\ runtime # "down" /\ <<opens, ends + 1, crashes>> \in Counts
    /\ ends' = ends + 1
    /\ provider' = Dropped
    /\ unheeded' = unheeded \cup {r \in Asked : provider[r] = "waiting"}
    /\ events' = Append(events, [type |-> "closed"])
    /\ UNCHANGED endElse

-----------------------------------------------------------------------------
(* ProviderRequestProjector.project, and what handleDomainEvent makes of it. *)

\* Faulty variant: the status of the row is not looked at.
AnyRow(r) == TRUE

MayOpen(r) == ~IsResolved(r)

\* Faulty variant: as for user input, the decision is left as it was.
ResolvedUndecided(e) == [pending[e.request] EXCEPT !.status = "resolved"]

ResolvedRow(e) ==
    IF e.request \in Approvals THEN Settled(pending[e.request], e.decision)
                               ELSE [pending[e.request] EXCEPT !.status = "resolved"]

Head1   == Head(events)
Handled == events' = Tail(events) /\ work' = NoWork

Handling(type) == runtime # "down" /\ events # <<>> /\ work = NoWork /\ Head1.type = type

pipelineElse == <<provider, answer, calls, runtime, todo, counters, executed, unwritten,
                  unheeded, orphaned, doubled>>

\* A request that is new to Moorline, or has no message yet, is written, then posted ...
ProjectOpened ==
    /\ Handling("opened")
    /\ LET r == Head1.request IN
       /\ MayOpen(r) /\ ~pending[r].message
       /\ Put(r, Opened)
       /\ work' = [at |-> "posting", row |-> Opened]
    /\ UNCHANGED <<events, pipelineElse>>

\* ... one that has a message is passed on as it is ...
ProjectKnown ==
    /\ Handling("opened")
    /\ LET r == Head1.request IN
       /\ MayOpen(r) /\ pending[r].message
       /\ work' = [at |-> "projecting", row |-> pending[r]]
    /\ UNCHANGED <<pending, reopened, events, pipelineElse>>

\* ... and one that was resolved meanwhile is left alone.
ProjectStale ==
    /\ Handling("opened")
    /\ ~MayOpen(Head1.request)
    /\ Handled
    /\ UNCHANGED <<pending, reopened, pipelineElse>>

\* postRuntimeRequestMessage after its await: the row of before, with a message id.
Posted ==
    /\ runtime # "down" /\ work.at = "posting"
    /\ Put(Head1.request, [work.row EXCEPT !.message = TRUE])
    /\ work' = [work EXCEPT !.at = "projecting"]
    /\ UNCHANGED <<events, pipelineElse>>

\* The transport refuses: the handler of the event fails, the row stays.
PostFails ==
    /\ runtime # "down" /\ work.at = "posting"
    /\ Handled
    /\ UNCHANGED <<pending, reopened, pipelineElse>>

ProjectResolved ==
    /\ Handling("resolved")
    /\ LET r == Head1.request IN
       IF pending[r].status = "absent"
       THEN Handled /\ UNCHANGED <<pending, reopened>>
       ELSE /\ Put(r, ResolvedRow(Head1))
            /\ work' = [at |-> "projecting", row |-> ResolvedRow(Head1)]
            /\ UNCHANGED events
    /\ UNCHANGED pipelineElse

\* The domain event, after the hooks for its receipt: OrchestrationEngine.process
\* writes the row once more, as the projector returned it.
Projected ==
    /\ runtime # "down" /\ work.at = "projecting"
    /\ Put(Head1.request, work.row)
    /\ Handled
    /\ UNCHANGED pipelineElse

Ending == OpenRows

\* turn.failed, turn.interrupted, turn.cancelled.
ProjectEnded ==
    /\ Handling("ended")
    /\ Upsert([r \in Ending |-> Settled(pending[r], "cancel")])
    /\ Handled
    /\ UNCHANGED pipelineElse

\* session.state.changed (closed, error), runtime.error: the waiting turn is
\* failed, no row is closed.
ProjectClosed ==
    /\ Handling("closed")
    /\ Handled
    /\ UNCHANGED <<pending, reopened, pipelineElse>>

-----------------------------------------------------------------------------
(* Tools of the agent: requestRuntimeToolApproval. *)

AskApproval(r) ==
    /\ runtime # "down" /\ pending[r].status = "absent"
    /\ Put(r, Opened)
    /\ UNCHANGED <<events, work, pipelineElse>>

-----------------------------------------------------------------------------
(* Answers. *)

callElse == <<opens, work, runtime, todo, ends, crashes>>

Begin(c) == /\ runtime # "down" /\ c = asks + 1
            /\ asks' = c

Standing(c, at, r, d, row) ==
    calls' = [calls EXCEPT ![c] = [at |-> at, request |-> r, decision |-> d, row |-> row]]

Return(c) == calls' = [calls EXCEPT ![c] = NoCall]

Executing(r) ==
    \E c \in Callers : calls[c].at \in {"executing", "performed"} /\ calls[c].request = r

\* The calls that have carried a tool out and not yet written so.
InHand(r) == {c \in Callers : calls[c].at = "performed" /\ calls[c].request = r}

callHistory == <<executed, unwritten, unheeded, orphaned, doubled>>

MayAnswer(r) == IsOpen(r)

\* The buttons of a tool's approval, resolveRuntimeToolApproval: "no" at once ...
Refuse(c, r, d) ==
    /\ Begin(c) /\ MayAnswer(r) /\ d # "accept"
    /\ Put(r, Settled(pending[r], d))
    /\ UNCHANGED <<calls, provider, answer, events, callElse, callHistory>>

\* ... "yes" after the tool was carried out.
Accept(c, r) ==
    /\ Begin(c) /\ MayAnswer(r)
    /\ Standing(c, "executing", r, "accept", pending[r])
    /\ doubled' = IF Executing(r) THEN doubled \cup {r} ELSE doubled
    /\ UNCHANGED <<pending, reopened, provider, answer, events, callElse, executed, unwritten,
                   unheeded, orphaned>>

\* Faulty variant: what was carried out is not written down.
ExecutedRow(c) == pending[calls[c].request]

AcceptedRow(c) == Settled(calls[c].row, "accept")

\* The tool takes effect ...
Perform(c) ==
    /\ runtime # "down" /\ calls[c].at = "executing"
    /\ calls' = [calls EXCEPT ![c].at = "performed"]
    /\ executed' = [executed EXCEPT ![calls[c].request] = @ + 1]
    /\ UNCHANGED <<pending, reopened, provider, answer, events, callElse, asks, unwritten,
                   unheeded, orphaned, doubled>>

\* ... and when it returns, the row of before is written ...
Executed(c) ==
    /\ runtime # "down" /\ calls[c].at = "performed"
    /\ Put(calls[c].request, AcceptedRow(c))
    /\ Return(c)
    /\ UNCHANGED <<provider, answer, events, callElse, asks, callHistory>>

\* ... unless it fails without effect, or after it, or the row cannot be written.
ExecutionFails(c) ==
    /\ runtime # "down" /\ calls[c].at \in {"executing", "performed"}
    /\ Return(c)
    /\ unwritten' = IF calls[c].at = "performed"
                    THEN [unwritten EXCEPT ![calls[c].request] = @ + 1] ELSE unwritten
    /\ UNCHANGED <<pending, provider, answer, events, callElse, asks, executed, unheeded,
                   orphaned, doubled, reopened>>

\* resolvePendingRequest and answerPendingRequest for everything else: the row
\* must be open; whether the actor may answer is looked up across an await.
\* The Control API takes this way for tools' approvals too.
Answers(r) == IF r \in Inputs THEN {"cancel", "text"} ELSE Verdicts

CheckOpen(c, r, d) ==
    /\ Begin(c) /\ MayAnswer(r)
    /\ Standing(c, "checked", r, d, Absent)
    /\ UNCHANGED <<pending, provider, answer, events, callElse, history>>

\* The actor or the policy says no, or the provider fails in some other way.
Denied(c) ==
    /\ runtime # "down" /\ calls[c].at = "checked"
    /\ Return(c)
    /\ UNCHANGED <<pending, provider, answer, events, callElse, asks, history>>

Interrupting(c) == calls[c].request \in Inputs /\ calls[c].decision = "cancel"

Waiting(r) == r \in Asked /\ provider[r] = "waiting"

\* The decision an event of the provider carries.
Said(r, d) == IF r \in Inputs THEN "none" ELSE d

\* The provider takes the answer and says so by an event; the call writes nothing.
Delivered(c) ==
    LET r == calls[c].request  d == calls[c].decision IN
    /\ runtime # "down" /\ calls[c].at = "checked" /\ ~Interrupting(c) /\ Waiting(r)
    /\ provider' = [provider EXCEPT ![r] = "done"]
    /\ answer' = [answer EXCEPT ![r] = d]
    /\ events' = Append(events, [type |-> "resolved", request |-> r,
                                 decision |-> Said(r, d)])
    /\ Return(c)
    /\ UNCHANGED <<pending, callElse, asks, history>>

\* The provider does not know the request (any more) ...
Refused(c) ==
    /\ runtime # "down" /\ calls[c].at = "checked" /\ ~Interrupting(c)
    /\ ~Waiting(calls[c].request)
    /\ calls' = [calls EXCEPT ![c].at = "unknown"]
    /\ UNCHANGED <<pending, provider, answer, events, callElse, asks, history>>

\* ... cancelling user input interrupts the turn ...
Interrupt(c) ==
    /\ runtime # "down" /\ calls[c].at = "checked" /\ Interrupting(c)
    /\ provider' = Dropped /\ unheeded' = {}
    /\ events' = Append(events, [type |-> "ended"])
    /\ calls' = [calls EXCEPT ![c].at = "interrupted"]
    /\ UNCHANGED <<pending, answer, callElse, asks, executed, unwritten, orphaned, doubled,
                   reopened>>

\* ... and in both cases the row, read again, is cancelled.
CancelRow(c) ==
    LET r == calls[c].request IN
    /\ runtime # "down" /\ calls[c].at \in {"unknown", "interrupted"}
    /\ Put(r, Settled(pending[r], "cancel"))
    /\ orphaned' = IF calls[c].at = "unknown" THEN orphaned \cup {r} ELSE orphaned
    /\ Return(c)
    /\ UNCHANGED <<provider, answer, events, callElse, asks, executed, unwritten, unheeded,
                   doubled>>

-----------------------------------------------------------------------------
(* Crash and restart. *)

\* The event queue and every call are lost.  The provider, recovered with its
\* sessions, still waits for some of its requests, or for none.
Crash ==
    /\ runtime # "down" /\ <<opens, ends, crashes + 1>> \in Counts
    /\ crashes' = crashes + 1 /\ runtime' = "down"
    /\ events' = <<>> /\ work' = NoWork
    /\ calls' = [c \in Callers |-> NoCall]
    /\ todo' = [r \in Requests |-> Absent]
    /\ provider' \in {provider, Dropped}
    /\ unwritten' = [r \in Tools |-> unwritten[r] + Cardinality(InHand(r))]
    /\ UNCHANGED <<pending, answer, asks, opens, ends, executed, unheeded, orphaned, doubled,
                   reopened>>

\* Transport and provider events are taken from here on.
Start ==
    /\ runtime = "down" /\ runtime' = "starting"
    /\ UNCHANGED <<pending, provider, answer, events, work, calls, todo, counters,
                   history>>

\* recoverOpenRequests reads all open requests at once ...
RecoverOpenRequests ==
    /\ runtime = "starting" /\ runtime' = "up"
    /\ todo' = [r \in Requests |-> IF IsOpen(r) THEN pending[r] ELSE Absent]
    /\ UNCHANGED <<pending, provider, answer, events, work, calls, counters, history>>

\* ... and posts them one after the other.
Repost(r) ==
    /\ runtime = "up" /\ todo[r] # Absent
    /\ Put(r, [todo[r] EXCEPT !.message = TRUE])
    /\ todo' = [todo EXCEPT ![r] = Absent]
    /\ UNCHANGED <<provider, answer, events, work, calls, runtime, counters, callHistory>>

-----------------------------------------------------------------------------

Pipeline == \/ ProjectOpened \/ ProjectKnown \/ ProjectStale \/ Posted \/ PostFails
            \/ ProjectResolved \/ Projected \/ ProjectEnded \/ ProjectClosed

Call(c) == \/ \E r \in Tools, d \in Verdicts : Refuse(c, r, d)
           \/ \E r \in Tools : Accept(c, r)
           \/ Perform(c) \/ Executed(c) \/ ExecutionFails(c)
           \/ \E r \in Requests : \E d \in Answers(r) : CheckOpen(c, r, d)
           \/ Denied(c) \/ Delivered(c) \/ Refused(c) \/ Interrupt(c) \/ CancelRow(c)

Next == \/ \E r \in Asked : Announce(r)
        \/ TurnEnds \/ SessionEnds
        \/ Pipeline
        \/ \E r \in Tools : AskApproval(r)
        \/ \E c \in Callers : Call(c)
        \/ Crash \/ Start \/ RecoverOpenRequests
        \/ \E r \in Requests : Repost(r)

Spec == Init /\ [][Next]_vars

-----------------------------------------------------------------------------
(* Properties. *)

\* A resolved request is set open again only over an await: of the posting or
\* of the hooks of its own "opened" event, or of the postings of the recovery.
\* No answer, end of turn or late announcement does it.
OnlyAwaitReopens ==
    [][\A r \in Requests : IsResolved(r) /\ pending'[r].status = "open" =>
          \/ work.at # "idle" /\ Head1.request = r /\ Head1.type = "opened"
          \/ todo[r] # Absent]_vars

\* Once the provider's events are handled, an approval the provider was given
\* is recorded with the decision it was given, whatever was reopened on the way
\* -- unless a second answer was refused, which the record then says.
DecisionRecorded ==
    crashes = 0 /\ events = <<>> =>
        \A r \in Approvals \ orphaned :
            answer[r] # "none" => pending[r].decision = answer[r]

\* Once the provider's events are handled, no request stays open that the
\* provider no longer waits for, however its turn and the answers ended -- unless
\* a crash took the event, or the session ended and no turn failed, was
\* interrupted or cancelled since: such an end closes no row.
FinishedIsClosed ==
    crashes = 0 /\ events = <<>> =>
        \A r \in Asked \ unheeded : provider[r] \in {"done", "gone"} => IsResolved(r)

\* A tool is carried out once for one approval, and again only when a failure or
\* a crash came before that was written down -- unless it was accepted again
\* meanwhile or the recovery had set it open again.
ToolRunsOnce == \A r \in Tools \ (doubled \cup reopened) : executed[r] <= unwritten[r] + 1

\* The record of a tool's approval says "accept" exactly if the tool was carried
\* out, but for what was not written down, or is about to be.
ToolRecorded ==
    \A r \in Tools \ (orphaned \cup reopened) :
        InHand(r) = {} =>
            (IsResolved(r) /\ pending[r].decision = "accept" <=> executed[r] > unwritten[r])

\* What became of a tool's approval: what was written down was carried out, and
\* once; in rows that the table can hold.
ToolsSound == TypeOK /\ ToolRunsOnce /\ ToolRecorded

\* Once the events are handled, the rows say what the provider knows.
RowsAgree == DecisionRecorded /\ FinishedIsClosed
=============================================================================
