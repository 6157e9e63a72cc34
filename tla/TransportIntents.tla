-------------------------- MODULE TransportIntents --------------------------
(***************************************************************************)
(* What a chat transport tells the runtime: bind a session to a resource    *)
(* (a channel, an issue), archive, resume or delete it, or take a message  *)
(* for it.  An intent is recorded in transport_intents, processed, and     *)
(* marked processed or failed; what a crash left pending is drained when   *)
(* the runtime starts.  The sessions they act on are modelled with them.   *)
(*                                                                         *)
(* Intents delivered live are processed at once and concurrently, whatever *)
(* their resource, also while the drain goes through its list.  An action  *)
(* is the stretch between two awaits: of the policy guard, of the cleanup  *)
(* of a session's sidecars, of the queue of messages.                      *)
(***************************************************************************)
EXTENDS Naturals, Sequences, FiniteSets

CONSTANTS
    Resources,   \* resources of the transport
    Types,       \* kinds of intent the transport sends
    Foreign,     \* pending intents an earlier configuration left, of another scope
    Limit,       \* page of the drain
    MaxIntents,  \* bound on recorded intents
    MaxCrashes,  \* bound on crashes of the runtime
    None         \* no session

ASSUME TypesAssumption == Types \subseteq {"ensure", "delete", "archive", "resume", "message"}
ASSUME PageAssumption  == Foreign \in Nat /\ Limit \in Nat \ {0}
ASSUME IntentBounds    == MaxIntents \in Nat /\ MaxCrashes \in Nat

VARIABLES
    rows,        \* recorded intents of this scope, in order of occurrence
    bound,       \* resource -> the session bound to it, or None
    made,        \* number of sessions created
    runs,        \* intents being processed
    runtime,     \* "up" or "down"
    drain,       \* "listing", "page" or "done"
    page,        \* intents the drain has listed and not yet begun
    crashes,
    before,      \* how many intents were recorded when the runtime started (history)
    delivered,   \* intent -> how often its message was handed on (history)
    again,       \* intents a crash cut off, or that the drain listed while they
                 \* were processed live: they are processed again (history)
    disordered   \* resources whose intents were once processed at once or out of order (history)

history == <<before, delivered, again, disordered>>
vars == <<rows, bound, made, runs, runtime, drain, page, crashes, history>>

Ids     == 1..MaxIntents
Session == [id : Nat, status : {"hot", "archived"}]
Row     == [type : Types, resource : Resources, processed : BOOLEAN, failed : BOOLEAN]
Run     == [intent : Ids, drain : BOOLEAN, session : Session \cup {None},
            at : {"guard", "cleanup", "interact", "done", "failed"}]

ASSUME NoneAssumption == None \notin Session

TypeOK ==
    /\ rows \in Seq(Row) /\ Len(rows) <= MaxIntents
    /\ bound \in [Resources -> Session \cup {None}]
    /\ made \in Nat
    /\ runs \subseteq Run
    /\ runtime \in {"up", "down"}
    /\ drain \in {"listing", "page", "done"}
    /\ page \subseteq Ids
    /\ crashes \in 0..MaxCrashes
    /\ before \in 0..MaxIntents /\ delivered \in [Ids -> Nat]
    /\ again \subseteq Ids /\ disordered \subseteq Resources

Init ==
    /\ rows = <<>> /\ runs = {}
    /\ bound \in [Resources -> {None} \cup [id : {0}, status : {"hot", "archived"}]] /\ made = 0
    /\ runtime = "up" /\ drain = "listing" /\ page = {}
    /\ crashes = 0
    /\ before = 0 /\ delivered = [i \in Ids |-> 0]
    /\ again = {} /\ disordered = {}

-----------------------------------------------------------------------------
(* The table of intents. *)

IsPending(i) == ~rows[i].processed /\ ~rows[i].failed
Pending      == {i \in DOMAIN rows : IsPending(i)}
Running(i)   == \E run \in runs : run.intent = i

\* listPending: a page of the oldest; those of another scope, older than all of
\* ours, are taken out afterwards.
Room   == IF Foreign < Limit THEN Limit - Foreign ELSE 0
Listed == {i \in Pending : Cardinality({j \in Pending : j < i}) < Room}

\* Faulty variant: the drain stops at a page that is not full.
ShortPage == {i \in Listed : Cardinality(Listed) = Limit}

Page == Listed

\* Faulty variant: a failure leaves the intent to be tried again, and again.
MarkedRetry(row, at) == [row EXCEPT !.processed = at = "done"]

\* markTransportIntentProcessed, markTransportIntentFailed
Marked(row, at) == IF at = "done" THEN [row EXCEPT !.processed = TRUE, !.failed = FALSE]
                                  ELSE [row EXCEPT !.failed = TRUE]

-----------------------------------------------------------------------------
(* Processing an intent. *)

IsArchived(s) == s # None /\ s.status = "archived"

\* Faulty variant: a message does not wake the session.
FirstAsleep(type, s) ==
    IF type = "message" THEN "interact"
    ELSE IF type = "ensure" THEN (IF s = None THEN "guard" ELSE "done")
    ELSE IF s = None THEN "done" ELSE "guard"

\* Where processIntent stands when it has looked up the session s of the
\* resource: an "ensure" that finds one has updated it, a message for one that
\* is not archived is with the interactions.
First(type, s) ==
    CASE type = "ensure" /\ s # None                 -> "done"
      [] type \in {"delete", "archive"} /\ s = None  -> "done"
      [] type = "resume" /\ ~IsArchived(s)           -> "done"
      [] type = "message" /\ ~IsArchived(s)          -> "interact"
      [] OTHER                                       -> "guard"

\* The resource's intents that are in the way of i: one that is being processed,
\* an earlier one that is not settled, a later one that is.
Misplaced(i, r) == {j \in DOMAIN rows \ {i} :
                       /\ rows[j].resource = r
                       /\ Running(j) \/ (j < i <=> IsPending(j))}

\* processRecordedIntent, up to its first await.
Begin(i, type, r, byDrain) ==
    LET at == First(type, bound[r]) IN
    /\ runs' = runs \cup {[intent |-> i, drain |-> byDrain, session |-> bound[r], at |-> at]}
    /\ delivered' = IF at = "interact" THEN [delivered EXCEPT ![i] = @ + 1] ELSE delivered
    /\ disordered' = IF Misplaced(i, r) # {} THEN disordered \cup {r} ELSE disordered

\* handleIntent, called by the transport: the row, then its processing.  A second
\* delivery of an intent finds the row and returns.
HandleIntent(type, r) ==
    /\ runtime = "up" /\ Len(rows) < MaxIntents
    /\ rows' = Append(rows, [type |-> type, resource |-> r, processed |-> FALSE, failed |-> FALSE])
    /\ Begin(Len(rows) + 1, type, r, FALSE)
    /\ UNCHANGED <<bound, made, runtime, drain, page, crashes, before, again>>

TypeOf(run)     == rows[run.intent].type
ResourceOf(run) == rows[run.intent].resource
Bound(run)      == bound[ResourceOf(run)]

Bind(run, s)   == bound' = [bound EXCEPT ![ResourceOf(run)] = s]
Moves(run, at) == runs' = (runs \ {run}) \cup {[run EXCEPT !.at = at]}

runElse == <<rows, runtime, drain, page, crashes, before, again, disordered>>

\* The policy denies, or the interactions refuse.
Fails(run) ==
    /\ run.at \in {"guard", "interact"}
    /\ Moves(run, "failed")
    /\ UNCHANGED <<bound, made, delivered, runElse>>

\* SessionRegistry.resume: of whatever session is bound by now.
Resumed(run) == IF Bound(run) = None THEN None ELSE [Bound(run) EXCEPT !.status = "hot"]

\* createSession, unless the resource was bound meanwhile, which is an error.
Creates(run) ==
    /\ run.at = "guard" /\ TypeOf(run) = "ensure"
    /\ IF Bound(run) = None
       THEN /\ Bind(run, [id |-> made + 1, status |-> "hot"])
            /\ made' = made + 1
            /\ Moves(run, "done")
       ELSE UNCHANGED <<bound, made>> /\ Moves(run, "failed")
    /\ UNCHANGED <<delivered, runElse>>

Resumes(run) ==
    /\ run.at = "guard" /\ TypeOf(run) \in {"resume", "message"}
    /\ Bind(run, Resumed(run))
    /\ IF TypeOf(run) = "message"
       THEN /\ Moves(run, "interact")
            /\ delivered' = [delivered EXCEPT ![run.intent] = @ + 1]
       ELSE Moves(run, "done") /\ UNCHANGED delivered
    /\ UNCHANGED <<made, runElse>>

\* The provider's session is stopped, sidecars are cleaned up.
CleansUp(run) ==
    /\ run.at = "guard" /\ TypeOf(run) \in {"delete", "archive"}
    /\ Moves(run, "cleanup")
    /\ UNCHANGED <<bound, made, delivered, runElse>>

\* Whatever session is bound to the resource by now is deleted.
Deletes(run) ==
    /\ run.at = "cleanup" /\ TypeOf(run) = "delete"
    /\ Bind(run, None)
    /\ Moves(run, "done")
    /\ UNCHANGED <<made, delivered, runElse>>

\* The session of before the guard is written back, archived, even if it was
\* deleted meanwhile; a resource has one session, so another one is an error.
Archives(run) ==
    /\ run.at = "cleanup" /\ TypeOf(run) = "archive"
    /\ IF Bound(run) = None \/ Bound(run).id = run.session.id
       THEN Bind(run, [run.session EXCEPT !.status = "archived"]) /\ Moves(run, "done")
       ELSE UNCHANGED bound /\ Moves(run, "failed")
    /\ UNCHANGED <<made, delivered, runElse>>

Interacted(run) ==
    /\ run.at = "interact"
    /\ Moves(run, "done")
    /\ UNCHANGED <<bound, made, delivered, runElse>>

Marks(run) ==
    /\ run.at \in {"done", "failed"}
    /\ rows' = [rows EXCEPT ![run.intent] = Marked(@, run.at)]
    /\ runs' = runs \ {run}
    /\ UNCHANGED <<bound, made, runtime, drain, page, crashes, history>>

-----------------------------------------------------------------------------
(* drainPendingIntents, which the start of the runtime awaits. *)

Draining == \E run \in runs : run.drain

DrainLists ==
    /\ runtime = "up" /\ drain = "listing"
    /\ page' = Page
    /\ drain' = IF Page = {} THEN "done" ELSE "page"
    /\ again' = again \cup {i \in Page : Running(i)}
    /\ UNCHANGED <<rows, bound, made, runs, runtime, crashes, before, delivered, disordered>>

DrainBegins(i) ==
    /\ runtime = "up" /\ drain = "page" /\ ~Draining
    /\ i \in page /\ \A j \in page : i <= j
    /\ page' = page \ {i}
    /\ Begin(i, rows[i].type, rows[i].resource, TRUE)
    /\ UNCHANGED <<rows, bound, made, runtime, drain, crashes, before, again>>

DrainTurns ==
    /\ runtime = "up" /\ drain = "page" /\ page = {} /\ ~Draining
    /\ drain' = "listing"
    /\ UNCHANGED <<rows, bound, made, runs, runtime, page, crashes, history>>

-----------------------------------------------------------------------------
(* Crash and restart. *)

Crash ==
    /\ runtime = "up" /\ crashes < MaxCrashes
    /\ runtime' = "down" /\ crashes' = crashes + 1
    /\ again' = again \cup {run.intent : run \in runs}
    /\ runs' = {} /\ page' = {}
    /\ UNCHANGED <<rows, bound, made, drain, before, delivered, disordered>>

Start ==
    /\ runtime = "down" /\ runtime' = "up"
    /\ drain' = "listing" /\ before' = Len(rows)
    /\ UNCHANGED <<rows, bound, made, runs, page, crashes, delivered, again, disordered>>

-----------------------------------------------------------------------------

RunStep == \E run \in runs : \/ Fails(run) \/ Creates(run) \/ Resumes(run) \/ CleansUp(run)
                             \/ Deletes(run) \/ Archives(run) \/ Interacted(run) \/ Marks(run)

DrainStep == DrainLists \/ DrainTurns \/ \E i \in Ids : DrainBegins(i)

Next == \/ \E type \in Types, r \in Resources : HandleIntent(type, r)
        \/ RunStep \/ DrainStep
        \/ Crash \/ Start

Spec == Init /\ [][Next]_vars

\* A runtime that crashed is started again, and what it processes and drains ends.
FairSpec == Spec /\ WF_vars(RunStep) /\ WF_vars(DrainStep) /\ WF_vars(Start)

-----------------------------------------------------------------------------
(* Properties. *)

\* No message is handed on twice, unless a crash cut off its processing or the
\* drain listed it while it was processed live.
DeliveredOnce == \A i \in Ids \ again : delivered[i] <= 1

\* When the start's drain ends, all intents recorded before the start are settled,
\* unless those of another scope fill its page.
DrainSettles ==
    runtime = "up" /\ drain = "done" /\ Room > 0 => \A i \in 1..before : ~IsPending(i)

\* What an intent of a type leaves behind.
Shows(type, s) ==
    CASE type = "ensure"  -> s # None
      [] type = "delete"  -> s = None
      [] type = "archive" -> s = None \/ IsArchived(s)
      [] OTHER            -> ~IsArchived(s)

\* The latest intent of a resource shows, if it was processed, and if no two
\* intents of the resource were ever processed at once or out of their order.
LatestShows ==
    \A r \in Resources \ disordered : \A i \in DOMAIN rows :
        /\ rows[i].resource = r /\ rows[i].processed
        /\ \A j \in DOMAIN rows : rows[j].resource = r => j <= i
        /\ ~Running(i)
        => Shows(rows[i].type, bound[r])

\* A session is gone for good once it was deleted, except when an archive that
\* had looked it up before is still at its cleanup, and writes it back.
OnlyArchiveRevives ==
    [][\A r \in Resources :
          bound[r] = None /\ bound'[r] # None /\ bound'[r].id <= made =>
              \E run \in runs : /\ TypeOf(run) = "archive" /\ run.at = "cleanup"
                                /\ run.session.id = bound'[r].id]_vars

\* Live or drained, each intent is dealt with as often as it should be.
DrainSound == TypeOK /\ DeliveredOnce /\ DrainSettles

\* Every recorded intent is settled in the end, and a delete lastingly so.
IntentsSettle ==
    /\ \A i \in Ids : i \in DOMAIN rows ~> i \in DOMAIN rows /\ ~IsPending(i)
    /\ OnlyArchiveRevives
=============================================================================
