----------------------- MODULE PendingRequestsProofs -----------------------
(***************************************************************************)
(* Proofs about PendingRequests for any requests of each kind, any number  *)
(* of answers, announcements, ends of turns and crashes.                   *)
(***************************************************************************)
EXTENDS PendingRequests, FiniteSetTheorems, TLAPS

-----------------------------------------------------------------------------
(* The inductive invariant. *)

Present(r) == pending[r].status # "absent"

Opens(e, r)    == e.type = "opened" /\ e.request = r
Resolves(e, r) == e.type = "resolved" /\ e.request = r
Closes(e, r)   == e.type = "ended" \/ Resolves(e, r)

Queue == 1..Len(events)

\* The handler at an await works for the first event, on a row of the table.
Working ==
    /\ work.at # "idle" => /\ events # <<>> /\ Head1.type \in {"opened", "resolved"}
                           /\ work.row.status # "absent"
                           /\ Present(Head1.request)
    /\ work.at = "posting" => Head1.type = "opened"
    /\ work.at = "projecting" /\ Head1.type = "resolved" =>
           /\ work.row.status = "resolved"
           /\ Head1.request \in Approvals => work.row.decision = Head1.decision

\* Calls are about rows of the table, each of the kind its way is for.
Calling ==
    \A c \in Callers :
        /\ calls[c].at # "idle" => Present(calls[c].request)
        /\ calls[c].at = "checked" => calls[c].decision \in Answers(calls[c].request)
        /\ calls[c].at = "interrupted" => calls[c].request \in Inputs
        /\ calls[c].at \in {"executing", "performed"} => calls[c].request \in Tools

\* Answers are numbered as they begin.
Numbered == \A c \in Callers : c > asks => calls[c].at = "idle"

\* A row without status has no message; what recovery has read was open.
RowsSound ==
    /\ \A r \in Requests : ~Present(r) => ~pending[r].message
    /\ \A r \in Requests : todo[r] # Absent => todo[r].status = "open"
    /\ crashes = 0 => runtime = "up" /\ \A r \in Requests : todo[r] = Absent

\* The runs of a tool that no row can speak of: not written down, or not yet.
Spent(r) == unwritten[r] + Cardinality(InHand(r))

\* A tool that was carried out beyond those has a resolved row that says so, and
\* as long as it is being carried out for one call there is no other.
ToolsInv ==
    /\ \A r \in Tools : executed[r] >= Spent(r)
    /\ \A r \in Tools \ reopened : executed[r] > Spent(r) => IsResolved(r)
    /\ \A r \in Tools \ (orphaned \cup reopened) :
           IsResolved(r) /\ pending[r].decision = "accept" <=> executed[r] > Spent(r)

OneAtATime ==
    /\ \A c, d \in Callers :
           /\ calls[c].at \in {"executing", "performed"} /\ calls[d].at \in {"executing", "performed"}
           /\ calls[c].request = calls[d].request
           => c = d \/ calls[c].request \in doubled
    /\ \A c \in Callers : calls[c].request \in Tools \ (doubled \cup reopened) =>
           LET r == calls[c].request IN
           /\ calls[c].at = "executing" => executed[r] = unwritten[r]
           /\ calls[c].at = "performed" => executed[r] = unwritten[r] + 1

\* What the provider has answered it has done with, and its events say so.
Answered ==
    /\ \A r \in Asked : answer[r] # "none" => provider[r] = "done"
    /\ \A n \in Queue : \A r \in Asked :
           Resolves(events[n], r) => /\ provider[r] = "done" /\ Present(r)
                                     /\ r \in Approvals => events[n].decision = answer[r]

\* What the provider has asked is in the table or about to be.
Arriving ==
    crashes = 0 => \A r \in Asked :
        provider[r] # "new" => Present(r) \/ \E n \in Queue : Opens(events[n], r)

\* Nothing is announced behind event n.
LastWord(n, r) == \A m \in Queue : Opens(events[m], r) => m < n

\* What the provider no longer waits for is resolved, with nothing to follow, or
\* will be by an event behind its last announcement -- but for what an end of the
\* session left behind.
Closing ==
    crashes = 0 => \A r \in Asked \ unheeded : provider[r] \in {"done", "gone"} =>
        \/ \E n \in Queue : Closes(events[n], r) /\ LastWord(n, r)
        \/ IsResolved(r) /\ \A m \in Queue : ~Opens(events[m], r)

\* The same for the decision on an approval.
Deciding ==
    crashes = 0 => \A r \in Approvals \ orphaned : answer[r] # "none" =>
        \/ \E n \in Queue : Resolves(events[n], r) /\ LastWord(n, r)
        \/ /\ IsResolved(r) /\ pending[r].decision = answer[r]
           /\ \A m \in Queue : ~Opens(events[m], r)

BaseInv == TypeOK /\ Working /\ Calling /\ Numbered /\ RowsSound
IInv == BaseInv /\ ToolsInv /\ OneAtATime /\ ToolRunsOnce
        /\ Answered /\ Arriving /\ Closing /\ Deciding

-----------------------------------------------------------------------------
(* Rows and queues. *)

LEMMA Kinds ==
    /\ Approvals \subseteq Asked /\ Inputs \subseteq Asked
    /\ Asked \subseteq Requests /\ Tools \subseteq Requests
    /\ \A r \in Tools : r \notin Asked
    /\ \A r \in Approvals : r \notin Inputs
    /\ Requests = Asked \cup Tools /\ Asked = Approvals \cup Inputs
    /\ Verdicts \subseteq Decisions
BY KindsAssumption DEF Asked, Requests, Decisions

LEMMA FreshRows ==
    /\ Absent \in Row /\ Absent.status = "absent" /\ ~Absent.message
    /\ Opened \in Row /\ Opened.status = "open"
BY DEF Absent, Opened, Row, Decisions

LEMMA SettledRow ==
    ASSUME NEW row \in Row, NEW d \in Decisions
    PROVE  /\ Settled(row, d) \in Row
           /\ Settled(row, d).status = "resolved" /\ Settled(row, d).decision = d
BY DEF Settled, Row

\* Posting and resolving without a decision change what they name.
LEMMA EditedRow ==
    ASSUME NEW row \in Row
    PROVE  /\ [row EXCEPT !.message = TRUE] \in Row
           /\ [row EXCEPT !.message = TRUE].status = row.status
           /\ [row EXCEPT !.message = TRUE].decision = row.decision
           /\ [row EXCEPT !.status = "resolved"] \in Row
           /\ [row EXCEPT !.status = "resolved"].status = "resolved"
BY DEF Row

\* Put writes one row, and remembers if that row is set open again.
LEMMA PutRow ==
    ASSUME TypeOK, NEW r \in Requests, NEW row \in Row, Put(r, row)
    PROVE  /\ pending' = [pending EXCEPT ![r] = row]
           /\ reopened' = reopened \cup {q \in {r} : IsResolved(r) /\ row.status = "open"}
<1>1. DOMAIN [x \in {r} |-> row] = {r} /\ [x \in {r} |-> row][r] = row
  OBVIOUS
<1> QED BY <1>1 DEF Put, Upsert, TypeOK

\* The end of a turn cancels what is open.
LEMMA EndedRows ==
    ASSUME TypeOK, ProjectEnded
    PROVE  /\ pending' = [r \in Requests |-> IF IsOpen(r) THEN Settled(pending[r], "cancel") ELSE pending[r]]
           /\ reopened' = reopened
<1> DEFINE rows == [r \in Ending |-> Settled(pending[r], "cancel")]
<1>1. DOMAIN rows = Ending /\ Ending = {r \in Requests : IsOpen(r)}
  BY DEF Ending, OpenRows
<1>2. \A r \in Ending : rows[r] = Settled(pending[r], "cancel") /\ ~IsResolved(r)
  BY <1>1 DEF IsOpen, IsResolved
<1> QED BY <1>1, <1>2 DEF ProjectEnded, Upsert

\* An event that is added comes last and leaves the first one first.
LEMMA AddedEvent ==
    ASSUME TypeOK, NEW e \in Event, events' = Append(events, e)
    PROVE  /\ events' \in Seq(Event) /\ events' # <<>>
           /\ Len(events') = Len(events) + 1 /\ Len(events) \in Nat
           /\ \A n \in Queue : n \in Queue' /\ events'[n] = events[n]
           /\ events'[Len(events) + 1] = e /\ Len(events) + 1 \in Queue'
           /\ \A n \in Queue' : n \in Queue \/ (n = Len(events) + 1 /\ events'[n] = e)
           /\ events # <<>> => Head1' = Head1
<1>1. events \in Seq(Event) /\ Len(events) \in Nat
  BY DEF TypeOK
<1>2. Len(events') = Len(events) + 1 /\ events' \in Seq(Event) /\ events' # <<>>
  BY <1>1
<1>3. \A n \in Queue : n \in Queue' /\ events'[n] = events[n]
  BY <1>1, <1>2 DEF Queue
<1>4. events'[Len(events) + 1] = e /\ Len(events) + 1 \in Queue'
  BY <1>1, <1>2 DEF Queue
<1>5. \A n \in Queue' : n \in Queue \/ n = Len(events) + 1
  BY <1>1, <1>2 DEF Queue
<1>6. events # <<>> => Head1' = Head1
  <2>1. events # <<>> => 1 \in Queue /\ Head1 = events[1]
    BY <1>1 DEF Head1, Queue
  <2>2. Head1' = events'[1]
    BY <1>2 DEF Head1
  <2> QED BY <1>3, <2>1, <2>2
<1> QED BY <1>1, <1>2, <1>3, <1>4, <1>5, <1>6

\* The first event leaves; all others come one place nearer.
LEMMA HandledEvent ==
    ASSUME TypeOK, events # <<>>, events' = Tail(events)
    PROVE  /\ events' \in Seq(Event) /\ Len(events) \in Nat /\ Len(events) >= 1
           /\ Head1 = events[1] /\ 1 \in Queue /\ Head1 \in Event
           /\ \A n \in Queue : n # 1 => n - 1 \in Queue' /\ events'[n - 1] = events[n]
           /\ \A n \in Queue' : n + 1 \in Queue /\ events'[n] = events[n + 1]
<1>1. events \in Seq(Event) /\ Len(events) \in Nat /\ Len(events) >= 1
  BY DEF TypeOK
<1>2. events' \in Seq(Event) /\ Len(events') = Len(events) - 1
  BY <1>1
<1>3. \A n \in 1..Len(events') : events'[n] = events[n + 1]
  BY <1>1
<1> QED BY <1>1, <1>2, <1>3 DEF Queue, Head1

-----------------------------------------------------------------------------
(* Types. *)

CallType == [at : {"idle", "checked", "unknown", "interrupted", "executing", "performed"},
             request : Requests, decision : Decisions \cup {"none", "text"}, row : Row]

LEMMA InitialCall == NoCall \in CallType /\ NoCall.at = "idle"
<1>1. (CHOOSE r \in Requests : TRUE) \in Requests
  BY KindsAssumption DEF Requests, Asked
<1> QED BY <1>1, FreshRows DEF NoCall, CallType, Decisions

LEMMA InitTyped == Init => TypeOK
<1> SUFFICES ASSUME Init PROVE TypeOK
  OBVIOUS
<1>1. calls \in [Callers -> CallType]
  BY InitialCall DEF Init
<1>2. pending \in [Requests -> Row] /\ todo \in [Requests -> Row]
  BY FreshRows DEF Init
<1>3. work \in [at : {"idle", "posting", "projecting"}, row : Row]
  BY FreshRows DEF Init, NoWork
<1> QED BY <1>1, <1>2, <1>3, CallBounds DEF Init, TypeOK, CallType

\* The parts of the state that a step of the handler touches.
LEMMA PipelineTyped ==
    ASSUME TypeOK, Working, Pipeline
    PROVE  /\ pending' \in [Requests -> Row] /\ reopened' \subseteq Requests
           /\ work' \in [at : {"idle", "posting", "projecting"}, row : Row]
           /\ events' \in Seq(Event)
<1> DEFINE Shape == [at : {"idle", "posting", "projecting"}, row : Row]
<1>0. /\ events \in Seq(Event) /\ pending \in [Requests -> Row] /\ work \in Shape
      /\ NoWork \in Shape /\ reopened \subseteq Requests
  BY FreshRows DEF TypeOK, NoWork
<1>1. events # <<>> => Head1 \in Event /\ Tail(events) \in Seq(Event)
  BY <1>0 DEF Head1
<1>2. events # <<>> /\ Head1.type \in {"opened", "resolved"} =>
          /\ Head1.request \in Asked /\ Head1.request \in Requests
          /\ Head1.decision \in Decisions \cup {"none"}
  BY <1>1, Kinds DEF Event
<1>3. CASE ProjectOpened
  <2>1. Head1.request \in Requests /\ Put(Head1.request, Opened)
    BY <1>2, <1>3 DEF ProjectOpened, Handling
  <2>2. work' = [at |-> "posting", row |-> Opened] /\ UNCHANGED events
    BY <1>3 DEF ProjectOpened
  <2> QED BY <1>0, <2>1, <2>2, FreshRows, PutRow
<1>4. CASE ProjectKnown
  <2>1. Head1.request \in Requests /\ work' = [at |-> "projecting", row |-> pending[Head1.request]]
    BY <1>2, <1>4 DEF ProjectKnown, Handling
  <2> QED BY <1>0, <1>4, <2>1 DEF ProjectKnown
<1>5. CASE ProjectStale \/ PostFails \/ ProjectClosed
  BY <1>0, <1>1, <1>5 DEF ProjectStale, PostFails, ProjectClosed, Handled, Handling, Working
<1>6. CASE Posted
  <2>1. Head1.request \in Requests /\ work.row \in Row /\ Put(Head1.request, [work.row EXCEPT !.message = TRUE])
    BY <1>0, <1>2, <1>6 DEF Posted, Working
  <2>2. work' = [work EXCEPT !.at = "projecting"] /\ UNCHANGED events
    BY <1>6 DEF Posted
  <2>3. work' \in Shape
    BY <1>0, <2>2
  <2>4. [work.row EXCEPT !.message = TRUE] \in Row
    BY <2>1, EditedRow
  <2> QED BY <1>0, <2>1, <2>2, <2>3, <2>4, PutRow
<1>7. CASE ProjectResolved
  <2>1. events # <<>> /\ Head1.request \in Requests /\ pending[Head1.request] \in Row
    BY <1>0, <1>2, <1>7 DEF ProjectResolved, Handling
  <2>2. CASE pending[Head1.request].status = "absent"
    BY <1>0, <1>1, <1>7, <2>1, <2>2 DEF ProjectResolved, Handled
  <2>3. CASE pending[Head1.request].status # "absent"
    <3>1. Put(Head1.request, ResolvedRow(Head1)) /\ UNCHANGED events
          /\ work' = [at |-> "projecting", row |-> ResolvedRow(Head1)]
      BY <1>7, <2>3 DEF ProjectResolved
    <3>2. ResolvedRow(Head1) \in Row
      <4>1. Settled(pending[Head1.request], Head1.decision) \in Row
        BY <1>2, <1>7, <2>1 DEF ProjectResolved, Handling, Settled, Row
      <4> QED BY <2>1, <4>1, EditedRow DEF ResolvedRow
    <3> QED BY <1>0, <2>1, <3>1, <3>2, PutRow
  <2> QED BY <2>2, <2>3
<1>8. CASE Projected
  <2>1. events # <<>> /\ Head1.request \in Requests /\ work.row \in Row /\ Put(Head1.request, work.row)
    BY <1>0, <1>2, <1>8 DEF Projected, Working
  <2> QED BY <1>0, <1>1, <1>8, <2>1, PutRow DEF Projected, Handled
<1>9. CASE ProjectEnded
  <2>1. \A r \in Requests : Settled(pending[r], "cancel") \in Row
    BY <1>0, SettledRow DEF Decisions
  <2> QED BY <1>0, <1>1, <1>9, <2>1, EndedRows DEF ProjectEnded, Handled, Handling
<1> QED BY <1>3, <1>4, <1>5, <1>6, <1>7, <1>8, <1>9 DEF Pipeline

\* An answer leaves rows, events and calls of their types.
LEMMA CallTyped ==
    ASSUME TypeOK, Calling, NEW c \in Callers, Call(c)
    PROVE  /\ pending' \in [Requests -> Row] /\ reopened' \subseteq Requests
           /\ calls' \in [Callers -> CallType] /\ asks' \in 0..MaxCalls
           /\ events' \in Seq(Event)
           /\ provider' \in [Asked -> {"new", "waiting", "done", "gone"}]
           /\ answer' \in [Asked -> Decisions \cup {"none", "text"}]
           /\ executed' \in [Tools -> Nat] /\ unwritten' \in [Tools -> Nat]
           /\ unheeded' \subseteq Asked
           /\ orphaned' \subseteq Requests /\ doubled' \subseteq Tools
<1>0. /\ pending \in [Requests -> Row] /\ reopened \subseteq Requests
      /\ calls \in [Callers -> CallType] /\ calls[c] \in CallType /\ asks \in 0..MaxCalls
      /\ events \in Seq(Event)
      /\ provider \in [Asked -> {"new", "waiting", "done", "gone"}]
      /\ answer \in [Asked -> Decisions \cup {"none", "text"}]
      /\ executed \in [Tools -> Nat] /\ unwritten \in [Tools -> Nat] /\ unheeded \subseteq Asked
      /\ orphaned \subseteq Requests /\ doubled \subseteq Tools
      /\ \A r \in Tools : r \in Requests
  BY Kinds DEF TypeOK, CallType
<1>a. /\ calls[c].request \in Requests /\ calls[c].row \in Row
      /\ calls[c].decision \in Decisions \cup {"none", "text"}
  BY <1>0 DEF CallType
<1>b. Return(c) => calls' \in [Callers -> CallType]
  BY <1>0, InitialCall DEF Return
<1>c. Begin(c) => asks' \in 0..MaxCalls
  BY CallBounds DEF Begin, Callers
<1>d. Dropped \in [Asked -> {"new", "waiting", "done", "gone"}]
  BY <1>0 DEF Dropped
<1>1. ASSUME NEW r \in Tools, NEW d \in Verdicts, Refuse(c, r, d) PROVE pending' \in [Requests -> Row] /\ reopened' \subseteq Requests
  <2>1. Settled(pending[r], d) \in Row /\ Put(r, Settled(pending[r], d)) /\ r \in Requests
    BY <1>0, <1>1, SettledRow, Kinds DEF Refuse
  <2> QED BY <1>0, <2>1, PutRow
<1>2. ASSUME NEW r \in Tools, NEW d \in Verdicts, Refuse(c, r, d)
      PROVE  UNCHANGED <<calls, events, provider, answer, callHistory>> /\ Begin(c)
  BY <1>2 DEF Refuse
<1>3. ASSUME NEW r \in Requests, NEW d \in Decisions \cup {"none", "text"}, NEW row \in Row,
             NEW at \in {"executing", "checked"}, Standing(c, at, r, d, row)
      PROVE  calls' \in [Callers -> CallType]
  BY <1>0, <1>3 DEF Standing, CallType
<1>4. ASSUME NEW r \in Tools, Accept(c, r)
      PROVE  /\ UNCHANGED <<pending, reopened, events, provider, answer, executed, unwritten, unheeded, orphaned>>
             /\ Begin(c) /\ calls' \in [Callers -> CallType] /\ doubled' \subseteq Tools
  <2>1. calls' \in [Callers -> CallType]
    <3>1. pending[r] \in Row /\ r \in Requests /\ Standing(c, "executing", r, "accept", pending[r])
      BY <1>0, <1>4 DEF Accept
    <3> QED BY <1>3, <3>1 DEF Decisions
  <2> QED BY <1>0, <1>4, <2>1 DEF Accept
<1>5. CASE Executed(c)
  <2>2. AcceptedRow(c) \in Row /\ Put(calls[c].request, AcceptedRow(c))
    BY <1>a, <1>5, SettledRow DEF Executed, AcceptedRow, Decisions
  <2>3. pending' \in [Requests -> Row] /\ reopened' \subseteq Requests
    <3>1. PICK q \in Requests, row \in Row : Put(q, row)
      BY <1>a, <2>2
    <3> QED BY <1>0, <3>1, PutRow
  <2> QED BY <1>0, <1>b, <1>5, <2>3 DEF Executed, callHistory
<1>6. CASE Perform(c) \/ ExecutionFails(c) \/ Denied(c)
  <2>1. CASE Perform(c)
    <3>1. calls[c].request \in Tools
      BY <2>1 DEF Perform, Calling
    <3>2. calls' \in [Callers -> CallType]
      BY <1>0, <2>1 DEF Perform, CallType
    <3>3. executed' \in [Tools -> Nat]
      BY <1>0, <2>1, <3>1 DEF Perform
    <3> QED BY <1>0, <2>1, <3>2, <3>3 DEF Perform
  <2>2. CASE ExecutionFails(c)
    <3>1. calls[c].request \in Tools
      BY <2>2 DEF ExecutionFails, Calling
    <3>2. unwritten' \in [Tools -> Nat]
      BY <1>0, <2>2, <3>1 DEF ExecutionFails
    <3> QED BY <1>0, <1>b, <2>2, <3>2 DEF ExecutionFails
  <2> QED BY <1>0, <1>b, <1>6, <2>1, <2>2 DEF Denied, history
<1>7. ASSUME NEW r \in Requests, NEW d \in Answers(r), CheckOpen(c, r, d)
      PROVE  /\ UNCHANGED <<pending, events, provider, answer, history>>
             /\ Begin(c) /\ calls' \in [Callers -> CallType]
  <2>1. d \in Decisions \cup {"none", "text"}
    BY Kinds DEF Answers, Decisions
  <2> QED BY <1>3, <1>7, <2>1, FreshRows DEF CheckOpen
<1>8. CASE Delivered(c)
  <2>1. calls[c].request \in Asked /\ calls[c].decision \in Answers(calls[c].request)
    BY <1>8 DEF Delivered, Waiting, Calling
  <2>2. Said(calls[c].request, calls[c].decision) \in Decisions \cup {"none"}
    BY <2>1, Kinds DEF Said, Answers
  <2>3. [type |-> "resolved", request |-> calls[c].request,
         decision |-> Said(calls[c].request, calls[c].decision)] \in Event
    BY <2>1, <2>2 DEF Event
  <2>4. events' \in Seq(Event)
    BY <1>0, <1>8, <2>3 DEF Delivered
  <2>5. provider' \in [Asked -> {"new", "waiting", "done", "gone"}]
        /\ answer' \in [Asked -> Decisions \cup {"none", "text"}]
    BY <1>0, <1>a, <1>8, <2>1 DEF Delivered
  <2> QED BY <1>0, <1>b, <1>8, <2>4, <2>5 DEF Delivered, history
<1>9. CASE Refused(c)
  <2>1. calls' \in [Callers -> CallType]
    BY <1>0, <1>9 DEF Refused, CallType
  <2> QED BY <1>0, <1>9, <2>1 DEF Refused, history
<1>10. CASE Interrupt(c)
  <2>1. calls' \in [Callers -> CallType]
    BY <1>0, <1>10 DEF Interrupt, CallType
  <2>2. [type |-> "ended"] \in Event
    BY DEF Event
  <2>3. events' \in Seq(Event)
    BY <1>0, <1>10, <2>2 DEF Interrupt
  <2> QED BY <1>0, <1>d, <1>10, <2>1, <2>3 DEF Interrupt
<1>11. CASE CancelRow(c)
  <2>1. Settled(pending[calls[c].request], "cancel") \in Row
        /\ Put(calls[c].request, Settled(pending[calls[c].request], "cancel"))
    BY <1>0, <1>a, <1>11, SettledRow DEF CancelRow, Decisions
  <2>2. pending' \in [Requests -> Row] /\ reopened' \subseteq Requests
    BY <1>0, <1>a, <2>1, PutRow
  <2> QED BY <1>0, <1>a, <1>b, <1>11, <2>2 DEF CancelRow
<1>12. CASE \E r \in Tools, d \in Verdicts : Refuse(c, r, d)
  BY <1>0, <1>1, <1>2, <1>c, <1>12 DEF callHistory
<1>13. CASE \E r \in Tools : Accept(c, r)
  BY <1>0, <1>4, <1>c, <1>13
<1>14. CASE \E r \in Requests : \E d \in Answers(r) : CheckOpen(c, r, d)
  BY <1>0, <1>7, <1>c, <1>14 DEF history
<1> QED BY <1>5, <1>6, <1>8, <1>9, <1>10, <1>11, <1>12, <1>13, <1>14 DEF Call

\* No more calls have a tool in hand than there are.
LEMMA HandsFinite == \A r : IsFiniteSet(InHand(r)) /\ Cardinality(InHand(r)) \in Nat
<1>1. IsFiniteSet(Callers)
  BY FS_Interval, CallBounds DEF Callers
<1>2. \A r : InHand(r) \subseteq Callers
  BY DEF InHand
<1> QED BY <1>1, <1>2, FS_Subset, FS_CardinalityType

LEMMA NextTyped == TypeOK /\ Working /\ Calling /\ RowsSound /\ [Next]_vars => TypeOK'
<1> SUFFICES ASSUME TypeOK, Working, Calling, RowsSound, [Next]_vars PROVE TypeOK'
  OBVIOUS
<1>0. calls \in [Callers -> CallType] /\ events \in Seq(Event)
  BY DEF TypeOK, CallType
<1>1. ASSUME NEW r \in Asked, Announce(r) PROVE TypeOK'
  <2>1. [type |-> "opened", request |-> r, decision |-> "none"] \in Event
    BY <1>1 DEF Event
  <2>2. events' \in Seq(Event)
    BY <1>0, <1>1, <2>1 DEF Announce
  <2>3. provider' \in [Asked -> {"new", "waiting", "done", "gone"}]
    BY <1>1 DEF Announce, TypeOK
  <2>4. opens' \in Nat
    <3>1. opens \in Nat /\ opens' = opens + 1
      BY <1>1 DEF Announce, TypeOK
    <3> QED BY <3>1
  <2> QED BY <1>1, <2>2, <2>3, <2>4 DEF Announce, TypeOK, history
<1>2. CASE TurnEnds \/ SessionEnds
  <2>1. [type |-> "ended"] \in Event /\ [type |-> "closed"] \in Event
    BY DEF Event
  <2>2. events' \in Seq(Event)
    <3>1. PICK ev \in Event : events' = Append(events, ev)
      BY <1>2, <2>1 DEF TurnEnds, SessionEnds
    <3> QED BY <1>0, <3>1
  <2>3. provider' \in [Asked -> {"new", "waiting", "done", "gone"}] /\ unheeded' \subseteq Asked
    BY <1>2 DEF TurnEnds, SessionEnds, Dropped, TypeOK
  <2>4. ends' \in Nat
    <3>1. ends \in Nat /\ ends' = ends + 1
      BY <1>2 DEF TurnEnds, SessionEnds, TypeOK
    <3> QED BY <3>1
  <2>5. UNCHANGED endElse
    BY <1>2 DEF TurnEnds, SessionEnds
  <2> QED BY <1>2, <2>2, <2>3, <2>4, <2>5 DEF endElse, TypeOK
<1>3. CASE Pipeline
  <2>1. UNCHANGED pipelineElse
    BY <1>3 DEF Pipeline, ProjectOpened, ProjectKnown, ProjectStale, Posted, PostFails, ProjectResolved,
                Projected, ProjectEnded, ProjectClosed
  <2> QED BY <1>3, <2>1, PipelineTyped DEF pipelineElse, counters, TypeOK
<1>4. ASSUME NEW r \in Tools, AskApproval(r) PROVE TypeOK'
  <2>1. pending' \in [Requests -> Row] /\ reopened' \subseteq Requests
    <3>1. r \in Requests /\ Put(r, Opened)
      BY <1>4, Kinds DEF AskApproval
    <3>2. /\ pending' = [pending EXCEPT ![r] = Opened]
          /\ reopened' = reopened \cup {q \in {r} : IsResolved(r) /\ Opened.status = "open"}
      BY <3>1, PutRow, FreshRows
    <3> QED BY <3>1, <3>2, FreshRows DEF TypeOK
  <2> QED BY <1>4, <2>1 DEF AskApproval, pipelineElse, counters, TypeOK
<1>5. ASSUME NEW c \in Callers, Call(c) PROVE TypeOK'
  <2>1. UNCHANGED callElse
    BY <1>5 DEF Call, callHistory, Refuse, Accept, Perform, Executed, ExecutionFails, CheckOpen, Denied, Delivered, Refused,
                Interrupt, CancelRow
  <2> QED BY <1>5, <2>1, CallTyped DEF callElse, TypeOK, CallType
<1>6. CASE Crash
  <2>1. calls' \in [Callers -> CallType]
    BY <1>6, InitialCall DEF Crash
  <2>2. provider' \in [Asked -> {"new", "waiting", "done", "gone"}]
    BY <1>6 DEF Crash, Dropped, TypeOK
  <2>3. crashes' \in Nat
    BY <1>6, CallBounds DEF Crash, TypeOK
  <2>4. work' \in [at : {"idle", "posting", "projecting"}, row : Row] /\ events' \in Seq(Event)
    BY <1>6, FreshRows DEF Crash, NoWork
  <2>5. todo' \in [Requests -> Row]
    BY <1>6, FreshRows DEF Crash
  <2>6. unwritten' \in [Tools -> Nat]
    BY <1>6, HandsFinite DEF Crash, TypeOK
  <2> QED BY <1>6, <2>1, <2>2, <2>3, <2>4, <2>5, <2>6 DEF Crash, TypeOK, CallType
<1>7. CASE Start \/ RecoverOpenRequests
  BY <1>7, FreshRows DEF Start, RecoverOpenRequests, TypeOK, counters, history
<1>8. ASSUME NEW r \in Requests, Repost(r) PROVE TypeOK'
  <2>1. todo[r] \in Row /\ [todo[r] EXCEPT !.message = TRUE] \in Row
    BY EditedRow DEF TypeOK
  <2>2. pending' \in [Requests -> Row] /\ reopened' \subseteq Requests
    <3>1. PICK row \in Row : Put(r, row)
      BY <1>8, <2>1 DEF Repost
    <3>2. pending \in [Requests -> Row] /\ reopened \subseteq Requests
      BY DEF TypeOK
    <3> QED BY <3>1, <3>2, PutRow
  <2>3. todo' \in [Requests -> Row]
    BY <1>8, FreshRows DEF Repost, TypeOK
  <2> QED BY <1>8, <2>2, <2>3 DEF Repost, TypeOK, counters, callHistory
<1>9. CASE UNCHANGED vars
  BY <1>9 DEF vars, TypeOK, counters, history
<1> QED BY <1>1, <1>2, <1>3, <1>4, <1>5, <1>6, <1>7, <1>8, <1>9 DEF Next

-----------------------------------------------------------------------------
(* Who writes which row. *)

Written(r, row) ==
    /\ r \in Requests /\ row \in Row /\ row.status # "absent"
    /\ pending' = [pending EXCEPT ![r] = row]
    /\ reopened' = reopened \cup {q \in {r} : IsResolved(r) /\ row.status = "open"}

\* The handler writes the row of the first event; it sets it open only when it was
\* not resolved, or over an await of the event that opens it.
HandlerWrites ==
    /\ Pipeline /\ UNCHANGED pipelineElse
    /\ Head1.request \in Asked /\ Head1.type \in {"opened", "resolved"} /\ events # <<>>
    /\ \E row \in Row :
         /\ Written(Head1.request, row)
         /\ row.status = "open" => \/ ~IsResolved(Head1.request)
                                   \/ work.at # "idle" /\ Head1.type = "opened"

LEMMA HandlerStep ==
    ASSUME BaseInv, ProjectOpened \/ Posted \/ ProjectResolved \/ Projected
    PROVE  HandlerWrites \/ UNCHANGED <<pending, reopened>>
<1>0. /\ TypeOK /\ Working /\ RowsSound /\ events \in Seq(Event) /\ pending \in [Requests -> Row]
      /\ work \in [at : {"idle", "posting", "projecting"}, row : Row]
  BY DEF BaseInv, TypeOK
<1>1. events # <<>> /\ Head1.type \in {"opened", "resolved"}
  BY <1>0 DEF ProjectOpened, Posted, ProjectResolved, Projected, Handling, Working
<1>2. Head1.request \in Asked /\ Head1.request \in Requests /\ Head1.decision \in Decisions \cup {"none"}
  <2>1. Head1 \in Event
    BY <1>0, <1>1 DEF Head1
  <2> QED BY <1>1, <2>1, Kinds DEF Event
<1>3. Pipeline /\ UNCHANGED pipelineElse
  BY DEF Pipeline, ProjectOpened, Posted, ProjectResolved, Projected
<1>4. CASE ProjectOpened
  <2>1. Put(Head1.request, Opened) /\ ~IsResolved(Head1.request)
    BY <1>4 DEF ProjectOpened, MayOpen
  <2>2. Written(Head1.request, Opened)
    BY <1>0, <1>2, <2>1, PutRow, FreshRows DEF Written
  <2> QED BY <1>1, <1>2, <1>3, <2>1, <2>2, FreshRows DEF HandlerWrites
<1>5. CASE Posted
  <2> DEFINE row == [work.row EXCEPT !.message = TRUE]
  <2>1. Put(Head1.request, row) /\ row \in Row /\ row.status # "absent"
    BY <1>0, <1>5, EditedRow DEF Posted, Working
  <2>2. Written(Head1.request, row)
    BY <1>0, <1>2, <2>1, PutRow DEF Written
  <2>3. work.at # "idle" /\ Head1.type = "opened"
    BY <1>0, <1>5 DEF Posted, Working
  <2> QED BY <1>1, <1>2, <1>3, <2>1, <2>2, <2>3 DEF HandlerWrites
<1>6. CASE ProjectResolved
  <2>1. CASE pending[Head1.request].status = "absent"
    BY <1>6, <2>1 DEF ProjectResolved
  <2>2. CASE pending[Head1.request].status # "absent"
    <3>1. Put(Head1.request, ResolvedRow(Head1)) /\ Head1.type = "resolved"
      BY <1>6, <2>2 DEF ProjectResolved, Handling
    <3>2. ResolvedRow(Head1) \in Row /\ ResolvedRow(Head1).status = "resolved"
      <4>1. pending[Head1.request] \in Row
        BY <1>0, <1>2
      <4>2. /\ Settled(pending[Head1.request], Head1.decision) \in Row
            /\ Settled(pending[Head1.request], Head1.decision).status = "resolved"
        BY <1>2, <4>1 DEF Settled, Row
      <4> QED BY <4>1, <4>2, EditedRow DEF ResolvedRow
    <3>3. Written(Head1.request, ResolvedRow(Head1))
      BY <1>0, <1>2, <3>1, <3>2, PutRow DEF Written
    <3> QED BY <1>1, <1>2, <1>3, <3>2, <3>3 DEF HandlerWrites
  <2> QED BY <2>1, <2>2
<1>7. CASE Projected
  <2>1. Put(Head1.request, work.row) /\ work.row \in Row /\ work.row.status # "absent" /\ work.at = "projecting"
    BY <1>0, <1>7 DEF Projected, Working
  <2>2. Written(Head1.request, work.row)
    BY <1>0, <1>2, <2>1, PutRow DEF Written
  <2>3. work.row.status = "open" => Head1.type = "opened"
    BY <1>0, <1>1, <2>1 DEF Working
  <2> QED BY <1>1, <1>2, <1>3, <2>1, <2>2, <2>3 DEF HandlerWrites
<1> QED BY <1>4, <1>5, <1>6, <1>7

\* Every step that changes a row is one of these.
LEMMA StepWrites ==
    ASSUME BaseInv, [Next]_vars
    PROVE  \/ UNCHANGED <<pending, reopened>>
           \/ ProjectEnded
           \/ HandlerWrites
           \/ \E r \in Tools : AskApproval(r) /\ Written(r, Opened) /\ ~Present(r)
           \/ \E c \in Callers, r \in Tools, d \in Verdicts :
                 Refuse(c, r, d) /\ Written(r, Settled(pending[r], d))
           \/ \E c \in Callers : Executed(c) /\ Written(calls[c].request, AcceptedRow(c))
           \/ \E c \in Callers :
                 CancelRow(c) /\ Written(calls[c].request, Settled(pending[calls[c].request], "cancel"))
           \/ \E r \in Requests : Repost(r) /\ Written(r, [todo[r] EXCEPT !.message = TRUE])
<1>0. TypeOK /\ RowsSound /\ pending \in [Requests -> Row] /\ "cancel" \in Decisions /\ "accept" \in Decisions
  BY DEF BaseInv, TypeOK, Decisions
<1>a. \A c \in Callers : calls[c].request \in Requests /\ calls[c].row \in Row
  BY <1>0 DEF TypeOK
<1>1. ASSUME NEW r \in Tools, AskApproval(r) PROVE Written(r, Opened) /\ ~Present(r)
  <2>1. Put(r, Opened) /\ r \in Requests
    BY <1>1, Kinds DEF AskApproval
  <2> QED BY <1>0, <1>1, <2>1, PutRow, FreshRows DEF Written, AskApproval, Present
<1>2. ASSUME NEW c \in Callers, NEW r \in Tools, NEW d \in Verdicts, Refuse(c, r, d)
      PROVE  Written(r, Settled(pending[r], d))
  <2>1. Put(r, Settled(pending[r], d)) /\ r \in Requests /\ d \in Decisions
    BY <1>2, Kinds DEF Refuse
  <2>2. Settled(pending[r], d) \in Row /\ Settled(pending[r], d).status = "resolved"
    BY <1>0, <2>1, SettledRow
  <2> QED BY <1>0, <2>1, <2>2, PutRow DEF Written
<1>3. ASSUME NEW c \in Callers, Executed(c) PROVE Written(calls[c].request, AcceptedRow(c))
  <2>1. Put(calls[c].request, AcceptedRow(c))
    BY <1>3 DEF Executed
  <2>2. AcceptedRow(c) \in Row /\ AcceptedRow(c).status = "resolved"
    BY <1>0, <1>a, SettledRow DEF AcceptedRow
  <2> QED BY <1>0, <1>a, <2>1, <2>2, PutRow DEF Written
<1>4. ASSUME NEW c \in Callers, CancelRow(c)
      PROVE  Written(calls[c].request, Settled(pending[calls[c].request], "cancel"))
  <2>1. Put(calls[c].request, Settled(pending[calls[c].request], "cancel"))
    BY <1>4 DEF CancelRow
  <2>2. /\ Settled(pending[calls[c].request], "cancel") \in Row
        /\ Settled(pending[calls[c].request], "cancel").status = "resolved"
    BY <1>0, <1>a, SettledRow
  <2> QED BY <1>0, <1>a, <2>1, <2>2, PutRow DEF Written
<1>5. ASSUME NEW r \in Requests, Repost(r) PROVE Written(r, [todo[r] EXCEPT !.message = TRUE])
  <2>1. todo[r] \in Row /\ todo[r].status = "open" /\ Put(r, [todo[r] EXCEPT !.message = TRUE])
    BY <1>0, <1>5 DEF Repost, RowsSound, TypeOK
  <2>2. [todo[r] EXCEPT !.message = TRUE] \in Row /\ [todo[r] EXCEPT !.message = TRUE].status = "open"
    BY <2>1, EditedRow
  <2> QED BY <1>0, <2>1, <2>2, PutRow DEF Written
<1>6. CASE Pipeline
  BY <1>6, HandlerStep DEF Pipeline, ProjectKnown, ProjectStale, PostFails, ProjectClosed
<1>7. ASSUME NEW c \in Callers, Call(c), ~Executed(c), ~CancelRow(c),
             \A r \in Tools, d \in Verdicts : ~Refuse(c, r, d)
      PROVE  UNCHANGED <<pending, reopened>>
  BY <1>7 DEF Call, Accept, Perform, ExecutionFails, CheckOpen, Denied, Delivered, Refused, Interrupt, history
<1>8. CASE Crash \/ Start \/ RecoverOpenRequests \/ TurnEnds \/ SessionEnds \/ (\E r \in Asked : Announce(r)) \/ UNCHANGED vars
  BY <1>8 DEF Crash, Start, RecoverOpenRequests, TurnEnds, SessionEnds, endElse, Announce, history, vars
<1> QED BY <1>1, <1>2, <1>3, <1>4, <1>5, <1>6, <1>7, <1>8 DEF Next

\* A row stays in the table, and what was set open again is remembered.
LEMMA RowsKept ==
    ASSUME BaseInv, [Next]_vars, NEW r \in Requests
    PROVE  /\ Present(r) => Present(r)'
           /\ r \in reopened => r \in reopened'
           /\ IsResolved(r) /\ pending'[r].status = "open" => r \in reopened'
           /\ IsResolved(r) => IsResolved(r)' \/ r \in reopened'
<1>0. TypeOK /\ pending \in [Requests -> Row]
  BY DEF BaseInv, TypeOK
<1>1. CASE ProjectEnded
  <2>1. pending'[r] = IF IsOpen(r) THEN Settled(pending[r], "cancel") ELSE pending[r]
    BY <1>0, <1>1, EndedRows
  <2>2. Settled(pending[r], "cancel").status = "resolved"
    BY <1>0, SettledRow DEF Decisions
  <2> QED BY <1>0, <1>1, <2>1, <2>2, EndedRows DEF IsOpen, IsResolved, Present
<1>2. CASE UNCHANGED <<pending, reopened>>
  BY <1>2 DEF Present, IsResolved
<1>3. ASSUME NEW q \in Requests, NEW row \in Row, Written(q, row)
      PROVE  /\ Present(r) => Present(r)'
             /\ r \in reopened => r \in reopened'
             /\ IsResolved(r) => IsResolved(r)' \/ r \in reopened'
             /\ IsResolved(r) /\ pending'[r].status = "open" => r \in reopened'
  <2>1. row.status \in {"open", "resolved"}
    BY <1>3 DEF Written, Row
  <2> QED BY <1>0, <1>3, <2>1 DEF Written, Present, IsResolved
<1>4. \/ ProjectEnded \/ UNCHANGED <<pending, reopened>>
      \/ \E q \in Requests, row \in Row : Written(q, row)
  <2>1. \A q, row : Written(q, row) => q \in Requests /\ row \in Row
    BY DEF Written
  <2>2. HandlerWrites => \E q \in Requests, row \in Row : Written(q, row)
    BY <2>1 DEF HandlerWrites
  <2> QED BY <2>1, <2>2, StepWrites
<1> QED BY <1>1, <1>2, <1>3, <1>4

-----------------------------------------------------------------------------
(* The handler, the calls and the rows. *)

OpenedEvent(r) == [type |-> "opened", request |-> r, decision |-> "none"]
EndedEvent     == [type |-> "ended"]
ClosedEvent    == [type |-> "closed"]
AnswerEvent(c) == [type |-> "resolved", request |-> calls[c].request,
                   decision |-> Said(calls[c].request, calls[c].decision)]

LEMMA EventKinds ==
    /\ \A r \in Asked : OpenedEvent(r) \in Event /\ OpenedEvent(r).type = "opened" /\ OpenedEvent(r).request = r
    /\ EndedEvent \in Event /\ EndedEvent.type = "ended"
    /\ ClosedEvent \in Event /\ ClosedEvent.type = "closed"
    /\ \A e \in Event : /\ e.type \in {"opened", "resolved", "ended", "closed"}
                        /\ e.type \in {"opened", "resolved"} =>
                               /\ e.request \in Asked /\ e.request \in Requests
                               /\ e.decision \in Decisions \cup {"none"}
BY Kinds DEF OpenedEvent, EndedEvent, ClosedEvent, Event

\* What an answer that the provider takes adds to the events.
LEMMA AnswerKind ==
    ASSUME BaseInv, NEW c \in Callers, Delivered(c)
    PROVE  /\ AnswerEvent(c) \in Event /\ AnswerEvent(c).type = "resolved"
           /\ AnswerEvent(c).request = calls[c].request
           /\ calls[c].request \in Asked /\ calls[c].request \in Requests
           /\ Present(calls[c].request) /\ provider[calls[c].request] = "waiting"
           /\ provider' = [provider EXCEPT ![calls[c].request] = "done"]
           /\ answer' = [answer EXCEPT ![calls[c].request] = calls[c].decision]
           /\ calls[c].request \in Approvals => AnswerEvent(c).decision = calls[c].decision
<1>1. calls[c].request \in Asked /\ calls[c].decision \in Answers(calls[c].request)
      /\ provider[calls[c].request] = "waiting" /\ Present(calls[c].request)
  BY DEF Delivered, Waiting, BaseInv, Calling
<1>2. Said(calls[c].request, calls[c].decision) \in Decisions \cup {"none"}
  BY <1>1, Kinds DEF Said, Answers
<1>3. calls[c].request \in Approvals => Said(calls[c].request, calls[c].decision) = calls[c].decision
  BY Kinds DEF Said
<1> QED BY <1>1, <1>2, <1>3, Kinds DEF AnswerEvent, Event, Delivered

\* How events come and go.
LEMMA QueueStep ==
    ASSUME BaseInv, [Next]_vars
    PROVE  \/ UNCHANGED <<events, work, provider, answer>>
           \/ /\ UNCHANGED <<work, answer>>
              /\ \E r \in Asked : Announce(r) /\ events' = Append(events, OpenedEvent(r))
           \/ /\ UNCHANGED <<work, answer>> /\ provider' = Dropped
              /\ events' \in {Append(events, EndedEvent), Append(events, ClosedEvent)}
           \/ /\ UNCHANGED work
              /\ \E c \in Callers : Delivered(c) /\ events' = Append(events, AnswerEvent(c))
           \/ Pipeline /\ UNCHANGED <<provider, answer>>
           \/ Crash
<1>1. CASE Pipeline
  BY <1>1 DEF Pipeline, ProjectOpened, ProjectKnown, ProjectStale, Posted, PostFails, ProjectResolved,
                Projected, ProjectEnded, ProjectClosed, pipelineElse
<1>2. CASE TurnEnds \/ SessionEnds
  BY <1>2 DEF TurnEnds, SessionEnds, endElse, EndedEvent, ClosedEvent
<1>3. ASSUME NEW r \in Asked, Announce(r) PROVE UNCHANGED <<work, answer>> /\ events' = Append(events, OpenedEvent(r))
  BY <1>3 DEF Announce, OpenedEvent
<1>4. ASSUME NEW c \in Callers, Delivered(c) PROVE UNCHANGED work /\ events' = Append(events, AnswerEvent(c))
  BY <1>4 DEF Delivered, AnswerEvent, callElse
<1>5. ASSUME NEW c \in Callers, Interrupt(c)
      PROVE  UNCHANGED <<work, answer>> /\ events' = Append(events, EndedEvent) /\ provider' = Dropped
  BY <1>5 DEF Interrupt, EndedEvent, callElse
<1>6. ASSUME NEW c \in Callers, Call(c), ~Delivered(c), ~Interrupt(c)
      PROVE  UNCHANGED <<events, work, provider, answer>>
  BY <1>6 DEF Call, callHistory, Refuse, Accept, Perform, Executed, ExecutionFails, CheckOpen, Denied, Refused, CancelRow, callElse
<1>7. CASE (\E r \in Tools : AskApproval(r)) \/ Start \/ RecoverOpenRequests \/ (\E r \in Requests : Repost(r))
           \/ UNCHANGED vars
  BY <1>7 DEF AskApproval, Start, RecoverOpenRequests, Repost, pipelineElse, vars
<1> QED BY <1>1, <1>2, <1>3, <1>4, <1>5, <1>6, <1>7 DEF Next

\* The handler stands at the event it took.
LEMMA NextWorking == BaseInv /\ [Next]_vars => Working'
<1> SUFFICES ASSUME BaseInv, [Next]_vars PROVE Working'
  OBVIOUS
<1>0. /\ TypeOK /\ Working /\ RowsSound /\ events \in Seq(Event) /\ pending \in [Requests -> Row]
      /\ work \in [at : {"idle", "posting", "projecting"}, row : Row]
  BY DEF BaseInv, TypeOK
<1>a. events # <<>> => Head1 \in Event
  BY <1>0 DEF Head1
<1>b. work.at # "idle" => Head1.request \in Requests
  BY <1>0, <1>a, EventKinds DEF Working
<1>c. \A r \in Requests : pending[r].status # "absent" => pending'[r].status # "absent"
  BY RowsKept DEF Present
<1>1. ASSUME UNCHANGED work, events # <<>> => events' # <<>> /\ Head1' = Head1 PROVE Working'
  <2>1. work.at # "idle" => pending'[Head1.request].status # "absent"
    BY <1>0, <1>b, <1>c DEF Working, Present
  <2>2. work.at # "idle" => Head1' = Head1 /\ events' # <<>> /\ work' = work
    BY <1>0, <1>1 DEF Working
  <2>3. CASE work.at = "idle"
    BY <1>1, <2>3 DEF Working
  <2>4. CASE work.at # "idle"
    BY <1>0, <2>1, <2>2, <2>4 DEF Working, Present
  <2> QED BY <2>3, <2>4
<1>2. CASE UNCHANGED <<events, work>>
  BY <1>1, <1>2 DEF Head1
<1>3. ASSUME UNCHANGED work, NEW e \in Event, events' = Append(events, e) PROVE Working'
  BY <1>0, <1>1, <1>3, AddedEvent
<1>4. CASE work' = NoWork
  BY <1>4 DEF Working, NoWork
<1>5. CASE ProjectOpened \/ ProjectKnown
  <2>1. events # <<>> /\ Head1.type = "opened" /\ UNCHANGED events /\ Head1.request \in Requests
    BY <1>a, <1>5, EventKinds DEF ProjectOpened, ProjectKnown, Handling
  <2>2. CASE ProjectOpened
    <3>1. pending' = [pending EXCEPT ![Head1.request] = Opened] /\ work'.at = "posting" /\ work'.row = Opened
      BY <1>0, <2>1, <2>2, PutRow, FreshRows DEF ProjectOpened
    <3> QED BY <1>0, <2>1, <3>1, FreshRows DEF Working, Present, Head1
  <2>3. CASE ProjectKnown
    <3>1. Present(Head1.request) /\ UNCHANGED pending
      BY <1>0, <2>1, <2>3 DEF ProjectKnown, RowsSound
    <3>2. work'.at = "projecting" /\ work'.row = pending[Head1.request]
      BY <2>3 DEF ProjectKnown
    <3> QED BY <1>0, <2>1, <3>1, <3>2 DEF Working, Present, Head1
  <2> QED BY <1>5, <2>2, <2>3
<1>6. CASE Posted
  <2>1. /\ events # <<>> /\ Head1.type = "opened" /\ UNCHANGED events
        /\ work'.at = "projecting" /\ work'.row = work.row /\ work.row.status # "absent"
    BY <1>0, <1>6 DEF Posted, Working
  <2>2. pending'[Head1.request].status # "absent"
    BY <1>0, <1>b, <1>c, <1>6 DEF Posted, Working, Present
  <2> QED BY <2>1, <2>2 DEF Working, Present, Head1
<1>7. CASE ProjectResolved /\ pending[Head1.request].status # "absent"
  <2>1. /\ events # <<>> /\ Head1.type = "resolved" /\ UNCHANGED events
        /\ work'.at = "projecting" /\ work'.row = ResolvedRow(Head1)
    BY <1>7 DEF ProjectResolved, Handling
  <2>2. /\ Head1.request \in Requests /\ pending[Head1.request] \in Row
        /\ Head1.decision \in Decisions \cup {"none"}
    BY <1>0, <1>a, <2>1, EventKinds
  <2>3. /\ ResolvedRow(Head1).status = "resolved"
        /\ Head1.request \in Approvals => ResolvedRow(Head1).decision = Head1.decision
    BY <2>2 DEF ResolvedRow, Settled, Row
  <2>4. pending'[Head1.request].status # "absent"
    BY <1>7, <1>c, <2>2
  <2> QED BY <2>1, <2>3, <2>4 DEF Working, Present, Head1
<1>8. CASE Pipeline
  BY <1>4, <1>5, <1>6, <1>7, <1>8 DEF Pipeline, ProjectStale, PostFails, ProjectResolved, Projected,
                                      ProjectEnded, ProjectClosed, Handled
<1>9. CASE Crash
  BY <1>4, <1>9 DEF Crash
<1> QED BY <1>2, <1>3, <1>8, <1>9, QueueStep, EventKinds, AnswerKind

\* The calls and what they are about.
LEMMA NextCalling == BaseInv /\ [Next]_vars => Calling'
<1> SUFFICES ASSUME BaseInv, [Next]_vars PROVE Calling'
  OBVIOUS
<1>0. TypeOK /\ Calling /\ calls \in [Callers -> CallType] /\ \A c \in Callers : calls[c].request \in Requests
  BY DEF BaseInv, TypeOK, CallType
<1>a. \A r \in Requests : Present(r) => Present(r)'
  BY RowsKept
<1>1. CASE UNCHANGED calls
  BY <1>0, <1>a, <1>1 DEF Calling, Present
<1>2. ASSUME \A c \in Callers : calls'[c] \in {NoCall, calls[c]} PROVE Calling'
  BY <1>0, <1>a, <1>2, InitialCall DEF Calling, Present
<1>3. ASSUME NEW c \in Callers, NEW r \in Tools, Accept(c, r) PROVE Calling'
  <2>1. /\ calls' = [calls EXCEPT ![c] = [at |-> "executing", request |-> r, decision |-> "accept", row |-> pending[r]]]
        /\ r \in Requests /\ Present(r)
    BY <1>3, Kinds DEF Accept, Standing, MayAnswer, IsOpen, Present
  <2> QED BY <1>0, <1>a, <2>1 DEF Calling, Present
<1>4. ASSUME NEW c \in Callers, NEW r \in Requests, NEW d \in Answers(r), CheckOpen(c, r, d) PROVE Calling'
  <2>1. /\ calls' = [calls EXCEPT ![c] = [at |-> "checked", request |-> r, decision |-> d, row |-> Absent]]
        /\ Present(r)
    BY <1>4 DEF CheckOpen, Standing, MayAnswer, IsOpen, Present
  <2> QED BY <1>0, <1>a, <2>1 DEF Calling, Present
<1>5. ASSUME NEW c \in Callers, NEW at \in {"unknown", "interrupted", "performed"},
             calls' = [calls EXCEPT ![c].at = at], calls[c].at \in {"checked", "executing"},
             at = "interrupted" => calls[c].request \in Inputs,
             at = "performed" => calls[c].request \in Tools
      PROVE  Calling'
  <2>1. calls'[c].at = at /\ calls'[c].request = calls[c].request /\ \A d \in Callers \ {c} : calls'[d] = calls[d]
    BY <1>0, <1>5 DEF CallType
  <2>2. Present(calls[c].request)
    BY <1>0, <1>5 DEF Calling
  <2> QED BY <1>0, <1>a, <1>5, <2>1, <2>2 DEF Calling, Present
<1>6. ASSUME NEW c \in Callers, Call(c) PROVE Calling'
  <2>1. CASE Executed(c) \/ ExecutionFails(c) \/ Denied(c) \/ Delivered(c) \/ CancelRow(c)
    BY <1>0, <1>2, <2>1 DEF Perform, Executed, ExecutionFails, Denied, Delivered, CancelRow, Return
  <2>2. CASE Refused(c)
    BY <1>5, <2>2 DEF Refused
  <2>3. CASE Interrupt(c)
    BY <1>5, <2>3 DEF Interrupt, Interrupting
  <2>4. CASE Perform(c)
    BY <1>0, <1>5, <2>4 DEF Perform, Calling
  <2> QED BY <1>1, <1>3, <1>4, <1>6, <2>1, <2>2, <2>3, <2>4 DEF Call, Refuse
<1>7. CASE Crash
  BY <1>2, <1>7 DEF Crash
<1>8. ASSUME ~Crash, \A c \in Callers : ~Call(c) PROVE UNCHANGED calls
  BY <1>8 DEF Next, vars, Announce, TurnEnds, SessionEnds, endElse, Pipeline, ProjectOpened, ProjectKnown, ProjectStale, Posted,
     PostFails, ProjectResolved, Projected, ProjectEnded, ProjectClosed, AskApproval, Start, RecoverOpenRequests, Repost,
     pipelineElse
<1> QED BY <1>1, <1>6, <1>7, <1>8

\* Rows without status have no message, and recovery posts what was open.
LEMMA NextRowsSound == BaseInv /\ [Next]_vars => RowsSound'
<1> SUFFICES ASSUME BaseInv, [Next]_vars PROVE RowsSound'
  OBVIOUS
<1>0. TypeOK /\ RowsSound /\ pending \in [Requests -> Row] /\ todo \in [Requests -> Row]
  BY DEF BaseInv, TypeOK
<1>1. \A r \in Requests : ~Present(r)' => ~pending'[r].message
  <2> SUFFICES ASSUME NEW r \in Requests, ~Present(r)' PROVE pending'[r] = pending[r]
    BY <1>0, RowsKept DEF RowsSound
  <2>1. ASSUME NEW q, NEW row, Written(q, row) PROVE pending'[r] = pending[r]
    BY <1>0, <2>1 DEF Written, Present
  <2>2. CASE ProjectEnded
    <3>1. pending'[r] = IF IsOpen(r) THEN Settled(pending[r], "cancel") ELSE pending[r]
      BY <1>0, <2>2, EndedRows
    <3>2. ~Present(r)
      BY RowsKept
    <3> QED BY <3>1, <3>2 DEF IsOpen, Present
  <2> QED BY <2>1, <2>2, StepWrites DEF HandlerWrites
<1>2. CASE Crash
  <2>1. (\A r \in Requests : todo'[r] = Absent) /\ crashes' = crashes + 1 /\ crashes \in Nat
    BY <1>0, <1>2, CallBounds DEF Crash, TypeOK
  <2>2. crashes' # 0
    BY <2>1
  <2> QED BY <1>1, <2>1, <2>2 DEF RowsSound
<1>3. CASE Start
  <2>1. crashes # 0 /\ UNCHANGED <<crashes, todo>>
    BY <1>0, <1>3 DEF Start, RowsSound, counters
  <2> QED BY <1>0, <1>1, <2>1 DEF RowsSound
<1>4. CASE RecoverOpenRequests
  <2>1. crashes # 0 /\ UNCHANGED crashes
    BY <1>0, <1>4 DEF RecoverOpenRequests, RowsSound, counters
  <2>2. \A r \in Requests : todo'[r] = Absent \/ todo'[r].status = "open"
    BY <1>0, <1>4 DEF RecoverOpenRequests, IsOpen
  <2> QED BY <1>1, <2>1, <2>2 DEF RowsSound
<1>5. CASE \E r \in Requests : Repost(r)
  BY <1>0, <1>1, <1>5 DEF Repost, counters, RowsSound
<1>6. CASE UNCHANGED <<crashes, runtime, todo>>
  BY <1>0, <1>1, <1>6 DEF RowsSound
<1>7. ASSUME ~Crash, ~Start, ~RecoverOpenRequests, \A r \in Requests : ~Repost(r)
      PROVE  UNCHANGED <<crashes, runtime, todo>>
  BY <1>7 DEF Next, vars, Announce, TurnEnds, SessionEnds, endElse, Pipeline, ProjectOpened, ProjectKnown, ProjectStale, Posted,
     PostFails, ProjectResolved, Projected, ProjectEnded, ProjectClosed, AskApproval, pipelineElse, counters, Call, callHistory, Refuse,
     Accept, Perform, Executed, ExecutionFails, CheckOpen, Denied, Delivered, Refused, Interrupt, CancelRow, callElse
<1> QED BY <1>2, <1>3, <1>4, <1>5, <1>6, <1>7

LEMMA FreshCaller == ASSUME BaseInv, NEW c \in Callers, Begin(c) PROVE calls[c].at = "idle"
<1>1. asks \in Nat /\ c = asks + 1
  BY CallBounds DEF Begin, BaseInv, TypeOK
<1>2. c > asks
  BY <1>1
<1> QED BY <1>2 DEF BaseInv, Numbered

LEMMA NextNumbered == BaseInv /\ [Next]_vars => Numbered'
<1> SUFFICES ASSUME BaseInv, [Next]_vars PROVE Numbered'
  OBVIOUS
<1>0. /\ Numbered /\ calls \in [Callers -> CallType] /\ asks \in Nat /\ \A c \in Callers : c \in Nat
  BY CallBounds DEF BaseInv, TypeOK, CallType, Callers
<1>1. CASE UNCHANGED <<calls, asks>>
  BY <1>0, <1>1 DEF Numbered
<1>2. ASSUME NEW c \in Callers, Begin(c), \A d \in Callers \ {c} : calls'[d] = calls[d] PROVE Numbered'
  <2>1. asks' = c /\ c = asks + 1
    BY <1>2 DEF Begin
  <2> QED BY <1>0, <1>2, <2>1 DEF Numbered
<1>3. ASSUME NEW c \in Callers, calls[c].at # "idle", UNCHANGED asks, \A d \in Callers \ {c} : calls'[d] = calls[d]
      PROVE  Numbered'
  BY <1>0, <1>3 DEF Numbered
<1>4. ASSUME NEW c \in Callers, Call(c) PROVE Numbered'
  <2>1. ASSUME NEW r, NEW d, Refuse(c, r, d) \/ Accept(c, r) \/ CheckOpen(c, r, d) PROVE Numbered'
    BY <1>0, <1>2, <2>1 DEF Refuse, Accept, CheckOpen, Standing
  <2>2. CASE Perform(c) \/ Executed(c) \/ ExecutionFails(c) \/ Denied(c) \/ Delivered(c) \/ Refused(c)
             \/ Interrupt(c) \/ CancelRow(c)
    <3>1. UNCHANGED asks /\ calls[c].at # "idle"
      BY <2>2 DEF Perform, Executed, ExecutionFails, Denied, Delivered, Refused, Interrupt, CancelRow
    <3>2. \A d \in Callers \ {c} : calls'[d] = calls[d]
      BY <1>0, <2>2 DEF Perform, Executed, ExecutionFails, Denied, Delivered, Refused, Interrupt, CancelRow, Return
    <3> QED BY <1>3, <3>1, <3>2
  <2> QED BY <1>4, <2>1, <2>2 DEF Call
<1>5. CASE Crash
  BY <1>5, InitialCall DEF Crash, Numbered
<1>6. ASSUME ~Crash, \A c \in Callers : ~Call(c) PROVE UNCHANGED <<calls, asks>>
  BY <1>6 DEF Next, vars, counters, Announce, TurnEnds, SessionEnds, endElse, Pipeline, ProjectOpened,
     ProjectKnown, ProjectStale, Posted, PostFails, ProjectResolved, Projected, ProjectEnded, ProjectClosed,
     AskApproval, Start, RecoverOpenRequests, Repost, pipelineElse
<1> QED BY <1>1, <1>4, <1>5, <1>6

LEMMA NextBase == BaseInv /\ [Next]_vars => BaseInv'
BY NextTyped, NextWorking, NextCalling, NextNumbered, NextRowsSound DEF BaseInv

-----------------------------------------------------------------------------
(* Approvals of tools. *)

ToolsAll == ToolsInv /\ OneAtATime /\ ToolRunsOnce

\* Taking a call's tool up, or putting it down, counts one hand more or less.
LEMMA HandTaken ==
    ASSUME TypeOK, NEW c \in Callers, calls' = [calls EXCEPT ![c].at = "performed"],
           calls[c].at = "executing"
    PROVE  \A r : Cardinality(InHand(r))' =
                      IF r = calls[c].request THEN Cardinality(InHand(r)) + 1 ELSE Cardinality(InHand(r))
<1>0. calls \in [Callers -> CallType]
  BY DEF TypeOK, CallType
<1>1. /\ calls'[c].at = "performed" /\ calls'[c].request = calls[c].request
      /\ \A d \in Callers \ {c} : calls'[d] = calls[d]
  BY <1>0 DEF CallType
<1>2. \A r : InHand(r)' = IF r = calls[c].request THEN InHand(r) \cup {c} ELSE InHand(r)
  BY <1>1 DEF InHand
<1>3. \A r : c \notin InHand(r)
  BY DEF InHand
<1>4. \A r : Cardinality(InHand(r) \cup {c}) = Cardinality(InHand(r)) + 1
  BY <1>3, HandsFinite, FS_AddElement
<1> QED BY <1>2, <1>4

LEMMA HandEmptied ==
    ASSUME TypeOK, NEW c \in Callers, Return(c)
    PROVE  \A r : Cardinality(InHand(r))' =
                      IF calls[c].at = "performed" /\ r = calls[c].request
                      THEN Cardinality(InHand(r)) - 1 ELSE Cardinality(InHand(r))
<1>0. calls \in [Callers -> CallType]
  BY DEF TypeOK, CallType
<1>1. calls'[c].at = "idle" /\ \A d \in Callers \ {c} : calls'[d] = calls[d]
  BY <1>0, InitialCall DEF Return
<1>2. \A r : InHand(r)' = InHand(r) \ {c}
  BY <1>1 DEF InHand
<1>3. \A r : c \in InHand(r) <=> calls[c].at = "performed" /\ r = calls[c].request
  BY DEF InHand
<1>4. \A r : c \in InHand(r) => Cardinality(InHand(r) \ {c}) = Cardinality(InHand(r)) - 1
  BY HandsFinite, FS_RemoveElement
<1>5. \A r : c \notin InHand(r) => InHand(r) \ {c} = InHand(r)
  OBVIOUS
<1> QED BY <1>2, <1>3, <1>4, <1>5

\* The row of a tool goes on saying what became of the tool over any step that
\* does not write down that it was carried out.
LEMMA RecordKept ==
    ASSUME BaseInv, ToolsInv, [Next]_vars, NEW r \in Tools, r \notin orphaned', r \notin reopened',
           executed'[r] > Spent(r)' <=> executed[r] > Spent(r),
           \A c \in Callers : ~Executed(c)
    PROVE  IsResolved(r)' /\ pending'[r].decision = "accept" <=> executed'[r] > Spent(r)'
<1> DEFINE Beyond == executed[r] > Spent(r)
           Goal == pending'[r].status = "resolved" /\ pending'[r].decision = "accept" <=> Beyond
<1> SUFFICES Goal
  BY DEF IsResolved
<1>0. TypeOK /\ Working /\ Calling /\ pending \in [Requests -> Row] /\ r \in Requests /\ r \notin Asked
  BY Kinds DEF BaseInv, TypeOK
<1>1. r \notin orphaned /\ r \notin reopened
  <2>1. r \notin reopened
    BY <1>0, RowsKept
  <2>2. orphaned \subseteq orphaned'
    BY DEF Next, vars, history, Announce, TurnEnds, SessionEnds, endElse, Pipeline, ProjectOpened, ProjectKnown, ProjectStale, Posted,
       PostFails, ProjectResolved, Projected, ProjectEnded, ProjectClosed, AskApproval, pipelineElse, Call, callHistory, Refuse,
       Accept, Perform, Executed, ExecutionFails, CheckOpen, Denied, Delivered, Refused, Interrupt, CancelRow,
       Crash, Start, RecoverOpenRequests, Repost
  <2> QED BY <2>1, <2>2
<1>2. /\ Beyond => IsResolved(r)
      /\ IsResolved(r) /\ pending[r].decision = "accept" <=> Beyond
  BY <1>1 DEF ToolsInv
<1> HIDE DEF Beyond
<1>3. CASE pending'[r] = pending[r]
  BY <1>2, <1>3 DEF IsResolved
<1>4. CASE ProjectEnded
  <2>1. pending'[r] = IF IsOpen(r) THEN Settled(pending[r], "cancel") ELSE pending[r]
    BY <1>0, <1>4, EndedRows
  <2>2. Settled(pending[r], "cancel").decision = "cancel"
    BY <1>0, SettledRow DEF Decisions
  <2>3. IsOpen(r) => ~Beyond
    BY <1>2 DEF IsOpen, IsResolved
  <2> QED BY <1>3, <2>1, <2>2, <2>3
<1>5. CASE HandlerWrites
  BY <1>0, <1>3, <1>5 DEF HandlerWrites, Written
<1>6. ASSUME NEW q \in Tools, Written(q, Opened), ~Present(q) PROVE Goal
  <2>1. q = r => ~Beyond /\ pending'[r].status = "open"
    BY <1>0, <1>2, <1>6, FreshRows DEF Written, IsResolved, Present
  <2>2. q # r => pending'[r] = pending[r]
    BY <1>0, <1>6 DEF Written
  <2> QED BY <1>3, <2>1, <2>2
<1>7. ASSUME NEW c \in Callers, NEW q \in Tools, NEW d \in Verdicts, Refuse(c, q, d),
             Written(q, Settled(pending[q], d))
      PROVE  Goal
  <2>1. CASE q = r
    <3>1. IsOpen(r) /\ d # "accept" /\ pending'[r] = Settled(pending[r], d) /\ d \in Decisions
      BY <1>0, <1>7, <2>1, Kinds DEF Refuse, MayAnswer, Written
    <3>2. pending'[r].decision = d /\ ~Beyond
      BY <1>0, <1>2, <3>1, SettledRow DEF IsOpen, IsResolved
    <3> QED BY <3>1, <3>2
  <2>2. CASE q # r
    BY <1>0, <1>3, <1>7, <2>2 DEF Written
  <2> QED BY <2>1, <2>2
<1>8. ASSUME NEW c \in Callers, CancelRow(c),
             Written(calls[c].request, Settled(pending[calls[c].request], "cancel"))
      PROVE  Goal
  <2>1. calls[c].request # r
    <3>1. CASE calls[c].at = "unknown"
      BY <1>0, <1>8, <3>1 DEF CancelRow
    <3>2. CASE calls[c].at = "interrupted"
      BY <1>0, <3>2, Kinds DEF Calling
    <3> QED BY <1>8, <3>1, <3>2 DEF CancelRow
  <2> QED BY <1>0, <1>3, <1>8, <2>1 DEF Written
<1>9. ASSUME NEW q \in Requests, Repost(q), Written(q, [todo[q] EXCEPT !.message = TRUE])
      PROVE  Goal
  <2>1. /\ [todo[q] EXCEPT !.message = TRUE].status = "open"
        /\ [todo[q] EXCEPT !.message = TRUE] \in Row
    <3>1. todo[q] \in Row /\ todo[q].status = "open"
      BY <1>9 DEF Repost, BaseInv, RowsSound, TypeOK
    <3> QED BY <3>1, EditedRow
  <2>2. CASE q = r
    <3>1. pending'[r].status = "open" /\ ~IsResolved(r)
      BY <1>0, <1>9, <2>1, <2>2 DEF Written
    <3> QED BY <1>2, <3>1
  <2>3. CASE q # r
    BY <1>0, <1>3, <1>9, <2>3 DEF Written
  <2> QED BY <2>2, <2>3
<1> QED BY <1>3, <1>4, <1>5, <1>6, <1>7, <1>8, <1>9, StepWrites

\* So do all rows of tools.
LEMMA ToolsKept ==
    ASSUME BaseInv, ToolsInv, [Next]_vars, \A c \in Callers : ~Executed(c),
           \A r \in Tools : /\ executed'[r] >= Spent(r)'
                            /\ executed'[r] > Spent(r)' <=> executed[r] > Spent(r)
    PROVE  ToolsInv'
<1>1. ASSUME NEW r \in Tools, r \notin reopened', executed'[r] > Spent(r)' PROVE IsResolved(r)'
  <2>1. r \in Requests /\ r \notin reopened /\ (IsResolved(r) => IsResolved(r)')
    BY <1>1, Kinds, RowsKept
  <2> QED BY <1>1, <2>1 DEF ToolsInv
<1>2. ASSUME NEW r \in Tools, r \notin orphaned', r \notin reopened'
      PROVE  IsResolved(r)' /\ pending'[r].decision = "accept" <=> executed'[r] > Spent(r)'
  BY <1>2, RecordKept
<1> QED BY <1>1, <1>2 DEF ToolsInv

\* What the steps of calls and a crash need of the state they start from.
LEMMA ToolsTyped ==
    ASSUME BaseInv
    PROVE  /\ TypeOK /\ Calling /\ calls \in [Callers -> CallType]
           /\ executed \in [Tools -> Nat] /\ unwritten \in [Tools -> Nat]
           /\ \A r \in Tools : r \in Requests
           /\ \A r : Cardinality(InHand(r)) \in Nat
           /\ \A r \in Tools : Spent(r) \in Nat /\ executed[r] \in Nat /\ unwritten[r] \in Nat
           /\ \A r : (\A c \in Callers : calls[c].at = "performed" => calls[c].request # r) =>
                         Cardinality(InHand(r)) = 0
<1>1. \A r : Cardinality(InHand(r)) \in Nat
  BY HandsFinite
<1>2. \A r : (\A c \in Callers : calls[c].at = "performed" => calls[c].request # r) => InHand(r) = {}
  BY DEF InHand
<1>3. \A r : InHand(r) = {} => Cardinality(InHand(r)) = 0
  BY FS_EmptySet
<1>4. /\ TypeOK /\ Calling /\ calls \in [Callers -> CallType]
      /\ executed \in [Tools -> Nat] /\ unwritten \in [Tools -> Nat]
  BY DEF BaseInv, TypeOK, CallType
<1>5. \A r \in Tools : executed[r] \in Nat /\ unwritten[r] \in Nat
  BY <1>4
<1>6. \A r \in Tools : Spent(r) \in Nat
  BY <1>1, <1>5 DEF Spent
<1> QED BY <1>1, <1>2, <1>3, <1>4, <1>5, <1>6, Kinds

\* The tool of a call takes effect.
LEMMA PerformStep ==
    ASSUME BaseInv, ToolsAll, [Next]_vars, NEW c \in Callers, Perform(c)
    PROVE  ToolsAll'
<1> DEFINE r == calls[c].request
<1>0. /\ TypeOK /\ calls[c].at = "executing" /\ r \in Tools /\ calls \in [Callers -> CallType]
      /\ executed \in [Tools -> Nat] /\ UNCHANGED <<unwritten, doubled, reopened, orphaned, pending>>
      /\ calls' = [calls EXCEPT ![c].at = "performed"]
      /\ executed' = [executed EXCEPT ![r] = @ + 1]
  BY ToolsTyped DEF Perform, Calling
<1>1. /\ calls'[c].at = "performed" /\ calls'[c].request = r
      /\ \A d \in Callers \ {c} : calls'[d] = calls[d]
      /\ executed'[r] = executed[r] + 1 /\ \A q \in Tools \ {r} : executed'[q] = executed[q]
  BY <1>0 DEF CallType
<1>2. \A q \in Tools : Spent(q)' = IF q = r THEN Spent(q) + 1 ELSE Spent(q)
  <2>1. \A q : Cardinality(InHand(q))' =
                   IF q = r THEN Cardinality(InHand(q)) + 1 ELSE Cardinality(InHand(q))
    BY <1>0, HandTaken
  <2>2. \A q \in Tools : Cardinality(InHand(q)) \in Nat /\ unwritten[q] \in Nat
    BY ToolsTyped
  <2> QED BY <1>0, <2>1, <2>2 DEF Spent
<1>3. \A q \in Tools : Spent(q) \in Nat /\ executed[q] \in Nat /\ unwritten[q] \in Nat
  BY ToolsTyped
<1>4. ToolsInv'
  <2>1. \A q \in Tools : /\ executed'[q] >= Spent(q)'
                         /\ executed'[q] > Spent(q)' <=> executed[q] > Spent(q)
    BY <1>1, <1>2, <1>3 DEF ToolsAll, ToolsInv
  <2>2. \A d \in Callers : ~Executed(d)
    BY <1>0, <1>1, InitialCall DEF Executed, Return
  <2> QED BY <2>1, <2>2, ToolsKept DEF ToolsAll
<1>5. r \notin doubled \cup reopened =>
          executed[r] = unwritten[r] /\ \A d \in Callers \ {c} :
              calls[d].at \in {"executing", "performed"} => calls[d].request # r
  BY <1>0 DEF ToolsAll, OneAtATime
<1>6. OneAtATime'
  <2>1. \A d, e \in Callers :
           /\ calls'[d].at \in {"executing", "performed"} /\ calls'[e].at \in {"executing", "performed"}
           /\ calls'[d].request = calls'[e].request
           => d = e \/ calls'[d].request \in doubled
    BY <1>0, <1>1 DEF ToolsAll, OneAtATime
  <2>2. ASSUME NEW d \in Callers, calls'[d].request \in Tools \ (doubled \cup reopened)
        PROVE  /\ calls'[d].at = "executing" => executed'[calls'[d].request] = unwritten[calls'[d].request]
               /\ calls'[d].at = "performed" => executed'[calls'[d].request] = unwritten[calls'[d].request] + 1
    <3>1. CASE d = c
      BY <1>1, <1>5, <2>2, <3>1
    <3>2. CASE d # c
      <4>1. calls'[d] = calls[d]
        BY <1>1, <3>2
      <4>2. CASE calls[d].at \in {"executing", "performed"}
        <5>1. calls[d].request # r
          BY <1>5, <2>2, <3>2, <4>1, <4>2
        <5> QED BY <1>1, <2>2, <4>1, <5>1 DEF ToolsAll, OneAtATime
      <4> QED BY <4>1, <4>2
    <3> QED BY <3>1, <3>2
  <2> QED BY <1>0, <2>1, <2>2 DEF OneAtATime
<1>7. ToolRunsOnce'
  <2>1. \A q \in Tools \ (doubled \cup reopened) : executed'[q] <= unwritten[q] + 1
    BY <1>1, <1>3, <1>5 DEF ToolsAll, ToolRunsOnce
  <2> QED BY <1>0, <2>1 DEF ToolRunsOnce
<1> QED BY <1>4, <1>6, <1>7 DEF ToolsAll

\* Writing down that a tool was carried out makes its row say so.
LEMMA ExecutedStep ==
    ASSUME BaseInv, ToolsAll, [Next]_vars, NEW c \in Callers, Executed(c)
    PROVE  ToolsAll'
<1> DEFINE r == calls[c].request
<1>0. /\ TypeOK /\ calls[c].at = "performed" /\ r \in Tools /\ r \in Requests
      /\ pending \in [Requests -> Row] /\ calls \in [Callers -> CallType]
      /\ UNCHANGED <<executed, unwritten, doubled, orphaned>> /\ Return(c)
      /\ \A q \in Tools : q \in Requests
  BY ToolsTyped, Kinds DEF Executed, Calling, TypeOK, callHistory
<1>1. \A d \in Callers : calls'[d].at # "idle" => d # c /\ calls'[d] = calls[d]
  BY <1>0, InitialCall DEF Return
<1>2. AcceptedRow(c) \in Row /\ AcceptedRow(c).status = "resolved" /\ AcceptedRow(c).decision = "accept"
  <2>1. calls[c].row \in Row
    BY <1>0 DEF CallType
  <2> QED BY <2>1, SettledRow DEF AcceptedRow, Decisions
<1>3. pending' = [pending EXCEPT ![r] = AcceptedRow(c)] /\ reopened' = reopened
  <2>1. PICK q \in Requests : q = r
    BY <1>0
  <2>2. PICK row \in Row : row = AcceptedRow(c)
    BY <1>2
  <2>3. Put(q, row) /\ row.status = "resolved"
    BY <1>2, <2>1, <2>2 DEF Executed
  <2>4. pending' = [pending EXCEPT ![q] = row] /\ reopened' = reopened
    BY <1>0, <2>3, PutRow
  <2> QED BY <2>1, <2>2, <2>4
<1>4. /\ pending'[r].status = "resolved" /\ pending'[r].decision = "accept"
      /\ \A q \in Requests \ {r} : pending'[q] = pending[q]
  BY <1>0, <1>2, <1>3
<1>5. \A q \in Tools : /\ Spent(q) \in Nat /\ executed[q] \in Nat /\ executed[q] >= Spent(q)
                       /\ Spent(q)' = IF q = r THEN Spent(q) - 1 ELSE Spent(q)
  <2>1. \A q : Cardinality(InHand(q))' =
                   IF q = r THEN Cardinality(InHand(q)) - 1 ELSE Cardinality(InHand(q))
    BY <1>0, HandEmptied
  <2>2. \A q \in Tools : Cardinality(InHand(q)) \in Nat /\ unwritten[q] \in Nat /\ executed[q] \in Nat
    BY ToolsTyped
  <2> QED BY <1>0, <2>1, <2>2 DEF Spent, ToolsAll, ToolsInv
<1>6. ToolsInv'
  <2>1. \A q \in Tools : executed'[q] >= Spent(q)'
    BY <1>0, <1>5
  <2>2. \A q \in Tools \ reopened : executed'[q] > Spent(q)' => pending'[q].status = "resolved"
    BY <1>0, <1>4, <1>5 DEF ToolsAll, ToolsInv, IsResolved
  <2>3. \A q \in Tools \ (orphaned \cup reopened) :
           pending'[q].status = "resolved" /\ pending'[q].decision = "accept" <=> executed'[q] > Spent(q)'
    <3> SUFFICES ASSUME NEW q \in Tools \ (orphaned \cup reopened)
                 PROVE  pending'[q].status = "resolved" /\ pending'[q].decision = "accept" <=> executed'[q] > Spent(q)'
      OBVIOUS
    <3>1. CASE q = r
      BY <1>0, <1>4, <1>5, <3>1
    <3>2. CASE q # r
      <4>1. pending'[q] = pending[q] /\ Spent(q)' = Spent(q) /\ executed' = executed
        BY <1>0, <1>4, <1>5, <3>2
      <4> QED BY <4>1 DEF ToolsAll, ToolsInv, IsResolved
    <3> QED BY <3>1, <3>2
  <2> QED BY <1>0, <1>3, <2>1, <2>2, <2>3 DEF ToolsInv, IsResolved
<1>7. OneAtATime' /\ ToolRunsOnce'
  BY <1>0, <1>1, <1>3 DEF ToolsAll, OneAtATime, ToolRunsOnce
<1> QED BY <1>6, <1>7 DEF ToolsAll

\* A call that fails puts its tool down, carried out or not.
LEMMA FailsStep ==
    ASSUME BaseInv, ToolsAll, [Next]_vars, NEW c \in Callers, ExecutionFails(c)
    PROVE  ToolsAll'
<1> DEFINE r == calls[c].request
           performed == calls[c].at = "performed"
<1>0. /\ TypeOK /\ calls[c].at \in {"executing", "performed"} /\ r \in Tools /\ calls \in [Callers -> CallType]
      /\ unwritten \in [Tools -> Nat] /\ UNCHANGED <<executed, doubled, reopened, orphaned, pending>> /\ Return(c)
      /\ unwritten' = IF performed THEN [unwritten EXCEPT ![r] = @ + 1] ELSE unwritten
  BY ToolsTyped DEF ExecutionFails, Calling
<1>1. \A d \in Callers : calls'[d].at # "idle" => d # c /\ calls'[d] = calls[d]
  BY <1>0, InitialCall DEF Return
<1>2. \A q \in Tools : Spent(q)' = Spent(q)
  <2>1. \A q : Cardinality(InHand(q))' =
                   IF performed /\ q = r THEN Cardinality(InHand(q)) - 1 ELSE Cardinality(InHand(q))
    BY <1>0, HandEmptied
  <2>2. \A q \in Tools : Cardinality(InHand(q)) \in Nat /\ unwritten[q] \in Nat
    BY ToolsTyped
  <2>3. \A q \in Tools : unwritten'[q] = IF performed /\ q = r THEN unwritten[q] + 1 ELSE unwritten[q]
    BY <1>0
  <2> QED BY <1>0, <2>1, <2>2, <2>3 DEF Spent
<1>3. ToolsInv'
  <2>1. \A q \in Tools : /\ executed'[q] >= Spent(q)'
                         /\ executed'[q] > Spent(q)' <=> executed[q] > Spent(q)
    BY <1>0, <1>2 DEF ToolsAll, ToolsInv
  <2>2. ASSUME NEW d \in Callers, Executed(d) PROVE FALSE
    <3>1. calls[d].at = "performed" /\ calls'[d].at = "idle" /\ UNCHANGED unwritten
      BY <1>0, <2>2, InitialCall DEF Executed, Return, callHistory
    <3>2. d = c /\ performed
      BY <1>0, <3>1 DEF Return
    <3>3. unwritten'[r] = unwritten[r] + 1 /\ unwritten[r] \in Nat
      BY <1>0, <3>2
    <3> QED BY <3>1, <3>3
  <2> QED BY <2>1, <2>2, ToolsKept DEF ToolsAll
<1>4. \A q \in Tools \ {r} : unwritten'[q] = unwritten[q]
  BY <1>0
<1>5. OneAtATime'
  <2>1. \A d, e \in Callers :
           /\ calls'[d].at \in {"executing", "performed"} /\ calls'[e].at \in {"executing", "performed"}
           /\ calls'[d].request = calls'[e].request
           => d = e \/ calls'[d].request \in doubled
    BY <1>1 DEF ToolsAll, OneAtATime
  <2>2. ASSUME NEW d \in Callers, calls'[d].request \in Tools \ (doubled \cup reopened),
               calls'[d].at \in {"executing", "performed"}
        PROVE  /\ calls'[d].at = "executing" => executed[calls'[d].request] = unwritten'[calls'[d].request]
               /\ calls'[d].at = "performed" => executed[calls'[d].request] = unwritten'[calls'[d].request] + 1
    <3>1. d # c /\ calls'[d] = calls[d]
      BY <1>1, <2>2
    <3>2. calls[d].request # r
      BY <1>0, <2>2, <3>1 DEF ToolsAll, OneAtATime
    <3> QED BY <1>4, <2>2, <3>1, <3>2 DEF ToolsAll, OneAtATime
  <2> QED BY <1>0, <2>1, <2>2 DEF OneAtATime
<1>6. ToolRunsOnce'
  <2>1. \A q \in Tools : unwritten'[q] >= unwritten[q] /\ unwritten[q] \in Nat /\ unwritten'[q] \in Nat /\ executed[q] \in Nat
    BY <1>0, ToolsTyped
  <2> QED BY <1>0, <2>1 DEF ToolsAll, ToolRunsOnce
<1> QED BY <1>3, <1>5, <1>6 DEF ToolsAll

\* Accepting an approval sets a call to work, on a row that is open.
LEMMA AcceptStep ==
    ASSUME BaseInv, ToolsAll, [Next]_vars, NEW c \in Callers, NEW r \in Tools, Accept(c, r),
           calls[c].at # "performed"
    PROVE  ToolsAll'
<1>0. /\ TypeOK /\ calls \in [Callers -> CallType] /\ IsOpen(r)
      /\ UNCHANGED <<pending, reopened, executed, unwritten, orphaned>>
      /\ calls' = [calls EXCEPT ![c] = [at |-> "executing", request |-> r, decision |-> "accept", row |-> pending[r]]]
      /\ doubled' = IF Executing(r) THEN doubled \cup {r} ELSE doubled
  BY ToolsTyped DEF Accept, MayAnswer, Standing
<1>1. calls'[c].at = "executing" /\ calls'[c].request = r /\ \A d \in Callers \ {c} : calls'[d] = calls[d]
  BY <1>0
<1>2. \A q \in Tools : Spent(q)' = Spent(q)
  <2>1. \A q : InHand(q)' = InHand(q)
    BY <1>1 DEF InHand
  <2> QED BY <1>0, <2>1 DEF Spent
<1>3. ToolsInv'
  <2>1. \A q \in Tools : /\ executed'[q] >= Spent(q)'
                         /\ executed'[q] > Spent(q)' <=> executed[q] > Spent(q)
    BY <1>0, <1>2 DEF ToolsAll, ToolsInv
  <2>2. \A d \in Callers : ~Executed(d)
    BY <1>0, <1>1, InitialCall DEF Executed, Return
  <2> QED BY <2>1, <2>2, ToolsKept DEF ToolsAll
<1>4. doubled \subseteq doubled' /\ (r \notin doubled' => ~Executing(r))
  BY <1>0
<1>5. r \notin doubled' \cup reopened => executed[r] = unwritten[r]
  <2> SUFFICES ASSUME ~Executing(r), r \notin reopened PROVE executed[r] = unwritten[r]
    BY <1>4
  <2>1. Cardinality(InHand(r)) = 0
    BY ToolsTyped DEF Executing
  <2>2. executed[r] >= Spent(r) /\ ~(executed[r] > Spent(r))
    BY <1>0 DEF ToolsAll, ToolsInv, IsOpen, IsResolved
  <2> QED BY <2>1, <2>2, ToolsTyped DEF Spent
<1>6. OneAtATime'
  <2>1. ASSUME NEW d \in Callers, NEW e \in Callers, d # e,
           calls'[d].at \in {"executing", "performed"}, calls'[e].at \in {"executing", "performed"},
           calls'[d].request = calls'[e].request
        PROVE calls'[d].request \in doubled'
    <3>1. CASE d = c \/ e = c
      <4>1. Executing(r) /\ calls'[d].request = r
        BY <1>1, <2>1, <3>1 DEF Executing
      <4> QED BY <1>4, <4>1
    <3>2. CASE d # c /\ e # c
      BY <1>1, <1>4, <2>1, <3>2 DEF ToolsAll, OneAtATime
    <3> QED BY <3>1, <3>2
  <2>2. ASSUME NEW d \in Callers, calls'[d].request \in Tools \ (doubled' \cup reopened)
        PROVE  /\ calls'[d].at = "executing" => executed[calls'[d].request] = unwritten[calls'[d].request]
               /\ calls'[d].at = "performed" => executed[calls'[d].request] = unwritten[calls'[d].request] + 1
    <3>1. CASE d = c
      BY <1>1, <1>5, <2>2, <3>1
    <3>2. CASE d # c
      BY <1>1, <1>4, <2>2, <3>2 DEF ToolsAll, OneAtATime
    <3> QED BY <3>1, <3>2
  <2> QED BY <1>0, <2>1, <2>2 DEF OneAtATime
<1>7. ToolRunsOnce'
  BY <1>0, <1>4 DEF ToolsAll, ToolRunsOnce
<1> QED BY <1>3, <1>6, <1>7 DEF ToolsAll

\* A crash takes every tool out of the calls' hands.
LEMMA CrashStep == ASSUME BaseInv, ToolsAll, [Next]_vars, Crash PROVE ToolsAll'
<1>0. /\ TypeOK /\ calls' = [c \in Callers |-> NoCall]
      /\ unwritten' = [r \in Tools |-> unwritten[r] + Cardinality(InHand(r))]
      /\ UNCHANGED <<pending, executed, orphaned, doubled, reopened>> /\ runtime' = "down" /\ runtime # "down"
  BY DEF BaseInv, Crash
<1>1. \A c \in Callers : calls'[c].at = "idle"
  BY <1>0, InitialCall
<1>2. \A r \in Tools : Spent(r)' = Spent(r) /\ unwritten'[r] >= unwritten[r]
  <2>1. \A r : InHand(r)' = {}
    BY <1>1 DEF InHand
  <2>2. \A r \in Tools : unwritten[r] \in Nat /\ Cardinality(InHand(r)) \in Nat
    BY ToolsTyped
  <2>3. \A r : Cardinality(InHand(r))' = 0
    BY <2>1, FS_EmptySet
  <2>4. \A r \in Tools : unwritten'[r] = unwritten[r] + Cardinality(InHand(r))
    BY <1>0
  <2> QED BY <2>2, <2>3, <2>4 DEF Spent
<1>3. ToolsInv'
  <2>1. \A q \in Tools : /\ executed'[q] >= Spent(q)'
                         /\ executed'[q] > Spent(q)' <=> executed[q] > Spent(q)
    BY <1>0, <1>2 DEF ToolsAll, ToolsInv
  <2>2. \A d \in Callers : ~Executed(d)
    BY <1>0 DEF Executed, callElse
  <2> QED BY <2>1, <2>2, ToolsKept DEF ToolsAll
<1>4. OneAtATime'
  BY <1>1 DEF OneAtATime
<1>5. ToolRunsOnce'
  <2>1. \A r \in Tools : executed[r] \in Nat /\ unwritten[r] \in Nat /\ unwritten'[r] \in Nat
    <3>1. \A r \in Tools : unwritten[r] \in Nat /\ Cardinality(InHand(r)) \in Nat /\ executed[r] \in Nat
      BY ToolsTyped
    <3> QED BY <1>0, <3>1
  <2> QED BY <1>0, <1>2, <2>1 DEF ToolsAll, ToolRunsOnce
<1> QED BY <1>3, <1>4, <1>5 DEF ToolsAll

\* What every other step leaves alone.
LEMMA ToolsAside ==
    ASSUME BaseInv, [Next]_vars, ~Crash,
           \A c \in Callers : /\ ~Perform(c) /\ ~Executed(c) /\ ~ExecutionFails(c)
                              /\ \A r \in Tools : ~Accept(c, r)
                              /\ \A r \in Requests : \A d \in Answers(r) : CheckOpen(c, r, d) =>
                                     calls[c].at = "idle"
    PROVE  /\ UNCHANGED <<executed, unwritten, doubled>>
           /\ \A c \in Callers : \/ calls'[c] = calls[c]
                                 \/ {calls[c].at, calls'[c].at} \cap {"executing", "performed"} = {}
<1>0. calls \in [Callers -> CallType]
  BY DEF BaseInv, TypeOK, CallType
<1>1. UNCHANGED <<executed, unwritten, doubled>>
  BY DEF Next, vars, history, Announce, TurnEnds, SessionEnds, endElse, Pipeline, ProjectOpened, ProjectKnown,
       ProjectStale, Posted, PostFails, ProjectResolved, Projected, ProjectEnded, ProjectClosed, AskApproval,
       pipelineElse, Call, callHistory, Refuse, CheckOpen, Denied, Delivered, Refused, Interrupt, CancelRow,
       Start, RecoverOpenRequests, Repost
<1>2. ASSUME NEW c \in Callers, Call(c), NEW d \in Callers
      PROVE  calls'[d] = calls[d] \/ {calls[d].at, calls'[d].at} \cap {"executing", "performed"} = {}
  <2>1. CASE calls' = [calls EXCEPT ![c] = NoCall] /\ calls[c].at \notin {"executing", "performed"}
    BY <1>0, <2>1, InitialCall
  <2>2. ASSUME NEW at \in {"unknown", "interrupted"}, calls' = [calls EXCEPT ![c].at = at], calls[c].at = "checked"
        PROVE  calls'[d] = calls[d] \/ {calls[d].at, calls'[d].at} \cap {"executing", "performed"} = {}
    <3>1. d # c => calls'[d] = calls[d]
      BY <1>0, <2>2
    <3>2. calls'[c].at = at
      BY <1>0, <2>2 DEF CallType
    <3> QED BY <2>2, <3>1, <3>2
  <2>3. ASSUME NEW r \in Requests, NEW v \in Answers(r), CheckOpen(c, r, v)
        PROVE  calls'[d] = calls[d] \/ {calls[d].at, calls'[d].at} \cap {"executing", "performed"} = {}
    <3>1. calls' = [calls EXCEPT ![c] = [at |-> "checked", request |-> r, decision |-> v, row |-> Absent]]
          /\ calls[c].at = "idle"
      BY <2>3 DEF CheckOpen, Standing
    <3>2. (d # c => calls'[d] = calls[d]) /\ calls'[c].at = "checked"
      BY <1>0, <3>1
    <3> QED BY <3>1, <3>2
  <2>4. CASE UNCHANGED calls
    BY <2>4
  <2> QED BY <1>2, <2>1, <2>2, <2>3, <2>4 DEF Call, Refuse, Denied, Delivered, Refused, Interrupt,
                                        CancelRow, Return
<1>4. ASSUME \A c \in Callers : ~Call(c) PROVE UNCHANGED calls
  BY <1>4 DEF Next, vars, Announce, TurnEnds, SessionEnds, endElse, Pipeline, ProjectOpened, ProjectKnown, ProjectStale, Posted,
     PostFails, ProjectResolved, Projected, ProjectEnded, ProjectClosed, AskApproval, Start, RecoverOpenRequests, Repost,
     pipelineElse
<1> QED BY <1>1, <1>2, <1>4

LEMMA NextTools == BaseInv /\ ToolsAll /\ [Next]_vars => ToolsAll'
<1> SUFFICES ASSUME BaseInv, ToolsAll, [Next]_vars PROVE ToolsAll'
  OBVIOUS
<1>1. ASSUME NEW c \in Callers, Perform(c) \/ Executed(c) \/ ExecutionFails(c) PROVE ToolsAll'
  BY <1>1, PerformStep, ExecutedStep, FailsStep
<1>2. ASSUME NEW c \in Callers, NEW r \in Tools, Accept(c, r) PROVE ToolsAll'
  BY <1>2, AcceptStep, FreshCaller DEF Accept
<1>3. CASE Crash
  BY <1>3, CrashStep
<1>4. ASSUME ~Crash, \A c \in Callers : ~Perform(c) /\ ~Executed(c) /\ ~ExecutionFails(c)
                                        /\ \A r \in Tools : ~Accept(c, r)
      PROVE  ToolsAll'
  <2>1. /\ UNCHANGED <<executed, unwritten, doubled>>
        /\ \A c \in Callers : \/ calls'[c] = calls[c]
                              \/ {calls[c].at, calls'[c].at} \cap {"executing", "performed"} = {}
    BY <1>4, ToolsAside, FreshCaller DEF CheckOpen
  <2>2. \A c \in Callers : /\ calls'[c].at = "performed" <=> calls[c].at = "performed"
                           /\ calls'[c].at \in {"executing", "performed"} => calls'[c] = calls[c]
    BY <2>1
  <2>3. \A r \in Tools : Spent(r)' = Spent(r)
    <3>1. \A r : InHand(r)' = InHand(r)
      BY <2>1 DEF InHand
    <3> QED BY <2>1, <3>1 DEF Spent
  <2>4. ToolsInv'
    <3>1. \A q \in Tools : /\ executed'[q] >= Spent(q)'
                           /\ executed'[q] > Spent(q)' <=> executed[q] > Spent(q)
      BY <2>1, <2>3 DEF ToolsAll, ToolsInv
    <3> QED BY <1>4, <3>1, ToolsKept DEF ToolsAll
  <2>5. \A r \in Tools : r \in reopened => r \in reopened'
    BY RowsKept, Kinds
  <2>6. OneAtATime'
    <3>1. \A d, e \in Callers :
             /\ calls'[d].at \in {"executing", "performed"} /\ calls'[e].at \in {"executing", "performed"}
             /\ calls'[d].request = calls'[e].request
             => d = e \/ calls'[d].request \in doubled
      BY <2>2 DEF ToolsAll, OneAtATime
    <3>2. ASSUME NEW d \in Callers, calls'[d].request \in Tools \ (doubled \cup reopened'),
                 calls'[d].at \in {"executing", "performed"}
          PROVE  /\ calls'[d].at = "executing" => executed[calls'[d].request] = unwritten[calls'[d].request]
                 /\ calls'[d].at = "performed" => executed[calls'[d].request] = unwritten[calls'[d].request] + 1
      BY <2>2, <2>5, <3>2 DEF ToolsAll, OneAtATime
    <3> QED BY <2>1, <3>1, <3>2 DEF OneAtATime
  <2>7. ToolRunsOnce'
    BY <2>1, <2>5 DEF ToolsAll, ToolRunsOnce
  <2> QED BY <2>4, <2>6, <2>7 DEF ToolsAll
<1> QED BY <1>1, <1>2, <1>3, <1>4

-----------------------------------------------------------------------------
(* What the events still have to say. *)

\* An event behind all announcements stays there when another comes that does
\* not announce the request.
LEMMA WordAdded ==
    ASSUME TypeOK, NEW e \in Event, events' = Append(events, e), NEW r \in Asked, ~Opens(e, r)
    PROVE  /\ \A n \in Queue : LastWord(n, r) => n \in Queue' /\ LastWord(n, r)' /\ events'[n] = events[n]
           /\ \A n : n = Len(events) + 1 => LastWord(n, r)'
           /\ (\A m \in Queue : ~Opens(events[m], r)) => \A m \in Queue' : ~Opens(events'[m], r)
<1>1. /\ Len(events) \in Nat
      /\ \A n \in Queue : n \in Queue' /\ events'[n] = events[n]
      /\ \A n \in Queue' : n \in Queue \/ (n = Len(events) + 1 /\ events'[n] = e)
  BY AddedEvent
<1>2. \A m \in Queue' : Opens(events'[m], r) => m \in Queue /\ Opens(events[m], r)
  BY <1>1
<1>3. ASSUME NEW n, n = Len(events) + 1 PROVE LastWord(n, r)'
  <2>1. \A m \in Queue' : Opens(events'[m], r) => m < n
    BY <1>1, <1>2, <1>3 DEF Queue
  <2> QED BY <2>1 DEF LastWord, Opens
<1> QED BY <1>1, <1>2, <1>3 DEF LastWord, Opens

\* And when the first event leaves, unless it is that one.
LEMMA WordNearer ==
    ASSUME TypeOK, events # <<>>, events' = Tail(events), NEW r \in Asked
    PROVE  /\ \A n \in Queue : n # 1 /\ LastWord(n, r) =>
                  n - 1 \in Queue' /\ LastWord(n - 1, r)' /\ events'[n - 1] = events[n]
           /\ LastWord(1, r) => \A m \in Queue : ~Opens(events[m], r)
           /\ (\A m \in Queue : ~Opens(events[m], r)) => \A m \in Queue' : ~Opens(events'[m], r)
<1>1. /\ Len(events) \in Nat /\ events' \in Seq(Event)
      /\ \A n \in Queue : n # 1 => n - 1 \in Queue' /\ events'[n - 1] = events[n]
      /\ \A n \in Queue' : n + 1 \in Queue /\ events'[n] = events[n + 1]
  BY HandledEvent
<1>2. ASSUME NEW n \in Queue, n # 1, LastWord(n, r) PROVE LastWord(n - 1, r)'
  <2>1. ASSUME NEW m \in Queue', Opens(events'[m], r) PROVE m < n - 1
    <3>1. m + 1 \in Queue /\ Opens(events[m + 1], r)
      BY <1>1, <2>1 DEF Opens
    <3>2. m + 1 < n
      BY <1>2, <3>1 DEF LastWord
    <3>3. m \in Nat /\ n \in Nat
      <4>1. n \in Nat
        BY <1>1 DEF Queue
      <4>2. m \in 1..Len(events')
        BY DEF Queue
      <4> QED BY <4>1, <4>2
    <3> QED BY <3>2, <3>3
  <2> QED BY <2>1 DEF LastWord, Opens
<1>3. LastWord(1, r) => \A m \in Queue : ~Opens(events[m], r)
  BY DEF LastWord, Queue
<1> QED BY <1>1, <1>2, <1>3

\* The handler takes the first event off, and not before its row is written.
LEMMA HandledStep ==
    ASSUME BaseInv, Pipeline
    PROVE  \/ UNCHANGED events
           \/ /\ events # <<>> /\ events' = Tail(events)
              /\ \A r \in Asked : Opens(Head1, r) => Present(r)
<1>1. CASE ProjectStale
  BY <1>1, EventKinds DEF ProjectStale, Handled, Handling, MayOpen, IsResolved, Opens, Present
<1>2. CASE PostFails \/ Projected
  BY <1>2 DEF PostFails, Projected, Handled, BaseInv, Working, Opens, Present
<1>3. CASE ProjectResolved \/ ProjectEnded \/ ProjectClosed
  BY <1>3 DEF ProjectResolved, ProjectEnded, ProjectClosed, Handled, Handling, Opens
<1> QED BY <1>1, <1>2, <1>3 DEF Pipeline, ProjectOpened, ProjectKnown, Posted

\* Apart from the handler nobody sets a request of the provider open again, as
\* long as nothing crashed, or writes its decision without a refused answer.
LEMMA AskedRowStays ==
    ASSUME BaseInv, [Next]_vars, ~Pipeline, crashes = 0, NEW r \in Asked
    PROVE  \/ pending'[r] = pending[r]
           \/ pending'[r].status = "resolved" /\ (r \in Approvals => r \in orphaned')
<1>0. TypeOK /\ Calling /\ pending \in [Requests -> Row] /\ r \in Requests /\ r \notin Tools
      /\ \A q \in Requests : todo[q] = Absent
  BY Kinds DEF BaseInv, RowsSound, TypeOK
<1>1. ASSUME NEW q, NEW row, Written(q, row), q # r PROVE pending'[r] = pending[r]
  BY <1>0, <1>1 DEF Written
<1>2. ASSUME NEW c \in Callers, CancelRow(c), calls[c].request = r,
             Written(calls[c].request, Settled(pending[calls[c].request], "cancel"))
      PROVE  pending'[r].status = "resolved" /\ (r \in Approvals => r \in orphaned')
  <2>1. pending'[r] = Settled(pending[r], "cancel") /\ pending[r] \in Row
    BY <1>0, <1>2 DEF Written
  <2>2. r \in Approvals => calls[c].at = "unknown"
    BY <1>2, Kinds DEF CancelRow, BaseInv, Calling
  <2> QED BY <1>2, <2>1, <2>2, SettledRow DEF CancelRow, Decisions
<1>3. \A c \in Callers : Executed(c) => calls[c].request \in Tools
  BY <1>0 DEF Executed, Calling
<1>4. \A q \in Requests : ~Repost(q)
  BY <1>0 DEF Repost
<1>5. ~ProjectEnded /\ ~HandlerWrites
  BY DEF Pipeline, HandlerWrites
<1> QED BY <1>0, <1>1, <1>2, <1>3, <1>4, <1>5, StepWrites

\* The handler does not set a resolved request open without an announcement.
LEMMA HandlerKeeps ==
    ASSUME BaseInv, [Next]_vars, Pipeline, NEW r \in Asked, IsResolved(r), ~Opens(Head1, r)
    PROVE  /\ pending'[r].status = "resolved"
           /\ ~Resolves(Head1, r) => pending'[r] = pending[r]
<1>0. TypeOK /\ pending \in [Requests -> Row] /\ r \in Requests
  BY Kinds DEF BaseInv, TypeOK
<1>1. CASE HandlerWrites
  <2>1. PICK row \in Row : /\ Written(Head1.request, row)
                           /\ row.status = "open" => \/ ~IsResolved(Head1.request)
                                                     \/ work.at # "idle" /\ Head1.type = "opened"
    BY <1>1 DEF HandlerWrites
  <2>2. Head1.type \in {"opened", "resolved"} /\ Head1.request \in Requests
    BY <1>1, Kinds DEF HandlerWrites
  <2>3. CASE Head1.request = r
    <3>1. pending'[r] = row /\ row.status \in {"open", "resolved"}
      BY <1>0, <2>1, <2>3 DEF Written, Row
    <3> QED BY <2>1, <2>2, <2>3, <3>1 DEF Opens, Resolves
  <2>4. CASE Head1.request # r
    BY <1>0, <2>1, <2>4 DEF Written, IsResolved
  <2> QED BY <2>3, <2>4
<1>2. CASE ProjectEnded
  BY <1>0, <1>2, EndedRows DEF IsOpen, IsResolved
<1>3. CASE UNCHANGED <<pending, reopened>>
  BY <1>3 DEF IsResolved
<1>4. HandlerWrites \/ ProjectEnded \/ UNCHANGED <<pending, reopened>>
  BY HandlerStep DEF Pipeline, ProjectKnown, ProjectStale, PostFails, ProjectClosed
<1> QED BY <1>1, <1>2, <1>3, <1>4

\* Nothing but a crash makes crashes, and no refused answer is forgotten.
LEMMA HistoryKept ==
    ASSUME BaseInv, [Next]_vars
    PROVE  (crashes' = 0 => crashes = 0 /\ ~Crash) /\ orphaned \subseteq orphaned'
<1>1. orphaned \subseteq orphaned'
  BY DEF Next, vars, history, Announce, TurnEnds, SessionEnds, endElse, Pipeline, ProjectOpened, ProjectKnown, ProjectStale, Posted,
     PostFails, ProjectResolved, Projected, ProjectEnded, ProjectClosed, AskApproval, pipelineElse, Call, callHistory, Refuse,
     Accept, Perform, Executed, ExecutionFails, CheckOpen, Denied, Delivered, Refused, Interrupt, CancelRow,
     Crash, Start, RecoverOpenRequests, Repost
<1>2. CASE Crash
  <2>1. crashes' = crashes + 1 /\ crashes \in Nat
    BY <1>2, CallBounds DEF Crash, BaseInv, TypeOK
  <2>2. crashes' # 0
    BY <2>1
  <2> QED BY <1>1, <2>2
<1>3. CASE ~Crash
  <2>1. UNCHANGED crashes
    BY <1>3 DEF Next, vars, counters, Announce, TurnEnds, SessionEnds, endElse, Pipeline, ProjectOpened, ProjectKnown, ProjectStale,
       Posted, PostFails, ProjectResolved, Projected, ProjectEnded, ProjectClosed, AskApproval, pipelineElse, Call, callHistory, Refuse,
       Accept, Perform, Executed, ExecutionFails, CheckOpen, Denied, Delivered, Refused, Interrupt, CancelRow, callElse,
       Start, RecoverOpenRequests, Repost
  <2> QED BY <1>1, <1>3, <2>1
<1> QED BY <1>2, <1>3

\* How a step treats the events, for the invariants about them.
LEMMA EventCases ==
    ASSUME BaseInv, [Next]_vars
    PROVE  \/ UNCHANGED <<events, provider, answer>> /\ ~Pipeline
           \/ \E r \in Asked : /\ UNCHANGED <<answer, pending>> /\ provider[r] \in {"new", "waiting"}
                               /\ provider' = [provider EXCEPT ![r] = "waiting"]
                               /\ events' = Append(events, OpenedEvent(r))
           \/ /\ UNCHANGED <<answer, pending>> /\ provider' = Dropped
              /\ events' = Append(events, EndedEvent)
           \/ /\ UNCHANGED <<answer, pending>> /\ provider' = Dropped
              /\ unheeded' = unheeded \cup {r \in Asked : provider[r] = "waiting"}
              /\ events' = Append(events, ClosedEvent)
           \/ \E c \in Callers : /\ Delivered(c) /\ UNCHANGED pending
                                 /\ events' = Append(events, AnswerEvent(c))
           \/ Pipeline /\ UNCHANGED <<events, provider, answer>>
           \/ /\ Pipeline /\ UNCHANGED <<provider, answer>>
              /\ events # <<>> /\ events' = Tail(events)
              /\ \A r \in Asked : Opens(Head1, r) => Present(r)
           \/ Crash
<1>1. ASSUME NEW r \in Asked, Announce(r)
      PROVE  /\ UNCHANGED <<answer, pending>> /\ provider[r] \in {"new", "waiting"}
             /\ provider' = [provider EXCEPT ![r] = "waiting"]
             /\ events' = Append(events, OpenedEvent(r))
  BY <1>1 DEF Announce, OpenedEvent
<1>2. TurnEnds => UNCHANGED <<answer, pending>> /\ provider' = Dropped /\ events' = Append(events, EndedEvent)
  BY DEF TurnEnds, endElse, EndedEvent
<1>a. SessionEnds => /\ UNCHANGED <<answer, pending>> /\ provider' = Dropped
                     /\ unheeded' = unheeded \cup {r \in Asked : provider[r] = "waiting"}
                     /\ events' = Append(events, ClosedEvent)
  BY DEF SessionEnds, endElse, ClosedEvent
<1>3. \A c \in Callers : Interrupt(c) =>
          UNCHANGED <<answer, pending>> /\ provider' = Dropped /\ events' = Append(events, EndedEvent)
  BY DEF Interrupt, EndedEvent
<1>4. \A c \in Callers : Delivered(c) => UNCHANGED pending /\ events' = Append(events, AnswerEvent(c))
  BY DEF Delivered, AnswerEvent
<1>5. CASE Pipeline
  <2>1. UNCHANGED <<provider, answer>>
    BY <1>5 DEF Pipeline, ProjectOpened, ProjectKnown, ProjectStale, Posted, PostFails, ProjectResolved,
                Projected, ProjectEnded, ProjectClosed, pipelineElse
  <2> QED BY <1>5, <2>1, HandledStep
<1>6. ASSUME ~Pipeline, ~Crash, ~TurnEnds, ~SessionEnds, \A c \in Callers : ~Delivered(c) /\ ~Interrupt(c),
             \A r \in Asked : ~Announce(r)
      PROVE  UNCHANGED <<events, provider, answer>>
  BY <1>6 DEF Next, vars, AskApproval, pipelineElse, Call, callHistory, Refuse, Accept, Perform, Executed, ExecutionFails, CheckOpen,
     Denied, Refused, CancelRow, Start, RecoverOpenRequests, Repost
<1> QED BY <1>1, <1>2, <1>a, <1>3, <1>4, <1>5, <1>6

\* Events about an answer say what was answered.
LEMMA NextAnswered == BaseInv /\ Answered /\ [Next]_vars => Answered'
<1> SUFFICES ASSUME BaseInv, Answered, [Next]_vars PROVE Answered'
  OBVIOUS
<1>0. /\ TypeOK /\ provider \in [Asked -> {"new", "waiting", "done", "gone"}]
      /\ answer \in [Asked -> Decisions \cup {"none", "text"}]
      /\ Asked \subseteq Requests
  BY Kinds DEF BaseInv, TypeOK
<1>a. \A r \in Asked : Present(r) => pending'[r].status # "absent"
  BY <1>0, RowsKept DEF Present
<1>1. ASSUME UNCHANGED <<provider, answer>>,
             \A n \in Queue' : \E m \in Queue : events'[n] = events[m]
      PROVE  Answered'
  BY <1>a, <1>1 DEF Answered, Resolves, Present
<1>2. ASSUME NEW e \in Event, e.type # "resolved", events' = Append(events, e), UNCHANGED answer,
             \A r \in Asked : provider[r] = "done" => provider'[r] = "done"
      PROVE  Answered'
  <2>2. \A n \in Queue' : events'[n].type = "resolved" => n \in Queue /\ events'[n] = events[n]
    BY <1>0, <1>2, AddedEvent
  <2>3. ASSUME NEW n \in Queue', NEW r \in Asked, Resolves(events'[n], r)
        PROVE  /\ provider'[r] = "done" /\ pending'[r].status # "absent"
               /\ r \in Approvals => events'[n].decision = answer'[r]
    <3>1. n \in Queue /\ events'[n] = events[n]
      BY <2>2, <2>3 DEF Resolves
    <3>2. provider[r] = "done" /\ Present(r) /\ (r \in Approvals => events[n].decision = answer[r])
      BY <2>3, <3>1 DEF Answered
    <3> QED BY <1>a, <1>2, <3>1, <3>2
  <2>4. \A r \in Asked : answer'[r] # "none" => provider'[r] = "done"
    BY <1>2 DEF Answered
  <2> QED BY <2>3, <2>4 DEF Answered, Resolves, Present
<1>3. ASSUME NEW c \in Callers, Delivered(c), events' = Append(events, AnswerEvent(c)) PROVE Answered'
  <2> DEFINE q == calls[c].request
             d == calls[c].decision
             e == AnswerEvent(c)
  <2>1. /\ e \in Event /\ e.type = "resolved" /\ e.request = q /\ q \in Asked
        /\ Present(q) /\ provider[q] = "waiting"
        /\ provider' = [provider EXCEPT ![q] = "done"] /\ answer' = [answer EXCEPT ![q] = d]
        /\ q \in Approvals => e.decision = d
    BY <1>3, AnswerKind
  <2>2. \A n \in Queue' : (n \in Queue /\ events'[n] = events[n]) \/ events'[n] = e
    BY <1>0, <1>3, <2>1, AddedEvent
  <2>3. \A n \in Queue : ~Resolves(events[n], q)
    BY <2>1 DEF Answered
  <2>4. /\ provider'[q] = "done" /\ answer'[q] = d
        /\ \A r \in Asked \ {q} : provider'[r] = provider[r] /\ answer'[r] = answer[r]
    BY <1>0, <2>1
  <2> HIDE DEF q, d, e
  <2>5. \A r \in Asked : answer'[r] # "none" => provider'[r] = "done"
    BY <2>4 DEF Answered
  <2>6. ASSUME NEW n \in Queue', NEW r \in Asked, Resolves(events'[n], r)
        PROVE  /\ provider'[r] = "done" /\ pending'[r].status # "absent"
               /\ r \in Approvals => events'[n].decision = answer'[r]
    <3>1. CASE r = q
      BY <1>a, <2>1, <2>2, <2>3, <2>4, <2>6, <3>1
    <3>2. CASE r # q
      BY <1>a, <2>1, <2>2, <2>4, <2>6, <3>2 DEF Answered, Resolves
    <3> QED BY <3>1, <3>2
  <2> QED BY <2>5, <2>6 DEF Answered, Resolves, Present
<1>4. CASE Crash
  <2>1. Queue' = {} /\ UNCHANGED answer /\ \A r \in Asked : provider[r] = "done" => provider'[r] = "done"
    <3>1. events' = <<>> /\ provider' \in {provider, Dropped} /\ UNCHANGED answer
      BY <1>4 DEF Crash
    <3>2. Queue' = {}
      BY <3>1 DEF Queue
    <3> QED BY <3>1, <3>2 DEF Dropped
  <2> QED BY <2>1 DEF Answered
<1>5. ASSUME NEW r \in Asked, UNCHANGED answer, provider[r] \in {"new", "waiting"},
             provider' = [provider EXCEPT ![r] = "waiting"], events' = Append(events, OpenedEvent(r))
      PROVE  Answered'
  BY <1>0, <1>2, <1>5, EventKinds
<1>6. CASE /\ UNCHANGED answer /\ provider' = Dropped
           /\ events' \in {Append(events, EndedEvent), Append(events, ClosedEvent)}
  BY <1>2, <1>6, EventKinds DEF Dropped
<1>7. CASE UNCHANGED <<events, provider, answer>>
  BY <1>1, <1>7 DEF Queue
<1>8. CASE UNCHANGED <<provider, answer>> /\ events # <<>> /\ events' = Tail(events)
  BY <1>0, <1>1, <1>8, HandledEvent
<1> QED BY <1>3, <1>4, <1>5, <1>6, <1>7, <1>8, EventCases

\* What was asked arrives in the table.
LEMMA NextArriving == BaseInv /\ Arriving /\ [Next]_vars => Arriving'
<1> SUFFICES ASSUME BaseInv, Arriving, [Next]_vars, crashes' = 0, NEW r \in Asked, provider'[r] # "new"
             PROVE  pending'[r].status # "absent" \/ \E n \in Queue' : Opens(events'[n], r)
  BY DEF Arriving, Present, Opens
<1>0. /\ TypeOK /\ provider \in [Asked -> {"new", "waiting", "done", "gone"}]
      /\ Asked \subseteq Requests /\ crashes = 0 /\ ~Crash
  BY Kinds, HistoryKept DEF BaseInv, TypeOK
<1>a. Present(r) => pending'[r].status # "absent"
  BY <1>0, RowsKept DEF Present
<1>1. ASSUME provider[r] # "new", \A n \in Queue : Opens(events[n], r) =>
                 Present(r) \/ \E m \in Queue' : events'[m] = events[n]
      PROVE  pending'[r].status # "absent" \/ \E n \in Queue' : Opens(events'[n], r)
  BY <1>0, <1>a, <1>1 DEF Arriving
<1>2. ASSUME NEW e \in Event, events' = Append(events, e), provider[r] # "new" \/ Opens(e, r)
      PROVE  pending'[r].status # "absent" \/ \E n \in Queue' : Opens(events'[n], r)
  <2>1. \A n \in Queue : n \in Queue' /\ events'[n] = events[n]
    BY <1>0, <1>2, AddedEvent
  <2>2. \E n \in Queue' : events'[n] = e
    BY <1>0, <1>2, AddedEvent
  <2> QED BY <1>1, <1>2, <2>1, <2>2
<1>3. ASSUME NEW q \in Asked, provider' = [provider EXCEPT ![q] = "waiting"], events' = Append(events, OpenedEvent(q))
      PROVE  pending'[r].status # "absent" \/ \E n \in Queue' : Opens(events'[n], r)
  BY <1>0, <1>2, <1>3, EventKinds DEF Opens
<1>4. CASE provider' = Dropped /\ events' \in {Append(events, EndedEvent), Append(events, ClosedEvent)}
  BY <1>2, <1>4, EventKinds DEF Dropped
<1>5. ASSUME NEW c \in Callers, Delivered(c), events' = Append(events, AnswerEvent(c))
      PROVE  pending'[r].status # "absent" \/ \E n \in Queue' : Opens(events'[n], r)
  <2>1. /\ AnswerEvent(c) \in Event /\ provider[calls[c].request] = "waiting" /\ calls[c].request \in Asked
        /\ provider' = [provider EXCEPT ![calls[c].request] = "done"]
    BY <1>5, AnswerKind
  <2>2. provider[r] # "new"
    BY <1>0, <2>1
  <2> QED BY <1>2, <1>5, <2>1, <2>2
<1>6. CASE UNCHANGED <<events, provider>>
  BY <1>1, <1>6 DEF Queue
<1>7. CASE /\ UNCHANGED provider /\ events # <<>> /\ events' = Tail(events)
           /\ \A q \in Asked : Opens(Head1, q) => Present(q)
  <2>1. /\ Head1 = events[1]
        /\ \A n \in Queue : n # 1 => n - 1 \in Queue' /\ events'[n - 1] = events[n]
    BY <1>0, <1>7, HandledEvent
  <2> QED BY <1>1, <1>7, <2>1
<1> QED BY <1>0, <1>3, <1>4, <1>5, <1>6, <1>7, EventCases

\* The event that closes a request leaves with its row resolved, and decided.
LEMMA ClosedAtLast ==
    ASSUME BaseInv, Answered, [Next]_vars, Pipeline, events # <<>>, events' = Tail(events),
           NEW r \in Asked, Closes(Head1, r), Present(r)
    PROVE  /\ pending'[r].status = "resolved"
           /\ Resolves(Head1, r) /\ r \in Approvals => pending'[r].decision = answer[r]
<1>0. /\ TypeOK /\ Working /\ pending \in [Requests -> Row] /\ r \in Requests
      /\ work \in [at : {"idle", "posting", "projecting"}, row : Row]
      /\ Head1 = events[1] /\ 1 \in Queue /\ events' # events
  <2>1. Head1 = events[1] /\ 1 \in Queue /\ Len(events') # Len(events)
    BY HandledEvent DEF BaseInv, TypeOK
  <2> QED BY <2>1, Kinds DEF BaseInv, TypeOK
<1>1. CASE Head1.type = "ended"
  <2>1. ProjectEnded
    BY <1>0, <1>1 DEF Pipeline, ProjectOpened, ProjectKnown, ProjectStale, Posted, PostFails, ProjectResolved,
                Projected, ProjectClosed, Handling, Working
  <2>2. pending'[r] = IF IsOpen(r) THEN Settled(pending[r], "cancel") ELSE pending[r]
    BY <1>0, <2>1, EndedRows
  <2>3. Settled(pending[r], "cancel").status = "resolved" /\ pending[r].status \in {"absent", "open", "resolved"}
    BY <1>0, SettledRow DEF Decisions, Row
  <2> QED BY <1>1, <2>2, <2>3 DEF IsOpen, Present, Resolves
<1>2. CASE Resolves(Head1, r)
  <2>1. Projected
    BY <1>0, <1>2 DEF Pipeline, ProjectOpened, ProjectKnown, ProjectStale, Posted, PostFails, ProjectResolved,
                ProjectEnded, ProjectClosed, Handling, Working, Resolves, Present
  <2>2. pending'[r] = work.row
    <3>1. Put(r, work.row) /\ work.row \in Row
      BY <1>0, <1>2, <2>1 DEF Projected, Resolves
    <3> QED BY <1>0, <3>1, PutRow
  <2>3. work.row.status = "resolved" /\ (r \in Approvals => work.row.decision = Head1.decision)
    BY <1>0, <1>2, <2>1 DEF Projected, Working, Resolves
  <2>4. r \in Approvals => Head1.decision = answer[r]
    BY <1>0, <1>2 DEF Answered
  <2> QED BY <2>2, <2>3, <2>4
<1> QED BY <1>1, <1>2 DEF Closes

\* A handler that is at work has a first event.
LEMMA AtWork ==
    ASSUME BaseInv, Pipeline
    PROVE  events # <<>> /\ 1 \in Queue /\ Head1 = events[1]
<1>1. events # <<>>
  BY DEF Pipeline, ProjectOpened, ProjectKnown, ProjectStale, Posted, PostFails, ProjectResolved,
         Projected, ProjectEnded, ProjectClosed, Handling, BaseInv, Working
<1>2. events \in Seq(Event)
  BY DEF BaseInv, TypeOK
<1> QED BY <1>1, <1>2 DEF Queue, Head1

\* What an end of the session left behind is closed by an end of the turn only.
LEMMA LeftBehind ==
    ASSUME BaseInv, [Next]_vars
    PROVE  \/ unheeded \subseteq unheeded'
           \/ UNCHANGED pending /\ events' = Append(events, EndedEvent)
<1>1. CASE TurnEnds \/ \E c \in Callers : Interrupt(c)
  BY <1>1 DEF TurnEnds, endElse, Interrupt, EndedEvent
<1>2. ASSUME ~TurnEnds, \A c \in Callers : ~Interrupt(c) PROVE unheeded \subseteq unheeded'
  BY <1>2 DEF Next, vars, history, Announce, SessionEnds, Pipeline, ProjectOpened, ProjectKnown,
     ProjectStale, Posted, PostFails, ProjectResolved, Projected, ProjectEnded, ProjectClosed, AskApproval,
     pipelineElse, Call, callHistory, Refuse, Accept, Perform, Executed, ExecutionFails, CheckOpen, Denied,
     Delivered, Refused, CancelRow, Crash, Start, RecoverOpenRequests, Repost
<1> QED BY <1>1, <1>2

\* What the provider no longer waits for is closed, or will be.
LEMMA NextClosing == BaseInv /\ Arriving /\ Answered /\ Closing /\ [Next]_vars => Closing'
<1> SUFFICES ASSUME BaseInv, Arriving, Answered, Closing, [Next]_vars, crashes' = 0,
                    NEW r \in Asked, r \notin unheeded', provider'[r] \in {"done", "gone"}
             PROVE  \/ \E n \in Queue' : Closes(events'[n], r) /\ LastWord(n, r)'
                    \/ pending'[r].status = "resolved" /\ \A m \in Queue' : ~Opens(events'[m], r)
  BY DEF Closing, Closes, Resolves, Opens, IsResolved
<1> DEFINE Goal == \/ \E n \in Queue' : Closes(events'[n], r) /\ LastWord(n, r)'
                   \/ pending'[r].status = "resolved" /\ \A m \in Queue' : ~Opens(events'[m], r)
<1>0. /\ TypeOK /\ provider \in [Asked -> {"new", "waiting", "done", "gone"}]
      /\ Asked \subseteq Requests /\ crashes = 0 /\ ~Crash /\ Len(events) \in Nat
  BY Kinds, HistoryKept DEF BaseInv, TypeOK
<1>1. r \notin unheeded /\ provider[r] \in {"done", "gone"} =>
          \/ \E n \in Queue : Closes(events[n], r) /\ LastWord(n, r)
          \/ IsResolved(r) /\ \A m \in Queue : ~Opens(events[m], r)
  BY <1>0 DEF Closing
<1>a. r \notin unheeded \/ (UNCHANGED pending /\ events' = Append(events, EndedEvent))
  BY LeftBehind
<1>2. CASE UNCHANGED <<events, provider>> /\ ~Pipeline /\ r \notin unheeded
  <2>1. IsResolved(r) => pending'[r].status = "resolved"
    BY <1>0, <1>2, AskedRowStays DEF IsResolved
  <2> QED BY <1>1, <1>2, <2>1 DEF Queue, LastWord, Opens
<1>3. ASSUME NEW e \in Event, events' = Append(events, e), ~Opens(e, r), UNCHANGED pending,
             provider[r] \in {"done", "gone"}, r \notin unheeded
      PROVE  Goal
  <2>1. /\ \A n \in Queue : LastWord(n, r) => n \in Queue' /\ LastWord(n, r)' /\ events'[n] = events[n]
        /\ (\A m \in Queue : ~Opens(events[m], r)) => \A m \in Queue' : ~Opens(events'[m], r)
    BY <1>0, <1>3, WordAdded
  <2> QED BY <1>1, <1>3, <2>1 DEF IsResolved
<1>4. ASSUME NEW e \in Event, events' = Append(events, e), Closes(e, r)
      PROVE  Goal
  <2>1. ~Opens(e, r)
    BY <1>4 DEF Opens, Closes, Resolves
  <2>2. PICK n : n = Len(events) + 1
    OBVIOUS
  <2>3. n \in Queue' /\ events'[n] = e
    BY <1>0, <1>4, <2>2, AddedEvent
  <2>4. LastWord(n, r)'
    BY <1>0, <1>4, <2>1, <2>2, WordAdded
  <2> QED BY <1>4, <2>3, <2>4
<1>5. ASSUME NEW q \in Asked, UNCHANGED pending, provider' = [provider EXCEPT ![q] = "waiting"],
             events' = Append(events, OpenedEvent(q)), r \notin unheeded
      PROVE  Goal
  <2>1. r # q /\ provider[r] = provider'[r]
    BY <1>0, <1>5
  <2>2. OpenedEvent(q) \in Event /\ ~Opens(OpenedEvent(q), r)
    BY <2>1, EventKinds DEF Opens
  <2> QED BY <1>3, <1>5, <2>1, <2>2
<1>6. CASE events' = Append(events, EndedEvent)
  BY <1>4, <1>6, EventKinds DEF Closes
<1>b. CASE /\ provider' = Dropped /\ unheeded' = unheeded \cup {q \in Asked : provider[q] = "waiting"}
           /\ events' = Append(events, ClosedEvent) /\ UNCHANGED pending /\ r \notin unheeded
  <2>1. provider[r] \in {"done", "gone"}
    BY <1>0, <1>b DEF Dropped
  <2>2. ClosedEvent \in Event /\ ~Opens(ClosedEvent, r)
    BY EventKinds DEF Opens
  <2> QED BY <1>3, <1>b, <2>1, <2>2
<1>7. ASSUME NEW c \in Callers, Delivered(c), UNCHANGED pending, events' = Append(events, AnswerEvent(c)),
             r \notin unheeded
      PROVE  Goal
  <2>1. /\ AnswerEvent(c) \in Event /\ AnswerEvent(c).type = "resolved"
        /\ AnswerEvent(c).request = calls[c].request
        /\ provider' = [provider EXCEPT ![calls[c].request] = "done"]
    BY <1>7, AnswerKind
  <2>2. CASE r = calls[c].request
    BY <1>4, <1>7, <2>1, <2>2 DEF Closes, Resolves
  <2>3. CASE r # calls[c].request
    <3>1. provider[r] = provider'[r]
      BY <1>0, <2>1, <2>3
    <3> QED BY <1>3, <1>7, <2>1, <3>1 DEF Opens
  <2> QED BY <2>2, <2>3
<1>8. CASE Pipeline /\ UNCHANGED <<events, provider>> /\ r \notin unheeded
  <2>1. IsResolved(r) /\ ~Opens(Head1, r) => pending'[r].status = "resolved"
    BY <1>8, HandlerKeeps
  <2>2. 1 \in Queue /\ Head1 = events[1]
    BY <1>8, AtWork
  <2> QED BY <1>1, <1>8, <2>1, <2>2 DEF Queue, LastWord, Opens
<1>9. CASE Pipeline /\ UNCHANGED provider /\ events # <<>> /\ events' = Tail(events) /\ r \notin unheeded
  <2>1. 1 \in Queue /\ Head1 = events[1]
    BY <1>9, AtWork
  <2>2. /\ \A n \in Queue : n # 1 /\ LastWord(n, r) =>
               n - 1 \in Queue' /\ LastWord(n - 1, r)' /\ events'[n - 1] = events[n]
        /\ LastWord(1, r) => \A m \in Queue : ~Opens(events[m], r)
        /\ (\A m \in Queue : ~Opens(events[m], r)) => \A m \in Queue' : ~Opens(events'[m], r)
    BY <1>0, <1>9, WordNearer
  <2>3. ASSUME NEW n \in Queue, Closes(events[n], r), LastWord(n, r), n # 1 PROVE Goal
    <3>1. PICK m : m = n - 1
      OBVIOUS
    <3>2. m \in Queue' /\ LastWord(m, r)' /\ events'[m] = events[n]
      BY <2>2, <2>3, <3>1
    <3> QED BY <2>3, <3>2
  <2>4. ASSUME Closes(Head1, r), LastWord(1, r) PROVE Goal
    <3>1. \A m \in Queue : ~Opens(events[m], r)
      BY <2>2, <2>4
    <3>2. Present(r)
      BY <1>0, <1>9, <3>1 DEF Arriving
    <3> QED BY <1>9, <2>2, <2>4, <3>1, <3>2, ClosedAtLast
  <2>5. ASSUME IsResolved(r), \A m \in Queue : ~Opens(events[m], r) PROVE Goal
    BY <1>9, <2>1, <2>2, <2>5, HandlerKeeps
  <2> QED BY <1>1, <1>9, <2>1, <2>3, <2>4, <2>5
<1> QED BY <1>0, <1>2, <1>5, <1>6, <1>a, <1>b, <1>7, <1>8, <1>9, EventCases

\* The decision the provider was given is recorded, or will be.
LEMMA NextDeciding == BaseInv /\ Answered /\ Deciding /\ [Next]_vars => Deciding'
<1> SUFFICES ASSUME BaseInv, Answered, Deciding, [Next]_vars, crashes' = 0,
                    NEW r \in Approvals \ orphaned', answer'[r] # "none"
             PROVE  \/ \E n \in Queue' : Resolves(events'[n], r) /\ LastWord(n, r)'
                    \/ /\ pending'[r].status = "resolved" /\ pending'[r].decision = answer'[r]
                       /\ \A m \in Queue' : ~Opens(events'[m], r)
  BY DEF Deciding, Resolves, Opens, IsResolved
<1> DEFINE Goal == \/ \E n \in Queue' : Resolves(events'[n], r) /\ LastWord(n, r)'
                   \/ /\ pending'[r].status = "resolved" /\ pending'[r].decision = answer'[r]
                      /\ \A m \in Queue' : ~Opens(events'[m], r)
<1>0. /\ TypeOK /\ provider \in [Asked -> {"new", "waiting", "done", "gone"}]
      /\ answer \in [Asked -> Decisions \cup {"none", "text"}] /\ r \in Asked
      /\ r \in Approvals \ orphaned /\ crashes = 0 /\ ~Crash /\ Len(events) \in Nat
  BY Kinds, HistoryKept DEF BaseInv, TypeOK
<1>1. answer[r] # "none" =>
          \/ \E n \in Queue : Resolves(events[n], r) /\ LastWord(n, r)
          \/ /\ IsResolved(r) /\ pending[r].decision = answer[r]
             /\ \A m \in Queue : ~Opens(events[m], r)
  BY <1>0 DEF Deciding
<1>2. CASE UNCHANGED <<events, answer>> /\ ~Pipeline
  <2>1. pending'[r] = pending[r]
    BY <1>0, <1>2, AskedRowStays
  <2> QED BY <1>1, <1>2, <2>1 DEF Queue, LastWord, Opens, IsResolved
<1>3. ASSUME NEW e \in Event, events' = Append(events, e), ~Opens(e, r), UNCHANGED pending,
             answer'[r] = answer[r]
      PROVE  Goal
  <2>1. /\ \A n \in Queue : LastWord(n, r) => n \in Queue' /\ LastWord(n, r)' /\ events'[n] = events[n]
        /\ (\A m \in Queue : ~Opens(events[m], r)) => \A m \in Queue' : ~Opens(events'[m], r)
    BY <1>0, <1>3, WordAdded
  <2> QED BY <1>1, <1>3, <2>1 DEF IsResolved
<1>4. ASSUME NEW q \in Asked, UNCHANGED <<pending, answer>>, provider[q] \in {"new", "waiting"},
             events' = Append(events, OpenedEvent(q))
      PROVE  Goal
  <2>1. r # q
    BY <1>0, <1>4 DEF Answered
  <2>2. OpenedEvent(q) \in Event /\ ~Opens(OpenedEvent(q), r)
    BY <2>1, EventKinds DEF Opens
  <2> QED BY <1>3, <1>4, <2>2
<1>5. CASE UNCHANGED <<pending, answer>> /\ events' \in {Append(events, EndedEvent), Append(events, ClosedEvent)}
  <2>1. EndedEvent \in Event /\ ~Opens(EndedEvent, r) /\ ClosedEvent \in Event /\ ~Opens(ClosedEvent, r)
    BY EventKinds DEF Opens
  <2> QED BY <1>3, <1>5, <2>1
<1>6. ASSUME NEW c \in Callers, Delivered(c), UNCHANGED pending, events' = Append(events, AnswerEvent(c))
      PROVE  Goal
  <2>1. /\ AnswerEvent(c) \in Event /\ AnswerEvent(c).type = "resolved"
        /\ AnswerEvent(c).request = calls[c].request
        /\ answer' = [answer EXCEPT ![calls[c].request] = calls[c].decision]
    BY <1>6, AnswerKind
  <2>2. ~Opens(AnswerEvent(c), r)
    BY <2>1 DEF Opens
  <2>3. CASE r = calls[c].request
    <3>1. PICK n : n = Len(events) + 1
      OBVIOUS
    <3>2. n \in Queue' /\ events'[n] = AnswerEvent(c)
      BY <1>0, <1>6, <2>1, <3>1, AddedEvent
    <3>3. LastWord(n, r)'
      BY <1>0, <1>6, <2>1, <2>2, <3>1, WordAdded
    <3>4. Resolves(AnswerEvent(c), r)
      BY <2>1, <2>3 DEF Resolves
    <3> QED BY <3>2, <3>3, <3>4
  <2>4. CASE r # calls[c].request
    <3>1. answer'[r] = answer[r]
      BY <1>0, <2>1, <2>4
    <3> QED BY <1>3, <1>6, <2>1, <2>2, <3>1
  <2> QED BY <2>3, <2>4
<1>7. CASE Pipeline /\ UNCHANGED <<events, answer>>
  <2>1. 1 \in Queue /\ Head1 = events[1]
    BY <1>7, AtWork
  <2>2. ASSUME NEW n \in Queue, Resolves(events[n], r), LastWord(n, r) PROVE Goal
    BY <1>7, <2>2 DEF Queue, LastWord, Opens
  <2>3. ASSUME IsResolved(r), pending[r].decision = answer[r], \A m \in Queue : ~Opens(events[m], r)
        PROVE  Goal
    <3>1. CASE Resolves(Head1, r)
      <4>1. LastWord(1, r)
        BY <2>3 DEF LastWord
      <4> QED BY <2>1, <2>2, <3>1, <4>1
    <3>2. CASE ~Resolves(Head1, r)
      <4>1. pending'[r] = pending[r]
        BY <1>0, <1>7, <2>1, <2>3, <3>2, HandlerKeeps
      <4> QED BY <1>7, <2>3, <4>1 DEF Queue, Opens, IsResolved
    <3> QED BY <3>1, <3>2
  <2> QED BY <1>1, <1>7, <2>2, <2>3
<1>8. CASE Pipeline /\ UNCHANGED answer /\ events # <<>> /\ events' = Tail(events)
  <2>1. 1 \in Queue /\ Head1 = events[1]
    BY <1>8, AtWork
  <2>2. /\ \A n \in Queue : n # 1 /\ LastWord(n, r) =>
               n - 1 \in Queue' /\ LastWord(n - 1, r)' /\ events'[n - 1] = events[n]
        /\ LastWord(1, r) => \A m \in Queue : ~Opens(events[m], r)
        /\ (\A m \in Queue : ~Opens(events[m], r)) => \A m \in Queue' : ~Opens(events'[m], r)
    BY <1>0, <1>8, WordNearer
  <2>3. ASSUME NEW n \in Queue, Resolves(events[n], r), LastWord(n, r), n # 1 PROVE Goal
    <3>1. PICK m : m = n - 1
      OBVIOUS
    <3>2. m \in Queue' /\ LastWord(m, r)' /\ events'[m] = events[n]
      BY <2>2, <2>3, <3>1
    <3> QED BY <2>3, <3>2
  <2>4. ASSUME Resolves(Head1, r), \A m \in Queue : ~Opens(events[m], r) PROVE Goal
    <3>1. Closes(Head1, r) /\ Present(r)
      BY <1>0, <2>1, <2>4 DEF Answered, Closes
    <3>2. pending'[r].status = "resolved" /\ pending'[r].decision = answer[r]
      BY <1>0, <1>8, <2>4, <3>1, ClosedAtLast
    <3> QED BY <1>8, <2>2, <2>4, <3>2
  <2>5. ASSUME IsResolved(r), pending[r].decision = answer[r], \A m \in Queue : ~Opens(events[m], r),
               ~Resolves(Head1, r)
        PROVE  Goal
    <3>1. pending'[r] = pending[r]
      BY <1>0, <1>8, <2>1, <2>5, HandlerKeeps
    <3> QED BY <1>8, <2>2, <2>5, <3>1 DEF IsResolved
  <2> QED BY <1>1, <1>8, <2>1, <2>2, <2>3, <2>4, <2>5
<1> QED BY <1>0, <1>2, <1>4, <1>5, <1>6, <1>7, <1>8, EventCases

-----------------------------------------------------------------------------
(* The theorems. *)

LEMMA InitInv == Init => IInv
<1> SUFFICES ASSUME Init PROVE IInv
  OBVIOUS
<1>0. TypeOK /\ \A r \in Tools : r \in Requests
  BY InitTyped, Kinds
<1>1. /\ \A r \in Requests : pending[r] = Absent /\ todo[r] = Absent
      /\ \A r \in Asked : provider[r] = "new" /\ answer[r] = "none" /\ r \in Requests
      /\ \A r \in Tools : executed[r] = 0
      /\ \A c \in Callers : calls[c].at = "idle"
      /\ work.at = "idle" /\ events = <<>> /\ runtime = "up" /\ Queue = {}
  BY InitialCall, Kinds DEF Init, NoWork, Queue
<1>2. BaseInv
  BY <1>0, <1>1, FreshRows DEF BaseInv, Working, Calling, Numbered, RowsSound, Present
<1>3. ToolsInv /\ OneAtATime /\ ToolRunsOnce
  <2>1. \A r \in Tools : executed[r] = 0 /\ unwritten[r] = 0 /\ Cardinality(InHand(r)) = 0
    BY <1>1, <1>2, ToolsTyped DEF Init
  <2>2. \A r \in Tools : Spent(r) = 0
    BY <2>1 DEF Spent
  <2> QED BY <1>0, <1>1, <2>1, <2>2, FreshRows DEF ToolsInv, OneAtATime, ToolRunsOnce, IsResolved
<1>4. Answered /\ Arriving /\ Closing /\ Deciding
  BY <1>1, Kinds DEF Answered, Arriving, Closing, Deciding
<1> QED BY <1>2, <1>3, <1>4 DEF IInv

\* The inductive invariant: how the table, the provider and the events between
\* them stand to each other at every moment, awaits of the handlers included.
THEOREM Invariance == Spec => []IInv
<1>1. Init => IInv
  BY InitInv
<1>2. IInv /\ [Next]_vars => IInv'
  BY NextBase, NextTools, NextAnswered, NextArriving, NextClosing, NextDeciding DEF IInv, ToolsAll
<1> QED BY <1>1, <1>2, PTL DEF Spec

\* What became of a tool's approval, however many buttons are pressed, calls fail
\* or the runtime restarts: each time it was carried out beyond what its row says
\* is one that a failure or a crash kept from being written down.
THEOREM ToolsRight == Spec => []ToolsSound
<1>1. IInv => ToolsSound
  <2> SUFFICES ASSUME IInv PROVE ToolRecorded
    BY DEF IInv, BaseInv, ToolsSound
  <2>1. \A r \in Tools : InHand(r) = {} => Spent(r) = unwritten[r]
    BY ToolsTyped, FS_EmptySet DEF Spent, IInv
  <2> QED BY <2>1 DEF IInv, ToolsInv, ToolRecorded
<1> QED BY <1>1, Invariance, PTL

\* Once the provider's events are handled, the rows say what the provider knows:
\* no request it is done with is open, but for those an end of the session left
\* behind, and decisions are those it was given.
THEOREM RowsRight == Spec => []RowsAgree
<1>1. IInv => RowsAgree
  <2> SUFFICES ASSUME IInv PROVE RowsAgree
    OBVIOUS
  <2>1. events = <<>> => Queue = {}
    BY DEF Queue
  <2>2. DecisionRecorded
    BY <2>1 DEF DecisionRecorded, IInv, Deciding
  <2>3. FinishedIsClosed
    BY <2>1 DEF FinishedIsClosed, IInv, Closing
  <2> QED BY <2>2, <2>3 DEF RowsAgree
<1> QED BY <1>1, Invariance, PTL

\* The row of a resolved request is set open again only over an await: no answer,
\* no end of a turn and no late announcement does it at once.
THEOREM ReopensOverAwaits == Spec => OnlyAwaitReopens
<1>1. ASSUME IInv, [Next]_vars, NEW r \in Requests, IsResolved(r), pending'[r].status = "open"
      PROVE  \/ work.at # "idle" /\ Head1.request = r /\ Head1.type = "opened"
             \/ todo[r] # Absent
  <2>0. BaseInv /\ TypeOK /\ pending \in [Requests -> Row]
    BY <1>1 DEF IInv, BaseInv, TypeOK
  <2>1. \A q \in Requests, row \in Row : Written(q, row) /\ q # r => pending'[r] = pending[r]
    BY <2>0 DEF Written
  <2>2. \A row \in Row : Written(r, row) => row.status = "open"
    BY <1>1, <2>0 DEF Written
  <2>3. pending[r].status = "resolved" /\ pending'[r] # pending[r]
    BY <1>1 DEF IsResolved
  <2>4. CASE ProjectEnded
    BY <1>1, <2>0, <2>3, <2>4, EndedRows DEF IsOpen
  <2>5. CASE HandlerWrites
    BY <1>1, <2>1, <2>2, <2>3, <2>5 DEF HandlerWrites, Written
  <2>6. \A c \in Callers : /\ calls[c].request \in Requests /\ pending[calls[c].request] \in Row
                           /\ calls[c].row \in Row
    BY <2>0 DEF TypeOK
  <2>7. ASSUME NEW q, NEW row \in Row, NEW d \in Decisions, Written(q, Settled(row, d)) PROVE FALSE
    <3>1. Settled(row, d) \in Row /\ Settled(row, d).status = "resolved" /\ q \in Requests
      BY <2>7, SettledRow DEF Written
    <3> QED BY <2>1, <2>2, <2>3, <2>7, <3>1
  <2>8. "accept" \in Decisions /\ "cancel" \in Decisions /\ Verdicts \subseteq Decisions
    BY Kinds DEF Decisions
  <2>9. CASE \E q \in Tools : AskApproval(q) /\ Written(q, Opened) /\ ~Present(q)
    BY <2>1, <2>3, <2>9, FreshRows, Kinds DEF Present
  <2>10. ~ \E c \in Callers, q \in Tools, d \in Verdicts : Written(q, Settled(pending[q], d))
    BY <2>0, <2>7, <2>8, Kinds
  <2>11. ~ \E c \in Callers : Written(calls[c].request, AcceptedRow(c))
    BY <2>6, <2>7, <2>8 DEF AcceptedRow
  <2>12. ~ \E c \in Callers : Written(calls[c].request, Settled(pending[calls[c].request], "cancel"))
    BY <2>6, <2>7, <2>8
  <2>13. CASE \E q \in Requests : Repost(q) /\ Written(q, [todo[q] EXCEPT !.message = TRUE])
    <3>1. PICK q \in Requests : Repost(q) /\ Written(q, [todo[q] EXCEPT !.message = TRUE])
      BY <2>13
    <3>2. [todo[q] EXCEPT !.message = TRUE] \in Row /\ todo[q] # Absent
      BY <3>1 DEF Written, Repost
    <3> QED BY <2>1, <2>3, <3>1, <3>2
  <2>14. CASE UNCHANGED <<pending, reopened>>
    BY <2>3, <2>14
  <2> QED BY <1>1, <2>0, <2>4, <2>5, <2>9, <2>10, <2>11, <2>12, <2>13, <2>14, StepWrites
<1>2. IInv /\ [Next]_vars => [\A r \in Requests : IsResolved(r) /\ pending'[r].status = "open" =>
          \/ work.at # "idle" /\ Head1.request = r /\ Head1.type = "opened"
          \/ todo[r] # Absent]_vars
  BY <1>1
<1> QED BY <1>2, Invariance, PTL DEF Spec, OnlyAwaitReopens

=============================================================================
