-------------------------- MODULE EventPipelineProofs --------------------------
(***************************************************************************)
(* EventPipeline, proved for any number of events, requests and crashes:   *)
(* no domain event and no activity is made twice, compactions are held by  *)
(* their latch, and the receipt of a thread tells what its provider does.  *)
(***************************************************************************)
EXTENDS EventPipeline, FunctionTheorems, WellFoundedInduction, TLAPS

Mid    == {"receipt", "projecting", "domain"}
Early  == {"posting", "found"}
Stages == {"idle", "compacting", "hook"} \cup Early \cup Mid
Ending == {"turn.completed", "turn.aborted", "runtime.error", "closed"}
Args   == Ends \cup Requests \cup {NoRequest, "running", "waiting"}
Types  == {"turn.started", "runtime.busy", "request.opened", "turn.waiting", "runtime.waiting",
           "request.resolved", "turn.ended", "runtime.error", "runtime.idle", "provider.closed",
           "thread.compacted", "usage", "item"}
Piece  == [k : 1..3, type : Types, arg : Args, row : Rows]

\* The event being handled, and the domain event of it that is.
Now  == emitted[Head(queue)]
Part == Head(work.rest)

\* How many domain events an event has, if any, and which.
Count(e) == CASE e.type = "request.opened" -> 3
              [] e.type \in {"turn.started", "request.resolved", "turn.completed",
                             "turn.aborted"} -> 2
              [] OTHER -> 1
PartOf(e, d) ==
    \/ e.type = "turn.started" /\ d.k = 1 /\ d.type = "turn.started"
    \/ e.type = "turn.started" /\ d.k = 2 /\ d.type = "runtime.busy"
    \/ /\ e.type = "request.opened" /\ d.k = 1 /\ d.type = "request.opened"
       /\ d.arg = e.arg /\ d.row.status = "open"
    \/ e.type = "request.opened" /\ d.k = 2 /\ d.type = "turn.waiting" /\ d.arg = e.arg
    \/ e.type = "request.opened" /\ d.k = 3 /\ d.type = "runtime.waiting"
    \/ /\ e.type = "request.resolved" /\ d.k = 1 /\ d.type = "request.resolved"
       /\ d.arg = e.arg /\ d.row.status = "resolved"
    \/ e.type = "request.resolved" /\ d.k = 2 /\ d.type = "runtime.busy"
    \/ /\ e.type \in {"turn.completed", "turn.aborted"} /\ d.k = 1 /\ d.type = "turn.ended"
       /\ d.arg = IF e.type = "turn.completed" THEN e.arg ELSE "interrupted"
    \/ /\ e.type \in {"turn.completed", "turn.aborted"} /\ d.k = 2
       /\ d.type \in {"runtime.idle", "runtime.error"}
    \/ e.type = "closed" /\ d.k = 1 /\ d.type = "provider.closed"
    \/ e.type = "compacted" /\ d.k = 1 /\ d.type = "thread.compacted"
    \/ e.type \in {"usage", "item", "runtime.error"} /\ d.k = 1 /\ d.type = e.type

\* rest is what is left of the domain events of e.
Suffix(e, rest) ==
    /\ rest \in Seq(Piece) /\ Len(rest) <= Count(e)
    /\ \A i \in 1..Len(rest) : /\ PartOf(e, rest[i]) /\ rest[i].k = Count(e) - Len(rest) + i
                               /\ rest[i].k > 1 => rest[i].row = NoRow

-----------------------------------------------------------------------------
(* What is delivered, and what has been handled. *)

Done == Len(emitted) - Len(queue)

QueueIs ==
    /\ emitted \in Seq(Event) /\ queue \in Seq(Nat) /\ Len(queue) <= Len(emitted)
    /\ \A i \in 1..Len(queue) : queue[i] = Done + i
    /\ runtime \in {"up", "down", "recovering"}
    /\ runtime # "up" => queue = <<>>
    /\ work # Idle => queue # <<>>

WorkIs ==
    /\ work \in [at : Stages, rest : Seq(Piece)]
    /\ work.at \in Mid <=> work.rest # <<>>
    /\ work.at \in Mid => Suffix(Now, work.rest)

LogIs ==
    /\ processed \subseteq logged /\ logged \subseteq 1..Len(emitted)
    /\ work # Idle => Head(queue) \in logged /\ Head(queue) \notin processed

StateIs ==
    /\ session \in [status : {"ready", "running", "error", "closed"}, turn : BOOLEAN]
    /\ receipt \in [state : States, turn : BOOLEAN, request : Requests \cup {NoRequest}]
    /\ rows \in [Requests -> Rows] /\ found \in Rows
    /\ requester \in BOOLEAN /\ latch \in BOOLEAN
    /\ domain \subseteq [event : Nat, k : 1..3, row : Rows]

\* The row that project returned is the one it wrote, but for the message.
FoundIs ==
    /\ work.at = "posting" => Now.type = "request.opened" /\ found # NoRow
    /\ work.at \in Early /\ found # NoRow =>
         \/ /\ Now.type = "request.opened" /\ found.status = "open"
            /\ rows[Now.arg].status = "open"
         \/ /\ Now.type = "request.resolved" /\ found.status = "resolved"
            /\ rows[Now.arg].status = "resolved"
    /\ work.at \in Early /\ found = NoRow =>
         /\ Now.type = "request.opened" => rows[Now.arg].status = "resolved"
         /\ Now.type = "request.resolved" => rows[Now.arg].status = "absent"

\* What the handler has passed is marked, or counted as left behind.
Through ==
    /\ runtime = "up" => \A id \in 1..Done : id \in processed \cup behind

-----------------------------------------------------------------------------
(* Effects. *)

Recorded(id, k) == \E x \in domain : x.event = id /\ x.k = k

DomainOnce ==
    /\ \A x, y \in domain : x.event = y.event /\ x.k = y.k => x = y
    /\ \A x \in domain : x.k > 1 => Recorded(x.event, x.k - 1) /\ x.row = NoRow
    /\ work.at \in Mid => Recorded(Head(queue), Part.k)

ShownOnce ==
    /\ shown \in Seq(Nat \X (1..3))
    /\ \A i \in 1..Len(shown) :
         /\ Recorded(shown[i][1], shown[i][2])
         /\ shown[i][1] <= Len(emitted)
         /\ \A e \in 1..Len(emitted) : e < shown[i][1] => e \in processed \cup behind
    /\ work.at \in {"receipt", "projecting"} =>
         \A i \in 1..Len(shown) : shown[i][1] = Head(queue) => shown[i][2] < Part.k
    /\ \A i, j \in 1..Len(shown) : i < j =>
         \/ shown[i][1] < shown[j][1] \/ (shown[i][1] = shown[j][1] /\ shown[i][2] < shown[j][2])
         \/ shown[i][1] > shown[j][1] /\ shown[j][1] \in behind

FirstShown ==
    \A x \in domain : x.k = 1 /\ x.event \notin cut =>
      \/ \E i \in 1..Len(shown) : shown[i] = <<x.event, 1>>
      \/ work.at \in {"receipt", "projecting"} /\ x.event = Head(queue) /\ Part.k = 1

Latched ==
    /\ compacting \in Nat /\ lapsed \in Nat
    /\ OneCompaction

Effects == DomainOnce /\ ShownOnce /\ FirstShown /\ Latched

-----------------------------------------------------------------------------
(* Receipts. *)

\* What the first n events of a log say of turns and requests.
TurnAfter(log, n) ==
    \E i \in 1..n : /\ log[i].type = "turn.started"
                    /\ \A j \in (i + 1)..n : log[j].type \notin Ending
Opens(e, r)    == e.type = "request.opened" /\ e.arg = r
Resolves(e, r) == e.type = "request.resolved" /\ e.arg = r
AskedAfter(log, n) ==
    {r \in Requests : \E i \in 1..n :
       /\ Opens(log[i], r)
       /\ \A j \in (i + 1)..n : log[j].type \notin Ending \cup {"turn.started"} /\ ~Resolves(log[j], r)}

ClosesAll(e) == \/ e.type = "turn.completed" /\ e.arg # "completed"
                \/ e.type = "turn.aborted"
UnansweredAfter(log, n) ==
    {r \in Requests : \E i \in 1..n :
       Opens(log[i], r) /\ \A j \in (i + 1)..n : ~Closes(log[j], r)}

Told ==
    /\ turn \in BOOLEAN /\ asked \subseteq Requests /\ stranded \in BOOLEAN
    /\ Len(emitted) <= MaxEvents
    /\ ~turn => asked = {}
    /\ turn => TurnAfter(emitted, Len(emitted))
    /\ asked \subseteq AskedAfter(emitted, Len(emitted))
    /\ ~stranded => /\ TurnAfter(emitted, Len(emitted)) => turn
                    /\ AskedAfter(emitted, Len(emitted)) \subseteq asked
    /\ \A i \in 1..Len(emitted) :
         emitted[i].type \in {"request.opened", "request.resolved"} => TurnAfter(emitted, i)
    /\ \A i, j \in 1..Len(emitted), r \in Requests : Opens(emitted[i], r) /\ Opens(emitted[j], r) => i = j

\* No crash or conflict has come between an event and its mark.
Clean == cut = {} /\ behind = {}

\* The event at hand has come past its hook.
Busy == Early \cup Mid

\* A row is there because its request was opened, which was handled or is being.
AskedRows ==
    cut = {} => \A r \in Requests : rows[r].status # "absent" =>
      \E i \in 1..Len(emitted) :
        Opens(emitted[i], r) /\ (i \in processed \/ (work.at \in Busy /\ i = Head(queue)))

\* The log holds of an event not yet handled what the handler has got to.
HandledLog ==
    cut = {} => \A x \in domain :
      x.event \in processed \/ (work.at \in Mid /\ x.event = Head(queue) /\ x.k <= Part.k)

ClosedRows == runtime # "up" /\ ~stranded => \A r \in Requests : rows[r].status # "open"

HeldRow ==
    /\ work.at \in Mid /\ Now.type = "request.opened" => rows[Now.arg].status = "open"
    /\ work.at \in Mid /\ Now.type = "request.resolved" => rows[Now.arg].status = "resolved"

\* A request whose opening was handled has a row from then on.
KeptRows ==
    \A i \in processed, r \in Requests : Opens(emitted[i], r) => rows[r].status # "absent"

KnownRows == AskedRows /\ HandledLog /\ ClosedRows /\ HeldRow /\ KeptRows

\* What the last domain event says, the receipt says.
Written ==
    cut = {} /\ work.at \in Mid =>
      /\ Part.type \in {"turn.started", "runtime.busy"} => receipt.state = "running"
      /\ Part.type \in {"turn.waiting", "runtime.waiting"} =>
           receipt.state = "waiting" /\ receipt.request = Now.arg
      /\ Part.type \in {"turn.ended", "runtime.idle", "runtime.error", "provider.closed"} =>
           receipt.state \in Quiet

Asides == {"usage", "item", "thread.compacted"}
Reads(n) ==
    /\ receipt.state \in Quiet <=> ~TurnAfter(emitted, n)
    /\ receipt.state = "waiting" => receipt.request \in AskedAfter(emitted, n)

TellsAt(n) ==
    /\ work.at \notin Mid => Reads(n)
    /\ work.at \in Mid /\ Part.type \in Asides => Reads(n)

NoStart(n) == \A j \in 1..Len(emitted) : j > n => emitted[j].type # "turn.started"

\* And though a crash came in a turn: while the turn is not ended in the log the
\* receipt is busy, and else busy only with an open request.
Steady(n) ==
    /\ TurnAfter(emitted, n) => receipt.state \notin Quiet
    /\ receipt.state \notin Quiet /\ ~TurnAfter(emitted, n) =>
         receipt.state = "waiting" /\ rows[receipt.request].status = "open"
SteadyAt(n) ==
    /\ work.at \notin Mid => Steady(n)
    /\ work.at \in Mid /\ Part.type \in Asides => Steady(n)

\* The rows are open that the log says, to the event at hand once it has written
\* its own: a request's with the row, a turn's end that closes them after its hook.
HasWritten ==
    \/ work.at \in Busy /\ Now.type \in {"request.opened", "request.resolved"}
    \/ work.at \in Mid /\ ClosesAll(Now) /\ ~(work.at = "receipt" /\ Part.k = 1)
RowsTell(n) == \A r \in Requests : rows[r].status = "open" <=> r \in UnansweredAfter(emitted, n)
RowsAt(n)   == /\ HasWritten => RowsTell(n + 1)
               /\ ~HasWritten => RowsTell(n)

Marked(n) ==
    /\ n \in 0..Len(emitted) /\ processed = 1..n
    /\ runtime = "up" => Done <= n

Reached(n) ==
    /\ Marked(n) /\ RowsAt(n) /\ SteadyAt(n)
    /\ ~stranded /\ NoStart(n) => TellsAt(n)

InOrder == Clean => \E n \in Nat : Reached(n)

Receipts == Told /\ KnownRows /\ Written /\ InOrder

\* The inductive invariant.
Frame == QueueIs /\ WorkIs /\ LogIs /\ StateIs /\ FoundIs /\ Through
IInv  == Frame /\ Effects /\ Receipts

-----------------------------------------------------------------------------
(* Numbers and sequences. *)

Less == {ss \in Nat \X Nat : ss[1] < ss[2]}

\* A set of numbers has a least element, unless it is empty.
LEMMA LeastNumber ==
    ASSUME NEW S \in SUBSET Nat, S # {}
    PROVE  \E x \in S : \A y \in S : ~(y < x)
<1>1. IsWellFoundedOn(Less, Nat)
  BY NatLessThanWellFounded DEF OpToRel, Less
<1>2. \E x \in S : \A y \in S : <<y, x>> \notin Less
  BY <1>1, WFMin
<1>3. \A x, y \in Nat : y < x => <<y, x>> \in Less
  BY DEF Less
<1> QED BY <1>2, <1>3

\* What is left of a list begins with the first that is not in the log.
LEMMA FirstOpenIs ==
    ASSUME NEW rest \in Seq(Piece)
    PROVE  \/ /\ FirstOpen(rest) = 0
              /\ \A i \in 1..Len(rest) : ~IsNew(rest[i]) /\ ~Conflicts(rest[i])
           \/ /\ FirstOpen(rest) \in 1..Len(rest)
              /\ IsNew(rest[FirstOpen(rest)]) \/ Conflicts(rest[FirstOpen(rest)])
              /\ \A i \in 1..Len(rest) : i < FirstOpen(rest) => ~IsNew(rest[i])
<1> DEFINE I == {i \in 1..Len(rest) : IsNew(rest[i]) \/ Conflicts(rest[i])}
<1>1. FirstOpen(rest) = IF I # {} THEN Min(I) ELSE 0
  BY DEF FirstOpen, SelectInSeq
<1>2. CASE I = {}
  BY <1>1, <1>2
<1>3. CASE I # {}
  <2>1. I \in SUBSET Nat
    OBVIOUS
  <2>2. PICK x \in I : \A y \in I : ~(y < x)
    BY <1>3, <2>1, LeastNumber
  <2>3. \A y \in I : x =< y
    BY <2>1, <2>2
  <2>4. Min(I) \in I /\ \A y \in I : Min(I) =< y
    BY <2>3 DEF Min
  <2>5. FirstOpen(rest) = Min(I)
    BY <1>1, <1>3
  <2> HIDE DEF I
  <2>6. FirstOpen(rest) \in I /\ \A y \in I : FirstOpen(rest) =< y
    BY <2>4, <2>5
  <2>7. FirstOpen(rest) \in 1..Len(rest)
        /\ (IsNew(rest[FirstOpen(rest)]) \/ Conflicts(rest[FirstOpen(rest)]))
    BY <2>6 DEF I
  <2>8. ASSUME NEW i \in 1..Len(rest), i < FirstOpen(rest) PROVE ~IsNew(rest[i])
    <3>1. i \notin I
      BY <2>6, <2>7, <2>8
    <3> QED BY <3>1 DEF I
  <2> QED BY <2>7, <2>8
<1> QED BY <1>2, <1>3

LEMMA LeftIs ==
    ASSUME NEW rest \in Seq(Piece)
    PROVE  \/ /\ Left(rest) = <<>>
              /\ \A i \in 1..Len(rest) : ~IsNew(rest[i]) /\ ~Conflicts(rest[i])
           \/ \E m \in 1..Len(rest) :
                /\ Left(rest) \in Seq(Piece) /\ Len(Left(rest)) = Len(rest) - m + 1
                /\ \A i \in 1..(Len(rest) - m + 1) : Left(rest)[i] = rest[m + i - 1]
                /\ Left(rest) # <<>> /\ Head(Left(rest)) = rest[m]
                /\ IsNew(rest[m]) \/ Conflicts(rest[m])
                /\ \A i \in 1..Len(rest) : i < m => ~IsNew(rest[i])
<1>1. CASE FirstOpen(rest) = 0
  <2>1. Left(rest) = <<>>
    BY <1>1 DEF Left
  <2>2. \A i \in 1..Len(rest) : ~IsNew(rest[i]) /\ ~Conflicts(rest[i])
    BY <1>1, FirstOpenIs
  <2> QED BY <2>1, <2>2
<1>2. CASE FirstOpen(rest) # 0
  <2>1. PICK m \in 1..Len(rest) : m = FirstOpen(rest)
    BY <1>2, FirstOpenIs
  <2>2. Left(rest) = SubSeq(rest, m, Len(rest))
    BY <1>2, <2>1 DEF Left
  <2>3. /\ IsNew(rest[m]) \/ Conflicts(rest[m])
        /\ \A i \in 1..Len(rest) : i < m => ~IsNew(rest[i])
    BY <1>2, <2>1, FirstOpenIs
  <2>4. /\ Left(rest) \in Seq(Piece) /\ Len(Left(rest)) = Len(rest) - m + 1
        /\ \A i \in 1..(Len(rest) - m + 1) : Left(rest)[i] = rest[m + i - 1]
    BY <2>2
  <2>5. Left(rest) # <<>> /\ Head(Left(rest)) = rest[m]
    BY <2>4
  <2> QED BY <2>3, <2>4, <2>5
<1> QED BY <1>1, <1>2

-----------------------------------------------------------------------------
(* The domain events of an event. *)

LEMMA EventIs ==
    ASSUME NEW e \in Event
    PROVE  /\ e.type \in {"turn.started", "turn.aborted", "runtime.error", "closed", "usage",
                          "compacted", "item", "turn.completed", "request.opened",
                          "request.resolved"}
           /\ e.type = "turn.completed" => e.arg \in Ends
           /\ e.type \in {"request.opened", "request.resolved"} => e.arg \in Requests
           /\ e.type \notin {"request.opened", "request.resolved", "turn.completed"} =>
                e.arg = NoRequest
BY DEF Event

LEMMA NoRowIs == NoRow \in Rows /\ NoRow.status = "absent"
BY DEF NoRow, Rows

\* The row that project writes and returns, if any.
LEMMA ProjectIs ==
    ASSUME StateIs, NEW e \in Event
    PROVE  /\ Project(e) \in Rows
           /\ Posts(e) => e.type = "request.opened" /\ Project(e) # NoRow
           /\ Project(e) # NoRow =>
                \/ e.type = "request.opened" /\ Project(e).status = "open"
                \/ /\ e.type = "request.resolved" /\ Project(e).status = "resolved"
                   /\ rows[e.arg].status # "absent"
           /\ Project(e) = NoRow =>
                /\ e.type = "request.opened" => rows[e.arg].status = "resolved"
                /\ e.type = "request.resolved" => rows[e.arg].status = "absent"
<1> USE NoRowIs
<1>1. OpenRow \in Rows /\ OpenRow.status = "open"
  BY DEF OpenRow, Rows, StateIs
<1>2. CASE Posts(e)
  <2>1. e.type = "request.opened" /\ Project(e) = OpenRow
    BY <1>2 DEF Posts, Project
  <2> QED BY <1>1, <2>1
<1>3. CASE e.type = "request.opened" /\ ~Posts(e)
  <2>1. rows[e.arg] \in Rows
    BY <1>3, EventIs DEF StateIs
  <2>2. CASE rows[e.arg].status = "open"
    <3>1. Project(e) = rows[e.arg]
      BY <1>3, <2>2 DEF Project
    <3> QED BY <1>3, <2>1, <2>2, <3>1
  <2>3. CASE rows[e.arg].status # "open"
    <3>1. Project(e) = NoRow
      BY <1>3, <2>3 DEF Project
    <3>2. rows[e.arg].status = "resolved"
      BY <1>3, <2>1, <2>3 DEF Posts, Rows
    <3> QED BY <1>3, <3>1, <3>2
  <2> QED BY <2>2, <2>3
<1>4. CASE e.type = "request.resolved"
  <2>1. rows[e.arg] \in Rows
    BY <1>4, EventIs DEF StateIs
  <2>2. ~Posts(e)
    BY <1>4 DEF Posts
  <2>3. CASE rows[e.arg].status # "absent"
    <3> DEFINE row == [rows[e.arg] EXCEPT !.status = "resolved"]
    <3>1. row \in Rows /\ row.status = "resolved"
      BY <2>1 DEF Rows
    <3>2. Project(e) = row
      BY <1>4, <2>2, <2>3 DEF Project
    <3> HIDE DEF row
    <3> QED BY <1>4, <2>2, <2>3, <3>1, <3>2
  <2>4. CASE rows[e.arg].status = "absent"
    <3>1. Project(e) = NoRow
      BY <1>4, <2>2, <2>4 DEF Project
    <3> QED BY <1>4, <2>2, <2>4, <3>1
  <2> QED BY <2>3, <2>4
<1>5. CASE e.type \notin {"request.opened", "request.resolved"}
  <2>1. Project(e) = NoRow /\ ~Posts(e)
    BY <1>5 DEF Project, Posts
  <2> QED BY <1>5, <2>1
<1> QED BY <1>2, <1>3, <1>4, <1>5

LEMMA PieceIs ==
    ASSUME NEW k \in 1..3, NEW type \in Types, NEW arg \in Args, NEW r \in Requests, NEW row \in Rows
    PROVE  /\ D(k, type, arg) \in Piece
           /\ D(k, type, arg).k = k /\ D(k, type, arg).type = type /\ D(k, type, arg).arg = arg
           /\ D(k, type, arg).row = NoRow
           /\ R(type, r, row) \in Piece
           /\ R(type, r, row).k = 1 /\ R(type, r, row).type = type /\ R(type, r, row).arg = r
           /\ R(type, r, row).row = row
BY NoRowIs DEF D, R, Piece, Args

LEMMA DomainEventsAre ==
    ASSUME NEW e \in Event, NEW row \in Rows,
           row # NoRow /\ e.type = "request.opened" => row.status = "open",
           row # NoRow /\ e.type = "request.resolved" => row.status = "resolved"
    PROVE  \/ /\ DomainEvents(e, row) = <<>>
              /\ \/ e.type \in {"request.opened", "request.resolved"} /\ row = NoRow
                 \/ e.type = "closed" /\ ~Active
           \/ /\ Suffix(e, DomainEvents(e, row))
              /\ Len(DomainEvents(e, row)) = Count(e)
              /\ e.type \in {"request.opened", "request.resolved"} => row # NoRow
<1> DEFINE L == DomainEvents(e, row)
<1>1. row \in Rows
  OBVIOUS
<1>2. ASSUME NEW k \in 1..3, NEW type \in Types, NEW arg \in Args
      PROVE  /\ D(k, type, arg) \in Piece
             /\ D(k, type, arg).k = k /\ D(k, type, arg).type = type /\ D(k, type, arg).arg = arg
             /\ D(k, type, arg).row = NoRow
  BY NoRowIs DEF D, Piece
<1>3. CASE e.type = "turn.started"
  <2> DEFINE d1 == D(1, "turn.started", NoRequest)
           d2 == D(2, "runtime.busy", "running")
  <2>1. L = <<d1, d2>>
    BY <1>3 DEF DomainEvents
  <2>2. d1 \in Piece /\ d2 \in Piece
    BY <1>2 DEF Types, Args
  <2>3. /\ PartOf(e, d1) /\ d1.k = 1 /\ d1.row = NoRow
        /\ PartOf(e, d2) /\ d2.k = 2 /\ d2.row = NoRow
    BY <1>3, EventIs DEF PartOf, D, Ends
  <2>4. Count(e) = 2
    BY <1>3 DEF Count
  <2> HIDE DEF L, d1, d2
  <2>5. L \in Seq(Piece) /\ Len(L) = 2 /\ L[1] = d1 /\ L[2] = d2
    BY <2>1, <2>2
  <2>6. Suffix(e, L) /\ Len(L) = Count(e)
    BY <2>3, <2>4, <2>5 DEF Suffix
  <2> QED BY <1>3, <2>6 DEF L
<1>4. CASE e.type = "request.opened" /\ row # NoRow
  <2> DEFINE d1 == R("request.opened", e.arg, row)
           d2 == D(2, "turn.waiting", e.arg)
           d3 == D(3, "runtime.waiting", "waiting")
  <2>1. L = <<d1, d2, d3>>
    BY <1>4 DEF DomainEvents
  <2>2. e.arg \in Requests /\ e.arg \in Args
    BY <1>4, EventIs DEF Args
  <2>3. d1 \in Piece
    BY <1>1, <2>2 DEF R, Piece, Types
  <2>4. d2 \in Piece /\ d3 \in Piece
    BY <1>2, <2>2 DEF Types, Args
  <2>5. /\ PartOf(e, d1) /\ d1.k = 1
        /\ PartOf(e, d2) /\ d2.k = 2 /\ d2.row = NoRow
        /\ PartOf(e, d3) /\ d3.k = 3 /\ d3.row = NoRow
    BY <1>4 DEF PartOf, D, R
  <2>6. Count(e) = 3
    BY <1>4 DEF Count
  <2> HIDE DEF L, d1, d2, d3
  <2>7. L \in Seq(Piece) /\ Len(L) = 3 /\ L[1] = d1 /\ L[2] = d2 /\ L[3] = d3
    BY <2>1, <2>3, <2>4
  <2>8. Suffix(e, L) /\ Len(L) = Count(e)
    BY <2>5, <2>6, <2>7 DEF Suffix
  <2> QED BY <1>4, <2>8 DEF L
<1>5. CASE e.type = "request.resolved" /\ row # NoRow
  <2> DEFINE d1 == R("request.resolved", e.arg, row)
           d2 == D(2, "runtime.busy", "running")
  <2>1. L = <<d1, d2>>
    BY <1>5 DEF DomainEvents
  <2>2. e.arg \in Requests /\ e.arg \in Args
    BY <1>5, EventIs DEF Args
  <2>3. d1 \in Piece
    BY <1>1, <2>2 DEF R, Piece, Types
  <2>4. d2 \in Piece
    BY <1>2, <2>2 DEF Types, Args
  <2>5. /\ PartOf(e, d1) /\ d1.k = 1
        /\ PartOf(e, d2) /\ d2.k = 2 /\ d2.row = NoRow
    BY <1>5 DEF PartOf, D, R
  <2>6. Count(e) = 2
    BY <1>5 DEF Count
  <2> HIDE DEF L, d1, d2
  <2>7. L \in Seq(Piece) /\ Len(L) = 2 /\ L[1] = d1 /\ L[2] = d2
    BY <2>1, <2>3, <2>4
  <2>8. Suffix(e, L) /\ Len(L) = Count(e)
    BY <2>5, <2>6, <2>7 DEF Suffix
  <2> QED BY <1>5, <2>8 DEF L
<1>6. CASE e.type \in {"request.opened", "request.resolved"} /\ row = NoRow
  BY <1>6 DEF DomainEvents
<1>7. CASE e.type = "turn.completed" /\ e.arg = "failed"
  <2> DEFINE d1 == D(1, "turn.ended", e.arg)
           d2 == D(2, "runtime.error", NoRequest)
  <2>1. L = <<d1, d2>>
    BY <1>7 DEF DomainEvents
  <2>2. d1 \in Piece /\ d2 \in Piece
    <3>1. e.arg \in Args
      BY <1>7, EventIs DEF Args, Types
    <3> QED BY <1>2, <3>1 DEF Types, Args
  <2>3. /\ PartOf(e, d1) /\ d1.k = 1 /\ d1.row = NoRow
        /\ PartOf(e, d2) /\ d2.k = 2 /\ d2.row = NoRow
    BY <1>7, EventIs DEF PartOf, D, Ends
  <2>4. Count(e) = 2
    BY <1>7 DEF Count
  <2> HIDE DEF L, d1, d2
  <2>5. L \in Seq(Piece) /\ Len(L) = 2 /\ L[1] = d1 /\ L[2] = d2
    BY <2>1, <2>2
  <2>6. Suffix(e, L) /\ Len(L) = Count(e)
    BY <2>3, <2>4, <2>5 DEF Suffix
  <2> QED BY <1>7, <2>6 DEF L
<1>8. CASE e.type = "turn.completed" /\ e.arg # "failed"
  <2> DEFINE d1 == D(1, "turn.ended", e.arg)
           d2 == D(2, "runtime.idle", NoRequest)
  <2>1. L = <<d1, d2>>
    BY <1>8 DEF DomainEvents
  <2>2. d1 \in Piece /\ d2 \in Piece
    <3>1. e.arg \in Args
      BY <1>8, EventIs DEF Args, Types
    <3> QED BY <1>2, <3>1 DEF Types, Args
  <2>3. /\ PartOf(e, d1) /\ d1.k = 1 /\ d1.row = NoRow
        /\ PartOf(e, d2) /\ d2.k = 2 /\ d2.row = NoRow
    BY <1>8, EventIs DEF PartOf, D, Ends
  <2>4. Count(e) = 2
    BY <1>8 DEF Count
  <2> HIDE DEF L, d1, d2
  <2>5. L \in Seq(Piece) /\ Len(L) = 2 /\ L[1] = d1 /\ L[2] = d2
    BY <2>1, <2>2
  <2>6. Suffix(e, L) /\ Len(L) = Count(e)
    BY <2>3, <2>4, <2>5 DEF Suffix
  <2> QED BY <1>8, <2>6 DEF L
<1>9. CASE e.type = "turn.aborted"
  <2> DEFINE d1 == D(1, "turn.ended", "interrupted")
           d2 == D(2, "runtime.error", NoRequest)
  <2>1. L = <<d1, d2>>
    BY <1>9 DEF DomainEvents
  <2>2. d1 \in Piece /\ d2 \in Piece
    <3>1. "interrupted" \in Args /\ NoRequest \in Args
      BY DEF Args, Ends
    <3> QED BY <1>2, <3>1 DEF Types
  <2>3. /\ PartOf(e, d1) /\ d1.k = 1 /\ d1.row = NoRow
        /\ PartOf(e, d2) /\ d2.k = 2 /\ d2.row = NoRow
    BY <1>9, EventIs DEF PartOf, D, Ends
  <2>4. Count(e) = 2
    BY <1>9 DEF Count
  <2> HIDE DEF L, d1, d2
  <2>5. L \in Seq(Piece) /\ Len(L) = 2 /\ L[1] = d1 /\ L[2] = d2
    BY <2>1, <2>2
  <2>6. Suffix(e, L) /\ Len(L) = Count(e)
    BY <2>3, <2>4, <2>5 DEF Suffix
  <2> QED BY <1>9, <2>6 DEF L
<1>10. CASE e.type = "closed" /\ Active
  <2> DEFINE d1 == D(1, "provider.closed", NoRequest)
  <2>1. L = <<d1>>
    BY <1>10 DEF DomainEvents
  <2>2. d1 \in Piece
    BY <1>2 DEF Types, Args
  <2>3. /\ PartOf(e, d1) /\ d1.k = 1 /\ d1.row = NoRow
    BY <1>10, EventIs DEF PartOf, D, Ends
  <2>4. Count(e) = 1
    BY <1>10 DEF Count
  <2> HIDE DEF L, d1
  <2>5. L \in Seq(Piece) /\ Len(L) = 1 /\ L[1] = d1
    BY <2>1, <2>2
  <2>6. Suffix(e, L) /\ Len(L) = Count(e)
    BY <2>3, <2>4, <2>5 DEF Suffix
  <2> QED BY <1>10, <2>6 DEF L
<1>11. CASE e.type = "closed" /\ ~Active
  BY <1>11 DEF DomainEvents
<1>12. CASE e.type = "compacted"
  <2> DEFINE d1 == D(1, "thread.compacted", NoRequest)
  <2>1. L = <<d1>>
    BY <1>12 DEF DomainEvents
  <2>2. d1 \in Piece
    BY <1>2 DEF Types, Args
  <2>3. /\ PartOf(e, d1) /\ d1.k = 1 /\ d1.row = NoRow
    BY <1>12, EventIs DEF PartOf, D, Ends
  <2>4. Count(e) = 1
    BY <1>12 DEF Count
  <2> HIDE DEF L, d1
  <2>5. L \in Seq(Piece) /\ Len(L) = 1 /\ L[1] = d1
    BY <2>1, <2>2
  <2>6. Suffix(e, L) /\ Len(L) = Count(e)
    BY <2>3, <2>4, <2>5 DEF Suffix
  <2> QED BY <1>12, <2>6 DEF L
<1>13. CASE e.type \in {"usage", "item", "runtime.error"}
  <2> DEFINE d1 == D(1, e.type, NoRequest)
  <2>1. L = <<d1>>
    BY <1>13 DEF DomainEvents
  <2>2. d1 \in Piece
    <3>1. e.type \in Types
      BY <1>13, EventIs DEF Args, Types
    <3> QED BY <1>2, <3>1 DEF Types, Args
  <2>3. /\ PartOf(e, d1) /\ d1.k = 1 /\ d1.row = NoRow
    BY <1>13, EventIs DEF PartOf, D, Ends
  <2>4. Count(e) = 1
    BY <1>13 DEF Count
  <2> HIDE DEF L, d1
  <2>5. L \in Seq(Piece) /\ Len(L) = 1 /\ L[1] = d1
    BY <2>1, <2>2
  <2>6. Suffix(e, L) /\ Len(L) = Count(e)
    BY <2>3, <2>4, <2>5 DEF Suffix
  <2> QED BY <1>13, <2>6 DEF L
<1> QED BY <1>3, <1>4, <1>5, <1>6, <1>7, <1>8, <1>9, <1>10, <1>11, <1>12, <1>13, EventIs

LEMMA HeadIs ==
    ASSUME NEW e, NEW rest, Suffix(e, rest), rest # <<>>
    PROVE  /\ Head(rest) \in Piece /\ PartOf(e, Head(rest)) /\ Len(rest) > 0
           /\ Head(rest).k = Count(e) - Len(rest) + 1
           /\ Head(rest).k > 1 => Head(rest).row = NoRow
<1>1. Len(rest) > 0 /\ Head(rest) = rest[1] /\ rest[1] \in Piece
  BY DEF Suffix
<1> QED BY <1>1 DEF Suffix

LEMMA CountIs == ASSUME NEW e PROVE Count(e) \in 1..3
BY DEF Count

LEMMA SuffixTail ==
    ASSUME NEW e, NEW rest, Suffix(e, rest), rest # <<>>
    PROVE  Suffix(e, Tail(rest)) /\ Len(Tail(rest)) = Len(rest) - 1
<1>1. rest \in Seq(Piece) /\ Len(rest) \in Nat /\ Len(rest) > 0 /\ Count(e) \in Nat
  BY CountIs DEF Suffix
<1>2. Tail(rest) \in Seq(Piece) /\ Len(Tail(rest)) = Len(rest) - 1
      /\ \A i \in 1..(Len(rest) - 1) : Tail(rest)[i] = rest[i + 1]
  BY <1>1
<1>3. ASSUME NEW i \in 1..Len(Tail(rest))
      PROVE  /\ PartOf(e, Tail(rest)[i]) /\ Tail(rest)[i].k = Count(e) - Len(Tail(rest)) + i
             /\ Tail(rest)[i].k > 1 => Tail(rest)[i].row = NoRow
  <2>1. i + 1 \in 1..Len(rest) /\ Tail(rest)[i] = rest[i + 1]
    BY <1>1, <1>2
  <2>2. PartOf(e, rest[i + 1]) /\ rest[i + 1].k = Count(e) - Len(rest) + (i + 1)
        /\ (rest[i + 1].k > 1 => rest[i + 1].row = NoRow)
    BY <2>1 DEF Suffix
  <2>3. Count(e) - Len(rest) + (i + 1) = Count(e) - Len(Tail(rest)) + i
    BY <1>1, <1>2
  <2> QED BY <2>1, <2>2, <2>3
<1>4. Len(Tail(rest)) <= Count(e)
  BY <1>1, <1>2 DEF Suffix
<1> QED BY <1>2, <1>3, <1>4 DEF Suffix

LEMMA NewIs ==
    ASSUME NEW d
    PROVE  ~IsNew(d) <=> Recorded(Head(queue), d.k)
BY DEF IsNew, Mine, Recorded

\* What is left of the domain events of an event is left of them: its first is
\* not in the log as it stands, and those passed over are.
LEMMA LeftOf ==
    ASSUME NEW e, NEW rest, Suffix(e, rest)
    PROVE  \/ /\ Left(rest) = <<>>
              /\ \A i \in 1..Len(rest) : ~IsNew(rest[i])
           \/ /\ Left(rest) # <<>> /\ Suffix(e, Left(rest)) /\ Len(Left(rest)) <= Len(rest)
              /\ IsNew(Head(Left(rest))) \/ Conflicts(Head(Left(rest)))
              /\ Len(Left(rest)) < Len(rest) =>
                   ~IsNew(rest[1]) /\ Recorded(Head(queue), Head(Left(rest)).k - 1)
<1>1. rest \in Seq(Piece) /\ Len(rest) \in Nat /\ Count(e) \in Nat
  BY CountIs DEF Suffix
<1>2. CASE Left(rest) = <<>>
  BY <1>1, <1>2, LeftIs
<1>3. CASE Left(rest) # <<>>
  <2>1. PICK m \in 1..Len(rest) :
          /\ Left(rest) \in Seq(Piece) /\ Len(Left(rest)) = Len(rest) - m + 1
          /\ \A i \in 1..(Len(rest) - m + 1) : Left(rest)[i] = rest[m + i - 1]
          /\ Head(Left(rest)) = rest[m]
          /\ IsNew(rest[m]) \/ Conflicts(rest[m])
          /\ \A i \in 1..Len(rest) : i < m => ~IsNew(rest[i])
    BY <1>1, <1>3, LeftIs
  <2>2. ASSUME NEW i \in 1..Len(Left(rest))
        PROVE  /\ PartOf(e, Left(rest)[i]) /\ Left(rest)[i].k = Count(e) - Len(Left(rest)) + i
               /\ Left(rest)[i].k > 1 => Left(rest)[i].row = NoRow
    <3>1. m + i - 1 \in 1..Len(rest) /\ Left(rest)[i] = rest[m + i - 1]
      BY <1>1, <2>1
    <3>2. PartOf(e, rest[m + i - 1]) /\ rest[m + i - 1].k = Count(e) - Len(rest) + (m + i - 1)
          /\ (rest[m + i - 1].k > 1 => rest[m + i - 1].row = NoRow)
      BY <3>1 DEF Suffix
    <3>3. Count(e) - Len(rest) + (m + i - 1) = Count(e) - Len(Left(rest)) + i
      BY <1>1, <2>1
    <3> QED BY <3>1, <3>2, <3>3
  <2>3. Len(Left(rest)) <= Len(rest) /\ Len(Left(rest)) <= Count(e)
    BY <1>1, <2>1 DEF Suffix
  <2>4. Suffix(e, Left(rest))
    BY <2>1, <2>2, <2>3 DEF Suffix
  <2>5. ASSUME Len(Left(rest)) < Len(rest)
        PROVE  ~IsNew(rest[1]) /\ Recorded(Head(queue), Head(Left(rest)).k - 1)
    <3>1. m > 1 /\ m - 1 \in 1..Len(rest)
      BY <1>1, <2>1, <2>5
    <3>2. ~IsNew(rest[1]) /\ ~IsNew(rest[m - 1])
      BY <1>1, <2>1, <3>1
    <3>3. rest[m - 1].k = Count(e) - Len(rest) + (m - 1) /\ rest[m].k = Count(e) - Len(rest) + m
      BY <3>1 DEF Suffix
    <3>4. rest[m - 1].k = Head(Left(rest)).k - 1
      BY <1>1, <2>1, <3>3
    <3> QED BY <3>2, <3>4, NewIs
  <2> QED BY <1>3, <2>1, <2>3, <2>4, <2>5
<1> QED BY <1>2, <1>3

-----------------------------------------------------------------------------
(* The queue. *)

LEMMA QueueFacts ==
    ASSUME QueueIs
    PROVE  /\ Len(emitted) \in Nat /\ Len(queue) \in Nat /\ Done \in Nat /\ Done <= Len(emitted)
           /\ queue = <<>> <=> Len(queue) = 0
           /\ queue # <<>> =>
                /\ Head(queue) = Done + 1 /\ Head(queue) \in 1..Len(emitted) /\ Now \in Event
                /\ Tail(queue) \in Seq(Nat) /\ Len(Tail(queue)) = Len(queue) - 1
                /\ \A i \in 1..Len(Tail(queue)) : Tail(queue)[i] = Done + 1 + i
<1>1. Len(emitted) \in Nat /\ Len(queue) \in Nat /\ Done \in Nat /\ Done <= Len(emitted)
  BY DEF QueueIs, Done
<1>2. queue = <<>> <=> Len(queue) = 0
  BY DEF QueueIs
<1>3. ASSUME queue # <<>>
      PROVE  /\ Head(queue) = Done + 1 /\ Head(queue) \in 1..Len(emitted) /\ Now \in Event
             /\ Tail(queue) \in Seq(Nat) /\ Len(Tail(queue)) = Len(queue) - 1
             /\ \A i \in 1..Len(Tail(queue)) : Tail(queue)[i] = Done + 1 + i
  <2>1. Head(queue) = queue[1] /\ 1 \in 1..Len(queue)
    BY <1>1, <1>2, <1>3 DEF QueueIs
  <2>2. Head(queue) = Done + 1
    BY <2>1 DEF QueueIs
  <2>3. Head(queue) \in 1..Len(emitted)
    BY <1>1, <2>1, <2>2 DEF Done
  <2>4. Now \in Event
    BY <2>3 DEF QueueIs, Now
  <2>5. Tail(queue) \in Seq(Nat) /\ Len(Tail(queue)) = Len(queue) - 1
    BY <1>3 DEF QueueIs
  <2>6. ASSUME NEW i \in 1..Len(Tail(queue)) PROVE Tail(queue)[i] = Done + 1 + i
    <3>1. i + 1 \in 1..Len(queue) /\ Tail(queue)[i] = queue[i + 1]
      BY <1>1, <1>3, <2>5 DEF QueueIs
    <3>2. queue[i + 1] = Done + (i + 1)
      BY <3>1 DEF QueueIs
    <3> QED BY <1>1, <3>1, <3>2
  <2> QED BY <2>2, <2>3, <2>4, <2>5, <2>6
<1> QED BY <1>1, <1>2, <1>3

\* A provider's step: one event more, at the end of the log and of the queue.
Tell(ev) ==
    /\ runtime = "up" /\ ev \in Event
    /\ emitted' = Append(emitted, ev) /\ queue' = Append(queue, Len(emitted) + 1)
    /\ UNCHANGED <<logged, processed, session, receipt, rows, domain, shown, work, found, latch,
                   runtime, cut, behind, lapsed>>

LEMMA TellIs ==
    ASSUME QueueIs, NEW ev, Tell(ev)
    PROVE  /\ QueueIs' /\ Done' = Done
           /\ Len(emitted') = Len(emitted) + 1 /\ emitted'[Len(emitted) + 1] = ev
           /\ \A i \in 1..Len(emitted) : emitted'[i] = emitted[i]
           /\ queue # <<>> => Head(queue') = Head(queue) /\ Now' = Now
<1>1. /\ Len(emitted') = Len(emitted) + 1 /\ emitted'[Len(emitted) + 1] = ev
      /\ \A i \in 1..Len(emitted) : emitted'[i] = emitted[i]
      /\ emitted' \in Seq(Event)
  BY DEF Tell, QueueIs
<1>2. Len(emitted) \in Nat /\ Len(queue) \in Nat /\ Len(queue) <= Len(emitted)
  BY DEF QueueIs
<1>3. /\ queue' \in Seq(Nat) /\ Len(queue') = Len(queue) + 1
      /\ queue'[Len(queue) + 1] = Len(emitted) + 1
      /\ \A i \in 1..Len(queue) : queue'[i] = queue[i]
  BY <1>2 DEF Tell, QueueIs
<1>4. Done' = Done
  BY <1>1, <1>2, <1>3 DEF Done
<1>5. ASSUME NEW i \in 1..Len(queue') PROVE queue'[i] = Done' + i
  <2>1. CASE i = Len(queue) + 1
    BY <1>2, <1>3, <1>4, <2>1 DEF Done
  <2>2. CASE i # Len(queue) + 1
    <3>1. i \in 1..Len(queue)
      BY <1>2, <1>3, <2>2
    <3> QED BY <1>3, <1>4, <3>1 DEF QueueIs
  <2> QED BY <2>1, <2>2
<1>6. queue' # <<>> /\ runtime' = "up"
  BY <1>2, <1>3 DEF Tell
<1>7. QueueIs'
  BY <1>1, <1>2, <1>3, <1>5, <1>6 DEF QueueIs
<1>8. ASSUME queue # <<>> PROVE Head(queue') = Head(queue) /\ Now' = Now
  <2>1. Head(queue') = Head(queue)
    BY <1>2, <1>3, <1>8 DEF QueueIs
  <2> QED BY <1>1, <1>8, <2>1, QueueFacts DEF Now
<1> QED BY <1>1, <1>4, <1>7, <1>8

LEMMA ProviderIs ==
    ASSUME QueueIs, Provider
    PROVE  \E ev \in Event : Tell(ev)
<1> USE DEF Tell, Emit, Unmoved, durable, Event
<1>1. CASE TurnBegins
  BY <1>1 DEF TurnBegins
<1>2. CASE TurnEnds
  <2>1. PICK ev : /\ emitted' = Append(emitted, ev) /\ queue' = Append(queue, Len(emitted'))
                  /\ ev \in Event /\ runtime = "up"
    <3>1. CASE Emit("turn.completed", "completed")
      BY <3>1 DEF Ends
    <3>2. ASSUME NEW how \in Ends, Emit("turn.completed", how)
          PROVE  \E ev : /\ emitted' = Append(emitted, ev) /\ queue' = Append(queue, Len(emitted'))
                         /\ ev \in Event /\ runtime = "up"
      BY <3>2
    <3>3. ASSUME NEW type \in {"turn.aborted", "runtime.error", "closed"}, Emit(type, NoRequest)
          PROVE  \E ev : /\ emitted' = Append(emitted, ev) /\ queue' = Append(queue, Len(emitted'))
                         /\ ev \in Event /\ runtime = "up"
      BY <3>3
    <3> QED BY <1>2, <3>1, <3>2, <3>3 DEF TurnEnds
  <2>2. queue' = Append(queue, Len(emitted) + 1)
    BY <2>1 DEF QueueIs
  <2> QED BY <1>2, <2>1, <2>2 DEF TurnEnds
<1>3. CASE Tells
  BY <1>3 DEF Tells
<1>4. CASE Compacted
  BY <1>4 DEF Compacted
<1>5. ASSUME NEW r \in Requests, Asks(r) PROVE \E ev \in Event : Tell(ev)
  BY <1>5 DEF Asks
<1>6. ASSUME NEW r \in Requests, IsAnswered(r) PROVE \E ev \in Event : Tell(ev)
  BY <1>6 DEF IsAnswered
<1> QED BY <1>1, <1>2, <1>3, <1>4, <1>5, <1>6 DEF Provider

\* The handler is through with the first event of the queue.
LEMMA PopIs ==
    ASSUME QueueIs, queue # <<>>, runtime = "up", queue' = Tail(queue), emitted' = emitted,
           runtime' = runtime, work' = Idle
    PROVE  QueueIs' /\ Done' = Done + 1 /\ Done + 1 = Head(queue)
<1>1. Done' = Done + 1
  BY QueueFacts DEF Done
<1> QED BY <1>1, QueueFacts DEF QueueIs

-----------------------------------------------------------------------------
(* The handler. *)

\* The domain events of rest are to be recorded, the first is next.
Fresh(rest) ==
    /\ rest # <<>> /\ Suffix(Now, rest) /\ IsNew(Head(rest))
    /\ Head(rest).k = 1 \/ Recorded(Head(queue), Head(rest).k - 1)

Full == DomainEvents(Now, found)

LEMMA AtWork ==
    ASSUME QueueIs, work.at # "idle"
    PROVE  work # Idle /\ queue # <<>> /\ Now \in Event
BY QueueFacts DEF QueueIs, Idle

\* A row is written, before anything is recorded.
LEMMA HookedIs ==
    ASSUME QueueIs, WorkIs, StateIs, Hooked
    PROVE  /\ work.at = "hook" /\ work # Idle /\ runtime = "up" /\ queue # <<>> /\ Now \in Event
           /\ UNCHANGED <<logged, processed, session, receipt, domain, shown, queue, requester,
                          emitted, turn, asked, compacting, runtime, cut, behind, stranded>>
           /\ found' = Project(Now) /\ found' \in Rows /\ rows' \in [Requests -> Rows]
           /\ rows' = IF found' = NoRow THEN rows ELSE [rows EXCEPT ![Now.arg] = found']
           /\ latch' = (latch /\ Now.type \notin {"runtime.error", "closed"})
           /\ lapsed' = IF Now.type \in {"runtime.error", "closed"} THEN Lapses ELSE lapsed
           /\ work'.at \in Early /\ work'.rest = <<>> /\ work' # Idle
           /\ work' \in [at : Stages, rest : Seq(Piece)]
           /\ Now' = Now /\ FoundIs'
<1>1. work.at = "hook" /\ work # Idle /\ runtime = "up" /\ queue # <<>> /\ Now \in Event
  BY AtWork DEF Hooked
<1>2. /\ UNCHANGED <<logged, processed, session, receipt, domain, shown, queue, requester,
                     emitted, turn, asked, compacting, runtime, cut, behind, stranded>>
      /\ found' = Project(Now)
      /\ rows' = IF found' = NoRow THEN rows ELSE [rows EXCEPT ![Now.arg] = found']
      /\ work' = [work EXCEPT !.at = IF Posts(Now) THEN "posting" ELSE "found"]
      /\ latch' = (latch /\ Now.type \notin {"runtime.error", "closed"})
      /\ lapsed' = IF Now.type \in {"runtime.error", "closed"} THEN Lapses ELSE lapsed
  BY DEF Hooked, outside, Now
<1>3. /\ work'.at = IF Posts(Now) THEN "posting" ELSE "found"
      /\ work'.rest = <<>> /\ work' \in [at : Stages, rest : Seq(Piece)] /\ work' # Idle
  BY <1>1, <1>2 DEF WorkIs, Mid, Early, Stages, Idle
<1>4. found' \in Rows /\ rows' \in [Requests -> Rows]
  BY <1>1, <1>2, ProjectIs DEF StateIs
<1>5. Now' = Now
  BY <1>2 DEF Now
<1>6. FoundIs'
  <2>1. Posts(Now) => Now.type = "request.opened" /\ found' # NoRow
    BY <1>1, <1>2, ProjectIs
  <2>2. ASSUME found' # NoRow
        PROVE  \/ /\ Now.type = "request.opened" /\ found'.status = "open"
                  /\ rows'[Now.arg].status = "open"
               \/ /\ Now.type = "request.resolved" /\ found'.status = "resolved"
                  /\ rows'[Now.arg].status = "resolved"
    <3>1. \/ Now.type = "request.opened" /\ found'.status = "open"
          \/ Now.type = "request.resolved" /\ found'.status = "resolved"
      BY <1>1, <1>2, <2>2, ProjectIs
    <3>2. Now.arg \in Requests
      BY <1>1, <3>1, EventIs
    <3>3. rows'[Now.arg] = found'
      BY <1>2, <2>2, <3>2 DEF StateIs
    <3> QED BY <3>1, <3>3
  <2>3. ASSUME found' = NoRow
        PROVE  /\ Now.type = "request.opened" => rows'[Now.arg].status = "resolved"
               /\ Now.type = "request.resolved" => rows'[Now.arg].status = "absent"
    <3>1. rows' = rows
      BY <1>2, <2>3
    <3> QED BY <1>1, <1>2, <2>3, <3>1, ProjectIs
  <2> QED BY <1>3, <1>5, <2>1, <2>2, <2>3 DEF FoundIs
<1> QED BY <1>1, <1>2, <1>3, <1>4, <1>5, <1>6 DEF Early

\* The row is written again, with the message.
LEMMA PostedIs ==
    ASSUME QueueIs, WorkIs, StateIs, FoundIs, Posted
    PROVE  /\ work.at = "posting" /\ work # Idle /\ runtime = "up" /\ queue # <<>> /\ Now \in Event
           /\ Now.type = "request.opened"
           /\ UNCHANGED <<logged, processed, session, receipt, domain, shown, queue, found, requester,
                          latch, emitted, turn, asked, compacting, runtime, cut, behind, lapsed,
                          stranded>>
           /\ rows' \in [Requests -> Rows]
           /\ \A r \in Requests : rows'[r].status = rows[r].status
           /\ work'.at = "found" /\ work'.rest = <<>> /\ work' # Idle
           /\ work' \in [at : Stages, rest : Seq(Piece)]
           /\ Now' = Now /\ FoundIs'
<1>1. work.at = "posting" /\ work # Idle /\ runtime = "up" /\ queue # <<>> /\ Now \in Event
  BY AtWork DEF Posted
<1>2. /\ UNCHANGED <<logged, processed, session, receipt, domain, shown, queue, found, requester,
                     latch, emitted, turn, asked, compacting, runtime, cut, behind, lapsed, stranded>>
      /\ rows' = [rows EXCEPT ![Now.arg] = [found EXCEPT !.message = TRUE]]
      /\ work' = [work EXCEPT !.at = "found"]
  BY DEF Posted, outside, history, Now
<1>3. work'.at = "found" /\ work'.rest = <<>> /\ work' \in [at : Stages, rest : Seq(Piece)] /\ work' # Idle
  BY <1>1, <1>2 DEF WorkIs, Mid, Early, Stages, Idle
<1>4. Now.type = "request.opened" /\ found # NoRow /\ found.status = "open"
      /\ rows[Now.arg].status = "open" /\ Now.arg \in Requests
  BY <1>1, EventIs DEF FoundIs, Early
<1> DEFINE row == [found EXCEPT !.message = TRUE]
<1>5. row \in Rows /\ row.status = "open"
  BY <1>4 DEF StateIs, Rows
<1> HIDE DEF row
<1>6. rows' = [rows EXCEPT ![Now.arg] = row]
  BY <1>2 DEF row
<1>7. rows' \in [Requests -> Rows] /\ \A r \in Requests : rows'[r].status = rows[r].status
  BY <1>4, <1>5, <1>6 DEF StateIs
<1>8. Now' = Now
  BY <1>2 DEF Now
<1>9. FoundIs'
  BY <1>2, <1>3, <1>4, <1>7, <1>8 DEF FoundIs
<1> QED BY <1>1, <1>2, <1>3, <1>4, <1>7, <1>8, <1>9

\* The domain events of the event, from the first that is not in the log.
LEMMA RequestedIs ==
    ASSUME QueueIs, WorkIs, StateIs, FoundIs, Requested
    PROVE  /\ work.at = "found" /\ work # Idle /\ runtime = "up" /\ queue # <<>> /\ Now \in Event
           /\ UNCHANGED <<logged, session, rows, shown, requester, latch, emitted, turn, asked,
                          compacting, runtime, lapsed, stranded>>
           /\ found' = NoRow
           /\ \/ Abandon
              \/ Finish /\ Left(Full) = <<>>
              \/ Record(Left(Full)) /\ Fresh(Left(Full))
<1>1. work.at = "found" /\ work # Idle /\ runtime = "up" /\ queue # <<>> /\ Now \in Event
  BY AtWork DEF Requested
<1>2. UNCHANGED <<logged, session, rows, shown, requester, latch, emitted, turn, asked, compacting,
                  runtime, lapsed, stranded>> /\ found' = NoRow
  BY DEF Requested, outside
<1>3. \/ Abandon
      \/ ~(Left(Full) # <<>> /\ Conflicts(Head(Left(Full)))) /\ NextDomainEvent(Left(Full))
  BY DEF Requested, Now, Full
<1>4. CASE Left(Full) # <<>> /\ ~Conflicts(Head(Left(Full)))
  <2>1. Suffix(Now, Full) /\ Len(Full) = Count(Now)
    <3>1. Left(<<>>) = <<>>
      <4>1. <<>> \in Seq(Piece) /\ 1..Len(<<>>) = {}
        OBVIOUS
      <4> QED BY <4>1, LeftIs
    <3>2. /\ found # NoRow /\ Now.type = "request.opened" => found.status = "open"
          /\ found # NoRow /\ Now.type = "request.resolved" => found.status = "resolved"
      BY <1>1 DEF FoundIs, Early
    <3>3. found \in Rows
      BY DEF StateIs
    <3> QED BY <1>1, <1>4, <3>1, <3>2, <3>3, DomainEventsAre DEF Full
  <2>2. /\ Suffix(Now, Left(Full)) /\ IsNew(Head(Left(Full))) /\ Len(Left(Full)) <= Len(Full)
        /\ Len(Left(Full)) < Len(Full) => Recorded(Head(queue), Head(Left(Full)).k - 1)
    BY <1>4, <2>1, LeftOf
  <2>3. Head(Left(Full)).k = Count(Now) - Len(Left(Full)) + 1
    BY <1>4, <2>2, HeadIs
  <2>4. Len(Left(Full)) \in Nat /\ Count(Now) \in Nat
    BY <2>2, CountIs DEF Suffix
  <2>5. Len(Left(Full)) = Len(Full) => Head(Left(Full)).k = 1
    BY <2>1, <2>3, <2>4
  <2>6. Fresh(Left(Full))
    BY <1>4, <2>1, <2>2, <2>4, <2>5 DEF Fresh
  <2> QED BY <1>1, <1>2, <1>3, <1>4, <2>6 DEF NextDomainEvent
<1>5. CASE Left(Full) = <<>>
  BY <1>1, <1>2, <1>3, <1>5 DEF NextDomainEvent
<1>6. CASE Left(Full) # <<>> /\ Conflicts(Head(Left(Full)))
  BY <1>1, <1>2, <1>3, <1>6
<1> QED BY <1>4, <1>5, <1>6

LEMMA PostFailsIs ==
    ASSUME QueueIs, PostFails
    PROVE  /\ work.at = "posting" /\ work # Idle /\ runtime = "up" /\ queue # <<>> /\ Now \in Event
           /\ Abandon /\ found' = NoRow
           /\ UNCHANGED <<logged, session, rows, shown, requester, latch, emitted, turn, asked,
                          compacting, runtime, lapsed, stranded>>
BY AtWork DEF PostFails, outside

LEMMA DomainHookedIs ==
    ASSUME QueueIs, WorkIs, DomainOnce, DomainHooked
    PROVE  /\ work.at = "domain" /\ work # Idle /\ runtime = "up" /\ queue # <<>> /\ Now \in Event
           /\ UNCHANGED <<logged, session, rows, shown, found, requester, latch, emitted, turn, asked,
                          compacting, runtime, lapsed, stranded>>
           /\ Suffix(Now, work.rest) /\ work.rest # <<>>
           /\ \/ Finish /\ Left(Tail(work.rest)) = <<>>
              \/ Record(Left(Tail(work.rest))) /\ Fresh(Left(Tail(work.rest)))
<1> DEFINE L == Left(Tail(work.rest))
<1>1. /\ work.at = "domain" /\ work # Idle /\ runtime = "up" /\ queue # <<>> /\ Now \in Event
      /\ Suffix(Now, work.rest) /\ work.rest # <<>>
  <2>1. work.at = "domain" /\ work # Idle /\ runtime = "up"
    BY DEF DomainHooked, Idle
  <2> QED BY <2>1, QueueFacts DEF QueueIs, WorkIs, Mid
<1>2. UNCHANGED <<logged, session, rows, shown, found, requester, latch, emitted, turn, asked,
                  compacting, runtime, lapsed, stranded>>
  BY DEF DomainHooked, outside
<1>3. NextDomainEvent(L)
  BY DEF DomainHooked
<1>4. CASE L # <<>>
  <2>1. Suffix(Now, Tail(work.rest)) /\ Len(Tail(work.rest)) = Len(work.rest) - 1
    BY <1>1, SuffixTail
  <2>2. /\ Suffix(Now, L) /\ (IsNew(Head(L)) \/ Conflicts(Head(L)))
        /\ Len(L) <= Len(Tail(work.rest))
        /\ Len(L) < Len(Tail(work.rest)) => Recorded(Head(queue), Head(L).k - 1)
    BY <1>4, <2>1, LeftOf
  <2>3. /\ Head(L).k = Count(Now) - Len(L) + 1 /\ (Head(L).k > 1 => Head(L).row = NoRow)
        /\ Part.k = Count(Now) - Len(work.rest) + 1
    BY <1>1, <1>4, <2>2, HeadIs, LeftOf, <2>1 DEF Part
  <2>4. Len(L) \in Nat /\ Count(Now) \in Nat /\ Len(work.rest) \in Nat /\ Len(work.rest) <= Count(Now)
    BY <1>1, <1>4, <2>1, LeftOf, CountIs DEF Suffix
  <2>5. Head(L).k > 1
    BY <2>1, <2>2, <2>3, <2>4
  <2>6. Recorded(Head(queue), Head(L).k - 1)
    <3>1. CASE Len(L) = Len(Tail(work.rest))
      <4>1. Head(L).k - 1 = Part.k
        BY <2>1, <2>3, <2>4, <3>1
      <4> QED BY <1>1, <4>1 DEF DomainOnce, Mid
    <3>2. CASE Len(L) < Len(Tail(work.rest))
      BY <2>2, <3>2
    <3> QED BY <2>1, <2>2, <2>4, <3>1, <3>2
  <2>7. ~Conflicts(Head(L))
    BY <2>3, <2>5 DEF Conflicts, Mine, DomainOnce
  <2>8. Suffix(Now, L)
    BY <1>4, <2>1, LeftOf
  <2>9. IsNew(Head(L))
    BY <1>4, <2>1, <2>7, LeftOf
  <2> QED BY <1>1, <1>2, <1>3, <1>4, <2>6, <2>8, <2>9 DEF Fresh, NextDomainEvent
<1>5. CASE L = <<>>
  BY <1>1, <1>2, <1>3, <1>5 DEF NextDomainEvent
<1> QED BY <1>4, <1>5

-----------------------------------------------------------------------------
(* The frame. *)

LEMMA IdleIs ==
    /\ Idle \in [at : Stages, rest : Seq(Piece)] /\ Idle.rest = <<>>
    /\ Idle.at \notin Mid /\ Idle.at \notin Early /\ Idle.at # "posting"
BY DEF Idle, Stages, Mid, Early

LEMMA ProviderFrame ==
    ASSUME Frame, Provider
    PROVE  Frame'
<1> USE DEF Frame
<1>1. PICK ev \in Event : Tell(ev)
  BY ProviderIs
<1>2. /\ QueueIs' /\ Done' = Done /\ Len(emitted') = Len(emitted) + 1
      /\ queue # <<>> => Head(queue') = Head(queue) /\ Now' = Now
  BY <1>1, TellIs
<1>3. UNCHANGED <<logged, processed, session, receipt, rows, domain, shown, work, found, latch,
                  runtime, cut, behind, lapsed>>
  BY <1>1 DEF Tell
<1>4. WorkIs' /\ FoundIs'
  BY <1>2, <1>3, IdleIs DEF WorkIs, FoundIs, QueueIs
<1>5. LogIs'
  BY <1>2, <1>3, QueueFacts DEF LogIs, QueueIs
<1>6. requester' \in BOOLEAN
  BY DEF Provider, TurnBegins, TurnEnds, Tells, Compacted, Asks, IsAnswered, StateIs
<1>7. StateIs'
  BY <1>3, <1>6 DEF StateIs
<1>8. Through'
  BY <1>2, <1>3 DEF Through
<1> QED BY <1>2, <1>4, <1>5, <1>7, <1>8

\* An event of which nothing is to be done, or nothing more, is marked as handled.
LEMMA FinishFrame ==
    ASSUME QueueIs, WorkIs, LogIs, Through, work # Idle, runtime = "up", Finish, emitted' = emitted,
           runtime' = runtime, logged' = logged
    PROVE  QueueIs' /\ WorkIs' /\ LogIs' /\ FoundIs' /\ Through'
<1>1. queue # <<>> /\ queue' = Tail(queue) /\ work' = Idle /\ processed' = processed \cup {Head(queue)}
      /\ behind' = behind
  BY DEF Finish, QueueIs, Processed
<1>2. QueueIs' /\ Done' = Done + 1 /\ Done + 1 = Head(queue)
  BY <1>1, PopIs
<1>3. WorkIs' /\ FoundIs'
  BY <1>1, IdleIs DEF WorkIs, FoundIs
<1>4. LogIs'
  BY <1>1 DEF LogIs
<1>5. Through'
  BY <1>1, <1>2, QueueFacts DEF Through
<1> QED BY <1>2, <1>3, <1>4, <1>5

LEMMA AbandonFrame ==
    ASSUME QueueIs, WorkIs, LogIs, Through, work # Idle, runtime = "up", Abandon, emitted' = emitted,
           runtime' = runtime, logged' = logged
    PROVE  QueueIs' /\ WorkIs' /\ LogIs' /\ FoundIs' /\ Through'
<1>1. queue # <<>> /\ queue' = Tail(queue) /\ work' = Idle /\ processed' = processed
      /\ behind' = behind \cup {Head(queue)}
  BY DEF Abandon, QueueIs
<1>2. QueueIs' /\ Done' = Done + 1 /\ Done + 1 = Head(queue)
  BY <1>1, PopIs
<1>3. WorkIs' /\ FoundIs'
  BY <1>1, IdleIs DEF WorkIs, FoundIs
<1>4. LogIs'
  BY <1>1 DEF LogIs
<1>5. Through'
  BY <1>1, <1>2, QueueFacts DEF Through
<1> QED BY <1>2, <1>3, <1>4, <1>5

LEMMA RecordFrame ==
    ASSUME QueueIs, WorkIs, LogIs, Through, work # Idle, runtime = "up", queue # <<>>,
           NEW rest, Record(rest), Fresh(rest),
           emitted' = emitted, runtime' = runtime, logged' = logged
    PROVE  QueueIs' /\ WorkIs' /\ LogIs' /\ FoundIs' /\ Through'
<1>1. queue' = queue /\ processed' = processed /\ behind' = behind
      /\ work' = [at |-> "receipt", rest |-> rest] /\ work' # Idle
  BY DEF Record, Idle
<1>2. QueueIs' /\ Done' = Done /\ Now' = Now
  BY <1>1 DEF QueueIs, Done, Now
<1>3. Suffix(Now, rest) /\ rest # <<>> /\ rest \in Seq(Piece)
  BY DEF Fresh, Suffix
<1>4. work'.at = "receipt" /\ work'.rest = rest /\ work' \in [at : Stages, rest : Seq(Piece)]
  BY <1>1, <1>3 DEF Stages, Mid
<1>5. WorkIs' /\ FoundIs'
  BY <1>2, <1>3, <1>4 DEF WorkIs, FoundIs, Mid, Early
<1>6. LogIs'
  BY <1>1 DEF LogIs
<1>7. Through'
  BY <1>1, <1>2 DEF Through
<1> QED BY <1>2, <1>5, <1>6, <1>7

LEMMA ReceiptTyped ==
    ASSUME StateIs, NEW e \in Event, NEW d \in Piece, PartOf(e, d)
    PROVE  ReceiptAfter(d) \in [state : States, turn : BOOLEAN, request : Requests \cup {NoRequest}]
<1>1. receipt \in [state : States, turn : BOOLEAN, request : Requests \cup {NoRequest}]
  BY DEF StateIs
<1>2. d.type = "turn.waiting" => d.arg \in Requests
  BY EventIs DEF PartOf
<1>3. d.type = "turn.ended" => d.arg \in Ends
  BY EventIs DEF PartOf, Ends
<1>4. d.type \in Types
  BY DEF Piece
<1> USE DEF Receipt, States
<1>5. CASE d.type = "turn.started"
  BY <1>5 DEF ReceiptAfter
<1>6. CASE d.type = "turn.waiting"
  BY <1>1, <1>2, <1>6 DEF ReceiptAfter
<1>7. CASE d.type = "turn.ended"
  BY <1>3, <1>7 DEF ReceiptAfter
<1>8. CASE d.type = "runtime.idle"
  BY <1>8 DEF ReceiptAfter
<1>9. CASE d.type = "runtime.busy"
  BY <1>1, <1>9 DEF ReceiptAfter
<1>10. CASE d.type = "runtime.waiting"
  BY <1>1, <1>10 DEF ReceiptAfter
<1>11. CASE d.type = "runtime.error"
  BY <1>11 DEF ReceiptAfter, Ends
<1>12. CASE d.type = "provider.closed"
  BY <1>1, <1>12 DEF ReceiptAfter, ClosedReceipt, Ends
<1>13. CASE d.type \in {"request.opened", "request.resolved", "thread.compacted", "usage", "item"}
  BY <1>1, <1>13 DEF ReceiptAfter
<1> QED BY <1>4, <1>5, <1>6, <1>7, <1>8, <1>9, <1>10, <1>11, <1>12, <1>13 DEF Types

LEMMA RecordState ==
    ASSUME QueueIs, StateIs, queue # <<>>, NEW rest, Record(rest), Fresh(rest)
    PROVE  /\ receipt' \in [state : States, turn : BOOLEAN, request : Requests \cup {NoRequest}]
           /\ domain' \subseteq [event : Nat, k : 1..3, row : Rows]
<1>1. Head(rest) \in Piece /\ PartOf(Now, Head(rest)) /\ Now \in Event /\ Head(queue) \in Nat
  BY HeadIs, QueueFacts DEF Fresh
<1>2. receipt' \in [state : States, turn : BOOLEAN, request : Requests \cup {NoRequest}]
  BY <1>1, ReceiptTyped DEF Record
<1>3. Head(rest).k \in 1..3 /\ Head(rest).row \in Rows
  BY <1>1 DEF Piece
<1>4. [event |-> Head(queue), k |-> Head(rest).k, row |-> Head(rest).row]
        \in [event : Nat, k : 1..3, row : Rows]
  BY <1>1, <1>3
<1> QED BY <1>2, <1>4 DEF Record, StateIs

LEMMA RequestedState ==
    ASSUME QueueIs, WorkIs, StateIs, FoundIs, Requested
    PROVE  StateIs'
<1>1. rows' = rows /\ latch' = latch /\ requester' = requester /\ session' = session /\ found' \in Rows
  BY RequestedIs, NoRowIs
<1>2. CASE Abandon \/ Finish
  BY <1>1, <1>2 DEF Abandon, Finish, StateIs
<1>3. ASSUME Record(Left(Full)), Fresh(Left(Full)) PROVE StateIs'
  BY <1>1, <1>3, RecordState, RequestedIs DEF StateIs
<1> QED BY <1>2, <1>3, RequestedIs

LEMMA DomainHookedState ==
    ASSUME QueueIs, WorkIs, StateIs, DomainOnce, DomainHooked
    PROVE  StateIs'
<1>1. rows' = rows /\ latch' = latch /\ requester' = requester /\ session' = session /\ found' = found
  BY DomainHookedIs
<1>2. CASE Finish
  BY <1>1, <1>2 DEF Finish, StateIs
<1>3. ASSUME Record(Left(Tail(work.rest))), Fresh(Left(Tail(work.rest))) PROVE StateIs'
  BY <1>1, <1>3, RecordState, DomainHookedIs DEF StateIs
<1> QED BY <1>2, <1>3, DomainHookedIs

\* The awaits between the receipt and the hooks of a domain event.
LEMMA MidStep ==
    ASSUME QueueIs, WorkIs, ReceiptHooked \/ Projected
    PROVE  /\ work.at \in {"receipt", "projecting"} /\ work # Idle /\ runtime = "up" /\ queue # <<>>
           /\ work.at = "receipt" <=> ReceiptHooked
           /\ work' = [at |-> IF ReceiptHooked THEN "projecting" ELSE "domain", rest |-> work.rest]
           /\ work.rest # <<>> /\ Suffix(Now, work.rest) /\ work' # Idle
           /\ Part \in Piece /\ PartOf(Now, Part) /\ Now \in Event
           /\ UNCHANGED <<logged, processed, session, receipt, domain, queue, found, requester, latch,
                          emitted, turn, asked, compacting, runtime, cut, behind, lapsed, stranded>>
<1>1. work.at \in {"receipt", "projecting"} /\ work # Idle /\ runtime = "up" /\ queue # <<>>
  <2>1. work.at \in {"receipt", "projecting"} /\ work # Idle /\ runtime = "up"
    BY DEF ReceiptHooked, Projected, Idle
  <2> QED BY <2>1 DEF QueueIs
<1>2. work.at = "receipt" <=> ReceiptHooked
  BY DEF ReceiptHooked, Projected
<1>3. work' = [work EXCEPT !.at = IF ReceiptHooked THEN "projecting" ELSE "domain"]
  <2>1. CASE ReceiptHooked
    BY <2>1 DEF ReceiptHooked
  <2>2. CASE ~ReceiptHooked
    BY <2>2 DEF Projected
  <2> QED BY <2>1, <2>2
<1>4. work' = [at |-> IF ReceiptHooked THEN "projecting" ELSE "domain", rest |-> work.rest]
  BY <1>3 DEF WorkIs
<1>5. work.rest # <<>> /\ Suffix(Now, work.rest)
  BY <1>1 DEF WorkIs, Mid
<1>6. work' # Idle
  BY <1>4, <1>5 DEF Idle
<1>7. Part \in Piece /\ PartOf(Now, Part) /\ Now \in Event
  BY <1>1, <1>5, HeadIs, QueueFacts DEF Part
<1>8. UNCHANGED <<logged, processed, session, receipt, domain, queue, found, requester, latch,
                  emitted, turn, asked, compacting, runtime, cut, behind, lapsed, stranded>>
  <2>1. CASE ReceiptHooked
    BY <2>1 DEF ReceiptHooked, outside, history
  <2>2. CASE Projected
    BY <2>2 DEF Projected, outside, history
  <2> QED BY <2>1, <2>2
<1> QED BY <1>1, <1>2, <1>4, <1>5, <1>6, <1>7, <1>8

LEMMA MidFrame ==
    ASSUME Frame, ReceiptHooked \/ Projected
    PROVE  Frame'
<1> USE DEF Frame
<1>1. QueueIs' /\ Now' = Now /\ Done' = Done /\ Head(queue') = Head(queue)
  BY MidStep DEF QueueIs, Now, Done
<1>2. work' \in [at : Stages, rest : Seq(Piece)] /\ work'.at \in Mid /\ work'.rest = work.rest
  BY MidStep DEF WorkIs, Mid, Stages
<1>3. WorkIs' /\ FoundIs'
  BY <1>1, <1>2, MidStep DEF WorkIs, FoundIs, Mid, Early
<1>4. LogIs'
  BY <1>1, MidStep DEF LogIs
<1>5. rows' \in [Requests -> Rows]
  <2>1. CASE ReceiptHooked
    <3>1. \A r \in Requests : rows[r] \in Rows /\ [rows[r] EXCEPT !.status = "resolved"] \in Rows
      BY DEF StateIs, Rows
    <3> QED BY <2>1, <3>1 DEF ReceiptHooked, StateIs
  <2>2. CASE Projected
    <3>1. Part.row \in Rows
      BY MidStep DEF Piece
    <3> QED BY <2>2, <3>1 DEF Projected, Part, StateIs
  <2> QED BY <2>1, <2>2
<1>6. StateIs'
  BY <1>5, MidStep DEF StateIs
<1>7. Through'
  BY <1>1, MidStep DEF Through
<1> QED BY <1>1, <1>3, <1>4, <1>6, <1>7

LEMMA SkipFrame ==
    ASSUME Frame, Skip
    PROVE  Frame' /\ Done' = Done + 1 /\ Done + 1 = Head(queue)
<1> USE DEF Frame
<1>1. /\ queue # <<>> /\ work = Idle /\ runtime = "up" /\ queue' = Tail(queue)
      /\ Head(queue) \in processed
      /\ UNCHANGED <<logged, processed, session, receipt, rows, domain, shown, work, found, requester,
                     latch, emitted, runtime, behind>>
  BY DEF Skip, Skips, durable, outside, history
<1>2. QueueIs' /\ Done' = Done + 1 /\ Done + 1 = Head(queue)
  BY <1>1, PopIs
<1>3. WorkIs' /\ FoundIs'
  BY <1>1, IdleIs DEF WorkIs, FoundIs
<1>4. LogIs' /\ StateIs'
  BY <1>1 DEF LogIs, StateIs
<1>5. Through'
  BY <1>1, <1>2, QueueFacts DEF Through
<1> QED BY <1>2, <1>3, <1>4, <1>5

LEMMA TakeFrame ==
    ASSUME Frame, Take
    PROVE  Frame'
<1> USE DEF Frame
<1>1. /\ queue # <<>> /\ work = Idle /\ runtime = "up"
      /\ logged' = logged \cup {Head(queue)} /\ session' = Ingested(Now)
      /\ work' = [at |-> IF Compacts(Now, Ingested(Now)) THEN "compacting" ELSE "hook", rest |-> <<>>]
      /\ latch' \in BOOLEAN
      /\ UNCHANGED <<queue, found, requester, processed, receipt, rows, domain, emitted, runtime,
                     behind>>
  BY DEF Take, Now
<1>2. Head(queue) \in 1..Len(emitted) /\ Now \in Event /\ Head(queue) \notin processed
  BY <1>1, QueueFacts DEF Take, Skips, LogIs
<1>3. work' # Idle /\ work'.rest = <<>> /\ work'.at \notin Mid /\ work'.at \notin Early
      /\ work' \in [at : Stages, rest : Seq(Piece)]
  BY <1>1 DEF Idle, Mid, Early, Stages
<1>4. QueueIs' /\ Done' = Done
  BY <1>1 DEF QueueIs, Done
<1>5. WorkIs' /\ FoundIs'
  BY <1>3 DEF WorkIs, FoundIs, Early
<1>6. LogIs'
  BY <1>1, <1>2 DEF LogIs
<1>7. session' \in [status : {"ready", "running", "error", "closed"}, turn : BOOLEAN]
  <2>1. session.status \in {"ready", "running", "error", "closed"} /\ session.turn \in BOOLEAN
    BY DEF StateIs
  <2>2. Ingested(Now).turn \in BOOLEAN
    BY <2>1 DEF Ingested
  <2>3. Ingested(Now).status \in {"ready", "running", "error", "closed"}
    BY <1>2, <2>1, EventIs DEF Ingested
  <2>4. Ingested(Now) = [status |-> Ingested(Now).status, turn |-> Ingested(Now).turn]
    BY DEF Ingested
  <2> QED BY <1>1, <2>2, <2>3, <2>4
<1>8. StateIs'
  BY <1>1, <1>7 DEF StateIs
<1>9. Through'
  BY <1>1, <1>4 DEF Through
<1> QED BY <1>4, <1>5, <1>6, <1>8, <1>9

LEMMA AskedFrame ==
    ASSUME Frame, NEW accepted \in BOOLEAN, CompactionAsked(accepted)
    PROVE  Frame' /\ work' # Idle /\ work'.at = "hook" /\ work.at = "compacting" /\ work # Idle
<1> USE DEF Frame
<1>1. /\ work.at = "compacting" /\ runtime = "up" /\ work' = [work EXCEPT !.at = "hook"]
      /\ latch' \in BOOLEAN
      /\ UNCHANGED <<logged, processed, session, receipt, rows, domain, queue, found, requester,
                     emitted, runtime, behind>>
  BY DEF CompactionAsked, durable, history, StateIs
<1>2. work # Idle /\ work'.at = "hook" /\ work'.rest = work.rest /\ work.rest = <<>> /\ work' # Idle
      /\ work' \in [at : Stages, rest : Seq(Piece)]
  BY <1>1 DEF WorkIs, Idle, Mid, Stages
<1>3. QueueIs' /\ Done' = Done
  BY <1>1, <1>2 DEF QueueIs, Done
<1>4. WorkIs' /\ FoundIs'
  BY <1>2 DEF WorkIs, FoundIs, Mid, Early
<1>5. LogIs' /\ StateIs' /\ Through'
  BY <1>1, <1>2, <1>3 DEF LogIs, StateIs, Through
<1> QED BY <1>1, <1>2, <1>3, <1>4, <1>5

LEMMA CrashFrame ==
    ASSUME Frame, Crash
    PROVE  Frame'
<1> USE DEF Frame
<1>1. /\ runtime' = "down" /\ queue' = <<>> /\ work' = Idle /\ requester' = FALSE /\ latch' = FALSE
      /\ found' = NoRow
      /\ UNCHANGED <<logged, processed, session, receipt, rows, domain, emitted, behind>>
  BY DEF Crash, durable
<1>2. QueueIs'
  BY <1>1, QueueFacts DEF QueueIs
<1>3. WorkIs' /\ FoundIs'
  BY <1>1, IdleIs DEF WorkIs, FoundIs
<1>4. LogIs' /\ StateIs' /\ Through'
  BY <1>1, NoRowIs DEF LogIs, StateIs, Through
<1> QED BY <1>2, <1>3, <1>4

\* Recovery delivers again a stretch of the log up to its end, or nothing.
LEMMA Redelivers ==
    ASSUME QueueIs, Reconcile
    PROVE  /\ queue' \in Seq(Nat) /\ Len(queue') <= Len(emitted) /\ emitted' = emitted
           /\ Done' \in Nat /\ Done' <= Len(emitted)
           /\ \A i \in 1..Len(queue') : queue'[i] = Done' + i
           /\ \A id \in 1..Len(emitted) : id \in ToSet(queue') <=> id > Done'
<1>1. emitted' = emitted /\ queue' \in Redelivered /\ Len(emitted) \in Nat
  BY DEF Reconcile, outside, QueueIs
<1>2. CASE queue' = <<>>
  <2>1. queue' \in Seq(Nat) /\ Len(queue') = 0 /\ Done' = Len(emitted)
    BY <1>1, <1>2 DEF Done
  <2>2. ToSet(queue') = {}
    BY <1>2 DEF ToSet
  <2> QED BY <1>1, <2>1, <2>2
<1>3. CASE queue' # <<>>
  <2>1. PICK n \in 0..(Len(emitted) - 1) : queue' = [i \in 1..(Len(emitted) - n) |-> n + i]
    BY <1>1, <1>3 DEF Redelivered
  <2>2. Len(emitted) - n \in Nat
    BY <1>1
  <2>3. queue' \in Seq(Nat) /\ Len(queue') = Len(emitted) - n
    BY <1>1, <2>1, <2>2
  <2>4. Done' = n
    BY <1>1, <2>3 DEF Done
  <2>5. \A i \in 1..Len(queue') : queue'[i] = n + i
    BY <2>1, <2>3
  <2>6. ASSUME NEW id \in 1..Len(emitted) PROVE id \in ToSet(queue') <=> id > n
    <3>1. DOMAIN queue' = 1..(Len(emitted) - n)
      BY <2>1
    <3>2. ASSUME id \in ToSet(queue') PROVE id > n
      <4>1. PICK i \in 1..(Len(emitted) - n) : id = queue'[i]
        BY <3>1, <3>2 DEF ToSet
      <4> QED BY <2>3, <2>5, <4>1
    <3>3. ASSUME id > n PROVE id \in ToSet(queue')
      <4>1. id - n \in 1..(Len(emitted) - n)
        BY <1>1, <3>3
      <4>2. queue'[id - n] = id
        BY <1>1, <2>3, <2>5, <4>1
      <4> QED BY <3>1, <4>1, <4>2 DEF ToSet
    <3> QED BY <3>2, <3>3
  <2> QED BY <1>1, <2>3, <2>4, <2>5, <2>6
<1> QED BY <1>2, <1>3

LEMMA ReconcileFrame ==
    ASSUME Frame, Reconcile
    PROVE  Frame'
<1> USE DEF Frame
<1>1. /\ runtime = "recovering" /\ runtime' = "up" /\ work = Idle
      /\ receipt' = Rebuilt
      /\ behind' = behind \cup (DOMAIN emitted \ (processed \cup ToSet(queue')))
      /\ UNCHANGED <<logged, processed, session, rows, domain, work, found, requester, latch, emitted>>
  BY DEF Reconcile, outside, QueueIs
<1>2. QueueIs'
  BY <1>1, Redelivers DEF QueueIs
<1>3. WorkIs' /\ FoundIs' /\ LogIs'
  BY <1>1, IdleIs DEF WorkIs, FoundIs, LogIs
<1>4. Rebuilt \in [state : States, turn : BOOLEAN, request : Requests \cup {NoRequest}]
  <2>1. CASE Stale = {}
    BY <2>1 DEF Rebuilt, StateIs
  <2>2. CASE Stale # {}
    <3>1. (CHOOSE r \in Stale : TRUE) \in Requests
      BY <2>2 DEF Stale
    <3> QED BY <2>2, <3>1 DEF Rebuilt, Receipt, States
  <2> QED BY <2>1, <2>2
<1>5. StateIs'
  BY <1>1, <1>4 DEF StateIs
<1>6. Through'
  <2>1. DOMAIN emitted = 1..Len(emitted)
    BY DEF QueueIs
  <2>2. ASSUME NEW id \in 1..Done' PROVE id \in processed \cup behind'
    <3>1. id \in 1..Len(emitted) /\ id \notin ToSet(queue')
      BY Redelivers, QueueFacts
    <3> QED BY <1>1, <2>1, <3>1
  <2> QED BY <1>1, <2>2 DEF Through
<1> QED BY <1>2, <1>3, <1>5, <1>6

LEMMA EarlyFrame ==
    ASSUME Frame, Hooked \/ Posted
    PROVE  Frame'
<1> USE DEF Frame
<1>1. /\ UNCHANGED <<logged, processed, session, receipt, domain, queue, requester, emitted, runtime,
                     behind>>
      /\ work'.at \in Early /\ work'.rest = <<>> /\ work' # Idle
      /\ work' \in [at : Stages, rest : Seq(Piece)]
      /\ rows' \in [Requests -> Rows] /\ found' \in Rows /\ latch' \in BOOLEAN
      /\ work # Idle /\ FoundIs'
  <2>1. CASE Hooked
    BY <2>1, HookedIs DEF StateIs
  <2>2. CASE Posted
    BY <2>2, PostedIs DEF StateIs, Early
  <2> QED BY <2>1, <2>2
<1>2. QueueIs' /\ Done' = Done
  BY <1>1 DEF QueueIs, Done
<1>3. WorkIs'
  BY <1>1 DEF WorkIs, Mid, Early
<1>4. LogIs' /\ StateIs' /\ Through'
  BY <1>1, <1>2 DEF LogIs, StateIs, Through
<1> QED BY <1>1, <1>2, <1>3, <1>4

LEMMA FrameStep ==
    ASSUME Frame, DomainOnce, [Next]_vars
    PROVE  Frame'
<1>1. CASE Provider
  BY <1>1, ProviderFrame
<1>2. CASE Skip \/ Take \/ \E accepted \in BOOLEAN : CompactionAsked(accepted)
  BY <1>2, SkipFrame, TakeFrame, AskedFrame
<1>3. CASE ReceiptHooked \/ Projected
  BY <1>3, MidFrame
<1>4. CASE Hooked \/ Posted
  BY <1>4, EarlyFrame
<1>11. CASE Requested
  <2>1. StateIs'
    BY <1>11, RequestedState DEF Frame
  <2> QED BY <1>11, <2>1, RequestedIs, FinishFrame, AbandonFrame, RecordFrame DEF Frame
<1>12. CASE PostFails
  <2>1. StateIs'
    BY <1>12, PostFailsIs, NoRowIs DEF Frame, Abandon, StateIs
  <2> QED BY <1>12, <2>1, PostFailsIs, AbandonFrame DEF Frame
<1>5. CASE DomainHooked
  <2>1. StateIs'
    BY <1>5, DomainHookedState DEF Frame
  <2> QED BY <1>5, <2>1, DomainHookedIs, FinishFrame, RecordFrame DEF Frame
<1>6. CASE Crash
  BY <1>6, CrashFrame
<1>7. CASE Reconcile
  BY <1>7, ReconcileFrame
<1>8. CASE Restart \/ LatchTimeout \/ UNCHANGED vars
  <2>1. /\ UNCHANGED <<emitted, queue, work, logged, processed, session, receipt, rows, found,
                       requester, domain, behind>>
        /\ latch' = latch \/ latch' = FALSE
        /\ runtime' = runtime \/ (runtime' = "recovering" /\ runtime = "down")
    BY <1>8 DEF Restart, LatchTimeout, vars, durable, memory, outside, history
  <2>2. Now' = Now /\ Done' = Done
    BY <2>1 DEF Now, Done
  <2>3. QueueIs'
    BY <2>1, <2>2 DEF Frame, QueueIs
  <2>4. WorkIs' /\ LogIs'
    BY <2>1, <2>2 DEF Frame, WorkIs, LogIs
  <2>5. StateIs' /\ FoundIs'
    BY <2>1, <2>2 DEF Frame, StateIs, FoundIs
  <2>6. Through'
    BY <2>1, <2>2 DEF Frame, Through
  <2> QED BY <2>3, <2>4, <2>5, <2>6 DEF Frame
<1> QED BY <1>1, <1>2, <1>3, <1>4, <1>5, <1>6, <1>7, <1>8, <1>11, <1>12 DEF Next, Pipeline

-----------------------------------------------------------------------------
(* Effects. *)

Records(rest) ==
    /\ Record(rest) /\ Fresh(rest) /\ work.at \in {"found", "domain"} /\ queue # <<>>
    /\ UNCHANGED <<emitted, shown, turn, asked, compacting, runtime, stranded>>

\* A step that records nothing and shows nothing.
Shows == {"receipt", "projecting"}
Silently ==
    /\ shown' = shown /\ domain' = domain /\ Len(emitted') >= Len(emitted)
    /\ processed \subseteq processed' /\ behind \subseteq behind' /\ cut \subseteq cut'
    /\ work'.at \in Mid => /\ work.at \in Mid /\ Head(queue') = Head(queue)
                           /\ work'.rest = work.rest
                           /\ work'.at \in Shows => work.at \in Shows
    /\ work.at \in Shows /\ work'.at \notin Shows => Head(queue) \in cut'

LEMMA StepKinds ==
    ASSUME Frame, DomainOnce, [Next]_vars
    PROVE  \/ \E rest : Records(rest)
           \/ Projected
           \/ Silently
<1> USE DEF Frame, Mid, Shows
<1>1. CASE Provider
  <2>1. PICK ev \in Event : Tell(ev)
    BY <1>1, ProviderIs
  <2>2. Len(emitted') = Len(emitted) + 1 /\ (queue # <<>> => Head(queue') = Head(queue))
    BY <2>1, TellIs
  <2>3. Len(emitted') >= Len(emitted)
    BY <2>2, QueueFacts
  <2>4. work'.at \in Mid => queue # <<>>
    BY <2>1, IdleIs DEF Tell, QueueIs
  <2> QED BY <2>1, <2>2, <2>3, <2>4 DEF Tell, Silently
<1>2. CASE Skip \/ Take \/ \E accepted \in BOOLEAN : CompactionAsked(accepted)
  <2>1. /\ UNCHANGED <<shown, domain, emitted, processed, behind, cut>>
        /\ work'.at \in {"idle", "compacting", "hook"} /\ work.at \notin Mid
    <3>1. CASE Skip
      BY <3>1 DEF Skip, durable, outside, history, Idle
    <3>2. CASE Take
      BY <3>2 DEF Take, Idle
    <3>3. ASSUME NEW accepted \in BOOLEAN, CompactionAsked(accepted)
          PROVE  /\ UNCHANGED <<shown, domain, emitted, processed, behind, cut>>
                 /\ work'.at \in {"idle", "compacting", "hook"} /\ work.at \notin Mid
      BY <3>3, AskedFrame DEF CompactionAsked, durable, history
    <3> QED BY <1>2, <3>1, <3>2, <3>3
  <2> QED BY <2>1, QueueFacts DEF Silently
<1>3. CASE ReceiptHooked
  <2>1. /\ UNCHANGED <<domain, emitted, processed, behind, cut, queue>> /\ shown' = shown
        /\ work.at = "receipt" /\ work'.at = "projecting" /\ work'.rest = work.rest
    BY <1>3, MidStep DEF ReceiptHooked
  <2> QED BY <2>1, QueueFacts DEF Silently
<1>8. CASE Hooked \/ Posted
  <2>1. /\ UNCHANGED <<shown, domain, emitted, processed, behind, cut>>
        /\ work'.at \in Early /\ work.at \in {"hook", "posting"}
    BY <1>8, HookedIs, PostedIs DEF Early
  <2> QED BY <2>1, QueueFacts DEF Silently, Early
<1>9. CASE PostFails
  <2>1. /\ UNCHANGED <<emitted, shown>> /\ work.at = "posting" /\ Abandon
    BY <1>9, PostFailsIs
  <2> QED BY <2>1, IdleIs, QueueFacts DEF Silently, Abandon
<1>4. CASE Requested \/ DomainHooked
  <2>1. /\ UNCHANGED <<emitted, shown, turn, asked, compacting, runtime, stranded>>
        /\ work.at \in {"found", "domain"} /\ queue # <<>>
        /\ Abandon \/ Finish \/ \E rest : Record(rest) /\ Fresh(rest)
    BY <1>4, RequestedIs, DomainHookedIs
  <2>2. CASE Abandon \/ Finish
    <3>1. work'.at \notin Mid
      BY <2>2, IdleIs DEF Abandon, Finish
    <3>2. domain' = domain /\ processed \subseteq processed' /\ behind \subseteq behind'
          /\ cut \subseteq cut'
      BY <2>2 DEF Abandon, Finish, Processed
    <3> QED BY <2>1, <3>1, <3>2, QueueFacts DEF Silently
  <2>3. ASSUME NEW rest, Record(rest), Fresh(rest) PROVE \E s : Records(s)
    BY <2>1, <2>3 DEF Records
  <2> QED BY <2>1, <2>2, <2>3
<1>5. CASE Crash
  <2>1. /\ UNCHANGED <<domain, emitted, processed, behind, shown>> /\ work' = Idle
        /\ cut' = IF work = Idle THEN cut ELSE cut \cup {Head(queue)}
    BY <1>5 DEF Crash, durable
  <2> QED BY <2>1, IdleIs, QueueFacts DEF Silently
<1>6. CASE Reconcile
  <2>1. /\ UNCHANGED <<domain, emitted, processed, cut, work, shown>> /\ behind \subseteq behind'
        /\ work = Idle
    BY <1>6 DEF Reconcile, outside, QueueIs
  <2> QED BY <2>1, IdleIs, QueueFacts DEF Silently
<1>7. CASE Restart \/ LatchTimeout \/ UNCHANGED vars
  <2>1. UNCHANGED <<domain, emitted, processed, behind, cut, work, shown, queue>>
    BY <1>7 DEF Restart, LatchTimeout, vars, durable, memory, outside, history
  <2> QED BY <2>1, QueueFacts DEF Silently
<1> QED BY <1>1, <1>2, <1>3, <1>4, <1>5, <1>6, <1>7, <1>8, <1>9 DEF Next, Pipeline

LEMMA RecordIs ==
    ASSUME Frame, NEW rest, Records(rest)
    PROVE  /\ work'.at = "receipt" /\ work'.rest = rest /\ Part' = Head(rest)
           /\ Head(queue') = Head(queue) /\ Head(queue) \in 1..Len(emitted)
           /\ UNCHANGED <<queue, processed, cut, behind, emitted, shown>>
           /\ Part'.k \in 1..3 /\ Part'.row \in Rows
           /\ domain' = domain \cup {[event |-> Head(queue), k |-> Part'.k, row |-> Part'.row]}
           /\ ~Recorded(Head(queue), Part'.k)
           /\ Part'.k = 1 \/ Recorded(Head(queue), Part'.k - 1)
           /\ Part'.k > 1 => Part'.row = NoRow
           /\ PartOf(Now, Part') /\ Part' \in Piece /\ Now' = Now
           /\ receipt' = ReceiptAfter(Part')
<1>1. /\ work'.at = "receipt" /\ work'.rest = rest /\ queue' = queue
      /\ UNCHANGED <<queue, processed, cut, behind, emitted, shown>>
      /\ receipt' = ReceiptAfter(Head(rest))
      /\ domain' = domain \cup {[event |-> Head(queue), k |-> Head(rest).k, row |-> Head(rest).row]}
  BY DEF Records, Record
<1>2. Part' = Head(rest) /\ Now' = Now
  BY <1>1 DEF Part, Now
<1>3. /\ Head(rest) \in Piece /\ PartOf(Now, Head(rest))
      /\ Head(rest).k > 1 => Head(rest).row = NoRow
  BY HeadIs DEF Records, Fresh
<1>4. Head(rest).k \in 1..3 /\ Head(rest).row \in Rows
  BY <1>3 DEF Piece
<1>5. /\ ~Recorded(Head(queue), Head(rest).k)
      /\ Head(rest).k = 1 \/ Recorded(Head(queue), Head(rest).k - 1)
  BY NewIs DEF Records, Fresh
<1>6. Head(queue) \in 1..Len(emitted)
  BY QueueFacts DEF Frame, Records
<1> QED BY <1>1, <1>2, <1>3, <1>4, <1>5, <1>6

LEMMA DomainOnceStep ==
    ASSUME Frame, DomainOnce, [Next]_vars
    PROVE  DomainOnce'
<1>1. ASSUME NEW rest, Records(rest) PROVE DomainOnce'
  <2>1. PICK h, k, row : h = Head(queue) /\ k = Part'.k /\ row = Part'.row
    OBVIOUS
  <2> DEFINE new == [event |-> h, k |-> k, row |-> row]
  <2>2. /\ domain' = domain \cup {new} /\ k \in 1..3 /\ ~Recorded(h, k)
        /\ k = 1 \/ Recorded(h, k - 1)
        /\ k > 1 => row = NoRow
        /\ Head(queue') = h
    BY <1>1, <2>1, RecordIs
  <2>3. new.event = h /\ new.k = k /\ new.row = row
    OBVIOUS
  <2> HIDE DEF new
  <2>4. \A x \in domain : x \in domain'
    BY <2>2
  <2>5. \A x, y \in domain' : x.event = y.event /\ x.k = y.k => x = y
    BY <2>2, <2>3 DEF DomainOnce, Recorded
  <2>6. \A x \in domain' : x.k > 1 =>
          (\E y \in domain : y.event = x.event /\ y.k = x.k - 1) /\ x.row = NoRow
    BY <2>2, <2>3 DEF DomainOnce, Recorded
  <2>7. \A x \in domain' : x.k > 1 => Recorded(x.event, x.k - 1)' /\ x.row = NoRow
    BY <2>4, <2>6 DEF Recorded
  <2>8. \E x \in domain' : x.event = h /\ x.k = k
    BY <2>2, <2>3
  <2>9. \E x \in domain' : x.event = Head(queue') /\ x.k = Part'.k
    BY <2>1, <2>2, <2>8
  <2> QED BY <2>5, <2>7, <2>9 DEF DomainOnce, Recorded
<1>2. CASE Projected
  <2>1. domain' = domain /\ work.at \in Mid /\ work'.rest = work.rest /\ queue' = queue
    BY <1>2, MidStep DEF Frame, Mid
  <2> QED BY <2>1 DEF DomainOnce, Recorded, Part
<1>3. CASE Silently
  BY <1>3 DEF Silently, DomainOnce, Recorded, Part
<1> QED BY <1>1, <1>2, <1>3, StepKinds

\* Of the domain events of one event, those in the log are a beginning of them.
LEMMA PrefixIs ==
    ASSUME Frame, DomainOnce, NEW id, NEW k \in 1..3, NEW m \in 1..3, Recorded(id, m), ~Recorded(id, k)
    PROVE  m < k
<1>1. Recorded(id, 3) => Recorded(id, 2)
  <2> SUFFICES ASSUME NEW x \in domain, x.event = id, x.k = 3 PROVE Recorded(id, 2)
    BY DEF Recorded
  <2>1. Recorded(x.event, x.k - 1)
    BY DEF DomainOnce
  <2> QED BY <2>1
<1>2. Recorded(id, 2) => Recorded(id, 1)
  <2> SUFFICES ASSUME NEW x \in domain, x.event = id, x.k = 2 PROVE Recorded(id, 1)
    BY DEF Recorded
  <2>1. Recorded(x.event, x.k - 1)
    BY DEF DomainOnce
  <2> QED BY <2>1
<1> QED BY <1>1, <1>2

LEMMA ShownOnceStep ==
    ASSUME Frame, DomainOnce, ShownOnce, [Next]_vars
    PROVE  ShownOnce'
<1>1. shown \in Seq(Nat \X (1..3)) /\ Len(shown) \in Nat
  BY DEF ShownOnce
<1>2. \A i \in 1..Len(shown) : shown[i] \in Nat \X (1..3)
  BY <1>1
<1>3. ASSUME NEW rest, Records(rest) PROVE ShownOnce'
  <2>1. PICK h, k : h = Head(queue) /\ k = Part'.k
    OBVIOUS
  <2>2. /\ k \in 1..3 /\ ~Recorded(h, k) /\ Head(queue') = h
        /\ UNCHANGED <<processed, behind, emitted, shown>>
        /\ \A x \in domain : x \in domain'
    BY <1>3, <2>1, RecordIs
  <2>3. ASSUME NEW i \in 1..Len(shown), shown[i][1] = h PROVE shown[i][2] < k
    <3>1. Recorded(h, shown[i][2])
      BY <2>3 DEF ShownOnce
    <3> QED BY <1>2, <2>2, <3>1, PrefixIs
  <2>4. \A i \in 1..Len(shown) : shown[i][1] = Head(queue') => shown[i][2] < Part'.k
    BY <2>1, <2>2, <2>3
  <2>5. \A i \in 1..Len(shown) : \E x \in domain' : x.event = shown[i][1] /\ x.k = shown[i][2]
    BY <2>2 DEF ShownOnce, Recorded
  <2> QED BY <2>2, <2>4, <2>5 DEF ShownOnce, Recorded
<1>4. CASE Silently
  <2>1. /\ shown' = shown /\ domain' = domain /\ Len(emitted') >= Len(emitted)
        /\ processed \subseteq processed' /\ behind \subseteq behind'
        /\ Len(emitted) \in Nat /\ Len(emitted') \in Nat
    BY <1>4, FrameStep, QueueFacts DEF Silently, Frame
  <2>2. ASSUME NEW i \in 1..Len(shown')
        PROVE  /\ \E x \in domain' : x.event = shown'[i][1] /\ x.k = shown'[i][2]
               /\ shown'[i][1] <= Len(emitted')
               /\ \A e \in 1..Len(emitted') : e < shown'[i][1] => e \in processed' \cup behind'
    <3>1. /\ Recorded(shown[i][1], shown[i][2]) /\ shown[i][1] <= Len(emitted)
          /\ \A e \in 1..Len(emitted) : e < shown[i][1] => e \in processed \cup behind
      BY <2>1 DEF ShownOnce
    <3>2. shown[i][1] \in Nat
      BY <1>2, <2>1
    <3>3. \A e \in 1..Len(emitted') : e < shown[i][1] => e \in 1..Len(emitted)
      BY <2>1, <3>1, <3>2
    <3>4. \E x \in domain' : x.event = shown'[i][1] /\ x.k = shown'[i][2]
      BY <2>1, <3>1 DEF Recorded
    <3>5. shown[i][1] <= Len(emitted')
      BY <2>1, <3>1, <3>2
    <3>6. \A e \in 1..Len(emitted') : e < shown[i][1] => e \in processed' \cup behind'
      BY <2>1, <3>1, <3>3
    <3> QED BY <2>1, <3>4, <3>5, <3>6
  <2>3. work'.at \in {"receipt", "projecting"} =>
          \A i \in 1..Len(shown') : shown'[i][1] = Head(queue') => shown'[i][2] < Part'.k
    BY <1>4 DEF Silently, ShownOnce, Part, Shows, Mid
  <2>4. \A i, j \in 1..Len(shown') : i < j =>
          \/ shown'[i][1] < shown'[j][1]
          \/ (shown'[i][1] = shown'[j][1] /\ shown'[i][2] < shown'[j][2])
          \/ shown'[i][1] > shown'[j][1] /\ shown'[j][1] \in behind'
    BY <2>1 DEF ShownOnce
  <2> QED BY <1>1, <2>1, <2>2, <2>3, <2>4 DEF ShownOnce, Recorded
<1>5. CASE Projected
  <2>1. PICK h, k : h = Head(queue) /\ k = Part.k
    OBVIOUS
  <2>2. /\ work.at = "projecting" /\ work'.at = "domain" /\ runtime = "up" /\ queue # <<>>
        /\ UNCHANGED <<domain, queue, emitted, processed, behind>> /\ k \in 1..3
    <3>1. ~ReceiptHooked
      BY <1>5 DEF Projected, ReceiptHooked
    <3> QED BY <1>5, <2>1, <3>1, MidStep DEF Frame, Piece
  <2>3. h = Done + 1 /\ h \in 1..Len(emitted) /\ Done \in Nat /\ h \notin processed
    BY <2>1, <2>2, QueueFacts DEF Frame, LogIs, Idle
  <2>4. shown' = shown \/ shown' = Append(shown, <<h, k>>)
    BY <1>1, <1>5, <2>1 DEF Projected, Activities, Part
  <2>5. CASE shown' = shown
    BY <1>1, <2>2, <2>5 DEF ShownOnce, Recorded
  <2>6. CASE shown' = Append(shown, <<h, k>>)
    <3>1. /\ Len(shown') = Len(shown) + 1 /\ shown'[Len(shown) + 1] = <<h, k>>
          /\ \A i \in 1..Len(shown) : shown'[i] = shown[i]
          /\ shown' \in Seq(Nat \X (1..3))
      <4>1. <<h, k>> \in Nat \X (1..3)
        BY <2>2, <2>3
      <4> QED BY <1>1, <2>6, <4>1
    <3>2. \E x \in domain : x.event = h /\ x.k = k
      BY <2>1, <2>2 DEF DomainOnce, Recorded, Mid
    <3>3. \A e \in 1..Len(emitted) : e < h => e \in processed \cup behind
      BY <2>2, <2>3 DEF Frame, Through
    <3>4. \A i \in 1..Len(shown') : i # Len(shown) + 1 => i \in 1..Len(shown)
      BY <1>1, <3>1
    <3>5. ASSUME NEW i \in 1..Len(shown')
          PROVE  /\ \E x \in domain : x.event = shown'[i][1] /\ x.k = shown'[i][2]
                 /\ shown'[i][1] <= Len(emitted)
                 /\ \A e \in 1..Len(emitted) : e < shown'[i][1] => e \in processed \cup behind
      <4>1. CASE i = Len(shown) + 1
        <5>1. shown'[i][1] = h /\ shown'[i][2] = k
          BY <3>1, <4>1
        <5> QED BY <2>3, <3>2, <3>3, <5>1
      <4>2. CASE i # Len(shown) + 1
        <5>1. i \in 1..Len(shown) /\ shown'[i] = shown[i]
          BY <3>1, <3>4, <4>2
        <5> QED BY <5>1 DEF ShownOnce, Recorded
      <4> QED BY <4>1, <4>2
    <3>6. ASSUME NEW i \in 1..Len(shown)
          PROVE  \/ shown[i][1] < h \/ (shown[i][1] = h /\ shown[i][2] < k)
                 \/ shown[i][1] > h /\ h \in behind
      <4>1. shown[i][1] \in Nat
        BY <1>2
      <4>2. shown[i][1] = h => shown[i][2] < k
        BY <2>1, <2>2 DEF ShownOnce
      <4>3. h < shown[i][1] => h \in behind
        BY <2>3 DEF ShownOnce
      <4> QED BY <2>3, <4>1, <4>2, <4>3
    <3>7. ASSUME NEW i \in 1..Len(shown'), NEW j \in 1..Len(shown'), i < j
          PROVE  \/ shown'[i][1] < shown'[j][1]
                 \/ (shown'[i][1] = shown'[j][1] /\ shown'[i][2] < shown'[j][2])
                 \/ shown'[i][1] > shown'[j][1] /\ shown'[j][1] \in behind
      <4>1. i \in 1..Len(shown) /\ shown'[i] = shown[i]
        BY <1>1, <3>1, <3>7
      <4>2. CASE j = Len(shown) + 1
        <5>1. shown'[j][1] = h /\ shown'[j][2] = k
          BY <3>1, <4>2
        <5> QED BY <3>6, <4>1, <5>1
      <4>3. CASE j # Len(shown) + 1
        <5>1. j \in 1..Len(shown) /\ shown'[j] = shown[j]
          BY <3>1, <3>4, <4>3
        <5> QED BY <3>7, <4>1, <5>1 DEF ShownOnce
      <4> QED BY <4>2, <4>3
    <3> QED BY <2>2, <3>1, <3>5, <3>7 DEF ShownOnce, Recorded
  <2> QED BY <2>4, <2>5, <2>6
<1> QED BY <1>3, <1>4, <1>5, StepKinds

LEMMA FirstShownStep ==
    ASSUME Frame, DomainOnce, ShownOnce, FirstShown, [Next]_vars
    PROVE  FirstShown'
<1>1. shown \in Seq(Nat \X (1..3)) /\ Len(shown) \in Nat
  BY DEF ShownOnce
<1>2. ASSUME NEW rest, Records(rest) PROVE FirstShown'
  <2> SUFFICES ASSUME NEW x \in domain', x.k = 1, x.event \notin cut'
               PROVE  \/ \E i \in 1..Len(shown') : shown'[i] = <<x.event, 1>>
                      \/ work'.at \in Shows /\ x.event = Head(queue') /\ Part'.k = 1
    BY DEF FirstShown, Shows
  <2>1. work.at \notin Shows
    BY <1>2 DEF Records, Shows
  <2>2. /\ work'.at = "receipt" /\ queue' = queue /\ cut' = cut /\ shown' = shown
        /\ domain' = domain \cup {[event |-> Head(queue), k |-> Part'.k, row |-> Part'.row]}
    BY <1>2, RecordIs
  <2>3. CASE x \in domain
    BY <2>1, <2>2, <2>3 DEF FirstShown, Shows
  <2>4. CASE x = [event |-> Head(queue), k |-> Part'.k, row |-> Part'.row]
    BY <2>2, <2>4 DEF Shows
  <2> QED BY <2>2, <2>3, <2>4
<1>3. CASE Silently
  <2> SUFFICES ASSUME NEW x \in domain', x.k = 1, x.event \notin cut'
               PROVE  \/ \E i \in 1..Len(shown') : shown'[i] = <<x.event, 1>>
                      \/ work'.at \in Shows /\ x.event = Head(queue') /\ Part'.k = 1
    BY DEF FirstShown, Shows
  <2>1. x \in domain /\ x.event \notin cut /\ shown' = shown
    BY <1>3 DEF Silently
  <2>2. CASE \E i \in 1..Len(shown) : shown[i] = <<x.event, 1>>
    BY <2>1, <2>2
  <2>3. CASE work.at \in Shows /\ x.event = Head(queue) /\ Part.k = 1
    <3>1. work'.at \in Shows
      BY <1>3, <2>3 DEF Silently
    <3>2. Head(queue') = Head(queue) /\ Part' = Part
      BY <1>3, <3>1 DEF Silently, Part, Shows, Mid
    <3> QED BY <2>3, <3>1, <3>2
  <2> QED BY <2>1, <2>2, <2>3 DEF FirstShown, Shows
<1>4. CASE Projected
  <2> SUFFICES ASSUME NEW x \in domain, x.k = 1, x.event \notin cut
               PROVE  \E i \in 1..Len(shown') : shown'[i] = <<x.event, 1>>
    BY <1>4, MidStep DEF Frame, FirstShown
  <2>1. shown' = shown \o Activities(Part)
    BY <1>4 DEF Projected, Part
  <2>2. Activities(Part) = <<>> \/ Activities(Part) = <<<<Head(queue), Part.k>>>>
    BY DEF Activities
  <2>3. Head(queue) \in Nat /\ Part.k \in 1..3 /\ PartOf(Now, Part)
    BY <1>4, MidStep, QueueFacts DEF Frame, Piece
  <2>4. CASE \E i \in 1..Len(shown) : shown[i] = <<x.event, 1>>
    <3>1. PICK i \in 1..Len(shown) : shown[i] = <<x.event, 1>>
      BY <2>4
    <3>2. Len(shown') \in Nat /\ Len(shown') >= Len(shown) /\ shown'[i] = shown[i]
      BY <1>1, <2>1, <2>2, <2>3
    <3> QED BY <1>1, <3>1, <3>2
  <2>5. CASE x.event = Head(queue) /\ Part.k = 1
    <3>1. Part.type \notin Silent
      BY <2>3, <2>5 DEF PartOf, Silent
    <3>2. Activities(Part) = <<<<Head(queue), 1>>>>
      BY <2>5, <3>1 DEF Activities
    <3>3. Len(shown') = Len(shown) + 1 /\ shown'[Len(shown) + 1] = <<Head(queue), 1>>
      BY <1>1, <2>1, <2>3, <3>2
    <3> QED BY <1>1, <2>5, <3>3
  <2> QED BY <2>4, <2>5 DEF FirstShown
<1> QED BY <1>2, <1>3, <1>4, StepKinds

LEMMA LatchedStep ==
    ASSUME Frame, DomainOnce, Latched, [Next]_vars
    PROVE  Latched'
<1> USE DEF Latched, OneCompaction
<1>1. latch \in BOOLEAN /\ compacting \in Nat /\ lapsed \in Nat
  BY DEF Frame, StateIs
<1>2. CASE Provider
  <2>1. lapsed' = lapsed /\ latch' = latch
    BY <1>2, ProviderIs DEF Frame, Tell
  <2>2. compacting' = compacting \/ (compacting > 0 /\ compacting' = compacting - 1)
    BY <1>2 DEF Provider, TurnBegins, TurnEnds, Tells, Compacted, Asks, IsAnswered
  <2>3. compacting' \in Nat /\ compacting' <= compacting
    BY <1>1, <2>2
  <2> QED BY <1>1, <2>1, <2>3
<1>3. CASE Take
  <2>1. /\ latch' = (Compacts(Now, Ingested(Now)) \/ (latch /\ Now.type # "compacted"))
        /\ compacting' = IF Compacts(Now, Ingested(Now)) THEN compacting + 1 ELSE compacting
        /\ lapsed' = IF Now.type = "compacted" THEN Lapses ELSE lapsed
    BY <1>3 DEF Take, Now
  <2>2. CASE Compacts(Now, Ingested(Now))
    <3>1. ~latch /\ Now.type = "usage"
      BY <2>2 DEF Compacts
    <3>2. latch' /\ compacting' = compacting + 1 /\ lapsed' = lapsed
      BY <2>1, <2>2, <3>1
    <3> QED BY <1>1, <3>1, <3>2
  <2>3. CASE ~Compacts(Now, Ingested(Now)) /\ Now.type = "compacted"
    <3>1. ~latch' /\ compacting' = compacting /\ lapsed' = Lapses
      BY <2>1, <2>3
    <3> QED BY <1>1, <3>1 DEF Lapses
  <2>4. CASE ~Compacts(Now, Ingested(Now)) /\ Now.type # "compacted"
    <3>1. latch' = latch /\ compacting' = compacting /\ lapsed' = lapsed
      BY <1>1, <2>1, <2>4
    <3> QED BY <3>1
  <2> QED BY <2>2, <2>3, <2>4
<1>4. ASSUME NEW accepted \in BOOLEAN, CompactionAsked(accepted) PROVE Latched'
  <2>1. /\ latch' = (latch /\ accepted) /\ lapsed' = lapsed
        /\ compacting' = IF accepted \/ compacting = 0 THEN compacting ELSE compacting - 1
    BY <1>4 DEF CompactionAsked, history
  <2>2. CASE accepted
    BY <1>1, <2>1, <2>2
  <2>3. CASE ~accepted
    BY <1>1, <2>1, <2>3
  <2> QED BY <2>2, <2>3
<1>5. CASE Hooked
  <2>1. /\ compacting' = compacting
        /\ latch' = (latch /\ Now.type \notin {"runtime.error", "closed"})
        /\ lapsed' = IF Now.type \in {"runtime.error", "closed"} THEN Lapses ELSE lapsed
    BY <1>5, HookedIs DEF Frame
  <2>2. CASE Now.type \in {"runtime.error", "closed"}
    BY <1>1, <2>1, <2>2 DEF Lapses
  <2>3. CASE Now.type \notin {"runtime.error", "closed"}
    <3>1. latch' = latch
      BY <1>1, <2>1, <2>3
    <3> QED BY <2>1, <2>3, <3>1
  <2> QED BY <2>2, <2>3
<1>6. CASE LatchTimeout
  <2>1. compacting' = compacting /\ ~latch' /\ latch /\ lapsed' = Lapses
    BY <1>6 DEF LatchTimeout, outside
  <2> QED BY <1>1, <2>1 DEF Lapses
<1>7. CASE Crash
  <2>1. compacting' = 0 /\ ~latch' /\ lapsed' = lapsed
    BY <1>7 DEF Crash
  <2> QED BY <1>1, <2>1
<1>8. CASE \/ Skip \/ Posted \/ PostFails \/ Requested \/ ReceiptHooked \/ Projected \/ DomainHooked
           \/ Restart \/ Reconcile \/ UNCHANGED vars
  <2>1. compacting' = compacting /\ latch' = latch /\ lapsed' = lapsed
    <3>1. CASE Posted \/ PostFails \/ Requested \/ DomainHooked
      BY <3>1, PostedIs, PostFailsIs, RequestedIs, DomainHookedIs DEF Frame
    <3>2. CASE ReceiptHooked \/ Projected
      BY <3>2, MidStep DEF Frame
    <3> QED BY <1>8, <3>1, <3>2 DEF Skip, Restart, Reconcile, vars, durable, memory, outside, history
  <2> QED BY <2>1
<1> QED BY <1>2, <1>3, <1>4, <1>5, <1>6, <1>7, <1>8 DEF Next, Pipeline

EffectsInv == Frame /\ Effects

LEMMA InitEffects == Init => EffectsInv
<1> SUFFICES ASSUME Init PROVE EffectsInv
  OBVIOUS
<1>1. QueueIs /\ Through
  BY DEF Init, QueueIs, Through, Done
<1>2. WorkIs /\ LogIs /\ FoundIs
  BY IdleIs DEF Init, WorkIs, LogIs, FoundIs
<1>3. StateIs
  BY NoRowIs DEF Init, StateIs, States
<1>4. DomainOnce /\ ShownOnce /\ FirstShown
  BY IdleIs DEF Init, DomainOnce, ShownOnce, FirstShown, Mid
<1>5. Latched
  BY DEF Init, Latched, OneCompaction
<1> QED BY <1>1, <1>2, <1>3, <1>4, <1>5 DEF EffectsInv, Frame, Effects

LEMMA EffectsStep == EffectsInv /\ [Next]_vars => EffectsInv'
BY FrameStep, DomainOnceStep, ShownOnceStep, FirstShownStep, LatchedStep DEF EffectsInv, Effects

\* A domain event of a provider's event is logged once and shown at most once, in
\* the order of the events but for one that was left behind; the first is shown
\* if its event was handled uncut; and the provider is at work on no compaction
\* but under its latch, or after a latch lapsed: whatever crashes and redeliveries
\* come between (the handler of ProviderEventPipeline, appendDomainEvent).
THEOREM EffectsRight == Spec => []EffectsOnce
<1>1. Spec => []EffectsInv
  BY InitEffects, EffectsStep, PTL DEF Spec
<1>2. EffectsInv => EffectsOnce
  <2> SUFFICES ASSUME EffectsInv PROVE EffectsOnce
    OBVIOUS
  <2> USE DEF EffectsInv, Effects
  <2>1. DOMAIN shown = 1..Len(shown)
    BY DEF ShownOnce
  <2>2. ASSUME NEW id \in processed \ cut, NEW x \in domain, x.event = id, x.k = 1
        PROVE  <<id, 1>> \in ToSet(shown)
    <3>1. ~(work.at \in {"receipt", "projecting"} /\ x.event = Head(queue))
      BY <2>2 DEF Frame, LogIs, Idle
    <3>2. PICK i \in 1..Len(shown) : shown[i] = <<x.event, 1>>
      BY <2>2, <3>1 DEF FirstShown
    <3> QED BY <2>1, <2>2, <3>2 DEF ToSet
  <2>3. EachOnce
    BY <2>1, <2>2 DEF EachOnce, ShownOnce, DomainOnce
  <2> QED BY <2>3 DEF EffectsOnce, Latched
<1> QED BY <1>1, <1>2, PTL

-----------------------------------------------------------------------------
(* What the provider has told. *)

LEMMA TurnNext ==
    ASSUME NEW log, NEW n \in Nat
    PROVE  TurnAfter(log, n + 1) <=>
             \/ log[n + 1].type = "turn.started"
             \/ TurnAfter(log, n) /\ log[n + 1].type \notin Ending
<1>1. ASSUME TurnAfter(log, n + 1)
      PROVE  \/ log[n + 1].type = "turn.started"
             \/ TurnAfter(log, n) /\ log[n + 1].type \notin Ending
  <2>1. PICK i \in 1..(n + 1) : /\ log[i].type = "turn.started"
                                /\ \A j \in (i + 1)..(n + 1) : log[j].type \notin Ending
    BY <1>1 DEF TurnAfter
  <2>2. CASE i # n + 1
    <3>1. i \in 1..n /\ n + 1 \in (i + 1)..(n + 1) /\ \A j \in (i + 1)..n : j \in (i + 1)..(n + 1)
      BY <2>2
    <3>2. TurnAfter(log, n) /\ log[n + 1].type \notin Ending
      BY <2>1, <3>1 DEF TurnAfter
    <3> QED BY <3>2
  <2> QED BY <2>1, <2>2
<1>2. ASSUME log[n + 1].type = "turn.started" PROVE TurnAfter(log, n + 1)
  <2>1. n + 1 \in 1..(n + 1) /\ \A j \in (n + 1 + 1)..(n + 1) : FALSE
    OBVIOUS
  <2> QED BY <1>2, <2>1 DEF TurnAfter
<1>3. ASSUME TurnAfter(log, n), log[n + 1].type \notin Ending PROVE TurnAfter(log, n + 1)
  <2>1. PICK i \in 1..n : /\ log[i].type = "turn.started"
                          /\ \A j \in (i + 1)..n : log[j].type \notin Ending
    BY <1>3 DEF TurnAfter
  <2>2. \A j \in (i + 1)..(n + 1) : j = n + 1 \/ j \in (i + 1)..n
    OBVIOUS
  <2>3. i \in 1..(n + 1)
    OBVIOUS
  <2> QED BY <1>3, <2>1, <2>2, <2>3 DEF TurnAfter
<1> QED BY ONLY <1>1, <1>2, <1>3

LEMMA AskedNext ==
    ASSUME NEW log, NEW n \in Nat, NEW r \in Requests
    PROVE  r \in AskedAfter(log, n + 1) <=>
             \/ Opens(log[n + 1], r)
             \/ /\ r \in AskedAfter(log, n) /\ ~Resolves(log[n + 1], r)
                /\ log[n + 1].type \notin Ending \cup {"turn.started"}
<1> DEFINE Kills(j) == ~(log[j].type \notin Ending \cup {"turn.started"} /\ ~Resolves(log[j], r))
<1>1. \A m \in Nat : r \in AskedAfter(log, m) <=>
        \E i \in 1..m : Opens(log[i], r) /\ \A j \in (i + 1)..m : ~Kills(j)
  BY DEF AskedAfter
<1>2. Kills(n + 1) <=> Resolves(log[n + 1], r) \/ log[n + 1].type \in Ending \cup {"turn.started"}
  OBVIOUS
<1> HIDE DEF Kills
<1>3. ASSUME r \in AskedAfter(log, n + 1), ~Opens(log[n + 1], r) PROVE r \in AskedAfter(log, n) /\ ~Kills(n + 1)
  <2>1. PICK i \in 1..(n + 1) : Opens(log[i], r) /\ \A j \in (i + 1)..(n + 1) : ~Kills(j)
    BY <1>1, <1>3
  <2>2. i \in 1..n /\ n + 1 \in (i + 1)..(n + 1) /\ \A j \in (i + 1)..n : j \in (i + 1)..(n + 1)
    BY <1>3, <2>1
  <2> QED BY <1>1, <2>1, <2>2
<1>4. ASSUME Opens(log[n + 1], r) PROVE r \in AskedAfter(log, n + 1)
  <2>1. n + 1 \in 1..(n + 1) /\ \A j \in (n + 1 + 1)..(n + 1) : FALSE
    OBVIOUS
  <2> QED BY <1>1, <1>4, <2>1
<1>5. ASSUME r \in AskedAfter(log, n), ~Kills(n + 1) PROVE r \in AskedAfter(log, n + 1)
  <2>1. PICK i \in 1..n : Opens(log[i], r) /\ \A j \in (i + 1)..n : ~Kills(j)
    BY <1>1, <1>5
  <2>2. \A j \in (i + 1)..(n + 1) : j = n + 1 \/ j \in (i + 1)..n
    OBVIOUS
  <2>3. i \in 1..(n + 1) /\ n + 1 \in Nat
    OBVIOUS
  <2>4. \A j \in (i + 1)..(n + 1) : ~Kills(j)
    BY <1>5, <2>1, <2>2
  <2>5. \E m \in 1..(n + 1) : Opens(log[m], r) /\ \A j \in (m + 1)..(n + 1) : ~Kills(j)
    BY <2>1, <2>3, <2>4
  <2> QED BY <1>1, <2>3, <2>5
<1> QED BY <1>2, <1>3, <1>4, <1>5

\* What was told stays told when an event is added.
LEMMA UnansweredNext ==
    ASSUME NEW log, NEW n \in Nat, NEW r \in Requests
    PROVE  r \in UnansweredAfter(log, n + 1) <=>
             \/ Opens(log[n + 1], r)
             \/ r \in UnansweredAfter(log, n) /\ ~Closes(log[n + 1], r)
<1> DEFINE Kills(j) == Closes(log[j], r)
<1>1. \A m \in Nat : r \in UnansweredAfter(log, m) <=>
        \E i \in 1..m : Opens(log[i], r) /\ \A j \in (i + 1)..m : ~Kills(j)
  BY DEF UnansweredAfter
<1>2. Kills(n + 1) <=> Closes(log[n + 1], r)
  OBVIOUS
<1> HIDE DEF Kills
<1>3. ASSUME r \in UnansweredAfter(log, n + 1), ~Opens(log[n + 1], r)
      PROVE  r \in UnansweredAfter(log, n) /\ ~Kills(n + 1)
  <2>1. PICK i \in 1..(n + 1) : Opens(log[i], r) /\ \A j \in (i + 1)..(n + 1) : ~Kills(j)
    BY <1>1, <1>3
  <2>2. i \in 1..n /\ n + 1 \in (i + 1)..(n + 1) /\ \A j \in (i + 1)..n : j \in (i + 1)..(n + 1)
    BY <1>3, <2>1
  <2> QED BY <1>1, <2>1, <2>2
<1>4. ASSUME Opens(log[n + 1], r) PROVE r \in UnansweredAfter(log, n + 1)
  <2>1. n + 1 \in 1..(n + 1) /\ \A j \in (n + 1 + 1)..(n + 1) : FALSE
    OBVIOUS
  <2> QED BY <1>1, <1>4, <2>1
<1>5. ASSUME r \in UnansweredAfter(log, n), ~Kills(n + 1) PROVE r \in UnansweredAfter(log, n + 1)
  <2>1. PICK i \in 1..n : Opens(log[i], r) /\ \A j \in (i + 1)..n : ~Kills(j)
    BY <1>1, <1>5
  <2>2. \A j \in (i + 1)..(n + 1) : j = n + 1 \/ j \in (i + 1)..n
    OBVIOUS
  <2>3. i \in 1..(n + 1) /\ n + 1 \in Nat
    OBVIOUS
  <2>4. \A j \in (i + 1)..(n + 1) : ~Kills(j)
    BY <1>5, <2>1, <2>2
  <2>5. \E m \in 1..(n + 1) : Opens(log[m], r) /\ \A j \in (m + 1)..(n + 1) : ~Kills(j)
    BY <2>1, <2>3, <2>4
  <2> QED BY <1>1, <2>3, <2>5
<1> QED BY <1>2, <1>3, <1>4, <1>5

LEMMA ToldBefore ==
    ASSUME QueueIs, NEW ev, Tell(ev), NEW n \in Nat, n <= Len(emitted)
    PROVE  /\ TurnAfter(emitted', n) <=> TurnAfter(emitted, n)
           /\ AskedAfter(emitted', n) = AskedAfter(emitted, n)
           /\ UnansweredAfter(emitted', n) = UnansweredAfter(emitted, n)
<1>1. \A i \in 1..Len(emitted) : emitted'[i] = emitted[i]
  BY TellIs
<1>2. Len(emitted) \in Nat
  BY QueueFacts
<1>3. \A i \in 1..n : emitted'[i] = emitted[i]
  BY <1>1, <1>2
<1>4. \A i \in 1..n : \A j \in (i + 1)..n : j \in 1..n
  OBVIOUS
<1>5. TurnAfter(emitted', n) <=> TurnAfter(emitted, n)
  BY <1>3, <1>4 DEF TurnAfter
<1>6. AskedAfter(emitted', n) = AskedAfter(emitted, n)
  BY <1>3, <1>4 DEF AskedAfter
<1>7. UnansweredAfter(emitted', n) = UnansweredAfter(emitted, n)
  BY <1>3, <1>4 DEF UnansweredAfter
<1> QED BY <1>5, <1>6, <1>7

LEMMA ToldAfter ==
    ASSUME QueueIs, NEW ev, Tell(ev)
    PROVE  /\ TurnAfter(emitted', Len(emitted')) <=>
                \/ ev.type = "turn.started"
                \/ TurnAfter(emitted, Len(emitted)) /\ ev.type \notin Ending
           /\ \A r \in Requests : r \in AskedAfter(emitted', Len(emitted')) <=>
                \/ Opens(ev, r)
                \/ /\ r \in AskedAfter(emitted, Len(emitted)) /\ ~Resolves(ev, r)
                   /\ ev.type \notin Ending \cup {"turn.started"}
<1>1. PICK n \in Nat : n = Len(emitted)
  BY QueueFacts
<1>2. Len(emitted') = n + 1 /\ emitted'[n + 1] = ev
  BY <1>1, TellIs
<1>3. /\ TurnAfter(emitted', n) <=> TurnAfter(emitted, n)
      /\ AskedAfter(emitted', n) = AskedAfter(emitted, n)
  BY <1>1, ToldBefore
<1>4. TurnAfter(emitted', n + 1) <=> \/ ev.type = "turn.started"
                                     \/ TurnAfter(emitted', n) /\ ev.type \notin Ending
  BY <1>2, TurnNext
<1>5. ASSUME NEW r \in Requests
      PROVE  r \in AskedAfter(emitted', n + 1) <=>
                \/ Opens(ev, r)
                \/ /\ r \in AskedAfter(emitted', n) /\ ~Resolves(ev, r)
                   /\ ev.type \notin Ending \cup {"turn.started"}
  BY <1>2, AskedNext
<1> QED BY <1>1, <1>2, <1>3, <1>4, <1>5

\* What the provider's step means to its turn and its requests.
Says(ev) ==
    \/ ev.type = "turn.started" /\ ~turn /\ turn' = TRUE /\ asked' = asked /\ stranded' = FALSE
    \/ \E r \in Requests : /\ Opens(ev, r) /\ turn
                           /\ \A i \in 1..Len(emitted) : ~Opens(emitted[i], r)
                           /\ turn' = turn /\ asked' = asked \cup {r} /\ stranded' = stranded
    \/ \E r \in asked : /\ Resolves(ev, r)
                        /\ turn' = turn /\ asked' = asked \ {r} /\ stranded' = stranded
    \/ ev.type \in Ending /\ turn' = FALSE /\ asked' = {} /\ stranded' = stranded
    \/ ev.type \in {"usage", "item", "compacted"} /\ UNCHANGED <<turn, asked, stranded>>

LEMMA ProviderSays ==
    ASSUME QueueIs, Provider
    PROVE  \E ev \in Event : Tell(ev) /\ Says(ev) /\ Len(emitted) < MaxEvents
<1>1. ASSUME NEW type, NEW arg, Emit(type, arg), Provider
      PROVE  \E ev \in Event : /\ Tell(ev) /\ ev.type = type /\ ev.arg = arg
                               /\ Len(emitted) < MaxEvents
  <2>1. PICK ev \in Event : Tell(ev)
    BY ProviderIs
  <2>2. emitted' = Append(emitted, [type |-> type, arg |-> arg]) /\ Len(emitted) < MaxEvents
    BY <1>1 DEF Emit
  <2>3. ev = [type |-> type, arg |-> arg]
    <3>1. emitted' = Append(emitted, ev) /\ emitted \in Seq(Event)
      BY <2>1 DEF Tell, QueueIs
    <3> DEFINE made == [type |-> type, arg |-> arg]
    <3>2. emitted' = Append(emitted, made)
      BY <2>2
    <3> HIDE DEF made
    <3>3. Append(emitted, ev)[Len(emitted) + 1] = ev /\ Append(emitted, made)[Len(emitted) + 1] = made
      BY <3>1
    <3>4. ev = made
      BY <3>1, <3>2, <3>3
    <3> QED BY <3>4 DEF made
  <2> QED BY <2>1, <2>2, <2>3
<1>2. CASE TurnBegins
  <2>1. PICK ev \in Event : Tell(ev) /\ ev.type = "turn.started" /\ Len(emitted) < MaxEvents
    BY <1>1, <1>2 DEF TurnBegins
  <2> QED BY <1>2, <2>1 DEF TurnBegins, Says
<1>3. CASE TurnEnds
  <2>1. PICK ev \in Event : Tell(ev) /\ ev.type \in Ending /\ Len(emitted) < MaxEvents
    <3>1. PICK type, arg : Emit(type, arg) /\ type \in Ending
      BY <1>3 DEF TurnEnds, Ending
    <3> QED BY <1>1, <3>1
  <2> QED BY <1>3, <2>1 DEF TurnEnds, Says
<1>4. CASE Tells
  <2>1. PICK ev \in Event : Tell(ev) /\ ev.type \in {"usage", "item"} /\ Len(emitted) < MaxEvents
    <3>1. PICK type, arg : Emit(type, arg) /\ type \in {"usage", "item"}
      BY <1>4 DEF Tells
    <3> QED BY <1>1, <3>1
  <2> QED BY <1>4, <2>1 DEF Tells, Says
<1>5. CASE Compacted
  <2>1. PICK ev \in Event : Tell(ev) /\ ev.type = "compacted" /\ Len(emitted) < MaxEvents
    BY <1>1, <1>5 DEF Compacted
  <2> QED BY <1>5, <2>1 DEF Compacted, Says
<1>6. ASSUME NEW r \in Requests, Asks(r)
      PROVE  \E ev \in Event : Tell(ev) /\ Says(ev) /\ Len(emitted) < MaxEvents
  <2>1. PICK ev \in Event : Tell(ev) /\ Opens(ev, r) /\ Len(emitted) < MaxEvents
    BY <1>1, <1>6 DEF Asks, Opens
  <2>2. ASSUME NEW i \in 1..Len(emitted), Opens(emitted[i], r) PROVE FALSE
    <3>1. emitted[i] \in Event /\ emitted[i].type = "request.opened" /\ emitted[i].arg = r
      BY <2>2 DEF QueueIs, Opens
    <3>2. emitted[i] = [type |-> "request.opened", arg |-> r]
      BY <3>1 DEF Event
    <3>3. emitted[i] \in ToSet(emitted)
      BY <2>2 DEF QueueIs, ToSet
    <3> QED BY <1>6, <3>2, <3>3 DEF Asks
  <2> QED BY <1>6, <2>1, <2>2 DEF Asks, Says
<1>7. ASSUME NEW r \in Requests, IsAnswered(r)
      PROVE  \E ev \in Event : Tell(ev) /\ Says(ev) /\ Len(emitted) < MaxEvents
  <2>1. PICK ev \in Event : Tell(ev) /\ Resolves(ev, r) /\ Len(emitted) < MaxEvents
    BY <1>1, <1>7 DEF IsAnswered, Resolves
  <2> QED BY <1>7, <2>1 DEF IsAnswered, Says
<1> QED BY <1>2, <1>3, <1>4, <1>5, <1>6, <1>7 DEF Provider

LEMMA ToldSays ==
    ASSUME QueueIs, Told, NEW ev, Tell(ev), Says(ev), Len(emitted) < MaxEvents
    PROVE  Told'
<1> DEFINE Was  == TurnAfter(emitted, Len(emitted))
           Open == AskedAfter(emitted, Len(emitted))
<1>1. /\ TurnAfter(emitted', Len(emitted')) <=> ev.type = "turn.started" \/ (Was /\ ev.type \notin Ending)
      /\ \A r \in Requests : r \in AskedAfter(emitted', Len(emitted')) <=>
           \/ Opens(ev, r)
           \/ r \in Open /\ ~Resolves(ev, r) /\ ev.type \notin Ending \cup {"turn.started"}
      /\ AskedAfter(emitted', Len(emitted')) \subseteq Requests
  BY ToldAfter DEF AskedAfter
<1>2. /\ turn \in BOOLEAN /\ asked \subseteq Requests /\ stranded \in BOOLEAN
      /\ (~turn => asked = {}) /\ (turn => Was) /\ asked \subseteq Open
      /\ ~stranded => (Was => turn) /\ Open \subseteq asked
      /\ Open \subseteq Requests
  BY DEF Told, AskedAfter
<1> HIDE DEF Was, Open
<1>3. /\ turn' \in BOOLEAN /\ asked' \subseteq Requests /\ stranded' \in BOOLEAN
      /\ ~turn' => asked' = {}
      /\ turn' => TurnAfter(emitted', Len(emitted'))
      /\ asked' \subseteq AskedAfter(emitted', Len(emitted'))
      /\ ~stranded' => /\ TurnAfter(emitted', Len(emitted')) => turn'
                       /\ AskedAfter(emitted', Len(emitted')) \subseteq asked'
      /\ ev.type \in {"request.opened", "request.resolved"} => TurnAfter(emitted', Len(emitted'))
  <2>1. CASE ev.type = "turn.started" /\ ~turn /\ turn' = TRUE /\ asked' = asked /\ stranded' = FALSE
    BY <1>1, <1>2, <2>1 DEF Opens, Ending
  <2>2. ASSUME NEW r \in Requests, Opens(ev, r), turn, turn' = turn, asked' = asked \cup {r},
               stranded' = stranded
        PROVE  <1>3!:
    BY <1>1, <1>2, <2>2 DEF Opens, Resolves, Ending
  <2>3. ASSUME NEW r \in asked, Resolves(ev, r), turn' = turn, asked' = asked \ {r},
               stranded' = stranded
        PROVE  <1>3!:
    BY <1>1, <1>2, <2>3 DEF Opens, Resolves, Ending
  <2>4. CASE ev.type \in Ending /\ turn' = FALSE /\ asked' = {} /\ stranded' = stranded
    BY <1>1, <1>2, <2>4 DEF Opens, Ending
  <2>5. CASE ev.type \in {"usage", "item", "compacted"} /\ UNCHANGED <<turn, asked, stranded>>
    BY <1>1, <1>2, <2>5 DEF Opens, Resolves, Ending
  <2> QED BY <2>1, <2>2, <2>3, <2>4, <2>5 DEF Says
<1>4. /\ Len(emitted') = Len(emitted) + 1 /\ emitted'[Len(emitted) + 1] = ev
      /\ \A i \in 1..Len(emitted) : emitted'[i] = emitted[i]
      /\ Len(emitted) \in Nat
  BY TellIs, QueueFacts
<1>5. \A i \in 1..Len(emitted') : i \in 1..Len(emitted) \/ i = Len(emitted')
  BY <1>4
<1>6. ASSUME NEW i \in 1..Len(emitted'), emitted'[i].type \in {"request.opened", "request.resolved"}
      PROVE  TurnAfter(emitted', i)
  <2>1. CASE i = Len(emitted')
    BY <1>3, <1>4, <1>6, <2>1
  <2>2. CASE i \in 1..Len(emitted)
    <3>1. TurnAfter(emitted, i)
      BY <1>4, <1>6, <2>2 DEF Told
    <3>2. i \in Nat /\ i <= Len(emitted)
      BY <1>4, <2>2
    <3> QED BY <3>1, <3>2, ToldBefore
  <2> QED BY <1>5, <2>1, <2>2
<1>7. ASSUME NEW i \in 1..Len(emitted'), NEW j \in 1..Len(emitted'), NEW r \in Requests,
             Opens(emitted'[i], r), Opens(emitted'[j], r)
      PROVE  i = j
  <2>1. ASSUME NEW k \in 1..Len(emitted), Opens(emitted[k], r), Opens(ev, r) PROVE FALSE
    BY <2>1 DEF Says, Opens, Resolves, Ending
  <2> QED BY <1>4, <1>5, <1>7, <2>1 DEF Told
<1>8. MaxEvents \in Nat /\ Len(emitted') <= MaxEvents
  BY <1>4, EventBounds
<1> QED BY <1>3, <1>6, <1>7, <1>8 DEF Told

LEMMA ToldStep ==
    ASSUME Frame, DomainOnce, Told, [Next]_vars
    PROVE  Told'
<1>1. CASE Provider
  BY <1>1, ProviderSays, ToldSays DEF Frame
<1>2. CASE Crash
  <2>1. /\ emitted' = emitted /\ turn' = FALSE /\ asked' = {}
        /\ stranded' = (stranded \/ turn \/ \E r \in Requests : rows[r].status = "open")
    BY <1>2 DEF Crash
  <2>2. stranded' \in BOOLEAN /\ (~stranded' => ~stranded /\ ~turn)
    BY <2>1 DEF Told
  <2> QED BY <2>1, <2>2 DEF Told
<1>3. CASE ~Provider /\ ~Crash
  <2>1. UNCHANGED <<emitted, turn, asked, stranded>>
    <3>1. CASE Hooked \/ Posted \/ PostFails \/ Requested \/ DomainHooked
      BY <3>1, HookedIs, PostedIs, PostFailsIs, RequestedIs, DomainHookedIs DEF Frame
    <3>2. CASE ReceiptHooked \/ Projected
      BY <3>2, MidStep DEF Frame
    <3> QED BY <1>3, <3>1, <3>2 DEF Next, Pipeline, Skip, Take, CompactionAsked, LatchTimeout, Restart,
            Reconcile, vars, outside, history
  <2> QED BY <2>1 DEF Told
<1> QED BY <1>1, <1>2, <1>3

-----------------------------------------------------------------------------
(* Rows and the log. *)

\* Before its hook has run, and if nothing was cut, an event has left no trace.
LEMMA NothingYet ==
    ASSUME Frame, HandledLog, cut = {}, work # Idle, work.at \notin Mid, NEW k
    PROVE  ~Recorded(Head(queue), k)
BY DEF Frame, LogIs, HandledLog, Recorded

\* If nothing was cut, domain events are recorded one after the other.
LEMMA OneByOne ==
    ASSUME Frame, DomainOnce, HandledLog, cut = {}, NEW rest, Records(rest)
    PROVE  /\ work.at \notin Mid => Part'.k = 1
           /\ work.at \in Mid => Part'.k = Part.k + 1
<1>1. /\ Part'.k \in 1..3 /\ (Part'.k = 1 \/ Recorded(Head(queue), Part'.k - 1))
      /\ ~Recorded(Head(queue), Part'.k)
  BY RecordIs
<1>2. work # Idle
  BY DEF Records, Idle
<1>3. ASSUME work.at \notin Mid PROVE Part'.k = 1
  <2>1. PICK k : k = Part'.k - 1
    OBVIOUS
  <2> QED BY <1>1, <1>2, <1>3, <2>1, NothingYet
<1>4. ASSUME work.at \in Mid PROVE Part'.k = Part.k + 1
  <2>1. Part.k \in 1..3 /\ Recorded(Head(queue), Part.k)
    <3>1. Part \in Piece
      BY <1>4, HeadIs DEF Frame, WorkIs, Part
    <3> QED BY <1>4, <3>1 DEF DomainOnce, Piece
  <2>2. PICK k \in 1..3 : k = Part'.k
    BY <1>1
  <2>3. Part.k < k
    BY <1>1, <2>1, <2>2, PrefixIs
  <2>4. PICK x \in domain : x.event = Head(queue) /\ x.k = k - 1
    BY <1>1, <2>1, <2>2, <2>3 DEF Recorded
  <2>5. x.k <= Part.k
    BY <1>2, <2>4 DEF HandledLog, Frame, LogIs
  <2> QED BY <2>1, <2>2, <2>3, <2>4, <2>5
<1> QED BY <1>3, <1>4

\* A step that leaves the rows and the log, and leaves an event in the midst of its
\* domain events only by a cut.
Passes ==
    /\ UNCHANGED <<rows, domain, processed>> /\ cut \subseteq cut'
    /\ Len(emitted') >= Len(emitted) /\ \A i \in 1..Len(emitted) : emitted'[i] = emitted[i]
    /\ \/ work.at \notin Busy /\ work'.at \notin Busy
       \/ /\ work.at \in Busy /\ work' = work /\ receipt' = receipt
          /\ Head(queue') = Head(queue) /\ Now' = Now
       \/ work'.at \notin Busy /\ cut' # {}

LEMMA PassesRows ==
    ASSUME Frame, AskedRows, HandledLog, HeldRow, Passes
    PROVE  AskedRows' /\ HandledLog' /\ HeldRow'
<1>1. \A i \in 1..Len(emitted) : i \in 1..Len(emitted') /\ emitted'[i] = emitted[i]
  BY QueueFacts DEF Passes, Frame, QueueIs
<1>2. AskedRows'
  BY <1>1 DEF Passes, AskedRows
<1>3. HandledLog'
  <2>1. CASE work.at \notin Busy /\ work'.at \notin Busy
    BY <2>1 DEF Passes, HandledLog, Busy
  <2>2. CASE work.at \in Busy /\ work' = work /\ Head(queue') = Head(queue)
    BY <2>2 DEF Passes, HandledLog, Part
  <2>3. CASE cut' # {}
    BY <2>3 DEF HandledLog
  <2> QED BY <2>1, <2>2, <2>3 DEF Passes
<1>4. HeldRow'
  BY DEF Passes, HeldRow, Busy
<1> QED BY <1>2, <1>3, <1>4

LEMMA LeftOfNone == Left(<<>>) = <<>>
<1>1. PICK rest : rest = <<>>
  OBVIOUS
<1>2. rest \in Seq(Piece) /\ 1..Len(rest) = {}
  BY <1>1
<1>3. Left(rest) = <<>>
  BY <1>2, LeftIs
<1> QED BY <1>1, <1>3

\* What the hook's step makes of the rows.
LEMMA HookedRows ==
    ASSUME Frame, Hooked
    PROVE  /\ \A r \in Requests : r # Now.arg => rows'[r] = rows[r]
           /\ \/ /\ rows' = rows
                 /\ Now.type = "request.opened" => rows[Now.arg].status = "resolved"
                 /\ Now.type = "request.resolved" => rows[Now.arg].status = "absent"
              \/ Now.type = "request.opened" /\ rows'[Now.arg].status = "open"
              \/ /\ Now.type = "request.resolved" /\ rows'[Now.arg].status = "resolved"
                 /\ rows[Now.arg].status # "absent"
<1>1. /\ Now \in Event /\ StateIs /\ found' = Project(Now)
      /\ rows' = IF found' = NoRow THEN rows ELSE [rows EXCEPT ![Now.arg] = found']
  BY HookedIs DEF Frame
<1>2. rows \in [Requests -> Rows]
  BY <1>1 DEF StateIs
<1>3. CASE found' = NoRow
  BY <1>1, <1>3, ProjectIs
<1>4. CASE found' # NoRow
  <2>1. Now.type \in {"request.opened", "request.resolved"} /\ Now.arg \in Requests
    BY <1>1, <1>4, ProjectIs, EventIs
  <2>2. rows'[Now.arg] = found' /\ \A r \in Requests : r # Now.arg => rows'[r] = rows[r]
    BY <1>1, <1>2, <1>4, <2>1
  <2> QED BY <1>1, <1>4, <2>1, <2>2, ProjectIs
<1> QED BY <1>3, <1>4

\* The row is written, at first and with its message.
LEMMA EarlyRows ==
    ASSUME Frame, AskedRows, HandledLog, Hooked \/ Posted
    PROVE  AskedRows' /\ HandledLog' /\ HeldRow'
<1>1. /\ work.at \notin Mid /\ work'.at \in Early /\ work'.at \notin Mid /\ work'.at \in Busy
      /\ UNCHANGED <<emitted, processed, cut, domain, queue>> /\ queue # <<>>
      /\ Head(queue) \in 1..Len(emitted)
      /\ \A r \in Requests : rows'[r].status # "absent" =>
           rows[r].status # "absent" \/ Opens(Now, r)
  <2>1. /\ work.at \in {"hook", "posting"} /\ work'.at \in Early /\ queue # <<>>
        /\ UNCHANGED <<emitted, processed, cut, domain, queue>>
    BY HookedIs, PostedIs DEF Frame, Early
  <2>2. Head(queue) \in 1..Len(emitted)
    BY <2>1, QueueFacts DEF Frame
  <2>3. ASSUME NEW r \in Requests, rows'[r].status # "absent", rows[r].status = "absent"
        PROVE  Opens(Now, r)
    <3>1. CASE Hooked
      BY <2>3, <3>1, HookedRows DEF Opens
    <3>2. CASE Posted
      BY <2>3, <3>2, PostedIs DEF Frame
    <3> QED BY <3>1, <3>2
  <2> QED BY <2>1, <2>2, <2>3 DEF Early, Mid, Busy
<1>2. AskedRows'
  <2>1. ASSUME cut = {}, NEW r \in Requests, rows'[r].status # "absent"
        PROVE  \E i \in 1..Len(emitted) : Opens(emitted[i], r) /\ (i \in processed \/ i = Head(queue))
    <3>1. CASE rows[r].status # "absent"
      BY <2>1, <3>1 DEF AskedRows
    <3>2. CASE Opens(Now, r)
      BY <1>1, <3>2 DEF Now
    <3> QED BY <1>1, <2>1, <3>1, <3>2
  <2> QED BY <1>1, <2>1 DEF AskedRows
<1>3. HandledLog'
  BY <1>1 DEF HandledLog
<1> QED BY <1>1, <1>2, <1>3 DEF HeldRow

\* A request whose domain events are recorded has its row.
LEMMA FoundHeld ==
    ASSUME Frame, Requested, Left(Full) # <<>>
    PROVE  /\ Now.type = "request.opened" => rows[Now.arg].status = "open"
           /\ Now.type = "request.resolved" => rows[Now.arg].status = "resolved"
<1>1. work.at \in Early /\ Now \in Event
  BY RequestedIs DEF Frame, Early
<1>2. ASSUME Now.type \in {"request.opened", "request.resolved"}, found = NoRow PROVE FALSE
  <2>1. Full = <<>>
    BY <1>2 DEF Full, DomainEvents
  <2> QED BY <2>1, LeftOfNone
<1> QED BY <1>1, <1>2 DEF Frame, FoundIs

\* A domain event recorded after the row was found, or after an earlier one.
LEMMA RecordRows ==
    ASSUME Frame, DomainOnce, AskedRows, HandledLog, HeldRow, Requested \/ DomainHooked,
           NEW rest, Records(rest)
    PROVE  AskedRows' /\ HandledLog' /\ HeldRow'
<1>1. /\ work'.at \in Mid /\ Head(queue') = Head(queue) /\ Now' = Now /\ Now \in Event
      /\ UNCHANGED <<queue, processed, cut, emitted, rows>> /\ Head(queue) \in 1..Len(emitted)
      /\ domain' = domain \cup {[event |-> Head(queue), k |-> Part'.k, row |-> Part'.row]}
      /\ Part'.k \in 1..3 /\ work.at \in Busy
  BY RecordIs, RequestedIs, DomainHookedIs DEF Mid, Early, Busy, Frame
<1>2. AskedRows'
  BY <1>1 DEF AskedRows, Busy
<1>3. HandledLog'
  <2>1. ASSUME cut = {}, NEW x \in domain'
        PROVE  x.event \in processed \/ (x.event = Head(queue) /\ x.k <= Part'.k)
    <3>1. CASE x \in domain
      <4>1. CASE work.at \in Mid
        <5>1. Part'.k = Part.k + 1 /\ Part.k \in 1..3
          <6>1. Part \in Piece
            BY <4>1, HeadIs DEF Part, Frame, WorkIs
          <6> QED BY <2>1, <4>1, <6>1, OneByOne DEF Piece
        <5>2. x.k \in 1..3
          BY <3>1 DEF Frame, StateIs
        <5> QED BY <2>1, <3>1, <4>1, <5>1, <5>2 DEF HandledLog
      <4>2. CASE work.at \notin Mid
        BY <2>1, <3>1, <4>2 DEF HandledLog
      <4> QED BY <4>1, <4>2
    <3>2. CASE x \notin domain
      <4>1. x.event = Head(queue) /\ x.k = Part'.k
        BY <1>1, <3>2
      <4> QED BY <1>1, <4>1
    <3> QED BY <3>1, <3>2
  <2> QED BY <1>1, <2>1 DEF HandledLog
<1>4. HeldRow'
  <2>1. CASE Requested
    <3>1. Left(Full) # <<>>
      <4>1. ~Finish /\ ~Abandon
        BY <1>1, IdleIs DEF Finish, Abandon
      <4> QED BY <2>1, <4>1, RequestedIs DEF Frame, Fresh
    <3> QED BY <1>1, <2>1, <3>1, FoundHeld DEF HeldRow
  <2>2. CASE DomainHooked
    <3>1. work.at \in Mid
      BY <2>2, DomainHookedIs DEF Frame, Mid
    <3> QED BY <1>1, <3>1 DEF HeldRow
  <2> QED BY <2>1, <2>2
<1> QED BY <1>2, <1>3, <1>4

\* The event is marked, or given up.
LEMMA EndRows ==
    ASSUME Frame, DomainOnce, AskedRows, HandledLog, Requested \/ DomainHooked, Finish \/ Abandon
    PROVE  AskedRows' /\ HandledLog' /\ HeldRow'
<1>1. work'.at \notin Mid /\ work'.at \notin Busy /\ emitted' = emitted /\ rows' = rows
  <2>1. work'.at \notin Mid /\ work'.at \notin Busy
    BY IdleIs DEF Finish, Abandon, Busy
  <2> QED BY <2>1, RequestedIs, DomainHookedIs DEF Frame
<1>2. CASE Abandon
  <2>1. cut' # {}
    BY <1>2 DEF Abandon
  <2> QED BY <1>1, <2>1 DEF AskedRows, HandledLog, HeldRow
<1>3. CASE Finish
  <2>1. cut' = cut /\ processed' = processed \cup {Head(queue)} /\ domain' = domain
    BY <1>3 DEF Finish, Processed
  <2> QED BY <1>1, <2>1 DEF AskedRows, HandledLog, HeldRow
<1> QED BY <1>2, <1>3

\* Of the rows, the two steps in the midst of a domain event write this event's, or
\* those that a turn's end closes.
LEMMA MidRowsAre ==
    ASSUME Frame, ReceiptHooked \/ Projected
    PROVE  /\ ReceiptHooked /\ Now.type \notin {"turn.completed", "turn.aborted"} => rows' = rows
           /\ Projected /\ Part.type \notin {"request.opened", "request.resolved"} => rows' = rows
           /\ Projected /\ Part.type \in {"request.opened", "request.resolved"} =>
                /\ Part.arg = Now.arg /\ Now.arg \in Requests /\ Part.type = Now.type
                /\ rows' = [rows EXCEPT ![Now.arg] = Part.row]
                /\ Now.type = "request.opened" => rows'[Now.arg].status = "open"
                /\ Now.type = "request.resolved" => rows'[Now.arg].status = "resolved"
           /\ ReceiptHooked =>
                /\ ~(ClosesAll(Now) /\ Part.k = 1) => rows' = rows
                /\ ClosesAll(Now) /\ Part.k = 1 => \A r \in Requests : rows'[r].status # "open"
                /\ \A r \in Requests : rows'[r].status = "absent" <=> rows[r].status = "absent"
<1>1. PartOf(Now, Part) /\ Now \in Event /\ rows \in [Requests -> Rows]
  BY MidStep DEF Frame, StateIs
<1>2. ASSUME ReceiptHooked, Now.type \notin {"turn.completed", "turn.aborted"} PROVE rows' = rows
  <2>1. ~ClosesRequests(Part)
    BY <1>1, <1>2 DEF ClosesRequests, PartOf
  <2> QED BY <1>2, <2>1 DEF ReceiptHooked, Part
<1>3. ASSUME Projected, Part.type \notin {"request.opened", "request.resolved"} PROVE rows' = rows
  BY <1>3 DEF Projected, Part
<1>4. ASSUME Projected, Part.type \in {"request.opened", "request.resolved"}
      PROVE  /\ Part.arg = Now.arg /\ Now.arg \in Requests /\ Part.type = Now.type
             /\ rows' = [rows EXCEPT ![Now.arg] = Part.row]
             /\ Now.type = "request.opened" => rows'[Now.arg].status = "open"
             /\ Now.type = "request.resolved" => rows'[Now.arg].status = "resolved"
  <2>1. Part.arg = Now.arg /\ Part.type = Now.type /\ Now.arg \in Requests
        /\ (Now.type = "request.opened" => Part.row.status = "open")
        /\ (Now.type = "request.resolved" => Part.row.status = "resolved")
    BY <1>1, <1>4, EventIs DEF PartOf
  <2>2. rows' = [rows EXCEPT ![Now.arg] = Part.row]
    BY <1>4, <2>1 DEF Projected, Part
  <2> QED BY <1>1, <2>1, <2>2
<1>5. ASSUME ReceiptHooked, NEW r \in Requests
      PROVE  rows'[r].status = "absent" <=> rows[r].status = "absent"
  <2>1. rows[r] \in Rows
    BY <1>1
  <2>2. [rows[r] EXCEPT !.status = "resolved"].status = "resolved"
    BY <2>1 DEF Rows
  <2> QED BY <1>5, <2>2 DEF ReceiptHooked
<1>6. ClosesRequests(Part) <=> ClosesAll(Now) /\ Part.k = 1
  BY <1>1, EventIs DEF ClosesRequests, ClosesAll, PartOf
<1>7. ASSUME ReceiptHooked, ~(ClosesAll(Now) /\ Part.k = 1) PROVE rows' = rows
  BY <1>6, <1>7 DEF ReceiptHooked, Part
<1>8. ASSUME ReceiptHooked, ClosesAll(Now) /\ Part.k = 1, NEW r \in Requests
      PROVE  rows'[r].status # "open"
  <2>1. [rows[r] EXCEPT !.status = "resolved"].status = "resolved"
    BY <1>1 DEF Rows
  <2> QED BY <1>6, <1>8, <2>1 DEF ReceiptHooked, Part
<1> QED BY <1>2, <1>3, <1>4, <1>5, <1>7, <1>8

LEMMA MidRows ==
    ASSUME Frame, AskedRows, HandledLog, HeldRow, ReceiptHooked \/ Projected
    PROVE  AskedRows' /\ HandledLog' /\ HeldRow'
<1>1. /\ work.at \in Mid /\ work'.at \in Mid /\ work'.rest = work.rest /\ Part' = Part /\ Now' = Now
      /\ Now \in Event /\ Head(queue') = Head(queue) /\ work.at \in Busy /\ work'.at \in Busy
      /\ UNCHANGED <<processed, emitted, cut, domain>>
  BY MidStep DEF Frame, Mid, Busy, Part, Now
<1>2. rows \in [Requests -> Rows]
  BY DEF Frame, StateIs
<1>3. HandledLog'
  BY <1>1 DEF HandledLog
<1>4. HeldRow'
  <2>1. ASSUME Now.type \in {"request.opened", "request.resolved"}
        PROVE  \/ rows'[Now.arg] = rows[Now.arg]
               \/ /\ Now.type = "request.opened" => rows'[Now.arg].status = "open"
                  /\ Now.type = "request.resolved" => rows'[Now.arg].status = "resolved"
    BY <2>1, MidRowsAre
  <2> QED BY <1>1, <2>1 DEF HeldRow
<1>5. \A r \in Requests : rows'[r].status # "absent" => rows[r].status # "absent" \/ Opens(Now, r)
  <2>1. ASSUME NEW r \in Requests, rows'[r].status # "absent", rows[r].status = "absent"
        PROVE  Opens(Now, r)
    <3>1. Projected /\ Part.type \in {"request.opened", "request.resolved"}
      BY <2>1, MidRowsAre
    <3>2. r = Now.arg /\ Now.type \in {"request.opened", "request.resolved"}
      BY <1>2, <2>1, <3>1, MidRowsAre
    <3>3. Now.type # "request.resolved"
      BY <1>1, <2>1, <3>2 DEF HeldRow
    <3> QED BY <3>2, <3>3 DEF Opens
  <2> QED BY <2>1
<1>6. AskedRows'
  <2>1. Head(queue) \in 1..Len(emitted)
    BY MidStep, QueueFacts DEF Frame
  <2>2. ASSUME cut = {}, NEW r \in Requests, rows'[r].status # "absent"
        PROVE  \E i \in 1..Len(emitted) :
                 Opens(emitted[i], r) /\ (i \in processed \/ i = Head(queue))
    <3>1. CASE rows[r].status # "absent"
      BY <2>2, <3>1 DEF AskedRows
    <3>2. CASE Opens(Now, r)
      BY <2>1, <3>2 DEF Now
    <3> QED BY <1>5, <2>2, <3>1, <3>2
  <2> QED BY <1>1, <2>2 DEF AskedRows
<1> QED BY <1>3, <1>4, <1>6

\* The steps that are neither of the handler's domain events nor of a crash.
LEMMA OtherPasses ==
    ASSUME Frame, [Next]_vars, ~Hooked, ~Posted, ~Requested, ~DomainHooked, ~ReceiptHooked, ~Projected
    PROVE  Passes
<1> USE DEF Frame
<1>1. CASE Provider
  <2>1. PICK ev \in Event : Tell(ev)
    BY <1>1, ProviderIs
  <2>2. /\ Len(emitted') = Len(emitted) + 1 /\ \A i \in 1..Len(emitted) : emitted'[i] = emitted[i]
        /\ queue # <<>> => Head(queue') = Head(queue) /\ Now' = Now
    BY <2>1, TellIs
  <2>3. Len(emitted') >= Len(emitted)
    BY <2>2, QueueFacts
  <2>4. work.at \in Busy => queue # <<>>
    BY IdleIs DEF QueueIs, Busy
  <2>5. UNCHANGED <<rows, domain, processed, cut, work, receipt>>
    BY <2>1 DEF Tell
  <2> QED BY <2>2, <2>3, <2>4, <2>5 DEF Passes
<1>2. CASE ~Provider /\ ~Crash /\ ~PostFails /\ ~(Restart \/ LatchTimeout \/ UNCHANGED vars)
  <2>1. Len(emitted) >= Len(emitted)
    BY QueueFacts
  <2>2. /\ UNCHANGED <<rows, domain, processed, emitted>> /\ cut \subseteq cut'
        /\ work.at \notin Busy /\ work'.at \notin Busy
    <3>1. CASE Skip
      BY <3>1, IdleIs DEF Skip, durable, outside, history, Busy
    <3>2. CASE Take
      BY <3>2, IdleIs DEF Take, Mid, Early, Busy
    <3>3. ASSUME NEW accepted \in BOOLEAN, CompactionAsked(accepted)
          PROVE  <2>2
      <4>1. /\ UNCHANGED <<rows, domain, processed, emitted, cut>> /\ work.at = "compacting"
            /\ work' = [work EXCEPT !.at = "hook"]
        BY <3>3 DEF CompactionAsked, durable, history
      <4>2. work'.at = "hook"
        BY <4>1 DEF WorkIs
      <4> QED BY <4>1, <4>2 DEF Mid, Early, Busy
    <3>4. CASE Reconcile
      BY <3>4, IdleIs DEF Reconcile, outside, QueueIs, Busy
    <3> QED BY <1>2, <3>1, <3>2, <3>3, <3>4 DEF Next, Pipeline
  <2> QED BY <2>1, <2>2 DEF Passes
<1>3. CASE Restart \/ LatchTimeout \/ UNCHANGED vars
  <2>1. UNCHANGED <<rows, domain, processed, emitted, cut, work, queue, receipt>>
    BY <1>3 DEF Restart, LatchTimeout, vars, durable, memory, outside, history
  <2>2. Len(emitted) >= Len(emitted)
    BY QueueFacts
  <2> QED BY <2>1, <2>2 DEF Passes, Now
<1>4. CASE Crash
  <2>1. /\ UNCHANGED <<rows, domain, processed, emitted>> /\ work' = Idle
        /\ cut' = IF work = Idle THEN cut ELSE cut \cup {Head(queue)}
    BY <1>4 DEF Crash, durable
  <2>2. CASE work = Idle
    BY <2>1, <2>2, IdleIs, QueueFacts DEF Passes, Busy
  <2>3. CASE work # Idle
    <3>1. cut' # {} /\ cut \subseteq cut'
      BY <2>1, <2>3
    <3>2. work'.at \notin Busy /\ Len(emitted') >= Len(emitted)
      BY <2>1, IdleIs, QueueFacts DEF Busy
    <3> QED BY <2>1, <3>1, <3>2 DEF Passes
  <2> QED BY <2>2, <2>3
<1>5. CASE PostFails
  <2>1. UNCHANGED <<rows, emitted>> /\ Abandon
    BY <1>5, PostFailsIs
  <2> QED BY <2>1, IdleIs, QueueFacts DEF Abandon, Passes, Busy
<1> QED BY <1>1, <1>2, <1>3, <1>4, <1>5

LEMMA HandlerGoesOn ==
    ASSUME Frame, DomainOnce, Requested \/ DomainHooked
    PROVE  Finish \/ Abandon \/ \E rest : Records(rest)
<1>1. /\ Finish \/ Abandon \/ \E rest : Record(rest) /\ Fresh(rest)
      /\ work.at \in {"found", "domain"} /\ queue # <<>>
      /\ UNCHANGED <<emitted, shown, turn, asked, compacting, runtime, stranded>>
  BY RequestedIs, DomainHookedIs DEF Frame
<1> QED BY <1>1 DEF Records

LEMMA KeptRowsStep ==
    ASSUME Frame, DomainOnce, HeldRow, KeptRows, [Next]_vars
    PROVE  KeptRows'
<1>1. processed \subseteq 1..Len(emitted)
  BY DEF Frame, LogIs
<1>2. CASE Requested \/ DomainHooked
  <2>1. UNCHANGED <<emitted, rows>> /\ work # Idle
    BY <1>2, RequestedIs, DomainHookedIs DEF Frame
  <2>2. CASE Finish
    <3>1. processed' = processed \cup {Head(queue)}
      BY <2>2 DEF Finish, Processed
    <3>2. ASSUME Now.type = "request.opened" PROVE rows[Now.arg].status # "absent"
      <4>1. CASE Requested
        <5>1. work.at \in Early
          BY <4>1, RequestedIs DEF Frame, Early
        <5> QED BY <3>2, <5>1 DEF Frame, FoundIs
      <4>2. CASE DomainHooked
        <5>1. work.at \in Mid
          BY <4>2, DomainHookedIs DEF Frame, Mid
        <5> QED BY <3>2, <5>1 DEF HeldRow
      <4> QED BY <1>2, <4>1, <4>2
    <3>3. ASSUME NEW r \in Requests, Opens(emitted[Head(queue)], r) PROVE rows[r].status # "absent"
      BY <3>2, <3>3 DEF Opens, Now
    <3> QED BY <2>1, <3>1, <3>3 DEF KeptRows
  <2>3. CASE Abandon \/ \E rest : Records(rest)
    <3>1. processed' = processed
      BY <2>3, RecordIs DEF Abandon
    <3> QED BY <2>1, <3>1 DEF KeptRows
  <2> QED BY <1>2, <2>2, <2>3, HandlerGoesOn
<1>3. CASE Hooked \/ Posted \/ ReceiptHooked \/ Projected
  <2>1. UNCHANGED <<emitted, processed>>
    BY <1>3, HookedIs, PostedIs, MidStep DEF Frame
  <2>2. ASSUME NEW r \in Requests, rows[r].status # "absent" PROVE rows'[r].status # "absent"
    <3>1. CASE Hooked
      BY <2>2, <3>1, HookedRows
    <3>2. CASE Posted
      BY <2>2, <3>2, PostedIs DEF Frame
    <3>3. CASE ReceiptHooked
      BY <2>2, <3>3, MidRowsAre
    <3>4. CASE Projected
      <4>1. rows \in [Requests -> Rows]
        BY DEF Frame, StateIs
      <4>2. CASE Part.type \notin {"request.opened", "request.resolved"}
        BY <2>2, <3>4, <4>2, MidRowsAre
      <4>3. CASE Part.type \in {"request.opened", "request.resolved"}
        BY <2>2, <3>4, <4>1, <4>3, MidRowsAre
      <4> QED BY <4>2, <4>3
    <3> QED BY <1>3, <3>1, <3>2, <3>3, <3>4
  <2> QED BY <2>1, <2>2 DEF KeptRows
<1>4. CASE ~Hooked /\ ~Posted /\ ~Requested /\ ~DomainHooked /\ ~ReceiptHooked /\ ~Projected
  <2>1. Passes
    BY <1>4, OtherPasses
  <2> QED BY <1>1, <2>1 DEF Passes, KeptRows
<1> QED BY <1>2, <1>3, <1>4

LEMMA KnownRowsStep ==
    ASSUME Frame, DomainOnce, KnownRows, [Next]_vars
    PROVE  KnownRows'
<1> USE DEF KnownRows
<1>1. AskedRows' /\ HandledLog' /\ HeldRow'
  <2>1. CASE Requested \/ DomainHooked
    <3>1. CASE Finish \/ Abandon
      BY <2>1, <3>1, EndRows
    <3>2. CASE \E rest : Records(rest)
      BY <2>1, <3>2, RecordRows
    <3> QED BY <2>1, <3>1, <3>2, HandlerGoesOn
  <2>2. CASE ReceiptHooked \/ Projected
    BY <2>2, MidRows
  <2>3. CASE Hooked \/ Posted
    BY <2>3, EarlyRows
  <2>4. CASE ~Hooked /\ ~Posted /\ ~Requested /\ ~DomainHooked /\ ~ReceiptHooked /\ ~Projected
    BY <2>4, OtherPasses, PassesRows
  <2> QED BY <2>1, <2>2, <2>3, <2>4
<1>2. ClosedRows'
  <2>1. CASE Crash
    <3>1. rows' = rows /\ stranded' = (stranded \/ turn \/ \E r \in Requests : rows[r].status = "open")
      BY <2>1 DEF Crash, durable
    <3> QED BY <3>1 DEF ClosedRows
  <2>2. CASE Restart \/ UNCHANGED vars
    BY <2>2 DEF Restart, vars, durable, memory, outside, history, ClosedRows
  <2>3. CASE ~Crash /\ ~(Restart \/ UNCHANGED vars)
    <3>1. runtime' = "up"
      <4>1. CASE Provider
        BY <4>1, ProviderIs DEF Tell, Frame
      <4>2. CASE Pipeline
        <5>1. CASE Hooked \/ Posted \/ PostFails \/ Requested \/ DomainHooked
          BY <5>1, HookedIs, PostedIs, PostFailsIs, RequestedIs, DomainHookedIs DEF Frame
        <5>2. CASE ReceiptHooked \/ Projected
          BY <5>2, MidStep DEF Frame
        <5> QED BY <4>2, <5>1, <5>2 DEF Pipeline, Skip, Take, CompactionAsked
      <4> QED BY <2>3, <4>1, <4>2 DEF Next, LatchTimeout, Reconcile
    <3> QED BY <3>1 DEF ClosedRows
  <2> QED BY <2>1, <2>2, <2>3
<1> QED BY <1>1, <1>2, KeptRowsStep

-----------------------------------------------------------------------------
(* The receipt. *)

\* ingestDomainEvent writes what the domain event says.
LEMMA RecordWrites ==
    ASSUME Frame, DomainOnce, HandledLog, Written, cut = {}, NEW rest, Records(rest)
    PROVE  /\ Part'.type \in {"turn.started", "runtime.busy"} => receipt'.state = "running"
           /\ Part'.type \in {"turn.waiting", "runtime.waiting"} =>
                receipt'.state = "waiting" /\ receipt'.request = Now.arg
           /\ Part'.type \in {"turn.ended", "runtime.idle", "runtime.error", "provider.closed"} =>
                receipt'.state \in Quiet
           /\ Part'.type \in {"usage", "item", "thread.compacted"} => receipt' = receipt
<1>1. PICK d : d = Part'
  OBVIOUS
<1>2. receipt' = ReceiptAfter(d) /\ PartOf(Now, d) /\ d \in Piece /\ Now \in Event
  BY <1>1, RecordIs, QueueFacts DEF Records, Frame
<1>3. receipt.state \in States
  BY DEF Frame, StateIs
<1>4. ASSUME d.type \in {"turn.started", "runtime.busy"} PROVE receipt'.state = "running"
  BY <1>2, <1>4 DEF ReceiptAfter, Receipt
<1>5. ASSUME d.type = "turn.waiting" PROVE receipt'.state = "waiting" /\ receipt'.request = Now.arg
  <2>1. d.arg = Now.arg
    BY <1>2, <1>5 DEF PartOf
  <2> QED BY <1>2, <1>5, <2>1 DEF ReceiptAfter, Receipt
<1>6. ASSUME d.type = "runtime.waiting"
      PROVE  receipt'.state = "waiting" /\ receipt'.request = Now.arg
  <2>1. Now.type = "request.opened" /\ d.k = 3
    BY <1>2, <1>6 DEF PartOf
  <2>2. work.at \in Mid /\ Part.k + 1 = 3
    BY <1>1, <2>1, OneByOne
  <2>3. Part \in Piece /\ PartOf(Now, Part)
    BY <2>2, HeadIs DEF Frame, WorkIs, Part
  <2>4. Part.k = 2
    BY <2>2, <2>3 DEF Piece
  <2>5. Part.type = "turn.waiting"
    BY <2>1, <2>3, <2>4 DEF PartOf
  <2>6. receipt.request = Now.arg
    BY <2>2, <2>5 DEF Written
  <2> QED BY <1>2, <1>6, <2>6 DEF ReceiptAfter, Receipt
<1>7. ASSUME d.type = "turn.ended" PROVE receipt'.state \in Quiet
  <2>1. d.arg \in Ends
    BY <1>2, <1>7, EventIs DEF PartOf, Ends
  <2> QED BY <1>2, <1>7, <2>1 DEF ReceiptAfter, Receipt, Quiet
<1>8. ASSUME d.type \in {"runtime.idle", "runtime.error"} PROVE receipt'.state \in Quiet
  BY <1>2, <1>8 DEF ReceiptAfter, Receipt, Quiet, Ends
<1>9. ASSUME d.type = "provider.closed" PROVE receipt'.state \in Quiet
  <2>1. receipt' = IF Active THEN Receipt("interrupted", FALSE, NoRequest) ELSE receipt
    BY <1>2, <1>9 DEF ReceiptAfter, ClosedReceipt
  <2>2. CASE Active
    BY <2>1, <2>2 DEF Receipt, Quiet, Ends
  <2>3. CASE ~Active
    BY <1>3, <2>1, <2>3 DEF Active, States, Quiet
  <2> QED BY <2>2, <2>3
<1>10. ASSUME d.type \in {"usage", "item", "thread.compacted"} PROVE receipt' = receipt
  BY <1>2, <1>10 DEF ReceiptAfter
<1> QED BY <1>1, <1>4, <1>5, <1>6, <1>7, <1>8, <1>9, <1>10

LEMMA WrittenStep ==
    ASSUME Frame, DomainOnce, HandledLog, Written, [Next]_vars
    PROVE  Written'
<1>1. ASSUME NEW rest, Records(rest) PROVE Written'
  <2>1. cut' = cut /\ Now' = Now
    BY <1>1, RecordIs
  <2> QED BY <1>1, <2>1, RecordWrites DEF Written
<1>2. CASE Finish \/ Abandon
  BY <1>2, IdleIs DEF Finish, Abandon, Written
<1>3. CASE ReceiptHooked \/ Projected
  BY <1>3, MidStep DEF Frame, Written, Part, Now, Mid
<1>4. CASE Hooked \/ Posted
  <2>1. work'.at \in Early
    BY <1>4, HookedIs, PostedIs DEF Frame, Early
  <2> QED BY <2>1 DEF Written, Early, Mid
<1>5. CASE ~Hooked /\ ~Posted /\ ~Requested /\ ~DomainHooked /\ ~ReceiptHooked /\ ~Projected
  <2>1. Passes
    BY <1>5, OtherPasses
  <2> QED BY <2>1 DEF Passes, Written, Part, Busy
<1> QED BY <1>1, <1>2, <1>3, <1>4, <1>5, HandlerGoesOn

-----------------------------------------------------------------------------
(* In order. *)

\* The event at hand is the next one.
LEMMA NowIs ==
    ASSUME Frame, NEW n \in Nat, Reached(n), work # Idle
    PROVE  /\ n + 1 \in 1..Len(emitted) /\ Head(queue) = n + 1 /\ Now = emitted[n + 1] /\ Done = n
           /\ Now \in Event /\ runtime = "up" /\ queue # <<>>
<1>1. queue # <<>> /\ runtime = "up" /\ Head(queue) \notin processed
  BY DEF Frame, QueueIs, LogIs
<1>2. Head(queue) = Done + 1 /\ Head(queue) \in 1..Len(emitted) /\ Done \in Nat /\ Now \in Event
  BY <1>1, QueueFacts DEF Frame
<1>3. Done = n
  BY <1>1, <1>2 DEF Reached, Marked
<1> QED BY <1>1, <1>2, <1>3 DEF Now

LEMMA StillReached ==
    ASSUME NEW n \in Nat, Reached(n), UNCHANGED <<emitted, processed, receipt, rows>>,
           ~stranded' => ~stranded, work.at \notin Busy, work'.at \notin Busy,
           runtime' = "up" => Done' <= n
    PROVE  Reached(n)'
<1>1. Marked(n)'
  BY DEF Reached, Marked
<1>2. RowsAt(n)' /\ SteadyAt(n)'
  BY DEF Reached, RowsAt, RowsTell, HasWritten, SteadyAt, Steady, Busy
<1>3. ~stranded' /\ NoStart(n)' => TellsAt(n)'
  BY DEF Reached, NoStart, TellsAt, Reads, Busy
<1> QED BY <1>1, <1>2, <1>3 DEF Reached

LEMMA ReachedTold ==
    ASSUME Frame, NEW n \in Nat, Reached(n), NEW ev, Tell(ev), Says(ev)
    PROVE  Reached(n)'
<1>1. /\ Done' = Done /\ Len(emitted') = Len(emitted) + 1 /\ emitted'[Len(emitted) + 1] = ev
      /\ \A i \in 1..Len(emitted) : emitted'[i] = emitted[i]
      /\ queue # <<>> => Head(queue') = Head(queue) /\ Now' = Now
      /\ Len(emitted) \in Nat
  BY TellIs, QueueFacts DEF Frame
<1>2. UNCHANGED <<work, receipt, rows, processed, runtime>>
  BY DEF Tell
<1>3. n <= Len(emitted) /\ n \in 0..Len(emitted')
  BY <1>1 DEF Reached, Marked
<1>4. /\ TurnAfter(emitted', n) <=> TurnAfter(emitted, n)
      /\ AskedAfter(emitted', n) = AskedAfter(emitted, n)
      /\ UnansweredAfter(emitted', n) = UnansweredAfter(emitted, n)
  BY <1>3, ToldBefore DEF Frame
<1>5. work.at \in Busy => queue # <<>>
  BY IdleIs DEF Frame, QueueIs, Busy
<1>6. Part' = Part /\ (work.at \in Busy => Now' = Now)
  BY <1>1, <1>2, <1>5 DEF Part
<1>7. ASSUME ~stranded', NoStart(n)' PROVE TellsAt(n)'
  <2>1. ev.type # "turn.started"
    BY <1>1, <1>3, <1>7 DEF NoStart
  <2>2. ~stranded
    BY <1>7, <2>1 DEF Says
  <2>3. NoStart(n)
    BY <1>1, <1>7 DEF NoStart
  <2>4. TellsAt(n)
    BY <2>2, <2>3 DEF Reached
  <2>5. Reads(n) => Reads(n)'
    BY <1>2, <1>4 DEF Reads
  <2> QED BY <1>2, <1>6, <2>4, <2>5 DEF TellsAt
<1>8. SteadyAt(n)'
  <2>1. Steady(n) => Steady(n)'
    BY <1>2, <1>4 DEF Steady
  <2> QED BY <1>2, <1>6, <2>1 DEF SteadyAt, Reached
<1>9. RowsAt(n)'
  <2>1. HasWritten' <=> HasWritten
    BY <1>2, <1>6 DEF HasWritten, Busy
  <2>2. RowsTell(n) => RowsTell(n)'
    BY <1>2, <1>4 DEF RowsTell
  <2>3. ASSUME HasWritten, RowsTell(n + 1) PROVE RowsTell(n + 1)'
    <3>1. work # Idle
      BY <2>3, IdleIs DEF HasWritten, Busy
    <3>2. n + 1 \in Nat /\ n + 1 <= Len(emitted)
      BY <1>1, <3>1, NowIs
    <3>3. UnansweredAfter(emitted', n + 1) = UnansweredAfter(emitted, n + 1)
      BY <3>2, ToldBefore DEF Frame
    <3> QED BY <1>2, <2>3, <3>3 DEF RowsTell
  <2> QED BY <2>1, <2>2, <2>3 DEF Reached, RowsAt
<1> QED BY <1>1, <1>2, <1>3, <1>7, <1>8, <1>9 DEF Reached, Marked

\* What the next event changes in what was told.
LEMMA NextIs ==
    ASSUME Frame, Told, NEW n \in Nat, Reached(n), work # Idle
    PROVE  /\ TurnAfter(emitted, n + 1) <=>
                Now.type = "turn.started" \/ (TurnAfter(emitted, n) /\ Now.type \notin Ending)
           /\ \A r \in Requests : r \in AskedAfter(emitted, n + 1) <=>
                \/ Opens(Now, r)
                \/ /\ r \in AskedAfter(emitted, n) /\ ~Resolves(Now, r)
                   /\ Now.type \notin Ending \cup {"turn.started"}
           /\ AskedAfter(emitted, n) \subseteq Requests /\ AskedAfter(emitted, n + 1) \subseteq Requests
           /\ \A r \in Requests : r \in UnansweredAfter(emitted, n + 1) <=>
                Opens(Now, r) \/ (r \in UnansweredAfter(emitted, n) /\ ~Closes(Now, r))
           /\ Now.type \in {"request.opened", "request.resolved"} =>
                TurnAfter(emitted, n + 1) /\ TurnAfter(emitted, n)
           /\ Now.type # "turn.started" /\ NoStart(n + 1) => NoStart(n)
<1>1. Now = emitted[n + 1] /\ n + 1 \in 1..Len(emitted)
  BY NowIs
<1>2. TurnAfter(emitted, n + 1) <=>
        Now.type = "turn.started" \/ (TurnAfter(emitted, n) /\ Now.type \notin Ending)
  BY <1>1, TurnNext
<1>3. ASSUME NEW r \in Requests
      PROVE  r \in AskedAfter(emitted, n + 1) <=>
                \/ Opens(Now, r)
                \/ /\ r \in AskedAfter(emitted, n) /\ ~Resolves(Now, r)
                   /\ Now.type \notin Ending \cup {"turn.started"}
  BY <1>1, AskedNext
<1>4. Now.type \in {"request.opened", "request.resolved"} =>
        TurnAfter(emitted, n + 1) /\ TurnAfter(emitted, n)
  BY <1>1, <1>2 DEF Told
<1>6. ASSUME NEW r \in Requests
      PROVE  r \in UnansweredAfter(emitted, n + 1) <=>
                Opens(Now, r) \/ (r \in UnansweredAfter(emitted, n) /\ ~Closes(Now, r))
  BY <1>1, UnansweredNext
<1>5. ASSUME Now.type # "turn.started", NoStart(n + 1) PROVE NoStart(n)
  <2>1. \A j \in 1..Len(emitted) : j > n => j > n + 1 \/ j = n + 1
    OBVIOUS
  <2> QED BY <1>1, <1>5, <2>1 DEF NoStart
<1> QED BY <1>2, <1>3, <1>4, <1>5, <1>6 DEF AskedAfter

\* A request is opened once: as long as its event is not handled it has no row.
LEMMA OpenedOnce ==
    ASSUME Frame, Told, AskedRows, cut = {}, NEW n \in Nat, Reached(n), work.at = "hook",
           Now.type = "request.opened"
    PROVE  rows[Now.arg].status = "absent"
<1>1. work # Idle /\ work.at \notin Busy
  BY DEF Idle, Busy, Early, Mid
<1>2. Now \in Event /\ Now = emitted[n + 1] /\ n + 1 \in 1..Len(emitted) /\ Now.arg \in Requests
  BY <1>1, NowIs, EventIs
<1> SUFFICES ASSUME rows[Now.arg].status # "absent" PROVE FALSE
  OBVIOUS
<1>3. PICK i \in 1..Len(emitted) : Opens(emitted[i], Now.arg) /\ i \in processed
  BY <1>1, <1>2 DEF AskedRows
<1>4. i = n + 1
  BY <1>2, <1>3 DEF Told, Opens
<1> QED BY <1>3, <1>4 DEF Reached, Marked

\* The row of the request at hand is written, and the log says so.
LEMMA ReachedEarly ==
    ASSUME Frame, DomainOnce, Told, KnownRows, cut = {}, NEW n \in Nat, Reached(n), Hooked \/ Posted
    PROVE  Reached(n)'
<1>1. /\ work.at \notin Mid /\ work'.at \notin Mid /\ work'.at \in Busy /\ work # Idle /\ Now' = Now
      /\ UNCHANGED <<processed, emitted, runtime, queue, stranded, receipt>> /\ Now \in Event
  BY HookedIs, PostedIs DEF Frame, Early, Mid, Busy
<1>2. HasWritten' <=> Now.type \in {"request.opened", "request.resolved"}
  BY <1>1 DEF HasWritten
<1>3. SteadyAt(n)'
  <2>1. Steady(n)
    BY <1>1 DEF Reached, SteadyAt
  <2>2. rows' = rows \/ TurnAfter(emitted, n)
    <3>1. rows' = rows \/ Now.type \in {"request.opened", "request.resolved"}
      BY HookedRows, PostedIs DEF Frame
    <3> QED BY <1>1, <3>1, NextIs
  <2>3. Steady(n)'
    BY <1>1, <2>1, <2>2 DEF Steady
  <2> QED BY <1>1, <2>3 DEF SteadyAt
<1>4. RowsAt(n)'
  <2>1. CASE Posted
    <3>1. /\ HasWritten /\ Now.type = "request.opened"
          /\ \A r \in Requests : rows'[r].status = rows[r].status
      BY <2>1, PostedIs DEF Frame, HasWritten, Early, Busy
    <3>2. RowsTell(n + 1)
      BY <3>1 DEF Reached, RowsAt
    <3> QED BY <1>1, <1>2, <3>1, <3>2 DEF RowsAt, RowsTell
  <2>2. CASE Hooked
    <3>1. work.at = "hook" /\ ~HasWritten
      BY <2>2, HookedIs DEF Frame, HasWritten, Busy, Early, Mid
    <3>2. RowsTell(n)
      BY <3>1 DEF Reached, RowsAt
    <3>3. Now.type = "request.opened" => rows[Now.arg].status = "absent"
      BY <3>1, OpenedOnce DEF KnownRows
    <3>4. CASE Now.type \in {"request.opened", "request.resolved"}
      <4>1. \A r \in Requests : r # Now.arg => rows'[r] = rows[r]
        BY <2>2, HookedRows
      <4>2. /\ Now.type = "request.opened" => rows'[Now.arg].status = "open"
            /\ Now.type = "request.resolved" => rows'[Now.arg].status # "open"
        BY <2>2, <3>3, <3>4, HookedRows
      <4>3. \A r \in Requests : r \in UnansweredAfter(emitted, n + 1) <=>
              Opens(Now, r) \/ (r \in UnansweredAfter(emitted, n) /\ ~Closes(Now, r))
        BY <1>1, NextIs
      <4>4. ASSUME NEW r \in Requests
            PROVE  rows'[r].status = "open" <=> r \in UnansweredAfter(emitted, n + 1)
        <5>1. CASE r = Now.arg
          BY <3>4, <4>2, <4>3, <5>1 DEF Opens, Closes
        <5>2. CASE r # Now.arg
          <6>1. ~Opens(Now, r) /\ ~Closes(Now, r)
            BY <3>4, <5>2 DEF Opens, Closes
          <6> QED BY <3>2, <4>1, <4>3, <5>2, <6>1 DEF RowsTell
        <5> QED BY <5>1, <5>2
      <4> QED BY <1>1, <1>2, <3>4, <4>4 DEF RowsAt, RowsTell
    <3>5. CASE Now.type \notin {"request.opened", "request.resolved"}
      <4>1. rows' = rows
        BY <2>2, <3>5, HookedRows
      <4> QED BY <1>1, <1>2, <3>2, <3>5, <4>1 DEF RowsAt, RowsTell
    <3> QED BY <3>4, <3>5
  <2> QED BY <2>1, <2>2
<1>5. ~stranded /\ NoStart(n) => TellsAt(n)'
  BY <1>1 DEF Reached, TellsAt, Reads
<1>6. Done' = Done /\ (NoStart(n)' <=> NoStart(n))
  BY <1>1 DEF Done, NoStart
<1> QED BY <1>1, <1>3, <1>4, <1>5, <1>6 DEF Reached, Marked

LEMMA ReachedRecord ==
    ASSUME Frame, DomainOnce, KnownRows, Written, cut = {}, NEW n \in Nat, Reached(n),
           Requested \/ DomainHooked, NEW rest, Records(rest)
    PROVE  Reached(n)'
<1>1. /\ work'.at = "receipt" /\ work'.at \in Mid /\ Now' = Now /\ Now \in Event /\ work.at \in Busy
      /\ UNCHANGED <<queue, processed, emitted, runtime, stranded, rows>>
  BY RecordIs, QueueFacts, RequestedIs, DomainHookedIs DEF Mid, Early, Busy, Records, Frame
<1>2. Part'.type \in Asides =>
        receipt' = receipt /\ PartOf(Now, Part') /\ Part'.k = 1
  <2>1. PICK d : d = Part'
    OBVIOUS
  <2>2. PartOf(Now, d) /\ (d.type \in Asides => receipt' = receipt)
    BY <2>1, RecordIs, RecordWrites DEF KnownRows, Asides
  <2>3. d.type \in Asides => d.k = 1
    BY <2>2 DEF PartOf, Asides
  <2> QED BY <2>1, <2>2, <2>3
<1>3. work.at \in Mid => Part.k \in 1..3 /\ Part'.k = Part.k + 1
  <2>1. ASSUME work.at \in Mid PROVE Part \in Piece
    BY <2>1, HeadIs DEF Frame, WorkIs, Part
  <2> QED BY <2>1, OneByOne DEF Piece, KnownRows
<1>4. work.at \notin Mid => Part'.k = 1
  BY OneByOne DEF KnownRows
<1>5. Part'.type \in Asides => work.at \notin Mid
  BY <1>2, <1>3
<1>6. ASSUME ~stranded, NoStart(n) PROVE TellsAt(n)'
  <2>1. TellsAt(n)
    BY <1>6 DEF Reached
  <2> QED BY <1>1, <1>2, <1>5, <2>1 DEF TellsAt, Reads
<1>7. SteadyAt(n)'
  <2>1. SteadyAt(n)
    BY DEF Reached
  <2> QED BY <1>1, <1>2, <1>5, <2>1 DEF SteadyAt, Steady
<1>8. RowsAt(n)'
  <2>1. HasWritten' <=> HasWritten
    <3>1. CASE Requested
      <4>1. work.at \notin Mid
        BY <3>1, RequestedIs DEF Frame, Mid
      <4> QED BY <1>1, <1>4, <4>1 DEF HasWritten, Busy
    <3>2. CASE DomainHooked
      <4>1. work.at = "domain" /\ work.at \in Mid
        BY <3>2, DomainHookedIs DEF Frame, Mid
      <4>2. Part'.k # 1
        BY <1>3, <4>1
      <4> QED BY <1>1, <4>1, <4>2 DEF HasWritten, Busy
    <3> QED BY <3>1, <3>2
  <2> QED BY <1>1, <2>1 DEF Reached, RowsAt, RowsTell
<1>9. Done' = Done
  BY <1>1 DEF Done
<1> QED BY <1>1, <1>6, <1>7, <1>8, <1>9 DEF Reached, Marked, NoStart

LEMMA ReachedMid ==
    ASSUME Frame, Told, HeldRow, NEW n \in Nat, Reached(n), ReceiptHooked \/ Projected
    PROVE  Reached(n)'
<1>1. /\ work.at \in Mid /\ work'.at \in Mid /\ Part' = Part /\ Now' = Now /\ work # Idle
      /\ UNCHANGED <<queue, processed, emitted, runtime, stranded, receipt>> /\ Now \in Event
      /\ PartOf(Now, Part) /\ work.at = IF ReceiptHooked THEN "receipt" ELSE "projecting"
      /\ work'.at = IF ReceiptHooked THEN "projecting" ELSE "domain"
  BY MidStep DEF Frame, Mid, Part, Now
<1>2. rows \in [Requests -> Rows]
  BY DEF Frame, StateIs
<1>3. TellsAt(n) => TellsAt(n)'
  BY <1>1 DEF TellsAt, Reads
<1>4. SteadyAt(n)'
  <2>1. ASSUME Part.type \in Asides PROVE rows' = rows
    <3>1. /\ Part.type \notin {"request.opened", "request.resolved"}
          /\ Now.type \notin {"turn.completed", "turn.aborted"}
      BY <1>1, <2>1 DEF PartOf, Asides
    <3> QED BY <3>1, MidRowsAre
  <2> QED BY <1>1, <2>1 DEF Reached, SteadyAt, Steady
<1>5. RowsAt(n)'
  <2>1. CASE ReceiptHooked /\ ClosesAll(Now) /\ Part.k = 1
    <3>1. HasWritten' /\ \A r \in Requests : rows'[r].status # "open"
      BY <1>1, <2>1, MidRowsAre DEF HasWritten
    <3>2. \A r \in Requests : Closes(Now, r) /\ ~Opens(Now, r)
      BY <2>1 DEF ClosesAll, Closes, Opens
    <3>3. \A r \in Requests : r \notin UnansweredAfter(emitted, n + 1)
      BY <1>1, <3>2, NextIs
    <3> QED BY <1>1, <3>1, <3>3 DEF RowsAt, RowsTell
  <2>2. CASE ~(ReceiptHooked /\ ClosesAll(Now) /\ Part.k = 1)
    <3>1. HasWritten' <=> HasWritten
      BY <1>1, <2>2 DEF HasWritten, Busy
    <3>2. \A r \in Requests : rows'[r].status = rows[r].status
      <4>1. CASE rows' = rows
        BY <4>1
      <4>2. CASE rows' # rows
        <5>1. Projected /\ Part.type \in {"request.opened", "request.resolved"}
          BY <2>2, <4>2, MidRowsAre
        <5>2. /\ Now.arg \in Requests /\ rows' = [rows EXCEPT ![Now.arg] = Part.row]
              /\ rows'[Now.arg].status = rows[Now.arg].status
          BY <1>1, <5>1, MidRowsAre DEF HeldRow
        <5> QED BY <1>2, <5>2
      <4> QED BY <4>1, <4>2
    <3> QED BY <1>1, <3>1, <3>2 DEF Reached, RowsAt, RowsTell
  <2> QED BY <2>1, <2>2
<1>6. Done' = Done /\ (NoStart(n)' <=> NoStart(n))
  BY <1>1 DEF Done, NoStart
<1> QED BY <1>1, <1>3, <1>4, <1>5, <1>6 DEF Reached, Marked

\* The event had no domain events: its request is long known or was never, or the
\* closed session had nothing under way.
LEMMA EmptyTells ==
    ASSUME Frame, DomainOnce, Told, KnownRows, cut = {}, NEW n \in Nat, Reached(n), Requested, Finish
    PROVE  /\ Steady(n + 1) /\ RowsTell(n + 1) /\ receipt' = receipt /\ rows' = rows
           /\ ~stranded /\ NoStart(n + 1) => Reads(n + 1)
<1>1. /\ work # Idle /\ work.at \notin Mid /\ work.at \in Busy /\ work.at \in Early /\ Now \in Event
      /\ StateIs /\ FoundIs /\ receipt' = receipt /\ rows' = rows
  BY RequestedIs DEF Frame, Mid, Early, Busy, Finish
<1>2. Left(Full) = <<>>
  <2>1. work'.at \notin Mid /\ cut' = cut
    BY IdleIs DEF Finish
  <2>2. ~Abandon
    BY <2>1 DEF Abandon
  <2>3. ~Record(Left(Full))
    BY <2>1 DEF Record, Mid
  <2> QED BY <2>2, <2>3, RequestedIs DEF Frame
<1>3. found \in Rows /\ (found # NoRow /\ Now.type = "request.opened" => found.status = "open")
      /\ (found # NoRow /\ Now.type = "request.resolved" => found.status = "resolved")
  BY <1>1 DEF FoundIs, StateIs
<1>4. ASSUME Suffix(Now, Full), Len(Full) = Count(Now) PROVE FALSE
  <2>1. 1 \in 1..Len(Full)
    BY <1>4, CountIs
  <2>2. ~IsNew(Full[1])
    BY <1>2, <1>4, <2>1, LeftOf
  <2> QED BY <1>1, <2>2, NewIs, NothingYet DEF KnownRows
<1>5. \/ Now.type \in {"request.opened", "request.resolved"} /\ found = NoRow
      \/ Now.type = "closed" /\ ~Active
  BY <1>1, <1>3, <1>4, DomainEventsAre DEF Full
<1>6. Steady(n) /\ (~stranded /\ NoStart(n) => Reads(n))
  BY <1>1 DEF Reached, SteadyAt, TellsAt
<1>7. Now.type \in {"request.opened", "request.resolved"} => RowsTell(n + 1) /\ HasWritten
  BY <1>1 DEF Reached, RowsAt, HasWritten
<1>8. CASE Now.type = "request.opened"
  <2>1. rows[Now.arg].status = "resolved" /\ Now.arg \in Requests
    BY <1>1, <1>5, <1>8, EventIs DEF FoundIs
  <2>2. Now.arg \in UnansweredAfter(emitted, n + 1)
    BY <1>1, <1>8, <2>1, NextIs DEF Opens
  <2> QED BY <1>7, <1>8, <2>1, <2>2 DEF RowsTell
<1>9. CASE Now.type = "request.resolved"
  <2>1. TurnAfter(emitted, n + 1) /\ TurnAfter(emitted, n)
    BY <1>1, <1>9, NextIs
  <2>2. Steady(n + 1)
    BY <1>6, <2>1 DEF Steady
  <2>3. ASSUME ~stranded, NoStart(n + 1) PROVE Reads(n + 1)
    <3>1. Reads(n)
      BY <1>1, <1>6, <1>9, <2>3, NextIs
    <3>2. Now.arg \notin AskedAfter(emitted, n)
      <4>1. rows[Now.arg].status = "absent" /\ Now.arg \in Requests
        BY <1>1, <1>5, <1>9, EventIs DEF FoundIs
      <4>2. \A i \in 1..n : ~Opens(emitted[i], Now.arg)
        BY <4>1 DEF KnownRows, KeptRows, Reached, Marked
      <4> QED BY <4>2 DEF AskedAfter
    <3>3. \A r \in AskedAfter(emitted, n) : r \in AskedAfter(emitted, n + 1)
      BY <1>1, <1>9, <3>2, NextIs DEF Resolves, Ending
    <3> QED BY <2>1, <3>1, <3>3 DEF Reads
  <2> QED BY <1>1, <1>7, <1>9, <2>2, <2>3
<1>10. CASE Now.type = "closed" /\ ~Active
  <2>1. ~TurnAfter(emitted, n + 1)
    BY <1>1, <1>10, NextIs DEF Ending, Opens
  <2>2. receipt.state \in Quiet /\ receipt.state # "waiting"
    BY <1>1, <1>10 DEF Active, StateIs, States, Quiet, Ends
  <2>3. RowsTell(n + 1)
    <3>1. ~HasWritten
      BY <1>1, <1>10 DEF HasWritten
    <3>2. \A r \in Requests : ~Opens(Now, r) /\ ~Closes(Now, r)
      BY <1>10 DEF Opens, Closes
    <3> QED BY <1>1, <3>1, <3>2, NextIs DEF Reached, RowsAt, RowsTell
  <2> QED BY <1>1, <2>1, <2>2, <2>3 DEF Reads, Steady
<1> QED BY <1>5, <1>8, <1>9, <1>10

\* The handler is through with its last domain event.
LEMMA LastPart ==
    ASSUME Frame, DomainOnce, HandledLog, cut = {}, DomainHooked, Finish
    PROVE  /\ work.at \in Mid /\ work # Idle /\ PartOf(Now, Part) /\ Part.k = Count(Now)
           /\ rows' = rows /\ receipt' = receipt
<1>1. /\ work.at \in Mid /\ work # Idle /\ rows' = rows /\ receipt' = receipt /\ Now \in Event
      /\ Suffix(Now, work.rest) /\ work.rest # <<>>
  BY DomainHookedIs DEF Frame, Mid, Finish
<1>2. Left(Tail(work.rest)) = <<>>
  <2>1. work'.at \notin Mid
    BY IdleIs DEF Finish
  <2>2. ~Record(Left(Tail(work.rest)))
    BY <2>1 DEF Record, Mid
  <2> QED BY <2>2, DomainHookedIs DEF Frame
<1>3. /\ Part \in Piece /\ PartOf(Now, Part) /\ Part.k = Count(Now) - Len(work.rest) + 1
      /\ Len(work.rest) > 0 /\ Part.k \in 1..3
  BY <1>1, HeadIs DEF Part, Piece
<1>4. Suffix(Now, Tail(work.rest)) /\ Len(Tail(work.rest)) = Len(work.rest) - 1
  BY <1>1, SuffixTail
<1>5. Len(work.rest) \in Nat /\ Count(Now) \in 1..3
  BY <1>1, CountIs DEF Suffix
<1>6. ASSUME Len(work.rest) > 1 PROVE FALSE
  <2>1. 1 \in 1..Len(Tail(work.rest))
    BY <1>4, <1>5, <1>6
  <2>2. PICK d : d = Tail(work.rest)[1]
    OBVIOUS
  <2>3. ~IsNew(d) /\ d.k = Part.k + 1
    <3>1. ~IsNew(Tail(work.rest)[1])
      BY <1>2, <1>4, <2>1, LeftOf
    <3>2. d.k = Count(Now) - Len(Tail(work.rest)) + 1
      BY <1>4, <2>1, <2>2 DEF Suffix
    <3>3. d.k = Part.k + 1
      BY ONLY <1>3, <1>4, <1>5, <3>2
    <3> QED BY <2>2, <3>1, <3>3
  <2>4. PICK x \in domain : x.event = Head(queue) /\ x.k = d.k
    BY <2>3, NewIs DEF Recorded
  <2>5. x.k <= Part.k
    BY <1>1, <2>4 DEF HandledLog, Frame, LogIs
  <2> QED BY <1>3, <2>3, <2>4, <2>5
<1>7. Part.k = Count(Now)
  BY <1>3, <1>5, <1>6
<1> QED BY <1>1, <1>3, <1>7

\* With its last domain event, the receipt and the rows tell what the event says.
LEMMA LastTells ==
    ASSUME Frame, DomainOnce, Told, KnownRows, Written, cut = {}, NEW n \in Nat, Reached(n),
           DomainHooked, Finish
    PROVE  /\ Steady(n + 1) /\ RowsTell(n + 1)
           /\ ~stranded /\ NoStart(n + 1) => Reads(n + 1)
<1>1. /\ work.at = "domain" /\ work.at \in Mid /\ work # Idle /\ PartOf(Now, Part)
      /\ Part.k = Count(Now) /\ Now \in Event
  BY LastPart, DomainHookedIs, NowIs DEF KnownRows, Frame
<1> DEFINE A == AskedAfter(emitted, n)
           B == AskedAfter(emitted, n + 1)
           T == TurnAfter(emitted, n)
           U == TurnAfter(emitted, n + 1)
           Clear == ~stranded /\ NoStart(n + 1)
<1>2. /\ U <=> Now.type = "turn.started" \/ (T /\ Now.type \notin Ending)
      /\ \A r \in Requests : r \in B <=>
           \/ Opens(Now, r)
           \/ r \in A /\ ~Resolves(Now, r) /\ Now.type \notin Ending \cup {"turn.started"}
      /\ A \subseteq Requests /\ B \subseteq Requests
      /\ Now.type \in {"request.opened", "request.resolved"} => U
  BY <1>1, NextIs
<1>3. /\ Part.type \in Asides => Steady(n)
      /\ Clear /\ Now.type # "turn.started" /\ Part.type \in Asides => Reads(n)
  BY <1>1, NextIs DEF Reached, SteadyAt, TellsAt
<1>4. /\ Reads(n) <=> /\ receipt.state \in Quiet <=> ~T
                      /\ receipt.state = "waiting" => receipt.request \in A
      /\ Reads(n + 1) <=> /\ receipt.state \in Quiet <=> ~U
                          /\ receipt.state = "waiting" => receipt.request \in B
  BY DEF Reads
<1>5. /\ Steady(n) <=> /\ T => receipt.state \notin Quiet
                       /\ receipt.state \notin Quiet /\ ~T =>
                            receipt.state = "waiting" /\ rows[receipt.request].status = "open"
      /\ Steady(n + 1) <=> /\ U => receipt.state \notin Quiet
                           /\ receipt.state \notin Quiet /\ ~U =>
                                receipt.state = "waiting" /\ rows[receipt.request].status = "open"
  BY DEF Steady
<1>6. RowsTell(n + 1)
  <2>1. CASE HasWritten
    BY <2>1 DEF Reached, RowsAt
  <2>2. CASE ~HasWritten
    <3>1. Now.type \notin {"request.opened", "request.resolved"} /\ ~ClosesAll(Now)
      BY <1>1, <2>2 DEF HasWritten, Busy
    <3>2. \A r \in Requests : ~Opens(Now, r) /\ ~Closes(Now, r)
      BY <3>1 DEF Opens, Closes, ClosesAll
    <3> QED BY <1>1, <2>2, <3>2, NextIs DEF Reached, RowsAt, RowsTell
  <2> QED BY <2>1, <2>2
<1> HIDE DEF A, B, T, U, Clear
<1>7. /\ Part.type \in {"turn.started", "runtime.busy"} => receipt.state = "running"
      /\ Part.type \in {"turn.waiting", "runtime.waiting"} =>
           receipt.state = "waiting" /\ receipt.request = Now.arg
      /\ Part.type \in {"turn.ended", "runtime.idle", "runtime.error", "provider.closed"} =>
           receipt.state \in Quiet
  BY <1>1 DEF Written
<1>8. "running" \notin Quiet /\ "waiting" \notin Quiet
  BY DEF Quiet, Ends
<1>9. Steady(n + 1) /\ (Clear => Reads(n + 1))
  <2>1. CASE Now.type \in {"turn.started", "request.resolved"}
    <3>1. Part.type = "runtime.busy"
      BY <1>1, <2>1 DEF PartOf, Count
    <3> QED BY <1>2, <1>4, <1>5, <1>7, <1>8, <2>1, <3>1
  <2>2. CASE Now.type = "request.opened"
    <3>1. Part.type = "runtime.waiting"
      BY <1>1, <2>2 DEF PartOf, Count
    <3>2. Now.arg \in B /\ U
      BY <1>1, <1>2, <2>2, EventIs DEF Opens
    <3> QED BY <1>4, <1>5, <1>7, <1>8, <3>1, <3>2
  <2>3. CASE Now.type \in Ending
    <3>1. Part.type \in {"turn.ended", "runtime.idle", "runtime.error", "provider.closed"}
      BY <1>1, <2>3 DEF PartOf, Count, Ending
    <3>2. ~U
      BY <1>2, <2>3 DEF Ending
    <3> QED BY <1>4, <1>5, <1>7, <1>8, <3>1, <3>2
  <2>4. CASE Now.type \in {"usage", "item", "compacted"}
    <3>1. Part.type \in Asides /\ Now.type # "turn.started"
      BY <1>1, <2>4 DEF PartOf, Asides
    <3>2. A = B /\ (T <=> U)
      <4>1. \A r \in Requests : r \in B <=> r \in A
        BY <1>2, <2>4 DEF Opens, Resolves, Ending
      <4> QED BY <1>2, <2>4, <4>1 DEF Ending
    <3> QED BY <1>3, <1>4, <1>5, <3>1, <3>2
  <2> QED BY <1>1, <2>1, <2>2, <2>3, <2>4, EventIs DEF Ending
<1> QED BY <1>6, <1>9 DEF Clear

\* The event is marked: the receipt tells of one event more.
LEMMA ReachedNext ==
    ASSUME Frame, DomainOnce, Told, KnownRows, Written, cut = {}, NEW n \in Nat, Reached(n),
           Requested \/ DomainHooked, Finish
    PROVE  Reached(n + 1)'
<1>1. /\ work # Idle /\ queue # <<>> /\ runtime = "up"
      /\ UNCHANGED <<emitted, stranded, runtime>>
  BY RequestedIs, DomainHookedIs DEF Frame
<1>2. /\ work' = Idle /\ work'.at \notin Mid /\ work'.at \notin Busy /\ queue' = Tail(queue)
      /\ processed' = processed \cup {Head(queue)}
  BY IdleIs DEF Finish, Processed, Busy
<1>3. n + 1 \in 1..Len(emitted) /\ Head(queue) = n + 1 /\ Done = n
  BY <1>1, NowIs
<1>4. Done' = n + 1
  BY <1>1, <1>2, <1>3, PopIs DEF Frame
<1>5. processed' = 1..(n + 1)
  BY <1>2, <1>3 DEF Reached, Marked
<1>6. /\ Steady(n + 1) /\ RowsTell(n + 1) /\ receipt' = receipt /\ rows' = rows
      /\ ~stranded /\ NoStart(n + 1) => Reads(n + 1)
  <2>1. CASE Requested
    BY <2>1, EmptyTells
  <2>2. CASE DomainHooked
    BY <2>2, LastTells, LastPart DEF KnownRows
  <2> QED BY <2>1, <2>2
<1>7. RowsAt(n + 1)' /\ SteadyAt(n + 1)'
  BY <1>1, <1>2, <1>6 DEF RowsAt, RowsTell, HasWritten, Busy, SteadyAt, Steady
<1>8. ~stranded' /\ NoStart(n + 1)' => TellsAt(n + 1)'
  BY <1>1, <1>2, <1>6 DEF NoStart, TellsAt, Reads
<1> QED BY <1>1, <1>3, <1>4, <1>5, <1>7, <1>8 DEF Reached, Marked

\* What is delivered again begins no later than what was not marked; a receipt that
\* is rebuilt waits for an open request.
LEMMA ReachedReconcile ==
    ASSUME Frame, ClosedRows, NEW n \in Nat, Reached(n), Reconcile, Clean'
    PROVE  Reached(n)'
<1>1. /\ runtime = "recovering" /\ work = Idle /\ work' = Idle /\ receipt' = Rebuilt
      /\ behind' = behind \cup (DOMAIN emitted \ (processed \cup ToSet(queue')))
      /\ UNCHANGED <<emitted, processed, rows, stranded>>
      /\ work.at \notin Busy /\ work'.at \notin Busy
  BY IdleIs DEF Reconcile, outside, Frame, QueueIs, Busy
<1>2. Done' <= n
  <2>1. /\ Done' \in Nat /\ Done' <= Len(emitted) /\ Len(emitted) \in Nat
        /\ \A id \in 1..Len(emitted) : id \in ToSet(queue') <=> id > Done'
    BY Redelivers, QueueFacts DEF Frame
  <2>2. PICK d \in Nat : d = Done'
    BY <2>1
  <2>3. CASE d = 0
    BY <2>2, <2>3
  <2>4. CASE d # 0
    <3>1. d \in 1..Len(emitted) /\ d \notin ToSet(queue')
      BY <2>1, <2>2, <2>4
    <3>2. d \in DOMAIN emitted
      BY <3>1 DEF Frame, QueueIs
    <3>3. d \in processed
      BY <1>1, <3>1, <3>2 DEF Clean
    <3> QED BY <2>2, <3>3 DEF Reached, Marked
  <2> QED BY <2>3, <2>4
<1>3. CASE Stale = {}
  <2>1. receipt' = receipt
    BY <1>1, <1>3 DEF Rebuilt
  <2> QED BY <1>1, <1>2, <2>1, StillReached
<1>4. CASE Stale # {}
  <2>1. PICK r \in Stale : receipt' = Receipt("waiting", TRUE, r)
    BY <1>1, <1>4 DEF Rebuilt
  <2>2. receipt'.state = "waiting" /\ rows'[receipt'.request].status = "open"
    BY <1>1, <2>1 DEF Receipt, Stale
  <2>3. stranded'
    BY <1>1, <1>4 DEF ClosedRows, Stale
  <2>4. Marked(n)' /\ RowsAt(n)'
    BY <1>1, <1>2 DEF Reached, Marked, RowsAt, RowsTell, HasWritten, Busy
  <2>5. SteadyAt(n)'
    BY <1>1, <2>2 DEF SteadyAt, Steady, Busy, Quiet, Ends
  <2> QED BY <2>3, <2>4, <2>5 DEF Reached
<1> QED BY <1>3, <1>4

LEMMA CleanBefore == ASSUME Frame, DomainOnce, [Next]_vars, Clean' PROVE Clean
<1>1. CASE \E rest : Records(rest)
  BY <1>1, RecordIs DEF Clean
<1>2. CASE Projected
  BY <1>2 DEF Projected, history, Clean
<1>3. CASE Silently
  BY <1>3 DEF Silently, Clean
<1> QED BY <1>1, <1>2, <1>3, StepKinds

LEMMA InOrderStep ==
    ASSUME Frame, DomainOnce, Receipts, [Next]_vars
    PROVE  InOrder'
<1> SUFFICES ASSUME Clean' PROVE \E n \in Nat : Reached(n)'
  BY DEF InOrder
<1> USE DEF Receipts
<1>1. Clean /\ cut = {} /\ cut' = {}
  BY CleanBefore DEF Clean
<1>2. PICK n \in Nat : Reached(n)
  BY <1>1 DEF InOrder
<1>3. CASE Provider
  <2>1. PICK ev \in Event : Tell(ev) /\ Says(ev)
    BY <1>3, ProviderSays DEF Frame
  <2> QED BY <1>2, <2>1, ReachedTold
<1>4. CASE Requested \/ DomainHooked
  <2>1. CASE \E rest : Records(rest)
    BY <1>1, <1>2, <1>4, <2>1, ReachedRecord
  <2>2. CASE Finish
    <3>1. n + 1 \in Nat /\ Reached(n + 1)'
      BY <1>1, <1>2, <1>4, <2>2, ReachedNext
    <3> QED BY <3>1
  <2>3. CASE Abandon
    BY <1>1, <2>3 DEF Abandon
  <2> QED BY <1>4, <2>1, <2>2, <2>3, HandlerGoesOn
<1>5. CASE ReceiptHooked \/ Projected
  BY <1>2, <1>5, ReachedMid DEF KnownRows
<1>6. CASE Hooked \/ Posted
  BY <1>1, <1>2, <1>6, ReachedEarly
<1>7. CASE PostFails
  <2>1. Abandon
    BY <1>7 DEF PostFails
  <2> QED BY <1>1, <2>1 DEF Abandon
<1>8. CASE Skip
  <2>1. /\ UNCHANGED <<emitted, processed, receipt, rows, stranded>> /\ work = Idle /\ work' = Idle
        /\ queue # <<>> /\ Head(queue) \in processed
    BY <1>8 DEF Skip, Skips, durable, outside, history
  <2>2. Done' = Head(queue)
    BY <1>8, SkipFrame
  <2>3. Done' <= n
    BY <1>2, <2>1, <2>2 DEF Reached, Marked
  <2>4. work.at \notin Busy /\ work'.at \notin Busy
    BY <2>1, IdleIs DEF Busy
  <2> QED BY <1>2, <2>1, <2>3, <2>4, StillReached
<1>9. CASE Take
  <2>1. /\ UNCHANGED <<emitted, processed, receipt, rows, stranded, queue, runtime>>
        /\ work.at \notin Busy /\ work'.at \notin Busy
    BY <1>9, IdleIs DEF Take, Mid, Early, Busy
  <2>2. Done' = Done
    BY <2>1 DEF Done
  <2>3. runtime' = "up" => Done' <= n
    BY <1>2, <2>1, <2>2 DEF Reached, Marked
  <2> QED BY <1>2, <2>1, <2>3, StillReached
<1>10. ASSUME NEW accepted \in BOOLEAN, CompactionAsked(accepted) PROVE \E m \in Nat : Reached(m)'
  <2>1. /\ UNCHANGED <<emitted, processed, receipt, rows, stranded, queue, runtime>>
        /\ work.at \notin Busy /\ work'.at \notin Busy
    <3>1. work'.at = "hook" /\ work.at = "compacting"
      BY <1>10 DEF CompactionAsked, Frame, WorkIs
    <3> QED BY <1>10, <3>1 DEF CompactionAsked, durable, history, Mid, Early, Busy
  <2>2. Done' = Done
    BY <2>1 DEF Done
  <2>3. runtime' = "up" => Done' <= n
    BY <1>2, <2>1, <2>2 DEF Reached, Marked
  <2> QED BY <1>2, <2>1, <2>3, StillReached
<1>11. CASE Crash
  <2>1. /\ UNCHANGED <<emitted, processed, receipt, rows>> /\ runtime' = "down" /\ work' = Idle
        /\ stranded' = (stranded \/ turn \/ \E r \in Requests : rows[r].status = "open")
        /\ cut' = IF work = Idle THEN cut ELSE cut \cup {Head(queue)}
    BY <1>11 DEF Crash, durable
  <2>2. work = Idle
    BY <1>1, <2>1
  <2>3. work.at \notin Busy /\ work'.at \notin Busy
    BY <2>1, <2>2, IdleIs DEF Busy
  <2> QED BY <1>2, <2>1, <2>3, StillReached
<1>12. CASE Reconcile
  BY <1>2, <1>12, ReachedReconcile DEF KnownRows
<1>13. CASE Restart \/ LatchTimeout \/ UNCHANGED vars
  <2>1. /\ UNCHANGED <<emitted, processed, receipt, rows, work, queue, stranded>>
        /\ runtime' = runtime \/ runtime' = "recovering"
    BY <1>13 DEF Restart, LatchTimeout, vars, durable, memory, outside, history
  <2>2. Part' = Part /\ Now' = Now /\ Done' = Done
    BY <2>1 DEF Part, Now, Done
  <2>3. Marked(n)'
    BY <1>2, <2>1, <2>2 DEF Reached, Marked
  <2>4. RowsAt(n)' /\ SteadyAt(n)'
    BY <1>2, <2>1, <2>2 DEF Reached, RowsAt, RowsTell, HasWritten, SteadyAt, Steady
  <2>5. ~stranded' /\ NoStart(n)' => TellsAt(n)'
    BY <1>2, <2>1, <2>2 DEF Reached, NoStart, TellsAt, Reads
  <2> QED BY <2>3, <2>4, <2>5 DEF Reached
<1> QED BY <1>3, <1>4, <1>5, <1>8, <1>9, <1>10, <1>11, <1>12, <1>13, <1>6, <1>7 DEF Next, Pipeline

LEMMA InitReceipts == Init => Receipts
<1> SUFFICES ASSUME Init PROVE Receipts
  OBVIOUS
<1>1. emitted = <<>> /\ Len(emitted) = 0 /\ work.at \notin Mid /\ work.at \notin Busy
  BY IdleIs DEF Init, Busy
<1>2. Told
  <2>1. ~TurnAfter(emitted, 0) /\ AskedAfter(emitted, 0) = {}
    BY DEF TurnAfter, AskedAfter
  <2>2. turn = FALSE /\ asked = {} /\ stranded = FALSE
    BY DEF Init
  <2>3. 0 <= MaxEvents /\ 1..Len(emitted) = {}
    BY <1>1, EventBounds
  <2> QED BY <1>1, <2>1, <2>2, <2>3 DEF Told
<1>3. KnownRows
  BY <1>1, NoRowIs DEF Init, KnownRows, AskedRows, HandledLog, ClosedRows, HeldRow, KeptRows
<1>4. Written
  BY <1>1 DEF Written
<1>5. Reached(0)
  <2>1. /\ ~TurnAfter(emitted, 0) /\ AskedAfter(emitted, 0) = {}
        /\ UnansweredAfter(emitted, 0) = {}
    BY DEF TurnAfter, AskedAfter, UnansweredAfter
  <2>2. receipt.state = "idle" /\ receipt.state \in Quiet /\ \A r \in Requests : rows[r].status # "open"
    BY NoRowIs DEF Init, Quiet
  <2>3. Marked(0)
    BY <1>1 DEF Init, Marked, Done
  <2>4. RowsAt(0)
    BY <1>1, <2>1, <2>2 DEF RowsAt, RowsTell, HasWritten, Busy
  <2>5. Reads(0) /\ Steady(0)
    BY <2>1, <2>2 DEF Reads, Steady
  <2> QED BY <1>1, <2>3, <2>4, <2>5 DEF Reached, SteadyAt, TellsAt
<1> QED BY <1>2, <1>3, <1>4, <1>5 DEF Receipts, InOrder

\* The strengthening of EffectsOnce and ReceiptSound: the invariant that carries
\* both along every step of the provider, the handler, a crash and a recovery.
THEOREM Invariance == Spec => []IInv
<1>1. Init => IInv
  BY InitEffects, InitReceipts DEF IInv, EffectsInv
<1>2. IInv /\ [Next]_vars => IInv'
  <2> SUFFICES ASSUME IInv, [Next]_vars PROVE IInv'
    OBVIOUS
  <2> USE DEF IInv, Receipts
  <2>1. Frame' /\ Effects'
    BY EffectsStep DEF EffectsInv
  <2>2. Told' /\ KnownRows' /\ InOrder'
    BY ToldStep, KnownRowsStep, InOrderStep DEF Effects
  <2>3. Written'
    BY WrittenStep DEF Effects, KnownRows
  <2> QED BY <2>1, <2>2, <2>3
<1> QED BY <1>1, <1>2, PTL DEF Spec

\* Once the events are handled, and none was cut or left behind: a request has an
\* open row exactly while the log says that nobody resolved it and no turn's end
\* closed it; the receipt of the thread is busy while the log has a turn that has
\* not ended, and else only with an open request; and, but for a crash in a turn,
\* it is quiet exactly when no turn runs at the provider, and waits only for a
\* request the provider waits for (ingestDomainEvent, the projector, the recovery,
\* and the graceful shutdown that reads the receipt).
THEOREM ReceiptRight == Spec => []ReceiptSound
<1>1. IInv => ReceiptSound
  <2> SUFFICES ASSUME IInv PROVE ReceiptSound
    OBVIOUS
  <2> USE DEF IInv, Frame, Receipts
  <2>1. TypeOK
    <3>1. queue \in Seq(Ids)
      <4>1. \A i \in 1..Len(queue) : queue[i] \in Ids
        <5>1. Len(emitted) <= MaxEvents /\ MaxEvents \in Nat
          BY EventBounds DEF Told
        <5> QED BY <5>1, QueueFacts DEF QueueIs, Ids, Done
      <4> QED BY <4>1 DEF QueueIs
    <3>2. work.at \in Stages /\ (work.at \in Mid <=> work.rest # <<>>)
      BY DEF WorkIs
    <3> QED BY <3>1, <3>2 DEF TypeOK, QueueIs, LogIs, StateIs, Stages, Early, Mid
  <2>2. ASSUME Settled PROVE ReceiptTells
    <3>1. PICK n \in Nat : Reached(n)
      BY <2>2 DEF Settled, InOrder, Clean
    <3>2. n = Len(emitted) /\ DOMAIN emitted = 1..n
      <4>1. n = Len(emitted)
        BY <2>2, <3>1, QueueFacts DEF Settled, Reached, Marked
      <4> QED BY <4>1 DEF QueueIs
    <3>3. work.at \notin Mid /\ ~HasWritten
      BY <2>2, IdleIs DEF Settled, QueueIs, HasWritten, Busy
    <3>4. NoStart(n)
      BY <3>2, QueueFacts DEF NoStart
    <3>5. Steady(n) /\ RowsTell(n) /\ (~stranded => Reads(n))
      BY <3>1, <3>3, <3>4 DEF Reached, SteadyAt, RowsAt, TellsAt
    <3>6. TurnLeft <=> TurnAfter(emitted, n)
      <4>1. \A i \in 1..n : Since(i, Ending) <=> \E j \in (i + 1)..n : emitted[j].type \in Ending
        BY <3>2 DEF Since
      <4> QED BY <3>2, <4>1 DEF TurnLeft, TurnAfter, Ending
    <3>7. ASSUME NEW r \in Requests PROVE Unanswered(r) <=> r \in UnansweredAfter(emitted, n)
      <4>1. \A i \in 1..n : (\A j \in DOMAIN emitted : j > i => ~Closes(emitted[j], r)) <=>
                             \A j \in (i + 1)..n : ~Closes(emitted[j], r)
        BY <3>2
      <4> QED BY <3>2, <4>1 DEF Unanswered, UnansweredAfter, Opens
    <3>8. ~stranded => (turn <=> TurnAfter(emitted, n)) /\ asked = AskedAfter(emitted, n)
      BY <3>2 DEF Told
    <3>9. \A r \in Requests : rows[r].status = "open" <=> Unanswered(r)
      BY <3>5, <3>7 DEF RowsTell
    <3>10. /\ TurnLeft => receipt.state \notin Quiet
           /\ receipt.state \notin Quiet /\ ~TurnLeft =>
                receipt.state = "waiting" /\ rows[receipt.request].status = "open"
      BY <3>5, <3>6 DEF Steady
    <3>11. ~stranded => /\ receipt.state \in Quiet <=> ~turn
                        /\ receipt.state = "waiting" => receipt.request \in asked
      BY <3>5, <3>8 DEF Reads
    <3> QED BY <3>9, <3>10, <3>11 DEF ReceiptTells
  <2> QED BY <2>1, <2>2 DEF ReceiptSound, ReceiptTells
<1> QED BY <1>1, Invariance, PTL
=============================================================================
