----------------------- MODULE TransportIntentsProofs -----------------------
(***************************************************************************)
(* Proofs about TransportIntents for any resources, any page of the drain, *)
(* any number of intents and of crashes.                                   *)
(***************************************************************************)
EXTENDS TransportIntents, FiniteSetTheorems, WellFoundedInduction, TLAPS

-----------------------------------------------------------------------------
(* The inductive invariant. *)

\* Runs are of recorded intents, at most one live and one of the drain of each;
\* an archive that is under way had found a session.
RunsSound ==
    /\ runtime = "down" => runs = {}
    /\ page \subseteq DOMAIN rows
    /\ \A run \in runs :
           /\ run.intent \in DOMAIN rows
           /\ run.at \in {"guard", "cleanup"} /\ TypeOf(run) = "archive" => run.session # None
    /\ \A a, b \in runs : a.intent = b.intent /\ a.drain = b.drain => a = b

\* It is being processed live, before its message is handed on, or is settled.
Live(i) ==
    /\ i \notin page
    /\ i \in DOMAIN rows /\ IsPending(i) => Running(i)
    /\ i \notin DOMAIN rows => delivered[i] = 0
    /\ delivered[i] <= 1
    /\ \A run \in runs : run.intent = i =>
           ~run.drain /\ (run.at \in {"guard", "cleanup"} => delivered[i] = 0)

\* What no crash cut off and no drain took up while it ran.
OnlyLive == \A i \in Ids \ again : Live(i)

\* A drain that found nothing leaves nothing of before the start.
Drained ==
    /\ before <= Len(rows)
    /\ drain = "done" /\ Room > 0 => \A i \in 1..before : ~IsPending(i)

\* The intents of a resource that stayed in order are processed one at a time,
\* the earlier ones settled, the later ones not begun.
InOrder ==
    \A r \in Resources \ disordered : \A i \in DOMAIN rows :
        rows[i].resource = r /\ Running(i) => Misplaced(i, r) = {}

Latest(i) == \A j \in DOMAIN rows : rows[j].resource = rows[i].resource => j <= i

\* The latest one shows from the moment it is done, or a message is handed on.
Shown ==
    \A r \in Resources \ disordered : \A i \in DOMAIN rows :
        /\ rows[i].resource = r /\ Latest(i)
        /\ \/ rows[i].processed
           \/ \E run \in runs : run.intent = i /\ run.at \in {"interact", "done"}
        => Shows(rows[i].type, bound[r])

IInv == TypeOK /\ RunsSound /\ OnlyLive /\ Drained /\ InOrder /\ Shown

-----------------------------------------------------------------------------
(* Rows, runs and numbers. *)

Less == {ss \in Nat \X Nat : ss[1] < ss[2]}

\* A set of numbers has a least element, unless it is empty.
LEMMA LeastNumber ==
    ASSUME NEW S \in SUBSET Nat, S # {}
    PROVE  \E x \in S : \A y \in S : ~(y < x)
<1>1. IsWellFoundedOn(Less, Nat)
  BY NatLessThanWellFounded DEF OpToRel, Less
<1>2. \E x \in S : \A y \in S : <<y, x>> \notin Less
  BY <1>1, WFMin
<1>3. \A x, y \in Nat : y < x => <<y, x>> \in Less
  BY DEF Less
<1> QED BY <1>2, <1>3

\* The drain finds something as long as there is something and it has room.
LEMMA PageMisses ==
    ASSUME TypeOK, Room > 0, Page = {}
    PROVE  Pending = {}
<1>1. rows \in Seq(Row) /\ DOMAIN rows = 1..Len(rows) /\ Len(rows) \in Nat
  BY DEF TypeOK
<1>2. Pending \in SUBSET Nat
  BY <1>1 DEF Pending
<1> SUFFICES ASSUME Pending # {} PROVE FALSE
  OBVIOUS
<1>3. PICK x \in Pending : \A y \in Pending : ~(y < x)
  BY <1>2, LeastNumber
<1>4. {j \in Pending : j < x} = {}
  BY <1>3
<1>5. x \in Page
  BY <1>3, <1>4, FS_EmptySet DEF Page, Listed
<1> QED BY <1>5

Stages == {"guard", "cleanup", "interact", "done", "failed"}

LEMMA MarkedRow ==
    ASSUME NEW row \in Row, NEW at \in {"done", "failed"}
    PROVE  /\ Marked(row, at) \in Row
           /\ Marked(row, at).type = row.type /\ Marked(row, at).resource = row.resource
           /\ Marked(row, at).processed <=> row.processed \/ at = "done"
           /\ Marked(row, at).processed \/ Marked(row, at).failed
BY DEF Marked, Row

LEMMA MovedRun ==
    ASSUME NEW run \in Run, NEW at \in Stages
    PROVE  /\ [run EXCEPT !.at = at] \in Run
           /\ [run EXCEPT !.at = at].at = at
           /\ [run EXCEPT !.at = at].intent = run.intent
           /\ [run EXCEPT !.at = at].drain = run.drain
           /\ [run EXCEPT !.at = at].session = run.session
BY DEF Run, Stages

\* What is looked up decides how an intent begins.
LEMMA FirstStage ==
    ASSUME NEW type \in {"ensure", "delete", "archive", "resume", "message"}, NEW s \in Session \cup {None}
    PROVE  /\ First(type, s) \in Stages \ {"cleanup", "failed"}
           /\ First(type, s) \in {"interact", "done"} => Shows(type, s)
           /\ First(type, s) = "guard" /\ type = "archive" => s # None
BY DEF First, Stages, Shows, IsArchived

\* What a run in the making, r, adds to the runs.
NewRun(i, r, byDrain) ==
    [intent |-> i, drain |-> byDrain, session |-> bound[r], at |-> First(rows'[i].type, bound[r])]

\* A run begins for a row that is there after the step.
LEMMA Begun ==
    ASSUME TypeOK, NEW i \in Ids, NEW r \in Resources, NEW d \in BOOLEAN, NEW type \in Types,
           Begin(i, type, r, d), rows'[i].type = type
    PROVE  /\ NewRun(i, r, d) \in Run /\ runs' = runs \cup {NewRun(i, r, d)}
           /\ NewRun(i, r, d).intent = i /\ NewRun(i, r, d).drain = d
           /\ NewRun(i, r, d).at = First(type, bound[r]) /\ NewRun(i, r, d).session = bound[r]
           /\ delivered' = IF First(type, bound[r]) = "interact" THEN [delivered EXCEPT ![i] = @ + 1] ELSE delivered
           /\ disordered' = IF Misplaced(i, r) # {} THEN disordered \cup {r} ELSE disordered
<1>1. First(type, bound[r]) \in Stages /\ bound[r] \in Session \cup {None}
  BY FirstStage, TypesAssumption DEF TypeOK
<1> QED BY <1>1 DEF Begin, NewRun, Run, Stages

\* The new row of an intent that comes in.
LEMMA RowAdded ==
    ASSUME TypeOK, NEW type \in Types, NEW r \in Resources, HandleIntent(type, r)
    PROVE  /\ rows' \in Seq(Row) /\ Len(rows') = Len(rows) + 1 /\ Len(rows') <= MaxIntents
           /\ Len(rows) \in Nat /\ Len(rows) + 1 \in Ids
           /\ DOMAIN rows = 1..Len(rows) /\ DOMAIN rows' = DOMAIN rows \cup {Len(rows) + 1}
           /\ Len(rows) + 1 \notin DOMAIN rows
           /\ \A i \in DOMAIN rows : rows'[i] = rows[i]
           /\ \A n : n = Len(rows) + 1 =>
                 rows'[n].type = type /\ rows'[n].resource = r /\ ~rows'[n].processed /\ ~rows'[n].failed
<1> DEFINE row == [type |-> type, resource |-> r, processed |-> FALSE, failed |-> FALSE]
<1>1. row \in Row /\ rows \in Seq(Row) /\ Len(rows) \in Nat /\ rows' = Append(rows, row)
  BY DEF Row, TypeOK, HandleIntent
<1>2. Len(rows) < MaxIntents /\ MaxIntents \in Nat
  BY IntentBounds DEF HandleIntent
<1> HIDE DEF row
<1>3. rows' \in Seq(Row) /\ Len(rows') = Len(rows) + 1 /\ rows'[Len(rows) + 1] = row
  BY <1>1
<1>4. \A i \in 1..Len(rows) : rows'[i] = rows[i]
  BY <1>1
<1> QED BY <1>1, <1>2, <1>3, <1>4 DEF Ids, row

\* The table after a run has marked its intent.
LEMMA RowMarks ==
    ASSUME TypeOK, RunsSound, NEW run \in runs, Marks(run)
    PROVE  /\ rows' \in Seq(Row) /\ Len(rows') = Len(rows) /\ Len(rows) \in Nat
           /\ DOMAIN rows' = DOMAIN rows /\ DOMAIN rows = 1..Len(rows)
           /\ run.intent \in DOMAIN rows /\ run.at \in {"done", "failed"}
           /\ \A i \in DOMAIN rows : /\ rows'[i].type = rows[i].type /\ rows'[i].resource = rows[i].resource
                                     /\ i # run.intent => rows'[i] = rows[i]
           /\ \A i : i = run.intent => /\ rows'[i].processed <=> rows[i].processed \/ run.at = "done"
                                       /\ rows'[i].processed \/ rows'[i].failed
<1>1. /\ rows \in Seq(Row) /\ Len(rows) \in Nat /\ run.intent \in DOMAIN rows /\ run.at \in {"done", "failed"}
      /\ rows' = [rows EXCEPT ![run.intent] = Marked(rows[run.intent], run.at)]
  BY DEF TypeOK, RunsSound, Marks
<1>2. rows[run.intent] \in Row
  BY <1>1
<1>3. Marked(rows[run.intent], run.at) \in Row
  BY <1>1, <1>2, MarkedRow
<1>4. rows' \in Seq(Row) /\ Len(rows') = Len(rows) /\ DOMAIN rows' = DOMAIN rows /\ DOMAIN rows = 1..Len(rows)
  BY <1>1, <1>3
<1>5. /\ \A i \in DOMAIN rows : i # run.intent => rows'[i] = rows[i]
      /\ \A i : i = run.intent => rows'[i] = Marked(rows[i], run.at)
  BY <1>1
<1> QED BY <1>1, <1>2, <1>4, <1>5, MarkedRow

-----------------------------------------------------------------------------
(* What a run does before it is marked. *)

\* From one stage to another, with the session it leaves the resource bound to.
RunMove(run, at, s) ==
    /\ UNCHANGED <<rows, runtime, drain, page, crashes, before, again, disordered>>
    /\ Moves(run, at) /\ Bind(run, s)
    /\ at \in Stages /\ s \in Session \cup {None}
    /\ at \in {"guard", "cleanup"} => run.at \in {"guard", "cleanup"}
    /\ at \in {"interact", "done"} =>
          (run.at = "interact" /\ s = Bound(run)) \/ Shows(TypeOf(run), s)
    /\ Shows(TypeOf(run), Bound(run)) => Shows(TypeOf(run), s)
    /\ \/ UNCHANGED delivered
       \/ /\ run.at = "guard" /\ at = "interact"
          /\ delivered' = [delivered EXCEPT ![run.intent] = @ + 1]
    /\ made' \in Nat /\ made' >= made
    /\ Bound(run) = None /\ s # None /\ s.id <= made =>
          TypeOf(run) = "archive" /\ run.at = "cleanup" /\ run.session.id = s.id

RunStage(run) == Fails(run) \/ Creates(run) \/ Resumes(run) \/ CleansUp(run)
                 \/ Deletes(run) \/ Archives(run) \/ Interacted(run)

LEMMA StageMoves ==
    ASSUME TypeOK, RunsSound, NEW run \in runs, RunStage(run)
    PROVE  \E at, s : RunMove(run, at, s)
<1>0. /\ run \in Run /\ run.intent \in DOMAIN rows /\ rows[run.intent] \in Row
      /\ ResourceOf(run) \in Resources /\ TypeOf(run) \in Types
      /\ bound \in [Resources -> Session \cup {None}] /\ Bound(run) \in Session \cup {None}
      /\ run.session \in Session \cup {None} /\ made \in Nat
  <2>1. run \in Run /\ run.intent \in DOMAIN rows /\ rows \in Seq(Row)
        /\ bound \in [Resources -> Session \cup {None}] /\ made \in Nat
    BY DEF TypeOK, RunsSound
  <2>2. rows[run.intent] \in Row
    BY <2>1
  <2>3. ResourceOf(run) \in Resources /\ TypeOf(run) \in Types
    BY <2>2 DEF ResourceOf, TypeOf, Row
  <2> QED BY <2>1, <2>2, <2>3 DEF Bound, Run
<1>1. UNCHANGED <<rows, runtime, drain, page, crashes, before, again, disordered>>
  BY DEF RunStage, Fails, Creates, Resumes, CleansUp, Deletes, Archives, Interacted, runElse
<1>2. bound = [bound EXCEPT ![ResourceOf(run)] = Bound(run)]
  BY <1>0 DEF Bound
<1>a. made >= made /\ made \in Nat
  BY <1>0
<1>3. CASE Fails(run)
  <2>1. RunMove(run, "failed", Bound(run))
    BY <1>0, <1>1, <1>2, <1>3, <1>a DEF Fails, RunMove, Bind, Stages
  <2> QED BY <2>1
<1>4. CASE Creates(run)
  <2> DEFINE new == [id |-> made + 1, status |-> "hot"]
  <2>1. CASE Bound(run) = None
    <3>1. new \in Session /\ new.id = made + 1 /\ ~(new.id <= made) /\ new # None
      BY <1>0, NoneAssumption DEF Session
    <3>2. Bind(run, new) /\ made' = made + 1 /\ Moves(run, "done") /\ UNCHANGED delivered /\ TypeOf(run) = "ensure"
      BY <1>4, <2>1 DEF Creates
    <3>3. made' \in Nat /\ made' >= made
      BY <1>0, <3>2
    <3>4. Shows(TypeOf(run), new)
      BY <3>1, <3>2 DEF Shows
    <3> HIDE DEF new
    <3>5. RunMove(run, "done", new)
      BY <1>1, <3>1, <3>2, <3>3, <3>4 DEF RunMove, Stages
    <3> QED BY <3>5
  <2>2. CASE Bound(run) # None
    <3>1. RunMove(run, "failed", Bound(run))
      BY <1>0, <1>1, <1>2, <1>4, <1>a, <2>2 DEF Creates, RunMove, Bind, Stages
    <3> QED BY <3>1
  <2> QED BY <2>1, <2>2
<1>5. CASE Resumes(run)
  <2>1. /\ Resumed(run) \in Session \cup {None} /\ ~IsArchived(Resumed(run))
        /\ Bound(run) = None => Resumed(run) = None
    BY <1>0 DEF Resumed, IsArchived, Session
  <2>2. Shows(TypeOf(run), Resumed(run)) /\ UNCHANGED made
    BY <1>5, <2>1 DEF Resumes, Shows
  <2>3. CASE TypeOf(run) = "message"
    <3>1. RunMove(run, "interact", Resumed(run))
      BY <1>0, <1>1, <1>5, <1>a, <2>1, <2>2, <2>3 DEF Resumes, RunMove, Stages
    <3> QED BY <3>1
  <2>4. CASE TypeOf(run) # "message"
    <3>1. RunMove(run, "done", Resumed(run))
      BY <1>0, <1>1, <1>5, <1>a, <2>1, <2>2, <2>4 DEF Resumes, RunMove, Stages
    <3> QED BY <3>1
  <2> QED BY <2>3, <2>4
<1>6. CASE CleansUp(run)
  <2>1. RunMove(run, "cleanup", Bound(run))
    BY <1>0, <1>1, <1>2, <1>6, <1>a DEF CleansUp, RunMove, Bind, Stages
  <2> QED BY <2>1
<1>7. CASE Deletes(run)
  <2>1. Shows(TypeOf(run), None)
    BY <1>7 DEF Deletes, Shows
  <2>2. RunMove(run, "done", None)
    BY <1>0, <1>1, <1>7, <1>a, <2>1 DEF Deletes, RunMove, Stages
  <2> QED BY <2>2
<1>8. CASE Archives(run)
  <2> DEFINE old == [run.session EXCEPT !.status = "archived"]
  <2>1. run.session \in Session
    BY <1>0, <1>8 DEF RunsSound, Archives
  <2>2. old \in Session /\ old.id = run.session.id /\ old.status = "archived" /\ old # None
    BY <2>1, NoneAssumption DEF Session
  <2>3. Shows(TypeOf(run), old) /\ UNCHANGED <<made, delivered>> /\ TypeOf(run) = "archive" /\ run.at = "cleanup"
    BY <1>8, <2>2 DEF Archives, Shows, IsArchived
  <2>4. CASE Bind(run, old) /\ Moves(run, "done")
    <3> HIDE DEF old
    <3>1. RunMove(run, "done", old)
      BY <1>1, <1>a, <2>2, <2>3, <2>4 DEF RunMove, Stages
    <3> QED BY <3>1
  <2>5. CASE UNCHANGED bound /\ Moves(run, "failed")
    <3>1. RunMove(run, "failed", Bound(run))
      BY <1>0, <1>1, <1>2, <1>a, <2>3, <2>5 DEF RunMove, Bind, Stages
    <3> QED BY <3>1
  <2> QED BY <1>8, <2>4, <2>5 DEF Archives
<1>9. CASE Interacted(run)
  <2>1. RunMove(run, "done", Bound(run))
    BY <1>0, <1>1, <1>2, <1>9, <1>a DEF Interacted, RunMove, Bind, Stages
  <2> QED BY <2>1
<1> QED BY <1>3, <1>4, <1>5, <1>6, <1>7, <1>8, <1>9 DEF RunStage

\* Every step, by what it does to the runs.
LEMMA StepCases ==
    ASSUME TypeOK, RunsSound, [Next]_vars
    PROVE  \/ \E type \in Types, r \in Resources : HandleIntent(type, r)
           \/ \E run \in runs : \E at, s : RunMove(run, at, s)
           \/ \E run \in runs : Marks(run)
           \/ DrainLists \/ DrainTurns \/ Crash \/ Start
           \/ \E i \in Ids : DrainBegins(i)
           \/ UNCHANGED vars
<1>1. ASSUME NEW run \in runs, ~Marks(run),
             \/ Fails(run) \/ Creates(run) \/ Resumes(run) \/ CleansUp(run)
             \/ Deletes(run) \/ Archives(run) \/ Interacted(run) \/ Marks(run)
      PROVE  \E at, s : RunMove(run, at, s)
  BY <1>1, StageMoves DEF RunStage
<1> QED BY <1>1 DEF Next, RunStep, DrainStep

\* A run that moves keeps its intent; the others stay.
LEMMA RunMoved ==
    ASSUME TypeOK, RunsSound, NEW run \in runs, NEW at, NEW s, RunMove(run, at, s)
    PROVE  /\ runs' \subseteq Run
           /\ \A x \in runs' : \/ x \in runs /\ x # run
                               \/ /\ x.intent = run.intent /\ x.drain = run.drain
                                  /\ x.session = run.session /\ x.at = at
           /\ \A i : Running(i)' <=> Running(i)
           /\ bound' \in [Resources -> Session \cup {None}]
           /\ ResourceOf(run) \in Resources /\ bound'[ResourceOf(run)] = s
           /\ \A r \in Resources : r # ResourceOf(run) => bound'[r] = bound[r]
           /\ run.intent \in DOMAIN rows /\ run \in Run
<1>0. /\ run \in Run /\ runs \subseteq Run /\ run.intent \in DOMAIN rows /\ rows \in Seq(Row)
      /\ bound \in [Resources -> Session \cup {None}] /\ at \in Stages /\ s \in Session \cup {None}
      /\ runs' = (runs \ {run}) \cup {[run EXCEPT !.at = at]}
      /\ bound' = [bound EXCEPT ![ResourceOf(run)] = s]
  BY DEF TypeOK, RunsSound, RunMove, Moves, Bind
<1>1. /\ [run EXCEPT !.at = at] \in Run /\ [run EXCEPT !.at = at].at = at
      /\ [run EXCEPT !.at = at].intent = run.intent /\ [run EXCEPT !.at = at].drain = run.drain
      /\ [run EXCEPT !.at = at].session = run.session
  BY <1>0, MovedRun
<1>2. \A i : Running(i)' <=> Running(i)
  BY <1>0, <1>1 DEF Running
<1>3. ResourceOf(run) \in Resources
  <2>1. rows[run.intent] \in Row
    BY <1>0
  <2> QED BY <2>1 DEF ResourceOf, Row
<1> QED BY <1>0, <1>1, <1>2, <1>3

-----------------------------------------------------------------------------
(* Types, and the runs. *)

\* An intent that the drain takes up is of the page, and of its own resource.
LEMMA DrainTakes ==
    ASSUME TypeOK, RunsSound, NEW i \in Ids, DrainBegins(i)
    PROVE  /\ i \in DOMAIN rows /\ i \in page /\ UNCHANGED rows
           /\ rows[i].type \in Types /\ rows[i].resource \in Resources
           /\ Begin(i, rows[i].type, rows[i].resource, TRUE)
           /\ \A run \in runs : ~run.drain
<1>1. rows \in Seq(Row) /\ i \in DOMAIN rows
  BY DEF TypeOK, RunsSound, DrainBegins
<1>2. rows[i] \in Row
  BY <1>1
<1> QED BY <1>1, <1>2 DEF DrainBegins, Draining, Row

\* A message is handed on once more.
LEMMA DeliveredMore ==
    ASSUME TypeOK, NEW i \in Ids
    PROVE  /\ [delivered EXCEPT ![i] = @ + 1] \in [Ids -> Nat]
           /\ [delivered EXCEPT ![i] = @ + 1][i] = delivered[i] + 1
           /\ \A j \in Ids : j # i => [delivered EXCEPT ![i] = @ + 1][j] = delivered[j]
BY DEF TypeOK

LEMMA BegunTyped ==
    ASSUME TypeOK, NEW i \in Ids, NEW r \in Resources, NEW d \in BOOLEAN, NEW type \in Types,
           Begin(i, type, r, d), rows'[i].type = type
    PROVE  runs' \subseteq Run /\ disordered' \subseteq Resources /\ delivered' \in [Ids -> Nat]
<1>0. runs \subseteq Run /\ disordered \subseteq Resources /\ delivered \in [Ids -> Nat]
  BY DEF TypeOK
<1>1. runs' \subseteq Run
  BY <1>0, Begun
<1>2. disordered' \subseteq Resources
  BY <1>0, Begun
<1>3. delivered' \in [Ids -> Nat]
  BY <1>0, Begun, DeliveredMore
<1> QED BY <1>1, <1>2, <1>3

LEMMA NextTyped == TypeOK /\ RunsSound /\ [Next]_vars => TypeOK'
<1> SUFFICES ASSUME TypeOK, RunsSound, [Next]_vars PROVE TypeOK'
  OBVIOUS
<1>0. /\ rows \in Seq(Row) /\ Len(rows) \in Nat /\ DOMAIN rows = 1..Len(rows) /\ DOMAIN rows \subseteq Ids
      /\ bound \in [Resources -> Session \cup {None}] /\ made \in Nat /\ runs \subseteq Run
      /\ delivered \in [Ids -> Nat] /\ again \subseteq Ids /\ disordered \subseteq Resources /\ page \subseteq Ids
      /\ crashes \in 0..MaxCrashes /\ before \in 0..MaxIntents
  BY IntentBounds DEF TypeOK, Ids
<1>1. ASSUME NEW type \in Types, NEW r \in Resources, HandleIntent(type, r) PROVE TypeOK'
  <2>1. PICK n : n = Len(rows) + 1
    OBVIOUS
  <2>2. /\ n \in Ids /\ Begin(n, type, r, FALSE) /\ rows'[n].type = type
        /\ rows' \in Seq(Row) /\ Len(rows') <= MaxIntents
    BY <1>1, <2>1, RowAdded DEF HandleIntent
  <2>3. runs' \subseteq Run /\ disordered' \subseteq Resources /\ delivered' \in [Ids -> Nat]
    BY <1>0, <2>2, BegunTyped
  <2> QED BY <1>1, <2>2, <2>3 DEF HandleIntent, TypeOK
<1>2. ASSUME NEW run \in runs, NEW at, NEW s, RunMove(run, at, s) PROVE TypeOK'
  <2>1. runs' \subseteq Run /\ bound' \in [Resources -> Session \cup {None}] /\ run.intent \in DOMAIN rows
    BY <1>2, RunMoved
  <2>2. delivered' \in [Ids -> Nat]
    BY <1>0, <1>2, <2>1, DeliveredMore DEF RunMove
  <2> QED BY <1>0, <1>2, <2>1, <2>2 DEF RunMove, TypeOK
<1>3. ASSUME NEW run \in runs, Marks(run) PROVE TypeOK'
  <2>1. rows' \in Seq(Row) /\ Len(rows') <= MaxIntents
    BY <1>3, RowMarks DEF TypeOK
  <2> QED BY <1>0, <1>3, <2>1 DEF Marks, history, TypeOK
<1>4. CASE DrainLists
  <2>1. Page \subseteq Ids
    BY <1>0 DEF Page, Listed, Pending
  <2> QED BY <1>0, <1>4, <2>1 DEF DrainLists, TypeOK
<1>5. CASE DrainTurns
  BY <1>5 DEF DrainTurns, history, TypeOK
<1>6. CASE Crash
  <2>1. again' \subseteq Ids
    BY <1>0, <1>6 DEF Crash, Run
  <2>2. crashes' \in 0..MaxCrashes
    BY <1>0, <1>6, IntentBounds DEF Crash
  <2> QED BY <1>0, <1>6, <2>1, <2>2 DEF Crash, TypeOK
<1>7. CASE Start
  <2>1. before' \in 0..MaxIntents
    BY <1>0, <1>7 DEF Start, TypeOK
  <2> QED BY <1>0, <1>7, <2>1 DEF Start, TypeOK
<1>8. ASSUME NEW i \in Ids, DrainBegins(i) PROVE TypeOK'
  <2>1. /\ rows[i].type \in Types /\ rows[i].resource \in Resources /\ UNCHANGED rows
        /\ Begin(i, rows[i].type, rows[i].resource, TRUE)
    BY <1>8, DrainTakes
  <2>2. runs' \subseteq Run /\ disordered' \subseteq Resources /\ delivered' \in [Ids -> Nat]
    BY <2>1, BegunTyped
  <2> QED BY <1>0, <1>8, <2>2 DEF DrainBegins, TypeOK
<1>9. CASE UNCHANGED vars
  BY <1>9 DEF vars, history, TypeOK
<1> QED BY <1>1, <1>2, <1>3, <1>4, <1>5, <1>6, <1>7, <1>8, <1>9, StepCases

LEMMA NextRunsSound == TypeOK /\ RunsSound /\ [Next]_vars => RunsSound'
<1> SUFFICES ASSUME TypeOK, RunsSound, [Next]_vars PROVE RunsSound'
  OBVIOUS
<1>0. runs \subseteq Run /\ rows \in Seq(Row) /\ DOMAIN rows \subseteq Ids
  BY IntentBounds DEF TypeOK, Ids
<1>1. ASSUME UNCHANGED rows, runs' \subseteq runs, page' \subseteq DOMAIN rows,
             runtime' = "down" => runs' = {}
      PROVE  RunsSound'
  BY <1>1 DEF RunsSound, TypeOf
\* A run that is added for a row of the table, where there is none of its kind.
<1>2. ASSUME NEW i \in Ids, NEW r \in Resources, NEW d \in BOOLEAN, NEW type \in Types,
             Begin(i, type, r, d), rows'[i].type = type, i \in DOMAIN rows',
             \A run \in runs : ~(run.intent = i /\ run.drain = d),
             \A run \in runs : run.intent \in DOMAIN rows' /\ rows'[run.intent].type = TypeOf(run),
             page' \subseteq DOMAIN rows', runtime' = "up"
      PROVE  RunsSound'
  <2> DEFINE new == NewRun(i, r, d)
  <2>1. /\ runs' = runs \cup {new} /\ new.intent = i /\ new.drain = d
        /\ new.at = First(type, bound[r]) /\ new.session = bound[r]
    BY <1>2, Begun
  <2>2. First(type, bound[r]) = "guard" /\ type = "archive" => bound[r] # None
    BY FirstStage, TypesAssumption DEF TypeOK
  <2>3. First(type, bound[r]) # "cleanup"
    BY FirstStage, TypesAssumption DEF TypeOK
  <2> HIDE DEF new
  <2>4. /\ new.intent \in DOMAIN rows'
        /\ new.at \in {"guard", "cleanup"} /\ rows'[new.intent].type = "archive" => new.session # None
    BY <1>2, <2>1, <2>2, <2>3
  <2>5. \A a, b \in runs' : a.intent = b.intent /\ a.drain = b.drain => a = b
    BY <1>2, <2>1 DEF RunsSound
  <2>6. \A run \in runs' : /\ run.intent \in DOMAIN rows'
                           /\ run.at \in {"guard", "cleanup"} /\ rows'[run.intent].type = "archive" => run.session # None
    BY <1>2, <2>1, <2>4 DEF RunsSound, TypeOf
  <2> QED BY <1>2, <2>5, <2>6 DEF RunsSound, TypeOf
<1>3. ASSUME NEW type \in Types, NEW r \in Resources, HandleIntent(type, r) PROVE RunsSound'
  <2>1. PICK n : n = Len(rows) + 1
    OBVIOUS
  <2>2. /\ n \in Ids /\ n \notin DOMAIN rows /\ Begin(n, type, r, FALSE) /\ rows'[n].type = type /\ n \in DOMAIN rows'
        /\ \A i \in DOMAIN rows : i \in DOMAIN rows' /\ rows'[i] = rows[i]
    BY <1>3, <2>1, RowAdded DEF HandleIntent
  <2>3. page' \subseteq DOMAIN rows' /\ runtime' = "up"
    BY <1>3, <2>2 DEF HandleIntent, RunsSound
  <2>4. \A run \in runs : run.intent # n /\ run.intent \in DOMAIN rows' /\ rows'[run.intent].type = TypeOf(run)
    BY <2>2 DEF RunsSound, TypeOf
  <2> QED BY <1>2, <2>2, <2>3, <2>4
<1>4. ASSUME NEW run \in runs, NEW at, NEW s, RunMove(run, at, s) PROVE RunsSound'
  <2>1. \A x \in runs' : \/ x \in runs /\ x # run
                         \/ /\ x.intent = run.intent /\ x.drain = run.drain
                            /\ x.session = run.session /\ x.at = at
    BY <1>4, RunMoved
  <2>2. UNCHANGED <<rows, runtime, page>> /\ (at \in {"guard", "cleanup"} => run.at \in {"guard", "cleanup"})
    BY <1>4 DEF RunMove
  <2>3. runs' = (runs \ {run}) \cup {[run EXCEPT !.at = at]}
    BY <1>4 DEF RunMove, Moves
  <2>4. \A a, b \in runs' : a.intent = b.intent /\ a.drain = b.drain => a = b
    <3>1. PICK moved : moved = [run EXCEPT !.at = at]
      OBVIOUS
    <3>2. moved.intent = run.intent /\ moved.drain = run.drain
      BY <1>0, <1>4, <3>1, MovedRun DEF RunMove
    <3>3. \A a, b \in runs : a.intent = b.intent /\ a.drain = b.drain => a = b
      BY DEF RunsSound
    <3>4. runs' = (runs \ {run}) \cup {moved}
      BY <2>3, <3>1
    <3>5. \A a \in runs \ {run} : ~(a.intent = moved.intent /\ a.drain = moved.drain)
      BY <3>2, <3>3
    <3>6. \A a \in runs' : a = moved \/ a \in runs \ {run}
      BY <3>4
    <3> QED BY <3>3, <3>5, <3>6
  <2>5. \A x \in runs' : /\ x.intent \in DOMAIN rows'
                         /\ x.at \in {"guard", "cleanup"} /\ rows'[x.intent].type = "archive" => x.session # None
    BY <2>1, <2>2 DEF RunsSound, TypeOf
  <2> QED BY <2>2, <2>4, <2>5 DEF RunsSound, TypeOf
<1>5. ASSUME NEW run \in runs, Marks(run) PROVE RunsSound'
  <2>1. DOMAIN rows' = DOMAIN rows /\ \A i \in DOMAIN rows : rows'[i].type = rows[i].type
    BY <1>5, RowMarks
  <2> QED BY <1>5, <2>1 DEF Marks, RunsSound, TypeOf
<1>6. CASE DrainLists
  <2>1. Page \subseteq DOMAIN rows
    BY DEF Page, Listed, Pending
  <2> QED BY <1>1, <1>6, <2>1 DEF DrainLists
<1>7. CASE DrainTurns \/ Start
  BY <1>1, <1>7 DEF DrainTurns, Start, RunsSound
<1>8. CASE Crash
  BY <1>1, <1>8 DEF Crash
<1>9. ASSUME NEW i \in Ids, DrainBegins(i) PROVE RunsSound'
  <2>1. /\ i \in DOMAIN rows /\ UNCHANGED rows /\ rows[i].type \in Types /\ rows[i].resource \in Resources
        /\ Begin(i, rows[i].type, rows[i].resource, TRUE) /\ \A run \in runs : ~run.drain
    BY <1>9, DrainTakes
  <2>2. page' \subseteq DOMAIN rows' /\ runtime' = "up"
    BY <1>9, <2>1 DEF DrainBegins, RunsSound
  <2> QED BY <1>2, <2>1, <2>2 DEF RunsSound, TypeOf
<1>10. CASE UNCHANGED vars
  BY <1>1, <1>10 DEF vars, RunsSound
<1> QED BY <1>3, <1>4, <1>5, <1>6, <1>7, <1>8, <1>9, <1>10, StepCases

-----------------------------------------------------------------------------
(* No message is handed on twice. *)

LEMMA NextOnlyLive == TypeOK /\ RunsSound /\ OnlyLive /\ [Next]_vars => OnlyLive'
<1> SUFFICES ASSUME TypeOK, RunsSound, OnlyLive, [Next]_vars, NEW i \in Ids \ again' PROVE Live(i)'
  BY DEF OnlyLive
<1>0. /\ runs \subseteq Run /\ delivered \in [Ids -> Nat] /\ delivered[i] \in Nat /\ i \in Ids
      /\ \A run \in runs : run.intent \in DOMAIN rows
  BY DEF TypeOK, RunsSound
<1>1. ASSUME NEW type \in Types, NEW r \in Resources, HandleIntent(type, r) PROVE Live(i)'
  <2>1. PICK n : n = Len(rows) + 1
    OBVIOUS
  <2>d. PICK live \in BOOLEAN : live = FALSE
    OBVIOUS
  <2> DEFINE new == NewRun(n, r, live)
  <2>2. /\ n \in Ids /\ n \notin DOMAIN rows /\ Begin(n, type, r, FALSE) /\ rows'[n].type = type
        /\ DOMAIN rows' = DOMAIN rows \cup {n} /\ \A j \in DOMAIN rows : rows'[j] = rows[j]
        /\ UNCHANGED <<page, again>>
    BY <1>1, <2>1, RowAdded DEF HandleIntent
  <2>b. n \in Ids /\ Begin(n, type, r, live) /\ rows'[n].type = type
    BY <2>2, <2>d
  <2>3. /\ runs' = runs \cup {new} /\ new.intent = n /\ ~new.drain /\ new.at = First(type, bound[r])
    BY <2>b, <2>d, Begun
  <2>a. delivered' = IF First(type, bound[r]) = "interact" THEN [delivered EXCEPT ![n] = @ + 1] ELSE delivered
    BY <2>b, Begun
  <2> HIDE DEF new
  <2>4. Live(i)
    BY <2>2 DEF OnlyLive
  <2>5. CASE i = n
    <3>1. delivered[n] = 0 /\ n \notin page /\ \A run \in runs : run.intent # n
      BY <1>0, <2>2, <2>4, <2>5 DEF Live
    <3>2. delivered'[n] <= 1 /\ (new.at \in {"guard", "cleanup"} => delivered'[n] = 0)
      BY <2>2, <2>3, <2>a, <3>1, DeliveredMore
    <3> QED BY <2>2, <2>3, <2>5, <3>1, <3>2 DEF Live, Running
  <2>6. CASE i # n
    <3>1. delivered'[i] = delivered[i]
      BY <1>0, <2>2, <2>a, <2>6, DeliveredMore
    <3>2. Running(i)' <=> Running(i)
      BY <2>3, <2>6 DEF Running
    <3>3. i \in DOMAIN rows' <=> i \in DOMAIN rows
      BY <2>2, <2>6
    <3>4. i \in DOMAIN rows => (IsPending(i)' <=> IsPending(i))
      BY <2>2 DEF IsPending
    <3>5. \A run \in runs' : run.intent = i => run \in runs
      BY <2>3, <2>6
    <3> QED BY <2>2, <2>4, <3>1, <3>2, <3>3, <3>4, <3>5 DEF Live
  <2> QED BY <2>5, <2>6
<1>2. ASSUME NEW run \in runs, NEW at, NEW s, RunMove(run, at, s) PROVE Live(i)'
  <2>1. /\ UNCHANGED <<rows, page, again>>
        /\ at \in {"guard", "cleanup"} => run.at \in {"guard", "cleanup"}
        /\ \/ UNCHANGED delivered
           \/ /\ run.at = "guard" /\ at = "interact"
              /\ delivered' = [delivered EXCEPT ![run.intent] = @ + 1]
    BY <1>2 DEF RunMove
  <2>2. /\ \A x \in runs' : \/ x \in runs /\ x # run
                            \/ x.intent = run.intent /\ x.drain = run.drain /\ x.at = at
        /\ Running(i)' <=> Running(i)
        /\ run.intent \in DOMAIN rows /\ run.intent \in Ids
    BY <1>0, <1>2, RunMoved DEF Run
  <2>3. Live(i) /\ (IsPending(i)' <=> IsPending(i))
    BY <2>1 DEF OnlyLive, IsPending
  <2>4. CASE UNCHANGED delivered
    BY <2>1, <2>2, <2>3, <2>4 DEF Live
  <2>5. CASE run.intent # i
    <3>1. delivered'[i] = delivered[i]
      BY <1>0, <2>1, <2>2, <2>5, DeliveredMore
    <3> QED BY <2>1, <2>2, <2>3, <2>5, <3>1 DEF Live
  <2>6. CASE run.intent = i /\ run.at = "guard" /\ at = "interact" /\ delivered' = [delivered EXCEPT ![run.intent] = @ + 1]
    <3>1. delivered[i] = 0 /\ ~run.drain
      BY <2>3, <2>6 DEF Live
    <3>2. delivered'[i] = 1
      BY <1>0, <2>2, <2>6, <3>1, DeliveredMore
    <3>3. \A x \in runs : x.intent = i => x = run
      BY <2>3, <2>6, <3>1 DEF Live, RunsSound, TypeOK, Run
    <3> QED BY <2>1, <2>2, <2>3, <2>6, <3>1, <3>2, <3>3 DEF Live
  <2> QED BY <2>1, <2>4, <2>5, <2>6
<1>3. ASSUME NEW run \in runs, Marks(run) PROVE Live(i)'
  <2>1. /\ DOMAIN rows' = DOMAIN rows /\ \A j \in DOMAIN rows : j # run.intent => rows'[j] = rows[j]
        /\ \A j : j = run.intent => rows'[j].processed \/ rows'[j].failed
    BY <1>3, RowMarks
  <2>2. runs' = runs \ {run} /\ UNCHANGED <<page, again, delivered>> /\ Live(i)
    BY <1>3 DEF Marks, history, OnlyLive
  <2>3. i \in DOMAIN rows' /\ IsPending(i)' => Running(i)'
    BY <2>1, <2>2 DEF Live, IsPending, Running
  <2> QED BY <2>1, <2>2, <2>3 DEF Live
<1>4. CASE DrainLists
  <2>1. UNCHANGED <<rows, runs, delivered>> /\ page' = Page /\ i \notin again /\ (i \in Page => ~Running(i))
    BY <1>4 DEF DrainLists
  <2>2. i \notin Page
    BY <2>1 DEF OnlyLive, Live, Page, Listed, Pending
  <2> QED BY <2>1, <2>2 DEF OnlyLive, Live, IsPending, Running
<1>5. CASE DrainTurns \/ Start \/ UNCHANGED vars
  <2>1. UNCHANGED <<rows, runs, delivered, page, again>>
    BY <1>5 DEF DrainTurns, Start, vars, history
  <2> QED BY <2>1 DEF OnlyLive, Live, IsPending, Running
<1>6. CASE Crash
  <2>1. UNCHANGED <<rows, delivered>> /\ runs' = {} /\ page' = {} /\ i \notin again /\ ~Running(i)
    BY <1>6 DEF Crash, Running
  <2> QED BY <2>1 DEF OnlyLive, Live, IsPending, Running
<1>7. ASSUME NEW k \in Ids, DrainBegins(k) PROVE Live(i)'
  <2> DEFINE new == NewRun(k, rows[k].resource, TRUE)
  <2>1. /\ k \in page /\ UNCHANGED <<rows, again>> /\ page' \subseteq page
        /\ rows[k].type \in Types /\ rows[k].resource \in Resources
        /\ Begin(k, rows[k].type, rows[k].resource, TRUE)
    BY <1>7, DrainTakes DEF DrainBegins
  <2>2. /\ runs' = runs \cup {new} /\ new.intent = k
        /\ delivered' = delivered \/ delivered' = [delivered EXCEPT ![k] = @ + 1]
    BY <2>1, Begun
  <2> HIDE DEF new
  <2>3. Live(i) /\ i # k
    BY <2>1 DEF OnlyLive, Live
  <2>4. delivered'[i] = delivered[i]
    BY <1>0, <2>2, <2>3, DeliveredMore
  <2> QED BY <2>1, <2>2, <2>3, <2>4 DEF Live, IsPending, Running
<1> QED BY <1>1, <1>2, <1>3, <1>4, <1>5, <1>6, <1>7, StepCases

-----------------------------------------------------------------------------
(* The start's drain leaves nothing of before. *)

LEMMA NextDrained == TypeOK /\ RunsSound /\ Drained /\ [Next]_vars => Drained'
<1> SUFFICES ASSUME TypeOK, RunsSound, Drained, [Next]_vars PROVE Drained'
  OBVIOUS
<1>0. rows \in Seq(Row) /\ Len(rows) \in Nat /\ DOMAIN rows = 1..Len(rows) /\ before \in Nat /\ before <= Len(rows)
  BY IntentBounds DEF TypeOK, Drained
<1>a. 1..before \subseteq DOMAIN rows /\ Room' = Room
  BY <1>0 DEF Room
<1>1. ASSUME UNCHANGED <<before, drain>>, Len(rows') \in Nat, Len(rows') >= Len(rows),
             \A i \in DOMAIN rows : ~IsPending(i) => ~IsPending(i)'
      PROVE  Drained'
  BY <1>0, <1>1, <1>a DEF Drained
<1>2. ASSUME NEW type \in Types, NEW r \in Resources, HandleIntent(type, r) PROVE Drained'
  <2>1. Len(rows') \in Nat /\ Len(rows') >= Len(rows) /\ \A i \in DOMAIN rows : rows'[i] = rows[i]
    BY <1>0, <1>2, RowAdded
  <2> QED BY <1>1, <1>2, <2>1 DEF HandleIntent, IsPending
<1>3. ASSUME NEW run \in runs, NEW at, NEW s, RunMove(run, at, s) PROVE Drained'
  BY <1>0, <1>1, <1>3 DEF RunMove, IsPending
<1>4. ASSUME NEW run \in runs, Marks(run) PROVE Drained'
  <2>1. Len(rows') = Len(rows) /\ \A i \in DOMAIN rows : ~IsPending(i) => ~IsPending(i)'
    BY <1>4, RowMarks DEF IsPending
  <2> QED BY <1>0, <1>1, <1>4, <2>1 DEF Marks, history
<1>5. CASE DrainLists
  <2>1. UNCHANGED <<rows, before>> /\ (drain' = "done" => Page = {})
    BY <1>5 DEF DrainLists
  <2>2. Page = {} /\ Room > 0 => \A i \in DOMAIN rows : ~IsPending(i)
    BY PageMisses DEF Pending
  <2> QED BY <1>0, <1>a, <2>1, <2>2 DEF Drained, IsPending
<1>6. CASE DrainTurns \/ Start
  BY <1>0, <1>6 DEF DrainTurns, Start, history, Drained
<1>7. CASE Crash \/ UNCHANGED vars
  BY <1>0, <1>1, <1>7 DEF Crash, vars, history, IsPending
<1>8. ASSUME NEW i \in Ids, DrainBegins(i) PROVE Drained'
  BY <1>0, <1>1, <1>8 DEF DrainBegins, IsPending
<1> QED BY <1>2, <1>3, <1>4, <1>5, <1>6, <1>7, <1>8, StepCases

-----------------------------------------------------------------------------
(* Order. *)

InWay(j, i) == Running(j) \/ (j < i <=> IsPending(j))

LEMMA NothingMisplaced ==
    ASSUME NEW i, NEW r
    PROVE  Misplaced(i, r) = {} <=> \A j \in DOMAIN rows \ {i} : rows[j].resource = r => ~InWay(j, i)
BY DEF Misplaced, InWay

\* Only beginnings add to what is being processed.
LEMMA NowRunning ==
    ASSUME TypeOK, NEW k \in Ids, NEW q \in Resources, NEW d \in BOOLEAN, NEW type \in Types,
           Begin(k, type, q, d), rows'[k].type = type
    PROVE  /\ \A i : Running(i)' <=> Running(i) \/ i = k
           /\ disordered \subseteq disordered'
           /\ q \notin disordered' => Misplaced(k, q) = {}
<1>1. runs' = runs \cup {NewRun(k, q, d)} /\ NewRun(k, q, d).intent = k
  BY Begun
<1>2. disordered' = IF Misplaced(k, q) # {} THEN disordered \cup {q} ELSE disordered
  BY DEF Begin
<1> QED BY <1>1, <1>2 DEF Running

LEMMA NextInOrder == TypeOK /\ RunsSound /\ InOrder /\ [Next]_vars => InOrder'
<1> SUFFICES ASSUME TypeOK, RunsSound, InOrder, [Next]_vars,
                    NEW r \in Resources \ disordered', NEW i \in DOMAIN rows',
                    rows'[i].resource = r, Running(i)',
                    NEW j \in DOMAIN rows' \ {i}, rows'[j].resource = r
             PROVE  ~InWay(j, i)'
  BY NothingMisplaced DEF InOrder, InWay, Misplaced
<1>0. \A run \in runs : run.intent \in DOMAIN rows /\ run \in Run
  BY DEF TypeOK, RunsSound
\* While nothing begins.
<1>1. ASSUME disordered' = disordered, i \in DOMAIN rows, j \in DOMAIN rows,
             rows[i].resource = r, rows[j].resource = r,
             Running(i), Running(j)' => Running(j), ~Running(j) => (IsPending(j)' <=> IsPending(j))
      PROVE  ~InWay(j, i)'
  <2>1. Misplaced(i, r) = {}
    BY <1>1 DEF InOrder
  <2>2. ~InWay(j, i)
    BY <1>1, <2>1, NothingMisplaced
  <2> QED BY <1>1, <2>2 DEF InWay
<1>2. ASSUME NEW type \in Types, NEW q \in Resources, HandleIntent(type, q) PROVE ~InWay(j, i)'
  <2>1. PICK n : n = Len(rows) + 1
    OBVIOUS
  <2>d. PICK live \in BOOLEAN : live = FALSE
    OBVIOUS
  <2>2. /\ n \in Ids /\ n \notin DOMAIN rows /\ DOMAIN rows' = DOMAIN rows \cup {n}
        /\ \A m \in DOMAIN rows : rows'[m] = rows[m] /\ m < n
        /\ rows'[n].resource = q /\ ~rows'[n].processed /\ ~rows'[n].failed
    <3>1. DOMAIN rows = 1..Len(rows) /\ Len(rows) \in Nat
      BY <1>2, RowAdded
    <3>2. \A m \in DOMAIN rows : m < n
      BY <2>1, <3>1
    <3>3. /\ n \in Ids /\ n \notin DOMAIN rows /\ DOMAIN rows' = DOMAIN rows \cup {n}
          /\ \A m \in DOMAIN rows : rows'[m] = rows[m]
      BY <1>2, <2>1, RowAdded
    <3>4. rows'[n].resource = q /\ ~rows'[n].processed /\ ~rows'[n].failed
      BY <1>2, <2>1, RowAdded
    <3> QED BY <3>2, <3>3, <3>4
  <2>3. Begin(n, type, q, live) /\ rows'[n].type = type /\ n \in Ids
    BY <1>2, <2>1, <2>d, RowAdded DEF HandleIntent
  <2>4. /\ \A m : Running(m)' <=> Running(m) \/ m = n
        /\ disordered \subseteq disordered' /\ (q \notin disordered' => Misplaced(n, q) = {})
    BY <2>3, NowRunning
  <2>5. CASE q = r
    <3>1. \A m \in DOMAIN rows : rows[m].resource = r => ~InWay(m, n)
      BY <2>2, <2>4, <2>5, NothingMisplaced
    <3>2. i = n
      BY <2>2, <2>4, <3>1 DEF InWay
    <3>3. j \in DOMAIN rows /\ ~InWay(j, n)
      BY <2>2, <3>1, <3>2
    <3> QED BY <2>2, <2>4, <3>2, <3>3 DEF InWay, IsPending
  <2>6. CASE q # r
    <3>1. i \in DOMAIN rows /\ j \in DOMAIN rows /\ i # n /\ j # n
      BY <2>2, <2>6
    <3>2. Misplaced(i, r) = {}
      BY <2>2, <2>4, <3>1 DEF InOrder
    <3>3. ~InWay(j, i)
      BY <2>2, <3>1, <3>2, NothingMisplaced
    <3> QED BY <2>2, <2>4, <3>1, <3>3 DEF InWay, IsPending
  <2> QED BY <2>5, <2>6
<1>3. ASSUME NEW k \in Ids, DrainBegins(k) PROVE ~InWay(j, i)'
  <2>1. PICK d \in BOOLEAN : d = TRUE
    OBVIOUS
  <2>2. PICK q \in Resources : q = rows[k].resource
    BY <1>3, DrainTakes
  <2>3. /\ k \in DOMAIN rows /\ UNCHANGED rows /\ rows[k].type \in Types
        /\ Begin(k, rows[k].type, q, d)
    BY <1>3, <2>1, <2>2, DrainTakes
  <2>4. /\ \A m : Running(m)' <=> Running(m) \/ m = k
        /\ disordered \subseteq disordered' /\ (q \notin disordered' => Misplaced(k, q) = {})
    BY <2>3, NowRunning
  <2>5. CASE i = k
    <3>1. Misplaced(i, r) = {}
      BY <2>2, <2>3, <2>4, <2>5
    <3>2. ~InWay(j, i) /\ j # k
      BY <2>3, <2>5, <3>1, NothingMisplaced
    <3> QED BY <2>3, <2>4, <3>2 DEF InWay, IsPending
  <2>6. CASE i # k
    <3>1. Running(i) /\ r \notin disordered
      BY <2>4, <2>6
    <3>2. q # r
      <4>1. q = r => ~InWay(i, k)
        BY <2>3, <2>4, <2>6, NothingMisplaced
      <4> QED BY <3>1, <4>1 DEF InWay
    <3>3. Misplaced(i, r) = {} /\ j # k
      BY <2>2, <2>3, <3>1, <3>2 DEF InOrder
    <3>4. ~InWay(j, i)
      BY <2>3, <3>3, NothingMisplaced
    <3> QED BY <2>3, <2>4, <3>3, <3>4 DEF InWay, IsPending
  <2> QED BY <2>5, <2>6
<1>4. ASSUME NEW run \in runs, NEW at, NEW s, RunMove(run, at, s) PROVE ~InWay(j, i)'
  <2>1. (Running(i)' <=> Running(i)) /\ (Running(j)' <=> Running(j)) /\ UNCHANGED <<rows, disordered>>
    BY <1>4, RunMoved DEF RunMove
  <2> QED BY <1>1, <2>1 DEF IsPending
<1>5. ASSUME NEW run \in runs, Marks(run) PROVE ~InWay(j, i)'
  <2>1. /\ DOMAIN rows' = DOMAIN rows
        /\ \A m \in DOMAIN rows : rows'[m].resource = rows[m].resource /\ (m # run.intent => rows'[m] = rows[m])
    BY <1>5, RowMarks
  <2>2. runs' \subseteq runs /\ UNCHANGED disordered
    BY <1>5 DEF Marks, history
  <2>3. Running(run.intent) /\ (Running(i)' => Running(i)) /\ (Running(j)' => Running(j))
    BY <2>2 DEF Running
  <2> QED BY <1>1, <2>1, <2>2, <2>3 DEF IsPending
<1>6. CASE DrainLists \/ DrainTurns \/ Start \/ UNCHANGED vars
  <2>1. UNCHANGED <<rows, runs, disordered>>
    BY <1>6 DEF DrainLists, DrainTurns, Start, vars, history
  <2> QED BY <1>1, <2>1 DEF IsPending, Running
<1>7. CASE Crash
  BY <1>7 DEF Crash, Running
<1> QED BY <1>2, <1>3, <1>4, <1>5, <1>6, <1>7, StepCases

\* While an intent of an ordered resource is processed, the latest is that one
\* or has not begun.
LEMMA OnlyRunning ==
    ASSUME TypeOK, RunsSound, InOrder, NEW r \in Resources, NEW i \in DOMAIN rows, NEW k \in DOMAIN rows,
           rows[i].resource = r, rows[k].resource = r, Latest(i), k # i, Misplaced(k, r) = {}
    PROVE  ~rows[i].processed /\ ~Running(i)
<1>1. DOMAIN rows \subseteq Nat /\ k <= i
  BY DEF TypeOK, Latest
<1>2. k < i /\ ~(i < k)
  BY <1>1
<1>3. ~InWay(i, k)
  BY NothingMisplaced
<1> QED BY <1>2, <1>3 DEF InWay, IsPending

LEMMA NextShown == TypeOK /\ RunsSound /\ InOrder /\ Shown /\ [Next]_vars => Shown'
<1> DEFINE Doing(i) == rows[i].processed \/ \E run \in runs : run.intent = i /\ run.at \in {"interact", "done"}
<1> SUFFICES ASSUME TypeOK, RunsSound, InOrder, Shown, [Next]_vars,
                    NEW r \in Resources \ disordered', NEW i \in DOMAIN rows',
                    rows'[i].resource = r, Latest(i)', Doing(i)'
             PROVE  Shows(rows'[i].type, bound'[r])
  BY DEF Shown
<1>0. /\ \A run \in runs : run.intent \in DOMAIN rows /\ run \in Run
      /\ bound \in [Resources -> Session \cup {None}]
  BY DEF TypeOK, RunsSound
<1>a. ASSUME i \in DOMAIN rows, rows[i].resource = r, Latest(i), Doing(i), r \notin disordered
      PROVE  Shows(rows[i].type, bound[r])
  BY <1>a DEF Shown
<1>1. ASSUME UNCHANGED <<rows, bound, disordered>>, runs' \subseteq runs PROVE Shows(rows'[i].type, bound'[r])
  BY <1>a, <1>1 DEF Latest
<1>2. ASSUME NEW type \in Types, NEW q \in Resources, HandleIntent(type, q) PROVE Shows(rows'[i].type, bound'[r])
  <2>1. PICK n : n = Len(rows) + 1
    OBVIOUS
  <2>d. PICK live \in BOOLEAN : live = FALSE
    OBVIOUS
  <2> DEFINE new == NewRun(n, q, live)
  <2>2. /\ n \in Ids /\ n \notin DOMAIN rows /\ DOMAIN rows' = DOMAIN rows \cup {n}
        /\ \A m \in DOMAIN rows : rows'[m] = rows[m] /\ m < n /\ m \in Nat
        /\ rows'[n].type = type /\ rows'[n].resource = q /\ ~rows'[n].processed
    <3>1. DOMAIN rows = 1..Len(rows) /\ Len(rows) \in Nat
      BY <1>2, RowAdded
    <3>2. \A m \in DOMAIN rows : m < n /\ m \in Nat
      BY <2>1, <3>1
    <3>3. n \in Ids /\ n \notin DOMAIN rows /\ DOMAIN rows' = DOMAIN rows \cup {n}
      BY <1>2, <2>1, RowAdded
    <3>5. rows'[n].type = type /\ rows'[n].resource = q /\ ~rows'[n].processed
      BY <1>2, <2>1, RowAdded
    <3>4. \A m \in DOMAIN rows : rows'[m] = rows[m]
      BY <1>2, RowAdded
    <3> QED BY ONLY <3>2, <3>3, <3>4, <3>5
  <2>3. Begin(n, type, q, live) /\ rows'[n].type = type /\ n \in Ids /\ UNCHANGED bound
    BY <1>2, <2>1, <2>d, RowAdded DEF HandleIntent
  <2>4. runs' = runs \cup {new} /\ new.intent = n /\ new.at = First(type, bound[q])
    BY <2>3, Begun
  <2>5. disordered \subseteq disordered'
    BY <2>3, NowRunning
  <2> HIDE DEF new
  <2>6. First(type, bound[q]) \in {"interact", "done"} => Shows(type, bound[q])
    BY <1>0, FirstStage, TypesAssumption
  <2>7. CASE i = n
    <3>1. PICK run \in runs' : run.intent = n /\ run.at \in {"interact", "done"}
      BY <2>2, <2>7
    <3>2. run = new
      BY <1>0, <2>2, <2>4, <3>1
    <3> QED BY <2>2, <2>3, <2>4, <2>6, <2>7, <3>1, <3>2
  <2>8. CASE i # n
    <3>1. i \in DOMAIN rows /\ rows'[i] = rows[i] /\ Doing(i)
      BY <2>2, <2>4, <2>8
    <3>2. Latest(i)
      BY <2>2, <3>1 DEF Latest
    <3> QED BY <1>a, <2>3, <2>5, <3>1, <3>2
  <2> QED BY <2>7, <2>8
<1>3. ASSUME NEW run \in runs, NEW at, NEW s, RunMove(run, at, s) PROVE Shows(rows'[i].type, bound'[r])
  <2>1. /\ UNCHANGED <<rows, disordered>>
        /\ at \in {"interact", "done"} =>
              (run.at = "interact" /\ s = Bound(run)) \/ Shows(TypeOf(run), s)
        /\ Shows(TypeOf(run), Bound(run)) => Shows(TypeOf(run), s)
    BY <1>3 DEF RunMove
  <2>2. /\ \A x \in runs' : x \in runs \/ (x.intent = run.intent /\ x.at = at)
        /\ bound'[ResourceOf(run)] = s /\ run.intent \in DOMAIN rows
        /\ \A q \in Resources : q # ResourceOf(run) => bound'[q] = bound[q]
    BY <1>3, RunMoved
  <2>3. Latest(i) /\ i \in DOMAIN rows /\ rows[i].resource = r /\ r \notin disordered
    BY <2>1 DEF Latest
  <2>4. CASE ResourceOf(run) # r
    <3>1. Doing(i)
      BY <2>1, <2>2, <2>4 DEF ResourceOf
    <3> QED BY <1>a, <2>1, <2>2, <2>3, <2>4, <3>1
  <2>5. CASE ResourceOf(run) = r /\ run.intent # i
    <3>1. Misplaced(run.intent, r) = {}
      BY <2>2, <2>3, <2>5 DEF InOrder, Running, ResourceOf
    <3>2. ~rows[i].processed /\ ~Running(i)
      BY <2>2, <2>3, <2>5, <3>1, OnlyRunning DEF ResourceOf
    <3> QED BY <2>1, <2>2, <2>5, <3>2 DEF Running
  <2>6. CASE ResourceOf(run) = r /\ run.intent = i
    <3>1. TypeOf(run) = rows[i].type /\ Bound(run) = bound[r]
      BY <2>6 DEF TypeOf, Bound
    <3>2. Doing(i) => Shows(TypeOf(run), s)
      BY <1>a, <2>1, <2>3, <3>1
    <3>3. ~Doing(i) => at \in {"interact", "done"} /\ run.at # "interact"
      BY <2>1, <2>2, <2>6
    <3> QED BY <2>1, <2>2, <2>6, <3>1, <3>2, <3>3
  <2> QED BY <2>4, <2>5, <2>6
<1>4. ASSUME NEW run \in runs, Marks(run) PROVE Shows(rows'[i].type, bound'[r])
  <2>1. /\ DOMAIN rows' = DOMAIN rows
        /\ \A m \in DOMAIN rows : /\ rows'[m].resource = rows[m].resource /\ rows'[m].type = rows[m].type
                                  /\ m # run.intent => rows'[m] = rows[m]
        /\ \A m : m = run.intent => (rows'[m].processed <=> rows[m].processed \/ run.at = "done")
    BY <1>4, RowMarks
  <2>2. runs' \subseteq runs /\ UNCHANGED <<disordered, bound>>
    BY <1>4 DEF Marks, history
  <2>3. Doing(i) /\ Latest(i)
    BY <2>1, <2>2 DEF Latest
  <2> QED BY <1>a, <2>1, <2>2, <2>3
<1>5. ASSUME NEW k \in Ids, DrainBegins(k) PROVE Shows(rows'[i].type, bound'[r])
  <2>1. PICK d \in BOOLEAN : d = TRUE
    OBVIOUS
  <2>2. PICK q \in Resources : q = rows[k].resource
    BY <1>5, DrainTakes
  <2>3. /\ k \in DOMAIN rows /\ UNCHANGED <<rows, bound>> /\ rows[k].type \in Types
        /\ Begin(k, rows[k].type, q, d)
    BY <1>5, <2>1, <2>2, DrainTakes DEF DrainBegins
  <2> DEFINE new == NewRun(k, q, d)
  <2>4. runs' = runs \cup {new} /\ new.intent = k /\ new.at = First(rows[k].type, bound[q])
    BY <2>3, Begun
  <2>5. disordered \subseteq disordered' /\ (q \notin disordered' => Misplaced(k, q) = {})
    BY <2>3, NowRunning
  <2> HIDE DEF new
  <2>6. First(rows[k].type, bound[q]) \in {"interact", "done"} => Shows(rows[k].type, bound[q])
    BY <1>0, <2>3, FirstStage, TypesAssumption
  <2>7. Latest(i) /\ r \notin disordered /\ i \in DOMAIN rows
    BY <2>3, <2>5 DEF Latest
  <2>8. CASE Doing(i)
    BY <1>a, <2>3, <2>7, <2>8
  <2>9. CASE ~Doing(i)
    <3>1. i = k /\ new.at \in {"interact", "done"}
      BY <2>3, <2>4, <2>9
    <3> QED BY <2>2, <2>3, <2>4, <2>6, <3>1
  <2> QED BY <2>8, <2>9
<1>6. CASE DrainLists \/ DrainTurns \/ Start \/ Crash \/ UNCHANGED vars
  BY <1>1, <1>6 DEF DrainLists, DrainTurns, Start, Crash, vars, history
<1> QED BY <1>2, <1>3, <1>4, <1>5, <1>6, StepCases

-----------------------------------------------------------------------------
(* The theorems. *)

LEMMA InitInv == Init => IInv
<1> SUFFICES ASSUME Init PROVE IInv
  OBVIOUS
<1>0. /\ rows = <<>> /\ runs = {} /\ page = {} /\ again = {} /\ before = 0 /\ drain = "listing"
      /\ DOMAIN rows = {} /\ Len(rows) = 0 /\ rows \in Seq(Row) /\ \A i \in Ids : delivered[i] = 0
  BY DEF Init
<1>1. bound \in [Resources -> Session \cup {None}]
  BY DEF Init, Session
<1>2. TypeOK
  BY <1>0, <1>1, IntentBounds DEF Init, TypeOK
<1>3. RunsSound /\ InOrder /\ Shown
  BY <1>0 DEF RunsSound, InOrder, Shown
<1>4. OnlyLive /\ Drained
  BY <1>0 DEF OnlyLive, Live, Drained
<1> QED BY <1>2, <1>3, <1>4 DEF IInv

\* The inductive invariant: what is processed, by whom and how far, with the
\* table, the drain's page and the sessions beside it.
THEOREM Invariance == Spec => []IInv
<1>1. Init => IInv
  BY InitInv
<1>2. IInv /\ [Next]_vars => IInv'
  BY NextTyped, NextRunsSound, NextOnlyLive, NextDrained, NextInOrder, NextShown DEF IInv
<1> QED BY <1>1, <1>2, PTL DEF Spec

\* No message is handed on twice without a crash or the drain taking it up, and the
\* drain of a start that has room settles all that was recorded before.
THEOREM DrainRight == Spec => []DrainSound
<1>1. IInv => DrainSound
  BY DEF IInv, DrainSound, DeliveredOnce, DrainSettles, OnlyLive, Live, Drained
<1> QED BY <1>1, Invariance, PTL

\* The latest intent of a resource whose intents stayed in order shows, once it is
\* processed, whatever awaits, failures and crashes came between.
THEOREM LatestRight == Spec => []LatestShows
<1>1. IInv => LatestShows
  BY DEF IInv, LatestShows, Shown, Latest
<1> QED BY <1>1, Invariance, PTL

\* Nothing revives a deleted session but an archive that had looked it up before.
THEOREM RevivedByArchive == Spec => OnlyArchiveRevives
<1> DEFINE Revives == \A r \in Resources :
        bound[r] = None /\ bound'[r] # None /\ bound'[r].id <= made =>
            \E run \in runs : /\ TypeOf(run) = "archive" /\ run.at = "cleanup"
                              /\ run.session.id = bound'[r].id
<1>1. ASSUME IInv, [Next]_vars PROVE Revives
  <2> SUFFICES ASSUME NEW r \in Resources, bound[r] = None, bound'[r] # None, bound'[r].id <= made
               PROVE  \E run \in runs : /\ TypeOf(run) = "archive" /\ run.at = "cleanup"
                                        /\ run.session.id = bound'[r].id
    OBVIOUS
  <2>0. TypeOK /\ RunsSound
    BY <1>1 DEF IInv
  <2>1. ASSUME NEW run \in runs, NEW at, NEW s, RunMove(run, at, s)
        PROVE  /\ TypeOf(run) = "archive" /\ run.at = "cleanup"
               /\ run.session.id = bound'[r].id
    <3>1. ResourceOf(run) = r /\ bound'[r] = s
      BY <2>0, <2>1, RunMoved
    <3>2. Bound(run) = None
      BY <3>1 DEF Bound
    <3> QED BY <2>1, <3>1, <3>2 DEF RunMove
  <2>2. (\E run \in runs : \E at, s : RunMove(run, at, s)) \/ UNCHANGED bound
    BY <1>1, <2>0, StepCases DEF HandleIntent, Marks, DrainLists, DrainTurns, Crash, Start, DrainBegins, vars
  <2> QED BY <2>1, <2>2
<1>2. IInv /\ [Next]_vars => [Revives]_vars
  BY <1>1
<1> QED BY <1>2, Invariance, PTL DEF Spec, OnlyArchiveRevives

=============================================================================
