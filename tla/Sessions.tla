------------------------------ MODULE Sessions ------------------------------
(***************************************************************************)
(* Managed work sessions: their rows, workspaces and transport resources,  *)
(* and the calls that create, bind, archive, delete and resume them.       *)
(* Every call awaits something (the guard, the transport, sidecars) between *)
(* the copy of the row it takes and what it writes; other calls run then.  *)
(* The sweep cools and archives sessions that nobody uses.  A session is   *)
(* identified with its transport resource; ids are taken in order.         *)
(***************************************************************************)
EXTENDS Policy

CONSTANTS
  Sessions, Calls,   \* sessions; the calls that can be under way at once
  ActorOf,           \* the actor that each call's guard is asked about
  Limit,             \* active managed sessions of the one owner
  CoolAfter, ArchiveAfter, MaxTime,
  Absent

VARIABLES
  now,
  rows,        \* runtime_sessions
  dirs,        \* the sessions whose workspace exists
  resources,   \* the sessions whose transport resource exists
  autoDefault, \* providerAutoStartDefault
  live,        \* the sessions that run in the provider
  calls,       \* what each call does; the job of a session on the command queue is a call as well
  kicks,       \* the initial kickoff of a session
  profile,     \* the policy profile
  \* what the calls decided last, to compare the rows with
  said, asked, quiet,
  crossed,     \* sessions written from an outdated copy, or whose calls crossed
  extra        \* sessions that became active past the check of the limit

\* A job that its plugin outlives goes on beside the queue, in a slot of its own.
Adrift(s) == -s
Slots == Calls \cup Sessions \cup {Adrift(s) : s \in Sessions}

SessionRow == [life : {"hot", "cool", "archived"}, auto : BOOLEAN,
               status : {"connecting", "ready", "running", "error", "closed"}, seen : 0..MaxTime]

NoCall == [op |-> "none", step |-> "none", held |-> {}, fresh |-> FALSE, at |-> 0]
Call(op, step, held) == [NoCall EXCEPT !.op = op, !.step = step, !.held = held]

Entry(s) == [s |-> s, row |-> rows[s], old |-> FALSE]
\* The entry a call works on; a sweep and a start of all sessions hold several.
First(held) == CHOOSE e \in held : \A f \in held : e.s <= f.s
Mine(c) == First(calls[c].held)

Free(c) == calls[c].op = "none"
Known(s) == rows[s] # Absent
Active == {s \in Sessions : Known(s) /\ rows[s].life # "archived"}
FreshResource == {s \in Sessions : said[s] = "none" /\ s \notin resources
                                   /\ \A q \in Sessions : q < s => q \in resources \/ said[q] # "none"}

\* A decision about sessions makes the copies that calls hold of them outdated.
Outdate(cs, decided) ==
  [c \in Slots |-> [cs[c] EXCEPT !.held = {[e EXCEPT !.old = @ \/ e.s \in decided] : e \in cs[c].held}]]
\* A session that becomes active makes the checks of the limit outdated.
Rejoin(cs) == [c \in Slots |-> [cs[c] EXCEPT !.fresh = FALSE]]

Set(c, call) == calls' = [calls EXCEPT ![c] = call]
Release(c) == Set(c, NoCall)

ActionOf(op) ==
  CASE op \in {"create", "bind"} -> "session.create"
    [] op \in {"direct", "kick"} -> "session.direct"
    [] op = "archive" -> "session.archive"
    [] op = "resume" -> "session.resume"
    [] OTHER -> "session.delete"

May(c, action, s) == Evaluate(profile, [actor |-> ActorOf[c], action |-> action, target |-> <<s>>])
MayDo(c, s) == May(c, ActionOf(calls[c].op), s)

\* A call has the provider start the session; a call is ending the session.
Starting(s) == \E d \in Slots : calls[d].step = "starting" /\ Mine(d).s = s
Ending(s) == \E d \in Slots : calls[d].step = "cleanup" /\ Mine(d).s = s

decisionVars == <<said, asked, quiet, crossed, extra>>

-----------------------------------------------------------------------------
(* Creating and binding.                                                   *)

NewRow == [life |-> "hot", auto |-> autoDefault, status |-> "connecting", seen |-> now]

\* Mutant of CreateManagedSession: the limit lets one more in.
CreatePastLimit(c) ==
  /\ Free(c) /\ Cardinality(Active) <= Limit
  /\ Set(c, [Call("create", "creating", {}) EXCEPT !.fresh = TRUE])
  /\ UNCHANGED <<rows, dirs, resources, live, kicks, decisionVars>>

CreateManagedSession(c) ==
  /\ Free(c) /\ Cardinality(Active) < Limit
  /\ Set(c, [Call("create", "creating", {}) EXCEPT !.fresh = TRUE])
  /\ UNCHANGED <<rows, dirs, resources, live, kicks, decisionVars>>

\* The transport makes the conversation; it, or the policy, may refuse.
ResourceCreated(c) ==
  /\ calls[c].step = "creating"
  /\ \/ \E s \in FreshResource :
          /\ MayDo(c, s)
          /\ resources' = resources \cup {s}
          /\ calls' = [calls EXCEPT ![c].step = "made", ![c].held = {Entry(s)}]
     \/ Release(c) /\ UNCHANGED resources
  /\ UNCHANGED <<rows, dirs, live, kicks, decisionVars>>

\* A message in a conversation without session: one that users made, or that a create just made.
BindManagedSession(c, s) ==
  /\ Free(c) /\ ~Known(s) /\ said[s] = "none" /\ s \in resources \cup FreshResource
  /\ Cardinality(Active) < Limit
  /\ resources' = resources \cup {s}
  /\ Set(c, [Call("bind", "made", {Entry(s)}) EXCEPT !.fresh = TRUE])
  /\ UNCHANGED <<rows, dirs, live, kicks, decisionVars>>

Insert(c) ==
  /\ calls[c].step = "made"
  /\ LET s == Mine(c).s IN
       IF Known(s) \/ ~MayDo(c, s)
       THEN Release(c) /\ UNCHANGED <<rows, dirs, decisionVars>>
       ELSE /\ rows' = [rows EXCEPT ![s] = NewRow]
            /\ dirs' = dirs \cup {s}
            /\ said' = [said EXCEPT ![s] = "active"]
            /\ asked' = [asked EXCEPT ![s] = autoDefault]
            /\ extra' = IF calls[c].fresh THEN extra ELSE extra \cup {s}
            /\ \E kickoff \in IF calls[c].op = "create" THEN BOOLEAN ELSE {FALSE} :
                 calls' = Rejoin(Outdate([calls EXCEPT ![c] =
                            IF kickoff THEN Call("create", "notice", {[Entry(s) EXCEPT !.row = NewRow]})
                            ELSE NoCall], {s}))
            /\ quiet' = quiet \ {s}
            /\ crossed' = IF s \in resources THEN crossed ELSE crossed \cup {s}
  /\ UNCHANGED <<resources, live, kicks>>

\* The notice of the kickoff is posted, or not: then the kickoff joins the queue of the resource.
Noticed(c) ==
  /\ calls[c].step = "notice"
  /\ kicks' = [kicks EXCEPT ![Mine(c).s] = "queued"]
  /\ Release(c)
  /\ UNCHANGED <<rows, dirs, resources, live, decisionVars>>

-----------------------------------------------------------------------------
(* Calls about one session: the row is copied, then the guard is awaited.  *)

MayBegin(op, s) ==
  /\ Known(s)
  /\ op = "direct" => rows[s].life # "archived"
  /\ op = "delete" => rows[s].life = "archived"
  /\ op = "resume" => rows[s].life # "hot"

BeginCall(c, op, s) ==
  /\ Free(c) /\ MayBegin(op, s)
  /\ Set(c, Call(op, "guard", {Entry(s)}))
  /\ UNCHANGED <<rows, dirs, resources, live, kicks, decisionVars>>

Denied(c) ==
  /\ calls[c].step = "guard" /\ ~MayDo(c, Mine(c).s)
  /\ Release(c)
  /\ kicks' = IF calls[c].op = "kick" THEN [kicks EXCEPT ![Mine(c).s] = "failed"] ELSE kicks
  /\ UNCHANGED <<rows, dirs, resources, live, decisionVars>>

Passed(c, ops) == calls[c].step = "guard" /\ calls[c].op \in ops /\ MayDo(c, Mine(c).s)

\* The provider session ends; then sidecars are awaited. Deletion of an archived session has the
\* transport delete the conversation before, at best.
EndProvider(c) ==
  /\ Passed(c, {"archive", "delete", "drop", "forget"})
  /\ LET s == Mine(c).s IN
       /\ live' = live \ {s}
       /\ quiet' = quiet \cup {s}
       /\ resources' \in IF calls[c].op = "delete" THEN {resources, resources \ {s}} ELSE {resources}
       /\ crossed' = IF Starting(s) \/ (calls[c].op = "delete" /\ s \in Active) THEN crossed \cup {s} ELSE crossed
       /\ calls' = [calls EXCEPT ![c].step = "cleanup"]
  /\ UNCHANGED <<rows, dirs, kicks, said, asked, extra>>

Cleaned(c, op) == calls[c].step = "cleanup" /\ calls[c].op = op

\* The copy taken before the awaits is written back, archived.
ArchiveManagedSession(c) ==
  /\ Cleaned(c, "archive")
  /\ LET e == Mine(c) IN
       /\ rows' = [rows EXCEPT ![e.s] = [e.row EXCEPT !.life = "archived", !.status = "closed"]]
       /\ said' = IF e.old THEN said ELSE [said EXCEPT ![e.s] = "archived"]
       /\ crossed' = IF e.old THEN crossed \cup {e.s} ELSE crossed
       /\ extra' = extra \ {e.s}
       /\ calls' = Outdate([calls EXCEPT ![c] = NoCall], {e.s})
  /\ UNCHANGED <<dirs, resources, live, kicks, asked, quiet>>

Removed(c, s, workspaceToo) ==
  /\ rows' = [rows EXCEPT ![s] = Absent]
  /\ dirs' = IF workspaceToo THEN dirs \ {s} ELSE dirs
  /\ said' = [said EXCEPT ![s] = "deleted"]
  /\ extra' = extra \ {s}
  /\ calls' = Outdate([calls EXCEPT ![c] = NoCall], {s})

\* The row is read again: one that was resumed meanwhile stays, without its conversation.
DeleteManagedSession(c) ==
  /\ Cleaned(c, "delete")
  /\ LET s == Mine(c).s IN
       IF Known(s) /\ rows[s].life = "archived"
       THEN Removed(c, s, TRUE) /\ UNCHANGED crossed
       ELSE Release(c) /\ crossed' = crossed \cup {s} /\ UNCHANGED <<rows, dirs, said, extra>>
  /\ UNCHANGED <<resources, live, kicks, asked, quiet>>

DeleteManagedSessionNow(c) ==
  /\ Cleaned(c, "drop") \/ Cleaned(c, "forget")
  /\ LET s == Mine(c).s IN
       IF Known(s) THEN Removed(c, s, calls[c].op = "drop")
       ELSE Release(c) /\ UNCHANGED <<rows, dirs, said, extra>>
  /\ UNCHANGED <<resources, live, kicks, asked, quiet, crossed>>

\* Of an archived session or a cool one; the limit is not asked for.
ResumeManagedSession(c) ==
  /\ Passed(c, {"resume"})
  /\ LET s == Mine(c).s IN
       IF ~Known(s)
       THEN Release(c) /\ UNCHANGED <<rows, decisionVars>>
       ELSE /\ rows' = [rows EXCEPT ![s] = [life |-> "hot", auto |-> TRUE, seen |-> now,
                          status |-> IF rows[s].status = "closed" THEN "connecting" ELSE rows[s].status]]
            /\ said' = [said EXCEPT ![s] = "active"]
            /\ asked' = [asked EXCEPT ![s] = TRUE]
            /\ quiet' = quiet \ {s}
            /\ extra' = IF s \in Active THEN extra ELSE extra \cup {s}
            /\ crossed' = IF s \in resources THEN crossed ELSE crossed \cup {s}
            /\ calls' = Rejoin(Outdate([calls EXCEPT ![c] = NoCall], {s}))
  /\ UNCHANGED <<dirs, resources, live, kicks>>

-----------------------------------------------------------------------------
(* The lifecycle tick.                                                     *)

\* Mutant of RecordActivity: activity makes an archived session hot again.
ActivityRevives(s) ==
  IF Known(s) THEN [rows EXCEPT ![s].life = "hot", ![s].seen = now] ELSE rows

RecordActivity(s) ==
  IF Known(s) /\ rows[s].life # "archived"
  THEN [rows EXCEPT ![s].life = "hot", ![s].seen = now]
  ELSE rows

Idle(s, age) == s \in Active /\ now - rows[s].seen >= age

\* Cools at once what is idle; what is idle too long is listed, and archived one by one.
Sweep(c) ==
  /\ Free(c)
  /\ \E s \in Active : Idle(s, IF rows[s].life = "hot" THEN CoolAfter ELSE ArchiveAfter)
  /\ rows' = [s \in Sessions |-> IF Idle(s, CoolAfter) /\ ~Idle(s, ArchiveAfter)
                                 THEN [rows[s] EXCEPT !.life = "cool"] ELSE rows[s]]
  /\ LET due == {Entry(s) : s \in {q \in Sessions : Idle(q, ArchiveAfter)}}
     IN Set(c, IF due = {} THEN NoCall ELSE Call("sweep", "next", due))
  /\ UNCHANGED <<dirs, resources, live, kicks, decisionVars>>

\* The row is read again; the provider session of one that is archived goes on.
SweepNext(c) ==
  /\ calls[c].op = "sweep"
  /\ LET e == Mine(c)
         rest == calls[c].held \ {e}
         after == [calls EXCEPT ![c] = IF rest = {} THEN NoCall ELSE Call("sweep", "next", rest)]
     IN IF e.s \in Active
        THEN /\ rows' = [rows EXCEPT ![e.s].life = "archived"]
             /\ said' = [said EXCEPT ![e.s] = "archived"]
             /\ calls' = Outdate(after, {e.s})
             /\ extra' = extra \ {e.s}
        ELSE calls' = after /\ UNCHANGED <<rows, said, extra>>
  /\ UNCHANGED <<dirs, resources, live, kicks, asked, quiet, crossed>>
=============================================================================
