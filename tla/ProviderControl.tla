--------------------------- MODULE ProviderControl ---------------------------
(***************************************************************************)
(* Provider sessions of the work sessions: a turn and an operator's start  *)
(* have the provider start a session with the copy of the row they hold,   *)
(* and write that copy back when it has; stops write at once.              *)
(***************************************************************************)
EXTENDS Sessions

\* What the runtime ingests of a turn's events into the row as it is then.
Ingested(s, status) == IF Known(s) THEN [rows EXCEPT ![s].status = status] ELSE rows

\* The call goes on with its next session, or ends; a kickoff has had its answer.
Advance(cs, c) ==
  LET rest == calls[c].held \ {Mine(c)}
  IN [cs EXCEPT ![c] = IF calls[c].op = "start" /\ rest # {} THEN Call("start", "next", rest) ELSE NoCall]
Kicked(c, how) ==
  kicks' = IF calls[c].op = "kick" THEN [kicks EXCEPT ![Mine(c).s] = how] ELSE kicks

\* ensureSession: nothing to do for a live session; one that is stopped is not started, nor is one
\* whose connection the policy denies.
EnsureSession(c, e) ==
  CASE ~e.row.auto -> "stopped"
    [] e.row.auto /\ e.s \in live -> "live"
    [] e.row.auto /\ e.s \notin live /\ ~May(c, "net.connect", e.s) -> "refused"
    [] OTHER -> "starting"

\* A direct call or a kickoff that the guard has let pass, or an agent that a plugin runs.
RunTurn(c) ==
  /\ Passed(c, {"direct", "kick"}) \/ calls[c].step = "agent"
  /\ LET e == Mine(c) IN
       CASE EnsureSession(c, e) = "stopped" -> Release(c) /\ Kicked(c, "told") /\ UNCHANGED rows
         [] EnsureSession(c, e) = "refused" -> Release(c) /\ Kicked(c, "failed") /\ UNCHANGED rows
         [] EnsureSession(c, e) = "starting" ->
              calls' = [calls EXCEPT ![c].step = "starting"] /\ UNCHANGED <<kicks, rows>>
         [] OTHER -> /\ calls' = [calls EXCEPT ![c].step = "turn"]
                     /\ rows' = Ingested(e.s, "running")
                     /\ UNCHANGED kicks
  /\ UNCHANGED <<dirs, resources, live, decisionVars>>

\* The provider has started the session: the copy, ready, is written over the row.
SessionStarted(c) ==
  /\ calls[c].step = "starting"
  /\ LET e == Mine(c) IN
       /\ rows' = [rows EXCEPT ![e.s] = [e.row EXCEPT
                     !.status = IF calls[c].op = "start" THEN "ready" ELSE "running"]]
       /\ live' = live \cup {e.s}
       /\ crossed' = IF e.old \/ Ending(e.s) THEN crossed \cup {e.s} ELSE crossed
       /\ calls' = IF calls[c].op = "start" THEN Advance(calls, c) ELSE [calls EXCEPT ![c].step = "turn"]
  /\ UNCHANGED <<dirs, resources, kicks, said, asked, quiet, extra>>

\* It could not: a turn fails, a start writes the copy with the error.
StartFails(c) ==
  /\ calls[c].step = "starting"
  /\ LET e == Mine(c) IN
       IF calls[c].op = "start"
       THEN /\ rows' = [rows EXCEPT ![e.s] = [e.row EXCEPT !.status = "error"]]
            /\ crossed' = IF e.old THEN crossed \cup {e.s} ELSE crossed
            /\ UNCHANGED kicks
       ELSE Kicked(c, "failed") /\ UNCHANGED <<rows, crossed>>
  /\ calls' = Advance(calls, c)
  /\ UNCHANGED <<dirs, resources, live, said, asked, quiet, extra>>

\* The turn completes, or it is aborted, rejected or given up.
TurnEnds(c) ==
  /\ calls[c].step = "turn"
  /\ \/ Mine(c).s \in live /\ rows' = Ingested(Mine(c).s, "ready") /\ Kicked(c, "told")
     \/ rows' = Ingested(Mine(c).s, "error") /\ Kicked(c, "failed")
  /\ Release(c)
  /\ UNCHANGED <<dirs, resources, live, decisionVars>>

-----------------------------------------------------------------------------
(* What the supervisor or an operator asks of the provider sessions.       *)

\* Asked of the guard first, for an operator; the supervisor's own requests run as the runtime.
MayControl(target) ==
  Evaluate(profile, [actor |-> <<"runtime", "control">>, action |-> "runtime.control", target |-> target])

Stopped(S) ==
  /\ rows' = [s \in Sessions |-> IF s \in S /\ Known(s)
                                 THEN [rows[s] EXCEPT !.auto = FALSE, !.status = "closed"] ELSE rows[s]]
  /\ asked' = [s \in Sessions |-> asked[s] /\ s \notin S]
  /\ calls' = Outdate(calls, S)

StopSession(s) ==
  /\ Known(s) /\ MayControl(<<s>>)
  /\ Stopped({s})
  /\ live' = live \ {s}
  /\ quiet' = quiet \cup {s}
  /\ UNCHANGED <<dirs, resources, kicks, said, crossed, extra, autoDefault>>

\* Archived sessions keep their setting, and sessions created from now on start stopped.
StopAllSessions ==
  /\ MayControl(<<>>)
  /\ Stopped(Active)
  /\ autoDefault' = FALSE
  /\ live' = {}
  /\ quiet' = quiet \cup Active
  /\ UNCHANGED <<dirs, resources, kicks, said, crossed, extra>>


Wanted(row) == [row EXCEPT !.auto = TRUE, !.status = "connecting"]

\* The next session of the list is written as it was listed, and started.
StartNext(c, e, cs) ==
  /\ rows' = [rows EXCEPT ![e.s] = Wanted(e.row)]
  /\ asked' = IF e.old THEN asked ELSE [asked EXCEPT ![e.s] = TRUE]
  /\ quiet' = IF e.old THEN quiet ELSE quiet \ {e.s}
  /\ crossed' = IF e.old THEN crossed \cup {e.s} ELSE crossed
  /\ LET others == {f \in cs[c].held : f.s # e.s}
         entry == [e EXCEPT !.row = Wanted(e.row)]
         step == IF e.s \in live THEN "next" ELSE "starting"
         left == IF e.s \in live THEN others ELSE others \cup {entry}
     IN calls' = [Outdate(cs, {e.s}) EXCEPT ![c] = IF left = {} THEN NoCall ELSE Call("start", step, left)]
  /\ UNCHANGED <<dirs, resources, live, kicks, said, extra>>

\* One session, archived or not, or all that are active: their rows are listed once.
StartSession(c, s) ==
  /\ Free(c) /\ Known(s) /\ MayControl(<<s>>)
  /\ StartNext(c, Entry(s), [calls EXCEPT ![c] = Call("start", "next", {Entry(s)})])
  /\ UNCHANGED autoDefault

StartAllSessions(c) ==
  /\ Free(c) /\ MayControl(<<>>)
  /\ autoDefault' = TRUE
  /\ LET all == {Entry(s) : s \in Active} IN
       IF all = {} THEN UNCHANGED <<rows, dirs, resources, live, calls, kicks, decisionVars>>
       ELSE StartNext(c, First(all), [calls EXCEPT ![c] = Call("start", "next", all)])

StartsNext(c) ==
  /\ calls[c].op = "start" /\ calls[c].step = "next"
  /\ StartNext(c, Mine(c), calls)
  /\ UNCHANGED autoDefault
=============================================================================
