-------------------- MODULE OrchestrationRequestsProofs --------------------
(***************************************************************************)
(* Proofs about OrchestrationRequests for any callers, any contents, any   *)
(* finite set of workers that start, overlap, stop and crash, and any      *)
(* number of rows and minutes; and about Packages for any finite set of    *)
(* packages of any dependencies and members, any answers of the registry,  *)
(* any fetches, calls, crashes and imports.                                *)
(***************************************************************************)
EXTENDS OrchestrationRequests, Packages, FiniteSetTheorems, TLAPS

-----------------------------------------------------------------------------
(* The inductive invariant. *)

\* Rows are inserted in the order of their ids, none of a minute to come.
InOrder ==
    /\ \A q, r \in Ids : q < r /\ r \in Used => q \in Used
    /\ \A r \in Used : rows[r].window <= window

\* A row has been claimed exactly when it is no longer pending.
Attempted == \A r \in Used : (rows[r].status = "pending") <=> (rows[r].attempt = 0)

\* What is in flight has been claimed, once, by a worker that had recovered.
Claimed ==
    /\ \A e \in inFlight : /\ e.id \in Used /\ rows[e.id].status # "pending"
                           /\ e.attempt = 1
                           /\ recovered[e.worker]
    /\ \A e, f \in inFlight : e.id = f.id => e = f

\* Side effects belong to claimed rows, and to executions that made them.
Performed ==
    /\ \A r \in Ids : performed[r] \in 0..1
    /\ \A r \in Ids : r \notin Used \/ rows[r].status = "pending" => performed[r] = 0
    /\ \A e \in inFlight : ~e.performed => performed[e.id] = 0

\* Only a worker at work or draining has something left to claim.
AtWork ==
    /\ \A w \in Workers : listed[w] # {} => recovered[w] /\ state[w] \in {"up", "draining"}
    /\ \A w \in Workers : recovered[w] => state[w] # "new"

\* A running row is in flight in the worker that owns it, while that is not
\* closed or dead.
Held ==
    \A r \in Used : rows[r].status = "running" =>
        /\ rows[r].owner \in Workers
        /\ state[rows[r].owner] \in {"up", "stopping", "draining"} =>
               \E e \in inFlight : e.id = r /\ e.worker = rows[r].owner
        /\ state[rows[r].owner] # "new"

\* A key of this minute has a latest row, and all rows of a key before its
\* latest one have failed for good.
Superseded ==
    /\ \A content \in Contents : SameKey(content) # {} => Latest(content) # {}
    /\ \A q, r \in Used :
           q < r /\ rows[q].content = rows[r].content /\ rows[q].window = rows[r].window =>
               q \in usurped \/ rows[q].status = "failed"

\* Callers were told of rows that exist.
Told == \A t \in told : t[1] \in Used

RowsInv  == TypeOK /\ InOrder /\ Attempted /\ Claimed /\ AtWork /\ InFlightIsRunning
OwnerInv == Held /\ CleanStop
IInv == RowsInv /\ Performed /\ OwnerInv /\ Superseded /\ Told /\ AnswersHold

-----------------------------------------------------------------------------
(* Types. *)

\* What the bounds say of ids, minutes and attempts.
LEMMA Bounds ==
    /\ Ids = 1..MaxRequests /\ MaxRequests \in Nat /\ MaxRequests >= 1
    /\ MaxWindow \in Nat /\ MaxWindow >= 1
    /\ Ids \subseteq Nat /\ None \notin Workers
BY BoundsAssumption, CallersAssumption DEF Ids

\* A row that is not None is a row.
LEMMA UsedRow ==
    ASSUME TypeOK, NEW r \in Used
    PROVE  r \in Ids /\ rows[r] \in Row
BY DEF TypeOK, Used

LEMMA InitTyped == Init => TypeOK
BY Bounds DEF Init, TypeOK

\* A claimed row is a row, and what the claim puts in flight an execution.
LEMMA TakenTyped ==
    ASSUME TypeOK, Attempted, NEW w \in Workers, NEW r \in Ids, Claimable(r)
    PROVE  /\ Taken(w, r) \in Row
           /\ [worker |-> w, id |-> r, performed |-> FALSE, attempt |-> rows[r].attempt + 1] \in Execution
<1>1. rows[r] \in Row /\ rows[r].attempt = 0
  BY UsedRow DEF Claimable, Attempted
<1>2. rows[r].attempt + 1 \in 0..1
  BY <1>1
<1>3. \A n \in 0..1 : [rows[r] EXCEPT !.status = "running", !.owner = w, !.attempt = n, !.token = None] \in Row
  BY <1>1 DEF Row, Statuses
<1> QED BY <1>2, <1>3 DEF Taken, Execution

LEMMA ClaimTyped ==
    ASSUME TypeOK, Attempted, NEW w \in Workers, NEW r \in Ids, Claim(w, r)
    PROVE  TypeOK'
<1>1. CASE Claimable(r)
  <2>0. rows' = [rows EXCEPT ![r] = Taken(w, r)]
    BY <1>1 DEF Claim
  <2>1. rows' \in [Ids -> Row \cup {None}]
    BY <1>1, <2>0, TakenTyped DEF TypeOK
  <2>2. inFlight' \subseteq Execution
    BY <1>1, TakenTyped DEF Claim, TypeOK
  <2>3. listed' \in [Workers -> SUBSET Ids] /\ late' \subseteq Ids
    BY DEF Claim, TypeOK
  <2> QED BY <2>1, <2>2, <2>3 DEF Claim, TypeOK
<1>2. CASE ~Claimable(r)
  BY <1>2 DEF Claim, TypeOK
<1> QED BY <1>1, <1>2

\* So is a row with an outcome.
LEMMA OutcomeTyped ==
    ASSUME TypeOK, NEW e \in inFlight, e.id \in Used, NEW status \in {"completed", "failed"}
    PROVE  Outcome(e, status) \in Row
<1>1. rows[e.id] \in Row /\ e \in Execution
  BY UsedRow DEF TypeOK
<1> QED BY <1>1 DEF Outcome, Row, Execution, Statuses

\* And an abandoned one.
LEMMA AbandonedTyped ==
    ASSUME TypeOK, NEW w \in Workers, NEW r \in Used
    PROVE  Abandoned(w, r) \in Row
<1>1. rows[r] \in Row
  BY UsedRow
<1> QED BY <1>1 DEF Abandoned, Row, Statuses

LEMMA NextTyped == TypeOK /\ Attempted /\ Claimed /\ [Next]_vars => TypeOK'
<1> SUFFICES ASSUME TypeOK, Attempted, Claimed, [Next]_vars PROVE TypeOK'
  OBVIOUS
<1> USE Bounds
<1>1. ASSUME NEW c \in Callers, NEW content \in Contents, CallJoins(c, content) PROVE TypeOK'
  BY <1>1 DEF CallJoins, Reusable, Latest, SameKey, Used, TypeOK, history
<1>2. ASSUME NEW c \in Callers, NEW content \in Contents, CallInserts(c, content) PROVE TypeOK'
  <2>1. NewRow(content) \in Row
    BY DEF NewRow, Row, Statuses, TypeOK
  <2> QED BY <1>2, <2>1 DEF CallInserts, TypeOK, history
<1>3. ASSUME NEW c \in Callers, CallReturns(c) PROVE TypeOK'
  <2>1. rows[waiting[c]] \in Row /\ waiting[c] \in Ids /\ waiting[c] \notin Open
    BY <1>3, UsedRow DEF CallReturns
  <2>2. rows[waiting[c]].status \in {"completed", "failed"}
    BY <1>3, <2>1 DEF CallReturns, Open, Row, Statuses
  <2> QED BY <1>3, <2>1, <2>2 DEF CallReturns, TypeOK, history
<1>4. ASSUME NEW c \in Callers, CallTimesOut(c) PROVE TypeOK'
  BY <1>4 DEF CallTimesOut, TypeOK, history
<1>5. CASE NextMinute
  BY <1>5 DEF NextMinute, TypeOK, history
<1>6. ASSUME NEW w \in Workers, NEW r \in Ids, Claim(w, r) PROVE TypeOK'
  BY <1>6, ClaimTyped
<1>7. ASSUME NEW w \in Workers, Recover(w) PROVE TypeOK'
  <2>1. \A r \in Ids : IsAbandoned(w, r) => Abandoned(w, r) \in Row
    BY AbandonedTyped DEF IsAbandoned
  <2>2. usurped' \subseteq Ids
    <3>1. usurped' \subseteq usurped \cup Used
      BY <1>7 DEF Recover, IsAbandoned
    <3> QED BY <3>1 DEF TypeOK, Used
  <2> QED BY <1>7, <2>1, <2>2 DEF Recover, TypeOK
<1>8. ASSUME NEW w \in Workers,
             StartWorker(w) \/ Poll(w) \/ StopPoller(w) \/ LastDrain(w) \/ Close(w) \/ CloseForced(w) \/ Exit(w)
      PROVE  TypeOK'
  <2>1. Open \subseteq Ids
    BY DEF Open, Used
  <2>2. CASE StartWorker(w) \/ StopPoller(w)
    BY <2>2 DEF StartWorker, StopPoller, TypeOK, history
  <2>3. CASE Poll(w)
    BY <2>1, <2>3 DEF Poll, TypeOK, history
  <2>6. CASE LastDrain(w)
    BY <2>1, <2>6 DEF LastDrain, TypeOK, history
  <2>4. CASE Close(w) \/ CloseForced(w)
    BY <2>4 DEF Close, CloseForced, TypeOK, history
  <2>5. CASE Exit(w)
    BY <2>5 DEF Exit, TypeOK, history
  <2> QED BY <1>8, <2>2, <2>3, <2>4, <2>5, <2>6
<1>9. ASSUME NEW e \in inFlight, Perform(e) PROVE TypeOK'
  <2>1. [e EXCEPT !.performed = TRUE] \in Execution /\ e.id \in Ids
    BY DEF TypeOK, Execution
  <2>2. inFlight' \subseteq Execution
    BY <1>9, <2>1 DEF Perform, TypeOK
  <2>3. performed' \in [Ids -> Nat]
    BY <1>9, <2>1 DEF Perform, TypeOK
  <2> QED BY <1>9, <2>2, <2>3 DEF Perform, TypeOK, history
<1>10. ASSUME NEW e \in inFlight, NEW status \in {"completed", "failed"}, Settle(e, status) PROVE TypeOK'
  <2>1. Outcome(e, status) \in Row
    BY OutcomeTyped DEF Claimed
  <2> QED BY <1>10, <2>1 DEF Settle, TypeOK, history
<1>11. CASE UNCHANGED vars
  BY <1>11 DEF vars, TypeOK
<1> QED BY <1>1, <1>2, <1>3, <1>4, <1>5, <1>6, <1>7, <1>8, <1>9, <1>10, <1>11 DEF Next

-----------------------------------------------------------------------------
(* How each action changes the rows. *)

\* The least free id is above all that are used; its row is new.
LEMMA InsertRows ==
    ASSUME TypeOK, InOrder, NEW c \in Callers, NEW content \in Contents, CallInserts(c, content)
    PROVE  \E r \in Ids \ Used :
             /\ \A q \in Used : q < r
             /\ Used' = Used \cup {r}
             /\ \A q \in Used : rows'[q] = rows[q]
             /\ rows'[r] = NewRow(content)
<1>1. PICK r \in Ids \ Used : /\ \A q \in Ids \ Used : r <= q
                             /\ rows' = [rows EXCEPT ![r] = NewRow(content)]
  BY DEF CallInserts
<1>2. NewRow(content) # None /\ rows'[r] = NewRow(content) /\ \A q \in Ids \ {r} : rows'[q] = rows[q]
  <2>1. NewRow(content) \in Row
    BY Bounds DEF NewRow, Row, Statuses, TypeOK
  <2> QED BY <1>1, <2>1, NoneAssumption DEF TypeOK
<1>3. Used' = Used \cup {r}
  BY <1>1, <1>2 DEF Used
<1>4. ASSUME NEW q \in Used PROVE q < r
  <2>1. q \in Ids /\ r \in Nat /\ q \in Nat /\ q # r
    BY <1>1, Bounds DEF Used
  <2>2. ~(r < q)
    BY <1>1, <1>4, <2>1 DEF InOrder
  <2> QED BY <2>1, <2>2
<1> QED BY <1>1, <1>2, <1>3, <1>4 DEF Used

\* A claim changes one row, which was pending, and puts it in flight.
LEMMA ClaimRows ==
    ASSUME RowsInv, NEW w \in Workers, NEW r \in Ids, Claim(w, r), Claimable(r)
    PROVE  /\ r \in Used /\ rows[r].status = "pending"
           /\ \A q \in Ids \ {r} : rows'[q] = rows[q]
           /\ rows'[r].status = "running" /\ rows'[r].owner = w /\ rows'[r].attempt = 1
           /\ rows'[r].content = rows[r].content /\ rows'[r].window = rows[r].window
           /\ Used' = Used
           /\ \A e \in inFlight : e.id # r
           /\ \E f \in inFlight' : /\ inFlight' = inFlight \cup {f} /\ f.worker = w /\ f.id = r
                                   /\ ~f.performed /\ f.attempt = 1
<1>1. r \in Used /\ rows[r] \in Row /\ rows[r].status = "pending" /\ rows[r].attempt = 0
  BY UsedRow DEF Claimable, RowsInv, Attempted
<1>2. rows' = [rows EXCEPT ![r] = Taken(w, r)]
  BY DEF Claim
<1>3. \A q \in Ids \ {r} : rows'[q] = rows[q]
  BY <1>2 DEF RowsInv, TypeOK
<1>4. rows'[r] = Taken(w, r)
  BY <1>2 DEF RowsInv, TypeOK
<1>5. /\ rows'[r].status = "running" /\ rows'[r].owner = w /\ rows'[r].attempt = 1
      /\ rows'[r].content = rows[r].content /\ rows'[r].window = rows[r].window
  <2>1. rows[r].attempt + 1 = 1
    BY <1>1
  <2> QED BY <1>1, <1>4, <2>1 DEF Taken, Row
<1>6. Used' = Used
  <2>1. rows'[r] \in Row
    BY <1>4, TakenTyped DEF RowsInv
  <2> QED BY <1>1, <1>3, <2>1, NoneAssumption DEF Used
<1>7. \A e \in inFlight : e.id # r
  BY <1>1 DEF RowsInv, Claimed
<1>8. inFlight' = inFlight \cup {[worker |-> w, id |-> r, performed |-> FALSE, attempt |-> rows[r].attempt + 1]}
  BY DEF Claim
<1> DEFINE f == [worker |-> w, id |-> r, performed |-> FALSE, attempt |-> rows[r].attempt + 1]
<1>9. f \in inFlight' /\ inFlight' = inFlight \cup {f} /\ f.worker = w /\ f.id = r /\ ~f.performed /\ f.attempt = 1
  BY <1>1, <1>8
<1> HIDE DEF f
<1> QED BY <1>1, <1>3, <1>5, <1>6, <1>7, <1>9

\* Recovery changes the running rows only, and those to failed.
LEMMA RecoverRows ==
    ASSUME TypeOK, NEW w \in Workers, Recover(w)
    PROVE  /\ Used' = Used
           /\ \A r \in Used : IsAbandoned(w, r) =>
                /\ rows[r].status = "running" /\ rows'[r].status = "failed"
                /\ rows'[r].content = rows[r].content /\ rows'[r].window = rows[r].window
                /\ rows'[r].attempt = rows[r].attempt
           /\ \A r \in Ids : ~IsAbandoned(w, r) => rows'[r] = rows[r]
<1>1. \A r \in Ids : rows'[r] = IF IsAbandoned(w, r) THEN Abandoned(w, r) ELSE rows[r]
  BY DEF Recover
<1>2. ASSUME NEW r \in Used, IsAbandoned(w, r)
      PROVE  /\ rows[r].status = "running" /\ rows'[r].status = "failed" /\ rows'[r] # None
             /\ rows'[r].content = rows[r].content /\ rows'[r].window = rows[r].window
             /\ rows'[r].attempt = rows[r].attempt
  <2>1. rows[r] \in Row /\ r \in Ids /\ rows'[r] = Abandoned(w, r)
    BY <1>1, <1>2, UsedRow
  <2>2. rows'[r] # None
    BY <2>1, AbandonedTyped, NoneAssumption
  <2> QED BY <1>2, <2>1, <2>2 DEF Abandoned, IsAbandoned, Row
<1>3. Used' = Used
  BY <1>1, <1>2 DEF Used, IsAbandoned
<1> QED BY <1>1, <1>2, <1>3

\* An outcome is written to the row in flight, and to no other.
LEMMA SettleRows ==
    ASSUME TypeOK, Claimed, NEW e \in inFlight, NEW status \in {"completed", "failed"}, Settle(e, status),
           state[e.worker] # "closed"
    PROVE  /\ Used' = Used
           /\ \A q \in Ids \ {e.id} : rows'[q] = rows[q]
           /\ rows'[e.id].status = status /\ rows'[e.id].attempt = 1
           /\ rows'[e.id].content = rows[e.id].content /\ rows'[e.id].window = rows[e.id].window
<1>1. e.id \in Used /\ e.id \in Ids /\ e.attempt = 1 /\ rows[e.id] \in Row
  BY UsedRow DEF Claimed
<1>2. rows' = [rows EXCEPT ![e.id] = Outcome(e, status)]
  BY DEF Settle
<1>3. rows'[e.id] = Outcome(e, status) /\ \A q \in Ids \ {e.id} : rows'[q] = rows[q]
  BY <1>1, <1>2 DEF TypeOK
<1>4. rows'[e.id] # None
  BY <1>1, <1>3, OutcomeTyped, NoneAssumption
<1>5. Used' = Used
  BY <1>1, <1>3, <1>4 DEF Used
<1> QED BY <1>1, <1>3, <1>5 DEF Outcome, Row

-----------------------------------------------------------------------------
(* Rows, claims and executions. *)

\* Actions that leave the rows and what is in flight alone.
Aside ==
    \/ \E c \in Callers : \/ \E content \in Contents : CallJoins(c, content)
                          \/ CallReturns(c) \/ CallTimesOut(c)
    \/ NextMinute
    \/ \E w \in Workers : \/ StartWorker(w) \/ Poll(w) \/ StopPoller(w) \/ LastDrain(w)
                          \/ Close(w) \/ CloseForced(w)
                          \/ \E r \in Ids : Claim(w, r) /\ ~Claimable(r)
    \/ UNCHANGED vars

LEMMA AsideLeaves == Aside => UNCHANGED <<rows, inFlight, performed, usurped, recovered>>
BY DEF Aside, CallJoins, CallReturns, CallTimesOut, NextMinute, StartWorker, Poll, StopPoller,
       LastDrain, Close, CloseForced, Claim, vars, history

\* What a step can be, for the proofs that look at rows and executions.
LEMMA StepCases ==
    ASSUME [Next]_vars
    PROVE  \/ Aside
           \/ \E c \in Callers : \E content \in Contents : CallInserts(c, content)
           \/ \E w \in Workers : \E r \in Ids : Claim(w, r) /\ Claimable(r)
           \/ \E w \in Workers : Recover(w) \/ Exit(w)
           \/ \E e \in inFlight : \/ Perform(e)
                                  \/ \E status \in {"completed", "failed"} : Settle(e, status)
BY DEF Next, Aside

\* Only a worker at work or draining has something left to claim.
LEMMA NextAtWork == TypeOK /\ AtWork /\ [Next]_vars => AtWork'
<1> SUFFICES ASSUME TypeOK, AtWork, [Next]_vars PROVE AtWork'
  OBVIOUS
<1>1. ASSUME NEW w \in Workers,
             StartWorker(w) \/ Recover(w) \/ Poll(w) \/ StopPoller(w) \/ LastDrain(w)
             \/ Close(w) \/ CloseForced(w) \/ Exit(w)
      PROVE  AtWork'
  BY <1>1 DEF StartWorker, Recover, Poll, StopPoller, LastDrain, Close, CloseForced, Exit, Idle, Live,
              AtWork, TypeOK
<1>2. ASSUME NEW w \in Workers, NEW r \in Ids, Claim(w, r) PROVE AtWork'
  BY <1>2 DEF Claim, AtWork, TypeOK
<1>3. CASE UNCHANGED <<state, listed, recovered>>
  BY <1>3 DEF AtWork
<1> QED BY <1>1, <1>2, <1>3 DEF Next, vars, CallJoins, CallInserts, CallReturns, CallTimesOut,
                                NextMinute, Perform, Settle

\* Minutes and ids go up, and a row is attempted when it is claimed.
LEMMA NextOrdered == RowsInv /\ [Next]_vars => InOrder' /\ Attempted'
<1> SUFFICES ASSUME RowsInv, [Next]_vars PROVE InOrder' /\ Attempted'
  OBVIOUS
<1>0. TypeOK /\ InOrder /\ Attempted /\ Claimed /\ window \in Nat
  BY Bounds DEF RowsInv, TypeOK
<1>1. window' >= window /\ window' \in Nat
  BY <1>0 DEF Next, vars, CallJoins, CallInserts, CallReturns, CallTimesOut, NextMinute, StartWorker,
     Recover, Poll, Claim, StopPoller, LastDrain, Close, CloseForced, Exit, Perform, Settle
<1>2. \A r \in Used : rows[r].window \in Nat
  BY <1>0, UsedRow, Bounds DEF Row
<1>3. ASSUME Used' = Used, \A r \in Used : /\ rows'[r].window = rows[r].window
                                           /\ (rows'[r].status = "pending") <=> (rows'[r].attempt = 0)
      PROVE  InOrder' /\ Attempted'
  BY <1>0, <1>1, <1>2, <1>3 DEF InOrder, Attempted
<1>4. ASSUME UNCHANGED rows PROVE InOrder' /\ Attempted'
  BY <1>0, <1>3, <1>4 DEF Attempted, Used
<1>5. ASSUME NEW c \in Callers, NEW content \in Contents, CallInserts(c, content)
      PROVE  InOrder' /\ Attempted'
  <2>1. PICK r \in Ids \ Used : /\ \A q \in Used : q < r
                                /\ Used' = Used \cup {r}
                                /\ \A q \in Used : rows'[q] = rows[q]
                                /\ rows'[r] = NewRow(content)
    BY <1>0, <1>5, InsertRows
  <2>2. window' = window /\ \A q \in Ids \ Used : r <= q
    <3>1. PICK s \in Ids \ Used : (\A q \in Ids \ Used : s <= q) /\ rows' = [rows EXCEPT ![s] = NewRow(content)]
      BY <1>5 DEF CallInserts
    <3>2. s = r
      BY <1>0, <2>1, <3>1 DEF Used, TypeOK
    <3> QED BY <1>5, <3>1, <3>2 DEF CallInserts
  <2>3. ASSUME NEW q \in Ids, NEW s \in Used', q < s PROVE q \in Used'
    BY <1>0, <2>1, <2>2, <2>3, Bounds DEF InOrder, Used
  <2> QED BY <1>0, <2>1, <2>2, <2>3 DEF InOrder, Attempted, NewRow, Used
<1>6. ASSUME NEW w \in Workers, NEW r \in Ids, Claim(w, r), Claimable(r) PROVE InOrder' /\ Attempted'
  <2>1. Used' = Used /\ \A q \in Ids \ {r} : rows'[q] = rows[q]
    BY <1>6, ClaimRows
  <2>2. rows'[r].status = "running" /\ rows'[r].attempt = 1 /\ rows'[r].window = rows[r].window
    BY <1>6, ClaimRows
  <2> QED BY <1>0, <1>3, <2>1, <2>2 DEF Attempted, Used
<1>7. ASSUME NEW w \in Workers, Recover(w) PROVE InOrder' /\ Attempted'
  <2>1. \A r \in Used : /\ rows'[r].window = rows[r].window
                        /\ (rows'[r].status = "pending") <=> (rows'[r].attempt = 0)
    BY <1>0, <1>7, RecoverRows DEF Attempted, Used
  <2> QED BY <1>0, <1>3, <1>7, <2>1, RecoverRows
<1>8. ASSUME NEW e \in inFlight, NEW status \in {"completed", "failed"}, Settle(e, status)
      PROVE  InOrder' /\ Attempted'
  <2>1. CASE state[e.worker] = "closed"
    BY <1>4, <1>8, <2>1 DEF Settle
  <2>2. CASE state[e.worker] # "closed"
    <3>1. Used' = Used /\ \A q \in Ids \ {e.id} : rows'[q] = rows[q]
      BY <1>0, <1>8, <2>2, SettleRows
    <3>2. rows'[e.id].status = status /\ rows'[e.id].attempt = 1 /\ rows'[e.id].window = rows[e.id].window
      BY <1>0, <1>8, <2>2, SettleRows
    <3> QED BY <1>0, <1>3, <3>1, <3>2 DEF Attempted, Used
  <2> QED BY <2>1, <2>2
<1>9. ASSUME (\E w \in Workers : Exit(w)) \/ (\E e \in inFlight : Perform(e)) \/ Aside PROVE UNCHANGED rows
  BY <1>9, AsideLeaves DEF Exit, Perform
<1> QED BY <1>4, <1>5, <1>6, <1>7, <1>8, <1>9, StepCases

\* An execution that has made its side effects is the same execution.
LEMMA PerformStep ==
    ASSUME TypeOK, Claimed, NEW e \in inFlight, Perform(e)
    PROVE  \E p \in inFlight' :
             /\ inFlight' = (inFlight \ {e}) \cup {p}
             /\ p.id = e.id /\ p.worker = e.worker /\ p.attempt = e.attempt /\ p.performed
             /\ ~e.performed /\ performed' = [performed EXCEPT ![e.id] = @ + 1]
             /\ UNCHANGED <<rows, recovered, usurped, state, forced>>
<1> DEFINE p == [e EXCEPT !.performed = TRUE]
<1>1. e \in Execution
  BY DEF TypeOK
<1>2. p.id = e.id /\ p.worker = e.worker /\ p.attempt = e.attempt /\ p.performed
  BY <1>1 DEF Execution
<1>3. p \in inFlight' /\ inFlight' = (inFlight \ {e}) \cup {p}
  BY DEF Perform
<1> HIDE DEF p
<1> QED BY <1>2, <1>3 DEF Perform, history

\* Claims stay unique, and what is in flight stays running unless recovery of
\* another worker has failed it.
LEMMA NextClaimed == RowsInv /\ [Next]_vars => Claimed' /\ InFlightIsRunning'
<1> SUFFICES ASSUME RowsInv, [Next]_vars PROVE Claimed' /\ InFlightIsRunning'
  OBVIOUS
<1>0. TypeOK /\ InOrder /\ Attempted /\ Claimed /\ AtWork /\ InFlightIsRunning
  BY DEF RowsInv
<1>a. \A e \in inFlight : e.id \in Used /\ e.id \in Ids /\ e.worker \in Workers /\ e \in Execution
  BY <1>0 DEF Claimed, TypeOK, Execution
<1>1. CASE Aside
  BY <1>0, <1>1, AsideLeaves DEF Claimed, InFlightIsRunning, Used
<1>2. ASSUME NEW c \in Callers, NEW content \in Contents, CallInserts(c, content)
      PROVE  Claimed' /\ InFlightIsRunning'
  <2>1. Used \subseteq Used' /\ \A q \in Used : rows'[q] = rows[q]
    BY <1>0, <1>2, InsertRows
  <2>2. UNCHANGED <<inFlight, recovered, usurped>>
    BY <1>2 DEF CallInserts, history
  <2> QED BY <1>0, <1>a, <2>1, <2>2 DEF Claimed, InFlightIsRunning
<1>3. ASSUME NEW w \in Workers, NEW r \in Ids, Claim(w, r), Claimable(r)
      PROVE  Claimed' /\ InFlightIsRunning'
  <2>1. Used' = Used /\ r \in Used /\ \A q \in Ids \ {r} : rows'[q] = rows[q]
    BY <1>3, ClaimRows
  <2>2. rows'[r].status = "running" /\ rows'[r].owner = w /\ \A e \in inFlight : e.id # r
    BY <1>3, ClaimRows
  <2>3. PICK f \in inFlight' : inFlight' = inFlight \cup {f} /\ f.worker = w /\ f.id = r /\ f.attempt = 1
    BY <1>3, ClaimRows
  <2>4. recovered[w] /\ UNCHANGED <<recovered, usurped>>
    BY <1>0, <1>3 DEF Claim, AtWork
  <2> QED BY <1>0, <1>a, <2>1, <2>2, <2>3, <2>4 DEF Claimed, InFlightIsRunning
<1>4. ASSUME NEW w \in Workers, Recover(w) PROVE Claimed' /\ InFlightIsRunning'
  <2>1. /\ UNCHANGED inFlight /\ recovered' = [recovered EXCEPT ![w] = TRUE] /\ ~recovered[w]
        /\ usurped' = usurped \cup {r \in {e.id : e \in inFlight \ Mine(w)} : IsAbandoned(w, r)}
    BY <1>4 DEF Recover, MustRecover
  <2>2. \A e \in inFlight : e \notin Mine(w)
    BY <1>0, <2>1 DEF Claimed, Mine
  <2>3. \A e \in inFlight : IsAbandoned(w, e.id) => e.id \in usurped'
    BY <2>1, <2>2
  <2>4. \A e \in inFlight : e.id \notin usurped' => rows'[e.id] = rows[e.id] /\ e.id \notin usurped
    BY <1>0, <1>4, <1>a, <2>1, <2>3, RecoverRows
  <2>5. InFlightIsRunning'
    BY <1>0, <2>1, <2>4 DEF InFlightIsRunning
  <2>6. \A e \in inFlight : e.id \in Used' /\ rows'[e.id].status # "pending"
    BY <1>0, <1>4, <1>a, RecoverRows DEF Claimed
  <2>7. \A e \in inFlight : recovered'[e.worker]
    BY <1>0, <1>a, <2>1 DEF Claimed, TypeOK
  <2> QED BY <1>0, <2>1, <2>5, <2>6, <2>7 DEF Claimed
<1>5. ASSUME NEW w \in Workers, Exit(w) PROVE Claimed' /\ InFlightIsRunning'
  <2>1. inFlight' \subseteq inFlight /\ UNCHANGED <<rows, recovered, usurped>>
    BY <1>5 DEF Exit, history
  <2> QED BY <1>0, <2>1 DEF Claimed, InFlightIsRunning, Used
<1>6. ASSUME NEW e \in inFlight, Perform(e) PROVE Claimed' /\ InFlightIsRunning'
  <2>1. PICK p \in inFlight' : /\ inFlight' = (inFlight \ {e}) \cup {p}
                               /\ p.id = e.id /\ p.worker = e.worker /\ p.attempt = e.attempt
                               /\ UNCHANGED <<rows, recovered, usurped>>
    BY <1>0, <1>6, PerformStep
  <2> QED BY <1>0, <2>1 DEF Claimed, InFlightIsRunning, Used
<1>7. ASSUME NEW e \in inFlight, NEW status \in {"completed", "failed"}, Settle(e, status)
      PROVE  Claimed' /\ InFlightIsRunning'
  <2>1. inFlight' = inFlight \ {e} /\ UNCHANGED <<recovered, usurped>>
    BY <1>7 DEF Settle, history
  <2>2. \A g \in inFlight' : g.id # e.id
    BY <1>0, <2>1 DEF Claimed
  <2>3. Used' = Used /\ \A q \in Ids \ {e.id} : rows'[q] = rows[q]
    <3>1. CASE state[e.worker] = "closed"
      BY <1>7, <3>1 DEF Settle, Used
    <3>2. CASE state[e.worker] # "closed"
      BY <1>0, <1>7, <3>2, SettleRows
    <3> QED BY <3>1, <3>2
  <2> QED BY <1>0, <1>a, <2>1, <2>2, <2>3 DEF Claimed, InFlightIsRunning
<1> QED BY <1>1, <1>2, <1>3, <1>4, <1>5, <1>6, <1>7, StepCases

\* The table and what is in flight agree in the next state.
LEMMA NextRows == RowsInv /\ [Next]_vars => RowsInv'
BY NextTyped, NextOrdered, NextClaimed, NextAtWork DEF RowsInv

-----------------------------------------------------------------------------
(* Side effects. *)

\* The side effects of a row are made only by the one execution of its claim.
LEMMA NextPerformed == RowsInv /\ Performed /\ [Next]_vars => Performed'
<1> SUFFICES ASSUME RowsInv, Performed, [Next]_vars PROVE Performed'
  OBVIOUS
<1>0. TypeOK /\ InOrder /\ Claimed
  BY DEF RowsInv
<1>a. \A e \in inFlight : e.id \in Used /\ e.id \in Ids /\ rows[e.id].status # "pending"
  BY <1>0 DEF Claimed, TypeOK, Execution
<1>1. CASE Aside
  BY <1>1, AsideLeaves DEF Performed, Used
<1>2. ASSUME NEW c \in Callers, NEW content \in Contents, CallInserts(c, content)
      PROVE  Performed'
  <2>1. Used \subseteq Used' /\ \A q \in Used : rows'[q] = rows[q]
    BY <1>0, <1>2, InsertRows
  <2>2. UNCHANGED <<inFlight, performed>>
    BY <1>2 DEF CallInserts
  <2> QED BY <2>1, <2>2 DEF Performed
<1>3. ASSUME NEW w \in Workers, NEW r \in Ids, Claim(w, r), Claimable(r) PROVE Performed'
  <2>1. Used' = Used /\ r \in Used /\ \A q \in Ids \ {r} : rows'[q] = rows[q]
    BY <1>3, ClaimRows
  <2>2. rows[r].status = "pending" /\ rows'[r].status = "running"
    BY <1>3, ClaimRows
  <2>3. PICK f \in inFlight' : inFlight' = inFlight \cup {f} /\ f.id = r
    BY <1>3, ClaimRows
  <2>4. UNCHANGED performed
    BY <1>3 DEF Claim
  <2> QED BY <2>1, <2>2, <2>3, <2>4 DEF Performed
<1>4. ASSUME NEW w \in Workers, Recover(w) PROVE Performed'
  <2>1. UNCHANGED <<inFlight, performed>>
    BY <1>4 DEF Recover
  <2>2. \A r \in Used : rows'[r].status = "pending" => rows[r].status = "pending"
    BY <1>0, <1>4, RecoverRows DEF Used
  <2> QED BY <1>0, <1>4, <2>1, <2>2, RecoverRows DEF Performed
<1>5. ASSUME NEW w \in Workers, Exit(w) PROVE Performed'
  BY <1>5 DEF Exit, Performed, Used
<1>6. ASSUME NEW e \in inFlight, Perform(e) PROVE Performed'
  <2>1. PICK p \in inFlight' : /\ inFlight' = (inFlight \ {e}) \cup {p}
                               /\ p.id = e.id /\ p.performed
                               /\ ~e.performed /\ performed' = [performed EXCEPT ![e.id] = @ + 1]
                               /\ UNCHANGED rows
    BY <1>0, <1>6, PerformStep
  <2>2. performed'[e.id] = 1 /\ \A r \in Ids \ {e.id} : performed'[r] = performed[r]
    BY <1>0, <1>a, <2>1 DEF Performed, TypeOK
  <2>3. \A g \in inFlight \ {e} : g.id # e.id /\ g.id \in Ids
    BY <1>0, <1>a DEF Claimed
  <2> QED BY <1>a, <2>1, <2>2, <2>3 DEF Performed, Used
<1>7. ASSUME NEW e \in inFlight, NEW status \in {"completed", "failed"}, Settle(e, status)
      PROVE  Performed'
  <2>1. inFlight' \subseteq inFlight /\ UNCHANGED performed
    BY <1>7 DEF Settle
  <2>2. Used' = Used /\ \A q \in Used : rows'[q].status = "pending" => rows[q].status = "pending"
    <3>1. CASE state[e.worker] = "closed"
      BY <1>7, <3>1 DEF Settle, Used
    <3>2. CASE state[e.worker] # "closed"
      BY <1>0, <1>7, <3>2, SettleRows DEF Used
    <3> QED BY <3>1, <3>2
  <2> QED BY <2>1, <2>2 DEF Performed
<1> QED BY <1>1, <1>2, <1>3, <1>4, <1>5, <1>6, <1>7, StepCases

-----------------------------------------------------------------------------
(* Owners. *)

\* A worker that has not stopped executes every running row it owns, and one
\* that stopped of itself owns none.
LEMMA NextOwner == RowsInv /\ OwnerInv /\ [Next]_vars => OwnerInv'
<1> SUFFICES ASSUME RowsInv, OwnerInv, [Next]_vars PROVE OwnerInv'
  OBVIOUS
<1>0. /\ TypeOK /\ InOrder /\ Claimed /\ AtWork /\ Held /\ CleanStop
      /\ state \in [Workers -> {"new", "up", "stopping", "draining", "closed", "dead"}]
  BY DEF RowsInv, OwnerInv, TypeOK
<1>a. \A e \in inFlight : e.id \in Used /\ e.id \in Ids /\ e.worker \in Workers
  BY <1>0 DEF Claimed, TypeOK, Execution
<1>1. ASSUME UNCHANGED <<rows, inFlight, state, forced>> PROVE OwnerInv'
  BY <1>0, <1>1 DEF OwnerInv, Held, CleanStop, Used
<1>2. ASSUME NEW w \in Workers, StartWorker(w) \/ StopPoller(w) \/ LastDrain(w) PROVE OwnerInv'
  <2>1. UNCHANGED <<rows, inFlight, forced>>
    BY <1>2 DEF StartWorker, StopPoller, LastDrain
  <2>2. /\ \A v \in Workers \ {w} : state'[v] = state[v]
        /\ state[w] \in {"new", "up", "stopping"}
        /\ state'[w] \in {"up", "stopping", "draining"}
    BY <1>0, <1>2 DEF StartWorker, StopPoller, LastDrain
  <2> QED BY <1>0, <2>1, <2>2 DEF OwnerInv, Held, CleanStop, Used
<1>3. ASSUME NEW w \in Workers, Close(w) PROVE OwnerInv'
  <2>1. /\ UNCHANGED <<rows, inFlight, forced>> /\ Mine(w) = {}
        /\ state[w] = "draining" /\ state'[w] = "closed"
        /\ \A v \in Workers \ {w} : state'[v] = state[v]
    BY <1>0, <1>3 DEF Close, Drained
  <2>2. \A r \in Used : ~(rows[r].status = "running" /\ rows[r].owner = w)
    BY <1>0, <2>1 DEF Held, Mine
  <2> QED BY <1>0, <2>1, <2>2 DEF OwnerInv, Held, CleanStop, Used
<1>4. ASSUME NEW w \in Workers, CloseForced(w) PROVE OwnerInv'
  <2>1. /\ UNCHANGED <<rows, inFlight>> /\ forced' = forced \cup {w}
        /\ state[w] = "draining" /\ state'[w] = "closed"
        /\ \A v \in Workers \ {w} : state'[v] = state[v]
    BY <1>0, <1>4 DEF CloseForced
  <2> QED BY <1>0, <2>1 DEF OwnerInv, Held, CleanStop, Used
<1>5. ASSUME NEW c \in Callers, NEW content \in Contents, CallInserts(c, content) PROVE OwnerInv'
  <2>1. PICK r \in Ids \ Used : /\ Used' = Used \cup {r}
                                /\ \A q \in Used : rows'[q] = rows[q]
                                /\ rows'[r] = NewRow(content)
    BY <1>0, <1>5, InsertRows
  <2>2. UNCHANGED <<inFlight, state, forced>> /\ rows'[r].status = "pending"
    BY <1>5, <2>1 DEF CallInserts, NewRow
  <2> QED BY <1>0, <2>1, <2>2 DEF OwnerInv, Held, CleanStop
<1>6. ASSUME NEW w \in Workers, NEW r \in Ids, Claim(w, r), Claimable(r) PROVE OwnerInv'
  <2>1. Used' = Used /\ r \in Used /\ \A q \in Ids \ {r} : rows'[q] = rows[q]
    BY <1>6, ClaimRows
  <2>2. rows'[r].owner = w
    BY <1>6, ClaimRows
  <2>3. PICK f \in inFlight' : inFlight' = inFlight \cup {f} /\ f.worker = w /\ f.id = r
    BY <1>6, ClaimRows
  <2>4. state[w] \in {"up", "draining"} /\ UNCHANGED <<state, forced>>
    BY <1>0, <1>6 DEF Claim, AtWork
  <2>5. Held'
    <3> SUFFICES ASSUME NEW q \in Used, rows'[q].status = "running"
                 PROVE  /\ rows'[q].owner \in Workers /\ state[rows'[q].owner] # "new"
                        /\ state[rows'[q].owner] \in {"up", "stopping", "draining"} =>
                               \E e \in inFlight' : e.id = q /\ e.worker = rows'[q].owner
      BY <2>1, <2>4 DEF Held
    <3>1. CASE q = r
      BY <2>2, <2>3, <2>4, <3>1
    <3>2. CASE q # r
      BY <1>0, <2>1, <2>3, <3>2 DEF Held, Used
    <3> QED BY <3>1, <3>2
  <2>6. CleanStop'
    BY <1>0, <2>1, <2>2, <2>4 DEF CleanStop, Used
  <2> QED BY <2>5, <2>6 DEF OwnerInv
<1>7. ASSUME NEW w \in Workers, Recover(w) PROVE OwnerInv'
  <2>1. UNCHANGED <<inFlight, state, forced>>
    BY <1>7 DEF Recover
  <2>2. Used' = Used /\ \A r \in Used : rows'[r].status = "running" => rows'[r] = rows[r]
    BY <1>0, <1>7, RecoverRows DEF Used
  <2> QED BY <1>0, <2>1, <2>2 DEF OwnerInv, Held, CleanStop
<1>8. ASSUME NEW w \in Workers, Exit(w) PROVE OwnerInv'
  <2>1. /\ UNCHANGED <<rows, forced>> /\ inFlight' = inFlight \ Mine(w) /\ state'[w] = "dead"
        /\ \A v \in Workers \ {w} : state'[v] = state[v]
    BY <1>0, <1>8 DEF Exit
  <2>2. \A e \in inFlight : e.worker # w => e \in inFlight'
    BY <2>1 DEF Mine
  <2> QED BY <1>0, <2>1, <2>2 DEF OwnerInv, Held, CleanStop, Used
<1>9. ASSUME NEW e \in inFlight, Perform(e) PROVE OwnerInv'
  <2>1. PICK p \in inFlight' : /\ inFlight' = (inFlight \ {e}) \cup {p}
                               /\ p.id = e.id /\ p.worker = e.worker
                               /\ UNCHANGED <<rows, state, forced>>
    BY <1>0, <1>9, PerformStep
  <2>2. \A g \in inFlight : \E h \in inFlight' : h.id = g.id /\ h.worker = g.worker
    BY <2>1
  <2> QED BY <1>0, <2>1, <2>2 DEF OwnerInv, Held, CleanStop, Used
<1>10. ASSUME NEW e \in inFlight, NEW status \in {"completed", "failed"}, Settle(e, status)
       PROVE  OwnerInv'
  <2>1. inFlight' = inFlight \ {e} /\ UNCHANGED <<state, forced>>
    BY <1>10 DEF Settle
  <2>2. CASE state[e.worker] = "closed"
    <3>1. UNCHANGED rows
      BY <1>10, <2>2 DEF Settle
    <3> QED BY <1>0, <2>1, <2>2, <3>1 DEF OwnerInv, Held, CleanStop, Used
  <2>3. CASE state[e.worker] # "closed"
    <3>1. Used' = Used /\ rows'[e.id].status = status /\ \A q \in Ids \ {e.id} : rows'[q] = rows[q]
      BY <1>0, <1>10, <2>3, SettleRows
    <3>2. \A r \in Used : rows'[r].status = "running" => r # e.id /\ rows'[r] = rows[r]
      BY <3>1 DEF Used
    <3> QED BY <1>0, <2>1, <3>1, <3>2 DEF OwnerInv, Held, CleanStop
  <2> QED BY <2>2, <2>3
<1>11. ASSUME NEW w \in Workers, Poll(w) \/ \E r \in Ids : Claim(w, r) /\ ~Claimable(r) PROVE OwnerInv'
  BY <1>1, <1>11 DEF Poll, Claim
<1>12. ASSUME \/ \E c \in Callers : \/ \E content \in Contents : CallJoins(c, content)
                                    \/ CallReturns(c) \/ CallTimesOut(c)
              \/ NextMinute \/ UNCHANGED vars
       PROVE  OwnerInv'
  BY <1>1, <1>12 DEF CallJoins, CallReturns, CallTimesOut, NextMinute, vars
<1> QED BY <1>2, <1>3, <1>4, <1>5, <1>6, <1>7, <1>8, <1>9, <1>10, <1>11, <1>12 DEF Next

-----------------------------------------------------------------------------
(* What was answered, and what is done once. *)

\* An outcome that recovery did not take from its owner stays.
LEMMA FinalStays ==
    ASSUME RowsInv, [Next]_vars, NEW r \in Used
    PROVE  /\ r \in Used'
           /\ rows'[r].content = rows[r].content /\ rows'[r].window = rows[r].window
           /\ r \in usurped => r \in usurped'
           /\ r \notin usurped /\ rows[r].status \in {"completed", "failed"} =>
                  rows'[r].status = rows[r].status
<1>0. TypeOK /\ InOrder /\ Claimed /\ InFlightIsRunning /\ r \in Ids
  BY DEF RowsInv, Used
<1>1. r \in usurped => r \in usurped'
  BY DEF Next, vars, history, CallJoins, CallInserts, CallReturns, CallTimesOut, NextMinute, StartWorker,
     Recover, Poll, Claim, StopPoller, LastDrain, Close, CloseForced, Exit, Perform, Settle
<1>2. ASSUME rows'[r] = rows[r], r \in Used' PROVE rows'[r] = rows[r] /\ r \in Used'
  BY <1>2
<1>3. CASE Aside \/ (\E w \in Workers : Exit(w)) \/ (\E e \in inFlight : Perform(e))
  BY <1>1, <1>3, AsideLeaves DEF Exit, Perform, Used
<1>4. CASE \E c \in Callers : \E content \in Contents : CallInserts(c, content)
  BY <1>0, <1>1, <1>4, InsertRows
<1>5. ASSUME NEW w \in Workers, NEW q \in Ids, Claim(w, q), Claimable(q)
      PROVE  /\ r \in Used' /\ rows'[r].content = rows[r].content /\ rows'[r].window = rows[r].window
             /\ rows[r].status \in {"completed", "failed"} => rows'[r].status = rows[r].status
  <2>1. Used' = Used /\ \A p \in Ids \ {q} : rows'[p] = rows[p]
    BY <1>5, ClaimRows
  <2>2. rows[q].status = "pending" /\ rows'[q].content = rows[q].content /\ rows'[q].window = rows[q].window
    BY <1>5, ClaimRows
  <2> QED BY <1>0, <2>1, <2>2
<1>6. ASSUME NEW w \in Workers, Recover(w)
      PROVE  /\ r \in Used' /\ rows'[r].content = rows[r].content /\ rows'[r].window = rows[r].window
             /\ rows[r].status \in {"completed", "failed"} => rows'[r].status = rows[r].status
  BY <1>0, <1>6, RecoverRows
<1>7. ASSUME NEW e \in inFlight, NEW status \in {"completed", "failed"}, Settle(e, status)
      PROVE  /\ r \in Used' /\ rows'[r].content = rows[r].content /\ rows'[r].window = rows[r].window
             /\ r \notin usurped /\ rows[r].status \in {"completed", "failed"} => rows'[r].status = rows[r].status
  <2>1. r = e.id /\ r \notin usurped => rows[r].status = "running"
    BY <1>0 DEF InFlightIsRunning
  <2>2. CASE state[e.worker] = "closed"
    BY <1>7, <2>2 DEF Settle, Used
  <2>3. CASE state[e.worker] # "closed"
    <3>1. /\ Used' = Used /\ \A q \in Ids \ {e.id} : rows'[q] = rows[q]
          /\ rows'[e.id].content = rows[e.id].content /\ rows'[e.id].window = rows[e.id].window
      BY <1>0, <1>7, <2>3, SettleRows
    <3> QED BY <1>0, <2>1, <3>1
  <2> QED BY <2>2, <2>3
<1> QED BY <1>1, <1>3, <1>4, <1>5, <1>6, <1>7, StepCases

\* Unless a row is inserted or the minute ends, every key keeps its rows.
LEMMA SameKeysStay ==
    ASSUME UNCHANGED window, Used' = Used,
           \A r \in Used : rows'[r].content = rows[r].content /\ rows'[r].window = rows[r].window,
           NEW content \in Contents
    PROVE  SameKey(content)' = SameKey(content) /\ Latest(content)' = Latest(content)
<1>1. SameKey(content)' = SameKey(content)
  BY DEF SameKey
<1> QED BY <1>1 DEF Latest

\* The row of an insertion becomes the latest of its key, whose other rows have
\* all failed.
LEMMA InsertSuperseded ==
    ASSUME RowsInv, Superseded, NEW c \in Callers, NEW content \in Contents, CallInserts(c, content)
    PROVE  Superseded'
<1>0. TypeOK /\ InOrder
  BY DEF RowsInv
<1>1. PICK r \in Ids \ Used : /\ \A q \in Used : q < r
                              /\ Used' = Used \cup {r}
                              /\ \A q \in Used : rows'[q] = rows[q]
                              /\ rows'[r] = NewRow(content)
  BY <1>0, InsertRows
<1>2. UNCHANGED <<window, usurped>> /\ Reusable(content) = {}
  BY DEF CallInserts, history
<1>3. rows'[r].content = content /\ rows'[r].window = window
  BY <1>1 DEF NewRow
<1>4. Used \subseteq Nat /\ r \in Nat
  BY Bounds DEF Used
<1>5. ASSUME NEW d \in Contents PROVE SameKey(d)' # {} => Latest(d)' # {}
  <2>1. CASE d = content
    <3>1. ASSUME NEW q \in SameKey(content)' PROVE q <= r
      <4>1. q \in Used \/ q = r
        BY <1>1, <3>1 DEF SameKey
      <4>2. q \in Nat /\ (q < r \/ q = r)
        BY <1>1, <1>4, <4>1
      <4> QED BY <1>4, <4>2
    <3>2. r \in SameKey(content)'
      BY <1>1, <1>2, <1>3 DEF SameKey
    <3> QED BY <2>1, <3>1, <3>2 DEF Latest
  <2>2. CASE d # content
    <3>1. SameKey(d)' = SameKey(d)
      BY <1>1, <1>2, <1>3, <2>2 DEF SameKey
    <3> QED BY <3>1 DEF Latest, Superseded
  <2> QED BY <2>1, <2>2
<1>6. ASSUME NEW q \in Used, rows[q].content = content, rows[q].window = window
      PROVE  q \in usurped \/ rows[q].status = "failed"
  <2>1. q \in SameKey(content)
    BY <1>6 DEF SameKey
  <2>2. PICK l \in Latest(content) : TRUE
    BY <2>1 DEF Superseded
  <2>3. l \in Used /\ rows[l].status = "failed" /\ rows[l].content = content /\ rows[l].window = window
    BY <1>2, <2>2 DEF Reusable, Latest, SameKey
  <2>4. q <= l /\ q \in Nat /\ l \in Nat
    BY <1>4, <2>1, <2>2, <2>3 DEF Latest
  <2>5. q = l \/ q < l
    BY <2>4
  <2> QED BY <1>6, <2>3, <2>5 DEF Superseded
<1>7. ASSUME NEW p \in Used', NEW q \in Used', p < q,
             rows'[p].content = rows'[q].content, rows'[p].window = rows'[q].window
      PROVE  p \in usurped' \/ rows'[p].status = "failed"
  <2>1. p \in Used
    <3>1. p \in Nat /\ q \in Nat /\ (q \in Used => q < r) /\ (q \in Used \/ q = r)
      BY <1>1, <1>4, <1>7
    <3>2. p # r
      BY <1>4, <1>7, <3>1
    <3> QED BY <1>1, <1>7, <3>2
  <2>2. CASE q \in Used
    BY <1>1, <1>2, <1>7, <2>1, <2>2 DEF Superseded
  <2>3. CASE q = r
    BY <1>1, <1>2, <1>3, <1>6, <1>7, <2>1, <2>3
  <2> QED BY <1>1, <2>2, <2>3
<1> QED BY <1>5, <1>7 DEF Superseded

\* A request is taken up again only when all earlier ones of its key failed.
LEMMA NextSuperseded == RowsInv /\ Superseded /\ [Next]_vars => Superseded'
<1> SUFFICES ASSUME RowsInv, Superseded, [Next]_vars PROVE Superseded'
  OBVIOUS
<1>1. CASE \E c \in Callers : \E content \in Contents : CallInserts(c, content)
  BY <1>1, InsertSuperseded
<1>2. ASSUME Used' = Used
      PROVE  \A q, r \in Used' :
               q < r /\ rows'[q].content = rows'[r].content /\ rows'[q].window = rows'[r].window =>
                   q \in usurped' \/ rows'[q].status = "failed"
  BY <1>2, FinalStays DEF Superseded
<1>3. CASE NextMinute
  <2>1. UNCHANGED rows /\ window' = window + 1 /\ window \in Nat
    BY <1>3, Bounds DEF NextMinute, RowsInv, TypeOK
  <2>2. Used' = Used
    BY <2>1 DEF Used
  <2>3. \A r \in Used : rows[r].window <= window /\ rows[r].window \in Nat
    BY UsedRow, Bounds DEF RowsInv, InOrder, Row
  <2>4. \A content \in Contents : SameKey(content)' = {}
    BY <2>1, <2>2, <2>3 DEF SameKey
  <2> QED BY <1>2, <2>2, <2>4 DEF Superseded
<1>4. CASE UNCHANGED window /\ Used' = Used
  <2>1. \A content \in Contents : SameKey(content)' = SameKey(content) /\ Latest(content)' = Latest(content)
    BY <1>4, SameKeysStay, FinalStays
  <2> QED BY <1>2, <1>4, <2>1 DEF Superseded
<1>5. \/ \E c \in Callers : \E content \in Contents : CallInserts(c, content)
      \/ NextMinute
      \/ UNCHANGED window /\ Used' = Used
  <2>0. TypeOK /\ Claimed
    BY DEF RowsInv
  <2>1. CASE \E c \in Callers : \/ \E content \in Contents : CallJoins(c, content)
                                \/ CallReturns(c) \/ CallTimesOut(c)
    BY <2>1 DEF CallJoins, CallReturns, CallTimesOut, Used
  <2>2. CASE \E w \in Workers : \/ StartWorker(w) \/ Poll(w) \/ StopPoller(w) \/ LastDrain(w)
                                \/ Close(w) \/ CloseForced(w) \/ Exit(w)
                                \/ \E r \in Ids : Claim(w, r) /\ ~Claimable(r)
    BY <2>2 DEF StartWorker, Poll, StopPoller, LastDrain, Close, CloseForced, Exit, Claim, Used
  <2>3. ASSUME NEW w \in Workers, NEW r \in Ids, Claim(w, r), Claimable(r) PROVE UNCHANGED window /\ Used' = Used
    BY <2>3, ClaimRows DEF Claim
  <2>4. ASSUME NEW w \in Workers, Recover(w) PROVE UNCHANGED window /\ Used' = Used
    BY <2>0, <2>4, RecoverRows DEF Recover
  <2>5. ASSUME NEW e \in inFlight, NEW status \in {"completed", "failed"}, Settle(e, status)
        PROVE  UNCHANGED window /\ Used' = Used
    BY <2>0, <2>5, SettleRows DEF Settle, Used
  <2>6. CASE UNCHANGED vars \/ \E e \in inFlight : Perform(e)
    BY <2>6 DEF Perform, vars, Used
  <2> QED BY <2>1, <2>2, <2>3, <2>4, <2>5, <2>6 DEF Next
<1> QED BY <1>1, <1>3, <1>4, <1>5

\* What a caller was told stays true.
LEMMA NextAnswers == RowsInv /\ Told /\ AnswersHold /\ [Next]_vars => Told' /\ AnswersHold'
<1> SUFFICES ASSUME RowsInv, Told, AnswersHold, [Next]_vars PROVE Told' /\ AnswersHold'
  OBVIOUS
<1>1. ASSUME NEW t \in told PROVE t[1] \in Used' /\ (t[1] \notin usurped' => rows'[t[1]].status = t[2])
  <2>1. t[1] \in Used /\ t[2] \in {"completed", "failed"}
    BY DEF Told, RowsInv, TypeOK
  <2> QED BY <2>1, FinalStays DEF AnswersHold
<1>2. ASSUME NEW c \in Callers, CallReturns(c) PROVE Told' /\ AnswersHold'
  <2>1. UNCHANGED <<rows, usurped>> /\ told' = told \cup {<<waiting[c], rows[waiting[c]].status>>}
        /\ waiting[c] \in Used
    BY <1>2 DEF CallReturns, history
  <2>2. Used' = Used
    BY <2>1 DEF Used
  <2> QED BY <1>1, <2>1, <2>2 DEF Told, AnswersHold
<1>3. UNCHANGED told \/ \E c \in Callers : CallReturns(c)
  BY DEF Next, vars, CallJoins, CallInserts, CallTimesOut, NextMinute, StartWorker, Recover, Poll,
         Claim, StopPoller, LastDrain, Close, CloseForced, Exit, Perform, Settle
<1>4. CASE UNCHANGED told
  BY <1>1, <1>4 DEF Told, AnswersHold
<1> QED BY <1>2, <1>3, <1>4

-----------------------------------------------------------------------------
(* The theorems. *)

\* The inductive invariant holds initially.
LEMMA InitInv == Init => IInv
<1> SUFFICES ASSUME Init PROVE IInv
  OBVIOUS
<1>1. TypeOK /\ Used = {} /\ inFlight = {} /\ told = {}
  BY InitTyped DEF Init, Used
<1>2. AtWork
  BY DEF Init, AtWork
<1>3. RowsInv /\ OwnerInv
  BY <1>1, <1>2 DEF RowsInv, InOrder, Attempted, Claimed, InFlightIsRunning, OwnerInv, Held, CleanStop
<1>4. Performed
  BY <1>1 DEF Init, Performed
<1>5. Superseded /\ Told /\ AnswersHold
  BY <1>1 DEF Superseded, SameKey, Told, AnswersHold
<1> QED BY <1>3, <1>4, <1>5 DEF IInv

\* The inductive invariant holds in every reachable state of the table.
THEOREM Invariance == Spec => []IInv
<1>1. Init => IInv
  BY InitInv
<1>2. IInv /\ [Next]_vars => IInv'
  BY NextRows, NextPerformed, NextOwner, NextSuperseded, NextAnswers DEF IInv
<1> QED BY <1>1, <1>2, PTL DEF Spec

\* Whatever workers start, overlap, stop and crash: who owns a running row is
\* right, and a stop that was not forced leaves none (process, stop).
THEOREM OwnersRight == Spec => []OwnersHold
<1>1. IInv => OwnersHold
  BY DEF IInv, RowsInv, OwnerInv, OwnersHold
<1> QED BY <1>1, Invariance, PTL

\* The side effects of a request are made at most once, and of identical
\* requests of one minute at most one completes (claimPendingOrchestrationRequest,
\* failAbandonedRunningOrchestrationRequests, enqueueOrchestrationRequest).
THEOREM OnceExecuted == Spec => []ExecutedOnce
<1>1. IInv => ExecutedOnce
  <2> SUFFICES ASSUME IInv PROVE ExecutedOnce
    OBVIOUS
  <2>1. \A r \in Ids : performed[r] <= 1
    BY DEF IInv, Performed
  <2>2. ASSUME NEW q \in Used \ usurped, NEW r \in Used \ usurped,
               rows[q].status = "completed", rows[r].status = "completed",
               rows[q].content = rows[r].content, rows[q].window = rows[r].window
        PROVE  q = r
    <3>1. q \in Nat /\ r \in Nat
      BY Bounds DEF Used
    <3>2. ~(q < r) /\ ~(r < q)
      BY <2>2 DEF IInv, Superseded
    <3> QED BY <3>1, <3>2
  <2> QED BY <2>1, <2>2 DEF ExecutedOnce, OneResultPerKey
<1> QED BY <1>1, Invariance, PTL

\* What an API client was told of a request stays true, unless recovery failed
\* the request while its owner was alive (waitForOrchestrationRequest).
THEOREM AnswersTrue == Spec => []AnswersHold
<1>1. IInv => AnswersHold
  BY DEF IInv
<1> QED BY <1>1, Invariance, PTL

-----------------------------------------------------------------------------
(* Iteration. *)

Earlier == {e \in Nat \X Nat : e[1] < e[2]}

\* A set of numbers has a least element, unless it is empty.
LEMMA LeastNumber ==
    ASSUME NEW S \in SUBSET Nat, S # {}
    PROVE  \E x \in S : \A y \in S : ~(y < x)
<1>1. IsWellFoundedOn(Earlier, Nat)
  BY NatLessThanWellFounded DEF OpToRel, Earlier
<1>2. \E x \in S : \A y \in S : <<y, x>> \notin Earlier
  BY <1>1, WFMin
<1>3. \A x, y \in Nat : y < x => <<y, x>> \in Earlier
  BY DEF Earlier
<1> QED BY <1>2, <1>3

\* What holds of the start and carries over each step holds all along.
LEMMA Climb ==
    ASSUME NEW n \in Nat, NEW S, NEW f, f[0] \in S[0],
           \A i \in 1..n : f[i - 1] \in S[i - 1] => f[i] \in S[i]
    PROVE  \A i \in 0..n : f[i] \in S[i]
<1> DEFINE Bad == {i \in 0..n : f[i] \notin S[i]}
<1> SUFFICES ASSUME Bad # {} PROVE FALSE
  OBVIOUS
<1>1. PICK m \in Bad : \A y \in Bad : ~(y < m)
  <2>1. Bad \in SUBSET Nat
    OBVIOUS
  <2> HIDE DEF Bad
  <2> QED BY <2>1, LeastNumber
<1>2. m # 0
  BY <1>1
<1>3. m \in 1..n /\ m - 1 \in 0..n /\ m - 1 < m
  BY <1>1, <1>2
<1>4. f[m - 1] \in S[m - 1]
  BY <1>1, <1>3
<1> QED BY <1>1, <1>3, <1>4

\* The states that g leads to from a, one per number.
Iterates(f, g, a, S, n) ==
    /\ f \in [0..n -> S]
    /\ \A i \in 0..n : f[i] = IF i = 0 THEN a ELSE g[<<f[i - 1], i>>]

\* A sequence of steps, each a function of the one before, exists.
LEMMA IterationExists ==
    ASSUME NEW S, NEW a \in S, NEW N \in Nat, NEW g,
           \A x \in S, i \in 1..N : g[<<x, i>>] \in S
    PROVE  \E f : Iterates(f, g, a, S, N)
<1> DEFINE Bad == {n \in 0..N : ~\E f : Iterates(f, g, a, S, n)}
<1> SUFFICES ASSUME Bad # {} PROVE FALSE
  OBVIOUS
<1>1. PICK m \in Bad : \A y \in Bad : ~(y < m)
  <2>1. Bad \in SUBSET Nat
    OBVIOUS
  <2> HIDE DEF Bad
  <2> QED BY <2>1, LeastNumber
<1>2. CASE m = 0
  <2>1. Iterates([i \in 0..0 |-> a], g, a, S, 0)
    BY DEF Iterates
  <2> QED BY <1>1, <1>2, <2>1
<1>3. CASE m # 0
  <2>1. m \in 1..N /\ m - 1 \in 0..N /\ m - 1 < m /\ m - 1 \in 0..(m - 1)
    BY <1>1, <1>3
  <2>2. PICK f : Iterates(f, g, a, S, m - 1)
    BY <1>1, <2>1
  <2>3. PICK last \in S : last = g[<<f[m - 1], m>>]
    BY <2>1, <2>2 DEF Iterates
  <2> DEFINE h == [i \in 0..m |-> IF i = m THEN last ELSE f[i]]
  <2>4. ASSUME NEW i \in 0..m
        PROVE  h[i] \in S /\ h[i] = IF i = 0 THEN a ELSE g[<<h[i - 1], i>>]
    <3>1. CASE i = m
      <4>1. i - 1 \in 0..m /\ i - 1 # m /\ i # 0
        BY <1>3, <2>1, <3>1
      <4>2. h[i - 1] = f[m - 1] /\ h[i] = last
        BY <3>1, <4>1
      <4> QED BY <2>3, <3>1, <4>1, <4>2
    <3>2. CASE i # m
      <4>1. i \in 0..(m - 1) /\ (i # 0 => i - 1 \in 0..m /\ i - 1 # m)
        BY <2>1, <3>2
      <4> QED BY <2>2, <3>2, <4>1 DEF Iterates
    <3> QED BY <3>1, <3>2
  <2>5. Iterates(h, g, a, S, m)
    <3>1. h \in [0..m -> S]
      BY <2>4
    <3> HIDE DEF h
    <3> QED BY <2>4, <3>1 DEF Iterates
  <2> QED BY <1>1, <2>5
<1> QED BY <1>2, <1>3

-----------------------------------------------------------------------------
(* Inventories. *)

\* The record of an installed package is one of the inventory's.
LEMMA RecordIs ==
    ASSUME NEW inv \in Inventories, NEW p \in Installed(inv)
    PROVE  /\ RecordOf(inv, p) \in RecordType /\ RecordOf(inv, p).id = p /\ p \in Packages
           /\ RecordOf(inv, p) \in ToSet(inv)
<1>1. PICK i \in DOMAIN inv : inv[i].id = p
  BY DEF Installed
<1>2. inv[i] \in ToSet(inv)
  BY DEF ToSet
<1>3. RecordOf(inv, p) \in ToSet(inv) /\ RecordOf(inv, p).id = p
  BY <1>1, <1>2 DEF RecordOf
<1>4. ToSet(inv) \subseteq RecordType
  BY DEF ToSet, Inventories
<1> QED BY <1>3, <1>4 DEF RecordType

\* The record at an index is the record of its package.
LEMMA RecordAt ==
    ASSUME NEW inv \in Inventories, NEW i \in DOMAIN inv
    PROVE  inv[i].id \in Installed(inv) /\ RecordOf(inv, inv[i].id) = inv[i]
<1>1. inv[i].id \in Installed(inv)
  BY DEF Installed
<1>2. RecordOf(inv, inv[i].id) \in ToSet(inv) /\ RecordOf(inv, inv[i].id).id = inv[i].id
  BY <1>1, RecordIs
<1>3. PICK j \in DOMAIN inv : inv[j] = RecordOf(inv, inv[i].id)
  BY <1>2 DEF ToSet
<1> QED BY <1>1, <1>2, <1>3 DEF Inventories

\* The records of one inventory, as another one has them.
Within(new, old) ==
    /\ Installed(new) \subseteq Installed(old)
    /\ \A p \in Installed(new) : RecordOf(new, p) = RecordOf(old, p)

\* Dropping records keeps the others as they were.
LEMMA OnlyIs ==
    ASSUME NEW inv \in Inventories, NEW ids
    PROVE  /\ Only(inv, ids) \in Inventories
           /\ Installed(Only(inv, ids)) = Installed(inv) \cap ids
           /\ Within(Only(inv, ids), inv)
<1> DEFINE n == Len(inv)
           kept == CHOOSE f : f = [i \in 0..n |->
                     IF i = 0 THEN <<>>
                     ELSE IF inv[i].id \in ids THEN Append(f[i - 1], inv[i]) ELSE f[i - 1]]
           g == [x \in Seq(RecordType) \X (1..n) |->
                   IF inv[x[2]].id \in ids THEN Append(x[1], inv[x[2]]) ELSE x[1]]
           Part == [i \in 0..n |->
                     {s \in Inventories : ToSet(s) = {inv[j] : j \in {k \in 1..i : inv[k].id \in ids}}}]
<1>1. Only(inv, ids) = kept[n]
  BY DEF Only
<1>2. n \in Nat /\ DOMAIN inv = 1..n /\ \A i \in 1..n : inv[i] \in RecordType
  BY DEF Inventories
<1>3. kept = [i \in 0..n |-> IF i = 0 THEN <<>>
                ELSE IF inv[i].id \in ids THEN Append(kept[i - 1], inv[i]) ELSE kept[i - 1]]
  <2>1. \A x \in Seq(RecordType), i \in 1..n :
           g[<<x, i>>] = (IF inv[i].id \in ids THEN Append(x, inv[i]) ELSE x)
    OBVIOUS
  <2>2. ASSUME NEW x \in Seq(RecordType), NEW i \in 1..n PROVE g[<<x, i>>] \in Seq(RecordType)
    <3>1. PICK e \in RecordType : e = inv[i]
      BY <1>2
    <3>2. Append(x, e) \in Seq(RecordType)
      OBVIOUS
    <3> HIDE DEF g
    <3> QED BY <2>1, <3>1, <3>2
  <2>3. <<>> \in Seq(RecordType)
    OBVIOUS
  <2>4. PICK f : Iterates(f, g, <<>>, Seq(RecordType), n)
    <3> HIDE DEF g, n
    <3> QED BY <1>2, <2>2, <2>3, IterationExists
  <2> HIDE DEF g
  <2>5. \A i \in 0..n : f[i] = IF i = 0 THEN <<>>
                ELSE IF inv[i].id \in ids THEN Append(f[i - 1], inv[i]) ELSE f[i - 1]
    <3> SUFFICES ASSUME NEW i \in 0..n, i # 0
                 PROVE  f[i] = IF inv[i].id \in ids THEN Append(f[i - 1], inv[i]) ELSE f[i - 1]
      BY <2>4 DEF Iterates
    <3>1. i \in 1..n /\ i - 1 \in 0..n
      BY <1>2
    <3>2. f[i - 1] \in Seq(RecordType) /\ f[i] = g[<<f[i - 1], i>>]
      BY <2>4, <3>1 DEF Iterates
    <3> QED BY <2>1, <3>1, <3>2
  <2>6. f = [i \in 0..n |-> f[i]]
    BY <2>4 DEF Iterates
  <2>7. f = [i \in 0..n |-> IF i = 0 THEN <<>>
                ELSE IF inv[i].id \in ids THEN Append(f[i - 1], inv[i]) ELSE f[i - 1]]
    BY <2>5, <2>6
  <2> QED BY <2>7
<1> HIDE DEF kept, g
<1>4. kept[0] \in Part[0]
  <2>1. kept[0] = <<>> /\ 0 \in 0..n
    BY <1>2, <1>3
  <2>2. <<>> \in Inventories /\ ToSet(<<>>) = {}
    BY DEF Inventories, ToSet
  <2>3. {k \in 1..0 : inv[k].id \in ids} = {}
    OBVIOUS
  <2> QED BY <2>1, <2>2, <2>3
<1>5. ASSUME NEW i \in 1..n, kept[i - 1] \in Part[i - 1]
      PROVE  kept[i] \in Part[i]
  <2>1. i - 1 \in 0..n /\ i \in 0..n /\ i # 0
    BY <1>2
  <2>2. PICK s \in Inventories : /\ s = kept[i - 1]
                                 /\ ToSet(s) = {inv[j] : j \in {k \in 1..(i - 1) : inv[k].id \in ids}}
    BY <1>5, <2>1
  <2>3. kept[i] = IF inv[i].id \in ids THEN Append(s, inv[i]) ELSE s
    BY <1>3, <2>1, <2>2
  <2>4. CASE inv[i].id \in ids
    <3> DEFINE e == inv[i]
    <3>1. s \in Seq(RecordType) /\ e \in RecordType
      BY <1>2 DEF Inventories
    <3>2. PICK t \in Seq(RecordType) : t = Append(s, e)
      <4> HIDE DEF e
      <4>1. Append(s, e) \in Seq(RecordType)
        BY <3>1
      <4> QED BY <4>1
    <3>3. /\ Len(t) = Len(s) + 1 /\ Len(s) \in Nat /\ DOMAIN t = 1..(Len(s) + 1)
          /\ t[Len(s) + 1] = e /\ \A m \in 1..Len(s) : t[m] = s[m]
          /\ DOMAIN s = 1..Len(s)
      <4> HIDE DEF e
      <4> QED BY <3>1, <3>2
    <3>4. ToSet(t) = ToSet(s) \cup {inv[i]}
      BY <3>3 DEF ToSet
    <3>5. {k \in 1..i : inv[k].id \in ids} = {k \in 1..(i - 1) : inv[k].id \in ids} \cup {i}
      BY <1>2, <2>1, <2>4
    <3>6. ToSet(t) = {inv[j] : j \in {k \in 1..i : inv[k].id \in ids}}
      BY <2>2, <3>4, <3>5
    <3>7. \A m \in 1..Len(s) : s[m].id # inv[i].id
      <4> SUFFICES ASSUME NEW m \in 1..Len(s), s[m].id = inv[i].id PROVE FALSE
        OBVIOUS
      <4>1. s[m] \in ToSet(s)
        BY <3>3 DEF ToSet
      <4>2. PICK j \in 1..(i - 1) : s[m] = inv[j]
        BY <2>2, <4>1
      <4>3. j \in DOMAIN inv /\ i \in DOMAIN inv /\ j # i
        BY <1>2, <2>1
      <4> QED BY <4>2, <4>3 DEF Inventories
    <3>8. \A k, m \in DOMAIN t : t[k].id = t[m].id => k = m
      <4> SUFFICES ASSUME NEW k \in DOMAIN t, NEW m \in DOMAIN t, t[k].id = t[m].id PROVE k = m
        OBVIOUS
      <4>1. CASE k \in 1..Len(s) /\ m \in 1..Len(s)
        BY <3>3, <4>1 DEF Inventories
      <4>2. CASE k \in 1..Len(s) /\ m = Len(s) + 1
        BY <3>3, <3>7, <4>2
      <4>3. CASE m \in 1..Len(s) /\ k = Len(s) + 1
        BY <3>3, <3>7, <4>3
      <4> QED BY <3>3, <4>1, <4>2, <4>3
    <3>9. t \in Inventories
      BY <3>2, <3>8 DEF Inventories
    <3> QED BY <2>1, <2>3, <2>4, <3>2, <3>6, <3>9
  <2>5. CASE inv[i].id \notin ids
    <3>1. {k \in 1..i : inv[k].id \in ids} = {k \in 1..(i - 1) : inv[k].id \in ids}
      BY <1>2, <2>1, <2>5
    <3> QED BY <2>1, <2>2, <2>3, <2>5, <3>1
  <2> QED BY <2>4, <2>5
<1>6. kept[n] \in Part[n]
  <2>1. n \in 0..n
    BY <1>2
  <2> HIDE DEF Part, n
  <2> QED BY <1>2, <1>4, <1>5, <2>1, Climb
<1>7. PICK s \in Inventories : /\ s = Only(inv, ids)
                               /\ ToSet(s) = {inv[j] : j \in {k \in 1..n : inv[k].id \in ids}}
  BY <1>1, <1>2, <1>6
<1>8. \A p \in Installed(s) : p \in Installed(inv) /\ p \in ids /\ RecordOf(s, p) = RecordOf(inv, p)
  <2> SUFFICES ASSUME NEW p \in Installed(s)
               PROVE  p \in Installed(inv) /\ p \in ids /\ RecordOf(s, p) = RecordOf(inv, p)
    OBVIOUS
  <2>1. RecordOf(s, p) \in ToSet(s) /\ RecordOf(s, p).id = p
    BY RecordIs
  <2>2. PICK j \in 1..n : RecordOf(s, p) = inv[j] /\ inv[j].id \in ids
    BY <1>7, <2>1
  <2> QED BY <1>2, <2>1, <2>2, RecordAt
<1>9. ASSUME NEW p \in Installed(inv) \cap ids
      PROVE  p \in Installed(s)
  <2>1. PICK j \in 1..n : inv[j].id = p
    BY <1>2 DEF Installed
  <2>2. inv[j] \in ToSet(s)
    BY <1>7, <2>1
  <2> QED BY <2>1, <2>2 DEF ToSet, Installed
<1> QED BY <1>7, <1>8, <1>9 DEF Within

\* A record of a package not installed can be added.
LEMMA AppendIs ==
    ASSUME NEW inv \in Inventories, NEW e \in RecordType, e.id \notin Installed(inv)
    PROVE  /\ Append(inv, e) \in Inventories
           /\ Installed(Append(inv, e)) = Installed(inv) \cup {e.id}
           /\ RecordOf(Append(inv, e), e.id) = e
           /\ \A p \in Installed(inv) : RecordOf(Append(inv, e), p) = RecordOf(inv, p)
<1>1. inv \in Seq(RecordType)
  BY DEF Inventories
<1>2. PICK t \in Seq(RecordType) : t = Append(inv, e)
  <2>1. Append(inv, e) \in Seq(RecordType)
    BY <1>1
  <2> QED BY <2>1
<1>3. /\ Len(t) = Len(inv) + 1 /\ Len(inv) \in Nat
      /\ t[Len(inv) + 1] = e /\ \A m \in 1..Len(inv) : t[m] = inv[m]
      /\ DOMAIN inv = 1..Len(inv) /\ DOMAIN t = 1..(Len(inv) + 1)
  BY <1>1, <1>2
<1>4. \A m \in 1..Len(inv) : inv[m].id \in Installed(inv) /\ inv[m].id # e.id
  BY <1>3 DEF Installed
<1>5. t \in Inventories
  <2> SUFFICES ASSUME NEW k \in DOMAIN t, NEW m \in DOMAIN t, t[k].id = t[m].id PROVE k = m
    BY DEF Inventories
  <2>1. CASE k \in 1..Len(inv) /\ m \in 1..Len(inv)
    BY <1>3, <2>1 DEF Inventories
  <2>2. CASE k \in 1..Len(inv) /\ m = Len(inv) + 1
    BY <1>3, <1>4, <2>2
  <2>3. CASE m \in 1..Len(inv) /\ k = Len(inv) + 1
    BY <1>3, <1>4, <2>3
  <2> QED BY <1>3, <2>1, <2>2, <2>3
<1>6. Installed(t) = Installed(inv) \cup {e.id}
  <2>1. 1..(Len(inv) + 1) = 1..Len(inv) \cup {Len(inv) + 1}
    BY <1>3
  <2> QED BY <1>3, <2>1 DEF Installed
<1>7. RecordOf(t, e.id) = e
  <2>1. Len(inv) + 1 \in DOMAIN t
    BY <1>3
  <2> QED BY <1>3, <1>5, <2>1, RecordAt
<1>8. ASSUME NEW p \in Installed(inv) PROVE RecordOf(t, p) = RecordOf(inv, p)
  <2>1. PICK m \in 1..Len(inv) : inv[m].id = p
    BY <1>3 DEF Installed
  <2>2. m \in DOMAIN t /\ m \in DOMAIN inv /\ t[m] = inv[m]
    BY <1>3
  <2> QED BY <1>5, <2>1, <2>2, RecordAt
<1> QED BY <1>2, <1>5, <1>6, <1>7, <1>8

\* A record replaced in its position is the record of its package.
LEMMA UpdateIs ==
    ASSUME NEW inv \in Inventories, NEW e \in RecordType,
           NEW new, new = [i \in DOMAIN inv |-> IF inv[i].id = e.id THEN e ELSE inv[i]]
    PROVE  /\ new \in Inventories
           /\ Installed(new) = Installed(inv)
           /\ \A p \in Installed(inv) : RecordOf(new, p) = IF p = e.id THEN e ELSE RecordOf(inv, p)
<1>1. inv \in Seq(RecordType) /\ DOMAIN inv = 1..Len(inv) /\ Len(inv) \in Nat
  BY DEF Inventories
<1>2. DOMAIN new = 1..Len(inv) /\ \A i \in 1..Len(inv) : new[i] = IF inv[i].id = e.id THEN e ELSE inv[i]
  BY <1>1
<1>3. \A i \in 1..Len(inv) : inv[i] \in RecordType /\ new[i] \in RecordType /\ new[i].id = inv[i].id
  BY <1>1, <1>2
<1>4. new \in Seq(RecordType)
  <2>1. new \in [1..Len(inv) -> RecordType]
    BY <1>1, <1>2, <1>3
  <2> QED BY <1>1, <2>1
<1>5. new \in Inventories
  BY <1>1, <1>2, <1>3, <1>4 DEF Inventories
<1>6. Installed(new) = Installed(inv)
  BY <1>1, <1>2, <1>3 DEF Installed
<1>7. ASSUME NEW p \in Installed(inv)
      PROVE  RecordOf(new, p) = IF p = e.id THEN e ELSE RecordOf(inv, p)
  <2>1. PICK i \in 1..Len(inv) : inv[i].id = p
    BY <1>1 DEF Installed
  <2>2. RecordOf(new, p) = new[i] /\ RecordOf(inv, p) = inv[i]
    BY <1>1, <1>2, <1>3, <1>5, <2>1, RecordAt
  <2> QED BY <1>2, <2>1, <2>2
<1> QED BY <1>5, <1>6, <1>7

\* The record of a package that is new, or in another version, is the last.
Renewed(inv, e) == Append(Without(inv, e.id), e)

\* A record replaced at the end is the record of its package.
LEMMA RenewIs ==
    ASSUME NEW inv \in Inventories, NEW e \in RecordType, NEW new, new = Renewed(inv, e)
    PROVE  /\ new \in Inventories
           /\ Installed(new) = Installed(inv) \cup {e.id}
           /\ RecordOf(new, e.id) = e
           /\ \A p \in Installed(inv) \ {e.id} : RecordOf(new, p) = RecordOf(inv, p)
<1>1. PICK rest \in Inventories : /\ rest = Without(inv, e.id)
                                  /\ Installed(rest) = Installed(inv) \cap (Packages \ {e.id})
                                  /\ Within(rest, inv)
  BY OnlyIs DEF Without
<1>2. Installed(inv) \subseteq Packages /\ e.id \notin Installed(rest)
  BY <1>1, RecordIs
<1>3. /\ new \in Inventories
      /\ Installed(new) = Installed(rest) \cup {e.id}
      /\ RecordOf(new, e.id) = e
      /\ \A p \in Installed(rest) : RecordOf(new, p) = RecordOf(rest, p)
  BY <1>1, <1>2, AppendIs DEF Renewed
<1> QED BY <1>1, <1>2, <1>3 DEF Within

-----------------------------------------------------------------------------
(* Disks, what is in memory, and runs of synchronous code that began at a disk. *)

Mems == [cfg : Configs, sec : SUBSET Surfaces, cache : [Packages -> Versions \cup {Nothing}]]

Runs(from) ==
    {r \in [d : Disks, mem : Mems, todo : Seq(Disks), ok : BOOLEAN] :
       /\ r.d.cfg # Nothing
       /\ r.d = IF r.todo = <<>> THEN from ELSE Last(r.todo)}

\* The operator's own choices are installed, enabled, and no bundle's.
Kept(d, cfg, own) ==
    \A p \in own \cap Installed(d.inv) :
        KeyOf[p] = NoKey => /\ p \in cfg.desired /\ p \in d.cfg.desired
                            /\ RecordOf(d.inv, p).activatedBy = {}

\* What code that installs nothing does from r to s.
Shrinks(r, s, own) ==
    /\ s.d.beside = r.d.beside
    /\ Installed(s.d.inv) \subseteq Installed(r.d.inv)
    /\ Mismatched(s.d) \subseteq Mismatched(r.d)
    /\ Tidy(r.d) => Tidy(s.d)
    /\ r.d.journal = Nothing => s.d.journal = Nothing
    /\ Kept(r.d, r.mem.cfg, own) => Kept(s.d, s.mem.cfg, own)

\* Shrinking is transitive and reflexive.
LEMMA ShrinksOn ==
    ASSUME NEW r, NEW s, NEW t, NEW own, Shrinks(r, s, own), Shrinks(s, t, own)
    PROVE  Shrinks(r, t, own)
BY DEF Shrinks

LEMMA ShrinksStill ==
    ASSUME NEW r, NEW own
    PROVE  Shrinks(r, r, own)
BY DEF Shrinks

\* What the files of a disk hold.
LEMMA DiskIs ==
    ASSUME NEW d \in Disks
    PROVE  /\ d.dir \in [Packages -> Versions \cup {Nothing}]
           /\ d.aside \in [Packages -> Versions \cup {Nothing}]
           /\ d.inv \in Inventories /\ d.applied \subseteq Surfaces
           /\ d.cfg \in Configs \cup {Nothing} /\ d.sec \subseteq Surfaces
           /\ d.beside \in [Packages -> SUBSET [at : {"backup", "staging"}, ver : Versions]]
           /\ d.cache \in [Packages -> Versions \cup {Nothing}]
           /\ d.journal \in {Nothing, "remove", "apply"}
           /\ \A p \in Packages : d.aside[p] # Nothing => d.dir[p] = Nothing
BY DEF Disks

\* What a run has: disks, a configuration, and a last disk it leaves.
LEMMA RunIs ==
    ASSUME NEW from, NEW r \in Runs(from)
    PROVE  /\ r.d \in Disks /\ r.mem \in Mems /\ r.todo \in Seq(Disks) /\ r.ok \in BOOLEAN
           /\ r.d.cfg \in Configs /\ r.d.cfg # Nothing
           /\ r.mem.cfg \in Configs /\ r.mem.sec \subseteq Surfaces
           /\ r.mem.cache \in [Packages -> Versions \cup {Nothing}]
           /\ r.d.inv \in Inventories
           /\ r.d = IF r.todo = <<>> THEN from ELSE Last(r.todo)
<1>1. /\ r.d \in Disks /\ r.mem \in Mems /\ r.todo \in Seq(Disks) /\ r.ok \in BOOLEAN
      /\ r.d.cfg # Nothing /\ r.d = IF r.todo = <<>> THEN from ELSE Last(r.todo)
  BY DEF Runs
<1> QED BY <1>1, DiskIs DEF Mems

\* A write extends a run.
LEMMA CommitIs ==
    ASSUME NEW from, NEW r \in Runs(from), NEW d \in Disks, d.cfg # Nothing
    PROVE  /\ Commit(r, d) \in Runs(from) /\ Commit(r, d).d = d
           /\ Commit(r, d).mem = r.mem /\ Commit(r, d).ok = r.ok
<1>1. CASE d = r.d
  BY <1>1 DEF Commit
<1>2. CASE d # r.d
  <2>1. PICK t \in Seq(Disks) : t = Append(r.todo, d) /\ t # <<>> /\ Last(t) = d
    <3>1. r.todo \in Seq(Disks)
      BY RunIs
    <3>2. Append(r.todo, d) \in Seq(Disks)
      BY <3>1
    <3>3. Len(Append(r.todo, d)) = Len(r.todo) + 1 /\ Len(r.todo) \in Nat
          /\ Append(r.todo, d)[Len(r.todo) + 1] = d
      BY <3>1
    <3>4. Last(Append(r.todo, d)) = d
      BY <3>3 DEF Last
    <3>5. Append(r.todo, d) # <<>>
      <4>1. PICK t \in Seq(Disks) : t = Append(r.todo, d)
        BY <3>2
      <4>2. Len(t) # 0
        BY <3>3, <4>1
      <4>3. t # <<>>
        BY <4>2
      <4> QED BY <4>1, <4>3
    <3> QED BY <3>2, <3>4, <3>5
  <2>2. Commit(r, d) = [r EXCEPT !.d = d, !.todo = t]
    BY <1>2, <2>1 DEF Commit
  <2> QED BY <2>1, <2>2 DEF Runs
<1> QED BY <1>1, <1>2

\* Code begins with nothing written and the configuration on disk.
LEMMA StartIs ==
    ASSUME NEW d \in Disks, d.cfg # Nothing
    PROVE  /\ Start(d) \in Runs(d) /\ Start(d).d = d /\ Start(d).ok
           /\ Start(d).mem = LoadConfig(d) /\ Start(d).mem.cfg = d.cfg /\ Start(d).todo = <<>>
<1>1. LoadConfig(d) \in Mems /\ LoadConfig(d).cfg = d.cfg
  BY DiskIs DEF LoadConfig, Mems
<1> QED BY <1>1 DEF Start, Runs

\* What is in memory may change,
LEMMA WithMem ==
    ASSUME NEW from, NEW r \in Runs(from), NEW m \in Mems
    PROVE  /\ [r EXCEPT !.mem = m] \in Runs(from) /\ [r EXCEPT !.mem = m].mem = m
           /\ [r EXCEPT !.mem = m].d = r.d /\ [r EXCEPT !.mem = m].ok = r.ok
BY DEF Runs

\* and so may the outcome of a run.
LEMMA WithOk ==
    ASSUME NEW from, NEW r \in Runs(from), NEW b \in BOOLEAN
    PROVE  /\ [r EXCEPT !.ok = b] \in Runs(from) /\ [r EXCEPT !.ok = b].ok = b
           /\ [r EXCEPT !.ok = b].d = r.d /\ [r EXCEPT !.ok = b].mem = r.mem
BY DEF Runs

\* A failure leaves disk and memory as they are.
LEMMA FailIs ==
    ASSUME NEW from, NEW r \in Runs(from), NEW own
    PROVE  /\ Fail(r) \in Runs(from) /\ ~Fail(r).ok /\ Fail(r).d = r.d /\ Fail(r).mem = r.mem
           /\ Shrinks(r, Fail(r), own)
<1>1. Fail(r) \in Runs(from) /\ ~Fail(r).ok /\ Fail(r).d = r.d /\ Fail(r).mem = r.mem
  BY WithOk DEF Fail
<1> QED BY <1>1 DEF Shrinks

-----------------------------------------------------------------------------
(* Saving. *)

LEMMA WithinSelf == ASSUME NEW inv PROVE Within(inv, inv)
BY DEF Within

\* A run that only loses records, and keeps its directories, shrinks.
LEMMA FewerRecords ==
    ASSUME NEW from, NEW r \in Runs(from), NEW s \in Runs(from), NEW own,
           Within(s.d.inv, r.d.inv), s.d.dir = r.d.dir, s.d.aside = r.d.aside,
           s.d.beside = r.d.beside, s.d.journal \in {r.d.journal, Nothing},
           Kept(r.d, r.mem.cfg, own) =>
             \A p \in own \cap Installed(s.d.inv) :
               KeyOf[p] = NoKey => p \in s.mem.cfg.desired /\ p \in s.d.cfg.desired
    PROVE  Shrinks(r, s, own)
<1>1. Installed(s.d.inv) \subseteq Installed(r.d.inv)
  BY DEF Within
<1>2. Mismatched(s.d) \subseteq Mismatched(r.d)
  BY DEF Within, Mismatched
<1>3. Tidy(r.d) => Tidy(s.d)
  BY DEF Tidy
<1>4. Kept(r.d, r.mem.cfg, own) => Kept(s.d, s.mem.cfg, own)
  BY DEF Kept, Within
<1> QED BY <1>1, <1>2, <1>3, <1>4 DEF Shrinks

\* Saving fewer records, with what is applied, only shrinks a run.
LEMMA SaveInventoryIs ==
    ASSUME NEW from, NEW r \in Runs(from), NEW inv \in Inventories, NEW applied \in SUBSET Surfaces,
           NEW s, s = SaveInventory(r, inv, applied)
    PROVE  /\ s \in Runs(from) /\ s.mem = r.mem /\ s.ok = r.ok
           /\ s.d.inv = inv /\ s.d.applied = applied
           /\ s.d.dir = r.d.dir /\ s.d.aside = r.d.aside /\ s.d.cfg = r.d.cfg
           /\ s.d.beside = r.d.beside /\ s.d.journal = r.d.journal /\ s.d.sec = r.d.sec
<1>1. r.d \in Disks /\ r.d.cfg # Nothing
  BY RunIs
<1>2. PICK e : e = [r.d EXCEPT !.inv = inv, !.applied = applied]
  OBVIOUS
<1>3. /\ e \in Disks /\ e.inv = inv /\ e.applied = applied
      /\ e.dir = r.d.dir /\ e.aside = r.d.aside /\ e.cfg = r.d.cfg
      /\ e.beside = r.d.beside /\ e.journal = r.d.journal /\ e.sec = r.d.sec
  BY <1>1, <1>2 DEF Disks
<1>4. s = Commit(r, e)
  BY <1>2 DEF SaveInventory
<1> QED BY <1>1, <1>3, <1>4, CommitIs

\* Saving the configuration writes what is in memory and nothing else.
LEMMA SaveConfigIs ==
    ASSUME NEW from, NEW r \in Runs(from), NEW s, s = SaveConfig(r)
    PROVE  /\ s \in Runs(from) /\ s.mem = r.mem /\ s.ok = r.ok
           /\ s.d.inv = r.d.inv /\ s.d.applied = r.d.applied
           /\ s.d.dir = r.d.dir /\ s.d.aside = r.d.aside /\ s.d.cfg = r.mem.cfg
           /\ s.d.beside = r.d.beside /\ s.d.journal = r.d.journal /\ s.d.sec = r.mem.sec
<1>1. r.d \in Disks /\ r.d.cfg # Nothing /\ r.mem.cfg \in Configs /\ r.mem.sec \subseteq Surfaces
  BY RunIs
<1>2. Nothing \notin Configs
  BY DisksAssumption
<1>3. PICK e : e = [r.d EXCEPT !.cfg = r.mem.cfg]
  OBVIOUS
<1>4. /\ e \in Disks /\ e.inv = r.d.inv /\ e.applied = r.d.applied
      /\ e.dir = r.d.dir /\ e.aside = r.d.aside /\ e.cfg = r.mem.cfg
      /\ e.beside = r.d.beside /\ e.journal = r.d.journal
  BY <1>1, <1>3 DEF Disks
<1>5. PICK q \in Runs(from) : q = SavePublic(r) /\ q.d = e /\ q.mem = r.mem /\ q.ok = r.ok
  <2>1. SavePublic(r) = Commit(r, e)
    BY <1>3 DEF SavePublic
  <2>2. e.cfg # Nothing
    BY <1>1, <1>2, <1>4
  <2> QED BY <1>4, <2>1, <2>2, CommitIs
<1>6. PICK f : f = [e EXCEPT !.sec = r.mem.sec]
  OBVIOUS
<1>7. /\ f \in Disks /\ f.inv = r.d.inv /\ f.applied = r.d.applied
      /\ f.dir = r.d.dir /\ f.aside = r.d.aside /\ f.cfg = r.mem.cfg
      /\ f.beside = r.d.beside /\ f.journal = r.d.journal /\ f.sec = r.mem.sec
  BY <1>1, <1>4, <1>6 DEF Disks
<1>8. s = Commit(q, f)
  BY <1>5, <1>6 DEF SaveConfig, SaveSecrets
<1>9. f.cfg # Nothing
  BY <1>1, <1>2, <1>7
<1> QED BY <1>5, <1>7, <1>8, <1>9, CommitIs

\* A configuration that keeps the operator's choices is saved.
Keeps(r, m, own) ==
    \A p \in own \cap Installed(r.d.inv) :
        KeyOf[p] = NoKey /\ p \in r.mem.cfg.desired /\ RecordOf(r.d.inv, p).activatedBy = {} =>
            p \in m.cfg.desired

\* Saving another configuration.
LEMMA SaveMem ==
    ASSUME NEW from, NEW r \in Runs(from), NEW m \in Mems, NEW own, Keeps(r, m, own),
           NEW s, s = SaveConfig([r EXCEPT !.mem = m])
    PROVE  /\ s \in Runs(from) /\ s.mem = m /\ s.ok = r.ok /\ s.d.cfg = m.cfg
           /\ s.d.inv = r.d.inv /\ s.d.applied = r.d.applied
           /\ Shrinks(r, s, own)
<1>1. PICK q \in Runs(from) : q = [r EXCEPT !.mem = m] /\ q.mem = m /\ q.d = r.d /\ q.ok = r.ok
  <2>1. /\ [r EXCEPT !.mem = m] \in Runs(from) /\ [r EXCEPT !.mem = m].mem = m
        /\ [r EXCEPT !.mem = m].d = r.d /\ [r EXCEPT !.mem = m].ok = r.ok
    BY WithMem
  <2> QED BY <2>1
<1>2. /\ s \in Runs(from) /\ s.mem = m /\ s.ok = r.ok /\ s.d.cfg = m.cfg
      /\ s.d.inv = r.d.inv /\ s.d.applied = r.d.applied
      /\ s.d.dir = r.d.dir /\ s.d.aside = r.d.aside
      /\ s.d.beside = r.d.beside /\ s.d.journal = r.d.journal
  <2>1. s = SaveConfig(q)
    BY <1>1
  <2>2. /\ s \in Runs(from) /\ s.mem = q.mem /\ s.ok = q.ok
        /\ s.d.inv = q.d.inv /\ s.d.applied = q.d.applied
        /\ s.d.dir = q.d.dir /\ s.d.aside = q.d.aside /\ s.d.cfg = q.mem.cfg
        /\ s.d.beside = q.d.beside /\ s.d.journal = q.d.journal
    BY <2>1, SaveConfigIs
  <2>3. q.mem = m /\ q.d = r.d /\ q.ok = r.ok
    BY <1>1
  <2> QED BY <2>2, <2>3
<1>3. Kept(r.d, r.mem.cfg, own) =>
        \A p \in own \cap Installed(s.d.inv) :
          KeyOf[p] = NoKey => p \in s.mem.cfg.desired /\ p \in s.d.cfg.desired
  BY <1>2 DEF Kept, Keeps
<1>4. Within(s.d.inv, r.d.inv)
  BY <1>2, WithinSelf
<1>5. Shrinks(r, s, own)
  BY <1>2, <1>3, <1>4, FewerRecords
<1> QED BY <1>2, <1>5

\* Saving it only when it differs.
LEMMA SaveChangedIs ==
    ASSUME NEW from, NEW r \in Runs(from), NEW m \in Mems, NEW own, Keeps(r, m, own),
           NEW s, s = SaveChanged(r, m)
    PROVE  /\ s \in Runs(from) /\ s.mem = m /\ s.ok = r.ok
           /\ s.d.inv = r.d.inv /\ s.d.applied = r.d.applied
           /\ Shrinks(r, s, own)
<1>1. CASE m = r.mem
  BY <1>1, ShrinksStill DEF SaveChanged
<1>2. CASE m # r.mem
  BY <1>2, SaveMem DEF SaveChanged
<1> QED BY <1>1, <1>2

\* What is dropped of the configuration is not installed.
LEMMA PrunedIs ==
    ASSUME NEW m \in Mems, NEW here, NEW prune \in BOOLEAN
    PROVE  /\ Pruned(m, here, prune) \in Mems
           /\ m.cfg.desired \cap here \subseteq Pruned(m, here, prune).cfg.desired
<1> DEFINE kept == {p \in m.cfg.desired : p \in here \/ (~prune /\ KindOf[p] \in Exclusive)}
           lost == {KindOf[p] : p \in m.cfg.desired \ kept}
           root == [k \in Exclusive |-> IF k \in lost THEN {} ELSE m.cfg.root[k]]
           own == [p \in Packages |-> IF p \in here THEN m.cfg.own[p] ELSE {}]
           cfg == [m.cfg EXCEPT !.desired = kept, !.root = root, !.own = own]
           sec == m.sec \cap here
<1>1. m.cfg \in Configs /\ m.sec \subseteq Surfaces
  BY DEF Mems
<1>2. kept \subseteq m.cfg.desired /\ m.cfg.desired \cap here \subseteq kept
  OBVIOUS
<1>3. root \in [Exclusive -> SUBSET Packages] /\ own \in [Packages -> SUBSET Packages]
  BY <1>1 DEF Configs
<1>4. sec \subseteq Surfaces
  BY <1>1
<1>5. Pruned(m, here, prune) = [m EXCEPT !.cfg = cfg, !.sec = sec]
  BY DEF Pruned
<1> HIDE DEF kept, root, own, sec
<1>6. cfg \in Configs /\ cfg.desired = kept
  BY <1>1, <1>2, <1>3 DEF Configs
<1> HIDE DEF cfg
<1> QED BY <1>2, <1>4, <1>5, <1>6 DEF Mems

\* Judging whether the runtime can start leaves the selection alone.
LEMMA JudgedIs ==
    ASSUME NEW m \in Mems, NEW inv, NEW applied
    PROVE  Judged(m, inv, applied) \in Mems /\ Judged(m, inv, applied).cfg.desired = m.cfg.desired
<1> DEFINE b == Startable(m.cfg, inv, applied)
           cfg == [m.cfg EXCEPT !.setup = b]
<1>1. b \in BOOLEAN
  BY DEF Startable
<1>2. m.cfg \in Configs
  BY DEF Mems
<1>3. Judged(m, inv, applied) = [m EXCEPT !.cfg = cfg]
  BY DEF Judged
<1> HIDE DEF b
<1>4. cfg \in Configs /\ cfg.desired = m.cfg.desired
  BY <1>1, <1>2 DEF Configs
<1> HIDE DEF cfg
<1> QED BY <1>3, <1>4 DEF Mems

\* Reconciling touches no record and no operator's choice.
LEMMA ReconcileIs ==
    ASSUME NEW from, NEW r \in Runs(from), NEW prune \in BOOLEAN, NEW own,
           NEW s, s = Reconcile(r, prune)
    PROVE  /\ s \in Runs(from) /\ s.ok = r.ok /\ s.d.inv = r.d.inv
           /\ Shrinks(r, s, own)
<1> DEFINE here == Installed(r.d.inv)
           applied == r.d.applied \cap here
           m == Judged(Pruned(r.mem, here, prune), r.d.inv, applied)
<1>1. CASE ~r.ok
  BY <1>1, ShrinksStill DEF Reconcile
<1>2. CASE r.ok
  <2>1. r.mem \in Mems /\ r.d.inv \in Inventories /\ applied \in SUBSET Surfaces
    BY RunIs, DiskIs
  <2>2. Pruned(r.mem, here, prune) \in Mems
        /\ r.mem.cfg.desired \cap here \subseteq Pruned(r.mem, here, prune).cfg.desired
    BY <2>1, PrunedIs
  <2>3. m \in Mems /\ r.mem.cfg.desired \cap here \subseteq m.cfg.desired
    BY <2>2, JudgedIs
  <2> HIDE DEF m
  <2>4. Keeps(r, m, own)
    BY <2>3 DEF Keeps
  <2>5. PICK q \in Runs(from) : /\ q = SaveChanged(r, m) /\ q.ok = r.ok /\ q.d.inv = r.d.inv
                                /\ Shrinks(r, q, own)
    BY <2>3, <2>4, SaveChangedIs
  <2>6. s = SaveInventory(q, r.d.inv, applied)
    BY <1>2, <2>5 DEF Reconcile, m
  <2> HIDE DEF applied
  <2>7. /\ s \in Runs(from) /\ s.mem = q.mem /\ s.ok = q.ok
        /\ s.d.inv = r.d.inv
        /\ s.d.dir = q.d.dir /\ s.d.aside = q.d.aside /\ s.d.cfg = q.d.cfg
        /\ s.d.beside = q.d.beside /\ s.d.journal = q.d.journal
    BY <2>1, <2>6, SaveInventoryIs
  <2>8. Within(s.d.inv, q.d.inv)
    BY <2>5, <2>7, WithinSelf
  <2>9. Shrinks(q, s, own)
    <3>1. Kept(q.d, q.mem.cfg, own) =>
             \A p \in own \cap Installed(s.d.inv) :
               KeyOf[p] = NoKey => p \in s.mem.cfg.desired /\ p \in s.d.cfg.desired
      BY <2>5, <2>7 DEF Kept
    <3> QED BY <2>5, <2>7, <2>8, <3>1, FewerRecords
  <2> QED BY <2>5, <2>7, <2>9, ShrinksOn
<1> QED BY <1>1, <1>2

-----------------------------------------------------------------------------
(* The journal and recovery. *)

\* Writing the journal writes nothing else.
LEMMA JournalIs ==
    ASSUME NEW from, NEW r \in Runs(from), NEW name \in {Nothing, "remove", "apply"}, NEW own,
           NEW s, s = WriteJournal(r, name)
    PROVE  /\ s \in Runs(from) /\ s.mem = r.mem /\ s.ok = r.ok /\ s.d.journal = name
           /\ s.d.inv = r.d.inv /\ s.d.cfg = r.d.cfg /\ s.d.aside = r.d.aside /\ s.d.dir = r.d.dir
           /\ s.d.beside = r.d.beside /\ s.d.applied = r.d.applied /\ s.d.sec = r.d.sec
           /\ name = Nothing => Shrinks(r, s, own)
           /\ Kept(r.d, r.mem.cfg, own) => Kept(s.d, s.mem.cfg, own)
<1>1. r.d \in Disks /\ r.d.cfg # Nothing
  BY RunIs
<1>2. PICK e : e = [r.d EXCEPT !.journal = name]
  OBVIOUS
<1>3. /\ e \in Disks /\ e.inv = r.d.inv /\ e.journal = name
      /\ e.dir = r.d.dir /\ e.aside = r.d.aside /\ e.cfg = r.d.cfg /\ e.beside = r.d.beside
      /\ e.applied = r.d.applied /\ e.sec = r.d.sec
  BY <1>1, <1>2 DEF Disks
<1>4. s = Commit(r, e)
  BY <1>2 DEF WriteJournal
<1>5. s \in Runs(from) /\ s.d = e /\ s.mem = r.mem /\ s.ok = r.ok
  BY <1>1, <1>3, <1>4, CommitIs
<1>6. Kept(r.d, r.mem.cfg, own) => Kept(s.d, s.mem.cfg, own)
  BY <1>3, <1>5 DEF Kept
<1>7. name = Nothing => Shrinks(r, s, own)
  BY <1>3, <1>5, <1>6 DEF Shrinks, Mismatched, Tidy
<1> QED BY <1>3, <1>5, <1>6, <1>7

\* The journal can be cleared at any time.
LEMMA ClearJournalIs ==
    ASSUME NEW from, NEW r \in Runs(from), NEW own, NEW s, s = ClearJournal(r)
    PROVE  /\ s \in Runs(from) /\ s.mem = r.mem /\ s.ok = r.ok /\ s.d.journal = Nothing
           /\ s.d.inv = r.d.inv /\ s.d.cfg = r.d.cfg /\ s.d.aside = r.d.aside /\ s.d.dir = r.d.dir
           /\ s.d.applied = r.d.applied /\ s.d.sec = r.d.sec
           /\ Shrinks(r, s, own)
<1>1. s = WriteJournal(r, Nothing)
  BY DEF WriteJournal, ClearJournal
<1> QED BY <1>1, JournalIs

\* Repairing the inventory drops records without a directory only.
LEMMA RepairIs ==
    ASSUME NEW from, NEW r \in Runs(from), NEW own, NEW s, s = RepairInventory(r)
    PROVE  /\ s \in Runs(from) /\ s.mem = r.mem /\ s.ok = r.ok
           /\ s.d.aside = r.d.aside /\ s.d.journal = r.d.journal
           /\ Shrinks(r, s, own)
<1> DEFINE inv == Only(r.d.inv, {p \in Packages : r.d.dir[p] # Nothing})
<1>1. r.d.inv \in Inventories /\ r.d.applied \in SUBSET Surfaces
  BY RunIs, DiskIs
<1>2. inv \in Inventories /\ Within(inv, r.d.inv)
  BY <1>1, OnlyIs
<1>3. s = SaveInventory(r, inv, r.d.applied)
  BY DEF RepairInventory
<1> HIDE DEF inv
<1>4. /\ s \in Runs(from) /\ s.mem = r.mem /\ s.ok = r.ok /\ s.d.inv = inv
      /\ s.d.dir = r.d.dir /\ s.d.aside = r.d.aside /\ s.d.cfg = r.d.cfg
      /\ s.d.beside = r.d.beside /\ s.d.journal = r.d.journal
  BY <1>1, <1>2, <1>3, SaveInventoryIs
<1>5. Kept(r.d, r.mem.cfg, own) =>
        \A p \in own \cap Installed(s.d.inv) :
          KeyOf[p] = NoKey => p \in s.mem.cfg.desired /\ p \in s.d.cfg.desired
  BY <1>2, <1>4 DEF Kept, Within
<1>6. Shrinks(r, s, own)
  BY <1>2, <1>4, <1>5, FewerRecords
<1> QED BY <1>4, <1>6

\* Recovery of the journal.
LEMMA RecoverJournalIs ==
    ASSUME NEW from, NEW r \in Runs(from), NEW own, NEW s, s = RecoverJournal(r)
    PROVE  /\ s \in Runs(from) /\ s.ok = r.ok /\ s.d.journal = Nothing
           /\ Shrinks(r, s, own)
           /\ r.d.journal = Nothing => s = r
<1>1. CASE r.d.journal = Nothing
  BY <1>1, ShrinksStill DEF RecoverJournal
<1>2. CASE r.d.journal # Nothing
  <2>1. PICK q \in Runs(from) : q = RepairInventory(r) /\ q.ok = r.ok /\ Shrinks(r, q, own)
    BY RepairIs
  <2>2. PICK t \in Runs(from) : t = Reconcile(q, TRUE) /\ t.ok = q.ok /\ Shrinks(q, t, own)
    BY ReconcileIs
  <2>3. s = ClearJournal(t)
    BY <1>2, <2>1, <2>2 DEF RecoverJournal
  <2>4. s \in Runs(from) /\ s.ok = t.ok /\ s.d.journal = Nothing /\ Shrinks(t, s, own)
    BY <2>3, ClearJournalIs
  <2>5. Shrinks(r, s, own)
    BY <2>1, <2>2, <2>4, ShrinksOn
  <2> QED BY <1>2, <2>1, <2>2, <2>4, <2>5
<1> QED BY <1>1, <1>2

\* Several writes extend a run like one.
LEMMA CommitAllIs ==
    ASSUME NEW from, NEW r \in Runs(from), NEW ds \in Seq(Disks), ds # <<>>,
           Last(ds).cfg # Nothing, NEW s, s = CommitAll(r, ds)
    PROVE  s \in Runs(from) /\ s.d = Last(ds) /\ s.mem = r.mem /\ s.ok = r.ok
<1>1. r.todo \in Seq(Disks)
  BY RunIs
<1>2. PICK t \in Seq(Disks) : t = r.todo \o ds
  <2>1. r.todo \o ds \in Seq(Disks)
    BY <1>1
  <2> QED BY <2>1
<1>3. Len(ds) \in Nat /\ Len(ds) # 0 /\ Len(r.todo) \in Nat
  BY <1>1
<1>4. Len(t) = Len(r.todo) + Len(ds) /\ t[Len(r.todo) + Len(ds)] = ds[Len(ds)]
  BY <1>1, <1>2, <1>3
<1>5. Len(t) # 0
  BY <1>3, <1>4
<1>6. t # <<>> /\ Last(t) = Last(ds)
  BY <1>4, <1>5 DEF Last
<1>7. Last(ds) \in Disks
  BY <1>3 DEF Last
<1>8. s = [r EXCEPT !.d = Last(ds), !.todo = t]
  BY <1>2 DEF CommitAll
<1> QED BY <1>2, <1>6, <1>7, <1>8 DEF Runs

\* Directories that come back are where their records want them.
LEMMA RestoredIs ==
    ASSUME NEW d \in Disks, NEW gone, NEW e, e = Restored(d, gone)
    PROVE  /\ e \in Disks /\ e.inv = d.inv /\ e.cfg = d.cfg /\ e.beside = d.beside
           /\ e.journal = d.journal /\ e.applied = d.applied /\ e.sec = d.sec
           /\ Mismatched(e) \subseteq Mismatched(d)
           /\ Tidy(d) => Tidy(e)
           /\ \A p \in gone \cap Packages : e.aside[p] = Nothing
           /\ \A p \in Packages : d.aside[p] = Nothing => e.aside[p] = Nothing
<1> DEFINE aside == [p \in Packages |-> IF p \in gone THEN Nothing ELSE d.aside[p]]
           dir == [p \in Packages |-> IF p \in gone /\ d.dir[p] = Nothing THEN d.aside[p]
                                      ELSE d.dir[p]]
<1>1. /\ d.dir \in [Packages -> Versions \cup {Nothing}]
      /\ d.aside \in [Packages -> Versions \cup {Nothing}]
      /\ \A p \in Packages : d.aside[p] # Nothing => d.dir[p] = Nothing
  BY DiskIs
<1>2. dir \in [Packages -> Versions \cup {Nothing}] /\ aside \in [Packages -> Versions \cup {Nothing}]
  BY <1>1
<1>3. \A p \in Packages : aside[p] # Nothing => dir[p] = Nothing
  BY <1>1
<1>4. \A p \in Packages : {dir[p], aside[p]} \subseteq {d.dir[p], d.aside[p], Nothing}
                          /\ {d.dir[p], d.aside[p]} \subseteq {dir[p], aside[p], Nothing}
  BY <1>1
<1>5. /\ \A p \in gone \cap Packages : aside[p] = Nothing
      /\ \A p \in Packages : d.aside[p] = Nothing => aside[p] = Nothing
  OBVIOUS
<1>6. e = [d EXCEPT !.aside = aside, !.dir = dir]
  BY DEF Restored
<1> HIDE DEF aside, dir
<1>7. /\ e \in Disks /\ e.inv = d.inv /\ e.cfg = d.cfg /\ e.beside = d.beside
      /\ e.journal = d.journal /\ e.aside = aside /\ e.dir = dir
      /\ e.applied = d.applied /\ e.sec = d.sec
  BY <1>2, <1>3, <1>6 DEF Disks
<1>8. Mismatched(e) \subseteq Mismatched(d)
  <2> SUFFICES ASSUME NEW p \in Mismatched(e) PROVE p \in Mismatched(d)
    OBVIOUS
  <2>1. p \in Installed(d.inv) /\ RecordOf(d.inv, p).ver \notin {dir[p], aside[p]}
    BY <1>7 DEF Mismatched
  <2>2. p \in Packages /\ RecordOf(d.inv, p).ver \in Versions
    BY <2>1, DiskIs, RecordIs DEF RecordType
  <2>3. RecordOf(d.inv, p).ver # Nothing
    BY <2>2, SourcesAssumption
  <2> QED BY <1>4, <2>1, <2>2, <2>3 DEF Mismatched
<1> QED BY <1>5, <1>7, <1>8 DEF Tidy

\* A finite set is asked in a sequence, each element once.
LEMMA ListIs ==
    ASSUME NEW S, IsFiniteSet(S)
    PROVE  SetToSeq(S) \in Seq(S) /\ ToSet(SetToSeq(S)) = S
<1>1. Cardinality(S) \in Nat /\ ExistsBijection(1..Cardinality(S), S)
  BY FS_CardinalityType
<1>2. PICK f \in [1..Cardinality(S) -> S] : IsInjective(f)
  BY <1>1 DEF ExistsBijection, Bijection, Injection
<1>3. SetToSeq(S) \in [1..Cardinality(S) -> S] /\ IsInjective(SetToSeq(S))
  BY <1>2 DEF SetToSeq
<1>4. PICK q \in [1..Cardinality(S) -> S] : q = SetToSeq(S) /\ IsInjective(q)
  BY <1>3
<1>5. q \in Injection(1..Cardinality(S), S)
  BY <1>4 DEF Injection
<1>6. Cardinality(1..Cardinality(S)) = Cardinality(S)
  BY <1>1, FS_Interval
<1>7. q \in Surjection(1..Cardinality(S), S)
  BY <1>5, <1>6, FS_Injection
<1>8. q \in Seq(S)
  BY <1>1, <1>4
<1>9. ToSet(q) = S
  BY <1>4, <1>7 DEF Surjection, ToSet
<1> QED BY <1>4, <1>8, <1>9

\* Recovery of removals brings everything back that was set aside.
LEMMA RecoverRemovalsIs ==
    ASSUME NEW from, NEW r \in Runs(from), NEW own, NEW s, s = RecoverRemovals(r)
    PROVE  /\ s \in Runs(from) /\ s.ok = r.ok /\ Tidy(s.d)
           /\ Shrinks(r, s, own)
           /\ Tidy(r.d) => s = r
<1> DEFINE S == {p \in Packages : r.d.aside[p] # Nothing}
           staged == SetToSeq(S)
           disks == [i \in DOMAIN staged |-> Restored(r.d, {staged[j] : j \in 1..i})]
<1>1. IsFiniteSet(S)
  BY PackagesAssumption, FS_Subset
<1>2. staged \in Seq(S) /\ ToSet(staged) = S
  <2> HIDE DEF S
  <2> QED BY <1>1, ListIs
<1>3. s = IF staged = <<>> THEN r
          ELSE Reconcile(RepairInventory(CommitAll(r, disks)), TRUE)
  BY DEF RecoverRemovals
<1>4. r.d \in Disks /\ r.d.cfg # Nothing
  BY RunIs
<1>5. S = {} <=> Tidy(r.d)
  BY DEF Tidy
<1> HIDE DEF S, staged
<1>6. CASE staged = <<>>
  <2>1. S = {}
    BY <1>2, <1>6 DEF ToSet
  <2> QED BY <1>3, <1>5, <1>6, <2>1, ShrinksStill
<1>7. CASE staged # <<>>
  <2>1. Len(staged) \in Nat /\ DOMAIN staged = 1..Len(staged) /\ Len(staged) # 0
    BY <1>2, <1>7
  <2>2. \A i \in 1..Len(staged) : disks[i] \in Disks /\ disks[i].cfg # Nothing
    BY <1>4, <2>1, RestoredIs
  <2>3. disks \in Seq(Disks) /\ Len(disks) = Len(staged)
    <3>1. DOMAIN disks = 1..Len(staged)
      BY <2>1
    <3>2. disks \in [1..Len(staged) -> Disks]
      BY <2>1, <2>2
    <3> HIDE DEF disks
    <3> QED BY <2>1, <3>2
  <2>4. disks # <<>> /\ Last(disks) = Restored(r.d, {staged[j] : j \in 1..Len(staged)})
    <3>1. disks[Len(staged)] = Restored(r.d, {staged[j] : j \in 1..Len(staged)})
      BY <2>1
    <3> HIDE DEF disks
    <3> QED BY <2>1, <2>3, <3>1 DEF Last
  <2>5. {staged[j] : j \in 1..Len(staged)} = S
    BY <1>2, <2>1 DEF ToSet
  <2>6. PICK e \in Disks : e = Last(disks) /\ e = Restored(r.d, S)
    <3> HIDE DEF disks
    <3> QED BY <1>4, <2>4, <2>5, RestoredIs
  <2>7. /\ e.inv = r.d.inv /\ e.cfg = r.d.cfg /\ e.beside = r.d.beside /\ e.journal = r.d.journal
        /\ Mismatched(e) \subseteq Mismatched(r.d)
        /\ Tidy(r.d) => Tidy(e)
        /\ \A p \in S \cap Packages : e.aside[p] = Nothing
        /\ \A p \in Packages : r.d.aside[p] = Nothing => e.aside[p] = Nothing
    <3> HIDE DEF disks
    <3>1. e = Restored(r.d, S)
      BY <2>6
    <3> QED BY <1>4, <3>1, RestoredIs
  <2>8. Tidy(e)
    BY <2>7 DEF Tidy, S
  <2>9. PICK q \in Runs(from) : q = CommitAll(r, disks) /\ q.d = e /\ q.mem = r.mem /\ q.ok = r.ok
    <3> HIDE DEF disks
    <3>1. disks \in Seq(Disks) /\ disks # <<>> /\ Last(disks) = e /\ e.cfg # Nothing
      BY <1>4, <2>3, <2>4, <2>6, <2>7
    <3>2. Last(disks).cfg # Nothing
      BY <3>1
    <3>3. /\ CommitAll(r, disks) \in Runs(from) /\ CommitAll(r, disks).d = Last(disks)
          /\ CommitAll(r, disks).mem = r.mem /\ CommitAll(r, disks).ok = r.ok
      BY <3>1, <3>2, CommitAllIs
    <3> QED BY <3>1, <3>3
  <2> HIDE DEF disks
  <2>10. Shrinks(r, q, own)
    BY <2>7, <2>8, <2>9 DEF Shrinks, Kept
  <2>11. PICK t \in Runs(from) : /\ t = RepairInventory(q) /\ t.ok = q.ok /\ Shrinks(q, t, own)
                                 /\ t.d.aside = q.d.aside
    BY RepairIs
  <2>12. PICK u \in Runs(from) : u = Reconcile(t, TRUE) /\ u.ok = t.ok /\ Shrinks(t, u, own)
    BY ReconcileIs
  <2>13. s \in Runs(from) /\ s.ok = t.ok /\ Shrinks(t, s, own)
    <3>1. s = u
      BY <1>3, <1>7, <2>9, <2>11, <2>12
    <3> QED BY <2>12, <3>1
  <2>14. Shrinks(r, s, own) /\ Shrinks(q, s, own)
    BY <2>10, <2>11, <2>13, ShrinksOn
  <2>15. Tidy(s.d)
    BY <2>8, <2>9, <2>14 DEF Shrinks
  <2>16. ~Tidy(r.d)
    <3>1. staged[1] \in S
      BY <1>2, <2>1
    <3> QED BY <1>5, <3>1
  <2> QED BY <2>9, <2>11, <2>13, <2>14, <2>15, <2>16
<1> QED BY <1>6, <1>7

\* Recovery leaves a tidy disk and no journal.
LEMMA EnsureInitializedIs ==
    ASSUME NEW from, NEW r \in Runs(from), NEW own, NEW s, s = EnsureInitialized(r)
    PROVE  /\ s \in Runs(from) /\ s.ok = r.ok /\ Tidy(s.d) /\ s.d.journal = Nothing
           /\ Shrinks(r, s, own)
           /\ Tidy(r.d) /\ r.d.journal = Nothing => s = r
<1>1. PICK q \in Runs(from) : /\ q = RecoverJournal(r) /\ q.ok = r.ok /\ q.d.journal = Nothing
                              /\ Shrinks(r, q, own) /\ (r.d.journal = Nothing => q = r)
  BY RecoverJournalIs
<1>2. s = RecoverRemovals(q)
  BY <1>1 DEF EnsureInitialized
<1>3. /\ s \in Runs(from) /\ s.ok = q.ok /\ Tidy(s.d) /\ Shrinks(q, s, own)
      /\ Tidy(q.d) => s = q
  BY <1>2, RecoverRemovalsIs
<1>4. s.d.journal = Nothing
  BY <1>1, <1>3 DEF Shrinks
<1>5. Shrinks(r, s, own)
  BY <1>1, <1>3, ShrinksOn
<1> QED BY <1>1, <1>3, <1>4, <1>5

\* Setup is marked incomplete without touching the selection.
LEMMA MarkIs ==
    ASSUME NEW from, NEW r \in Runs(from), NEW own, NEW s, s = MarkSetupIncomplete(r)
    PROVE  s \in Runs(from) /\ s.ok = r.ok /\ s.d.inv = r.d.inv /\ Shrinks(r, s, own)
<1>1. CASE ~r.mem.cfg.setup
  BY <1>1, ShrinksStill DEF MarkSetupIncomplete
<1>2. CASE r.mem.cfg.setup
  <2>1. r.mem \in Mems /\ r.mem.cfg \in Configs
    BY RunIs
  <2> DEFINE c == [r.mem.cfg EXCEPT !.setup = FALSE]
  <2>2. c \in Configs /\ c.desired = r.mem.cfg.desired
    BY <2>1 DEF Configs
  <2> DEFINE m == [r.mem EXCEPT !.cfg = c]
  <2>3. m \in Mems /\ m.cfg.desired = r.mem.cfg.desired
    <3> HIDE DEF c
    <3> QED BY <2>1, <2>2 DEF Mems
  <2>4. s = SaveConfig([r EXCEPT !.mem = m])
    BY <1>2 DEF MarkSetupIncomplete, Configured
  <2> HIDE DEF m
  <2>5. Keeps(r, m, own)
    BY <2>3 DEF Keeps
  <2> QED BY <2>3, <2>4, <2>5, SaveMem
<1> QED BY <1>1, <1>2

\* A journalled operation ends without a journal, recovered if it failed.
LEMMA JournalledIs ==
    ASSUME NEW from, NEW r \in Runs(from), NEW own, NEW name, NEW s, s = Journalled(name, r)
    PROVE  s \in Runs(from) /\ s.ok = r.ok /\ s.d.journal = Nothing /\ Shrinks(r, s, own)
<1>1. CASE r.ok
  BY <1>1, ClearJournalIs DEF Journalled
<1>2. CASE ~r.ok
  <2>1. PICK q \in Runs(from) : q = [r EXCEPT !.ok = TRUE] /\ q.d = r.d /\ q.mem = r.mem
    BY WithOk
  <2>2. Shrinks(r, q, own)
    BY <2>1 DEF Shrinks
  <2>3. PICK t \in Runs(from) : t = RecoverJournal(q) /\ Shrinks(q, t, own)
    BY RecoverJournalIs
  <2>4. PICK u \in Runs(from) : /\ u = (IF name = "apply" THEN MarkSetupIncomplete(t) ELSE t)
                                /\ Shrinks(t, u, own)
    BY MarkIs, ShrinksStill
  <2>5. PICK v \in Runs(from) : v = ClearJournal(u) /\ v.d.journal = Nothing /\ Shrinks(u, v, own)
    BY ClearJournalIs
  <2>6. s = Fail(v)
    BY <1>2, <2>1, <2>3, <2>4, <2>5 DEF Journalled
  <2>7. s \in Runs(from) /\ ~s.ok /\ s.d = v.d /\ Shrinks(v, s, own)
    BY <2>6, FailIs
  <2>8. Shrinks(r, s, own)
    BY <2>2, <2>3, <2>4, <2>5, <2>7, ShrinksOn
  <2>9. s.ok \in BOOLEAN /\ r.ok \in BOOLEAN
    BY <2>7, RunIs
  <2> QED BY <1>2, <2>5, <2>7, <2>8, <2>9
<1> QED BY <1>1, <1>2

-----------------------------------------------------------------------------
(* The installer. *)

\* The record of an installation is a record.
LEMMA RecordForIs ==
    ASSUME NEW inv \in Inventories, NEW p \in Packages, NEW ver \in Versions,
           NEW owner \in Packages \cup {Nothing}, NEW e, e = RecordFor(inv, p, ver, owner)
    PROVE  /\ e \in RecordType /\ e.id = p /\ e.ver = ver
           /\ p \in Installed(inv) => e.activatedBy = RecordOf(inv, p).activatedBy
<1>1. CASE p \in Installed(inv)
  <2>1. RecordOf(inv, p) \in RecordType
    BY <1>1, RecordIs
  <2>2. e = [id |-> p, ver |-> ver,
             owners |-> RecordOf(inv, p).owners \cup ({owner} \ {Nothing}),
             activatedBy |-> RecordOf(inv, p).activatedBy]
    BY <1>1 DEF RecordFor
  <2> QED BY <2>1, <2>2 DEF RecordType
<1>2. CASE p \notin Installed(inv)
  <2>1. e = [id |-> p, ver |-> ver, owners |-> {} \cup ({owner} \ {Nothing}), activatedBy |-> {}]
    BY <1>2 DEF RecordFor
  <2> QED BY <1>2, <2>1 DEF RecordType
<1> QED BY <1>1, <1>2

Copies == [at : {"backup", "staging"}, ver : Versions]

\* What the installer does to the directories of p alone.
Replaces(r, s, p) ==
    /\ s.mem = r.mem /\ s.ok = r.ok
    /\ s.d.inv = r.d.inv /\ s.d.applied = r.d.applied /\ s.d.cfg = r.d.cfg
    /\ s.d.aside = r.d.aside /\ s.d.journal = r.d.journal /\ s.d.sec = r.d.sec
    /\ \A q \in Packages \ {p} : s.d.dir[q] = r.d.dir[q]

\* Directories beside a package come and go without touching anything else.
LEMMA BesideIs ==
    ASSUME NEW from, NEW r \in Runs(from), NEW p \in Packages, NEW C \in SUBSET Copies,
           NEW s, s = Commit(r, [r.d EXCEPT !.beside[p] = C])
    PROVE  s \in Runs(from) /\ Replaces(r, s, p) /\ s.d.dir = r.d.dir /\ s.d.beside[p] = C
<1>1. r.d \in Disks /\ r.d.cfg # Nothing
  BY RunIs
<1>2. r.d.beside \in [Packages -> SUBSET Copies]
  BY <1>1, DiskIs DEF Copies
<1>3. PICK b : b = [r.d.beside EXCEPT ![p] = C]
  OBVIOUS
<1>4. b \in [Packages -> SUBSET Copies] /\ b[p] = C
  BY <1>2, <1>3
<1>5. PICK e : e = [r.d EXCEPT !.beside = b]
  OBVIOUS
<1>6. /\ e \in Disks /\ e.inv = r.d.inv /\ e.applied = r.d.applied /\ e.cfg = r.d.cfg
      /\ e.aside = r.d.aside /\ e.journal = r.d.journal /\ e.dir = r.d.dir /\ e.beside = b
      /\ e.sec = r.d.sec
  BY <1>1, <1>4, <1>5 DEF Disks, Copies
<1>7. [r.d EXCEPT !.beside[p] = C] = e
  BY <1>3, <1>5
<1>8. s \in Runs(from) /\ s.d = e /\ s.mem = r.mem /\ s.ok = r.ok
  <2>1. s = Commit(r, e)
    BY <1>7
  <2>2. /\ Commit(r, e) \in Runs(from) /\ Commit(r, e).d = e
        /\ Commit(r, e).mem = r.mem /\ Commit(r, e).ok = r.ok
    BY <1>1, <1>6, CommitIs
  <2> QED BY <2>1, <2>2
<1> QED BY <1>4, <1>6, <1>8 DEF Replaces

\* The place of p has the version v, and C lies beside it.
Moved(d, p, v, C) == [d EXCEPT !.dir[p] = v, !.beside[p] = C]

CanMove(from, r, p, v, C) ==
    /\ r \in Runs(from) /\ p \in Packages /\ v \in Versions \cup {Nothing} /\ C \in SUBSET Copies
    /\ Tidy(r.d)

\* A rename touches the directories of one package.
LEMMA MoveIs ==
    ASSUME NEW from, NEW r, NEW p, NEW v, NEW C, CanMove(from, r, p, v, C)
    PROVE  \E s \in Runs(from) : /\ s = Commit(r, Moved(r.d, p, v, C))
                                 /\ Replaces(r, s, p) /\ s.d.dir[p] = v
<1> USE DEF CanMove
<1>1. r.d \in Disks /\ r.d.cfg # Nothing /\ Tidy(r.d)
  BY RunIs
<1>2. r.d.beside \in [Packages -> SUBSET Copies] /\ r.d.dir \in [Packages -> Versions \cup {Nothing}]
  BY <1>1, DiskIs DEF Copies
<1>3. PICK b, f : b = [r.d.beside EXCEPT ![p] = C] /\ f = [r.d.dir EXCEPT ![p] = v]
  OBVIOUS
<1>4. b \in [Packages -> SUBSET Copies] /\ f \in [Packages -> Versions \cup {Nothing}] /\ f[p] = v
      /\ \A q \in Packages \ {p} : f[q] = r.d.dir[q]
  BY <1>2, <1>3
<1>5. PICK e : e = [r.d EXCEPT !.dir = f, !.beside = b]
  OBVIOUS
<1>6. /\ e \in Disks /\ e.inv = r.d.inv /\ e.applied = r.d.applied /\ e.cfg = r.d.cfg
      /\ e.aside = r.d.aside /\ e.journal = r.d.journal /\ e.dir = f
      /\ e.sec = r.d.sec
  BY <1>1, <1>4, <1>5 DEF Disks, Copies, Tidy
<1>7. Moved(r.d, p, v, C) = e
  BY <1>1, <1>3, <1>5 DEF Disks, Moved
<1>8. PICK s : s = Commit(r, e)
  OBVIOUS
<1>9. s \in Runs(from) /\ s.d = e /\ s.mem = r.mem /\ s.ok = r.ok
  BY <1>1, <1>6, <1>8, CommitIs
<1> QED BY <1>4, <1>6, <1>7, <1>8, <1>9 DEF Replaces

\* Such changes add up.
LEMMA ReplacesOn ==
    ASSUME NEW p, NEW r, NEW s, NEW t, Replaces(r, s, p), Replaces(s, t, p)
    PROVE  Replaces(r, t, p)
BY DEF Replaces

\* Two renames put the version in its place.
LEMMA PlacedIs ==
    ASSUME NEW from, NEW r \in Runs(from), NEW p \in Packages, NEW ver \in Versions,
           NEW before \in SUBSET Copies, Tidy(r.d), NEW s, s = Placed(r, p, ver, before)
    PROVE  s \in Runs(from) /\ Replaces(r, s, p) /\ s.d.dir[p] = ver
<1>1. r.d.beside[p] \in SUBSET Copies /\ r.d.dir[p] \in Versions \cup {Nothing}
  <2>1. r.d \in Disks
    BY RunIs
  <2> QED BY <2>1, DiskIs DEF Copies
<1>2. PICK B \in SUBSET Copies : B = {[at |-> "backup", ver |-> v] : v \in {r.d.dir[p]} \ {Nothing}}
  <2>1. {[at |-> "backup", ver |-> v] : v \in {r.d.dir[p]} \ {Nothing}} \in SUBSET Copies
    BY <1>1 DEF Copies
  <2> QED BY <2>1
<1>3. PICK C \in SUBSET Copies : C = r.d.beside[p] \cup B
  BY <1>1, <1>2
<1>4. PICK D \in SUBSET Copies : D = before \cup B
  BY <1>1, <1>2
<1>5. PICK q \in Runs(from) : q = Commit(r, Moved(r.d, p, Nothing, C)) /\ Replaces(r, q, p)
  <2>1. CanMove(from, r, p, Nothing, C)
    BY DEF CanMove
  <2> QED BY <2>1, MoveIs
<1>6. Tidy(q.d)
  BY <1>5 DEF Tidy, Replaces
<1>7. PICK t \in Runs(from) : /\ t = Commit(q, Moved(q.d, p, ver, D)) /\ Replaces(q, t, p)
                              /\ t.d.dir[p] = ver
  <2>1. CanMove(from, q, p, ver, D)
    BY <1>6 DEF CanMove
  <2> QED BY <2>1, MoveIs
<1>8. s = Commit(t, [t.d EXCEPT !.beside[p] = before])
  <2>1. q = Commit(r, [r.d EXCEPT !.dir[p] = Nothing, !.beside[p] = @ \cup B])
    BY <1>3, <1>5 DEF Moved
  <2>2. t = Commit(q, [q.d EXCEPT !.dir[p] = ver, !.beside[p] = before \cup B])
    BY <1>4, <1>7 DEF Moved
  <2> QED BY <1>2, <2>1, <2>2 DEF Placed, Unstaged
<1>9. s \in Runs(from) /\ Replaces(t, s, p) /\ s.d.dir = t.d.dir
  BY <1>8, BesideIs
<1> QED BY <1>5, <1>7, <1>9, ReplacesOn

\* What installing p does from r to s.
Grows(r, s, p, own) ==
    /\ s.mem = r.mem
    /\ s.d.journal = r.d.journal
    /\ Tidy(s.d)
    /\ Installed(r.d.inv) \subseteq Installed(s.d.inv)
    /\ s.ok => p \in Installed(s.d.inv)
    /\ Mismatched(s.d) \subseteq Mismatched(r.d) \ (IF s.ok THEN {p} ELSE {})
    /\ Kept(r.d, r.mem.cfg, own) => Kept(s.d, s.mem.cfg, own)

\* A change beside a package mismatches nothing.
LEMMA ReplacesNothing ==
    ASSUME NEW r, NEW q, NEW p, NEW own, Replaces(r, q, p), q.d.dir = r.d.dir, Tidy(r.d),
           NEW s, s.d = q.d, s.mem = q.mem, ~s.ok
    PROVE  Grows(r, s, p, own)
BY DEF Replaces, Grows, Tidy, Mismatched, Kept

\* An installation changes one record, and its directory with it, or none.
LEMMA InstallFilesIs ==
    ASSUME NEW from, NEW r \in Runs(from), NEW p \in Packages, NEW ver \in Versions,
           NEW owner \in Packages \cup {Nothing}, NEW how, Tidy(r.d),
           NEW own, own \subseteq Installed(r.d.inv),
           NEW s, s = InstallFiles(r, p, ver, owner, how)
    PROVE  s \in Runs(from) /\ Grows(r, s, p, own)
<1> DEFINE before == r.d.beside[p]
           staged == Staged(r, p, ver)
           new == RecordFor(r.d.inv, p, ver, owner)
           inv == Append(Without(r.d.inv, p), new)
<1>1. r.d \in Disks /\ r.d.inv \in Inventories /\ before \in SUBSET Copies /\ r.d.applied \in SUBSET Surfaces
  <2>1. r.d \in Disks
    BY RunIs
  <2> QED BY <2>1, DiskIs DEF Copies
<1>2. staged \in Runs(from) /\ Replaces(r, staged, p) /\ staged.d.dir = r.d.dir
  <2>1. before \cup {[at |-> "staging", ver |-> ver]} \in SUBSET Copies
    BY <1>1 DEF Copies
  <2> QED BY <2>1, BesideIs DEF Staged
<1>3. /\ new \in RecordType /\ new.id = p /\ new.ver = ver
      /\ p \in Installed(r.d.inv) => new.activatedBy = RecordOf(r.d.inv, p).activatedBy
  BY <1>1, RecordForIs
<1> HIDE DEF new
<1>4. /\ inv \in Inventories
      /\ Installed(inv) = Installed(r.d.inv) \cup {p}
      /\ RecordOf(inv, p) = new
      /\ \A q \in Installed(r.d.inv) \ {p} : RecordOf(inv, q) = RecordOf(r.d.inv, q)
  <2>1. PICK e \in RecordType : e = new /\ e.id = p
    BY <1>3
  <2>2. PICK i : i = Renewed(r.d.inv, e)
    OBVIOUS
  <2>3. i = inv
    BY <2>1, <2>2 DEF Renewed
  <2> HIDE DEF inv
  <2>4. /\ i \in Inventories
        /\ Installed(i) = Installed(r.d.inv) \cup {e.id}
        /\ RecordOf(i, e.id) = e
        /\ \A q \in Installed(r.d.inv) \ {e.id} : RecordOf(i, q) = RecordOf(r.d.inv, q)
    BY <1>1, <2>2, RenewIs
  <2> QED BY <2>1, <2>3, <2>4
<1>5. \/ s = Fail(r) \/ s = Fail(staged) \/ s = Fail(Unstaged(staged, p, before))
      \/ s = SaveInventory(Placed(staged, p, ver, before), inv, r.d.applied) /\ r.ok
  BY DEF InstallFiles, new
<1> HIDE DEF before, staged, inv
<1>6. CASE s = Fail(r)
  <2>1. s \in Runs(from) /\ ~s.ok /\ s.d = r.d /\ s.mem = r.mem
    BY <1>6, FailIs
  <2> QED BY <2>1 DEF Grows
<1>7. CASE s = Fail(staged)
  <2>1. s \in Runs(from) /\ ~s.ok /\ s.d = staged.d /\ s.mem = staged.mem
    BY <1>2, <1>7, FailIs
  <2> QED BY <1>2, <2>1, ReplacesNothing
<1>8. CASE s = Fail(Unstaged(staged, p, before))
  <2>1. PICK q \in Runs(from) : /\ q = Unstaged(staged, p, before) /\ Replaces(staged, q, p)
                                /\ q.d.dir = staged.d.dir
    BY <1>1, <1>2, BesideIs DEF Unstaged
  <2>2. s \in Runs(from) /\ ~s.ok /\ s.d = q.d /\ s.mem = q.mem
    BY <1>8, <2>1, FailIs
  <2>3. Replaces(r, q, p)
    BY <1>2, <2>1, ReplacesOn
  <2> QED BY <1>2, <2>1, <2>2, <2>3, ReplacesNothing
<1>9. CASE s = SaveInventory(Placed(staged, p, ver, before), inv, r.d.applied) /\ r.ok
  <2>1. Tidy(staged.d)
    BY <1>2 DEF Tidy, Replaces
  <2>2. PICK q \in Runs(from) : /\ q = Placed(staged, p, ver, before) /\ Replaces(staged, q, p)
                                /\ q.d.dir[p] = ver
    BY <1>1, <1>2, <2>1, PlacedIs
  <2>3. Replaces(r, q, p)
    BY <1>2, <2>2, ReplacesOn
  <2>4. /\ s \in Runs(from) /\ s.mem = q.mem /\ s.ok = q.ok
        /\ s.d.inv = inv
        /\ s.d.dir = q.d.dir /\ s.d.aside = q.d.aside /\ s.d.cfg = q.d.cfg
        /\ s.d.journal = q.d.journal
    BY <1>1, <1>4, <1>9, <2>2, SaveInventoryIs
  <2>5. Tidy(s.d)
    BY <2>3, <2>4 DEF Tidy, Replaces
  <2>6. Mismatched(s.d) \subseteq Mismatched(r.d) \ {p}
    <3> SUFFICES ASSUME NEW x \in Mismatched(s.d) PROVE x \in Mismatched(r.d) \ {p}
      OBVIOUS
    <3>1. x \in Installed(inv) /\ RecordOf(inv, x).ver \notin {s.d.dir[x], s.d.aside[x]}
      BY <2>4 DEF Mismatched
    <3>2. x # p
      BY <1>3, <1>4, <2>2, <2>4, <3>1
    <3>3. x \in Installed(r.d.inv) /\ RecordOf(r.d.inv, x).ver \notin {r.d.dir[x], r.d.aside[x]}
      <4>1. x \in Installed(r.d.inv) /\ RecordOf(inv, x) = RecordOf(r.d.inv, x)
        BY <1>4, <3>1, <3>2
      <4>2. x \in Packages
        BY <1>1, <4>1, RecordIs
      <4> QED BY <2>3, <2>4, <3>1, <3>2, <4>1, <4>2 DEF Replaces
    <3> QED BY <3>2, <3>3 DEF Mismatched
  <2>7. Kept(r.d, r.mem.cfg, own) => Kept(s.d, s.mem.cfg, own)
    <3> SUFFICES ASSUME Kept(r.d, r.mem.cfg, own), NEW x \in own \cap Installed(inv), KeyOf[x] = NoKey
                 PROVE  /\ x \in s.mem.cfg.desired /\ x \in s.d.cfg.desired
                        /\ RecordOf(inv, x).activatedBy = {}
      BY <2>4 DEF Kept
    <3>1. x \in Installed(r.d.inv)
      OBVIOUS
    <3>2. x \in r.mem.cfg.desired /\ x \in r.d.cfg.desired /\ RecordOf(r.d.inv, x).activatedBy = {}
      BY <3>1 DEF Kept
    <3>3. RecordOf(inv, x).activatedBy = RecordOf(r.d.inv, x).activatedBy
      BY <1>3, <1>4, <3>1
    <3> QED BY <2>3, <2>4, <3>2, <3>3 DEF Replaces
  <2>8. Grows(r, s, p, own)
    BY <1>4, <2>3, <2>4, <2>5, <2>6, <2>7 DEF Grows, Replaces
  <2> QED BY <2>4, <2>8
<1> QED BY <1>5, <1>6, <1>7, <1>8, <1>9

-----------------------------------------------------------------------------
(* Removal. *)

\* The elements of a sequence with one more.
LEMMA AppendSet ==
    ASSUME NEW S, NEW q \in Seq(S), NEW x \in S
    PROVE  Append(q, x) \in Seq(S) /\ ToSet(Append(q, x)) = ToSet(q) \cup {x}
<1>1. PICK t \in Seq(S) : t = Append(q, x)
  <2>1. Append(q, x) \in Seq(S)
    OBVIOUS
  <2> QED BY <2>1
<1>2. /\ DOMAIN t = 1..(Len(q) + 1) /\ Len(q) \in Nat /\ DOMAIN q = 1..Len(q)
      /\ t[Len(q) + 1] = x /\ \A i \in 1..Len(q) : t[i] = q[i]
  BY <1>1
<1> QED BY <1>1, <1>2 DEF ToSet

\* The end of a path, and the path before it.
LEMMA EndOf ==
    ASSUME NEW S, NEW q \in Seq(S), q # <<>>
    PROVE  Last(q) \in S /\ Front(q) \in Seq(S)
<1>1. Len(q) \in Nat /\ Len(q) # 0
  OBVIOUS
<1> QED BY <1>1 DEF Last, Front

\* A removal under way: what it leaves in the inventory has kept its directories.
Removing(from, r) ==
    {m \in [r : Runs(from), path : Seq(Packages), seen : SUBSET Packages, gone : Seq(Packages),
            inv : Inventories, applied : SUBSET Surfaces] :
       /\ m.r.mem = r.mem /\ m.r.ok = r.ok /\ m.r.d.inv = r.d.inv /\ m.r.d.cfg = r.d.cfg
       /\ m.r.d.journal = r.d.journal /\ m.r.d.beside = r.d.beside
       /\ m.r.d.applied = r.d.applied /\ m.r.d.sec = r.d.sec
       /\ Within(m.inv, r.d.inv)
       /\ Installed(m.inv) \cap ToSet(m.gone) = {}
       /\ \A p \in Packages \ ToSet(m.gone) :
            m.r.d.dir[p] = r.d.dir[p] /\ m.r.d.aside[p] = r.d.aside[p]}

\* The place of p is emptied.
Away(d, p) == [d EXCEPT !.aside[p] = d.dir[p], !.dir[p] = Nothing]

\* A directory that is set aside leaves the others alone.
LEMMA AsideIs ==
    ASSUME NEW d \in Disks, NEW p \in Packages, d.dir[p] # Nothing, NEW e, e = Away(d, p)
    PROVE  /\ e \in Disks /\ e.inv = d.inv /\ e.cfg = d.cfg /\ e.journal = d.journal
           /\ e.beside = d.beside /\ e.applied = d.applied /\ e.sec = d.sec
           /\ \A q \in Packages \ {p} : e.dir[q] = d.dir[q] /\ e.aside[q] = d.aside[q]
<1>1. /\ d.dir \in [Packages -> Versions \cup {Nothing}]
      /\ d.aside \in [Packages -> Versions \cup {Nothing}]
      /\ \A q \in Packages : d.aside[q] # Nothing => d.dir[q] = Nothing
  BY DiskIs
<1>2. PICK a, f : a = [d.aside EXCEPT ![p] = d.dir[p]] /\ f = [d.dir EXCEPT ![p] = Nothing]
  OBVIOUS
<1>3. /\ a \in [Packages -> Versions \cup {Nothing}] /\ f \in [Packages -> Versions \cup {Nothing}]
      /\ \A q \in Packages : a[q] # Nothing => f[q] = Nothing
      /\ \A q \in Packages \ {p} : f[q] = d.dir[q] /\ a[q] = d.aside[q]
  BY <1>1, <1>2
<1>4. e = [d EXCEPT !.aside = a, !.dir = f]
  BY <1>2 DEF Disks, Away
<1>5. e \in Disks /\ e.dir = f /\ e.aside = a /\ e.inv = d.inv /\ e.cfg = d.cfg
      /\ e.journal = d.journal /\ e.beside = d.beside
      /\ e.applied = d.applied /\ e.sec = d.sec
  BY <1>3, <1>4 DEF Disks
<1> QED BY <1>3, <1>5

\* Setting the end of the path aside,
LEMMA SetAsideIs ==
    ASSUME NEW from, NEW r \in Runs(from), NEW m \in Removing(from, r), m.path # <<>>
    PROVE  SetAside(m) \in Removing(from, r)
<1>1. /\ m.r \in Runs(from) /\ m.path \in Seq(Packages) /\ m.seen \subseteq Packages
      /\ m.gone \in Seq(Packages) /\ m.inv \in Inventories /\ m.applied \subseteq Surfaces
      /\ m = [r |-> m.r, path |-> m.path, seen |-> m.seen, gone |-> m.gone, inv |-> m.inv,
              applied |-> m.applied]
  BY DEF Removing
<1>2. /\ m.r.mem = r.mem /\ m.r.ok = r.ok /\ m.r.d.inv = r.d.inv /\ m.r.d.cfg = r.d.cfg
      /\ m.r.d.journal = r.d.journal /\ m.r.d.beside = r.d.beside
      /\ m.r.d.applied = r.d.applied /\ m.r.d.sec = r.d.sec
      /\ Within(m.inv, r.d.inv)
      /\ Installed(m.inv) \cap ToSet(m.gone) = {}
      /\ \A q \in Packages \ ToSet(m.gone) :
           m.r.d.dir[q] = r.d.dir[q] /\ m.r.d.aside[q] = r.d.aside[q]
  BY DEF Removing
<1>3. PICK p \in Packages, path \in Seq(Packages) : p = Last(m.path) /\ path = Front(m.path)
  BY <1>1, EndOf
<1>4. PICK inv \in Inventories : /\ inv = Without(m.inv, p)
                                 /\ Installed(inv) = Installed(m.inv) \ {p}
                                 /\ Within(inv, m.inv)
  <2>1. /\ Without(m.inv, p) \in Inventories /\ Within(Without(m.inv, p), m.inv)
        /\ Installed(Without(m.inv, p)) = Installed(m.inv) \cap (Packages \ {p})
    BY <1>1, OnlyIs DEF Without
  <2>2. Installed(m.inv) \subseteq Packages
    BY <1>1, RecordIs
  <2> QED BY <2>1, <2>2
<1>5. Within(inv, r.d.inv)
  BY <1>2, <1>4 DEF Within
<1>6. PICK applied \in SUBSET Surfaces : applied = m.applied \ {p}
  BY <1>1
<1>7. m.r.d \in Disks /\ m.r.d.cfg # Nothing
  BY <1>1, RunIs
<1>8. CASE m.r.d.dir[p] = Nothing
  <2>1. SetAside(m) = [r |-> m.r, path |-> path, seen |-> m.seen, gone |-> m.gone, inv |-> inv,
                       applied |-> applied]
    BY <1>1, <1>3, <1>4, <1>6, <1>8 DEF SetAside
  <2> QED BY <1>1, <1>2, <1>4, <1>5, <2>1 DEF Removing
<1>9. CASE m.r.d.dir[p] # Nothing
  <2>1. PICK e : e = Away(m.r.d, p)
    OBVIOUS
  <2>2. /\ e \in Disks /\ e.inv = r.d.inv /\ e.cfg = r.d.cfg /\ e.journal = r.d.journal
        /\ e.beside = r.d.beside /\ e.applied = r.d.applied /\ e.sec = r.d.sec
        /\ \A q \in Packages \ {p} : e.dir[q] = m.r.d.dir[q] /\ e.aside[q] = m.r.d.aside[q]
    BY <1>2, <1>7, <1>9, <2>1, AsideIs
  <2>3. PICK u \in Runs(from) : u = Commit(m.r, e) /\ u.d = e /\ u.mem = r.mem /\ u.ok = r.ok
    BY <1>1, <1>2, <1>7, <2>2, CommitIs
  <2>4. PICK gone \in Seq(Packages) : gone = Append(m.gone, p) /\ ToSet(gone) = ToSet(m.gone) \cup {p}
    <3>1. m.gone \in Seq(Packages)
      BY <1>1
    <3>2. Append(m.gone, p) \in Seq(Packages) /\ ToSet(Append(m.gone, p)) = ToSet(m.gone) \cup {p}
      BY <3>1, AppendSet
    <3> QED BY <3>2
  <2>5. SetAside(m) = [r |-> u, path |-> path, seen |-> m.seen, gone |-> gone, inv |-> inv,
                       applied |-> applied]
    BY <1>1, <1>3, <1>4, <1>6, <1>9, <2>1, <2>3, <2>4 DEF SetAside, Away
  <2>6. /\ Installed(inv) \cap ToSet(gone) = {}
        /\ \A q \in Packages \ ToSet(gone) : e.dir[q] = r.d.dir[q] /\ e.aside[q] = r.d.aside[q]
    BY <1>2, <1>4, <2>2, <2>4
  <2> QED BY <1>1, <1>5, <2>2, <2>3, <2>5, <2>6 DEF Removing
<1> QED BY <1>8, <1>9

\* and every other step of a removal, keep what a removal promises,
LEMMA RemoveOneIs ==
    ASSUME NEW from, NEW r \in Runs(from), NEW m \in Removing(from, r)
    PROVE  RemoveOne(m) \in Removing(from, r)
<1> DEFINE above == Dependents(m.inv, Last(m.path)) \ m.seen
           q == CHOOSE x \in above : TRUE
<1>1. CASE m.path = <<>>
  BY <1>1 DEF RemoveOne
<1>2. CASE m.path # <<>> /\ above = {}
  BY <1>2, SetAsideIs DEF RemoveOne
<1>3. CASE m.path # <<>> /\ above # {}
  <2>1. /\ m.inv \in Inventories /\ m.path \in Seq(Packages) /\ m.seen \subseteq Packages
        /\ m = [r |-> m.r, path |-> m.path, seen |-> m.seen, gone |-> m.gone, inv |-> m.inv,
                applied |-> m.applied]
    BY DEF Removing
  <2>2. \A e \in ToSet(m.inv) : e.id \in Packages
    <3>1. ToSet(m.inv) \subseteq RecordType
      BY <2>1 DEF Inventories, ToSet
    <3> QED BY <3>1 DEF RecordType
  <2>3. above \subseteq Packages
    BY <2>2 DEF Dependents
  <2>4. q \in Packages
    BY <1>3, <2>3
  <2>5. RemoveOne(m) = [m EXCEPT !.path = Append(m.path, q), !.seen = m.seen \cup {q}]
    BY <1>3 DEF RemoveOne
  <2> HIDE DEF above, q
  <2>6. PICK path \in Seq(Packages) : path = Append(m.path, q)
    BY <2>1, <2>4, AppendSet
  <2>7. PICK seen \in SUBSET Packages : seen = m.seen \cup {q}
    BY <2>1, <2>4
  <2>8. RemoveOne(m) = [m EXCEPT !.path = path, !.seen = seen]
    BY <2>5, <2>6, <2>7
  <2> QED BY <2>8 DEF Removing
<1> QED BY <1>1, <1>2, <1>3

\* and so does the whole of it.
LEMMA RemoveFromStateIs ==
    ASSUME NEW from, NEW r \in Runs(from), NEW p \in Packages
    PROVE  RemoveFromState(r, p) \in Removing(from, r)
<1> DEFINE n == 2 * Len(r.d.inv) + 2
           first == [r |-> r, path |-> <<p>>, seen |-> {p}, gone |-> <<>>,
                     inv |-> r.d.inv, applied |-> r.d.applied]
           after == CHOOSE f : f = [i \in 0..n |-> IF i = 0 THEN first ELSE RemoveOne(f[i - 1])]
           g == [x \in Removing(from, r) \X (1..n) |-> RemoveOne(x[1])]
<1>1. RemoveFromState(r, p) = after[n]
  BY DEF RemoveFromState
<1>2. r.d.inv \in Inventories /\ r.d.applied \subseteq Surfaces
  BY RunIs, DiskIs
<1>3. n \in Nat
  <2>1. r.d.inv \in Seq(RecordType)
    BY <1>2 DEF Inventories
  <2>2. Len(r.d.inv) \in Nat
    BY <2>1
  <2> QED BY <2>2
<1>4. first \in Removing(from, r)
  <2>1. <<p>> \in Seq(Packages) /\ <<>> \in Seq(Packages) /\ ToSet(<<>>) = {}
    BY DEF ToSet
  <2>2. Within(r.d.inv, r.d.inv)
    BY WithinSelf
  <2> QED BY <1>2, <2>1, <2>2 DEF Removing
<1> HIDE DEF n, first
<1>5. ASSUME NEW x \in Removing(from, r), NEW i \in 1..n
      PROVE  g[<<x, i>>] = RemoveOne(x) /\ g[<<x, i>>] \in Removing(from, r)
  BY RemoveOneIs
<1> HIDE DEF g
<1>6. PICK f : Iterates(f, g, first, Removing(from, r), n)
  BY <1>3, <1>4, <1>5, IterationExists
<1>7. \A i \in 0..n : f[i] = IF i = 0 THEN first ELSE RemoveOne(f[i - 1])
  <2> SUFFICES ASSUME NEW i \in 0..n, i # 0 PROVE f[i] = RemoveOne(f[i - 1])
    BY <1>6 DEF Iterates
  <2>1. i \in 1..n /\ i - 1 \in 0..n
    BY <1>3
  <2>2. f[i - 1] \in Removing(from, r) /\ f[i] = g[<<f[i - 1], i>>]
    BY <1>6, <2>1 DEF Iterates
  <2> QED BY <1>5, <2>1, <2>2
<1>8. f = [i \in 0..n |-> f[i]]
  BY <1>6 DEF Iterates
<1>9. f = [i \in 0..n |-> IF i = 0 THEN first ELSE RemoveOne(f[i - 1])]
  BY <1>7, <1>8
<1>10. after = [i \in 0..n |-> IF i = 0 THEN first ELSE RemoveOne(after[i - 1])]
  BY <1>9
<1> HIDE DEF after
<1> DEFINE S == [i \in 0..n |-> Removing(from, r)]
<1>11. after[0] \in S[0]
  BY <1>3, <1>4, <1>10
<1>12. ASSUME NEW i \in 1..n, after[i - 1] \in S[i - 1] PROVE after[i] \in S[i]
  <2>1. i \in 0..n /\ i - 1 \in 0..n /\ i # 0
    BY <1>3
  <2>2. after[i] = RemoveOne(after[i - 1]) /\ after[i - 1] \in Removing(from, r)
    BY <1>10, <1>12, <2>1
  <2> QED BY <2>1, <2>2, RemoveOneIs
<1>13. n \in 0..n
  BY <1>3
<1> HIDE DEF S
<1>14. after[n] \in S[n]
  BY <1>3, <1>11, <1>12, <1>13, Climb
<1> QED BY <1>1, <1>13, <1>14 DEF S

\* Deleting what was set aside leaves the rest alone.
LEMMA DeletedIs ==
    ASSUME NEW d \in Disks, NEW gone, NEW e, e = Deleted(d, gone)
    PROVE  /\ e \in Disks /\ e.inv = d.inv /\ e.cfg = d.cfg /\ e.beside = d.beside
           /\ e.journal = d.journal /\ e.dir = d.dir /\ e.applied = d.applied /\ e.sec = d.sec
           /\ \A p \in Packages : e.aside[p] = IF p \in gone THEN Nothing ELSE d.aside[p]
<1>1. /\ d.aside \in [Packages -> Versions \cup {Nothing}]
      /\ \A p \in Packages : d.aside[p] # Nothing => d.dir[p] = Nothing
  BY DiskIs
<1>2. PICK a : a = [p \in Packages |-> IF p \in gone THEN Nothing ELSE d.aside[p]]
  OBVIOUS
<1>3. /\ a \in [Packages -> Versions \cup {Nothing}]
      /\ \A p \in Packages : a[p] # Nothing => d.dir[p] = Nothing
  BY <1>1, <1>2
<1>4. e = [d EXCEPT !.aside = a]
  BY <1>2 DEF Deleted
<1>5. e \in Disks /\ e.inv = d.inv /\ e.cfg = d.cfg /\ e.beside = d.beside
      /\ e.journal = d.journal /\ e.dir = d.dir /\ e.aside = a
      /\ e.applied = d.applied /\ e.sec = d.sec
  BY <1>3, <1>4 DEF Disks
<1> QED BY <1>2, <1>5

\* Records and directories are gone together at the end.
LEMMA DeleteAsideIs ==
    ASSUME NEW from, NEW r \in Runs(from), NEW m \in Removing(from, r), NEW own,
           NEW s, s = DeleteAside(m)
    PROVE  s \in Runs(from) /\ s.ok = r.ok /\ Shrinks(r, s, own)
<1>1. /\ m.r \in Runs(from) /\ m.gone \in Seq(Packages) /\ m.inv \in Inventories
      /\ m.applied \in SUBSET Surfaces
      /\ m.r.mem = r.mem /\ m.r.ok = r.ok /\ m.r.d.inv = r.d.inv /\ m.r.d.cfg = r.d.cfg
      /\ m.r.d.journal = r.d.journal /\ m.r.d.beside = r.d.beside
      /\ Within(m.inv, r.d.inv)
      /\ Installed(m.inv) \cap ToSet(m.gone) = {}
      /\ \A p \in Packages \ ToSet(m.gone) :
           m.r.d.dir[p] = r.d.dir[p] /\ m.r.d.aside[p] = r.d.aside[p]
  BY DEF Removing
<1>2. PICK q \in Runs(from) : /\ q = SaveInventory(m.r, m.inv, m.applied)
                              /\ q.mem = r.mem /\ q.ok = r.ok /\ q.d.inv = m.inv
                              /\ q.d.dir = m.r.d.dir /\ q.d.aside = m.r.d.aside
                              /\ q.d.cfg = r.d.cfg /\ q.d.beside = r.d.beside
                              /\ q.d.journal = r.d.journal
  BY <1>1, SaveInventoryIs
<1>3. q.d \in Disks /\ q.d.cfg # Nothing /\ r.d \in Disks
  BY RunIs
<1> DEFINE disks == [i \in DOMAIN m.gone |-> Deleted(q.d, {m.gone[j] : j \in 1..i})]
<1>4. s = CommitAll(q, disks)
  BY <1>2 DEF DeleteAside
<1>5. /\ s \in Runs(from) /\ s.mem = q.mem /\ s.ok = q.ok
      /\ s.d.inv = q.d.inv /\ s.d.cfg = q.d.cfg /\ s.d.beside = q.d.beside
      /\ s.d.journal = q.d.journal /\ s.d.dir = q.d.dir
      /\ \A p \in Packages : s.d.aside[p] = IF p \in ToSet(m.gone) THEN Nothing ELSE q.d.aside[p]
  <2>1. CASE m.gone = <<>>
    <3>1. DOMAIN m.gone = {} /\ ToSet(m.gone) = {}
      BY <2>1 DEF ToSet
    <3>2. disks = <<>>
      <4>1. DOMAIN disks = {}
        BY <3>1
      <4>2. disks = [i \in {} |-> disks[i]]
        BY <4>1
      <4>3. <<>> = [i \in {} |-> disks[i]]
        OBVIOUS
      <4> QED BY <4>2, <4>3
    <3> HIDE DEF disks
    <3>3. s = q
      BY <1>4, <3>2 DEF CommitAll
    <3> QED BY <3>1, <3>3
  <2>2. CASE m.gone # <<>>
    <3>1. PICK n \in Nat : n = Len(m.gone) /\ DOMAIN m.gone = 1..n /\ n # 0
      BY <1>1, <2>2
    <3>2. \A i \in 1..n : disks[i] \in Disks
      BY <1>3, <3>1, DeletedIs
    <3>3. disks \in Seq(Disks) /\ Len(disks) = n
      <4>1. DOMAIN disks = 1..n
        BY <3>1
      <4>2. disks \in [1..n -> Disks]
        BY <3>1, <3>2
      <4> HIDE DEF disks
      <4> QED BY <3>1, <4>1, <4>2
    <3>4. disks # <<>> /\ Last(disks) = Deleted(q.d, ToSet(m.gone))
      <4>1. disks[n] = Deleted(q.d, {m.gone[j] : j \in 1..n})
        BY <3>1
      <4>2. {m.gone[j] : j \in 1..n} = ToSet(m.gone)
        BY <3>1 DEF ToSet
      <4> HIDE DEF disks
      <4> QED BY <3>1, <3>3, <4>1, <4>2 DEF Last
    <3> HIDE DEF disks
    <3>5. PICK e : e = Deleted(q.d, ToSet(m.gone))
      OBVIOUS
    <3>6. /\ e \in Disks /\ e.inv = q.d.inv /\ e.cfg = q.d.cfg /\ e.beside = q.d.beside
          /\ e.journal = q.d.journal /\ e.dir = q.d.dir
          /\ \A p \in Packages : e.aside[p] = IF p \in ToSet(m.gone) THEN Nothing ELSE q.d.aside[p]
      BY <1>3, <3>5, DeletedIs
    <3>7. Last(disks).cfg # Nothing /\ Last(disks) = e
      BY <1>3, <3>4, <3>5, <3>6
    <3>8. s \in Runs(from) /\ s.d = Last(disks) /\ s.mem = q.mem /\ s.ok = q.ok
      BY <1>4, <3>3, <3>4, <3>7, CommitAllIs
    <3> QED BY <3>6, <3>7, <3>8
  <2> QED BY <2>1, <2>2
<1>6. Mismatched(s.d) \subseteq Mismatched(r.d)
  <2> SUFFICES ASSUME NEW p \in Mismatched(s.d) PROVE p \in Mismatched(r.d)
    OBVIOUS
  <2>1. p \in Installed(m.inv) /\ RecordOf(m.inv, p).ver \notin {s.d.dir[p], s.d.aside[p]}
    BY <1>2, <1>5 DEF Mismatched
  <2>2. p \in Packages \ ToSet(m.gone)
    BY <1>1, <2>1, RecordIs
  <2>3. s.d.dir[p] = r.d.dir[p] /\ s.d.aside[p] = r.d.aside[p]
    BY <1>1, <1>2, <1>5, <2>2
  <2> QED BY <1>1, <2>1, <2>3 DEF Mismatched, Within
<1>7. Tidy(r.d) => Tidy(s.d)
  BY <1>1, <1>2, <1>5 DEF Tidy
<1>8. Kept(r.d, r.mem.cfg, own) => Kept(s.d, s.mem.cfg, own)
  BY <1>1, <1>2, <1>5 DEF Kept, Within
<1> QED BY <1>1, <1>2, <1>5, <1>6, <1>7, <1>8 DEF Shrinks, Within

\* A removal only shrinks.
LEMMA RemoveFilesIs ==
    ASSUME NEW from, NEW r \in Runs(from), NEW p \in Packages, NEW cascade, NEW own,
           NEW s, s = RemoveFiles(r, p, cascade)
    PROVE  s \in Runs(from) /\ Shrinks(r, s, own)
<1>1. PICK m \in Removing(from, r) : m = RemoveFromState(r, p)
  BY RemoveFromStateIs
<1>2. s = r \/ s = Fail(r) \/ s = DeleteAside(m)
  BY <1>1 DEF RemoveFiles
<1> QED BY <1>2, ShrinksStill, FailIs, DeleteAsideIs

-----------------------------------------------------------------------------
(* Selection, enabling and configuration. *)

\* Saving and reconciling a configuration that keeps the operator's choices.
LEMMA ResetIs ==
    ASSUME NEW from, NEW r \in Runs(from), NEW m \in Mems, NEW own, Keeps(r, m, own),
           NEW s, s = SaveAndReconcile([r EXCEPT !.mem = m])
    PROVE  /\ s \in Runs(from) /\ s.ok = r.ok /\ s.d.inv = r.d.inv /\ Shrinks(r, s, own)
           /\ \A p \in m.cfg.desired :
                RecordOf(r.d.inv, p).activatedBy = {} /\ Kept(r.d, r.mem.cfg, own) =>
                  Kept(s.d, s.mem.cfg, own \cup {p})
<1>1. PICK q : q = SaveConfig([r EXCEPT !.mem = m])
  OBVIOUS
<1>2. /\ q \in Runs(from) /\ q.mem = m /\ q.ok = r.ok /\ q.d.cfg = m.cfg
      /\ q.d.inv = r.d.inv /\ Shrinks(r, q, own)
  BY <1>1, SaveMem
<1>3. s = Reconcile(q, TRUE)
  BY <1>1 DEF SaveAndReconcile
<1>4. s \in Runs(from) /\ s.ok = q.ok /\ s.d.inv = q.d.inv /\ \A h : Shrinks(q, s, h)
  BY <1>2, <1>3, ReconcileIs
<1>5. Shrinks(r, s, own)
  BY <1>2, <1>4, ShrinksOn
<1>6. ASSUME NEW p \in m.cfg.desired, RecordOf(r.d.inv, p).activatedBy = {},
             Kept(r.d, r.mem.cfg, own)
      PROVE  Kept(s.d, s.mem.cfg, own \cup {p})
  <2>1. Kept(q.d, q.mem.cfg, own)
    BY <1>2, <1>6 DEF Shrinks
  <2>2. Kept(q.d, q.mem.cfg, own \cup {p})
    BY <1>2, <1>6, <2>1 DEF Kept
  <2>3. Shrinks(q, s, own \cup {p})
    BY <1>4
  <2> QED BY <2>2, <2>3 DEF Shrinks
<1> QED BY <1>2, <1>4, <1>5, <1>6

\* The configuration c leaves the operator's own choices.
Leaves(r, c, own) ==
    c \in Configs /\ \A p \in own \cap r.mem.cfg.desired : KeyOf[p] = NoKey => p \in c.desired

\* A configuration that leaves the operator's choices keeps them.
LEMMA ConfiguredIs ==
    ASSUME NEW from, NEW r \in Runs(from), NEW c, NEW own, Leaves(r, c, own)
    PROVE  \E m \in Mems : m.cfg = c /\ Configured(r, c) = [r EXCEPT !.mem = m] /\ Keeps(r, m, own)
<1>1. c \in Configs /\ r.mem \in Mems
  BY RunIs DEF Leaves
<1>2. PICK m : m = [r.mem EXCEPT !.cfg = c]
  OBVIOUS
<1>3. m \in Mems /\ m.cfg = c
  BY <1>1, <1>2 DEF Mems
<1>4. Keeps(r, m, own)
  BY <1>3 DEF Keeps, Leaves
<1> QED BY <1>2, <1>3, <1>4 DEF Configured

\* Putting such a configuration in memory, saving and reconciling.
LEMMA ChangeIs ==
    ASSUME NEW from, NEW r \in Runs(from), NEW c, NEW own, Leaves(r, c, own),
           NEW s, s = SaveAndReconcile(Configured(r, c))
    PROVE  /\ s \in Runs(from) /\ s.ok = r.ok /\ s.d.inv = r.d.inv /\ Shrinks(r, s, own)
           /\ \A p \in c.desired :
                RecordOf(r.d.inv, p).activatedBy = {} /\ Kept(r.d, r.mem.cfg, own) =>
                  Kept(s.d, s.mem.cfg, own \cup {p})
<1>1. PICK m \in Mems : m.cfg = c /\ Configured(r, c) = [r EXCEPT !.mem = m] /\ Keeps(r, m, own)
  BY ConfiguredIs
<1>2. s = SaveAndReconcile([r EXCEPT !.mem = m])
  BY <1>1
<1>3. /\ s \in Runs(from) /\ s.ok = r.ok /\ s.d.inv = r.d.inv /\ Shrinks(r, s, own)
      /\ \A p \in m.cfg.desired :
           RecordOf(r.d.inv, p).activatedBy = {} /\ Kept(r.d, r.mem.cfg, own) =>
             Kept(s.d, s.mem.cfg, own \cup {p})
  <2>1. Keeps(r, m, own)
    BY <1>1
  <2> QED BY <1>2, <2>1, ResetIs
<1> QED BY <1>1, <1>3

\* Displacing a rival deselects no package without an activation key.
LEMMA DisplacedIs ==
    ASSUME NEW desired, NEW inv, NEW p
    PROVE  /\ Displaced(desired, inv, p) \subseteq desired
           /\ \A q \in desired : KeyOf[q] = NoKey => q \in Displaced(desired, inv, p)
BY DEF Displaced

\* One of the operator's own choices is selected by no kind.
LEMMA FreeKind ==
    ASSUME NEW p \in Surfaces, KeyOf[p] = NoKey
    PROVE  KindOf[p] \notin Exclusive
BY PackagesAssumption DEF Surfaces

\* Selecting of a kind leaves the packages of other kinds.
LEMMA SelectIs ==
    ASSUME NEW from, NEW r \in Runs(from), NEW kind \in Exclusive, NEW p, NEW own,
           p # Nothing => p \in Packages /\ KindOf[p] = kind,
           NEW s, s = Select(r, kind, p)
    PROVE  s \in Runs(from) /\ Shrinks(r, s, own) /\ s.d.inv = r.d.inv
<1> DEFINE cfg == r.mem.cfg
           rivals == IF p = Nothing THEN cfg.desired ELSE Displaced(cfg.desired, r.d.inv, p)
           desired == {q \in rivals : KindOf[q] # kind} \cup ({p} \ {Nothing})
           keys == IF p = Nothing THEN {}
                   ELSE IF kind = "api-adapter" \/ cfg.own[p] # {} THEN cfg.own[p] ELSE cfg.root[kind]
<1>1. /\ cfg \in Configs /\ cfg.desired \subseteq Surfaces
      /\ cfg.own \in [Packages -> SUBSET Packages] /\ cfg.root \in [Exclusive -> SUBSET Packages]
  BY RunIs DEF Configs
<1>2. PICK D : D = desired
  OBVIOUS
<1>3. PICK K \in SUBSET Packages : K = keys
  BY <1>1
<1>4. rivals \subseteq cfg.desired /\ \A q \in cfg.desired : KeyOf[q] = NoKey => q \in rivals
  BY DisplacedIs
<1>5. D \subseteq Surfaces
  BY <1>1, <1>2, <1>4 DEF Surfaces, Exclusive
<1>6. \A x, y \in D : KindOf[x] \in Exclusive /\ KindOf[y] = KindOf[x] => x = y
  <2>1. \A x, y \in cfg.desired : KindOf[x] \in Exclusive /\ KindOf[y] = KindOf[x] => x = y
    BY <1>1 DEF Configs
  <2>2. \A x \in D : KindOf[x] = kind => x = p
    BY <1>2
  <2>3. \A x \in D : x = p \/ x \in cfg.desired
    BY <1>2, <1>4
  <2>4. p \in D => KindOf[p] = kind
    BY <1>2, <1>4, <1>5, SourcesAssumption DEF Surfaces
  <2> QED BY <2>1, <2>2, <2>3, <2>4
<1>7. \A x \in cfg.desired : KeyOf[x] = NoKey => x \in D
  BY <1>1, <1>2, <1>4, FreeKind
<1> HIDE DEF desired, keys, rivals
<1>8. PICK g \in [Exclusive -> SUBSET Packages] : g = [cfg.root EXCEPT ![kind] = K]
  BY <1>1
<1>9. PICK c : c = [cfg EXCEPT !.desired = D, !.root = g]
  OBVIOUS
<1>10. c \in Configs /\ c.desired = D
  BY <1>1, <1>5, <1>6, <1>8, <1>9 DEF Configs
<1>11. c = [cfg EXCEPT !.desired = desired, !.root[kind] = keys]
  BY <1>1, <1>2, <1>3, <1>8, <1>9 DEF Configs
<1>12. Leaves(r, c, own)
  BY <1>7, <1>10 DEF Leaves
<1>13. s = r \/ s = Fail(r) \/ s = SaveAndReconcile(Configured(r, c))
  BY <1>11 DEF Select, desired, keys, rivals
<1> QED BY <1>12, <1>13, ChangeIs, FailIs, ShrinksStill

\* D can be selected, and leaves the operator's own choices.
Selects(r, D, own) ==
    /\ D \subseteq Surfaces
    /\ \A x, y \in D : KindOf[x] \in Exclusive /\ KindOf[y] = KindOf[x] => x = y
    /\ \A p \in own \cap r.mem.cfg.desired : KeyOf[p] = NoKey => p \in D

\* A selection that loses none of the operator's choices can be saved.
LEMMA SetDesiredIs ==
    ASSUME NEW from, NEW r \in Runs(from), NEW D, NEW own, Selects(r, D, own),
           NEW s, s = SetDesired(r, D)
    PROVE  /\ s \in Runs(from) /\ s.ok = r.ok /\ s.d.inv = r.d.inv /\ Shrinks(r, s, own)
           /\ \A p \in D :
                RecordOf(r.d.inv, p).activatedBy = {} /\ Kept(r.d, r.mem.cfg, own) =>
                  Kept(s.d, s.mem.cfg, own \cup {p})
<1>1. r.mem.cfg \in Configs
  BY RunIs
<1>2. PICK c : c = [r.mem.cfg EXCEPT !.desired = D]
  OBVIOUS
<1>3. c \in Configs /\ c.desired = D
  BY <1>1, <1>2 DEF Configs, Selects
<1>4. Leaves(r, c, own)
  BY <1>3 DEF Leaves, Selects
<1>5. s = SaveAndReconcile(Configured(r, c))
  BY <1>2 DEF SetDesired
<1> QED BY <1>3, <1>4, <1>5, ChangeIs

\* Enabling a package,
LEMMA EnableIs ==
    ASSUME NEW from, NEW r \in Runs(from), NEW p \in Surfaces, KindOf[p] \notin Exclusive, NEW own,
           NEW s, s = Enable(r, p)
    PROVE  /\ s \in Runs(from) /\ s.d.inv = r.d.inv /\ Shrinks(r, s, own)
           /\ s.ok /\ RecordOf(r.d.inv, p).activatedBy = {} /\ Kept(r.d, r.mem.cfg, own) =>
                Kept(s.d, s.mem.cfg, own \cup {p})
<1>1. PICK D : D = Displaced(r.mem.cfg.desired, r.d.inv, p) \cup {p}
  OBVIOUS
<1>2. r.mem.cfg \in Configs /\ r.mem.cfg.desired \subseteq Surfaces
  BY RunIs DEF Configs
<1>3. D \subseteq Surfaces
  BY <1>1, <1>2, DisplacedIs
<1>4. \A x, y \in D : KindOf[x] \in Exclusive /\ KindOf[y] = KindOf[x] => x = y
  <2>1. \A x \in D : x = p \/ x \in r.mem.cfg.desired
    BY <1>1, DisplacedIs
  <2> QED BY <1>2, <2>1 DEF Configs
<1>5. \A q \in own \cap r.mem.cfg.desired : KeyOf[q] = NoKey => q \in D
  BY <1>1, DisplacedIs
<1>6. CASE ~r.ok \/ p \notin Installed(r.d.inv)
  <2>1. s = r \/ s = Fail(r)
    BY <1>6 DEF Enable
  <2>2. ~s.ok
    BY <1>6, FailIs DEF Enable
  <2> QED BY <2>1, <2>2, FailIs, ShrinksStill
<1>7. CASE r.ok /\ p \in Installed(r.d.inv)
  <2>1. s = SetDesired(r, D)
    BY <1>1, <1>7 DEF Enable
  <2>2. p \in D
    BY <1>1
  <2>3. Selects(r, D, own)
    BY <1>3, <1>4, <1>5 DEF Selects
  <2> QED BY <2>1, <2>2, <2>3, SetDesiredIs
<1> QED BY <1>6, <1>7

\* disabling one that is not the operator's own choice any more,
LEMMA DisableIs ==
    ASSUME NEW from, NEW r \in Runs(from), NEW p, NEW own, p \in own => KeyOf[p] # NoKey,
           NEW s, s = Disable(r, p)
    PROVE  s \in Runs(from) /\ s.d.inv = r.d.inv /\ Shrinks(r, s, own)
<1>1. PICK D : D = r.mem.cfg.desired \ {p}
  OBVIOUS
<1>2. r.mem.cfg \in Configs
  BY RunIs
<1>3. D \subseteq Surfaces
  BY <1>1, <1>2 DEF Configs
<1>4. \A x, y \in D : KindOf[x] \in Exclusive /\ KindOf[y] = KindOf[x] => x = y
  BY <1>1, <1>2 DEF Configs
<1>5. \A q \in own \cap r.mem.cfg.desired : KeyOf[q] = NoKey => q \in D
  BY <1>1
<1>6. s = SetDesired(r, D)
  BY <1>1 DEF Disable
<1>7. Selects(r, D, own)
  BY <1>3, <1>4, <1>5 DEF Selects
<1> QED BY <1>6, <1>7, SetDesiredIs

\* activating one of any kind,
LEMMA ActivateIs ==
    ASSUME NEW from, NEW r \in Runs(from), NEW p \in Surfaces, NEW own,
           NEW s, s = Activate(r, p)
    PROVE  /\ s \in Runs(from) /\ s.d.inv = r.d.inv /\ Shrinks(r, s, own)
           /\ s.ok /\ RecordOf(r.d.inv, p).activatedBy = {} /\ Kept(r.d, r.mem.cfg, own) =>
                Kept(s.d, s.mem.cfg, own \cup {p})
<1>1. CASE KindOf[p] \in Exclusive
  <2>1. s = Select(r, KindOf[p], p) /\ p \in Packages
    BY <1>1 DEF Activate, Surfaces
  <2>2. s \in Runs(from) /\ Shrinks(r, s, own) /\ s.d.inv = r.d.inv
    BY <1>1, <2>1, SelectIs
  <2>3. KeyOf[p] # NoKey
    BY <1>1, FreeKind
  <2>4. Kept(s.d, s.mem.cfg, own) => Kept(s.d, s.mem.cfg, own \cup {p})
    BY <2>3 DEF Kept
  <2> QED BY <2>2, <2>4 DEF Shrinks
<1>2. CASE KindOf[p] \notin Exclusive
  <2>1. s = Enable(r, p)
    BY <1>2 DEF Activate
  <2> QED BY <1>2, <2>1, EnableIs
<1> QED BY <1>1, <1>2

\* which shrinks a run like any other edit,
LEMMA ActivateShrinks ==
    ASSUME NEW from, NEW r \in Runs(from), NEW p \in Surfaces, NEW own
    PROVE  /\ Activate(r, p) \in Runs(from) /\ Activate(r, p).d.inv = r.d.inv
           /\ Shrinks(r, Activate(r, p), own)
BY ActivateIs

\* deactivating one,
LEMMA DeactivateIs ==
    ASSUME NEW from, NEW r \in Runs(from), NEW p \in Surfaces, NEW own,
           p \in own => KeyOf[p] # NoKey, NEW s, s = Deactivate(r, p)
    PROVE  s \in Runs(from) /\ s.d.inv = r.d.inv /\ Shrinks(r, s, own)
<1>1. \/ s = r \/ s = Fail(r) \/ s = Disable(r, p)
      \/ KindOf[p] \in Exclusive /\ s = Select(r, KindOf[p], Nothing)
  BY DEF Deactivate
<1>2. CASE s = Disable(r, p)
  BY <1>2, DisableIs
<1>3. CASE KindOf[p] \in Exclusive /\ s = Select(r, KindOf[p], Nothing)
  BY <1>3, SelectIs
<1> QED BY <1>1, <1>2, <1>3, FailIs, ShrinksStill

\* and configuring one leave the operator's other choices.
LEMMA ConfigureIs ==
    ASSUME NEW from, NEW r \in Runs(from), NEW p \in Surfaces, NEW own,
           NEW s, s = Configure(r, p)
    PROVE  s \in Runs(from) /\ s.d.inv = r.d.inv /\ Shrinks(r, s, own)
<1> DEFINE cfg == r.mem.cfg
           active == KindOf[p] \in Exclusive /\ p \in cfg.desired
           keys == cfg.own[p] \cup {p} \cup (IF active THEN cfg.root[KindOf[p]] ELSE {})
           owned == [cfg EXCEPT !.own[p] = keys]
           set == IF active THEN [owned EXCEPT !.root[KindOf[p]] = keys] ELSE owned
<1>1. /\ cfg \in Configs /\ r.mem \in Mems /\ r.mem.sec \subseteq Surfaces
      /\ cfg.own \in [Packages -> SUBSET Packages] /\ cfg.root \in [Exclusive -> SUBSET Packages]
  BY RunIs DEF Configs
<1>2. PICK K \in SUBSET Packages : K = keys
  <2>1. keys \in SUBSET Packages
    BY <1>1 DEF Surfaces
  <2> QED BY <2>1
<1>3. PICK o \in [Packages -> SUBSET Packages] : o = [cfg.own EXCEPT ![p] = K]
  BY <1>1
<1>4. PICK c : c = [cfg EXCEPT !.own = o]
  OBVIOUS
<1>5. c \in Configs /\ c.desired = cfg.desired /\ c.root = cfg.root
  BY <1>1, <1>3, <1>4 DEF Configs
<1>6. c = owned
  BY <1>2, <1>3, <1>4
<1>7. PICK e \in Configs : e = set /\ e.desired = cfg.desired
  <2>1. CASE ~active
    BY <1>5, <1>6, <2>1
  <2>2. CASE active
    <3>1. PICK g \in [Exclusive -> SUBSET Packages] : g = [cfg.root EXCEPT ![KindOf[p]] = K]
      BY <1>1, <2>2
    <3>2. PICK e : e = [c EXCEPT !.root = g]
      OBVIOUS
    <3>3. e \in Configs /\ e.desired = cfg.desired
      BY <1>5, <3>1, <3>2 DEF Configs
    <3>4. set = [owned EXCEPT !.root[KindOf[p]] = keys]
      BY <2>2
    <3> HIDE DEF keys, owned, active, set
    <3>5. e = set
      BY <1>2, <1>5, <1>6, <3>1, <3>2, <3>4
    <3> QED BY <3>3, <3>5
  <2> QED BY <2>1, <2>2
<1> HIDE DEF set
<1>8. PICK m : m = [r.mem EXCEPT !.cfg = e, !.sec = r.mem.sec \cup {p}]
  OBVIOUS
<1>9. m \in Mems /\ m.cfg = e
  BY <1>1, <1>8 DEF Mems
<1>10. Keeps(r, m, own)
  BY <1>7, <1>9 DEF Keeps
<1>11. s = Fail(r) \/ s = SaveAndReconcile([r EXCEPT !.mem = m])
  BY <1>7, <1>8 DEF Configure, set
<1> QED BY <1>9, <1>10, <1>11, FailIs, ResetIs

-----------------------------------------------------------------------------
(* Bundles. *)

\* A record may change its owners and, unless it is the operator's own choice, its activators,
LEMMA UpdateRecordIs ==
    ASSUME NEW from, NEW r \in Runs(from), NEW e \in RecordType, e.id \in Installed(r.d.inv),
           e.ver = RecordOf(r.d.inv, e.id).ver, NEW own,
           e.id \in own /\ KeyOf[e.id] = NoKey /\ RecordOf(r.d.inv, e.id).activatedBy = {} =>
             e.activatedBy = {},
           NEW s, s = UpdateRecord(r, e)
    PROVE  /\ s \in Runs(from) /\ s.mem = r.mem /\ s.ok = r.ok
           /\ Installed(s.d.inv) = Installed(r.d.inv)
           /\ RecordOf(s.d.inv, e.id) = e
           /\ Shrinks(r, s, own)
<1>1. PICK new : new = [i \in DOMAIN r.d.inv |-> IF r.d.inv[i].id = e.id THEN e ELSE r.d.inv[i]]
  OBVIOUS
<1>2. r.d.inv \in Inventories /\ r.d.applied \in SUBSET Surfaces
  BY RunIs, DiskIs
<1>3. /\ new \in Inventories
      /\ Installed(new) = Installed(r.d.inv)
      /\ \A p \in Installed(r.d.inv) : RecordOf(new, p) = IF p = e.id THEN e ELSE RecordOf(r.d.inv, p)
  BY <1>1, <1>2, UpdateIs
<1>4. s = SaveInventory(r, new, r.d.applied)
  BY <1>1 DEF UpdateRecord
<1>5. /\ s \in Runs(from) /\ s.mem = r.mem /\ s.ok = r.ok
      /\ s.d.inv = new /\ s.d.dir = r.d.dir /\ s.d.aside = r.d.aside /\ s.d.cfg = r.d.cfg
      /\ s.d.beside = r.d.beside /\ s.d.journal = r.d.journal
  BY <1>2, <1>3, <1>4, SaveInventoryIs
<1>6. Mismatched(s.d) \subseteq Mismatched(r.d)
  BY <1>3, <1>5 DEF Mismatched
<1>7. Kept(r.d, r.mem.cfg, own) => Kept(s.d, s.mem.cfg, own)
  BY <1>3, <1>5 DEF Kept
<1> QED BY <1>3, <1>5, <1>6, <1>7 DEF Shrinks, Tidy

\* as when owners change,
LEMMA SetOwnersIs ==
    ASSUME NEW from, NEW r \in Runs(from), NEW p \in Installed(r.d.inv), NEW owners \in SUBSET Packages,
           NEW own, NEW s, s = SetOwners(r, p, owners)
    PROVE  /\ s \in Runs(from) /\ s.mem = r.mem /\ s.ok = r.ok
           /\ Installed(s.d.inv) = Installed(r.d.inv)
           /\ RecordOf(s.d.inv, p).activatedBy = RecordOf(r.d.inv, p).activatedBy
           /\ Shrinks(r, s, own)
<1>1. RecordOf(r.d.inv, p) \in RecordType /\ RecordOf(r.d.inv, p).id = p
  BY RunIs, RecordIs
<1>2. PICK e : e = [RecordOf(r.d.inv, p) EXCEPT !.owners = owners]
  OBVIOUS
<1>3. e \in RecordType /\ e.id = p /\ e.ver = RecordOf(r.d.inv, p).ver
      /\ e.activatedBy = RecordOf(r.d.inv, p).activatedBy
  BY <1>1, <1>2 DEF RecordType
<1>4. s = UpdateRecord(r, e)
  BY <1>2 DEF SetOwners
<1> QED BY <1>3, <1>4, UpdateRecordIs

\* and when activators do.
LEMMA SetActivatorsIs ==
    ASSUME NEW from, NEW r \in Runs(from), NEW p \in Installed(r.d.inv), NEW bundles \in SUBSET Packages,
           NEW own,
           p \in own /\ KeyOf[p] = NoKey /\ RecordOf(r.d.inv, p).activatedBy = {} => bundles = {},
           NEW s, s = SetActivators(r, p, bundles)
    PROVE  /\ s \in Runs(from) /\ s.mem = r.mem /\ s.ok = r.ok
           /\ Installed(s.d.inv) = Installed(r.d.inv)
           /\ Shrinks(r, s, own)
<1>1. RecordOf(r.d.inv, p) \in RecordType /\ RecordOf(r.d.inv, p).id = p
  BY RunIs, RecordIs
<1>2. PICK e : e = [RecordOf(r.d.inv, p) EXCEPT !.activatedBy = bundles]
  OBVIOUS
<1>3. e \in RecordType /\ e.id = p /\ e.ver = RecordOf(r.d.inv, p).ver /\ e.activatedBy = bundles
  BY <1>1, <1>2 DEF RecordType
<1>4. s = UpdateRecord(r, e)
  BY <1>2 DEF SetActivators
<1>5. e.id \in own /\ KeyOf[e.id] = NoKey /\ RecordOf(r.d.inv, e.id).activatedBy = {} =>
        e.activatedBy = {}
  BY <1>3
<1>6. e \in RecordType /\ e.id \in Installed(r.d.inv) /\ e.ver = RecordOf(r.d.inv, e.id).ver
  BY <1>3
<1> QED BY <1>4, <1>5, <1>6, UpdateRecordIs

\* Where the operator's choices are not kept, there is nothing to show of them.
LEMMA KeptOrNot ==
    ASSUME NEW r, NEW s, NEW own, NEW h,
           h = IF Kept(r.d, r.mem.cfg, own) THEN own ELSE {}, Shrinks(r, s, h)
    PROVE  Shrinks(r, s, own)
BY DEF Shrinks

\* A bundle takes back the activations it made and no other.
LEMMA DropActivationIs ==
    ASSUME NEW from, NEW r \in Runs(from), NEW b, NEW p \in Surfaces, p \in Installed(r.d.inv), NEW own,
           NEW s, s = DropActivation(r, b, p)
    PROVE  s \in Runs(from) /\ Installed(s.d.inv) = Installed(r.d.inv) /\ Shrinks(r, s, own)
<1>1. PICK by \in SUBSET Packages : by = RecordOf(r.d.inv, p).activatedBy
  <2>1. RecordOf(r.d.inv, p) \in RecordType
    BY RunIs, RecordIs
  <2> QED BY <2>1 DEF RecordType
<1>2. CASE b \notin by
  BY <1>1, <1>2, ShrinksStill DEF DropActivation
<1>3. CASE b \in by
  <2>1. PICK h : h = IF Kept(r.d, r.mem.cfg, own) THEN own ELSE {}
    OBVIOUS
  <2>2. p \in h => KeyOf[p] # NoKey
    BY <1>1, <1>3, <2>1 DEF Kept
  <2>3. PICK q : q = SetActivators(r, p, by \ {b})
    OBVIOUS
  <2>4. /\ q \in Runs(from) /\ Installed(q.d.inv) = Installed(r.d.inv) /\ Shrinks(r, q, h)
    <3>1. PICK left \in SUBSET Packages : left = by \ {b}
      OBVIOUS
    <3>2. q = SetActivators(r, p, left)
      BY <2>3, <3>1
    <3>3. p \in h /\ KeyOf[p] = NoKey /\ RecordOf(r.d.inv, p).activatedBy = {} => left = {}
      BY <2>2
    <3> QED BY <3>2, <3>3, SetActivatorsIs
  <2>5. \/ s = q \/ s = Disable(q, p)
        \/ KindOf[p] \in Exclusive /\ s = Select(q, KindOf[p], Nothing)
    BY <1>1, <1>3, <2>3 DEF DropActivation
  <2>6. s \in Runs(from) /\ s.d.inv = q.d.inv /\ Shrinks(q, s, h)
    <3>1. CASE s = q
      BY <2>4, <3>1, ShrinksStill
    <3>2. CASE s = Disable(q, p)
      BY <2>2, <2>4, <3>2, DisableIs
    <3>3. CASE KindOf[p] \in Exclusive /\ s = Select(q, KindOf[p], Nothing)
      BY <2>4, <3>3, SelectIs
    <3> QED BY <2>5, <3>1, <3>2, <3>3
  <2>7. Shrinks(r, s, h)
    BY <2>4, <2>6, ShrinksOn
  <2>8. Shrinks(r, s, own)
    BY <2>1, <2>7, KeptOrNot
  <2> QED BY <2>4, <2>6, <2>8
<1> QED BY <1>2, <1>3

\* It removes the members that it alone owns.
LEMMA DropOwnedIs ==
    ASSUME NEW from, NEW r \in Runs(from), NEW b, NEW p \in Installed(r.d.inv), NEW cascade, NEW own,
           NEW s, s = DropOwned(r, b, p, cascade)
    PROVE  s \in Runs(from) /\ Shrinks(r, s, own)
<1>1. PICK owners \in SUBSET Packages : owners = RecordOf(r.d.inv, p).owners
  <2>1. RecordOf(r.d.inv, p) \in RecordType
    BY RunIs, RecordIs
  <2> QED BY <2>1 DEF RecordType
<1>2. PICK left \in SUBSET Packages : left = owners \ {b}
  OBVIOUS
<1>3. PICK none \in SUBSET Packages : none = {}
  OBVIOUS
<1>4. p \in Packages
  BY RunIs, RecordIs
<1>5. s = r \/ s = SetOwners(r, p, left) \/ s = SetOwners(r, p, none) \/ s = RemoveFiles(r, p, cascade)
  BY <1>1, <1>2, <1>3 DEF DropOwned
<1>6. CASE s = SetOwners(r, p, left)
  BY <1>6, SetOwnersIs
<1>7. CASE s = SetOwners(r, p, none)
  BY <1>7, SetOwnersIs
<1>8. CASE s = RemoveFiles(r, p, cascade)
  BY <1>4, <1>8, RemoveFilesIs
<1> QED BY <1>5, <1>6, <1>7, <1>8, ShrinksStill

\* It gives up one member,
LEMMA DropMemberIs ==
    ASSUME NEW from, NEW r \in Runs(from), NEW b, NEW m \in Member, NEW cascade, NEW own,
           NEW s, s = DropMember(r, b, m, cascade)
    PROVE  s \in Runs(from) /\ Shrinks(r, s, own)
<1>1. m.id \in Surfaces
  BY DEF Member
<1>2. CASE ~r.ok \/ m.id \notin Installed(r.d.inv)
  BY <1>2, ShrinksStill DEF DropMember
<1>3. CASE r.ok /\ m.id \in Installed(r.d.inv)
  <2>1. PICK q : q = IF m.activation THEN DropActivation(r, b, m.id) ELSE r
    OBVIOUS
  <2>2. s = DropOwned(q, b, m.id, cascade)
    BY <1>3, <2>1 DEF DropMember
  <2>3. q \in Runs(from) /\ Installed(q.d.inv) = Installed(r.d.inv) /\ Shrinks(r, q, own)
    BY <1>1, <1>3, <2>1, DropActivationIs, ShrinksStill
  <2>4. s \in Runs(from) /\ Shrinks(q, s, own)
    BY <1>3, <2>2, <2>3, DropOwnedIs
  <2> QED BY <2>3, <2>4, ShrinksOn
<1> QED BY <1>2, <1>3

\* The members in reverse order are members.
LEMMA ReverseIs ==
    ASSUME NEW S, NEW q \in Seq(S)
    PROVE  Reverse(q) \in Seq(S)
<1>1. Len(q) \in Nat /\ \A i \in 1..Len(q) : Len(q) - i + 1 \in 1..Len(q)
  OBVIOUS
<1>2. Reverse(q) = [i \in 1..Len(q) |-> q[(Len(q) - i) + 1]]
  BY DEF Reverse
<1>3. Reverse(q) \in [1..Len(q) -> S]
  BY <1>1, <1>2
<1> QED BY <1>1, <1>3

\* The runs that r shrinks to.
Shrunk(from, r, own) == {x \in Runs(from) : Shrinks(r, x, own)}

\* and all of them, before it is removed itself.
LEMMA RemoveMembersIs ==
    ASSUME NEW from, NEW r \in Runs(from), NEW b \in Packages, NEW cascade, NEW own,
           NEW s, s = RemoveMembers(r, b, cascade)
    PROVE  s \in Runs(from) /\ Shrinks(r, s, own)
<1> DEFINE members == Reverse(Members[b])
           n == Len(members)
           rest == CHOOSE f : f = [i \in 0..n |->
                     IF i = 0 THEN r ELSE DropMember(f[i - 1], b, members[i], cascade)]
           S == Shrunk(from, r, own)
           g == [x \in S \X (1..n) |-> DropMember(x[1], b, members[x[2]], cascade)]
<1>1. s = IF b \notin Installed(r.d.inv) THEN RemoveFiles(r, b, cascade)
          ELSE Reconcile(RemoveFiles(rest[n], b, cascade), TRUE)
  BY DEF RemoveMembers
<1>2. Members[b] \in Seq(Member)
  BY SourcesAssumption
<1>3. members \in Seq(Member)
  BY <1>2, ReverseIs
<1> HIDE DEF members
<1>4. n \in Nat /\ \A i \in 1..n : members[i] \in Member
  BY <1>3
<1> HIDE DEF n
<1>5. r \in S
  BY ShrinksStill DEF Shrunk
<1>6. ASSUME NEW x \in S, NEW m \in Member
      PROVE  DropMember(x, b, m, cascade) \in S
  <2>1. x \in Runs(from) /\ Shrinks(r, x, own)
    BY DEF Shrunk
  <2>2. PICK y : y = DropMember(x, b, m, cascade)
    OBVIOUS
  <2>3. y \in Runs(from) /\ Shrinks(x, y, own)
    BY <2>1, <2>2, DropMemberIs
  <2> QED BY <2>1, <2>2, <2>3, ShrinksOn DEF Shrunk
<1> HIDE DEF S
<1>7. ASSUME NEW x \in S, NEW i \in 1..n
      PROVE  g[<<x, i>>] = DropMember(x, b, members[i], cascade) /\ g[<<x, i>>] \in S
  BY <1>4, <1>6
<1> HIDE DEF g
<1>8. PICK f : Iterates(f, g, r, S, n)
  BY <1>4, <1>5, <1>7, IterationExists
<1>9. \A i \in 0..n : f[i] = IF i = 0 THEN r ELSE DropMember(f[i - 1], b, members[i], cascade)
  <2> SUFFICES ASSUME NEW i \in 0..n, i # 0 PROVE f[i] = DropMember(f[i - 1], b, members[i], cascade)
    BY <1>8 DEF Iterates
  <2>1. i \in 1..n /\ i - 1 \in 0..n
    BY <1>4
  <2>2. f[i - 1] \in S /\ f[i] = g[<<f[i - 1], i>>]
    BY <1>8, <2>1 DEF Iterates
  <2> QED BY <1>7, <2>1, <2>2
<1>10. f = [i \in 0..n |-> f[i]]
  BY <1>8 DEF Iterates
<1>11. f = [i \in 0..n |-> IF i = 0 THEN r ELSE DropMember(f[i - 1], b, members[i], cascade)]
  BY <1>9, <1>10
<1>12. rest = [i \in 0..n |-> IF i = 0 THEN r ELSE DropMember(rest[i - 1], b, members[i], cascade)]
  BY <1>11
<1> HIDE DEF rest
<1> DEFINE T == [i \in 0..n |-> S]
<1>13. rest[0] \in T[0]
  BY <1>4, <1>5, <1>12
<1>14. ASSUME NEW i \in 1..n, rest[i - 1] \in T[i - 1] PROVE rest[i] \in T[i]
  <2>1. i \in 0..n /\ i - 1 \in 0..n /\ i # 0
    BY <1>4
  <2>2. rest[i] = DropMember(rest[i - 1], b, members[i], cascade) /\ rest[i - 1] \in S
    BY <1>12, <1>14, <2>1
  <2> QED BY <1>4, <1>6, <2>1, <2>2
<1>15. n \in 0..n
  BY <1>4
<1> HIDE DEF T
<1>16. rest[n] \in T[n]
  BY <1>4, <1>13, <1>14, <1>15, Climb
<1>17. PICK x \in Runs(from) : x = rest[n] /\ Shrinks(r, x, own)
  BY <1>15, <1>16 DEF T, S, Shrunk
<1>18. PICK y : y = RemoveFiles(x, b, cascade)
  OBVIOUS
<1>19. y \in Runs(from) /\ Shrinks(r, y, own)
  BY <1>17, <1>18, RemoveFilesIs, ShrinksOn
<1>20. CASE b \notin Installed(r.d.inv)
  BY <1>1, <1>20, RemoveFilesIs
<1>21. CASE b \in Installed(r.d.inv)
  <2>1. s = Reconcile(y, TRUE)
    BY <1>1, <1>17, <1>18, <1>21
  <2>2. s \in Runs(from) /\ Shrinks(y, s, own)
    BY <1>19, <2>1, ReconcileIs
  <2> QED BY <1>19, <2>2, ShrinksOn
<1> QED BY <1>20, <1>21

\* An operation under the journal shrinks to what it leaves once the journal is cleared.
LEMMA UnderJournal ==
    ASSUME NEW from, NEW r \in Runs(from), NEW own,
           NEW q, q = WriteJournal(r, "remove"), NEW t \in Runs(from), Shrinks(q, t, own),
           NEW s, s = Journalled("remove", t)
    PROVE  s \in Runs(from) /\ s.ok = t.ok /\ s.d.journal = Nothing /\ Shrinks(r, s, own)
<1>1. /\ q \in Runs(from) /\ q.mem = r.mem /\ q.d.inv = r.d.inv /\ q.d.cfg = r.d.cfg
      /\ q.d.aside = r.d.aside /\ q.d.dir = r.d.dir /\ q.d.beside = r.d.beside
  <2>1. PICK name \in {Nothing, "remove", "apply"} : name = "remove"
    OBVIOUS
  <2>2. q = WriteJournal(r, name)
    BY <2>1
  <2> QED BY <2>2, JournalIs
<1>2. s \in Runs(from) /\ s.ok = t.ok /\ s.d.journal = Nothing /\ Shrinks(t, s, own)
  BY JournalledIs
<1>3. Shrinks(q, s, own)
  BY <1>2, ShrinksOn
<1>4. Shrinks(r, s, own)
  BY <1>1, <1>2, <1>3 DEF Shrinks, Mismatched, Tidy, Kept
<1> QED BY <1>2, <1>4

\* The removal of a bundle, under its journal,
LEMMA RemoveBundleIs ==
    ASSUME NEW from, NEW r \in Runs(from), NEW b \in Packages, NEW cascade, NEW own,
           NEW s, s = RemoveBundle(r, b, cascade)
    PROVE  s \in Runs(from) /\ s.d.journal = Nothing /\ Shrinks(r, s, own)
<1>1. PICK q \in Runs(from) : q = WriteJournal(r, "remove")
  <2>1. "remove" \in {Nothing, "remove", "apply"}
    OBVIOUS
  <2>2. WriteJournal(r, "remove") \in Runs(from)
    BY <2>1, JournalIs
  <2> QED BY <2>2
<1>2. PICK t : t = RemoveMembers(q, b, cascade)
  OBVIOUS
<1>3. t \in Runs(from) /\ Shrinks(q, t, own)
  BY <1>2, RemoveMembersIs
<1>4. s = Journalled("remove", t)
  BY <1>1, <1>2 DEF RemoveBundle
<1> QED BY <1>1, <1>3, <1>4, UnderJournal

\* and that of any package only shrink.
LEMMA RemovePackageIs ==
    ASSUME NEW from, NEW r \in Runs(from), NEW p \in Packages, NEW cascade, NEW own,
           NEW s, s = RemovePackage(r, p, cascade)
    PROVE  s \in Runs(from) /\ s.d.journal = Nothing /\ Shrinks(r, s, own)
<1>1. CASE KindOf[p] = "bundle"
  BY <1>1, RemoveBundleIs DEF RemovePackage
<1>2. CASE KindOf[p] # "bundle"
  <2>1. PICK q \in Runs(from) : q = WriteJournal(r, "remove")
    <3>1. "remove" \in {Nothing, "remove", "apply"}
      OBVIOUS
    <3>2. WriteJournal(r, "remove") \in Runs(from)
      BY <3>1, JournalIs
    <3> QED BY <3>2
  <2>2. PICK t : t = RemoveFiles(q, p, cascade)
    OBVIOUS
  <2>3. t \in Runs(from) /\ Shrinks(q, t, own)
    BY <2>2, RemoveFilesIs
  <2>4. PICK u : u = Reconcile(t, TRUE)
    OBVIOUS
  <2>5. u \in Runs(from) /\ Shrinks(q, u, own)
    BY <2>3, <2>4, ReconcileIs, ShrinksOn
  <2>6. s = Journalled("remove", u)
    BY <1>2, <2>1, <2>2, <2>4 DEF RemovePackage
  <2> QED BY <2>1, <2>5, <2>6, UnderJournal
<1> QED BY <1>1, <1>2

\* A member of a bundle to be installed.
Fetches ==
    [id : Surfaces, range : SUBSET Versions, ver : Versions, activation : BOOLEAN,
     embedded : Versions \cup {Nothing}]

\* A member that a bundle activates does not become the bundle's when it was on by hand.
LEMMA ActivateMemberIs ==
    ASSUME NEW from, NEW r \in Runs(from), NEW b \in Packages, NEW m \in Fetches, NEW own,
           r.ok => m.id \in Installed(r.d.inv), NEW s, s = ActivateMember(r, b, m)
    PROVE  s \in Runs(from) /\ Installed(s.d.inv) = Installed(r.d.inv) /\ Shrinks(r, s, own)
<1>1. CASE ~r.ok \/ ~m.activation
  BY <1>1, ShrinksStill DEF ActivateMember
<1>2. CASE r.ok /\ m.activation
  <2>1. PICK p \in Surfaces : p = m.id /\ p \in Installed(r.d.inv)
    BY <1>2 DEF Fetches
  <2>2. PICK by \in SUBSET Packages : by = RecordOf(r.d.inv, p).activatedBy
    <3>1. RecordOf(r.d.inv, p) \in RecordType
      BY <2>1, RunIs, RecordIs
    <3> QED BY <3>1 DEF RecordType
  <2>3. PICK h : h = IF Kept(r.d, r.mem.cfg, own) THEN own ELSE {}
    OBVIOUS
  <2>4. PICK q : q = Activate(r, p)
    OBVIOUS
  <2>5. q \in Runs(from) /\ q.d.inv = r.d.inv /\ Shrinks(r, q, h)
    <3>1. /\ Activate(r, p) \in Runs(from) /\ Activate(r, p).d.inv = r.d.inv
          /\ Shrinks(r, Activate(r, p), h)
      BY ActivateShrinks
    <3> QED BY <2>4, <3>1
  <2>6. s = q \/ ((p \notin r.mem.cfg.desired \/ by # {}) /\ s = SetActivators(q, p, by \cup {b}))
    BY <1>2, <2>1, <2>2, <2>4 DEF ActivateMember, Track
  <2>7. s \in Runs(from) /\ Installed(s.d.inv) = Installed(q.d.inv) /\ Shrinks(q, s, h)
    <3>1. CASE s = q
      BY <2>5, <3>1, ShrinksStill
    <3>2. CASE (p \notin r.mem.cfg.desired \/ by # {}) /\ s = SetActivators(q, p, by \cup {b})
      <4>1. PICK new \in SUBSET Packages : new = by \cup {b}
        OBVIOUS
      <4>2. ~(p \in h /\ KeyOf[p] = NoKey)
        BY <2>1, <2>2, <2>3, <3>2 DEF Kept
      <4>3. p \in h /\ KeyOf[p] = NoKey /\ RecordOf(q.d.inv, p).activatedBy = {} => new = {}
        BY <4>2
      <4>4. s = SetActivators(q, p, new) /\ p \in Installed(q.d.inv)
        BY <2>1, <2>5, <3>2, <4>1
      <4> QED BY <2>5, <4>3, <4>4, SetActivatorsIs
    <3> QED BY <2>6, <3>1, <3>2
  <2>8. Shrinks(r, s, h)
    BY <2>5, <2>7, ShrinksOn
  <2>9. Shrinks(r, s, own)
    BY <2>3, <2>8, KeptOrNot
  <2> QED BY <2>5, <2>7, <2>9
<1> QED BY <1>1, <1>2

\* Members taken up from r, and those that are left.
Takes(from, r, own) ==
    {t \in [r : Runs(from), left : Seq(Fetches)] :
       Installed(t.r.d.inv) = Installed(r.d.inv) /\ Shrinks(r, t.r, own)}

\* Taking members adds up.
LEMMA TakesOn ==
    ASSUME NEW from, NEW r, NEW own, NEW t \in Takes(from, r, own), NEW q \in Runs(from),
           Installed(q.d.inv) = Installed(t.r.d.inv), Shrinks(t.r, q, own), NEW l \in Seq(Fetches)
    PROVE  [r |-> q, left |-> l] \in Takes(from, r, own)
<1>1. Shrinks(r, t.r, own) /\ Installed(t.r.d.inv) = Installed(r.d.inv)
  BY DEF Takes
<1>2. Shrinks(r, q, own)
  BY <1>1, ShrinksOn
<1> QED BY <1>1, <1>2 DEF Takes

\* Taking one member,
LEMMA TakeMemberIs ==
    ASSUME NEW from, NEW r, NEW own, NEW t \in Takes(from, r, own), NEW b \in Packages
    PROVE  TakeMember(t, b) \in Takes(from, r, own)
<1>1. t.r \in Runs(from) /\ t.left \in Seq(Fetches) /\ t = [r |-> t.r, left |-> t.left]
  BY DEF Takes
<1>2. CASE t.left = <<>>
  BY <1>2 DEF TakeMember
<1>3. CASE t.left # <<>>
  <2>1. PICK m \in Fetches : m = Head(t.left)
    BY <1>1, <1>3
  <2>2. PICK rest \in Seq(Fetches) : rest = Tail(t.left)
    <3>1. PICK l \in Seq(Fetches) : l = t.left /\ l # <<>>
      BY <1>1, <1>3
    <3>2. Tail(l) \in Seq(Fetches)
      BY <3>1
    <3> QED BY <3>1, <3>2
  <2>3. PICK none \in Seq(Fetches) : none = <<>>
    <3>1. <<>> \in Seq(Fetches)
      OBVIOUS
    <3> QED BY <3>1
  <2>4. PICK q : q = t.r
    OBVIOUS
  <2>5. PICK old : old = RecordOf(q.d.inv, m.id)
    OBVIOUS
  <2>6. PICK a : a = IF old.owners = {} THEN q ELSE SetOwners(q, m.id, old.owners \cup {b})
    OBVIOUS
  <2>7. \/ TakeMember(t, b) = t
        \/ TakeMember(t, b) = [t EXCEPT !.left = <<>>]
        \/ TakeMember(t, b) = [r |-> Fail(q), left |-> <<>>]
        \/ q.ok /\ m.id \in Installed(q.d.inv)
             /\ TakeMember(t, b) = [r |-> ActivateMember(a, b, m), left |-> rest]
    BY <1>3, <2>1, <2>2, <2>4, <2>5, <2>6 DEF TakeMember
  <2>8. CASE TakeMember(t, b) = [t EXCEPT !.left = <<>>]
    <3>1. TakeMember(t, b) = [r |-> q, left |-> none]
      BY <1>1, <2>3, <2>4, <2>8
    <3>2. Shrinks(t.r, q, own) /\ q \in Runs(from)
      BY <1>1, <2>4, ShrinksStill
    <3> QED BY <2>4, <3>1, <3>2, TakesOn
  <2>9. CASE TakeMember(t, b) = [r |-> Fail(q), left |-> <<>>]
    <3>1. PICK u \in Runs(from) : u = Fail(q) /\ u.d = q.d /\ Shrinks(q, u, own)
      BY <1>1, <2>4, FailIs
    <3>2. TakeMember(t, b) = [r |-> u, left |-> none]
      BY <2>3, <2>9, <3>1
    <3> QED BY <2>4, <3>1, <3>2, TakesOn
  <2>10. CASE q.ok /\ m.id \in Installed(q.d.inv)
               /\ TakeMember(t, b) = [r |-> ActivateMember(a, b, m), left |-> rest]
    <3>1. q \in Runs(from)
      BY <1>1, <2>4
    <3>2. a \in Runs(from) /\ Installed(a.d.inv) = Installed(q.d.inv) /\ Shrinks(q, a, own)
      <4>1. CASE old.owners = {}
        BY <2>6, <3>1, <4>1, ShrinksStill
      <4>2. CASE old.owners # {}
        <5>1. old \in RecordType
          BY <2>5, <2>10, <3>1, RunIs, RecordIs
        <5>2. PICK owners \in SUBSET Packages : owners = old.owners \cup {b}
          BY <5>1 DEF RecordType
        <5>3. a = SetOwners(q, m.id, owners)
          BY <2>6, <4>2, <5>2
        <5> QED BY <2>10, <3>1, <5>3, SetOwnersIs
      <4> QED BY <4>1, <4>2
    <3>3. PICK s : s = ActivateMember(a, b, m)
      OBVIOUS
    <3>4. s \in Runs(from) /\ Installed(s.d.inv) = Installed(a.d.inv) /\ Shrinks(a, s, own)
      BY <2>10, <3>2, <3>3, ActivateMemberIs
    <3>5. Shrinks(q, s, own)
      BY <3>2, <3>4, ShrinksOn
    <3>6. TakeMember(t, b) = [r |-> s, left |-> rest]
      BY <2>10, <3>3
    <3> QED BY <2>4, <3>2, <3>4, <3>5, <3>6, TakesOn
  <2> QED BY <2>7, <2>8, <2>9, <2>10
<1> QED BY <1>2, <1>3

\* and those up to the next fetch, installs and removes nothing.
LEMMA TakeMembersIs ==
    ASSUME NEW from, NEW r \in Runs(from), NEW b \in Packages, NEW left \in Seq(Fetches), NEW own
    PROVE  TakeMembers(r, b, left) \in Takes(from, r, own)
<1> DEFINE n == Len(left)
           first == [r |-> r, left |-> left]
           taken == CHOOSE f : f = [i \in 0..n |-> IF i = 0 THEN first ELSE TakeMember(f[i - 1], b)]
           S == Takes(from, r, own)
           g == [x \in S \X (1..n) |-> TakeMember(x[1], b)]
<1>1. TakeMembers(r, b, left) = taken[n]
  BY DEF TakeMembers
<1>2. n \in Nat
  OBVIOUS
<1>3. first \in S
  BY ShrinksStill DEF Takes
<1> HIDE DEF n, first
<1>4. ASSUME NEW x \in S PROVE TakeMember(x, b) \in S
  BY TakeMemberIs
<1> HIDE DEF S
<1>5. ASSUME NEW x \in S, NEW i \in 1..n
      PROVE  g[<<x, i>>] = TakeMember(x, b) /\ g[<<x, i>>] \in S
  BY <1>4
<1> HIDE DEF g
<1>6. PICK f : Iterates(f, g, first, S, n)
  BY <1>2, <1>3, <1>5, IterationExists
<1>7. \A i \in 0..n : f[i] = IF i = 0 THEN first ELSE TakeMember(f[i - 1], b)
  <2> SUFFICES ASSUME NEW i \in 0..n, i # 0 PROVE f[i] = TakeMember(f[i - 1], b)
    BY <1>6 DEF Iterates
  <2>1. i \in 1..n /\ i - 1 \in 0..n
    BY <1>2
  <2>2. f[i - 1] \in S /\ f[i] = g[<<f[i - 1], i>>]
    BY <1>6, <2>1 DEF Iterates
  <2> QED BY <1>5, <2>1, <2>2
<1>8. f = [i \in 0..n |-> f[i]]
  BY <1>6 DEF Iterates
<1>9. f = [i \in 0..n |-> IF i = 0 THEN first ELSE TakeMember(f[i - 1], b)]
  BY <1>7, <1>8
<1>10. taken = [i \in 0..n |-> IF i = 0 THEN first ELSE TakeMember(taken[i - 1], b)]
  BY <1>9
<1> HIDE DEF taken
<1> DEFINE T == [i \in 0..n |-> S]
<1>11. taken[0] \in T[0]
  BY <1>2, <1>3, <1>10
<1>12. ASSUME NEW i \in 1..n, taken[i - 1] \in T[i - 1] PROVE taken[i] \in T[i]
  <2>1. i \in 0..n /\ i - 1 \in 0..n /\ i # 0
    BY <1>2
  <2>2. taken[i] = TakeMember(taken[i - 1], b) /\ taken[i - 1] \in S
    BY <1>10, <1>12, <2>1
  <2> QED BY <1>4, <2>1, <2>2
<1>13. n \in 0..n
  BY <1>2
<1> HIDE DEF T
<1>14. taken[n] \in T[n]
  BY <1>2, <1>11, <1>12, <1>13, Climb
<1> QED BY <1>1, <1>13, <1>14 DEF T, S

-----------------------------------------------------------------------------
(* What the registry answers, and apply. *)

Caches == [Packages -> Versions \cup {Nothing}]

\* A run that only remembers what it heard of.
Heard(from, r, own) == {x \in Runs(from) : x.ok = r.ok /\ x.d.inv = r.d.inv /\ Shrinks(r, x, own)}

\* Saving the registry cache touches nothing else.
LEMMA SaveCacheIs ==
    ASSUME NEW from, NEW r \in Runs(from), NEW c \in Caches, NEW own, NEW s, s = SaveCache(r, c)
    PROVE  s \in Heard(from, r, own)
<1>1. CASE c = r.mem.cache
  BY <1>1, ShrinksStill DEF SaveCache, Heard
<1>2. CASE c # r.mem.cache
  <2>1. r.mem \in Mems /\ r.d \in Disks /\ r.d.cfg # Nothing
    BY RunIs
  <2>2. PICK m : m = [r.mem EXCEPT !.cache = c]
    OBVIOUS
  <2>3. m \in Mems /\ m.cfg = r.mem.cfg
    BY <2>1, <2>2 DEF Mems, Caches
  <2>4. PICK q \in Runs(from) : q = [r EXCEPT !.mem = m] /\ q.mem = m /\ q.d = r.d /\ q.ok = r.ok
    <3>1. /\ [r EXCEPT !.mem = m] \in Runs(from) /\ [r EXCEPT !.mem = m].mem = m
          /\ [r EXCEPT !.mem = m].d = r.d /\ [r EXCEPT !.mem = m].ok = r.ok
      BY <2>3, WithMem
    <3> QED BY <3>1
  <2>5. PICK e : e = [r.d EXCEPT !.cache = c]
    OBVIOUS
  <2>6. /\ e \in Disks /\ e.inv = r.d.inv /\ e.cfg = r.d.cfg /\ e.dir = r.d.dir /\ e.aside = r.d.aside
        /\ e.beside = r.d.beside /\ e.journal = r.d.journal
    BY <2>1, <2>5 DEF Disks, Caches
  <2>7. s = Commit(q, e)
    BY <1>2, <2>2, <2>4, <2>5 DEF SaveCache
  <2>8. s \in Runs(from) /\ s.d = e /\ s.mem = m /\ s.ok = r.ok
    <3>1. PICK u : u = Commit(q, e)
      OBVIOUS
    <3>2. e.cfg # Nothing
      BY <2>1, <2>6
    <3>3. u \in Runs(from) /\ u.d = e /\ u.mem = q.mem /\ u.ok = q.ok
      BY <2>6, <3>1, <3>2, CommitIs
    <3> QED BY <2>4, <2>7, <3>1, <3>3
  <2>9. Shrinks(r, s, own)
    BY <2>3, <2>6, <2>8 DEF Shrinks, Mismatched, Tidy, Kept
  <2> QED BY <2>6, <2>8, <2>9 DEF Heard
<1> QED BY <1>1, <1>2

\* A remembered entry is an entry.
LEMMA RememberIs ==
    ASSUME NEW c \in Caches, NEW p, NEW v \in Versions \cup {Nothing}
    PROVE  Remember(c, p, v) \in Caches
BY DEF Remember, Caches

\* Remembering adds up.
LEMMA HeardOn ==
    ASSUME NEW from, NEW r, NEW own, NEW x \in Heard(from, r, own), NEW c \in Caches
    PROVE  SaveCache(x, c) \in Heard(from, r, own)
<1>1. x \in Runs(from) /\ x.ok = r.ok /\ x.d.inv = r.d.inv /\ Shrinks(r, x, own)
  BY DEF Heard
<1>2. PICK s : s = SaveCache(x, c)
  OBVIOUS
<1>3. s \in Heard(from, x, own)
  BY <1>1, <1>2, SaveCacheIs
<1>4. s \in Runs(from) /\ s.ok = x.ok /\ s.d.inv = x.d.inv /\ Shrinks(x, s, own)
  BY <1>3 DEF Heard
<1>5. Shrinks(r, s, own)
  BY <1>1, <1>4, ShrinksOn
<1> QED BY <1>1, <1>2, <1>4, <1>5 DEF Heard

\* All entries heard of are saved without touching anything else.
LEMMA SaveHeardIs ==
    ASSUME NEW from, NEW r \in Runs(from), NEW members \in Seq(Member), NEW heard, NEW answer, NEW own,
           \A i \in heard \cap DOMAIN members : answer[members[i].id] \in Versions \cup {Nothing}
    PROVE  SaveHeard(r, members, heard, answer) \in Heard(from, r, own)
<1> DEFINE n == Len(members)
           one(x, i) == IF i \in heard
                        THEN SaveCache(x, Remember(x.mem.cache, members[i].id, answer[members[i].id]))
                        ELSE x
           saved == CHOOSE f : f = [i \in 0..n |->
                      IF i = 0 THEN r
                      ELSE IF i \in heard
                      THEN SaveCache(f[i - 1],
                             Remember(f[i - 1].mem.cache, members[i].id, answer[members[i].id]))
                      ELSE f[i - 1]]
           S == Heard(from, r, own)
           g == [x \in S \X (1..n) |-> one(x[1], x[2])]
<1>1. SaveHeard(r, members, heard, answer) = saved[n]
  BY DEF SaveHeard
<1>2. n \in Nat /\ DOMAIN members = 1..n
  OBVIOUS
<1>3. r \in S
  BY ShrinksStill DEF Heard
<1> HIDE DEF n
<1>4. ASSUME NEW x \in S, NEW i \in 1..n PROVE one(x, i) \in S
  <2>1. CASE i \notin heard
    BY <2>1
  <2>2. CASE i \in heard
    <3>1. PICK v \in Versions \cup {Nothing} : v = answer[members[i].id]
      BY <1>2, <2>2
    <3>2. x.mem.cache \in Caches
      <4>1. x \in Runs(from)
        BY DEF Heard
      <4> QED BY <4>1, RunIs DEF Caches
    <3>3. PICK c \in Caches : c = Remember(x.mem.cache, members[i].id, v)
      BY <3>2, RememberIs
    <3>4. one(x, i) = SaveCache(x, c)
      BY <2>2, <3>1, <3>3
    <3> HIDE DEF S, one
    <3>5. SaveCache(x, c) \in S
      BY HeardOn DEF S
    <3> QED BY <3>4, <3>5
  <2> QED BY <2>1, <2>2
<1> HIDE DEF S
<1>5. ASSUME NEW x \in S, NEW i \in 1..n
      PROVE  g[<<x, i>>] = one(x, i) /\ g[<<x, i>>] \in S
  <2> HIDE DEF one
  <2> QED BY <1>4
<1> HIDE DEF g
<1>6. PICK f : Iterates(f, g, r, S, n)
  <2> HIDE DEF one
  <2> QED BY <1>2, <1>3, <1>5, IterationExists
<1>7. \A i \in 0..n : f[i] = IF i = 0 THEN r ELSE one(f[i - 1], i)
  <2> SUFFICES ASSUME NEW i \in 0..n, i # 0 PROVE f[i] = one(f[i - 1], i)
    BY <1>6 DEF Iterates
  <2>1. i \in 1..n /\ i - 1 \in 0..n
    BY <1>2
  <2> HIDE DEF one
  <2>2. f[i - 1] \in S /\ f[i] = g[<<f[i - 1], i>>]
    BY <1>6, <2>1 DEF Iterates
  <2> QED BY <1>5, <2>1, <2>2
<1>8. f = [i \in 0..n |-> f[i]]
  BY <1>6 DEF Iterates
<1>9. f = [i \in 0..n |->
             IF i = 0 THEN r
             ELSE IF i \in heard
             THEN SaveCache(f[i - 1], Remember(f[i - 1].mem.cache, members[i].id, answer[members[i].id]))
             ELSE f[i - 1]]
  BY <1>7, <1>8
<1>10. saved = [i \in 0..n |-> IF i = 0 THEN r ELSE one(saved[i - 1], i)]
  BY <1>9
<1> HIDE DEF saved, one
<1> DEFINE T == [i \in 0..n |-> S]
<1>11. saved[0] \in T[0]
  BY <1>2, <1>3, <1>10
<1>12. ASSUME NEW i \in 1..n, saved[i - 1] \in T[i - 1] PROVE saved[i] \in T[i]
  <2>1. i \in 0..n /\ i - 1 \in 0..n /\ i # 0
    BY <1>2
  <2>2. saved[i] = one(saved[i - 1], i) /\ saved[i - 1] \in S
    BY <1>10, <1>12, <2>1
  <2> QED BY <1>4, <2>1, <2>2
<1>13. n \in 0..n
  BY <1>2
<1> HIDE DEF T
<1>14. saved[n] \in T[n]
  BY <1>2, <1>11, <1>12, <1>13, Climb
<1> QED BY <1>1, <1>13, <1>14 DEF T, S

\* Completing the configuration of a transport touches its keys only.
LEMMA CompleteConfigIs ==
    ASSUME NEW from, NEW r \in Runs(from), NEW own, NEW s, s = CompleteConfig(r)
    PROVE  /\ s \in Runs(from) /\ s.d = r.d /\ s.ok = r.ok
           /\ s.mem.cfg.desired = r.mem.cfg.desired /\ Shrinks(r, s, own)
<1> DEFINE cfg == r.mem.cfg
           selected == {p \in cfg.desired : KindOf[p] = "transport"}
           p == CHOOSE x \in selected : TRUE
           keys == cfg.root["transport"] \cup cfg.own[p] \cup {p}
<1>1. /\ cfg \in Configs /\ cfg.desired \subseteq Surfaces
      /\ cfg.own \in [Packages -> SUBSET Packages] /\ cfg.root \in [Exclusive -> SUBSET Packages]
  BY RunIs DEF Configs
<1>2. CASE selected = {}
  BY <1>2, ShrinksStill DEF CompleteConfig
<1>3. CASE selected # {}
  <2>1. p \in selected
    BY <1>3
  <2>2. PICK t \in Packages : t = p
    BY <1>1, <2>1 DEF Surfaces
  <2> HIDE DEF p
  <2>3. PICK K \in SUBSET Packages : K = keys
    <3>1. "transport" \in Exclusive
      BY DEF Exclusive
    <3> QED BY <1>1, <2>2, <3>1
  <2>4. PICK o \in [Packages -> SUBSET Packages] : o = [cfg.own EXCEPT ![t] = K]
    BY <1>1
  <2>5. PICK f \in [Exclusive -> SUBSET Packages] : f = [cfg.root EXCEPT !["transport"] = K]
    BY <1>1
  <2>6. PICK c : c = [cfg EXCEPT !.own = o, !.root = f]
    OBVIOUS
  <2>7. c \in Configs /\ c.desired = cfg.desired
    BY <1>1, <2>4, <2>5, <2>6 DEF Configs
  <2>8. c = [cfg EXCEPT !.own[p] = keys, !.root["transport"] = keys]
    BY <1>1, <2>2, <2>3, <2>4, <2>5, <2>6 DEF Configs
  <2>9. s = Configured(r, c)
    BY <1>3, <2>8 DEF CompleteConfig, p
  <2>10. Leaves(r, c, own)
    BY <2>7 DEF Leaves
  <2>11. PICK m \in Mems : m.cfg = c /\ Configured(r, c) = [r EXCEPT !.mem = m]
    BY <2>10, ConfiguredIs
  <2>12. s \in Runs(from) /\ s.mem = m /\ s.d = r.d /\ s.ok = r.ok
    BY <2>9, <2>11, WithMem
  <2>13. Shrinks(r, s, own)
    BY <2>7, <2>11, <2>12 DEF Shrinks, Kept
  <2> QED BY <2>7, <2>11, <2>12, <2>13
<1> QED BY <1>2, <1>3

\* Applying touches no record and no operator's choice.
LEMMA ApplyIs ==
    ASSUME NEW from, NEW r \in Runs(from), NEW own, NEW s, s = Apply(r)
    PROVE  s \in Runs(from) /\ s.ok = r.ok /\ Shrinks(r, s, own)
<1>1. r.mem.cfg \in Configs
  BY RunIs
<1>2. PICK c : c = [r.mem.cfg EXCEPT !.setup = TRUE]
  OBVIOUS
<1>3. c \in Configs /\ c.desired = r.mem.cfg.desired
  BY <1>1, <1>2 DEF Configs
<1>4. Leaves(r, c, own)
  BY <1>3 DEF Leaves
<1>5. PICK m \in Mems : m.cfg = c /\ Configured(r, c) = [r EXCEPT !.mem = m] /\ Keeps(r, m, own)
  BY <1>4, ConfiguredIs
<1>6. PICK q : q = SaveConfig([r EXCEPT !.mem = m])
  OBVIOUS
<1>7. q \in Runs(from) /\ q.mem = m /\ q.ok = r.ok /\ q.d.inv = r.d.inv /\ q.d.cfg = c /\ Shrinks(r, q, own)
  BY <1>5, <1>6, SaveMem
<1>8. PICK D \in SUBSET Surfaces : D = r.mem.cfg.desired
  BY <1>1 DEF Configs
<1>9. PICK i \in Inventories : i = r.d.inv
  BY RunIs
<1>10. PICK u : u = SaveInventory(q, i, D)
  OBVIOUS
<1>11. /\ u \in Runs(from) /\ u.mem = q.mem /\ u.ok = q.ok /\ u.d.inv = q.d.inv
       /\ u.d.dir = q.d.dir /\ u.d.aside = q.d.aside /\ u.d.cfg = q.d.cfg
       /\ u.d.beside = q.d.beside /\ u.d.journal = q.d.journal
  <2>1. u \in Runs(from) /\ u.mem = q.mem /\ u.ok = q.ok /\ u.d.inv = i
        /\ u.d.dir = q.d.dir /\ u.d.aside = q.d.aside /\ u.d.cfg = q.d.cfg
        /\ u.d.beside = q.d.beside /\ u.d.journal = q.d.journal
    BY <1>7, <1>10, SaveInventoryIs
  <2> QED BY <1>7, <1>9, <2>1
<1>12. Shrinks(q, u, own)
  BY <1>11 DEF Shrinks, Mismatched, Tidy, Kept
<1>13. s = Reconcile(u, TRUE)
  BY <1>2, <1>5, <1>6, <1>8, <1>9, <1>10 DEF Apply
<1>14. s \in Runs(from) /\ s.ok = u.ok /\ Shrinks(u, s, own)
  BY <1>11, <1>13, ReconcileIs
<1>15. Shrinks(r, s, own)
  BY <1>7, <1>12, <1>14, ShrinksOn
<1> QED BY <1>7, <1>11, <1>14, <1>15

\* The registry answers with a version or nothing.
LEMMA AnswersIs ==
    ASSUME NEW p \in Packages, NEW a \in Answers(p)
    PROVE  a \in Versions \cup {Nothing}
<1> SUFFICES ASSUME a # Nothing PROVE a \in Versions
  OBVIOUS
<1>1. PICK l \in Listings[p] : a = ConvertVersion(l)
  BY DEF Answers
<1>2. a = ResolveVersion(l)
  BY <1>1 DEF ConvertVersion
<1>3. l.versions \subseteq Versions
  BY SourcesAssumption
<1>4. l.versions # {} => Max(l.versions) \in l.versions
  <2> SUFFICES ASSUME l.versions # {} PROVE Max(l.versions) \in l.versions
    OBVIOUS
  <2>1. PICK v \in l.versions : \A w \in l.versions : w <= v
    BY SourcesAssumption
  <2>2. \A w \in l.versions : w \in Nat
    BY <1>3, PackagesAssumption
  <2>3. \A w \in l.versions : v >= w
    BY <2>1, <2>2
  <2> QED BY <2>1, <2>3 DEF Max
<1> QED BY <1>2, <1>3, <1>4 DEF ResolveVersion

-----------------------------------------------------------------------------
(* The inductive invariant. *)

\* The files once what is under way is written.
Final == IF todo = <<>> THEN disk ELSE Last(todo)

Calls ==
    {o \in [at : {"located", "fetched", "resolved", "member", "completed"},
            pkg : Packages \cup {Nothing}, ver : Versions \cup {Nothing}, left : Seq(Fetches),
            mem : Mems] :
       /\ o.at # "completed" => o.pkg \in Packages
       /\ o.at = "fetched" => o.ver \in Versions
       /\ o.at = "member" => o.left # <<>>}

\* What is in the variables, but for the history.
Typed ==
    /\ disk \in Disks /\ todo \in Seq(Disks) /\ op \in Calls \cup {NoCall} /\ host \in BOOLEAN
    /\ archive # Nothing => archive \in Disks /\ archive.cfg # Nothing
    /\ hand \subseteq Packages
    /\ main.st \in {"down", "up", "failed"}
    /\ main = [st |-> main.st, loaded |-> main.loaded, plugins |-> main.plugins,
               skills |-> main.skills, behind |-> main.behind]

\* Nothing but what a crash tore will be mismatched.
Whole == Mismatched(Final) \subseteq torn

\* The host has a configuration; without the host nothing is under way.
Served == IF host THEN Final.cfg # Nothing ELSE Resting

\* A call that is under way has recovered what was pending, with the runtime stopped.
UnderWay ==
    op # NoCall => /\ host /\ Tidy(Final) /\ main = Down
                   /\ op.at # "completed" => Final.journal = Nothing

\* The operator's choices stand, on disk and in what the call under way has in memory.
ByHand ==
    /\ Kept(Final, IF op = NoCall THEN Final.cfg ELSE op.mem.cfg, hand)
    /\ op.at # "completed" => hand \subseteq Installed(Final.inv)

\* Worker m runs what is on disk d, but for what is in t.
Fits(m, d, t) ==
    LET older == t \cup {p \in Packages : d.beside[p] # {} /\ d.dir[p] = Nothing}
        twice == t \cup {p \in Packages : d.beside[p] # {}}
    IN  /\ \A p \in Chosen(d, "transport") \ older : m.loaded[1].ver = RecordOf(d.inv, p).ver
        /\ \A p \in Chosen(d, "provider") \ older : m.loaded[2].ver = RecordOf(d.inv, p).ver
        /\ \A p \in (DOMAIN m.plugins \cap Installed(d.inv)) \ twice :
             {c.ver : c \in m.plugins[p]} = {RecordOf(d.inv, p).ver} /\ Cardinality(m.plugins[p]) = 1
        /\ \A p \in m.skills \ ListSkills(d, m.skills) : p \in t \/ d.aside[p] # Nothing

Up == main.st = "up" /\ ~main.behind => Resting /\ host /\ Fits(main, disk, torn)

Failed ==
    main.st = "failed" => op = NoCall /\ torn \cup {p \in Packages \cap Acting : Final.beside[p] # {}} # {}

PackagesInv ==
    Typed /\ Whole /\ Served /\ UnderWay /\ ByHand /\ Up /\ Failed

\* The inductive invariant is stronger than the properties.
LEMMA InvImplies ==
    ASSUME PackagesInv
    PROVE  RecordsSound /\ ManualStays /\ WorkerHasWhatIsSet
<1> USE DEF PackagesInv
<1>1. Resting => Final = disk /\ op = NoCall
  BY DEF Resting, Final
<1>2. RecordsSound
  BY <1>1 DEF RecordsSound, PackagesOK, RecordsOnDisk, Settled, Typed, Whole
<1>3. ManualStays
  <2>1. NoCall.at # "completed"
    BY DEF NoCall
  <2> QED BY <1>1, <2>1 DEF ManualStays, ByHand, Kept
<1>4. ASSUME Resting, ~main.behind, main.st = "up"
      PROVE  /\ \A p \in Chosen(disk, "transport") \ (torn \cup (Littered \cap Emptied)) :
                  main.loaded[1].ver = VersionOf(p)
             /\ \A p \in Chosen(disk, "provider") \ (torn \cup (Littered \cap Emptied)) :
                  main.loaded[2].ver = VersionOf(p)
             /\ \A p \in (DOMAIN main.plugins \cap Installed(disk.inv)) \ (torn \cup Littered) :
                  {c.ver : c \in main.plugins[p]} = {VersionOf(p)} /\ Cardinality(main.plugins[p]) = 1
             /\ \A p \in main.skills \ ListSkills(disk, main.skills) : p \in torn \/ disk.aside[p] # Nothing
  <2>1. Fits(main, disk, torn)
    BY <1>4 DEF Up
  <2> QED BY <2>1 DEF Fits, Littered, Emptied, VersionOf
<1>5. Resting /\ main.st = "failed" => torn \cup (Littered \cap Acting) # {}
  BY <1>1 DEF Failed, Littered
<1>6. WorkerHasWhatIsSet
  BY <1>4, <1>5 DEF WorkerHasWhatIsSet
<1> QED BY <1>2, <1>3, <1>6

-----------------------------------------------------------------------------
(* The ends of the steps of a call. *)

\* What a run leaves to write ends in its disk.
LEMMA PutIs ==
    ASSUME NEW r \in Runs(disk), NEW next, Put(next, r), disk' = disk
    PROVE  todo' \in Seq(Disks) /\ Final' = r.d /\ op' = next
BY RunIs DEF Put, Final

\* What a run has to leave, of the operator's choices h and of what is torn.
Ends(r, h, t) ==
    /\ r \in Runs(disk) /\ Tidy(r.d) /\ Kept(r.d, r.mem.cfg, h) /\ Mismatched(r.d) \subseteq t

\* What no step of a call touches.
Beside == disk' = disk /\ archive' = archive /\ host' = host /\ host /\ main' = Down

\* A call that ends well-kept ends in the invariant,
LEMMA RestIs ==
    ASSUME PackagesInv, NEW r, NEW h \in SUBSET Packages, Ends(r, h, torn'), r.d.journal = Nothing,
           Put(NoCall, r), HandAfter(h, r), Beside
    PROVE  PackagesInv'
<1>1. r \in Runs(disk) /\ Tidy(r.d) /\ Kept(r.d, r.mem.cfg, h) /\ Mismatched(r.d) \subseteq torn'
  BY DEF Ends
<1>2. todo' \in Seq(Disks) /\ Final' = r.d /\ op' = NoCall
  BY <1>1, PutIs DEF Beside
<1>3. hand' = h \cap Installed(r.d.inv)
  BY DEF HandAfter
<1>4. r.d.cfg # Nothing
  BY <1>1, RunIs
<1>5. Typed'
  BY <1>2, <1>3 DEF PackagesInv, Typed, Beside, Down
<1>6. Whole' /\ Served' /\ UnderWay'
  BY <1>1, <1>2, <1>4 DEF Whole, Served, UnderWay, Beside
<1>7. ByHand'
  <2>1. Kept(r.d, r.d.cfg, hand')
    BY <1>1, <1>3 DEF Kept
  <2> QED BY <1>1, <1>2, <1>3, <2>1 DEF ByHand
<1>8. Up' /\ Failed'
  BY DEF Up, Failed, Beside, Down
<1> QED BY <1>5, <1>6, <1>7, <1>8 DEF PackagesInv

\* and so does one that awaits.
LEMMA AwaitIs ==
    ASSUME PackagesInv, NEW r, NEW next \in Calls, next.mem = r.mem, Ends(r, hand, torn'),
           next.at # "completed" => r.d.journal = Nothing,
           Put(next, r), HandAfter(hand, r), Beside
    PROVE  PackagesInv'
<1>1. r \in Runs(disk) /\ Tidy(r.d) /\ Kept(r.d, r.mem.cfg, hand) /\ Mismatched(r.d) \subseteq torn'
  BY DEF Ends
<1>2. todo' \in Seq(Disks) /\ Final' = r.d /\ op' = next
  BY <1>1, PutIs DEF Beside
<1>3. r.d.cfg # Nothing
  BY <1>1, RunIs
<1>4. next # NoCall
  BY DEF Calls, NoCall
<1>5. Typed' /\ hand' = hand \cap Installed(r.d.inv)
  BY <1>2 DEF PackagesInv, Typed, Beside, Down, HandAfter
<1>6. Whole' /\ Served' /\ UnderWay'
  BY <1>1, <1>2, <1>3 DEF Whole, Served, UnderWay, Beside
<1>7. ByHand'
  <2>1. Kept(r.d, r.mem.cfg, hand')
    BY <1>1, <1>5 DEF Kept
  <2> QED BY <1>2, <1>4, <1>5, <2>1 DEF ByHand
<1>8. Up' /\ Failed'
  BY DEF Up, Failed, Beside, Down
<1> QED BY <1>5, <1>6, <1>7, <1>8 DEF PackagesInv

\* Fewer choices are kept as well.
LEMMA KeptLess ==
    ASSUME NEW d, NEW cfg, NEW own, NEW h, h \subseteq own, Kept(d, cfg, own)
    PROVE  Kept(d, cfg, h)
BY DEF Kept

\* A run that shrinks from one that a call may leave can be left as well.
LEMMA EndsOn ==
    ASSUME NEW r, NEW s \in Runs(disk), NEW h, NEW t, Ends(r, h, t), Shrinks(r, s, h)
    PROVE  Ends(s, h, t) /\ (r.d.journal = Nothing => s.d.journal = Nothing)
BY DEF Ends, Shrinks

\* A package service that opens has recovered, and does nothing when there is nothing to recover.
LEMMA ReadyIs ==
    ASSUME PackagesInv, host, todo = <<>>
    PROVE  /\ Ready \in Runs(disk) /\ Ready.ok /\ Tidy(Ready.d) /\ Ready.d.journal = Nothing
           /\ \A own : Shrinks(Start(disk), Ready, own)
           /\ Tidy(disk) /\ disk.journal = Nothing => Ready = Start(disk)
           /\ disk \in Disks /\ disk.cfg # Nothing /\ Final = disk
           /\ Start(disk) \in Runs(disk) /\ Start(disk).d = disk /\ Start(disk).mem.cfg = disk.cfg
           /\ Start(disk).todo = <<>>
<1>1. disk \in Disks /\ disk.cfg # Nothing /\ Final = disk
  BY DEF PackagesInv, Typed, Served, Final
<1>2. PICK r \in Runs(disk) : r = Start(disk) /\ r.d = disk /\ r.ok /\ r.mem.cfg = disk.cfg /\ r.todo = <<>>
  BY <1>1, StartIs
<1>3. PICK s : s = EnsureInitialized(r)
  OBVIOUS
<1>4. /\ s \in Runs(disk) /\ s.ok = r.ok /\ Tidy(s.d) /\ s.d.journal = Nothing
      /\ \A own : Shrinks(r, s, own)
      /\ Tidy(r.d) /\ r.d.journal = Nothing => s = r
  BY <1>3, EnsureInitializedIs
<1>5. s = Ready
  BY <1>2, <1>3 DEF Ready
<1> QED BY <1>1, <1>2, <1>4, <1>5

\* What it leaves can be left.
LEMMA ReadyEnds ==
    ASSUME PackagesInv, host, Resting
    PROVE  Ends(Ready, hand, torn)
<1>1. todo = <<>> /\ op = NoCall
  BY DEF Resting
<1>2. /\ Ready \in Runs(disk) /\ Tidy(Ready.d) /\ Shrinks(Start(disk), Ready, hand)
      /\ Tidy(disk) /\ disk.journal = Nothing => Ready = Start(disk)
      /\ Final = disk /\ Start(disk).d = disk /\ Start(disk).mem.cfg = disk.cfg
  BY <1>1, ReadyIs
<1>3. Kept(disk, disk.cfg, hand)
  BY <1>1, <1>2 DEF PackagesInv, ByHand
<1>4. Mismatched(disk) \subseteq torn
  BY <1>2 DEF PackagesInv, Whole
<1> QED BY <1>2, <1>3, <1>4 DEF Ends, Shrinks

\* Every call without an await leaves the choices the operator has after it.
LEMMA EditEnds ==
    ASSUME NEW r, Ends(r, hand, torn), r.d.journal = Nothing, hand \subseteq Packages,
           NEW o \in Menu, o.name \notin {"install", "apply"},
           NEW s, s = Edit(o, r)
    PROVE  Ends(s, HandOf(o, s), torn) /\ s.d.journal = Nothing /\ HandOf(o, s) \subseteq Packages
<1>1. r \in Runs(disk) /\ Kept(r.d, r.mem.cfg, hand)
  BY DEF Ends
<1>2. PICK p : p = o.pkg
  OBVIOUS
<1>3. \/ o.name = "remove" /\ p \in Packages
      \/ o.name = "select" /\ p \in Packages /\ KindOf[p] \in Exclusive
      \/ o.name \in {"enable", "disable"} /\ p \in Packages /\ KindOf[p] \in {"plugin", "skill"}
      \/ o.name \in {"activate", "deactivate", "configure"} /\ p \in Surfaces
  BY <1>2, MenuAssumption
<1>4. PICK less : less = hand \ {p}
  OBVIOUS
<1>5. Ends(r, less, torn) /\ less \subseteq Packages /\ (p \in less => KeyOf[p] # NoKey)
  <2>1. Kept(r.d, r.mem.cfg, less)
    BY <1>1, <1>4, KeptLess
  <2> QED BY <1>4, <2>1 DEF Ends
<1>6. CASE o.name = "remove"
  <2>1. s = RemovePackage(r, p, o.cascade)
    BY <1>2, <1>6 DEF Edit
  <2>2. s \in Runs(disk) /\ Shrinks(r, s, less)
    BY <1>1, <1>3, <1>6, <2>1, RemovePackageIs
  <2>3. HandOf(o, s) = less
    BY <1>2, <1>4, <1>6 DEF HandOf
  <2> QED BY <1>5, <2>2, <2>3, EndsOn
<1>7. CASE o.name = "select"
  <2>1. s = Select(r, KindOf[p], p)
    BY <1>2, <1>7 DEF Edit
  <2>2. s \in Runs(disk) /\ Shrinks(r, s, hand)
    BY <1>1, <1>3, <1>7, <2>1, SelectIs
  <2>3. HandOf(o, s) = hand
    BY <1>7 DEF HandOf
  <2> QED BY <2>2, <2>3, EndsOn
<1>8. CASE o.name \in {"enable", "activate"}
  <2>1. p \in Surfaces /\ (o.name = "enable" => KindOf[p] \notin Exclusive)
    BY <1>3, <1>8 DEF Surfaces, Exclusive
  <2>2. s = IF o.name = "enable" THEN Enable(r, p) ELSE Activate(r, p)
    BY <1>2, <1>8 DEF Edit
  <2>3. /\ s \in Runs(disk) /\ s.d.inv = r.d.inv /\ Shrinks(r, s, hand)
        /\ s.ok /\ RecordOf(r.d.inv, p).activatedBy = {} /\ Kept(r.d, r.mem.cfg, hand) =>
             Kept(s.d, s.mem.cfg, hand \cup {p})
    <3>1. CASE o.name = "enable"
      BY <1>1, <2>1, <2>2, <3>1, EnableIs
    <3>2. CASE o.name # "enable"
      BY <1>1, <2>1, <2>2, <3>2, ActivateIs
    <3> QED BY <3>1, <3>2
  <2>4. Ends(s, hand, torn) /\ s.d.journal = Nothing
    BY <2>3, EndsOn
  <2>5. CASE s.ok /\ p \in Installed(s.d.inv) /\ RecordOf(s.d.inv, p).activatedBy = {}
    <3>1. HandOf(o, s) = hand \cup {p}
      BY <1>2, <1>8, <2>5 DEF HandOf
    <3>2. Ends(s, hand \cup {p}, torn)
      BY <1>1, <2>3, <2>4, <2>5 DEF Ends
    <3> QED BY <2>1, <2>4, <3>1, <3>2 DEF Surfaces
  <2>6. CASE ~(s.ok /\ p \in Installed(s.d.inv) /\ RecordOf(s.d.inv, p).activatedBy = {})
    <3>1. HandOf(o, s) = hand
      BY <1>2, <1>8, <2>6 DEF HandOf
    <3> QED BY <2>4, <3>1
  <2> QED BY <2>5, <2>6
<1>9. CASE o.name = "disable"
  <2>1. s = Disable(r, p)
    BY <1>2, <1>9 DEF Edit
  <2>2. s \in Runs(disk) /\ Shrinks(r, s, less)
    BY <1>1, <1>5, <2>1, DisableIs
  <2>3. HandOf(o, s) = less
    BY <1>2, <1>4, <1>9 DEF HandOf
  <2> QED BY <1>5, <2>2, <2>3, EndsOn
<1>10. CASE o.name = "deactivate"
  <2>1. s = Deactivate(r, p)
    BY <1>2, <1>10 DEF Edit
  <2>2. s \in Runs(disk) /\ Shrinks(r, s, less)
    BY <1>1, <1>3, <1>5, <1>10, <2>1, DeactivateIs
  <2>3. HandOf(o, s) = less
    BY <1>2, <1>4, <1>10 DEF HandOf
  <2> QED BY <1>5, <2>2, <2>3, EndsOn
<1>11. CASE o.name = "configure"
  <2>1. s = Configure(r, p)
    BY <1>2, <1>11 DEF Edit
  <2>2. s \in Runs(disk) /\ Shrinks(r, s, hand)
    BY <1>1, <1>3, <1>11, <2>1, ConfigureIs
  <2>3. HandOf(o, s) = hand
    BY <1>11 DEF HandOf
  <2> QED BY <2>2, <2>3, EndsOn
<1> QED BY <1>3, <1>6, <1>7, <1>8, <1>9, <1>10, <1>11

-----------------------------------------------------------------------------
(* The steps of a call. *)

\* A call to install begins,
LEMMA BeginInstallStep ==
    ASSUME PackagesInv, BeginInstall PROVE PackagesInv'
<1>1. /\ Resting /\ host /\ Beside /\ torn' = torn
  BY DEF BeginInstall, Begin, Beside
<1>9. PICK r : r = Ready
  OBVIOUS
<1>2. PICK o \in Menu : o.name = "install" /\ Await("located", r, o.pkg, Nothing, <<>>)
  BY <1>9 DEF BeginInstall
<1>3. o.pkg \in Packages
  BY <1>2, MenuAssumption
<1>4. Ends(r, hand, torn)
  BY <1>1, <1>9, ReadyEnds
<1>5. r \in Runs(disk) /\ r.d.journal = Nothing
  BY <1>1, <1>9, ReadyIs DEF Resting
<1>6. PICK next : next = [at |-> "located", pkg |-> o.pkg, ver |-> Nothing, left |-> <<>>, mem |-> r.mem]
  OBVIOUS
<1>7. next \in Calls /\ next.mem = r.mem
  <2>1. r.mem \in Mems /\ <<>> \in Seq(Fetches)
    BY <1>5, RunIs
  <2> QED BY <1>3, <1>6, <2>1 DEF Calls
<1>8. Put(next, r) /\ HandAfter(hand, r)
  BY <1>2, <1>6 DEF Await
<1> QED BY <1>1, <1>4, <1>5, <1>7, <1>8, AwaitIs

\* one to apply,
LEMMA BeginApplyStep ==
    ASSUME PackagesInv, BeginApply PROVE PackagesInv'
<1>1. /\ Resting /\ host /\ Beside /\ torn' = torn
  BY DEF BeginApply, Begin, Beside
<1>2. PICK r : r = Reconcile(WriteJournal(Ready, "apply"), TRUE)
  OBVIOUS
<1>3. Await("completed", r, Nothing, Nothing, <<>>)
  BY <1>2 DEF BeginApply
<1>4. Ends(Ready, hand, torn)
  BY <1>1, ReadyEnds
<1>5. PICK e \in Runs(disk) : e = Ready
  BY <1>1, ReadyIs DEF Resting
<1>6. PICK q : q = WriteJournal(e, "apply")
  OBVIOUS
<1>7. /\ q \in Runs(disk) /\ q.mem = e.mem /\ q.d.inv = e.d.inv /\ q.d.aside = e.d.aside
      /\ q.d.dir = e.d.dir /\ q.d.cfg = e.d.cfg
  <2>1. "apply" \in {Nothing, "remove", "apply"}
    OBVIOUS
  <2> QED BY <1>6, <2>1, JournalIs
<1>8. Ends(q, hand, torn)
  BY <1>4, <1>5, <1>7 DEF Ends, Tidy, Kept, Mismatched
<1>9. r = Reconcile(q, TRUE)
  BY <1>2, <1>5, <1>6
<1>10. r \in Runs(disk) /\ Shrinks(q, r, hand)
  BY <1>7, <1>9, ReconcileIs
<1>11. Ends(r, hand, torn)
  BY <1>8, <1>10, EndsOn
<1>12. PICK next : next = [at |-> "completed", pkg |-> Nothing, ver |-> Nothing, left |-> <<>>, mem |-> r.mem]
  OBVIOUS
<1>13. next \in Calls /\ next.mem = r.mem /\ next.at = "completed"
  <2>1. r.mem \in Mems /\ <<>> \in Seq(Fetches)
    BY <1>10, RunIs
  <2> QED BY <1>12, <2>1 DEF Calls
<1>14. Put(next, r) /\ HandAfter(hand, r)
  BY <1>3, <1>12 DEF Await
<1> QED BY <1>1, <1>11, <1>13, <1>14, AwaitIs

\* and those that end at once.
LEMMA BeginEditStep ==
    ASSUME PackagesInv, BeginEdit PROVE PackagesInv'
<1>1. /\ Resting /\ host /\ Beside /\ torn' = torn
  BY DEF BeginEdit, Begin, Beside
<1>2. PICK o \in Menu : /\ o.name \notin {"install", "apply"}
                        /\ \E r \in {Edit(o, Ready)} : Put(NoCall, r) /\ HandAfter(HandOf(o, r), r)
  BY DEF BeginEdit
<1>3. PICK s : s = Edit(o, Ready)
  OBVIOUS
<1>4. Put(NoCall, s) /\ HandAfter(HandOf(o, s), s)
  BY <1>2, <1>3
<1>5. Ends(Ready, hand, torn) /\ Ready.d.journal = Nothing
  BY <1>1, ReadyEnds, ReadyIs DEF Resting
<1>6. hand \subseteq Packages
  BY DEF PackagesInv, Typed
<1>7. Ends(s, HandOf(o, s), torn) /\ s.d.journal = Nothing /\ HandOf(o, s) \subseteq Packages
  BY <1>2, <1>3, <1>5, <1>6, EditEnds
<1> QED BY <1>1, <1>4, <1>7, RestIs

\* Code resumed after an await keeps what the call holds in memory.
LEMMA ResumedIs ==
    ASSUME PackagesInv, op # NoCall, todo = <<>>
    PROVE  /\ Resumed \in Runs(disk) /\ Resumed.d = disk /\ Resumed.mem = op.mem /\ Resumed.ok
           /\ op \in Calls /\ host /\ main = Down
           /\ Ends(Resumed, hand, torn)
           /\ op.at # "completed" => disk.journal = Nothing /\ hand \subseteq Installed(disk.inv)
<1>1. op \in Calls /\ op.mem \in Mems /\ Final = disk
  BY DEF PackagesInv, Typed, Calls, Final
<1>2. host /\ main = Down /\ Tidy(disk) /\ (op.at # "completed" => disk.journal = Nothing)
  BY <1>1 DEF PackagesInv, UnderWay
<1>3. disk \in Disks /\ disk.cfg # Nothing
  BY <1>1, <1>2 DEF PackagesInv, Typed, Served
<1>4. PICK q \in Runs(disk) : q = Start(disk) /\ q.d = disk /\ q.ok
  BY <1>3, StartIs
<1>5. Resumed \in Runs(disk) /\ Resumed.d = disk /\ Resumed.mem = op.mem /\ Resumed.ok
  BY <1>1, <1>4, WithMem DEF Resumed
<1>6. Ends(Resumed, hand, torn)
  BY <1>1, <1>2, <1>5 DEF PackagesInv, ByHand, Whole, Ends
<1>7. op.at # "completed" => hand \subseteq Installed(disk.inv)
  BY <1>1 DEF PackagesInv, ByHand
<1> QED BY <1>1, <1>2, <1>5, <1>6, <1>7

\* The registry answered.
LEMMA LocatedStep ==
    ASSUME PackagesInv, Located PROVE PackagesInv'
<1>1. op # NoCall /\ todo = <<>> /\ op.at = "located"
  BY DEF Located, At, NoCall
<1>2. PICK r0 \in Runs(disk) : r0 = Resumed /\ r0.d = disk /\ r0.mem = op.mem /\ Ends(r0, hand, torn)
  BY <1>1, ResumedIs
<1>3. op \in Calls /\ host /\ main = Down /\ disk.journal = Nothing /\ hand \subseteq Installed(disk.inv)
  BY <1>1, ResumedIs
<1>4. Beside /\ torn' = torn /\ op.pkg \in Packages
  BY <1>1, <1>3 DEF Located, Unseen, Beside, Calls
<1>5. PICK answer \in Answers(op.pkg) :
        LET r == SaveCache(r0, Remember(op.mem.cache, op.pkg, answer))
            ver == ResolveInstallEntry(op.mem.cache, op.pkg, answer)
        IN  IF ver = Nothing THEN Rest(r) ELSE Await("fetched", r, op.pkg, ver, <<>>)
  BY <1>2 DEF Located
<1>6. answer \in Versions \cup {Nothing} /\ op.mem.cache \in Caches
  BY <1>3, <1>4, AnswersIs DEF Calls, Mems, Caches
<1>7. PICK c \in Caches : c = Remember(op.mem.cache, op.pkg, answer)
  BY <1>6, RememberIs
<1>8. PICK r : r = SaveCache(r0, c)
  OBVIOUS
<1>9. r \in Runs(disk) /\ r.d.inv = disk.inv /\ Shrinks(r0, r, hand)
  <2>1. r \in Heard(disk, r0, hand)
    BY <1>8, SaveCacheIs
  <2> QED BY <1>2, <2>1 DEF Heard
<1>10. Ends(r, hand, torn) /\ r.d.journal = Nothing
  BY <1>2, <1>3, <1>9, EndsOn
<1>11. PICK ver \in Versions \cup {Nothing} : ver = ResolveInstallEntry(op.mem.cache, op.pkg, answer)
  BY <1>4, <1>6 DEF ResolveInstallEntry, Caches
<1>12. IF ver = Nothing THEN Rest(r) ELSE Await("fetched", r, op.pkg, ver, <<>>)
  BY <1>5, <1>7, <1>8, <1>11
<1>13. CASE ver = Nothing
  <2>1. Put(NoCall, r) /\ HandAfter(hand, r) /\ hand \in SUBSET Packages
    BY <1>12, <1>13 DEF Rest, PackagesInv, Typed
  <2> QED BY <1>4, <1>10, <2>1, RestIs
<1>14. CASE ver # Nothing
  <2>1. PICK next : next = [at |-> "fetched", pkg |-> op.pkg, ver |-> ver, left |-> <<>>, mem |-> r.mem]
    OBVIOUS
  <2>2. next \in Calls /\ next.mem = r.mem
    <3>1. r.mem \in Mems /\ <<>> \in Seq(Fetches)
      BY <1>9, RunIs
    <3> QED BY <1>4, <1>14, <2>1, <3>1 DEF Calls
  <2>3. Put(next, r) /\ HandAfter(hand, r)
    BY <1>12, <1>14, <2>1 DEF Await
  <2> QED BY <1>3, <1>4, <1>9, <1>10, <2>2, <2>3, AwaitIs
<1> QED BY <1>13, <1>14

\* An installation can be left; it mends its package.
LEMMA GrowsEnds ==
    ASSUME NEW r, NEW s \in Runs(disk), NEW p, Ends(r, hand, torn), Grows(r, s, p, hand)
    PROVE  /\ Ends(s, hand, IF s.ok THEN torn \ {p} ELSE torn)
           /\ s.d.journal = r.d.journal /\ s.mem = r.mem
           /\ Installed(r.d.inv) \subseteq Installed(s.d.inv)
           /\ s.ok => p \in Installed(s.d.inv)
BY DEF Ends, Grows

\* A package arrived.
LEMMA FetchedStep ==
    ASSUME PackagesInv, Fetched PROVE PackagesInv'
<1>1. op # NoCall /\ todo = <<>> /\ op.at = "fetched"
  BY DEF Fetched, At, NoCall
<1>2. PICK r0 \in Runs(disk) : r0 = Resumed /\ r0.d = disk /\ r0.mem = op.mem /\ Ends(r0, hand, torn)
  BY <1>1, ResumedIs
<1>3. op \in Calls /\ host /\ main = Down /\ disk.journal = Nothing /\ hand \subseteq Installed(disk.inv)
  BY <1>1, ResumedIs
<1>4. Beside /\ op.pkg \in Packages /\ op.ver \in Versions
  BY <1>1, <1>3 DEF Fetched, Unseen, Beside, Calls
<1>5. PICK how \in Deliveries :
        \E r \in {InstallFiles(r0, op.pkg, op.ver, Nothing, how)} :
          /\ torn' = IF r.ok THEN torn \ {op.pkg} ELSE torn
          /\ IF r.ok /\ KindOf[op.pkg] = "bundle"
             THEN Await("resolved", r, op.pkg, Nothing, <<>>)
             ELSE Rest(Reconcile(r, FALSE))
  BY <1>2 DEF Fetched
<1>6. PICK r : r = InstallFiles(r0, op.pkg, op.ver, Nothing, how)
  OBVIOUS
<1>7. r \in Runs(disk) /\ Grows(r0, r, op.pkg, hand)
  <2>1. Tidy(r0.d) /\ hand \subseteq Installed(r0.d.inv) /\ Nothing \in Packages \cup {Nothing}
    BY <1>2, <1>3 DEF Ends
  <2> QED BY <1>4, <1>6, <2>1, InstallFilesIs
<1>8. torn' = IF r.ok THEN torn \ {op.pkg} ELSE torn
  BY <1>5, <1>6
<1>9. Ends(r, hand, torn') /\ r.d.journal = Nothing /\ hand \subseteq Installed(r.d.inv)
  BY <1>2, <1>3, <1>7, <1>8, GrowsEnds
<1>10. CASE r.ok /\ KindOf[op.pkg] = "bundle"
  <2>1. PICK next : next = [at |-> "resolved", pkg |-> op.pkg, ver |-> Nothing, left |-> <<>>, mem |-> r.mem]
    OBVIOUS
  <2>2. next \in Calls /\ next.mem = r.mem
    <3>1. r.mem \in Mems /\ <<>> \in Seq(Fetches)
      BY <1>7, RunIs
    <3> QED BY <1>4, <2>1, <3>1 DEF Calls
  <2>3. Put(next, r) /\ HandAfter(hand, r)
    BY <1>5, <1>6, <1>10, <2>1 DEF Await
  <2> QED BY <1>4, <1>9, <2>2, <2>3, AwaitIs
<1>11. CASE ~(r.ok /\ KindOf[op.pkg] = "bundle")
  <2>1. PICK s : s = Reconcile(r, FALSE)
    OBVIOUS
  <2>2. s \in Runs(disk) /\ Shrinks(r, s, hand)
    BY <1>7, <2>1, ReconcileIs
  <2>3. Ends(s, hand, torn') /\ s.d.journal = Nothing
    BY <1>9, <2>2, EndsOn
  <2>4. Put(NoCall, s) /\ HandAfter(hand, s) /\ hand \in SUBSET Packages
    BY <1>5, <1>6, <1>11, <2>1 DEF Rest, PackagesInv, Typed
  <2> QED BY <1>4, <2>3, <2>4, RestIs
<1> QED BY <1>10, <1>11

\* The members go on, or the bundle is undone.
LEMMA ContinueIs ==
    ASSUME PackagesInv, NEW r \in Runs(disk), Ends(r, hand, torn'), r.d.journal = Nothing,
           hand \subseteq Installed(r.d.inv), NEW t \in Takes(disk, r, hand), NEW b \in Packages,
           Continue(b, t), Beside
    PROVE  PackagesInv'
<1>1. PICK q \in Runs(disk) : q = t.r /\ Installed(q.d.inv) = Installed(r.d.inv) /\ Shrinks(r, q, hand)
  BY DEF Takes
<1>2. Ends(q, hand, torn') /\ q.d.journal = Nothing /\ t.left \in Seq(Fetches)
  BY <1>1, EndsOn DEF Takes
<1>3. hand \in SUBSET Packages
  BY DEF PackagesInv, Typed
<1>4. CASE ~q.ok
  <2>1. PICK u \in Runs(disk) : u = [q EXCEPT !.ok = TRUE] /\ u.d = q.d /\ u.mem = q.mem
    BY WithOk
  <2>2. PICK s : s = RemoveBundle(u, b, TRUE)
    OBVIOUS
  <2>3. s \in Runs(disk) /\ s.d.journal = Nothing /\ Shrinks(u, s, hand)
    BY <2>2, RemoveBundleIs
  <2>4. Ends(u, hand, torn')
    BY <1>2, <2>1 DEF Ends
  <2>5. Ends(s, hand, torn')
    BY <2>3, <2>4, EndsOn
  <2>6. Put(NoCall, s) /\ HandAfter(hand, s)
    BY <1>1, <1>4, <2>1, <2>2 DEF Continue, Rest
  <2> QED BY <1>3, <2>3, <2>5, <2>6, RestIs
<1>5. CASE q.ok /\ t.left = <<>>
  <2>1. PICK s : s = Reconcile(q, FALSE)
    OBVIOUS
  <2>2. s \in Runs(disk) /\ Shrinks(q, s, hand)
    BY <2>1, ReconcileIs
  <2>3. Ends(s, hand, torn') /\ s.d.journal = Nothing
    BY <1>2, <2>2, EndsOn
  <2>4. Put(NoCall, s) /\ HandAfter(hand, s)
    BY <1>1, <1>5, <2>1 DEF Continue, Rest
  <2> QED BY <1>3, <2>3, <2>4, RestIs
<1>6. CASE q.ok /\ t.left # <<>>
  <2>1. PICK next : next = [at |-> "member", pkg |-> b, ver |-> Nothing, left |-> t.left, mem |-> q.mem]
    OBVIOUS
  <2>2. next \in Calls /\ next.mem = q.mem
    <3>1. q.mem \in Mems
      BY RunIs
    <3> QED BY <1>2, <1>6, <2>1, <3>1 DEF Calls
  <2>3. Put(next, q) /\ HandAfter(hand, q)
    BY <1>1, <1>6, <2>1 DEF Continue, Await
  <2>4. hand \subseteq Installed(q.d.inv)
    BY <1>1
  <2> QED BY <1>2, <2>2, <2>3, <2>4, AwaitIs
<1> QED BY <1>4, <1>5, <1>6

\* A bundle's members resolved.
LEMMA ResolvedStep ==
    ASSUME PackagesInv, Resolved PROVE PackagesInv'
<1>1. op # NoCall /\ todo = <<>> /\ op.at = "resolved"
  BY DEF Resolved, At, NoCall
<1>2. PICK r0 \in Runs(disk) : r0 = Resumed /\ r0.d = disk /\ r0.mem = op.mem /\ Ends(r0, hand, torn)
  BY <1>1, ResumedIs
<1>3. op \in Calls /\ host /\ main = Down /\ disk.journal = Nothing /\ hand \subseteq Installed(disk.inv)
  BY <1>1, ResumedIs
<1>4. Beside /\ torn' = torn /\ op.pkg \in Packages
  BY <1>1, <1>3 DEF Resolved, Unseen, Beside, Calls
<1>5. PICK members \in Seq(Member) : members = Members[op.pkg]
  BY <1>4, SourcesAssumption
<1> DEFINE asked == {members[i].id : i \in {j \in DOMAIN members : members[j].embedded = Nothing}}
<1>6. PICK answer \in [asked -> Versions \cup {Nothing}] : ResolveAll(r0, op.pkg, members, answer)
  BY <1>2, <1>5 DEF Resolved
<1> DEFINE ver(m) == ResolveMember(op.mem.cache, m, answer)
           heard == {i \in DOMAIN members : /\ members[i].embedded = Nothing
                                            /\ \A j \in 1..i : ver(members[j]) # Nothing}
           chosen == [i \in DOMAIN members |->
                        [id |-> members[i].id, range |-> members[i].range, ver |-> ver(members[i]),
                         activation |-> members[i].activation, embedded |-> members[i].embedded]]
<1>7. \A i \in heard \cap DOMAIN members : answer[members[i].id] \in Versions \cup {Nothing}
  OBVIOUS
<1>8. PICK r : r = SaveHeard(r0, members, heard, answer)
  OBVIOUS
<1>9. IF members # <<>> /\ \A i \in DOMAIN members : ver(members[i]) \in members[i].range
      THEN Continue(op.pkg, TakeMembers(r, op.pkg, chosen))
      ELSE Rest(RemoveFiles(r, op.pkg, TRUE))
  BY <1>2, <1>6, <1>8 DEF ResolveAll
<1>10. \A i \in DOMAIN members : members[i] \in Member
  OBVIOUS
<1>11. (\A i \in DOMAIN members : ver(members[i]) \in members[i].range) => chosen \in Seq(Fetches)
  <2> SUFFICES ASSUME \A i \in DOMAIN members : ver(members[i]) \in members[i].range
               PROVE  chosen \in Seq(Fetches)
    OBVIOUS
  <2>1. \A i \in DOMAIN members : chosen[i] \in Fetches
    <3> SUFFICES ASSUME NEW i \in DOMAIN members PROVE chosen[i] \in Fetches
      OBVIOUS
    <3>1. PICK m \in Member : m = members[i]
      BY <1>10
    <3>2. PICK v \in Versions : v = ver(m)
      BY <3>1 DEF Member
    <3>3. chosen[i] = [id |-> m.id, range |-> m.range, ver |-> v,
                       activation |-> m.activation, embedded |-> m.embedded]
      BY <3>1, <3>2
    <3> HIDE DEF chosen
    <3> QED BY <3>3 DEF Member, Fetches
  <2>2. Len(members) \in Nat /\ DOMAIN members = 1..Len(members) /\ DOMAIN chosen = DOMAIN members
    OBVIOUS
  <2>3. chosen = [i \in DOMAIN members |-> chosen[i]]
    OBVIOUS
  <2> HIDE DEF chosen
  <2>4. chosen \in [1..Len(members) -> Fetches]
    BY <2>1, <2>2, <2>3
  <2> QED BY <2>2, <2>4
<1> HIDE DEF heard, chosen, ver, asked
<1>12. r \in Runs(disk) /\ r.d.inv = disk.inv /\ Shrinks(r0, r, hand)
  <2>1. r \in Heard(disk, r0, hand)
    BY <1>7, <1>8, SaveHeardIs
  <2> QED BY <1>2, <2>1 DEF Heard
<1>13. Ends(r, hand, torn') /\ r.d.journal = Nothing /\ hand \subseteq Installed(r.d.inv)
  BY <1>2, <1>3, <1>4, <1>12, EndsOn
<1>14. CASE /\ members # <<>>
            /\ \A i \in DOMAIN members : ver(members[i]) \in members[i].range
  <2>1. PICK left \in Seq(Fetches) : left = chosen
    BY <1>11, <1>14
  <2>2. PICK t \in Takes(disk, r, hand) : t = TakeMembers(r, op.pkg, left)
    BY <1>4, <1>12, TakeMembersIs
  <2>3. Continue(op.pkg, t)
    BY <1>9, <1>14, <2>1, <2>2
  <2> QED BY <1>4, <1>12, <1>13, <2>3, ContinueIs
<1>15. CASE ~(/\ members # <<>>
              /\ \A i \in DOMAIN members : ver(members[i]) \in members[i].range)
  <2>1. PICK s : s = RemoveFiles(r, op.pkg, TRUE)
    OBVIOUS
  <2>2. s \in Runs(disk) /\ Shrinks(r, s, hand)
    BY <1>4, <1>12, <2>1, RemoveFilesIs
  <2>3. Ends(s, hand, torn') /\ s.d.journal = Nothing
    BY <1>13, <2>2, EndsOn
  <2>4. Put(NoCall, s) /\ HandAfter(hand, s) /\ hand \in SUBSET Packages
    BY <1>9, <1>15, <2>1 DEF Rest, PackagesInv, Typed
  <2> QED BY <1>4, <2>3, <2>4, RestIs
<1> QED BY <1>14, <1>15

\* A member arrived.
LEMMA MemberFetchedStep ==
    ASSUME PackagesInv, MemberFetched PROVE PackagesInv'
<1>1. op # NoCall /\ todo = <<>> /\ op.at = "member"
  BY DEF MemberFetched, At, NoCall
<1>2. PICK r0 \in Runs(disk) : r0 = Resumed /\ r0.d = disk /\ r0.mem = op.mem /\ Ends(r0, hand, torn)
  BY <1>1, ResumedIs
<1>3. op \in Calls /\ host /\ main = Down /\ disk.journal = Nothing /\ hand \subseteq Installed(disk.inv)
  BY <1>1, ResumedIs
<1>4. Beside /\ op.pkg \in Packages /\ op.left \in Seq(Fetches) /\ op.left # <<>>
  BY <1>1, <1>3 DEF MemberFetched, Unseen, Beside, Calls
<1>5. PICK m \in Fetches, left \in Seq(Fetches) : m = Head(op.left) /\ left = Tail(op.left)
  <2>1. PICK l \in Seq(Fetches) : l = op.left /\ l # <<>>
    BY <1>4
  <2>2. Head(l) \in Fetches /\ Tail(l) \in Seq(Fetches)
    BY <2>1
  <2> QED BY <2>1, <2>2
<1>6. PICK how :
        \E r \in {InstallFiles(r0, m.id, m.ver, op.pkg, how)} :
          \E t \in {TakeMembers(ActivateMember(r, op.pkg, m), op.pkg, left)} :
            Continue(op.pkg, t) /\ torn' = IF r.ok THEN torn \ {m.id} ELSE torn
  BY <1>2, <1>5 DEF MemberFetched
<1>7. m.id \in Packages /\ m.ver \in Versions
  BY DEF Fetches, Surfaces
<1>8. PICK r : r = InstallFiles(r0, m.id, m.ver, op.pkg, how)
  OBVIOUS
<1>9. r \in Runs(disk) /\ Grows(r0, r, m.id, hand)
  <2>1. Tidy(r0.d) /\ hand \subseteq Installed(r0.d.inv) /\ op.pkg \in Packages \cup {Nothing}
    BY <1>2, <1>3, <1>4 DEF Ends
  <2> QED BY <1>7, <1>8, <2>1, InstallFilesIs
<1>10. PICK u : u = ActivateMember(r, op.pkg, m)
  OBVIOUS
<1>11. PICK t : t = TakeMembers(u, op.pkg, left)
  OBVIOUS
<1>12. Continue(op.pkg, t) /\ torn' = IF r.ok THEN torn \ {m.id} ELSE torn
  BY <1>6, <1>8, <1>10, <1>11
<1>13. /\ Ends(r, hand, torn') /\ r.d.journal = Nothing /\ hand \subseteq Installed(r.d.inv)
       /\ r.ok => m.id \in Installed(r.d.inv)
  BY <1>2, <1>3, <1>9, <1>12, GrowsEnds
<1>14. u \in Runs(disk) /\ Installed(u.d.inv) = Installed(r.d.inv) /\ Shrinks(r, u, hand)
  BY <1>4, <1>9, <1>10, <1>13, ActivateMemberIs
<1>15. Ends(u, hand, torn') /\ u.d.journal = Nothing /\ hand \subseteq Installed(u.d.inv)
  BY <1>13, <1>14, EndsOn
<1>16. t \in Takes(disk, u, hand)
  BY <1>4, <1>11, <1>14, TakeMembersIs
<1> QED BY <1>4, <1>12, <1>14, <1>15, <1>16, ContinueIs

\* The transport completed its configuration, or failed to.
LEMMA CompletedStep ==
    ASSUME PackagesInv, Completed \/ CompleteFails PROVE PackagesInv'
<1>1. op # NoCall /\ todo = <<>> /\ op.at = "completed"
  BY DEF Completed, CompleteFails, At, NoCall
<1>2. PICK r0 \in Runs(disk) : r0 = Resumed /\ r0.d = disk /\ r0.mem = op.mem /\ Ends(r0, hand, torn)
  BY <1>1, ResumedIs
<1>3. host /\ main = Down
  BY <1>1, ResumedIs
<1>4. Beside /\ torn' = torn
  BY <1>3 DEF Completed, CompleteFails, Unseen, Beside
<1>5. PICK r : r = CompleteConfig(r0)
  OBVIOUS
<1>6. r \in Runs(disk) /\ Shrinks(r0, r, hand)
  BY <1>5, CompleteConfigIs
<1>7. \E q \in Runs(disk) : Shrinks(r0, q, hand) /\ Rest(Journalled("apply", q))
  <2>1. CASE Completed
    <3>1. \/ Rest(Journalled("apply", Apply(r)))
          \/ Rest(Journalled("apply", Fail(MarkSetupIncomplete(r))))
      BY <1>2, <1>5, <2>1 DEF Completed
    <3>2. PICK a : a = Apply(r)
      OBVIOUS
    <3>3. a \in Runs(disk) /\ Shrinks(r0, a, hand)
      BY <1>6, <3>2, ApplyIs, ShrinksOn
    <3>4. PICK e : e = MarkSetupIncomplete(r)
      OBVIOUS
    <3>5. e \in Runs(disk) /\ Shrinks(r0, e, hand)
      BY <1>6, <3>4, MarkIs, ShrinksOn
    <3>6. Fail(e) \in Runs(disk) /\ Shrinks(r0, Fail(e), hand)
      BY <3>5, FailIs, ShrinksOn
    <3> QED BY <3>1, <3>2, <3>3, <3>4, <3>6
  <2>2. CASE CompleteFails
    <3>1. PICK e : e = MarkSetupIncomplete(r0)
      OBVIOUS
    <3>2. e \in Runs(disk) /\ Shrinks(r0, e, hand)
      BY <3>1, MarkIs
    <3>3. Fail(e) \in Runs(disk) /\ Shrinks(r0, Fail(e), hand)
      BY <3>2, FailIs, ShrinksOn
    <3>4. Rest(Journalled("apply", Fail(e)))
      BY <1>2, <2>2, <3>1 DEF CompleteFails
    <3> QED BY <3>3, <3>4
  <2> QED BY <2>1, <2>2
<1>8. PICK q \in Runs(disk) : Shrinks(r0, q, hand) /\ Rest(Journalled("apply", q))
  BY <1>7
<1>9. PICK s : s = Journalled("apply", q)
  OBVIOUS
<1>10. s \in Runs(disk) /\ s.d.journal = Nothing /\ Shrinks(q, s, hand)
  BY <1>9, JournalledIs
<1>11. Shrinks(r0, s, hand)
  BY <1>8, <1>10, ShrinksOn
<1>12. Ends(s, hand, torn')
  BY <1>2, <1>4, <1>10, <1>11, EndsOn
<1>13. Put(NoCall, s) /\ HandAfter(hand, s) /\ hand \in SUBSET Packages
  BY <1>8, <1>9 DEF Rest, PackagesInv, Typed
<1> QED BY <1>4, <1>10, <1>12, <1>13, RestIs

-----------------------------------------------------------------------------
(* The steps beside a call. *)

\* A package service that is opened beside the queue finds nothing pending under a call
\* but an apply, and nothing of the operator's own choices otherwise.
LEMMA InspectStep ==
    ASSUME PackagesInv, Inspect PROVE PackagesInv'
<1>1. /\ todo = <<>> /\ host /\ todo' = Ready.todo /\ todo' # <<>>
      /\ main' = [main EXCEPT !.behind = main.st = "up"]
      /\ disk' = disk /\ host' = host /\ archive' = archive /\ op' = op /\ torn' = torn
      /\ hand' = hand \cap Installed(Ready.d.inv)
  BY DEF Inspect, HandAfter
<1>2. PICK r \in Runs(disk) : r = Ready
  BY <1>1, ReadyIs
<1>3. /\ Tidy(r.d) /\ r.d.journal = Nothing /\ Shrinks(Start(disk), r, hand)
      /\ Final = disk /\ Start(disk).d = disk /\ Start(disk).mem.cfg = disk.cfg
  BY <1>1, <1>2, ReadyIs
<1>4. ~(Tidy(disk) /\ disk.journal = Nothing)
  BY <1>1, ReadyIs
<1>5. todo' \in Seq(Disks) /\ Final' = r.d /\ r.d.cfg # Nothing
  BY <1>1, <1>2, RunIs DEF Final
<1>6. op # NoCall => op.at = "completed" /\ Tidy(disk) /\ main = Down
  BY <1>3, <1>4 DEF PackagesInv, UnderWay
<1>7. hand' = hand \cap Installed(r.d.inv)
  BY <1>1, <1>2
<1>8. /\ r.d.beside = disk.beside /\ Installed(r.d.inv) \subseteq Installed(disk.inv)
      /\ Mismatched(r.d) \subseteq Mismatched(disk)
      /\ Kept(disk, disk.cfg, hand) => Kept(r.d, r.mem.cfg, hand)
  BY <1>3 DEF Shrinks
<1>9. main' = [st |-> main.st, loaded |-> main.loaded, plugins |-> main.plugins,
               skills |-> main.skills, behind |-> main.st = "up"]
  BY <1>1 DEF PackagesInv, Typed
<1>10. Typed'
  BY <1>1, <1>5, <1>9 DEF PackagesInv, Typed
<1>11. Whole' /\ Served'
  BY <1>1, <1>3, <1>5, <1>8 DEF PackagesInv, Whole, Served
<1>12. UnderWay'
  <2> SUFFICES ASSUME op # NoCall
               PROVE  host' /\ Tidy(Final') /\ main' = Down /\ (op.at # "completed" => Final'.journal = Nothing)
    BY <1>1 DEF UnderWay
  <2>1. main = Down /\ op.at = "completed"
    BY <1>6
  <2>2. (main.st = "up") = FALSE
    BY <2>1 DEF Down
  <2>3. main' = Down
    BY <1>9, <2>1, <2>2 DEF Down
  <2> QED BY <1>1, <1>3, <1>5, <2>1, <2>3
<1>13. ByHand'
  <2>1. CASE op = NoCall
    <3>1. Kept(r.d, r.mem.cfg, hand)
      BY <1>3, <1>8, <2>1 DEF PackagesInv, ByHand
    <3>2. Kept(r.d, r.d.cfg, hand')
      BY <1>7, <3>1 DEF Kept
    <3> QED BY <1>1, <1>5, <1>7, <2>1, <3>2 DEF ByHand
  <2>2. CASE op # NoCall
    <3>1. Kept(disk, op.mem.cfg, hand)
      BY <1>3, <2>2 DEF PackagesInv, ByHand
    <3>2. Kept(disk, disk.cfg, hand)
      BY <3>1 DEF Kept
    <3>3. Kept(r.d, op.mem.cfg, hand)
      BY <1>8, <3>1, <3>2 DEF Kept
    <3>4. Kept(r.d, op.mem.cfg, hand')
      BY <1>7, <3>3 DEF Kept
    <3> QED BY <1>1, <1>5, <1>6, <2>2, <3>4 DEF ByHand
  <2> QED BY <2>1, <2>2
<1>14. Up'
  BY <1>9 DEF Up
<1>15. Failed'
  BY <1>1, <1>3, <1>5, <1>8, <1>9 DEF PackagesInv, Failed
<1> QED BY <1>10, <1>11, <1>12, <1>13, <1>14, <1>15 DEF PackagesInv

\* What a write to the cache or to a setting leaves alone.
LEMMA AlikeIs ==
    ASSUME PackagesInv, todo = <<>>, host, NEW d \in Disks, d.cfg # Nothing,
           d.dir = disk.dir, d.aside = disk.aside, d.inv = disk.inv, d.beside = disk.beside,
           d.journal = disk.journal, d.cfg.desired = disk.cfg.desired, disk' = d,
           UNCHANGED <<todo, op, host, main, archive, hand, torn>>
    PROVE  PackagesInv'
<1>1. Final = disk /\ Final' = d /\ todo' = <<>> /\ op' = op /\ host' = host /\ main' = main
      /\ archive' = archive /\ hand' = hand /\ torn' = torn
  BY DEF Final
<1>2. Typed'
  BY <1>1 DEF PackagesInv, Typed
<1>3. Whole' /\ Served' /\ UnderWay' /\ Failed'
  BY <1>1 DEF PackagesInv, Whole, Served, UnderWay, Failed, Mismatched, Tidy
<1>4. ByHand'
  BY <1>1 DEF PackagesInv, ByHand, Kept, Tidy
<1>5. Up'
  <2> SUFFICES ASSUME main.st = "up", ~main.behind PROVE Resting' /\ host' /\ Fits(main, d, torn)
    BY <1>1 DEF Up
  <2>1. Resting /\ Fits(main, disk, torn)
    BY DEF PackagesInv, Up
  <2>2. Fits(main, d, torn)
    BY <2>1 DEF Fits, Chosen, ListSkills
  <2> QED BY <1>1, <2>1, <2>2 DEF Resting
<1> QED BY <1>2, <1>3, <1>4, <1>5 DEF PackagesInv

\* A search remembers an entry under a running worker.
LEMMA SearchStep ==
    ASSUME PackagesInv, Search PROVE PackagesInv'
<1>1. /\ todo = <<>> /\ host /\ UNCHANGED <<todo, op, host, main, archive, hand, torn>>
      /\ disk \in Disks /\ disk.cfg # Nothing
  BY DEF Search, PackagesInv, Typed, Served, Final
<1>2. PICK p \in Searched, answer \in Versions : disk' = [disk EXCEPT !.cache[p] = answer]
  BY DEF Search
<1>3. PICK c : c = [disk.cache EXCEPT ![p] = answer]
  OBVIOUS
<1>4. c \in [Packages -> Versions \cup {Nothing}]
  BY <1>1, <1>3, DiskIs
<1>5. PICK d : d = [disk EXCEPT !.cache = c]
  OBVIOUS
<1>6. /\ d \in Disks /\ d.cfg = disk.cfg /\ d.dir = disk.dir /\ d.aside = disk.aside
      /\ d.inv = disk.inv /\ d.beside = disk.beside /\ d.journal = disk.journal
  BY <1>1, <1>4, <1>5 DEF Disks
<1>7. disk' = d
  BY <1>1, <1>2, <1>3, <1>5 DEF Disks
<1> QED BY <1>1, <1>6, <1>7, AlikeIs

\* A model is set under a running worker.
LEMMA SetDefaultModelStep ==
    ASSUME PackagesInv, NEW m \in Models, SetDefaultModel(m) PROVE PackagesInv'
<1>1. /\ todo = <<>> /\ host /\ UNCHANGED <<todo, op, host, main, archive, hand, torn>>
      /\ disk \in Disks /\ disk.cfg # Nothing /\ disk' = [disk EXCEPT !.cfg.model = m]
  BY DEF SetDefaultModel, PackagesInv, Typed, Served, Final
<1>2. PICK c : c = [disk.cfg EXCEPT !.model = m]
  OBVIOUS
<1>3. disk.cfg \in Configs
  BY <1>1, DiskIs
<1>4. c \in Configs /\ c.desired = disk.cfg.desired
  BY <1>2, <1>3 DEF Configs
<1>5. c # Nothing
  BY <1>4, DisksAssumption
<1>6. PICK d : d = [disk EXCEPT !.cfg = c]
  OBVIOUS
<1>7. /\ d \in Disks /\ d.cfg = c /\ d.dir = disk.dir /\ d.aside = disk.aside
      /\ d.inv = disk.inv /\ d.beside = disk.beside /\ d.journal = disk.journal
  BY <1>1, <1>4, <1>6 DEF Disks
<1>8. disk' = d
  BY <1>1, <1>2, <1>6 DEF Disks
<1> QED BY <1>1, <1>4, <1>5, <1>7, <1>8, AlikeIs

\* The host starts again after a crash.
LEMMA StartHostStep ==
    ASSUME PackagesInv, StartHost PROVE PackagesInv'
<1>1. /\ ~host /\ disk.cfg # Nothing /\ host' = TRUE
      /\ UNCHANGED <<disk, todo, op, main, archive, hand, torn>>
  BY DEF StartHost
<1>2. todo = <<>> /\ op = NoCall
  BY <1>1 DEF PackagesInv, Served, Resting
<1>3. Final' = Final /\ Final = disk
  BY <1>1, <1>2 DEF Final
<1>4. Typed' /\ Whole' /\ Served' /\ Failed'
  BY <1>1, <1>3 DEF PackagesInv, Typed, Whole, Served, Failed
<1>5. UnderWay' /\ ByHand'
  BY <1>1, <1>2, <1>3 DEF PackagesInv, UnderWay, ByHand
<1>6. Up'
  BY <1>1 DEF PackagesInv, Up
<1> QED BY <1>4, <1>5, <1>6 DEF PackagesInv

\* A backup holds a readable disk.
LEMMA BackupStep ==
    ASSUME PackagesInv, Backup PROVE PackagesInv'
<1>1. /\ todo = <<>> /\ host /\ archive' = disk
      /\ UNCHANGED <<disk, todo, op, host, main, hand, torn>>
  BY DEF Backup
<1>2. Final' = Final /\ Final = disk /\ disk.cfg # Nothing
  BY <1>1 DEF Final, PackagesInv, Served
<1>3. Typed'
  BY <1>1, <1>2 DEF PackagesInv, Typed
<1>4. Whole' /\ Served' /\ UnderWay' /\ ByHand' /\ Failed'
  BY <1>1, <1>2 DEF PackagesInv, Whole, Served, UnderWay, ByHand, Failed
<1>5. Up'
  BY <1>1 DEF PackagesInv, Up, Resting
<1> QED BY <1>3, <1>4, <1>5 DEF PackagesInv

\* What a disk shows the operator to have enabled is kept in it.
LEMMA EnabledByHandIs ==
    ASSUME NEW d \in Disks, NEW h, h = EnabledByHand(d)
    PROVE  h \subseteq Installed(d.inv) /\ h \subseteq Packages /\ Kept(d, d.cfg, h)
<1>1. \A p \in Installed(d.inv) : p \in Packages
  BY DiskIs, RecordIs
<1>2. h \subseteq Installed(d.inv)
  BY DEF EnabledByHand
<1>3. Kept(d, d.cfg, h)
  BY DEF EnabledByHand, Kept
<1> QED BY <1>1, <1>2, <1>3

\* An import brings the archive back, with what was torn in it.
LEMMA ImportStep ==
    ASSUME PackagesInv, Import PROVE PackagesInv'
<1>1. /\ op = NoCall /\ host /\ archive # Nothing /\ main' = Down
      /\ hand' = EnabledByHand(archive)
      /\ torn' = {p \in Installed(archive.inv) : archive.dir[p] # RecordOf(archive.inv, p).ver}
      /\ UNCHANGED <<disk, op, host, archive>>
  BY DEF Import, Resting
<1>2. disk \in Disks /\ archive \in Disks /\ archive.cfg # Nothing
  BY <1>1 DEF PackagesInv, Typed
<1>3. PICK none, bare :
        none = [p \in Packages |-> Nothing] /\ bare = [p \in Packages |-> {}]
  OBVIOUS
<1>4. PICK d1 : d1 = [disk EXCEPT !.dir = none, !.inv = <<>>, !.applied = {}, !.aside = none,
                                  !.journal = Nothing, !.beside = bare, !.cache = none]
  OBVIOUS
<1>5. d1 \in Disks
  <2>1. none \in [Packages -> Versions \cup {Nothing}]
        /\ bare \in [Packages -> SUBSET [at : {"backup", "staging"}, ver : Versions]]
        /\ \A p \in Packages : none[p] = Nothing
    BY <1>3
  <2>2. <<>> \in Inventories
    BY DEF Inventories
  <2> QED BY <1>2, <1>4, <2>1, <2>2 DEF Disks
<1>6. PICK d2 : d2 = [d1 EXCEPT !.cfg = Nothing]
  OBVIOUS
<1>7. PICK d3 : d3 = [d2 EXCEPT !.sec = {}]
  OBVIOUS
<1>8. PICK d4 : d4 = [d3 EXCEPT !.cfg = archive.cfg]
  OBVIOUS
<1>9. PICK d5 : d5 = [d4 EXCEPT !.sec = archive.sec]
  OBVIOUS
<1>10. d2 \in Disks /\ d3 \in Disks
  BY <1>5, <1>6, <1>7 DEF Disks
<1>11. d4 \in Disks
  BY <1>2, <1>8, <1>10 DEF Disks
<1>12. d5 \in Disks
  BY <1>2, <1>9, <1>11 DEF Disks
<1>13. todo' = <<d1, d2, d3, d4, d5, archive>>
  BY <1>3, <1>4, <1>6, <1>7, <1>8, <1>9 DEF Import
<1>14. todo' \in Seq(Disks) /\ Final' = archive
  <2>1. PICK l \in Seq(Disks) : l = <<d1, d2, d3, d4, d5, archive>> /\ Len(l) = 6 /\ l[6] = archive
    <3>1. <<d1, d2, d3, d4, d5, archive>> \in Seq(Disks)
      BY <1>2, <1>5, <1>10, <1>11, <1>12
    <3>2. Len(<<d1, d2, d3, d4, d5, archive>>) = 6
      OBVIOUS
    <3>3. <<d1, d2, d3, d4, d5, archive>>[6] = archive
      OBVIOUS
    <3> QED BY <3>1, <3>2, <3>3
  <2>2. l # <<>> /\ Last(l) = archive
    BY <2>1 DEF Last
  <2> QED BY <1>13, <2>1, <2>2 DEF Final
<1>15. Typed' /\ hand' \subseteq Installed(archive.inv) /\ Kept(archive, archive.cfg, hand')
  <2>1. hand' \subseteq Installed(archive.inv) /\ hand' \subseteq Packages
        /\ Kept(archive, archive.cfg, hand')
    BY <1>1, <1>2, EnabledByHandIs
  <2> QED BY <1>1, <1>14, <2>1 DEF PackagesInv, Typed, Down
<1>16. Whole' /\ Served'
  BY <1>1, <1>2, <1>14 DEF Whole, Served, Mismatched
<1>17. UnderWay' /\ ByHand'
  BY <1>1, <1>14, <1>15 DEF UnderWay, ByHand
<1>18. Up' /\ Failed'
  BY <1>1 DEF Up, Failed, Down
<1> QED BY <1>15, <1>16, <1>17, <1>18 DEF PackagesInv

\* What one write leaves to write ends where it did before.
LEMMA WriteStep ==
    ASSUME PackagesInv, Write PROVE PackagesInv'
<1>1. /\ todo # <<>> /\ disk' = Head(todo) /\ todo' = Tail(todo)
      /\ UNCHANGED <<op, host, main, archive, hand, torn>>
  BY DEF Write
<1>2. disk' \in Disks /\ todo' \in Seq(Disks) /\ Final' = Final
  <2>1. PICK l \in Seq(Disks) : l = todo /\ l # <<>>
    BY <1>1 DEF PackagesInv, Typed
  <2>2. PICK t \in Seq(Disks) : t = Tail(l) /\ Head(l) \in Disks
    <3>1. Tail(l) \in Seq(Disks) /\ Head(l) \in Disks
      BY <2>1
    <3> QED BY <3>1
  <2>3. Len(l) \in Nat /\ Len(l) # 0 /\ Len(t) = Len(l) - 1
    BY <2>1, <2>2
  <2>4. CASE Len(l) = 1
    <3>1. t = <<>> /\ Last(l) = Head(l)
      BY <2>1, <2>2, <2>4 DEF Last
    <3> QED BY <1>1, <2>1, <2>2, <3>1 DEF Final
  <2>5. CASE Len(l) # 1
    <3>1. t # <<>> /\ Last(t) = Last(l)
      <4>1. Len(t) # 0 /\ t[Len(t)] = l[Len(l)]
        BY <2>1, <2>2, <2>3, <2>5
      <4>2. t # <<>>
        BY <4>1
      <4> QED BY <4>1, <4>2 DEF Last
    <3> QED BY <1>1, <2>1, <2>2, <3>1 DEF Final
  <2> QED BY <2>4, <2>5
<1>3. host /\ ~Resting
  BY <1>1 DEF PackagesInv, Served, Resting
<1>4. Typed'
  BY <1>1, <1>2 DEF PackagesInv, Typed
<1>5. Whole' /\ Served' /\ UnderWay' /\ ByHand' /\ Failed'
  BY <1>1, <1>2, <1>3 DEF PackagesInv, Whole, Served, UnderWay, ByHand, Failed
<1>6. Up'
  BY <1>1, <1>3 DEF PackagesInv, Up
<1> QED BY <1>4, <1>5, <1>6 DEF PackagesInv

\* A crash leaves what is on disk, torn where a replacement was cut.
LEMMA CrashStep ==
    ASSUME PackagesInv, Crash PROVE PackagesInv'
<1>1. /\ op' = NoCall /\ todo' = <<>> /\ host' = FALSE /\ main' = Down
      /\ hand' = EnabledByHand(disk)
      /\ torn' = torn \cup Mismatched(disk) /\ disk' = disk /\ archive' = archive
  BY DEF Crash
<1>2. Final' = disk /\ disk \in Disks
  BY <1>1 DEF Final, PackagesInv, Typed
<1> DEFINE shown == EnabledByHand(disk)
<1>6. shown \subseteq Installed(disk.inv) /\ shown \subseteq Packages /\ Kept(disk, disk.cfg, shown)
  BY <1>2, EnabledByHandIs
<1>7. hand' = shown
  BY <1>1
<1> HIDE DEF shown
<1>3. Typed'
  <2>1. /\ disk' \in Disks /\ todo' \in Seq(Disks) /\ host' \in BOOLEAN /\ hand' \subseteq Packages
        /\ op' \in Calls \cup {NoCall}
    <3>1. <<>> \in Seq(Disks)
      OBVIOUS
    <3> QED BY <1>1, <1>6, <1>7, <3>1 DEF PackagesInv, Typed
  <2>2. /\ main'.st \in {"down", "up", "failed"}
        /\ main' = [st |-> main'.st, loaded |-> main'.loaded, plugins |-> main'.plugins,
                    skills |-> main'.skills, behind |-> main'.behind]
    BY <1>1 DEF Down
  <2> QED BY <1>1, <2>1, <2>2 DEF PackagesInv, Typed
<1>4. Whole' /\ Served' /\ UnderWay' /\ Up' /\ Failed'
  BY <1>1, <1>2 DEF Whole, Served, Resting, UnderWay, Up, Failed, Down
<1>5. ByHand'
  BY <1>1, <1>2, <1>6, <1>7 DEF ByHand
<1> QED BY <1>3, <1>4, <1>5 DEF PackagesInv

\* A package that no crash has torn is in its place in the version of its record, or set
\* aside in it.
LEMMA RightVersion ==
    ASSUME NEW d \in Disks, NEW p \in Installed(d.inv), p \notin Mismatched(d)
    PROVE  /\ p \in Packages /\ RecordOf(d.inv, p).ver \in Versions
           /\ \/ d.dir[p] = RecordOf(d.inv, p).ver /\ d.aside[p] = Nothing
              \/ d.dir[p] = Nothing /\ d.aside[p] = RecordOf(d.inv, p).ver
<1>1. d.inv \in Inventories
  BY DiskIs
<1>2. p \in Packages /\ RecordOf(d.inv, p).ver \in Versions
  BY <1>1, RecordIs DEF RecordType
<1>3. RecordOf(d.inv, p).ver \in {d.dir[p], d.aside[p]}
  BY DEF Mismatched
<1>4. d.aside[p] # Nothing => d.dir[p] = Nothing
  BY <1>2, DiskIs
<1> QED BY <1>2, <1>3, <1>4, SourcesAssumption

\* The copy that a loader finds first is of the version v.
LEMMA FirstIs ==
    ASSUME NEW d \in Disks, NEW p \in Packages, NEW v \in Versions,
           \/ d.dir[p] = v /\ d.aside[p] = Nothing
           \/ d.dir[p] = Nothing /\ d.aside[p] = v /\ d.beside[p] = {},
           NEW c \in First(CopiesOf(d, p))
    PROVE  c.ver = v
<1>1. v # Nothing
  BY SourcesAssumption
<1>2. CASE d.dir[p] = v /\ d.aside[p] = Nothing
  <2>1. [at |-> "place", ver |-> v] \in CopiesOf(d, p)
    BY <1>1, <1>2 DEF CopiesOf
  <2>2. {x \in CopiesOf(d, p) : x.at = "place"} # {}
    BY <2>1
  <2>3. First(CopiesOf(d, p)) = {x \in CopiesOf(d, p) : x.at = "place"}
    BY <2>2 DEF First
  <2>4. c \in CopiesOf(d, p) /\ c.at = "place"
    BY <2>3
  <2>5. \A x \in d.beside[p] : x.at # "place"
    BY DiskIs
  <2> QED BY <1>2, <2>4, <2>5 DEF CopiesOf
<1>3. CASE d.dir[p] = Nothing /\ d.aside[p] = v /\ d.beside[p] = {}
  <2>1. CopiesOf(d, p) = {[at |-> "removing", ver |-> v]}
    BY <1>1, <1>3 DEF CopiesOf
  <2>2. c \in CopiesOf(d, p)
    BY DEF First
  <2> QED BY <2>1, <2>2
<1> QED BY <1>2, <1>3

\* A plugin with nothing beside it has one copy at most.
LEMMA OneCopy ==
    ASSUME NEW d \in Disks, NEW p \in Packages, d.beside[p] = {}
    PROVE  \/ CopiesOf(d, p) = {}
           \/ \E v \in Versions : /\ CopiesOf(d, p) \in {{[at |-> "place", ver |-> v]},
                                                         {[at |-> "removing", ver |-> v]}}
                                  /\ v \in {d.dir[p], d.aside[p]}
<1>1. d.dir[p] \in Versions \cup {Nothing} /\ d.aside[p] \in Versions \cup {Nothing}
      /\ (d.aside[p] # Nothing => d.dir[p] = Nothing)
  BY DiskIs
<1>2. CASE d.dir[p] = Nothing /\ d.aside[p] = Nothing
  BY <1>2 DEF CopiesOf
<1>3. CASE d.dir[p] # Nothing
  <2>1. d.aside[p] = Nothing
    BY <1>1, <1>3
  <2>2. CopiesOf(d, p) = {[at |-> "place", ver |-> d.dir[p]]}
    BY <1>3, <2>1 DEF CopiesOf
  <2> QED BY <1>1, <1>3, <2>2
<1>4. CASE d.dir[p] = Nothing /\ d.aside[p] # Nothing
  <2>1. CopiesOf(d, p) = {[at |-> "removing", ver |-> d.aside[p]]}
    BY <1>4 DEF CopiesOf
  <2> QED BY <1>1, <1>4, <2>1
<1> QED BY <1>2, <1>3, <1>4

\* The loader of a selected kind comes upon the version of the record.
LEMMA LoadIs ==
    ASSUME NEW d \in Disks, d.cfg # Nothing, d.cfg.desired \subseteq Installed(d.inv),
           NEW kind \in Exclusive, NEW p \in Chosen(d, kind), p \notin Mismatched(d),
           ~(d.beside[p] # {} /\ d.dir[p] = Nothing),
           NEW c \in UNION {First(CopiesOf(d, q)) : q \in Chosen(d, kind)}
    PROVE  c.ver = RecordOf(d.inv, p).ver
<1>1. d.cfg \in Configs /\ p \in d.cfg.desired /\ p \in Installed(d.inv) /\ KindOf[p] = kind
  BY DiskIs DEF Chosen
<1>2. \A q \in Chosen(d, kind) : q = p
  BY <1>1 DEF Configs, Chosen
<1>3. c \in First(CopiesOf(d, p))
  BY <1>2
<1>4. PICK v : v = RecordOf(d.inv, p).ver
  OBVIOUS
<1>5. p \in Packages /\ v \in Versions
      /\ \/ d.dir[p] = v /\ d.aside[p] = Nothing
         \/ d.dir[p] = Nothing /\ d.aside[p] = v /\ d.beside[p] = {}
  BY <1>1, <1>4, RightVersion
<1> QED BY <1>3, <1>4, <1>5, FirstIs

\* A package that is selected and sound is found.
LEMMA FoundIs ==
    ASSUME NEW d \in Disks, d.cfg # Nothing, d.cfg.desired \subseteq Installed(d.inv),
           NEW kind, NEW p \in Chosen(d, kind), p \notin Mismatched(d)
    PROVE  UNION {First(CopiesOf(d, q)) : q \in Chosen(d, kind)} # {}
<1>1. p \in Installed(d.inv)
  BY DEF Chosen
<1>2. PICK v : v = RecordOf(d.inv, p).ver
  OBVIOUS
<1>3. v \in Versions /\ v # Nothing /\ (d.dir[p] = v \/ d.aside[p] = v)
  BY <1>1, <1>2, RightVersion, SourcesAssumption
<1>4. PICK c : c \in CopiesOf(d, p)
  <2>1. CASE d.dir[p] = v
    <3>1. [at |-> "place", ver |-> v] \in CopiesOf(d, p)
      BY <1>3, <2>1 DEF CopiesOf
    <3> QED BY <3>1
  <2>2. CASE d.aside[p] = v
    <3>1. [at |-> "removing", ver |-> v] \in CopiesOf(d, p)
      BY <1>3, <2>2 DEF CopiesOf
    <3> QED BY <3>1
  <2> QED BY <1>3, <2>1, <2>2
<1>5. First(CopiesOf(d, p)) # {}
  BY <1>4 DEF First
<1> QED BY <1>5

\* A worker starts with the versions of the records, or has a reason to fail.
LEMMA StartMainStep ==
    ASSUME PackagesInv, StartMain PROVE PackagesInv'
<1>1. /\ todo = <<>> /\ op = NoCall /\ host /\ main' \in Boots
      /\ Startable(disk.cfg, disk.inv, disk.applied)
      /\ UNCHANGED <<disk, todo, op, host, archive, hand, torn>>
  BY DEF StartMain, Resting
<1>2. disk \in Disks /\ disk.cfg # Nothing /\ Final = disk /\ Final' = disk
      /\ Mismatched(disk) \subseteq torn
  BY <1>1 DEF PackagesInv, Typed, Served, Whole, Final
<1>3. disk.cfg.desired \subseteq Installed(disk.inv) /\ disk.applied \subseteq Surfaces
      /\ \A k \in Exclusive : Chosen(disk, k) # {}
  BY <1>1, <1>2, DiskIs DEF Startable, Chosen
<1>4. "transport" \in Exclusive /\ "provider" \in Exclusive
  BY DEF Exclusive
<1>5. PICK plugins, skills : plugins = LoadPlugins(disk) /\ skills = SkillRoots(disk)
  OBVIOUS
<1>6. \/ /\ LoadTransport(disk) \X LoadProvider(disk) = {} \/ ActionsClash(plugins)
         /\ main' = [Down EXCEPT !.st = "failed"]
      \/ \E copies \in LoadTransport(disk) \X LoadProvider(disk) :
           main' = [st |-> "up", loaded |-> copies, plugins |-> plugins, skills |-> skills, behind |-> FALSE]
  BY <1>1, <1>5 DEF Boots, Booted, Down
<1>7. Typed'
  <2>1. /\ main'.st \in {"down", "up", "failed"}
        /\ main' = [st |-> main'.st, loaded |-> main'.loaded, plugins |-> main'.plugins,
                    skills |-> main'.skills, behind |-> main'.behind]
    BY <1>6 DEF Down
  <2> QED BY <1>1, <2>1 DEF PackagesInv, Typed
<1>8. Whole' /\ Served' /\ UnderWay' /\ ByHand'
  BY <1>1, <1>2 DEF PackagesInv, Whole, Served, UnderWay, ByHand
<1>9. DOMAIN plugins = {q \in disk.applied : KindOf[q] = "plugin"}
      /\ \A p \in DOMAIN plugins : plugins[p] = CopiesOf(disk, p) /\ p \in Packages
  BY <1>3, <1>5 DEF LoadPlugins, Surfaces
<1>10. CASE /\ LoadTransport(disk) \X LoadProvider(disk) = {} \/ ActionsClash(plugins)
            /\ main' = [Down EXCEPT !.st = "failed"]
  <2>1. torn \cup {p \in Packages \cap Acting : disk.beside[p] # {}} # {}
    <3>1. CASE ActionsClash(plugins)
      <4>1. PICK p \in DOMAIN plugins \cap Acting : Cardinality(plugins[p]) > 1
        BY <3>1 DEF ActionsClash
      <4>2. p \in Packages /\ Cardinality(CopiesOf(disk, p)) > 1
        BY <1>9, <4>1
      <4>3. disk.beside[p] # {}
        <5> SUFFICES ASSUME disk.beside[p] = {} PROVE FALSE
          OBVIOUS
        <5>1. CopiesOf(disk, p) = {} \/ \E c : CopiesOf(disk, p) = {c}
          BY <1>2, <4>2, OneCopy
        <5>2. Cardinality(CopiesOf(disk, p)) \in {0, 1}
          BY <5>1, FS_EmptySet, FS_Singleton
        <5> QED BY <4>2, <5>2
      <4> QED BY <4>1, <4>2, <4>3
    <3>2. CASE LoadTransport(disk) = {}
      <4>1. PICK p : p \in Chosen(disk, "transport")
        BY <1>3, <1>4
      <4>2. p \in Mismatched(disk)
        BY <1>2, <1>3, <3>2, <4>1, FoundIs DEF LoadTransport
      <4> QED BY <1>2, <4>2
    <3>3. CASE LoadProvider(disk) = {}
      <4>1. PICK p : p \in Chosen(disk, "provider")
        BY <1>3, <1>4
      <4>2. p \in Mismatched(disk)
        BY <1>2, <1>3, <3>3, <4>1, FoundIs DEF LoadProvider
      <4> QED BY <1>2, <4>2
    <3>4. LoadTransport(disk) = {} \/ LoadProvider(disk) = {} \/ ActionsClash(plugins)
      <4> SUFFICES ASSUME NEW a \in LoadTransport(disk), NEW b \in LoadProvider(disk)
                   PROVE  ActionsClash(plugins)
        OBVIOUS
      <4>1. <<a, b>> \in LoadTransport(disk) \X LoadProvider(disk)
        OBVIOUS
      <4> QED BY <1>10, <4>1
    <3> QED BY <3>1, <3>2, <3>3, <3>4
  <2>2. Failed' /\ Up'
    BY <1>1, <1>2, <1>10, <2>1 DEF Failed, Up, Down
  <2> QED BY <1>7, <1>8, <2>2 DEF PackagesInv
<1>11. ASSUME NEW copies \in LoadTransport(disk) \X LoadProvider(disk),
              main' = [st |-> "up", loaded |-> copies, plugins |-> plugins, skills |-> skills, behind |-> FALSE]
       PROVE  PackagesInv'
  <2>1. copies[1] \in LoadTransport(disk) /\ copies[2] \in LoadProvider(disk)
    OBVIOUS
  <2>2. PICK m : m = main'
    OBVIOUS
  <2>3. m.st = "up" /\ m.loaded = copies /\ m.plugins = plugins /\ m.skills = skills
    BY <1>11, <2>2
  <2>4. ASSUME NEW p \in Chosen(disk, "transport"), p \notin torn, ~(disk.beside[p] # {} /\ disk.dir[p] = Nothing)
        PROVE  copies[1].ver = RecordOf(disk.inv, p).ver
    BY <1>2, <1>3, <1>4, <2>1, <2>4, LoadIs DEF LoadTransport
  <2>5. ASSUME NEW p \in Chosen(disk, "provider"), p \notin torn, ~(disk.beside[p] # {} /\ disk.dir[p] = Nothing)
        PROVE  copies[2].ver = RecordOf(disk.inv, p).ver
    BY <1>2, <1>3, <1>4, <2>1, <2>5, LoadIs DEF LoadProvider
  <2>6. ASSUME NEW p \in DOMAIN plugins \cap Installed(disk.inv), p \notin torn, disk.beside[p] = {}
        PROVE  {c.ver : c \in plugins[p]} = {RecordOf(disk.inv, p).ver} /\ Cardinality(plugins[p]) = 1
    <3>1. plugins[p] = CopiesOf(disk, p) /\ p \in Packages
      BY <1>9
    <3>2. PICK v : v = RecordOf(disk.inv, p).ver
      OBVIOUS
    <3>3. /\ v \in Versions /\ v # Nothing
          /\ \/ disk.dir[p] = v /\ disk.aside[p] = Nothing
             \/ disk.dir[p] = Nothing /\ disk.aside[p] = v
      <4>1. p \in Installed(disk.inv) /\ p \notin Mismatched(disk)
        BY <1>2, <2>6
      <4> QED BY <1>2, <3>2, <4>1, RightVersion, SourcesAssumption
    <3>4. PICK c : CopiesOf(disk, p) = {c} /\ c.ver = v
      <4>1. CASE disk.dir[p] = v /\ disk.aside[p] = Nothing
        <5>1. CopiesOf(disk, p) = {[at |-> "place", ver |-> v]}
          BY <2>6, <3>3, <4>1 DEF CopiesOf
        <5>2. [at |-> "place", ver |-> v].ver = v
          OBVIOUS
        <5> QED BY <5>1, <5>2
      <4>2. CASE disk.dir[p] = Nothing /\ disk.aside[p] = v
        <5>1. CopiesOf(disk, p) = {[at |-> "removing", ver |-> v]}
          BY <2>6, <3>3, <4>2 DEF CopiesOf
        <5>2. [at |-> "removing", ver |-> v].ver = v
          OBVIOUS
        <5> QED BY <5>1, <5>2
      <4> QED BY <3>3, <4>1, <4>2
    <3>5. Cardinality({c}) = 1
      BY FS_Singleton
    <3> QED BY <3>1, <3>2, <3>4, <3>5
  <2>7. ASSUME NEW p \in skills \ ListSkills(disk, skills), p \notin torn
        PROVE  disk.aside[p] # Nothing
    <3>1. p \in Installed(disk.inv) /\ disk.dir[p] = Nothing
      BY <1>5 DEF SkillRoots, ListSkills
    <3> QED BY <1>2, <2>7, <3>1, RightVersion, SourcesAssumption
  <2>8. Fits(m, disk, torn)
    <3>1. \A p \in Chosen(disk, "transport") \cup Chosen(disk, "provider") : p \in Packages
      BY <1>2, DiskIs DEF Chosen, Configs, Surfaces
    <3>2. \A p \in DOMAIN plugins : p \in Packages
      BY <1>9
    <3> QED BY <2>3, <2>4, <2>5, <2>6, <2>7, <3>1, <3>2 DEF Fits
  <2>9. Up' /\ Failed'
    BY <1>1, <2>2, <2>3, <2>8 DEF Up, Failed, Resting
  <2> QED BY <1>7, <1>8, <2>9 DEF PackagesInv
<1> QED BY <1>6, <1>10, <1>11

-----------------------------------------------------------------------------
(* Packages: the theorems. *)

\* The invariant holds of a runtime at rest,
LEMMA InitialInv ==
    ASSUME PackagesInit PROVE PackagesInv
<1>1. /\ disk \in InitialDisks /\ todo = <<>> /\ op = NoCall /\ host = TRUE /\ main = Down
      /\ archive = Nothing /\ torn = {}
      /\ hand = EnabledByHand(disk)
  BY DEF PackagesInit
<1>2. disk \in Disks /\ disk.cfg # Nothing /\ disk.journal = Nothing /\ Tidy(disk) /\ Mismatched(disk) = {}
  BY <1>1, DisksAssumption
<1>3. Final = disk /\ <<>> \in Seq(Disks) /\ NoCall.at = "idle"
  BY <1>1 DEF Final, NoCall
<1>4. hand \subseteq Packages /\ Kept(disk, disk.cfg, hand) /\ hand \subseteq Installed(disk.inv)
  BY <1>1, <1>2, EnabledByHandIs
<1>5. Typed
  BY <1>1, <1>2, <1>3, <1>4 DEF Typed, Down
<1>6. Whole /\ Served /\ UnderWay /\ Up /\ Failed
  BY <1>1, <1>2, <1>3 DEF Whole, Served, UnderWay, Up, Failed, Down
<1>7. ByHand
  BY <1>1, <1>3, <1>4 DEF ByHand
<1> QED BY <1>5, <1>6, <1>7 DEF PackagesInv

\* and where nothing changes.
LEMMA StillInv ==
    ASSUME PackagesInv, UNCHANGED packageVars PROVE PackagesInv'
<1>1. UNCHANGED <<disk, todo, op, host, main, archive, hand, torn>>
  BY DEF packageVars
<1>2. Final' = Final
  BY <1>1 DEF Final
<1>3. Typed' /\ Whole' /\ Served' /\ UnderWay'
  BY <1>1, <1>2 DEF PackagesInv, Typed, Whole, Served, Resting, UnderWay
<1>4. ByHand' /\ Up' /\ Failed'
  BY <1>1, <1>2 DEF PackagesInv, ByHand, Up, Resting, Failed
<1> QED BY <1>3, <1>4 DEF PackagesInv

\* Every step of the calls, beside them, of the worker and of the disk keeps the invariant.
LEMMA PackagesStep ==
    ASSUME PackagesInv, [PackagesNext]_packageVars PROVE PackagesInv'
<1>1. CASE BeginInstall \/ BeginApply \/ BeginEdit
  BY <1>1, BeginInstallStep, BeginApplyStep, BeginEditStep
<1>2. CASE Located \/ Fetched \/ Resolved \/ MemberFetched
  BY <1>2, LocatedStep, FetchedStep, ResolvedStep, MemberFetchedStep
<1>3. CASE Completed \/ CompleteFails
  BY <1>3, CompletedStep
<1>4. CASE Inspect \/ Search \/ \E m \in Models : SetDefaultModel(m)
  BY <1>4, InspectStep, SearchStep, SetDefaultModelStep
<1>5. CASE StartHost \/ StartMain \/ Backup \/ Import
  BY <1>5, StartHostStep, StartMainStep, BackupStep, ImportStep
<1>6. CASE Write \/ Crash
  BY <1>6, WriteStep, CrashStep
<1>7. CASE UNCHANGED packageVars
  BY <1>7, StillInv
<1> QED BY <1>1, <1>2, <1>3, <1>4, <1>5, <1>6, <1>7 DEF PackagesNext

\* The inductive invariant holds in every reachable state.
LEMMA PackagesAlways == PackagesSpec => []PackagesInv
<1>1. PackagesInit => PackagesInv
  BY InitialInv
<1>2. PackagesInv /\ [PackagesNext]_packageVars => PackagesInv'
  BY PackagesStep
<1> QED BY <1>1, <1>2, PTL DEF PackagesSpec

\* Every record of the inventory names the version that is in its package's place, once
\* nothing is under way and nothing left to recover: whatever was installed, removed,
\* bundled or imported, and wherever the process died, but for packages whose replacement
\* a crash cut in two (packageInstaller.ts, packageOperationJournal.ts).
THEOREM RecordsStaySound == PackagesSpec => []RecordsSound
<1>1. PackagesInv => RecordsSound
  BY InvImplies
<1> QED BY <1>1, PackagesAlways, PTL

\* What the operator enabled himself stays enabled, whatever bundles that name it come
\* and go; after a crash or an import this holds of what the disk showed him to have
\* enabled (operatorPackageService.ts).
THEOREM ManualStaysOn == PackagesSpec => []ManualStays
<1>1. PackagesInv => ManualStays
  BY InvImplies
<1> QED BY <1>1, PackagesAlways, PTL

\* A worker that came up runs the versions of the inventory, each plugin once, and one
\* that failed has a package that a crash cut or an acting plugin with a copy beside it.
THEOREM WorkerRunsWhatIsSet == PackagesSpec => []WorkerHasWhatIsSet
<1>1. PackagesInv => WorkerHasWhatIsSet
  BY InvImplies
<1> QED BY <1>1, PackagesAlways, PTL

=============================================================================
