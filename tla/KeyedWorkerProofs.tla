------------------------- MODULE KeyedWorkerProofs -------------------------
(***************************************************************************)
(* Proofs about KeyedWorker for any set of keys, any finite set of pushes, *)
(* any limits and any number of drains; and, in the second half, about     *)
(* PluginWork, whose scheduler runs the jobs of packages through queues of *)
(* that kind: for any jobs, ticks, items, workers and workflows, any       *)
(* calendar and any number of calls and crashes.                           *)
(***************************************************************************)
EXTENDS KeyedWorker, PluginWork, FiniteSetTheorems, WellFoundedInduction, TLAPS

-----------------------------------------------------------------------------
(* The inductive invariant. *)

\* The list of a key holds its pending jobs, each once.
Listed ==
    /\ \A k \in Keys : \A n \in 1..Len(enqueuedAtByKey[k]) :
           /\ KeyOf[enqueuedAtByKey[k][n]] = k
           /\ phase[enqueuedAtByKey[k][n]] \in Pending
    /\ \A j \in PendingJobs : \E n \in 1..Len(enqueuedAtByKey[KeyOf[j]]) :
           enqueuedAtByKey[KeyOf[j]][n] = j
    /\ \A k \in Keys : \A m, n \in 1..Len(enqueuedAtByKey[k]) :
           enqueuedAtByKey[k][m] = enqueuedAtByKey[k][n] => m = n

\* Only the oldest one has been started, each later one is chained on the one
\* before it, and the tail of the key is the youngest.
Chained ==
    \A k \in Keys :
        /\ \A n \in 2..Len(enqueuedAtByKey[k]) :
               /\ phase[enqueuedAtByKey[k][n]] = "queued"
               /\ previous[enqueuedAtByKey[k][n]] = enqueuedAtByKey[k][n-1]
        /\ tails[k] = IF Len(enqueuedAtByKey[k]) = 0 THEN NoJob
                      ELSE enqueuedAtByKey[k][Len(enqueuedAtByKey[k])]

Counted ==
    /\ \A k \in Keys : pendingByKey[k] = Len(enqueuedAtByKey[k])
    /\ ExactCounters

\* What a waiting drain has yet to see lies no later in its list than one of
\* the promises it awaits.
Covered(d) ==
    \A j \in accepted[d] :
        \/ phase[j] = "done"
        \/ \E m, n \in 1..Len(enqueuedAtByKey[KeyOf[j]]) :
               /\ m <= n
               /\ enqueuedAtByKey[KeyOf[j]][m] = j
               /\ enqueuedAtByKey[KeyOf[j]][n] \in snapshot[d]

DrainInv == /\ \A d \in Drains : drain[d] = "waiting" => Covered(d)
            /\ DrainSeesAll

QueueInv == TypeOK /\ Listed /\ Chained
IInv == QueueInv /\ Counted /\ DrainInv

-----------------------------------------------------------------------------
(* Steps of the queue. *)

\* A list that is not empty has one job or several.
LEMMA OneOrMore == ASSUME NEW n \in Nat, n >= 1 PROVE n = 1 \/ n > 1
OBVIOUS

\* No work has been pushed: the lists are empty and there are no tails.
LEMMA InitQueue == Init => QueueInv
BY JobsAssumption DEF Init, QueueInv, TypeOK, Listed, Chained, PendingJobs, Pending, Phases

\* A job that has been started heads the list of its key.
LEMMA StartedIsOldest ==
    ASSUME QueueInv, NEW j \in Jobs, phase[j] \in {"running", "finished"}
    PROVE  /\ enqueuedAtByKey[KeyOf[j]] # << >>
           /\ enqueuedAtByKey[KeyOf[j]][1] = j
<1>1. PICK n \in 1..Len(enqueuedAtByKey[KeyOf[j]]) : enqueuedAtByKey[KeyOf[j]][n] = j
  BY DEF QueueInv, Listed, PendingJobs, Pending
<1>2. n = 1
  <2> SUFFICES ASSUME n # 1 PROVE FALSE
    OBVIOUS
  <2>1. n \in 2..Len(enqueuedAtByKey[KeyOf[j]]) /\ KeyOf[j] \in Keys
    BY KeysAssumption DEF QueueInv, TypeOK
  <2> QED BY <1>1, <2>1 DEF QueueInv, Chained
<1> QED BY <1>1, <1>2, KeysAssumption DEF QueueInv, TypeOK

\* Work is started only at the head of its list.
LEMMA StartedOnlyOldest ==
    ASSUME QueueInv, NEW j \in Jobs, phase[j] = "queued", PreviousSettled(j)
    PROVE  /\ enqueuedAtByKey[KeyOf[j]] # << >>
           /\ enqueuedAtByKey[KeyOf[j]][1] = j
<1> DEFINE q == enqueuedAtByKey[KeyOf[j]]
<1>0. KeyOf[j] \in Keys /\ q \in Seq(Jobs)
  BY KeysAssumption DEF QueueInv, TypeOK
<1>1. PICK n \in 1..Len(q) : q[n] = j
  BY DEF QueueInv, Listed, PendingJobs, Pending
<1>2. n = 1
  <2> SUFFICES ASSUME n \in 2..Len(q) PROVE FALSE
    BY <1>0
  <2>1. previous[j] = q[n-1] /\ n-1 \in 1..Len(q)
    BY <1>0, <1>1 DEF QueueInv, Chained
  <2>2. phase[q[n-1]] \in Pending /\ q[n-1] \in Jobs
    BY <1>0, <2>1 DEF QueueInv, Listed
  <2> QED BY <2>1, <2>2, JobsAssumption DEF PreviousSettled, Pending
<1> QED BY <1>0, <1>1, <1>2

\* push appends the job to the list of its key, chains it on the job that was
\* last, and makes it the tail.
LEMMA PushKeepsQueue ==
    ASSUME QueueInv, NEW j \in Jobs, Push(j)
    PROVE  QueueInv'
<1> DEFINE k == KeyOf[j]
           q == enqueuedAtByKey[k]
<1>1. k \in Keys /\ q \in Seq(Jobs)
  BY KeysAssumption DEF QueueInv, TypeOK
<1>2. TypeOK'
  BY <1>1 DEF QueueInv, TypeOK, Push, ChainedOn, Phases
<1>3. /\ enqueuedAtByKey' = [enqueuedAtByKey EXCEPT ![k] = Append(q, j)]
      /\ Len(enqueuedAtByKey'[k]) = Len(q) + 1
      /\ enqueuedAtByKey'[k][Len(q) + 1] = j
      /\ \A n \in 1..Len(q) : enqueuedAtByKey'[k][n] = q[n]
      /\ \A i \in Keys \ {k} : enqueuedAtByKey'[i] = enqueuedAtByKey[i]
  BY <1>1 DEF QueueInv, TypeOK, Push
<1>4. phase' = [phase EXCEPT ![j] = "queued"] /\ phase[j] = "new"
  BY DEF Push
<1>5. /\ \A i \in Keys : \A n \in 1..Len(enqueuedAtByKey[i]) :
            enqueuedAtByKey[i][n] \in Jobs \ {j}
      /\ \A i \in Jobs \ {j} : phase'[i] = phase[i]
      /\ phase'[j] = "queued"
  <2>1. ASSUME NEW i \in Keys, NEW n \in 1..Len(enqueuedAtByKey[i])
        PROVE  enqueuedAtByKey[i][n] \in Jobs \ {j}
    <3>1. enqueuedAtByKey[i][n] \in Jobs
      BY DEF QueueInv, TypeOK
    <3>2. phase[enqueuedAtByKey[i][n]] \in Pending
      BY DEF QueueInv, Listed
    <3> QED BY <3>1, <3>2, <1>4 DEF Pending
  <2>2. phase \in [Jobs -> Phases]
    BY DEF QueueInv, TypeOK
  <2>3. phase'[j] = "queued" /\ \A i \in Jobs \ {j} : phase'[i] = phase[i]
    BY <2>2, <1>4
  <2> QED BY <2>1, <2>3
<1>6. Listed'
  <2>1. \A i \in Keys : \A n \in 1..Len(enqueuedAtByKey'[i]) :
            /\ KeyOf[enqueuedAtByKey'[i][n]] = i
            /\ phase'[enqueuedAtByKey'[i][n]] \in Pending
    <3> SUFFICES ASSUME NEW i \in Keys, NEW n \in 1..Len(enqueuedAtByKey'[i])
                 PROVE  /\ KeyOf[enqueuedAtByKey'[i][n]] = i
                        /\ phase'[enqueuedAtByKey'[i][n]] \in Pending
      OBVIOUS
    <3>1. CASE i = k /\ n = Len(q) + 1
      BY <3>1, <1>3, <1>5 DEF Pending
    <3>2. CASE ~(i = k /\ n = Len(q) + 1)
      <4>1. n \in 1..Len(enqueuedAtByKey[i]) /\ enqueuedAtByKey'[i][n] = enqueuedAtByKey[i][n]
        BY <3>2, <1>1, <1>3
      <4> QED BY <4>1, <1>5 DEF QueueInv, Listed
    <3> QED BY <3>1, <3>2
  <2>2. \A i \in PendingJobs' : \E n \in 1..Len(enqueuedAtByKey'[KeyOf[i]]) :
            enqueuedAtByKey'[KeyOf[i]][n] = i
    <3> SUFFICES ASSUME NEW i \in PendingJobs'
                 PROVE  \E n \in 1..Len(enqueuedAtByKey'[KeyOf[i]]) :
                            enqueuedAtByKey'[KeyOf[i]][n] = i
      OBVIOUS
    <3>1. CASE i = j
      BY <3>1, <1>1, <1>3
    <3>2. CASE i # j
      <4>1. i \in PendingJobs /\ KeyOf[i] \in Keys
        BY <3>2, <1>5, KeysAssumption DEF PendingJobs
      <4>2. PICK n \in 1..Len(enqueuedAtByKey[KeyOf[i]]) : enqueuedAtByKey[KeyOf[i]][n] = i
        BY <4>1 DEF QueueInv, Listed
      <4> QED BY <4>1, <4>2, <1>1, <1>3
    <3> QED BY <3>1, <3>2
  <2>3. \A i \in Keys : \A m, n \in 1..Len(enqueuedAtByKey'[i]) :
            enqueuedAtByKey'[i][m] = enqueuedAtByKey'[i][n] => m = n
    BY <1>1, <1>3, <1>5 DEF QueueInv, Listed
  <2> QED BY <2>1, <2>2, <2>3 DEF Listed
<1>7. Chained'
  <2> SUFFICES ASSUME NEW i \in Keys
               PROVE  /\ \A n \in 2..Len(enqueuedAtByKey'[i]) :
                            /\ phase'[enqueuedAtByKey'[i][n]] = "queued"
                            /\ previous'[enqueuedAtByKey'[i][n]] = enqueuedAtByKey'[i][n-1]
                      /\ tails'[i] = IF Len(enqueuedAtByKey'[i]) = 0 THEN NoJob
                                     ELSE enqueuedAtByKey'[i][Len(enqueuedAtByKey'[i])]
    BY DEF Chained
  <2>1. /\ previous' = [previous EXCEPT ![j] = tails[k]]
        /\ tails' = [tails EXCEPT ![k] = j]
    BY DEF Push, ChainedOn
  <2>2. CASE i = k
    <3>1. tails'[k] = enqueuedAtByKey'[k][Len(enqueuedAtByKey'[k])] /\ Len(enqueuedAtByKey'[k]) # 0
      <4>1. tails \in [Keys -> Jobs \cup {NoJob}] /\ Len(q) \in Nat
        BY <1>1 DEF QueueInv, TypeOK
      <4>2. tails'[k] = j
        BY <4>1, <2>1, <1>1
      <4>3. Len(enqueuedAtByKey'[k]) # 0
        BY <4>1, <1>3
      <4> QED BY <4>2, <4>3, <1>3
    <3>2. ASSUME NEW n \in 2..Len(q)
          PROVE  /\ phase'[enqueuedAtByKey'[k][n]] = "queued"
                 /\ previous'[enqueuedAtByKey'[k][n]] = enqueuedAtByKey'[k][n-1]
      <4>1. n \in 1..Len(q) /\ n-1 \in 1..Len(q) /\ q[n] \in Jobs \ {j}
        BY <1>1, <1>5
      <4>2. phase[q[n]] = "queued" /\ previous[q[n]] = q[n-1]
        BY <1>1 DEF QueueInv, Chained
      <4> QED BY <4>1, <4>2, <1>3, <1>5, <2>1 DEF QueueInv, TypeOK
    <3>3. ASSUME Len(q) + 1 \in 2..Len(enqueuedAtByKey'[k])
          PROVE  previous'[j] = enqueuedAtByKey'[k][Len(q)]
      BY <3>3, <2>1, <1>1, <1>3 DEF QueueInv, TypeOK, Chained
    <3>4. \A n \in 2..Len(enqueuedAtByKey'[k]) : n \in 2..Len(q) \/ n = Len(q) + 1
      BY <1>1, <1>3
    <3>5. ASSUME NEW n \in 2..Len(enqueuedAtByKey'[k])
          PROVE  /\ phase'[enqueuedAtByKey'[k][n]] = "queued"
                 /\ previous'[enqueuedAtByKey'[k][n]] = enqueuedAtByKey'[k][n-1]
      <4>1. CASE n \in 2..Len(q)
        BY <4>1, <3>2
      <4>2. CASE n = Len(q) + 1
        <5>1. n - 1 = Len(q) /\ enqueuedAtByKey'[k][n] = j
          BY <4>2, <1>1, <1>3
        <5>2. previous'[j] = enqueuedAtByKey'[k][Len(q)]
          BY <4>2, <3>3
        <5> QED BY <5>1, <5>2, <1>5
      <4> QED BY <4>1, <4>2, <3>4
    <3>6. tails'[k] = IF Len(enqueuedAtByKey'[k]) = 0 THEN NoJob
                      ELSE enqueuedAtByKey'[k][Len(enqueuedAtByKey'[k])]
      BY <3>1
    <3> HIDE DEF k, q
    <3> QED BY <2>2, <3>5, <3>6
  <2>3. CASE i # k
    <3>1. enqueuedAtByKey'[i] = enqueuedAtByKey[i] /\ tails'[i] = tails[i]
      BY <2>1, <2>3, <1>3 DEF QueueInv, TypeOK
    <3>2. \A n \in 2..Len(enqueuedAtByKey[i]) : enqueuedAtByKey[i][n] \in Jobs \ {j}
      BY <1>5 DEF QueueInv, TypeOK
    <3> QED BY <3>1, <3>2, <2>1, <1>5 DEF QueueInv, TypeOK, Chained
  <2> QED BY <2>2, <2>3
<1> QED BY <1>2, <1>6, <1>7 DEF QueueInv

\* Start, Finish and Reject move one job without touching the lists.
LEMMA PhaseKeepsQueue ==
    ASSUME QueueInv, NEW j \in Jobs, NEW p \in Phases,
           phase' = [phase EXCEPT ![j] = p],
           phase[j] \in Pending <=> p \in Pending,
           p # "queued" => \A n \in 2..Len(enqueuedAtByKey[KeyOf[j]]) :
                               enqueuedAtByKey[KeyOf[j]][n] # j,
           UNCHANGED <<tails, pendingByKey, pendingTotal, enqueuedAtByKey, previous,
                       drain, snapshot, accepted>>
    PROVE  QueueInv'
<1>1. phase \in [Jobs -> Phases]
  BY DEF QueueInv, TypeOK
<1>2. phase'[j] = p /\ \A i \in Jobs \ {j} : phase'[i] = phase[i]
  BY <1>1
<1>3. TypeOK'
  BY <1>1 DEF QueueInv, TypeOK
<1>4. \A i \in Jobs : phase'[i] \in Pending <=> phase[i] \in Pending
  BY <1>2
<1>5. Listed'
  <2>1. \A k \in Keys : \A n \in 1..Len(enqueuedAtByKey[k]) : enqueuedAtByKey[k][n] \in Jobs
    BY DEF QueueInv, TypeOK
  <2> QED BY <2>1, <1>4 DEF QueueInv, Listed, PendingJobs
<1>6. Chained'
  <2> SUFFICES ASSUME NEW k \in Keys, NEW n \in 2..Len(enqueuedAtByKey[k])
               PROVE  phase'[enqueuedAtByKey[k][n]] = "queued"
    BY DEF QueueInv, Chained
  <2>1. n \in 1..Len(enqueuedAtByKey[k]) /\ enqueuedAtByKey[k][n] \in Jobs
    BY DEF QueueInv, TypeOK
  <2>2. phase[enqueuedAtByKey[k][n]] = "queued" /\ KeyOf[enqueuedAtByKey[k][n]] = k
    BY <2>1 DEF QueueInv, Chained, Listed
  <2>3. enqueuedAtByKey[k][n] = j => p = "queued"
    BY <2>2
  <2> QED BY <2>1, <2>2, <2>3, <1>2
<1> QED BY <1>3, <1>5, <1>6 DEF QueueInv

\* The job that starts heads its list, so the later ones stay queued.
LEMMA StartKeepsQueue ==
    ASSUME QueueInv, NEW j \in Jobs, Start(j)
    PROVE  QueueInv'
<1>1. phase[j] = "queued" /\ PreviousSettled(j) /\ KeyOf[j] \in Keys
  BY KeysAssumption DEF Start
<1>2. enqueuedAtByKey[KeyOf[j]][1] = j
  BY <1>1, StartedOnlyOldest
<1>3. \A n \in 2..Len(enqueuedAtByKey[KeyOf[j]]) : enqueuedAtByKey[KeyOf[j]][n] # j
  <2>1. \A n \in 2..Len(enqueuedAtByKey[KeyOf[j]]) :
           n \in 1..Len(enqueuedAtByKey[KeyOf[j]]) /\ 1 \in 1..Len(enqueuedAtByKey[KeyOf[j]]) /\ n # 1
    BY <1>1 DEF QueueInv, TypeOK
  <2> QED BY <1>1, <1>2, <2>1 DEF QueueInv, Listed
<1> QED BY <1>1, <1>3, PhaseKeepsQueue DEF Start, Phases, Pending

\* The job that finishes heads its list and stays there until its cleanup.
LEMMA FinishKeepsQueue ==
    ASSUME QueueInv, NEW j \in Jobs, Finish(j)
    PROVE  QueueInv'
<1>1. phase[j] = "running" /\ KeyOf[j] \in Keys
  BY KeysAssumption DEF Finish
<1>2. \A n \in 2..Len(enqueuedAtByKey[KeyOf[j]]) : enqueuedAtByKey[KeyOf[j]][n] # j
  BY <1>1 DEF QueueInv, Chained
<1> QED BY <1>1, <1>2, PhaseKeepsQueue DEF Finish, Phases, Pending

\* A refused job was in no list and enters none.
LEMMA RejectKeepsQueue ==
    ASSUME QueueInv, NEW j \in Jobs, Reject(j)
    PROVE  QueueInv'
<1>1. phase[j] = "new" /\ KeyOf[j] \in Keys
  BY KeysAssumption DEF Reject
<1>2. \A n \in 2..Len(enqueuedAtByKey[KeyOf[j]]) : enqueuedAtByKey[KeyOf[j]][n] # j
  BY <1>1 DEF QueueInv, Chained
<1> QED BY <1>1, <1>2, PhaseKeepsQueue DEF Reject, Phases, Pending

\* settled.finally takes the oldest entry of the list, which is the entry of its
\* own job, and the tail only when the list is empty afterwards.
LEMMA CleanupKeepsQueue ==
    ASSUME QueueInv, NEW j \in Jobs, Cleanup(j)
    PROVE  QueueInv'
<1> DEFINE k == KeyOf[j]
           q == enqueuedAtByKey[k]
           q2 == enqueuedAtByKey'[k]
<1>1. k \in Keys /\ q \in Seq(Jobs) /\ phase[j] = "finished"
  BY KeysAssumption DEF QueueInv, TypeOK, Cleanup
<1>2. q # << >> /\ q[1] = j
  BY <1>1, StartedIsOldest
<1>3. /\ q2 = Tail(q) /\ q2 \in Seq(Jobs)
      /\ Len(q) \in Nat /\ Len(q) >= 1 /\ Len(q2) = Len(q) - 1
      /\ \A n \in 1..Len(q2) : q2[n] = q[n + 1]
      /\ \A i \in Keys \ {k} : enqueuedAtByKey'[i] = enqueuedAtByKey[i]
  BY <1>1, <1>2 DEF QueueInv, TypeOK, Cleanup
<1>4. phase'[j] = "done" /\ \A i \in Jobs \ {j} : phase'[i] = phase[i]
  BY DEF Cleanup, QueueInv, TypeOK
<1>5. TypeOK'
  <2>1. CountAfter(k) \in Nat /\ TotalAfter(k) \in Nat /\ TailAfter(j) \in Jobs \cup {NoJob}
    BY <1>1 DEF QueueInv, TypeOK, CountAfter, TotalAfter, TailAfter
  <2>2. enqueuedAtByKey' \in [Keys -> Seq(Jobs)]
    BY <1>1, <1>2 DEF QueueInv, TypeOK, Cleanup
  <2> QED BY <2>1, <2>2 DEF QueueInv, TypeOK, Cleanup, Phases
<1>6. \A i \in Keys : \A n \in 1..Len(enqueuedAtByKey'[i]) :
          /\ enqueuedAtByKey'[i][n] \in Jobs \ {j}
          /\ KeyOf[enqueuedAtByKey'[i][n]] = i
          /\ phase[enqueuedAtByKey'[i][n]] \in Pending
  <2> SUFFICES ASSUME NEW i \in Keys, NEW n \in 1..Len(enqueuedAtByKey'[i])
               PROVE  /\ enqueuedAtByKey'[i][n] \in Jobs \ {j}
                      /\ KeyOf[enqueuedAtByKey'[i][n]] = i
                      /\ phase[enqueuedAtByKey'[i][n]] \in Pending
    OBVIOUS
  <2>1. CASE i = k
    <3>1. n + 1 \in 1..Len(q) /\ 1 \in 1..Len(q) /\ n + 1 # 1 /\ q2[n] = q[n + 1]
      BY <2>1, <1>3
    <3>2. q[n + 1] # j /\ KeyOf[q[n + 1]] = k /\ phase[q[n + 1]] \in Pending
      BY <3>1, <1>1, <1>2 DEF QueueInv, Listed
    <3> QED BY <2>1, <3>1, <3>2, <1>1
  <2>2. CASE i # k
    <3>1. enqueuedAtByKey'[i] = enqueuedAtByKey[i] /\ enqueuedAtByKey[i] \in Seq(Jobs)
      BY <2>2, <1>3 DEF QueueInv, TypeOK
    <3> QED BY <2>2, <3>1 DEF QueueInv, Listed
  <2> QED BY <2>1, <2>2
<1>7. Listed'
  <2>1. \A i \in Keys : \A n \in 1..Len(enqueuedAtByKey'[i]) :
            KeyOf[enqueuedAtByKey'[i][n]] = i /\ phase'[enqueuedAtByKey'[i][n]] \in Pending
    BY <1>4, <1>6
  <2>2. ASSUME NEW i \in PendingJobs'
        PROVE  \E n \in 1..Len(enqueuedAtByKey'[KeyOf[i]]) : enqueuedAtByKey'[KeyOf[i]][n] = i
    <3>1. i \in PendingJobs \ {j} /\ KeyOf[i] \in Keys
      BY <1>4, KeysAssumption DEF PendingJobs, Pending
    <3>2. PICK n \in 1..Len(enqueuedAtByKey[KeyOf[i]]) : enqueuedAtByKey[KeyOf[i]][n] = i
      BY <3>1 DEF QueueInv, Listed
    <3>3. CASE KeyOf[i] = k
      <4>1. n # 1
        BY <3>1, <3>2, <3>3, <1>2
      <4>2. n - 1 \in 1..Len(q2) /\ (n - 1) + 1 = n
        BY <3>2, <3>3, <4>1, <1>3
      <4> QED BY <3>2, <3>3, <4>2, <1>3
    <3>4. CASE KeyOf[i] # k
      BY <3>1, <3>2, <3>4, <1>3
    <3> QED BY <3>3, <3>4
  <2>3. ASSUME NEW i \in Keys, NEW m \in 1..Len(enqueuedAtByKey'[i]),
               NEW n \in 1..Len(enqueuedAtByKey'[i]),
               enqueuedAtByKey'[i][m] = enqueuedAtByKey'[i][n]
        PROVE  m = n
    <3>1. CASE i = k
      <4>1. m + 1 \in 1..Len(q) /\ n + 1 \in 1..Len(q) /\ q[m + 1] = q[n + 1]
        BY <2>3, <3>1, <1>3
      <4>2. m + 1 = n + 1
        BY <4>1, <1>1 DEF QueueInv, Listed
      <4> QED BY <4>2
    <3>2. CASE i # k
      BY <2>3, <3>2, <1>3 DEF QueueInv, Listed
    <3> QED BY <3>1, <3>2
  <2> QED BY <2>1, <2>2, <2>3 DEF Listed
<1>8. Chained'
  <2>1. previous' = previous /\ tails' = [tails EXCEPT ![k] = IF tails[k] = j THEN NoJob ELSE tails[k]]
    BY DEF Cleanup, TailAfter
  <2>2. ASSUME NEW i \in Keys, NEW n \in 2..Len(enqueuedAtByKey'[i])
        PROVE  /\ phase'[enqueuedAtByKey'[i][n]] = "queued"
               /\ previous'[enqueuedAtByKey'[i][n]] = enqueuedAtByKey'[i][n-1]
    <3>1. n \in 1..Len(enqueuedAtByKey'[i])
      BY <1>5 DEF TypeOK
    <3>2. enqueuedAtByKey'[i][n] \in Jobs \ {j}
      BY <3>1, <1>6
    <3>3. CASE i = k
      <4>1. /\ n + 1 \in 2..Len(q) /\ q2[n] = q[n + 1]
            /\ n - 1 \in 1..Len(q2) /\ q2[n - 1] = q[(n - 1) + 1]
            /\ (n - 1) + 1 = (n + 1) - 1
        <5>1. n \in 2..Len(q2) /\ Len(q) \in Nat /\ Len(q2) = Len(q) - 1
          BY <3>3, <1>3
        <5>2. \A m \in 1..Len(q2) : q2[m] = q[m + 1]
          BY <1>3
        <5> HIDE DEF q, q2
        <5>3. n \in Int /\ n \in 1..Len(q2) /\ n - 1 \in 1..Len(q2) /\ n + 1 \in 2..Len(q)
          BY <5>1
        <5> QED BY <5>2, <5>3
      <4>2. phase[q[n + 1]] = "queued" /\ previous[q[n + 1]] = q[(n + 1) - 1]
        BY <4>1, <1>1 DEF QueueInv, Chained
      <4>3. phase'[q2[n]] = "queued" /\ previous'[q2[n]] = q2[n - 1]
        <5>1. q2[n] \in Jobs \ {j}
          BY <3>2, <3>3
        <5>2. phase'[q2[n]] = phase[q2[n]]
          BY <5>1, <1>4
        <5> QED BY <5>2, <4>1, <4>2, <2>1
      <4> QED BY <3>3, <4>3
    <3>4. CASE i # k
      <4>1. enqueuedAtByKey'[i] = enqueuedAtByKey[i]
        BY <3>4, <1>3
      <4>2. /\ phase[enqueuedAtByKey[i][n]] = "queued"
            /\ previous[enqueuedAtByKey[i][n]] = enqueuedAtByKey[i][n-1]
        BY <4>1 DEF QueueInv, Chained
      <4> QED BY <3>2, <4>1, <4>2, <1>4, <2>1
    <3> QED BY <3>3, <3>4
  <2>3. ASSUME NEW i \in Keys
        PROVE  tails'[i] = IF Len(enqueuedAtByKey'[i]) = 0 THEN NoJob
                           ELSE enqueuedAtByKey'[i][Len(enqueuedAtByKey'[i])]
    <3>1. tails[i] = IF Len(enqueuedAtByKey[i]) = 0 THEN NoJob
                     ELSE enqueuedAtByKey[i][Len(enqueuedAtByKey[i])]
      BY DEF QueueInv, Chained
    <3>2. tails \in [Keys -> Jobs \cup {NoJob}]
      BY DEF QueueInv, TypeOK
    <3>3. CASE i = k
      <4>1. tails[k] = q[Len(q)] /\ tails'[k] = IF tails[k] = j THEN NoJob ELSE tails[k]
        BY <3>1, <3>2, <3>3, <2>1, <1>3
      <4>2. CASE Len(q) = 1
        <5>1. Len(q2) = 0 /\ tails[k] = j
          BY <4>1, <4>2, <1>2, <1>3
        <5> QED BY <3>3, <4>1, <5>1
      <4>3. CASE Len(q) > 1
        <5>1. Len(q2) \in 1..Len(q2) /\ Len(q2) # 0 /\ q2[Len(q2)] = q[Len(q2) + 1] /\ Len(q2) + 1 = Len(q)
          <6>1. Len(q) \in Nat /\ Len(q) > 1 /\ Len(q2) = Len(q) - 1
            BY <4>3, <1>3
          <6>2. Len(q2) \in 1..Len(q2) /\ Len(q2) > 0 /\ Len(q2) + 1 = Len(q)
            BY <6>1
          <6> QED BY <6>2, <1>3
        <5>2. q2[Len(q2)] # j
          BY <5>1, <1>1, <1>6
        <5> QED BY <3>3, <4>1, <5>1, <5>2
      <4>4. Len(q) = 1 \/ Len(q) > 1
        BY <1>3, OneOrMore, Zenon
      <4> QED BY <4>2, <4>3, <4>4
    <3>4. CASE i # k
      BY <3>1, <3>2, <3>4, <2>1, <1>3
    <3> QED BY <3>3, <3>4
  <2> QED BY <2>2, <2>3 DEF Chained
<1> QED BY <1>5, <1>7, <1>8 DEF QueueInv

\* Calling drain and returning from it change no list.
LEMMA DrainKeepsQueue ==
    ASSUME QueueInv, NEW d \in Drains, DrainCall(d) \/ DrainReturn(d)
    PROVE  QueueInv'
<1>1. TypeOK'
  <2>1. CASE DrainCall(d)
    <3>1. {tails[k] : k \in Keys} \ {NoJob} \in SUBSET Jobs /\ PendingJobs \in SUBSET Jobs
      BY DEF QueueInv, TypeOK, PendingJobs
    <3> QED BY <2>1, <3>1 DEF QueueInv, TypeOK, DrainCall
  <2>2. CASE DrainReturn(d)
    BY <2>2 DEF QueueInv, TypeOK, DrainReturn
  <2> QED BY <2>1, <2>2
<1>2. UNCHANGED <<enqueuedAtByKey, phase, previous, tails>>
  BY DEF DrainCall, DrainReturn
<1> QED BY <1>1, <1>2 DEF QueueInv, Listed, Chained, PendingJobs

\* Nor does a step of something else.
LEMMA StutterKeepsQueue == QueueInv /\ UNCHANGED vars => QueueInv'
BY DEF QueueInv, TypeOK, Listed, Chained, PendingJobs, vars

\* The lists, chains and tails stay as described under every step.
LEMMA NextKeepsQueue == QueueInv /\ [Next]_vars => QueueInv'
<1> SUFFICES ASSUME QueueInv, [Next]_vars PROVE QueueInv'
  OBVIOUS
<1>1. ASSUME NEW j \in Jobs, Reject(j) PROVE QueueInv'
  BY <1>1, RejectKeepsQueue
<1>2. ASSUME NEW j \in Jobs, Push(j) PROVE QueueInv'
  BY <1>2, PushKeepsQueue
<1>3. ASSUME NEW j \in Jobs, Start(j) PROVE QueueInv'
  BY <1>3, StartKeepsQueue
<1>4. ASSUME NEW j \in Jobs, Finish(j) PROVE QueueInv'
  BY <1>4, FinishKeepsQueue
<1>5. ASSUME NEW j \in Jobs, Cleanup(j) PROVE QueueInv'
  BY <1>5, CleanupKeepsQueue
<1>6. ASSUME NEW d \in Drains, DrainCall(d) \/ DrainReturn(d) PROVE QueueInv'
  BY <1>6, DrainKeepsQueue
<1>7. CASE UNCHANGED vars
  BY <1>7, StutterKeepsQueue
<1> QED BY <1>1, <1>2, <1>3, <1>4, <1>5, <1>6, <1>7 DEF Next

-----------------------------------------------------------------------------
(* The counters. *)

\* Only finitely many jobs are pending, so they can be counted.
LEMMA PendingFinite ==
    /\ IsFiniteSet(PendingJobs)
    /\ \A k \in Keys : IsFiniteSet(PendingOf(k))
    /\ IsFiniteSet(PendingJobs') /\ \A k \in Keys : IsFiniteSet(PendingOf(k)')
<1>1. PendingJobs \in SUBSET Jobs /\ \A k \in Keys : PendingOf(k) \in SUBSET Jobs
  BY DEF PendingJobs, PendingOf
<1>2. PendingJobs' \in SUBSET Jobs /\ \A k \in Keys : PendingOf(k)' \in SUBSET Jobs
  BY DEF PendingJobs, PendingOf
<1> QED BY <1>1, <1>2, JobsAssumption, FS_Subset

\* A step that neither adds to nor takes from the pending work keeps the count.
LEMMA SamePendingKeepsCount ==
    ASSUME QueueInv, Counted, UNCHANGED <<pendingByKey, pendingTotal, enqueuedAtByKey>>,
           PendingJobs' = PendingJobs
    PROVE  Counted'
BY DEF Counted, ExactCounters, PendingOf

\* push counts the one job it makes pending, under its key and in the total.
LEMMA PushKeepsCount ==
    ASSUME QueueInv, Counted, NEW j \in Jobs, Push(j)
    PROVE  Counted'
<1> DEFINE k == KeyOf[j]
<1>1. /\ k \in Keys /\ phase \in [Jobs -> Phases] /\ pendingTotal \in Nat
      /\ pendingByKey \in [Keys -> Nat] /\ enqueuedAtByKey \in [Keys -> Seq(Jobs)]
  BY KeysAssumption DEF QueueInv, TypeOK
<1>2. PendingJobs' = PendingJobs \cup {j} /\ j \notin PendingJobs
  BY <1>1 DEF Push, PendingJobs, Pending
<1>3. PendingOf(k)' = PendingOf(k) \cup {j} /\ j \notin PendingOf(k)
  BY <1>2 DEF PendingOf
<1>4. \A i \in Keys \ {k} : PendingOf(i)' = PendingOf(i)
  BY <1>2 DEF PendingOf
<1>5. Cardinality(PendingJobs') = Cardinality(PendingJobs) + 1
  <2>1. IsFiniteSet(PendingJobs)
    BY PendingFinite
  <2>2. Cardinality(PendingJobs \cup {j}) = Cardinality(PendingJobs) + 1
    BY <1>2, <2>1, FS_AddElement
  <2> QED BY <1>2, <2>2
<1>6. Cardinality(PendingOf(k)') = Cardinality(PendingOf(k)) + 1
  <2>1. IsFiniteSet(PendingOf(k))
    BY <1>1, PendingFinite
  <2>2. Cardinality(PendingOf(k) \cup {j}) = Cardinality(PendingOf(k)) + 1
    BY <1>3, <2>1, FS_AddElement
  <2> QED BY <1>3, <2>2
<1>7. ASSUME NEW i \in Keys
      PROVE  pendingByKey'[i] = Len(enqueuedAtByKey'[i]) /\ pendingByKey'[i] = Cardinality(PendingOf(i)')
  <2>1. CASE i = k
    BY <2>1, <1>1, <1>6 DEF Push, Counted, ExactCounters
  <2>2. CASE i # k
    BY <2>2, <1>1, <1>4 DEF Push, Counted, ExactCounters
  <2> QED BY <2>1, <2>2
<1>8. pendingTotal' = Cardinality(PendingJobs')
  BY <1>5 DEF Push, Counted, ExactCounters
<1> QED BY <1>7, <1>8 DEF Counted, ExactCounters

\* settled.finally counts off the one job that is done; the tests for zero in
\* the code never fire with work pending.
LEMMA CleanupKeepsCount ==
    ASSUME QueueInv, Counted, NEW j \in Jobs, Cleanup(j)
    PROVE  Counted'
<1> DEFINE k == KeyOf[j]
<1>1. /\ k \in Keys /\ phase \in [Jobs -> Phases] /\ pendingTotal \in Nat
      /\ pendingByKey \in [Keys -> Nat] /\ enqueuedAtByKey \in [Keys -> Seq(Jobs)]
  BY KeysAssumption DEF QueueInv, TypeOK
<1>2. PendingJobs' = PendingJobs \ {j} /\ j \in PendingJobs
  BY <1>1 DEF Cleanup, PendingJobs, Pending
<1>3. PendingOf(k)' = PendingOf(k) \ {j} /\ j \in PendingOf(k)
  BY <1>2 DEF PendingOf
<1>4. \A i \in Keys \ {k} : PendingOf(i)' = PendingOf(i)
  BY <1>2 DEF PendingOf
<1>5. Cardinality(PendingJobs') = Cardinality(PendingJobs) - 1
  <2>1. IsFiniteSet(PendingJobs)
    BY PendingFinite
  <2>2. Cardinality(PendingJobs \ {j}) = Cardinality(PendingJobs) - 1
    BY <1>2, <2>1, FS_RemoveElement
  <2> QED BY <1>2, <2>2
<1>6. Cardinality(PendingOf(k)') = Cardinality(PendingOf(k)) - 1
  <2>1. IsFiniteSet(PendingOf(k))
    BY <1>1, PendingFinite
  <2>2. Cardinality(PendingOf(k) \ {j}) = Cardinality(PendingOf(k)) - 1
    BY <1>3, <2>1, FS_RemoveElement
  <2> QED BY <1>3, <2>2
<1>7. enqueuedAtByKey[k] # << >>
  BY StartedIsOldest DEF Cleanup
<1>8. Len(enqueuedAtByKey[k]) >= 1 /\ Len(Tail(enqueuedAtByKey[k])) = Len(enqueuedAtByKey[k]) - 1
  BY <1>1, <1>7
<1>9. CountAfter(k) = pendingByKey[k] - 1
  BY <1>1, <1>8 DEF CountAfter, Counted
<1>10. ASSUME NEW i \in Keys
       PROVE  pendingByKey'[i] = Len(enqueuedAtByKey'[i]) /\ pendingByKey'[i] = Cardinality(PendingOf(i)')
  <2>1. CASE i = k
    <3>1. pendingByKey'[k] = pendingByKey[k] - 1 /\ enqueuedAtByKey'[k] = Tail(enqueuedAtByKey[k])
      BY <1>1, <1>7, <1>9 DEF Cleanup
    <3> QED BY <2>1, <3>1, <1>1, <1>6, <1>8 DEF Counted, ExactCounters
  <2>2. CASE i # k
    BY <2>2, <1>1, <1>4 DEF Cleanup, Counted, ExactCounters
  <2> QED BY <2>1, <2>2
<1>11. pendingTotal' = Cardinality(PendingJobs')
  <2>1. PendingJobs # {} /\ Cardinality(PendingJobs) # 0
    BY <1>2, PendingFinite, FS_EmptySet
  <2> QED BY <2>1, <1>5 DEF Cleanup, TotalAfter, Counted, ExactCounters
<1> QED BY <1>10, <1>11 DEF Counted, ExactCounters

\* The counters stay exact under every step.
LEMMA NextKeepsCount == QueueInv /\ Counted /\ [Next]_vars => Counted'
<1> SUFFICES ASSUME QueueInv, Counted, [Next]_vars PROVE Counted'
  OBVIOUS
<1>0. phase \in [Jobs -> Phases]
  BY DEF QueueInv, TypeOK
<1>1. ASSUME NEW j \in Jobs, Reject(j) \/ Start(j) \/ Finish(j) PROVE Counted'
  <2>1. PendingJobs' = PendingJobs
    BY <1>0, <1>1 DEF Reject, Start, Finish, PendingJobs, Pending
  <2>2. UNCHANGED <<pendingByKey, pendingTotal, enqueuedAtByKey>>
    BY <1>1 DEF Reject, Start, Finish
  <2> QED BY <2>1, <2>2, SamePendingKeepsCount
<1>2. ASSUME NEW j \in Jobs, Push(j) PROVE Counted'
  BY <1>2, PushKeepsCount
<1>3. ASSUME NEW j \in Jobs, Cleanup(j) PROVE Counted'
  BY <1>3, CleanupKeepsCount
<1>4. ASSUME (\E d \in Drains : DrainCall(d) \/ DrainReturn(d)) \/ UNCHANGED vars PROVE Counted'
  <2>1. UNCHANGED <<phase, pendingByKey, pendingTotal, enqueuedAtByKey>>
    BY <1>4 DEF DrainCall, DrainReturn, vars
  <2> QED BY <2>1, SamePendingKeepsCount DEF PendingJobs
<1> QED BY <1>1, <1>2, <1>3, <1>4 DEF Next

-----------------------------------------------------------------------------
(* Drains. *)

\* What a drain has seen stays seen.
LEMMA DoneStaysDone ==
    ASSUME TypeOK, [Next]_vars, NEW j \in Jobs, phase[j] = "done"
    PROVE  phase'[j] = "done"
BY DEF TypeOK, Next, vars, Reject, Push, Start, Finish, Cleanup, DrainCall, DrainReturn

\* No step takes a job of a list behind a promise that the drain awaits.
LEMMA CoveredStays ==
    ASSUME QueueInv, [Next]_vars, NEW d \in Drains, Covered(d),
           UNCHANGED <<snapshot[d], accepted[d]>>
    PROVE  Covered(d)'
<1> SUFFICES ASSUME NEW i \in accepted[d], phase'[i] # "done"
             PROVE  \E m, n \in 1..Len(enqueuedAtByKey'[KeyOf[i]]) :
                        /\ m <= n
                        /\ enqueuedAtByKey'[KeyOf[i]][m] = i
                        /\ enqueuedAtByKey'[KeyOf[i]][n] \in snapshot[d]
  BY DEF Covered
<1> DEFINE q == enqueuedAtByKey[KeyOf[i]]
           q2 == enqueuedAtByKey'[KeyOf[i]]
<1>0. i \in Jobs /\ KeyOf[i] \in Keys /\ q \in Seq(Jobs)
  BY KeysAssumption DEF QueueInv, TypeOK
<1>1. phase[i] # "done"
  BY <1>0, DoneStaysDone DEF QueueInv
<1>2. PICK m \in 1..Len(q), n \in 1..Len(q) : m <= n /\ q[m] = i /\ q[n] \in snapshot[d]
  BY <1>1 DEF Covered
<1>3. ASSUME NEW j \in Jobs, Push(j)
      PROVE  /\ m \in 1..Len(q2) /\ n \in 1..Len(q2)
             /\ q2[m] = q[m] /\ q2[n] = q[n]
  <2>1. q2 = q \/ q2 = Append(q, j)
    BY <1>0, <1>3 DEF QueueInv, TypeOK, Push
  <2>2. ASSUME q2 = Append(q, j)
        PROVE  Len(q2) = Len(q) + 1 /\ Len(q) \in Nat /\ \A p \in 1..Len(q) : q2[p] = q[p]
    BY <1>0, <2>2
  <2>3. CASE q2 = Append(q, j)
    <3>1. m \in 1..Len(q2) /\ n \in 1..Len(q2)
      BY <2>2, <2>3
    <3> QED BY <2>2, <2>3, <3>1
  <2>4. CASE q2 = q
    BY <2>4
  <2> QED BY <2>1, <2>3, <2>4
<1>4. ASSUME NEW j \in Jobs, Cleanup(j), KeyOf[j] = KeyOf[i]
      PROVE  /\ m - 1 \in 1..Len(q2) /\ n - 1 \in 1..Len(q2) /\ m - 1 <= n - 1
             /\ q2[m - 1] = q[m] /\ q2[n - 1] = q[n]
  <2>1. q # << >> /\ q[1] = j
    BY <1>4, StartedIsOldest DEF Cleanup
  <2>2. q2 = Tail(q) /\ phase'[j] = "done"
    BY <1>0, <1>4, <2>1 DEF QueueInv, TypeOK, Cleanup
  <2>3. m # 1
    BY <1>2, <2>1, <2>2
  <2>4. m > 1 /\ n > 1
    BY <1>2, <2>3, OneOrMore
  <2>5. Len(q2) = Len(q) - 1 /\ Len(q) \in Nat
    BY <1>0, <2>1, <2>2
  <2>6. m - 1 \in 1..Len(q2) /\ n - 1 \in 1..Len(q2) /\ m - 1 <= n - 1
    BY <1>2, <2>4, <2>5
  <2>7. \A p \in 1..Len(q2) : q2[p] = q[p + 1]
    BY <1>0, <2>1, <2>2
  <2> QED BY <2>6, <2>7
<1>5. ASSUME NEW j \in Jobs, Cleanup(j), KeyOf[j] # KeyOf[i] PROVE q2 = q
  BY <1>0, <1>5 DEF QueueInv, TypeOK, Cleanup
<1>6. CASE UNCHANGED enqueuedAtByKey
  BY <1>2, <1>6
<1>7. \/ \E j \in Jobs : Push(j) \/ Cleanup(j)
      \/ UNCHANGED enqueuedAtByKey
  BY DEF Next, vars, Reject, Start, Finish, DrainCall, DrainReturn
<1> QED BY <1>2, <1>3, <1>4, <1>5, <1>6, <1>7

\* What a waiting drain has yet to see stays behind the promises it awaits.
LEMMA NextKeepsDrain == QueueInv /\ DrainInv /\ [Next]_vars => DrainInv'
<1> SUFFICES ASSUME QueueInv, DrainInv, [Next]_vars, NEW d \in Drains
             PROVE  /\ drain'[d] = "waiting" => Covered(d)'
                    /\ drain'[d] = "returned" => \A j \in accepted'[d] : phase'[j] = "done"
  BY DEF DrainInv, DrainSeesAll
<1>0. /\ drain \in [Drains -> {"idle", "waiting", "returned"}]
      /\ snapshot \in [Drains -> SUBSET Jobs] /\ accepted \in [Drains -> SUBSET Jobs]
  BY DEF QueueInv, TypeOK
<1>1. CASE UNCHANGED <<drain[d], snapshot[d], accepted[d]>>
  <2>1. \A j \in accepted[d] : phase[j] = "done" => phase'[j] = "done"
    BY <1>0, DoneStaysDone DEF QueueInv
  <2>2. drain'[d] = "waiting" => Covered(d)'
    BY <1>1, CoveredStays DEF DrainInv
  <2> QED BY <1>1, <2>1, <2>2 DEF DrainInv, DrainSeesAll
<1>2. CASE DrainCall(d)
  <2>1. UNCHANGED <<enqueuedAtByKey, phase>> /\ drain'[d] = "waiting"
        /\ snapshot'[d] = {tails[k] : k \in Keys} \ {NoJob} /\ accepted'[d] = PendingJobs
    BY <1>0, <1>2 DEF DrainCall
  <2>2. ASSUME NEW i \in PendingJobs
        PROVE  \E m, n \in 1..Len(enqueuedAtByKey[KeyOf[i]]) :
                   /\ m <= n
                   /\ enqueuedAtByKey[KeyOf[i]][m] = i
                   /\ enqueuedAtByKey[KeyOf[i]][n] \in snapshot'[d]
    <3> DEFINE q == enqueuedAtByKey[KeyOf[i]]
    <3>1. i \in Jobs /\ KeyOf[i] \in Keys /\ q \in Seq(Jobs)
      BY KeysAssumption DEF QueueInv, TypeOK, PendingJobs
    <3>2. PICK m \in 1..Len(q) : q[m] = i
      BY DEF QueueInv, Listed
    <3>3. Len(q) \in 1..Len(q) /\ m <= Len(q) /\ Len(q) # 0
      BY <3>1, <3>2
    <3>4. tails[KeyOf[i]] = q[Len(q)] /\ q[Len(q)] \in Jobs
      BY <3>1, <3>3 DEF QueueInv, Chained
    <3>5. q[Len(q)] \in snapshot'[d]
      BY <2>1, <3>1, <3>4, JobsAssumption
    <3> QED BY <3>2, <3>3, <3>5
  <2> QED BY <2>1, <2>2 DEF Covered
<1>3. CASE DrainReturn(d)
  <2>1. drain'[d] = "returned" /\ UNCHANGED <<phase, enqueuedAtByKey, accepted, snapshot>>
        /\ drain[d] = "waiting" /\ \A j \in snapshot[d] : phase[j] = "done"
    BY <1>0, <1>3 DEF DrainReturn
  <2>2. ASSUME NEW i \in accepted[d] PROVE phase[i] = "done"
    <3> SUFFICES ASSUME phase[i] # "done" PROVE FALSE
      OBVIOUS
    <3>1. PICK m, n \in 1..Len(enqueuedAtByKey[KeyOf[i]]) :
              enqueuedAtByKey[KeyOf[i]][n] \in snapshot[d]
      BY <2>1 DEF DrainInv, Covered
    <3>2. phase[enqueuedAtByKey[KeyOf[i]][n]] \in Pending
      BY <1>0, <3>1, KeysAssumption DEF QueueInv, Listed
    <3> QED BY <2>1, <3>1, <3>2 DEF Pending
  <2> QED BY <2>1, <2>2
<1>4. \/ DrainCall(d) \/ DrainReturn(d)
      \/ UNCHANGED <<drain[d], snapshot[d], accepted[d]>>
  <2>1. ASSUME NEW e \in Drains \ {d}, DrainCall(e) \/ DrainReturn(e)
        PROVE  UNCHANGED <<drain[d], snapshot[d], accepted[d]>>
    BY <1>0, <2>1 DEF DrainCall, DrainReturn
  <2> QED BY <2>1 DEF Next, vars, Reject, Push, Start, Finish, Cleanup
<1> QED BY <1>1, <1>2, <1>3, <1>4

-----------------------------------------------------------------------------
(* The theorems. *)

\* The inductive invariant holds initially.
LEMMA InitInv == Init => IInv
<1> SUFFICES ASSUME Init PROVE IInv
  OBVIOUS
<1>1. QueueInv
  BY InitQueue
<1>2. PendingJobs = {} /\ \A k \in Keys : PendingOf(k) = {}
  BY DEF Init, PendingJobs, PendingOf, Pending
<1>3. Counted
  BY <1>2, FS_EmptySet DEF Init, Counted, ExactCounters
<1>4. DrainInv
  BY DEF Init, DrainInv, DrainSeesAll
<1> QED BY <1>1, <1>3, <1>4 DEF IInv

\* The inductive invariant holds in every reachable state of the queue.
THEOREM Invariance == Spec => []IInv
<1>1. Init => IInv
  BY InitInv
<1>2. IInv /\ [Next]_vars => IInv'
  BY NextKeepsQueue, NextKeepsCount, NextKeepsDrain DEF IInv
<1> QED BY <1>1, <1>2, PTL DEF Spec

\* Every variable keeps its type.
THEOREM TypeCorrect == Spec => []TypeOK
<1>1. IInv => TypeOK
  BY DEF IInv, QueueInv
<1> QED BY <1>1, Invariance, PTL

\* Two jobs of one key never run at the same time, for any keys, pushes and
\* limits (drainableWorker.ts: the promise chain of push).
THEOREM Serial == Spec => []OneAtATime
<1>1. IInv => OneAtATime
  <2> SUFFICES ASSUME IInv, NEW i \in Jobs, NEW j \in Jobs,
                      phase[i] = "running", phase[j] = "running", KeyOf[i] = KeyOf[j]
               PROVE  i = j
    BY DEF OneAtATime
  <2> QED BY StartedIsOldest DEF IInv
<1> QED BY <1>1, Invariance, PTL

\* The counters that admission reads are exact (push and settled.finally).
THEOREM CountersExact == Spec => []ExactCounters
<1>1. IInv => ExactCounters
  BY DEF IInv, Counted
<1> QED BY <1>1, Invariance, PTL

\* A drain that has returned saw the end of all work that was pending when it
\* was called.
THEOREM DrainComplete == Spec => []DrainSeesAll
<1>1. IInv => DrainSeesAll
  BY DEF IInv, DrainInv
<1> QED BY <1>1, Invariance, PTL

-----------------------------------------------------------------------------
(* The worker implements the first-in first-out executor. *)

\* The stages of the executor are the phases of the jobs.
LEMMA StageOf ==
    ASSUME TypeOK, NEW j \in Jobs
    PROVE  /\ stage[j] = "new" <=> phase[j] = "new"
           /\ stage[j] = "waiting" <=> phase[j] = "queued"
           /\ stage[j] = "active" <=> phase[j] \in {"running", "finished"}
BY DEF TypeOK, stage, Phases

\* The worker and the executor are full in the same states.
LEMMA SameLimits ==
    ASSUME IInv, NEW j \in Jobs
    PROVE  AtLimit(KeyOf[j]) <=> Fifo!Full(KeyOf[j])
<1>1. Fifo!InBacklog = PendingJobs
  BY StageOf DEF IInv, QueueInv, Fifo!InBacklog, PendingJobs, Pending
<1>2. pendingByKey[KeyOf[j]] = Len(enqueuedAtByKey[KeyOf[j]])
  BY KeysAssumption DEF IInv, Counted
<1>3. pendingTotal = Cardinality(Fifo!InBacklog)
  BY <1>1 DEF IInv, Counted, ExactCounters
<1>4. Fifo!Cardinality(Fifo!InBacklog) = Cardinality(Fifo!InBacklog)
  BY Zenon DEF Cardinality, Fifo!Cardinality
<1> QED BY <1>2, <1>3, <1>4 DEF AtLimit, Fifo!Full

\* The stage of one job changes as its phase does.
LEMMA StageStep ==
    ASSUME TypeOK, NEW j \in Jobs, NEW p \in Phases, phase' = [phase EXCEPT ![j] = p]
    PROVE  stage' = [stage EXCEPT ![j] = CASE p = "queued" -> "waiting"
                                           [] p \in {"running", "finished"} -> "active"
                                           [] OTHER -> p]
BY DEF TypeOK, stage

\* Every step of the worker is a step of the executor or none.
LEMMA NextImplements == IInv /\ [Next]_vars => [Fifo!Next]_<<enqueuedAtByKey, stage>>
<1> SUFFICES ASSUME IInv, [Next]_vars PROVE [Fifo!Next]_<<enqueuedAtByKey, stage>>
  OBVIOUS
<1>0. TypeOK /\ QueueInv
  BY DEF IInv, QueueInv
<1>1. ASSUME NEW j \in Jobs, Reject(j) PROVE Fifo!Refuse(j)
  <2>1. stage' = [stage EXCEPT ![j] = "rejected"]
    BY <1>0, <1>1, StageStep DEF Reject, Phases
  <2> QED BY <1>0, <1>1, <2>1, StageOf, SameLimits DEF Reject, Fifo!Refuse
<1>2. ASSUME NEW j \in Jobs, Push(j) PROVE Fifo!Submit(j)
  <2>1. stage' = [stage EXCEPT ![j] = "waiting"]
    BY <1>0, <1>2, StageStep DEF Push, Phases
  <2> QED BY <1>0, <1>2, <2>1, StageOf, SameLimits DEF Push, Fifo!Submit
<1>3. ASSUME NEW j \in Jobs, Start(j) PROVE Fifo!Begin(j)
  <2>1. stage' = [stage EXCEPT ![j] = "active"]
    BY <1>0, <1>3, StageStep DEF Start, Phases
  <2>2. Fifo!Oldest(j)
    BY <1>0, <1>3, StartedOnlyOldest, KeysAssumption DEF Start, Fifo!Oldest, TypeOK
  <2> QED BY <1>0, <1>3, <2>1, <2>2, StageOf DEF Start, Fifo!Begin
<1>4. ASSUME NEW j \in Jobs, Finish(j) PROVE UNCHANGED <<enqueuedAtByKey, stage>>
  <2>1. stage' = [stage EXCEPT ![j] = "active"] /\ stage[j] = "active"
    BY <1>0, <1>4, StageStep, StageOf DEF Finish, Phases
  <2>2. stage' = stage
    BY <2>1 DEF stage
  <2> QED BY <1>4, <2>2 DEF Finish
<1>5. ASSUME NEW j \in Jobs, Cleanup(j) PROVE Fifo!Leave(j)
  <2>1. stage' = [stage EXCEPT ![j] = "done"]
    BY <1>0, <1>5, StageStep DEF Cleanup, Phases
  <2>2. enqueuedAtByKey[KeyOf[j]] # << >> /\ Fifo!Oldest(j)
    BY <1>0, <1>5, StartedIsOldest, KeysAssumption DEF Cleanup, Fifo!Oldest, TypeOK
  <2>3. enqueuedAtByKey' = [enqueuedAtByKey EXCEPT ![KeyOf[j]] = Tail(enqueuedAtByKey[KeyOf[j]])]
    BY <1>5, <2>2 DEF Cleanup
  <2> QED BY <1>0, <1>5, <2>1, <2>2, <2>3, StageOf DEF Cleanup, Fifo!Leave
<1>6. ASSUME (\E d \in Drains : DrainCall(d) \/ DrainReturn(d)) \/ UNCHANGED vars
      PROVE  UNCHANGED <<enqueuedAtByKey, stage>>
  BY <1>6 DEF DrainCall, DrainReturn, vars, stage
<1> QED BY <1>1, <1>2, <1>3, <1>4, <1>5, <1>6 DEF Next, Fifo!Next

\* Promise chains, tails and counters implement a bounded first-in first-out
\* executor for each key: work starts in push order, the next one when its
\* predecessor has left, and is refused only at a limit.
THEOREM Implements == Spec => ImplementsFifo
<1>1. Init => Fifo!Init
  <2> SUFFICES ASSUME Init PROVE Fifo!Init
    OBVIOUS
  <2>1. stage = [j \in Jobs |-> "new"]
    BY DEF Init, stage
  <2> QED BY <2>1 DEF Init, Fifo!Init
<1>2. IInv /\ [Next]_vars => [Fifo!Next]_<<enqueuedAtByKey, stage>>
  BY NextImplements
<1> QED BY <1>1, <1>2, Invariance, PTL DEF Spec, ImplementsFifo, Fifo!Spec

-----------------------------------------------------------------------------
(* Work items.                                                             *)

\* The workers that work on an item, and whether it waits for one.
HoldersOf(i) == {w \in Workers : holds[w] # Absent /\ holds[w].item = i}
Waits(i) == IF items[i] # Absent /\ items[i].status = "queued" THEN 1 ELSE 0

\* Each worker that may yet complete an item, or will be given it, is paid for
\* by the one that all have or by a lease that ran out.
Paid(i) ==
  /\ IsFiniteSet(HoldersOf(i))
  /\ settled[i] + Cardinality(HoldersOf(i)) + Waits(i) <= 1 + lapses[i]
  /\ items[i] = Absent => settled[i] = 0 /\ HoldersOf(i) = {}

\* What waits may be tried once more.
TriesLeft ==
  \A i \in Items : items[i] # Absent /\ items[i].status = "queued" => items[i].attempts < items[i].max

ItemShape ==
  /\ ItemsTypeOK
  /\ settled \in [Items -> Nat] /\ lapses \in [Items -> Nat] /\ late \in [Items -> BOOLEAN]

Leases == OneHolder /\ HeldIsRunning
Tries == TriesLeft /\ AttemptsBounded
AllPaid == \A i \in Items : Paid(i)
ItemsInv == ItemShape /\ Leases /\ OnePerKey /\ Tries /\ AllPaid

LEMMA OneMore ==
  ASSUME NEW S, IsFiniteSet(S), NEW T, NEW x, T = S \cup {x} \/ T = S
  PROVE  /\ IsFiniteSet(T) /\ Cardinality(S) \in Nat /\ Cardinality(T) \in Nat
         /\ Cardinality(T) <= Cardinality(S) + 1
<1>1. Cardinality(S) \in Nat
  BY FS_CardinalityType
<1>2. CASE T = S
  BY <1>1, <1>2
<1>3. CASE T = S \cup {x} /\ x \notin S
  BY <1>1, <1>3, FS_AddElement
<1>4. CASE T = S \cup {x} /\ x \in S
  <2>1. T = S
    BY <1>4
  <2> QED BY <1>1, <2>1
<1> QED BY <1>2, <1>3, <1>4

\* No item, and nobody who works.
LEMMA ItemsAtFirst == WorkConstants /\ ItemsInit => ItemsInv
<1> SUFFICES ASSUME WorkConstants, ItemsInit PROVE ItemsInv
  OBVIOUS
<1>1. ItemShape
  BY DEF WorkConstants, ItemsInit, ItemShape, ItemsTypeOK
<1>2. Leases /\ OnePerKey /\ Tries
  BY DEF ItemsInit, Leases, OneHolder, HeldIsRunning, OnePerKey, Tries, TriesLeft,
         AttemptsBounded, InTime
<1>3. AllPaid
  <2> SUFFICES ASSUME NEW i \in Items PROVE Paid(i)
    BY DEF AllPaid
  <2>1. HoldersOf(i) = {}
    BY DEF HoldersOf, ItemsInit
  <2> QED BY <2>1, FS_EmptySet DEF Paid, Waits, ItemsInit
<1> QED BY <1>1, <1>2, <1>3 DEF ItemsInv

\* The tables stay, whatever time it is by now.
LEMMA ItemsLater ==
  ASSUME ItemsInv, now \in Nat, now' \in Nat, now' >= now,
         UNCHANGED <<items, holds, lapses, settled, late>>
  PROVE  ItemsInv'
<1>0. \A i \in Items : items[i] # Absent => items[i].attempts \in Nat
  BY DEF ItemsInv, ItemShape, ItemsTypeOK, ItemRow
<1>1. ItemShape' /\ OnePerKey' /\ Tries'
  BY DEF ItemsInv, ItemShape, ItemsTypeOK, OnePerKey, Tries, TriesLeft, AttemptsBounded
<1>2. \A w \in Workers : InTime(w)' => InTime(w)
  BY DEF InTime, ItemsInv, ItemShape, ItemsTypeOK
<1>3. Leases'
  BY <1>2 DEF ItemsInv, Leases, OneHolder, HeldIsRunning
<1>4. AllPaid'
  BY DEF ItemsInv, AllPaid, Paid, HoldersOf, Waits
<1> QED BY <1>1, <1>3, <1>4 DEF ItemsInv

\* A new item waits, with all its tries; its key is nobody else's.
LEMMA ItemEnqueued ==
  ASSUME WorkConstants, ItemsInv, now \in Nat, NEW i \in Items, NEW key \in ItemKeys \cup {NoKey},
         NEW p \in Priorities, EnqueueWorkItem(i, key, p)
  PROVE  ItemsInv'
<1> DEFINE row == NewItem(key, p)
<1>1. row \in ItemRow /\ row # Absent /\ row.status = "queued" /\ row.expires = Absent
      /\ row.attempts = 0 /\ row.max = MaxAttempts /\ row.key = key
  BY DEF WorkConstants, NewItem, ItemRow, Statuses
<1>2. items[i] = Absent /\ items' = [items EXCEPT ![i] = row]
      /\ UNCHANGED <<now, holds, gates, lapses, settled, late>>
  BY DEF EnqueueWorkItem, Insertable, UpdateItem
<1>3. items \in [Items -> ItemRow \cup {Absent}]
  BY DEF ItemsInv, ItemShape, ItemsTypeOK
<1> HIDE DEF row
<1>4. items'[i] = row /\ \A k \in Items : k # i => items'[k] = items[k]
  BY <1>2, <1>3
<1>5. \A w \in Workers : holds[w] # Absent => holds[w].item \in Items /\ holds[w].item # i
  BY <1>2 DEF ItemsInv, ItemShape, ItemsTypeOK
<1>6. ItemShape'
  BY <1>1, <1>2, <1>4, <1>5 DEF ItemsInv, ItemShape, ItemsTypeOK
<1>7. Leases'
  BY <1>2, <1>4, <1>5 DEF ItemsInv, Leases, OneHolder, HeldIsRunning, InTime
<1>8. OnePerKey'
  BY <1>1, <1>2, <1>4 DEF ItemsInv, OnePerKey, EnqueueWorkItem, Insertable
<1>9. Tries'
  <2>1. MaxAttempts \in Nat /\ MaxAttempts > 0 /\ lapses[i] \in Nat
    BY DEF WorkConstants, ItemsInv, ItemShape
  <2> QED BY <1>1, <1>2, <1>4, <2>1 DEF ItemsInv, Tries, TriesLeft, AttemptsBounded
<1>10. AllPaid'
  <2> SUFFICES ASSUME NEW k \in Items PROVE Paid(k)'
    BY DEF AllPaid
  <2>1. HoldersOf(k)' = HoldersOf(k) /\ settled'[k] = settled[k] /\ lapses'[k] = lapses[k]
    BY <1>2 DEF HoldersOf
  <2>2. CASE k # i
    BY <1>4, <2>1, <2>2 DEF ItemsInv, AllPaid, Paid, Waits
  <2>3. CASE k = i
    <3>1. settled[i] = 0 /\ HoldersOf(i) = {} /\ lapses[i] \in Nat
      BY <1>2 DEF ItemsInv, AllPaid, Paid, ItemShape
    <3>2. IsFiniteSet(HoldersOf(i)) /\ Cardinality(HoldersOf(i)) = 0
      BY <3>1, FS_EmptySet
    <3>3. Waits(i)' = 1
      BY <1>1, <1>4 DEF Waits
    <3> QED BY <1>1, <1>4, <2>1, <2>3, <3>1, <3>2, <3>3 DEF Paid
  <2> QED BY <2>2, <2>3
<1> QED BY <1>6, <1>7, <1>8, <1>9, <1>10 DEF ItemsInv

\* Who has the item in time keeps others from claiming it.
LEMMA NobodyInTime ==
  ASSUME ItemsInv, now \in Nat, NEW i \in Items, Claimable(i), NEW v \in Workers,
         holds[v] # Absent, holds[v].item = i, ~late[i]
  PROVE  ~InTime(v)
BY DEF ItemsInv, Leases, HeldIsRunning, InTime, Claimable, Expired, ItemShape, ItemsTypeOK

LEMMA ItemClaimed ==
  ASSUME WorkConstants, ItemsInv, now \in Nat, NEW w \in Workers, ClaimWorkItem(w)
  PROVE  ItemsInv'
<1>1. PICK i \in Items : Candidate(i)
        /\ items' = [items EXCEPT ![i] = [items[i] EXCEPT !.status = "running", !.attempts = @ + 1,
                                         !.expires = now + Lease]]
        /\ holds' = [holds EXCEPT ![w] = [item |-> i, expires |-> now + Lease]]
        /\ lapses' = [lapses EXCEPT ![i] = IF items[i].status = "running" THEN @ + 1 ELSE @]
  BY DEF ClaimWorkItem, UpdateItem
<1>2. holds[w] = Absent /\ UNCHANGED <<now, gates, settled, late>>
  BY DEF ClaimWorkItem
<1>3. Claimable(i) /\ items[i] # Absent
  BY <1>1 DEF Candidate, Claimable
<1>4. items \in [Items -> ItemRow \cup {Absent}] /\ items[i] \in ItemRow
      /\ holds \in [Workers -> [item : Items, expires : Nat] \cup {Absent}]
      /\ lapses \in [Items -> Nat] /\ settled \in [Items -> Nat]
  BY <1>3 DEF ItemsInv, ItemShape, ItemsTypeOK
<1>5. Lease \in Nat /\ Lease > 0 /\ Absent \notin ItemRow /\ Absent \notin Nat
  BY DEF WorkConstants
<1> DEFINE row == [items[i] EXCEPT !.status = "running", !.attempts = @ + 1, !.expires = now + Lease]
<1>6. row \in ItemRow /\ row.status = "running" /\ row.expires = now + Lease /\ row.key = items[i].key
      /\ row.attempts = items[i].attempts + 1 /\ row.max = items[i].max
  <2>1. items[i].attempts + 1 \in Nat /\ now + Lease \in Nat
    BY <1>4, <1>5 DEF ItemRow
  <2> QED BY ONLY <1>4, <2>1 DEF ItemRow, Statuses
<1>7. items'[i] = row /\ \A k \in Items : k # i => items'[k] = items[k]
  BY <1>1, <1>4
<1> DEFINE claim == [item |-> i, expires |-> now + Lease]
<1>8. holds'[w] = claim /\ (\A v \in Workers : v # w => holds'[v] = holds[v])
      /\ claim \in [item : Items, expires : Nat] /\ claim.item = i /\ claim.expires = now + Lease
  BY <1>1, <1>4, <1>5
<1>9. \A k \in Items : k # i => lapses'[k] = lapses[k]
  BY <1>1, <1>4
<1>10. items[i].status \in {"queued", "running"}
       /\ lapses'[i] = IF items[i].status = "running" THEN lapses[i] + 1 ELSE lapses[i]
  BY <1>1, <1>3, <1>4 DEF Claimable, Expired
<1>d. items' \in [Items -> ItemRow \cup {Absent}]
      /\ holds' \in [Workers -> [item : Items, expires : Nat] \cup {Absent}]
      /\ lapses' \in [Items -> Nat]
  BY <1>1, <1>4, <1>6, <1>8
<1>e. row # Absent
  BY <1>5, <1>6
<1> HIDE DEF row, claim
<1>11. ItemShape'
  <2>1. \A k \in Items : items'[k] # Absent => ((items'[k].status = "running") <=> (items'[k].expires # Absent))
    BY <1>5, <1>6, <1>7 DEF ItemsInv, ItemShape, ItemsTypeOK
  <2>2. \A v \in Workers : holds'[v] # Absent => items'[holds'[v].item] # Absent
    BY <1>4, <1>7, <1>8, <1>e DEF ItemsInv, ItemShape, ItemsTypeOK
  <2> QED BY <1>2, <1>d, <2>1, <2>2 DEF ItemsInv, ItemShape, ItemsTypeOK
<1>12. \A v \in Workers : v # w /\ InTime(v)' => InTime(v) /\ (holds[v].item = i => late[i])
  BY <1>2, <1>3, <1>8, NobodyInTime DEF InTime
<1>13. Leases'
  <2>1. OneHolder'
    BY <1>2, <1>8, <1>12 DEF ItemsInv, Leases, OneHolder
  <2>2. HeldIsRunning'
    <3> SUFFICES ASSUME NEW v \in Workers, InTime(v)', ~late'[holds'[v].item]
                 PROVE  /\ items'[holds'[v].item].status = "running"
                        /\ items'[holds'[v].item].expires = holds'[v].expires
      BY DEF HeldIsRunning
    <3>1. CASE v = w
      BY <1>6, <1>7, <1>8, <3>1
    <3>2. CASE v # w
      <4>1. InTime(v) /\ holds[v].item # i /\ ~late[holds[v].item] /\ holds[v].item \in Items
        BY <1>2, <1>4, <1>8, <1>12, <3>2 DEF InTime
      <4> QED BY <1>7, <1>8, <3>2, <4>1 DEF ItemsInv, Leases, HeldIsRunning
    <3> QED BY <3>1, <3>2
  <2> QED BY <2>1, <2>2 DEF Leases
<1>14. OnePerKey'
  BY <1>3, <1>6, <1>7 DEF ItemsInv, OnePerKey
<1>15. Tries'
  <2>1. items[i].attempts \in Nat /\ items[i].max \in Nat
    BY <1>4 DEF ItemRow
  <2>2. items'[i].attempts <= items'[i].max + lapses'[i]
    BY <1>3, <1>4, <1>6, <1>7, <1>10, <2>1 DEF ItemsInv, Tries, TriesLeft, AttemptsBounded
  <2> QED BY <1>6, <1>7, <1>9, <2>2 DEF ItemsInv, Tries, TriesLeft, AttemptsBounded
<1>16. AllPaid'
  <2> SUFFICES ASSUME NEW k \in Items PROVE Paid(k)'
    BY DEF AllPaid
  <2>1. CASE k # i
    <3>1. HoldersOf(k)' = HoldersOf(k)
      BY <1>2, <1>8, <2>1 DEF HoldersOf
    <3> QED BY <1>2, <1>7, <1>9, <2>1, <3>1 DEF ItemsInv, AllPaid, Paid, Waits
  <2>2. CASE k = i
    <3>1. HoldersOf(i)' = HoldersOf(i) \cup {w} \/ HoldersOf(i)' = HoldersOf(i)
      BY <1>2, <1>8 DEF HoldersOf
    <3>2. IsFiniteSet(HoldersOf(i)) /\ settled[i] + Cardinality(HoldersOf(i)) + Waits(i) <= 1 + lapses[i]
      BY DEF ItemsInv, AllPaid, Paid
    <3>3. Cardinality(HoldersOf(i)) \in Nat /\ IsFiniteSet(HoldersOf(i)')
          /\ Cardinality(HoldersOf(i)') \in Nat
          /\ Cardinality(HoldersOf(i)') <= Cardinality(HoldersOf(i)) + 1
      <4>1. PICK S, T : S = HoldersOf(i) /\ T = HoldersOf(i)'
        OBVIOUS
      <4>2. IsFiniteSet(S) /\ (T = S \cup {w} \/ T = S)
        BY <3>1, <3>2, <4>1
      <4> QED BY ONLY <4>1, <4>2, OneMore
    <3>4. Waits(i)' = 0 /\ (items[i].status = "queued" => Waits(i) = 1) /\ Waits(i) \in 0..1
      BY <1>3, <1>6, <1>7 DEF Waits
    <3>5. settled'[i] = settled[i] /\ settled[i] \in Nat /\ lapses[i] \in Nat
      BY <1>2, <1>4
    <3>6. settled'[i] + Cardinality(HoldersOf(i)') + Waits(i)' <= 1 + lapses'[i]
      BY <1>10, <3>2, <3>3, <3>4, <3>5
    <3> QED BY <1>7, <1>e, <2>2, <3>3, <3>6 DEF Paid
  <2> QED BY <2>1, <2>2
<1> QED BY <1>11, <1>13, <1>14, <1>15, <1>16 DEF ItemsInv

\* A worker settles the item it holds: nobody knows it in time any more, and it
\* waits only with a try left.
Verdict(i, row) ==
  /\ row \in ItemRow /\ row.status \in {"queued", "completed", "failed", "dead_lettered"}
  /\ row.key = items[i].key /\ row.attempts = items[i].attempts /\ row.max = items[i].max
  /\ row.status = "queued" => row.attempts < row.max
Completions(i, row) ==
  settled' = IF row.status = "completed" THEN [settled EXCEPT ![i] = @ + 1] ELSE settled

LEMMA ItemSettled ==
  ASSUME WorkConstants, ItemsInv, now \in Nat, NEW w \in Workers, holds[w] # Absent,
         NEW i, i = holds[w].item, NEW row, Verdict(i, row), Settle(w, row), Completions(i, row)
  PROVE  ItemsInv'
<1> DEFINE new == [row EXCEPT !.expires = Absent]
<1>1. /\ items' = [items EXCEPT ![i] = new]
      /\ holds' = [holds EXCEPT ![w] = Absent]
      /\ late' = [late EXCEPT ![i] = @ \/ now >= holds[w].expires]
      /\ UNCHANGED <<now, gates, lapses>>
  BY DEF Settle, UpdateItem
<1>2. items \in [Items -> ItemRow \cup {Absent}] /\ i \in Items /\ items[i] \in ItemRow
      /\ holds \in [Workers -> [item : Items, expires : Nat] \cup {Absent}] /\ holds[w].expires \in Nat
      /\ lapses \in [Items -> Nat] /\ settled \in [Items -> Nat] /\ late \in [Items -> BOOLEAN]
      /\ items[i] # Absent
  BY DEF ItemsInv, ItemShape, ItemsTypeOK
<1>3. Absent \notin ItemRow
  BY DEF WorkConstants
<1>4. new \in ItemRow /\ new.expires = Absent /\ new.status = row.status
      /\ new.key = items[i].key /\ new.attempts = items[i].attempts /\ new.max = items[i].max
      /\ new.status # "running"
      /\ (new.status = "queued" => new.attempts < new.max)
  BY DEF Verdict, ItemRow
<1>5. new # Absent
  BY <1>3, <1>4
<1> HIDE DEF new
<1>6. items'[i] = new /\ \A k \in Items : k # i => items'[k] = items[k]
  BY <1>1, <1>2
<1>7. holds'[w] = Absent /\ \A v \in Workers : v # w => holds'[v] = holds[v]
  BY <1>1, <1>2
<1>8. /\ late'[i] = (late[i] \/ now >= holds[w].expires)
      /\ \A k \in Items : k # i => late'[k] = late[k]
  BY <1>1, <1>2
<1>9. /\ settled' \in [Items -> Nat]
      /\ settled'[i] = IF row.status = "completed" THEN settled[i] + 1 ELSE settled[i]
      /\ \A k \in Items : k # i => settled'[k] = settled[k]
  BY <1>2 DEF Completions
<1>d. items' \in [Items -> ItemRow \cup {Absent}] /\ late' \in [Items -> BOOLEAN]
      /\ holds' \in [Workers -> [item : Items, expires : Nat] \cup {Absent}]
  BY <1>1, <1>2, <1>4
<1>10. ItemShape'
  <2>1. \A k \in Items : items'[k] # Absent => ((items'[k].status = "running") <=> (items'[k].expires # Absent))
    BY <1>4, <1>6 DEF ItemsInv, ItemShape, ItemsTypeOK
  <2>2. \A v \in Workers : holds'[v] # Absent => items'[holds'[v].item] # Absent
    BY <1>2, <1>5, <1>6, <1>7 DEF ItemsInv, ItemShape, ItemsTypeOK
  <2> QED BY <1>1, <1>9, <1>d, <2>1, <2>2 DEF ItemsInv, ItemShape, ItemsTypeOK
<1>11. Leases'
  <2>1. \A v \in Workers : InTime(v)' =>
          InTime(v) /\ v # w /\ holds'[v] = holds[v] /\ holds[v].item \in Items
          /\ (~late'[holds[v].item] => holds[v].item # i /\ ~late[holds[v].item])
    <3> SUFFICES ASSUME NEW v \in Workers, InTime(v)'
                 PROVE  InTime(v) /\ v # w /\ holds'[v] = holds[v] /\ holds[v].item \in Items
                        /\ (~late'[holds[v].item] => holds[v].item # i /\ ~late[holds[v].item])
      OBVIOUS
    <3>1. v # w /\ holds'[v] = holds[v] /\ InTime(v) /\ holds[v].item \in Items
      BY <1>1, <1>2, <1>7 DEF InTime
    <3>2. CASE holds[v].item = i
      <4>1. late[i] \/ ~InTime(w)
        BY <3>1, <3>2 DEF ItemsInv, Leases, OneHolder
      <4>2. InTime(w) \/ now >= holds[w].expires
        BY <1>2 DEF InTime
      <4>3. late'[i] = TRUE
        BY <1>8, <4>1, <4>2
      <4> QED BY <3>1, <3>2, <4>3
    <3>3. CASE holds[v].item # i
      BY <1>8, <3>1, <3>3
    <3> QED BY <3>1, <3>2, <3>3
  <2> QED BY <1>6, <2>1 DEF ItemsInv, Leases, OneHolder, HeldIsRunning
<1>12. OnePerKey'
  BY <1>2, <1>4, <1>6 DEF ItemsInv, OnePerKey
<1>13. Tries'
  BY <1>1, <1>2, <1>4, <1>6 DEF ItemsInv, Tries, TriesLeft, AttemptsBounded
<1>14. AllPaid'
  <2> SUFFICES ASSUME NEW k \in Items PROVE Paid(k)'
    BY DEF AllPaid
  <2>1. CASE k # i
    <3>1. HoldersOf(k)' = HoldersOf(k)
      BY <1>1, <1>7, <2>1 DEF HoldersOf
    <3> QED BY <1>1, <1>6, <1>9, <2>1, <3>1 DEF ItemsInv, AllPaid, Paid, Waits
  <2>2. CASE k = i
    <3>1. HoldersOf(i)' = HoldersOf(i) \ {w} /\ w \in HoldersOf(i)
      BY <1>1, <1>7 DEF HoldersOf
    <3>2. IsFiniteSet(HoldersOf(i)) /\ settled[i] + Cardinality(HoldersOf(i)) + Waits(i) <= 1 + lapses[i]
      BY <1>2 DEF ItemsInv, AllPaid, Paid
    <3>3. Cardinality(HoldersOf(i)) \in Nat /\ IsFiniteSet(HoldersOf(i)')
          /\ Cardinality(HoldersOf(i)') = Cardinality(HoldersOf(i)) - 1
      <4>1. PICK S, T : S = HoldersOf(i) /\ T = HoldersOf(i)'
        OBVIOUS
      <4>2. IsFiniteSet(S) /\ T = S \ {w} /\ w \in S
        BY <3>1, <3>2, <4>1
      <4> QED BY ONLY <4>1, <4>2, FS_RemoveElement, FS_CardinalityType
    <3>4. Waits(i)' \in 0..1 /\ (row.status = "completed" => Waits(i)' = 0) /\ Waits(i) \in 0..1
      BY <1>4, <1>6 DEF Waits
    <3>5. lapses'[i] = lapses[i] /\ settled[i] \in Nat /\ lapses[i] \in Nat
      BY <1>1, <1>2
    <3>6. settled'[i] + Cardinality(HoldersOf(i)') + Waits(i)' <= 1 + lapses'[i]
      BY <1>9, <3>2, <3>3, <3>4, <3>5
    <3> QED BY <1>5, <1>6, <2>2, <3>3, <3>6 DEF Paid
  <2> QED BY <2>1, <2>2
<1> QED BY <1>10, <1>11, <1>12, <1>13, <1>14 DEF ItemsInv

\* The three ways in which a worker settles.
LEMMA ItemsSettled ==
  ASSUME WorkConstants, ItemsInv, now \in Nat, NEW w \in Workers,
         \/ CompleteWorkItem(w) \/ DeadLetterWorkItem(w)
         \/ \E retry \in BOOLEAN : FailWorkItem(w, retry)
  PROVE  ItemsInv'
<1>1. holds[w] # Absent
  BY DEF CompleteWorkItem, DeadLetterWorkItem, FailWorkItem
<1>2. PICK i : i = holds[w].item
  OBVIOUS
<1>3. i \in Items /\ items[i] \in ItemRow /\ Delay \in Nat
  BY <1>1, <1>2 DEF ItemsInv, ItemShape, ItemsTypeOK, WorkConstants
<1>4. CASE CompleteWorkItem(w)
  <2>1. PICK row : row = [items[i] EXCEPT !.status = "completed"]
    OBVIOUS
  <2>2. Verdict(i, row) /\ row.status = "completed"
    BY ONLY <1>3, <2>1 DEF Verdict, ItemRow, Statuses
  <2>3. Settle(w, row) /\ Completions(i, row)
    BY <1>2, <1>4, <2>1, <2>2 DEF CompleteWorkItem, Completions
  <2> QED BY <1>1, <1>2, <2>2, <2>3, ItemSettled
<1>5. CASE DeadLetterWorkItem(w)
  <2>1. PICK row : row = [items[i] EXCEPT !.status = "dead_lettered"]
    OBVIOUS
  <2>2. Verdict(i, row) /\ row.status = "dead_lettered"
    BY ONLY <1>3, <2>1 DEF Verdict, ItemRow, Statuses
  <2>3. Settle(w, row) /\ Completions(i, row)
    BY <1>2, <1>5, <2>1, <2>2 DEF DeadLetterWorkItem, Completions
  <2> QED BY <1>1, <1>2, <2>2, <2>3, ItemSettled
<1>6. ASSUME NEW retry \in BOOLEAN, FailWorkItem(w, retry) PROVE ItemsInv'
  <2>1. PICK row : row = IF retry /\ MayRetry(items[i])
                         THEN [items[i] EXCEPT !.status = "queued", !.runAfter = now + Delay]
                         ELSE [items[i] EXCEPT !.status = "failed"]
    OBVIOUS
  <2>2. now + Delay \in Nat
    BY <1>3
  <2>3. Verdict(i, row) /\ row.status # "completed"
    <3>1. CASE retry /\ MayRetry(items[i])
      <4>1. row = [items[i] EXCEPT !.status = "queued", !.runAfter = now + Delay]
            /\ items[i].attempts < items[i].max
        BY <2>1, <3>1 DEF MayRetry
      <4> QED BY ONLY <1>3, <2>2, <4>1 DEF Verdict, ItemRow, Statuses
    <3>2. CASE ~(retry /\ MayRetry(items[i]))
      <4>1. row = [items[i] EXCEPT !.status = "failed"]
        BY <2>1, <3>2
      <4> QED BY ONLY <1>3, <4>1 DEF Verdict, ItemRow, Statuses
    <3> QED BY <3>1, <3>2
  <2>4. Settle(w, row) /\ Completions(i, row)
    BY <1>2, <1>6, <2>1, <2>3 DEF FailWorkItem, Completions
  <2> QED BY <1>1, <1>2, <2>3, <2>4, ItemSettled
<1> QED BY <1>4, <1>5, <1>6

\* Workers are gone: the rows stay.
LEMMA WorkersDropped ==
  ASSUME ItemsInv, NEW D, Dropped(D), now' = now
  PROVE  ItemsInv'
<1>1. /\ \A w \in Workers : holds'[w] = IF w \in D THEN Absent ELSE holds[w]
      /\ holds' \in [Workers -> [item : Items, expires : Nat] \cup {Absent}]
      /\ UNCHANGED <<items, lapses, settled, late>>
  BY DEF Dropped, ItemsInv, ItemShape, ItemsTypeOK
<1>2. ItemShape' /\ Leases' /\ OnePerKey' /\ Tries'
  BY <1>1 DEF ItemsInv, ItemShape, ItemsTypeOK, Leases, OneHolder, HeldIsRunning, InTime,
              OnePerKey, Tries, TriesLeft, AttemptsBounded
<1>3. AllPaid'
  <2> SUFFICES ASSUME NEW k \in Items PROVE Paid(k)'
    BY DEF AllPaid
  <2>1. PICK S, T : S = HoldersOf(k) /\ T = HoldersOf(k)'
    OBVIOUS
  <2>2. T \subseteq S
    BY <1>1, <2>1 DEF HoldersOf
  <2>3. IsFiniteSet(S) /\ settled[k] \in Nat /\ lapses[k] \in Nat
        /\ settled[k] + Cardinality(S) + Waits(k) <= 1 + lapses[k]
        /\ (items[k] = Absent => settled[k] = 0 /\ S = {})
    BY <2>1 DEF ItemsInv, AllPaid, Paid, ItemShape
  <2>4. IsFiniteSet(T) /\ Cardinality(T) \in Nat /\ Cardinality(S) \in Nat /\ Cardinality(T) <= Cardinality(S)
    BY ONLY <2>2, <2>3, FS_Subset, FS_CardinalityType
  <2>5. Waits(k)' = Waits(k) /\ Waits(k) \in 0..1 /\ settled'[k] = settled[k] /\ lapses'[k] = lapses[k]
        /\ items'[k] = items[k]
    BY <1>1 DEF Waits
  <2>6. settled'[k] + Cardinality(T) + Waits(k)' <= 1 + lapses'[k]
    BY ONLY <2>3, <2>4, <2>5
  <2> QED BY <2>1, <2>2, <2>3, <2>4, <2>5, <2>6 DEF Paid
<1> QED BY <1>2, <1>3 DEF ItemsInv

\* A gate is nobody's claim.
LEMMA GatesApart ==
  ASSUME ItemsInv, now \in Nat,
         \/ \E w \in Workers, g \in Gates : RunGate(w, g)
         \/ \E g \in Gates : GateEnds(g)
  PROVE  ItemsInv'
<1>1. UNCHANGED <<now, items, holds, lapses, settled, late>>
  BY DEF RunGate, GateEnds
<1> QED BY <1>1, ItemsLater

-----------------------------------------------------------------------------
(* Workflows.                                                              *)

\* A run of a setup whose confirmation waits for it, or that completed.
Engaged(s, r) ==
  /\ runs[r] # Absent /\ runs[r].setup = s
  /\ confirming[r] # Absent \/ runs[r].status = "completed"

\* A confirmation holds the row of its run's setup; a run under way for a setup has one.
Confirmations ==
  \A r \in Runs :
    /\ confirming[r] # Absent =>
         /\ runs[r] # Absent /\ runs[r].setup \in Setups /\ runs[r].input = confirming[r].draft
         /\ setups[runs[r].setup] # Absent
         /\ runs[r].status \in {"running", "completed"}
    /\ runs[r] # Absent /\ runs[r].setup # Absent /\ Executing(r) => confirming[r] # Absent

\* A setup engages one run, and stays confirmed no longer than the run takes.
OneEngaged ==
  \A s \in Setups : ~twice[s] =>
    /\ \A q, r \in Runs : Engaged(s, q) /\ Engaged(s, r) => q = r
    /\ \A r \in Runs : Engaged(s, r) /\ confirming[r] = Absent =>
         setups[s] # Absent /\ setups[s].status \in {"started", "failed", "cancelled"}

FlowShape == FlowsTypeOK /\ twice \in [Setups -> BOOLEAN]
FlowsInv == FlowShape /\ Confirmations /\ OneEngaged /\ StartedRan

LEMMA FlowsAtFirst == WorkConstants /\ FlowsInit => FlowsInv
BY DEF WorkConstants, FlowsInit, FlowsInv, FlowShape, FlowsTypeOK, Confirmations, OneEngaged,
       Engaged, StartedRan

\* The tables stay.
LEMMA FlowsStay ==
  ASSUME FlowsInv, UNCHANGED <<setups, runs, confirming, twice>>
  PROVE  FlowsInv'
BY DEF FlowsInv, FlowShape, FlowsTypeOK, Confirmations, OneEngaged, Engaged, Executing,
       StartedRan, RunsOf

\* A setup is written that is not, or no longer, up for confirmation or started.
LEMMA SetupSaved ==
  ASSUME WorkConstants, FlowsInv, NEW s \in Setups, NEW row, row \in SetupRow,
         row.status # "started",
         \/ setups[s] = Absent
         \/ setups[s] # Absent /\ (\/ setups[s].status \notin {"started", "failed", "cancelled"}
                                   \/ row.status \in {"failed", "cancelled"}),
         SaveSetup(s, row), UNCHANGED <<runs, confirming, twice>>
  PROVE  FlowsInv'
<1>1. setups \in [Setups -> SetupRow \cup {Absent}] /\ row # Absent
  BY DEF WorkConstants, FlowsInv, FlowShape, FlowsTypeOK
<1>2. setups'[s] = row /\ (\A t \in Setups : t # s => setups'[t] = setups[t])
      /\ setups' \in [Setups -> SetupRow \cup {Absent}]
  BY <1>1 DEF SaveSetup
<1>3. FlowShape'
  BY <1>2 DEF FlowsInv, FlowShape, FlowsTypeOK
<1>4. Confirmations'
  BY <1>1, <1>2 DEF FlowsInv, Confirmations, Executing
<1>5. OneEngaged'
  BY <1>1, <1>2 DEF FlowsInv, OneEngaged, Engaged
<1>6. StartedRan'
  BY <1>1, <1>2 DEF FlowsInv, StartedRan, RunsOf
<1> QED BY <1>3, <1>4, <1>5, <1>6 DEF FlowsInv

\* Starting, answering, cancelling and refusing a setup.
LEMMA SetupsSaved ==
  ASSUME WorkConstants, FlowsInv, now \in Nat, NEW s \in Setups,
         \/ StartWorkflowSetup(s) \/ CancelSetup(s) \/ ConfirmRefused(s)
         \/ \E a \in Answers : AnswerWorkflowSetup(s, a)
  PROVE  FlowsInv'
<1>1. setups[s] # Absent => setups[s] \in SetupRow
  BY DEF FlowsInv, FlowShape, FlowsTypeOK
<1>2. now + Ttl \in Nat
  BY DEF WorkConstants
<1>3. CASE StartWorkflowSetup(s)
  <2>1. PICK row : row = [status |-> "collecting", draft |-> Absent, run |-> Absent, expires |-> now + Ttl]
    OBVIOUS
  <2>2. row \in SetupRow /\ row.status # "started"
    BY <1>2, <2>1 DEF SetupRow, SetupStatuses
  <2>3. SaveSetup(s, row) /\ setups[s] = Absent /\ UNCHANGED <<runs, confirming, twice>>
    BY <1>3, <2>1 DEF StartWorkflowSetup
  <2> QED BY <2>2, <2>3, SetupSaved
<1>4. CASE CancelSetup(s)
  <2>1. PICK row : row = [setups[s] EXCEPT !.status = "cancelled"]
    OBVIOUS
  <2>3. SaveSetup(s, row) /\ setups[s] # Absent /\ UNCHANGED <<runs, confirming, twice>>
    BY <1>4, <2>1 DEF CancelSetup
  <2>2. row \in SetupRow /\ row.status = "cancelled"
    BY ONLY <1>1, <2>1, <2>3 DEF SetupRow, SetupStatuses
  <2> QED BY <2>2, <2>3, SetupSaved
<1>5. CASE ConfirmRefused(s)
  <2>1. PICK row : row = [setups[s] EXCEPT !.status = "failed"]
    OBVIOUS
  <2>3. SaveSetup(s, row) /\ setups[s] # Absent /\ UNCHANGED <<runs, confirming, twice>>
    BY <1>5, <2>1 DEF ConfirmRefused
  <2>2. row \in SetupRow /\ row.status = "failed"
    BY ONLY <1>1, <2>1, <2>3 DEF SetupRow, SetupStatuses
  <2> QED BY <2>2, <2>3, SetupSaved
<1>6. ASSUME NEW a \in Answers, AnswerWorkflowSetup(s, a) PROVE FlowsInv'
  <2>1. PICK row : row = Answered(s, a)
    OBVIOUS
  <2>3. SaveSetup(s, row) /\ setups[s] # Absent /\ setups[s].status = "collecting"
        /\ UNCHANGED <<runs, confirming, twice>>
    BY <1>6, <2>1 DEF AnswerWorkflowSetup
  <2>2. row \in SetupRow /\ row.status # "started"
    <3>1. CASE setups[s].expires <= now
      <4>1. row = [setups[s] EXCEPT !.status = "expired"]
        BY <2>1, <3>1 DEF Answered
      <4> QED BY ONLY <1>1, <2>3, <4>1 DEF SetupRow, SetupStatuses
    <3>2. CASE ~(setups[s].expires <= now)
      <4>1. PICK status \in {"awaiting_confirmation", "confirmed"} :
              row = [setups[s] EXCEPT !.draft = a, !.status = status]
        BY <2>1, <3>2 DEF Answered
      <4> QED BY ONLY <1>1, <2>3, <4>1, a \in Answers DEF SetupRow, SetupStatuses
    <3> QED BY <3>1, <3>2
  <2> QED BY <2>2, <2>3, SetupSaved
<1> QED BY <1>3, <1>4, <1>5, <1>6

\* A run begins: of a setup that is up for confirmation, or of none.
LEMMA RunBegun ==
  ASSUME WorkConstants, FlowsInv, NEW r \in Runs,
         \/ \E s \in Setups : ConfirmWorkflowSetup(s, r)
         \/ \E a \in Answers : StartWorkflow(r, a)
  PROVE  FlowsInv'
<1>0. runs \in [Runs -> RunRow \cup {Absent}] /\ setups \in [Setups -> SetupRow \cup {Absent}]
      /\ confirming \in [Runs -> SetupRow \cup {Absent}] /\ twice \in [Setups -> BOOLEAN]
      /\ Absent \notin SetupRow /\ Absent \notin RunRow /\ Absent \notin Setups
  BY DEF FlowsInv, FlowShape, FlowsTypeOK, WorkConstants
<1>1. ASSUME NEW s \in Setups, ConfirmWorkflowSetup(s, r) PROVE FlowsInv'
  <2>1. PICK row : row = [status |-> "running", input |-> setups[s].draft, setup |-> s, live |-> TRUE]
    OBVIOUS
  <2>2. /\ setups[s] \in SetupRow /\ setups[s].status \in {"awaiting_confirmation", "confirmed"}
        /\ runs[r] = Absent /\ runs' = [runs EXCEPT ![r] = row] /\ setups' = setups
        /\ confirming' = [confirming EXCEPT ![r] = setups[s]]
        /\ twice' = [twice EXCEPT ![s] = @ \/ \E q \in Runs : confirming[q] # Absent /\ runs[q].setup = s]
    BY <1>0, <1>1, <2>1 DEF ConfirmWorkflowSetup, MayConfirm, RunStarted, SaveRun
  <2>3. row \in RunRow /\ row # Absent /\ row.status = "running" /\ row.setup = s
        /\ row.input = setups[s].draft
    <3>1. setups[s].draft \in Answers \cup {Absent}
      BY ONLY <2>2 DEF SetupRow
    <3>2. row \in RunRow
      BY <2>1, <3>1 DEF RunRow
    <3> QED BY <1>0, <2>1, <3>2
  <2>4. /\ runs'[r] = row /\ confirming'[r] = setups[s]
        /\ \A q \in Runs : q # r => runs'[q] = runs[q] /\ confirming'[q] = confirming[q]
        /\ runs' \in [Runs -> RunRow \cup {Absent}] /\ confirming' \in [Runs -> SetupRow \cup {Absent}]
    BY ONLY <1>0, <2>2, <2>3, r \in Runs
  <2>5. /\ twice'[s] = (twice[s] \/ \E q \in Runs : confirming[q] # Absent /\ runs[q].setup = s)
        /\ \A t \in Setups : t # s => twice'[t] = twice[t]
        /\ twice' \in [Setups -> BOOLEAN]
    BY <1>0, <2>2
  <2>6. FlowShape'
    <3>1. \A q \in Runs : confirming'[q] # Absent => runs'[q] # Absent
      BY <2>3, <2>4 DEF FlowsInv, FlowShape, FlowsTypeOK
    <3> QED BY <1>0, <2>2, <2>4, <2>5, <3>1 DEF FlowsInv, FlowShape, FlowsTypeOK
  <2>7. Confirmations'
    BY <1>0, <2>2, <2>3, <2>4 DEF FlowsInv, Confirmations, Executing
  <2>8. OneEngaged'
    <3> SUFFICES ASSUME NEW t \in Setups, ~twice'[t]
                 PROVE  /\ \A p, q \in Runs : Engaged(t, p)' /\ Engaged(t, q)' => p = q
                        /\ \A q \in Runs : Engaged(t, q)' /\ confirming'[q] = Absent =>
                             setups'[t] # Absent /\ setups'[t].status \in {"started", "failed", "cancelled"}
      BY DEF OneEngaged
    <3>1. ~twice[t] /\ (t = s => \A q \in Runs : ~(confirming[q] # Absent /\ runs[q].setup = s))
      BY <1>0, <2>5
    <3>2. \A q \in Runs : q # r => (Engaged(t, q)' <=> Engaged(t, q))
      BY <2>4 DEF Engaged
    <3>3. CASE t = s
      <4>1. \A q \in Runs : ~Engaged(s, q)
        BY <2>2, <3>1, <3>3 DEF FlowsInv, OneEngaged, Engaged
      <4> QED BY <1>0, <2>2, <2>4, <3>2, <3>3, <4>1
    <3>4. CASE t # s
      <4>1. ~Engaged(t, r)'
        BY <2>3, <2>4, <3>4 DEF Engaged
      <4> QED BY <2>2, <2>4, <3>1, <3>2, <4>1 DEF FlowsInv, OneEngaged
    <3> QED BY <3>3, <3>4
  <2>9. StartedRan'
    BY <2>2, <2>4 DEF FlowsInv, StartedRan, RunsOf
  <2> QED BY <2>6, <2>7, <2>8, <2>9 DEF FlowsInv
<1>2. ASSUME NEW a \in Answers, StartWorkflow(r, a) PROVE FlowsInv'
  <2>1. PICK row : row = [status |-> "running", input |-> a, setup |-> Absent, live |-> TRUE]
    OBVIOUS
  <2>2. runs[r] = Absent /\ runs' = [runs EXCEPT ![r] = row]
        /\ UNCHANGED <<setups, confirming, twice>>
    BY <1>2, <2>1 DEF StartWorkflow, RunStarted, SaveRun
  <2>3. row \in RunRow /\ row # Absent /\ row.status = "running" /\ row.setup = Absent
    <3>1. row \in RunRow
      BY <2>1 DEF RunRow
    <3> QED BY <1>0, <2>1, <3>1
  <2>4. runs'[r] = row /\ (\A q \in Runs : q # r => runs'[q] = runs[q])
        /\ runs' \in [Runs -> RunRow \cup {Absent}]
    BY ONLY <1>0, <2>2, <2>3, r \in Runs
  <2>5. confirming[r] = Absent
    BY <2>2 DEF FlowsInv, Confirmations
  <2>6. FlowShape'
    BY <1>0, <2>2, <2>3, <2>4 DEF FlowsInv, FlowShape, FlowsTypeOK
  <2>7. Confirmations'
    BY <2>2, <2>3, <2>4, <2>5 DEF FlowsInv, Confirmations, Executing
  <2>8. OneEngaged'
    <3>1. \A t \in Setups : ~Engaged(t, r)'
      BY <1>0, <2>3, <2>4 DEF Engaged
    <3>2. \A t \in Setups, q \in Runs : q # r => (Engaged(t, q)' <=> Engaged(t, q))
      BY <2>2, <2>4 DEF Engaged
    <3> QED BY <2>2, <3>1, <3>2 DEF FlowsInv, OneEngaged
  <2>9. StartedRan'
    BY <2>2, <2>4 DEF FlowsInv, StartedRan, RunsOf
  <2> QED BY <2>6, <2>7, <2>8, <2>9 DEF FlowsInv
<1> QED BY <1>1, <1>2

\* A run returned or threw: its row and its confirmation change, if anything.
LEMMA RunEnded ==
  ASSUME WorkConstants, FlowsInv, NEW r \in Runs, NEW ok \in BOOLEAN, RunEnds(r, ok)
  PROVE  FlowsInv'
<1>0. runs \in [Runs -> RunRow \cup {Absent}] /\ setups \in [Setups -> SetupRow \cup {Absent}]
      /\ confirming \in [Runs -> SetupRow \cup {Absent}] /\ twice \in [Setups -> BOOLEAN]
      /\ Absent \notin SetupRow /\ Absent \notin RunRow /\ Absent \notin Setups
  BY DEF FlowsInv, FlowShape, FlowsTypeOK, WorkConstants
<1>1. PICK status \in {"completed", "failed"} : (status = "completed" <=> ok)
        /\ status = IF ok THEN "completed" ELSE "failed"
  OBVIOUS
<1>2. PICK row : row = [runs[r] EXCEPT !.status = status, !.live = FALSE]
  OBVIOUS
<1>3. runs[r] \in RunRow /\ runs[r].status = "running" /\ runs[r].live
      /\ runs' = [runs EXCEPT ![r] = row] /\ UNCHANGED <<setups, twice>>
      /\ confirming' = [confirming EXCEPT ![r] = IF ok THEN @ ELSE Absent]
  BY <1>0, <1>1, <1>2 DEF RunEnds, Executing, SaveRun
<1>4. row \in RunRow /\ row.status = status /\ row.setup = runs[r].setup /\ row.input = runs[r].input
      /\ row.live = FALSE
  BY ONLY <1>1, <1>2, <1>3 DEF RunRow
<1>5. /\ runs'[r] = row /\ \A q \in Runs : q # r => runs'[q] = runs[q] /\ confirming'[q] = confirming[q]
      /\ confirming'[r] = IF ok THEN confirming[r] ELSE Absent
      /\ runs' \in [Runs -> RunRow \cup {Absent}] /\ confirming' \in [Runs -> SetupRow \cup {Absent}]
  BY <1>0, <1>3, <1>4
<1>6. runs[r] # Absent /\ row # Absent
  BY <1>0, <1>3, <1>4
<1>7. FlowShape'
  <2>1. \A q \in Runs : confirming'[q] # Absent => runs'[q] # Absent
    BY <1>5, <1>6 DEF FlowsInv, FlowShape, FlowsTypeOK
  <2> QED BY <1>0, <1>3, <1>5, <2>1 DEF FlowsInv, FlowShape, FlowsTypeOK
<1>8. Confirmations'
  <2> SUFFICES ASSUME NEW q \in Runs
               PROVE  /\ confirming'[q] # Absent =>
                           /\ runs'[q] # Absent /\ runs'[q].setup \in Setups
                           /\ runs'[q].input = confirming'[q].draft /\ setups'[runs'[q].setup] # Absent
                           /\ runs'[q].status \in {"running", "completed"}
                      /\ runs'[q] # Absent /\ runs'[q].setup # Absent /\ Executing(q)' =>
                           confirming'[q] # Absent
    BY DEF Confirmations
  <2>1. CASE q = r
    BY <1>1, <1>3, <1>4, <1>5, <1>6, <2>1 DEF FlowsInv, Confirmations, Executing
  <2>2. CASE q # r
    <3>1. Executing(q)' <=> Executing(q)
      BY <1>5, <2>2 DEF Executing
    <3> QED BY <1>3, <1>5, <2>2, <3>1 DEF FlowsInv, Confirmations
  <2> QED BY <2>1, <2>2
<1>9. OneEngaged'
  <2>1. \A s \in Setups : Engaged(s, r)' => Engaged(s, r) /\ confirming'[r] = confirming[r]
    <3> SUFFICES ASSUME NEW s \in Setups, Engaged(s, r)'
                 PROVE  Engaged(s, r) /\ confirming'[r] = confirming[r]
      OBVIOUS
    <3>1. runs[r].setup = s /\ (ok \/ confirming'[r] # Absent)
      BY <1>1, <1>4, <1>5 DEF Engaged
    <3>2. confirming[r] # Absent
      BY <1>0, <1>3, <1>6, <3>1 DEF FlowsInv, Confirmations, Executing
    <3> QED BY <1>5, <1>6, <3>1, <3>2 DEF Engaged
  <2>2. \A s \in Setups, q \in Runs : q # r => (Engaged(s, q)' <=> Engaged(s, q))
    BY <1>5 DEF Engaged
  <2>3. \A s \in Setups, q \in Runs : Engaged(s, q)' => Engaged(s, q) /\ confirming'[q] = confirming[q]
    BY <1>5, <2>1, <2>2
  <2> QED BY <1>3, <2>3 DEF FlowsInv, OneEngaged
<1>10. StartedRan'
  <2> SUFFICES ASSUME NEW s \in Setups, setups'[s] # Absent, setups'[s].status = "started"
               PROVE  /\ setups'[s].run \in RunsOf(s, "completed")'
                      /\ runs'[setups'[s].run].input = setups'[s].draft
    BY DEF StartedRan
  <2>1. PICK q \in Runs : q = setups[s].run /\ runs[q] # Absent /\ runs[q].setup = s
                          /\ runs[q].status = "completed" /\ runs[q].input = setups[s].draft
    BY <1>3 DEF FlowsInv, StartedRan, RunsOf
  <2>2. q # r /\ runs'[q] = runs[q]
    BY <1>3, <1>5, <2>1
  <2> QED BY <1>3, <2>1, <2>2 DEF RunsOf
<1> QED BY <1>7, <1>8, <1>9, <1>10 DEF FlowsInv

\* The confirmation marks the setup as started, with the run that completed.
LEMMA SetupStarted ==
  ASSUME WorkConstants, FlowsInv, NEW r \in Runs, ConfirmReturns(r)
  PROVE  FlowsInv'
<1>0. runs \in [Runs -> RunRow \cup {Absent}] /\ setups \in [Setups -> SetupRow \cup {Absent}]
      /\ confirming \in [Runs -> SetupRow \cup {Absent}] /\ twice \in [Setups -> BOOLEAN]
      /\ Absent \notin SetupRow /\ Absent \notin RunRow /\ Absent \notin Setups
  BY DEF FlowsInv, FlowShape, FlowsTypeOK, WorkConstants
<1>1. PICK s \in Setups : s = runs[r].setup
  BY DEF FlowsInv, Confirmations, ConfirmReturns
<1>2. PICK row : row = StartedRow(r)
  OBVIOUS
<1>3. /\ confirming[r] \in SetupRow /\ runs[r] # Absent /\ runs[r].status = "completed"
      /\ runs[r].input = confirming[r].draft
      /\ setups' = [setups EXCEPT ![s] = row] /\ confirming' = [confirming EXCEPT ![r] = Absent]
      /\ UNCHANGED <<runs, twice>>
  BY <1>0, <1>1, <1>2 DEF FlowsInv, Confirmations, ConfirmReturns, SaveSetup
<1>4. row \in SetupRow /\ row.status = "started" /\ row.run = r /\ row.draft = confirming[r].draft
  <2>1. row = [confirming[r] EXCEPT !.status = "started", !.run = r]
    BY <1>2 DEF StartedRow
  <2> QED BY <1>3, <2>1 DEF SetupRow, SetupStatuses
<1>5. /\ setups'[s] = row /\ \A t \in Setups : t # s => setups'[t] = setups[t]
      /\ confirming'[r] = Absent /\ \A q \in Runs : q # r => confirming'[q] = confirming[q]
      /\ setups' \in [Setups -> SetupRow \cup {Absent}] /\ confirming' \in [Runs -> SetupRow \cup {Absent}]
      /\ row # Absent
  BY <1>0, <1>3, <1>4
<1>6. FlowShape'
  BY <1>0, <1>3, <1>5 DEF FlowsInv, FlowShape, FlowsTypeOK
<1>7. Confirmations'
  <2>1. \A t \in Setups : setups[t] # Absent => setups'[t] # Absent
    BY <1>5
  <2>2. ~Executing(r)
    BY <1>3 DEF Executing
  <2>3. \A q \in Runs : Executing(q)' <=> Executing(q)
    BY <1>3 DEF Executing
  <2> QED BY <1>3, <1>5, <2>1, <2>2, <2>3 DEF FlowsInv, Confirmations
<1>8. OneEngaged'
  <2>1. \A t \in Setups, q \in Runs : Engaged(t, q)' <=> Engaged(t, q)
    BY <1>3, <1>5 DEF Engaged
  <2> SUFFICES ASSUME NEW t \in Setups, ~twice'[t]
               PROVE  /\ \A p, q \in Runs : Engaged(t, p)' /\ Engaged(t, q)' => p = q
                      /\ \A q \in Runs : Engaged(t, q)' /\ confirming'[q] = Absent =>
                           setups'[t] # Absent /\ setups'[t].status \in {"started", "failed", "cancelled"}
    BY DEF OneEngaged
  <2>2. \A p, q \in Runs : Engaged(t, p)' /\ Engaged(t, q)' => p = q
    BY <1>3, <2>1 DEF FlowsInv, OneEngaged
  <2>3. CASE t = s
    BY <1>4, <1>5, <2>2, <2>3
  <2>4. CASE t # s
    <3>1. ~Engaged(t, r)
      BY <1>1, <2>4 DEF Engaged
    <3> QED BY <1>3, <1>5, <2>1, <2>2, <2>4, <3>1 DEF FlowsInv, OneEngaged
  <2> QED BY <2>3, <2>4
<1>9. StartedRan'
  <2> SUFFICES ASSUME NEW t \in Setups, setups'[t] # Absent, setups'[t].status = "started"
               PROVE  /\ setups'[t].run \in RunsOf(t, "completed")'
                      /\ runs'[setups'[t].run].input = setups'[t].draft
    BY DEF StartedRan
  <2>1. CASE t = s
    BY <1>1, <1>3, <1>4, <1>5, <2>1 DEF RunsOf
  <2>2. CASE t # s
    BY <1>3, <1>5, <2>2 DEF FlowsInv, StartedRan, RunsOf
  <2> QED BY <2>1, <2>2
<1> QED BY <1>6, <1>7, <1>8, <1>9 DEF FlowsInv

\* A crash forgets the confirmations and the runs under way.
LEMMA FlowsCrashed ==
  ASSUME WorkConstants, FlowsInv, FlowsCrash
  PROVE  FlowsInv'
<1>0. runs \in [Runs -> RunRow \cup {Absent}] /\ setups \in [Setups -> SetupRow \cup {Absent}]
      /\ confirming \in [Runs -> SetupRow \cup {Absent}] /\ twice \in [Setups -> BOOLEAN]
      /\ Absent \notin SetupRow /\ Absent \notin RunRow /\ Absent \notin Setups
  BY DEF FlowsInv, FlowShape, FlowsTypeOK, WorkConstants
<1>1. \A r \in Runs : /\ runs'[r] # Absent <=> runs[r] # Absent
                      /\ runs[r] # Absent => /\ runs'[r] \in RunRow
                                             /\ runs'[r].status = runs[r].status
                                             /\ runs'[r].setup = runs[r].setup
                                             /\ runs'[r].input = runs[r].input
                                             /\ ~Executing(r)'
                      /\ confirming'[r] = Absent
  <2> SUFFICES ASSUME NEW r \in Runs
               PROVE  /\ runs'[r] # Absent <=> runs[r] # Absent
                      /\ runs[r] # Absent => /\ runs'[r] \in RunRow
                                             /\ runs'[r].status = runs[r].status
                                             /\ runs'[r].setup = runs[r].setup
                                             /\ runs'[r].input = runs[r].input
                                             /\ ~Executing(r)'
                      /\ confirming'[r] = Absent
    OBVIOUS
  <2>1. confirming'[r] = Absent
    BY DEF FlowsCrash
  <2>2. CASE Executing(r)
    <3>1. runs[r] \in RunRow /\ runs'[r] = [runs[r] EXCEPT !.live = FALSE]
      BY <1>0, <2>2 DEF FlowsCrash, Executing
    <3>2. runs'[r] \in RunRow /\ runs'[r].status = runs[r].status /\ runs'[r].setup = runs[r].setup
          /\ runs'[r].input = runs[r].input /\ runs'[r].live = FALSE
      BY ONLY <3>1 DEF RunRow
    <3> QED BY <1>0, <2>1, <3>1, <3>2 DEF Executing
  <2>3. CASE ~Executing(r)
    <3>1. runs'[r] = runs[r]
      BY <2>3 DEF FlowsCrash
    <3> QED BY <1>0, <2>1, <2>3, <3>1 DEF Executing
  <2> QED BY <2>2, <2>3
<1>2. runs' \in [Runs -> RunRow \cup {Absent}]
  <2>1. DOMAIN runs' = Runs /\ runs' = [r \in Runs |-> runs'[r]]
    BY DEF FlowsCrash
  <2> QED BY <1>0, <1>1, <2>1
<1>3. confirming' \in [Runs -> SetupRow \cup {Absent}] /\ twice' \in [Setups -> BOOLEAN] /\ setups' = setups
  BY DEF FlowsCrash
<1>4. FlowShape'
  BY <1>0, <1>1, <1>2, <1>3 DEF FlowShape, FlowsTypeOK
<1>5. Confirmations'
  BY <1>1 DEF Confirmations, Executing
<1>6. OneEngaged'
  <2> SUFFICES ASSUME NEW s \in Setups, ~twice'[s]
               PROVE  /\ \A p, q \in Runs : Engaged(s, p)' /\ Engaged(s, q)' => p = q
                      /\ \A q \in Runs : Engaged(s, q)' =>
                           setups'[s] # Absent /\ setups'[s].status \in {"started", "failed", "cancelled"}
    BY DEF OneEngaged
  <2>1. ~twice[s] /\ \A r \in Runs : ~(confirming[r] # Absent /\ runs[r].setup = s /\ runs[r].status = "completed")
    BY DEF FlowsCrash
  <2>2. \A q \in Runs : Engaged(s, q)' => Engaged(s, q) /\ confirming[q] = Absent
    BY <1>1, <2>1 DEF Engaged
  <2> QED BY <1>3, <2>1, <2>2 DEF FlowsInv, OneEngaged
<1>7. StartedRan'
  <2> SUFFICES ASSUME NEW s \in Setups, setups'[s] # Absent, setups'[s].status = "started"
               PROVE  /\ setups'[s].run \in RunsOf(s, "completed")'
                      /\ runs'[setups'[s].run].input = setups'[s].draft
    BY DEF StartedRan
  <2>1. PICK q \in Runs : q = setups[s].run /\ runs[q] # Absent /\ runs[q].setup = s
                          /\ runs[q].status = "completed" /\ runs[q].input = setups[s].draft
    BY <1>3 DEF FlowsInv, StartedRan, RunsOf
  <2> QED BY <1>1, <1>3, <2>1 DEF RunsOf
<1> QED BY <1>4, <1>5, <1>6, <1>7 DEF FlowsInv

\* Of a setup that engages one run no two runs have completed.
LEMMA OneCompleted == FlowsInv => CompletesOnce
<1> SUFFICES ASSUME FlowsInv, NEW s \in Setups, ~twice[s]
             PROVE  Cardinality(RunsOf(s, "completed")) <= 1
  BY DEF CompletesOnce
<1>1. PICK S : S = RunsOf(s, "completed")
  OBVIOUS
<1>2. \A q, r \in S : q = r
  BY <1>1 DEF FlowsInv, OneEngaged, Engaged, RunsOf
<1>3. CASE S = {}
  BY ONLY <1>1, <1>3, FS_EmptySet
<1>4. CASE S # {}
  <2>1. PICK q \in S : S = {q}
    BY <1>2, <1>4
  <2>2. Cardinality({q}) = 1
    BY FS_Singleton
  <2> QED BY ONLY <1>1, <2>1, <2>2
<1> QED BY <1>3, <1>4

-----------------------------------------------------------------------------
(* The arithmetic of schedules.                                            *)

\* A set of numbers has a least element, unless it is empty.
NatLess == {pair \in Nat \X Nat : pair[1] < pair[2]}
LEMMA LeastNumber == ASSUME NEW S \in SUBSET Nat, S # {} PROVE \E x \in S : \A y \in S : x <= y
<1>1. IsWellFoundedOn(NatLess, Nat)
  BY NatLessThanWellFounded DEF OpToRel, NatLess
<1>2. PICK x \in S : \A y \in S : <<y, x>> \notin NatLess
  BY <1>1, WFMin
<1>3. ASSUME NEW y \in S PROVE x <= y
  <2>1. <<y, x>> \notin NatLess /\ x \in Nat /\ y \in Nat
    BY <1>2
  <2>2. ~(y < x)
    BY <2>1 DEF NatLess
  <2> QED BY <2>1, <2>2
<1> QED BY <1>3

\* Division rounded down and up, and multiples.
LEMMA Division ==
  ASSUME NEW a \in Int, NEW c \in Int, c > 0
  PROVE  /\ a \div c \in Int /\ c * (a \div c) \in Int
         /\ c * (a \div c) <= a /\ a < c * (a \div c) + c
         /\ a % c = 0 => a = c * (a \div c)
OBVIOUS

LEMMA Product == ASSUME NEW p \in Int, NEW q \in Int PROVE p * q \in Int /\ p * q = q * p
OBVIOUS

LEMMA ProductGrows ==
  ASSUME NEW p \in Int, NEW q \in Int, NEW c \in Int, c > 0, p < q
  PROVE  p * c \in Int /\ q * c \in Int /\ p * c + c <= q * c
OBVIOUS

LEMMA Multiple == ASSUME NEW p \in Int, NEW c \in Int, c > 0 PROVE (c * p) % c = 0
OBVIOUS

LEMMA RoundedUp ==
  ASSUME NEW a \in Nat, NEW c \in Nat \ {0}
  PROVE  /\ CeilDiv(a, c) \in Nat
         /\ c * CeilDiv(a, c) \in Nat /\ c * CeilDiv(a, c) >= a
         /\ \A p \in Int : c * p >= a => p >= CeilDiv(a, c)
<1>1. PICK q \in Int : q = (a + c - 1) \div c /\ c * q \in Int /\ c * q <= a + c - 1 /\ a + c - 1 < c * q + c
  BY a + c - 1 \in Int, c \in Int, c > 0, Division
<1>2. CeilDiv(a, c) = q /\ c * q >= a
  BY <1>1 DEF CeilDiv
<1>3. q >= 0
  <2>1. SUFFICES ASSUME q < 0 PROVE FALSE
    OBVIOUS
  <2>2. q * c + c <= 0 * c
    BY <1>1, <2>1, ProductGrows
  <2> QED BY <1>1, <1>2, <2>2, Product
<1>4. ASSUME NEW p \in Int, c * p >= a PROVE p >= q
  <2>1. SUFFICES ASSUME p < q PROVE FALSE
    OBVIOUS
  <2>2. p * c + c <= q * c /\ p * c \in Int /\ p * c = c * p /\ q * c = c * q
    BY <1>1, <2>1, ProductGrows, Product
  <2> QED BY <1>1, <1>4, <2>2
<1> QED BY <1>1, <1>2, <1>3, <1>4

\* What a schedule is once it is parsed.
MetaForm(meta) ==
  \/ meta.kind = "interval" /\ meta.cadence \in Nat \ {0}
  \/ meta.kind = "once" /\ meta.at \in Nat
  \/ meta.kind = "cron"

LEMMA Parsed == ASSUME WorkConstants, NEW meta \in Metas PROVE MetaForm(meta)
<1>1. PICK r \in Requests : meta = ParseSchedule(r.schedule) /\ meta # Invalid
  BY DEF Metas
<1>2. ScheduleOK(r.schedule)
  BY DEF WorkConstants
<1>3. PICK schedule : schedule = r.schedule
  OBVIOUS
<1>4. CASE schedule.kind = "interval"
  <2>1. schedule.amount \in Int /\ schedule.unit \in Nat \ {0}
    BY <1>2, <1>3, <1>4 DEF ScheduleOK
  <2>2. meta = ParseInterval(schedule)
    BY <1>1, <1>3, <1>4 DEF ParseSchedule
  <2>3. schedule.amount > 0 /\ meta = [kind |-> "interval", cadence |-> schedule.amount * schedule.unit]
    BY <1>1, <2>1, <2>2 DEF ParseInterval
  <2>4. schedule.amount * schedule.unit \in Nat \ {0}
    BY <2>1, <2>3
  <2> QED BY <2>3, <2>4 DEF MetaForm
<1>5. CASE schedule.kind = "once"
  <2>1. schedule.at \in Nat \cup {Star} /\ meta = ParseOnce(schedule)
    BY <1>1, <1>2, <1>3, <1>5 DEF ScheduleOK, ParseSchedule
  <2> QED BY <1>1, <2>1 DEF ParseOnce, MetaForm
<1>6. CASE schedule.kind = "cron"
  BY <1>1, <1>3, <1>6 DEF ParseSchedule, ParseCron, MetaForm
<1> QED BY <1>2, <1>3, <1>4, <1>5, <1>6 DEF ScheduleOK

\* How far FirstNotRun looks ahead.
Ahead == MaxTime + 2 * Minute

\* v is the first occurrence from a time on, or there is none as far as one looks ahead.
FirstFrom(meta, anchor, reference, v) ==
  /\ v \in Nat \cup {Never}
  /\ v # Never => /\ v >= reference /\ Occurs(meta, anchor, v)
                  /\ \A t \in Nat : reference <= t /\ t < v => ~Occurs(meta, anchor, t)
  /\ v = Never => \A t \in Nat : reference <= t /\ t <= Ahead => ~Occurs(meta, anchor, t)

LEMMA IntervalFirst ==
  ASSUME WorkConstants, NEW meta, meta.kind = "interval", meta.cadence \in Nat \ {0},
         NEW anchor \in Nat, NEW reference \in Nat
  PROVE  FirstFrom(meta, anchor, reference, IntervalRunAtOrAfter(anchor, meta.cadence, reference))
<1>1. PICK c \in Nat \ {0} : c = meta.cadence * Minute
  <2>1. meta.cadence * Minute \in Nat \ {0}
    BY DEF WorkConstants
  <2> QED BY <2>1
<1>2. PICK v : v = IntervalRunAtOrAfter(anchor, meta.cadence, reference)
  OBVIOUS
<1>3. \A t : Occurs(meta, anchor, t) <=> t >= anchor /\ (t - anchor) % c = 0
  BY <1>1 DEF Occurs
<1>n. Never \notin Nat
  BY DEF WorkConstants
<1>4. CASE reference <= anchor
  <2>1. v = anchor
    BY <1>2, <1>4 DEF IntervalRunAtOrAfter
  <2>2. (anchor - anchor) % c = 0
    OBVIOUS
  <2>3. Occurs(meta, anchor, v) /\ \A t \in Nat : t < v => ~Occurs(meta, anchor, t)
    BY <1>3, <2>1, <2>2
  <2> QED BY <1>2, <1>4, <1>n, <2>1, <2>3 DEF FirstFrom
<1>5. CASE reference > anchor
  <2>1. PICK q : q = CeilDiv(reference - anchor, c)
    OBVIOUS
  <2>2. q \in Nat /\ c * q \in Nat /\ c * q >= reference - anchor
        /\ \A p \in Int : c * p >= reference - anchor => p >= q
    BY <1>5, <2>1, reference - anchor \in Nat, RoundedUp
  <2>3. v = anchor + c * q
    <3>1. v = anchor + q * meta.cadence * Minute
      BY <1>1, <1>2, <1>5, <2>1 DEF IntervalRunAtOrAfter
    <3>2. q * meta.cadence * Minute = c * q
      BY <1>1, <2>2 DEF WorkConstants
    <3> QED BY <3>1, <3>2
  <2>4. v \in Nat /\ v >= reference /\ v >= anchor /\ v - anchor = c * q
    BY <1>5, <2>2, <2>3
  <2>5. Occurs(meta, anchor, v)
    BY <1>3, <2>2, <2>4, Multiple
  <2>6. ASSUME NEW t \in Nat, reference <= t, t < v, Occurs(meta, anchor, t) PROVE FALSE
    <3>1. t - anchor \in Int /\ (t - anchor) % c = 0
      BY <1>3, <2>6
    <3>2. PICK p \in Int : t - anchor = c * p
      <4>1. c \in Int /\ c > 0
        OBVIOUS
      <4>2. PICK a \in Int : a = t - anchor
        BY <3>1
      <4>3. a % c = 0
        BY <3>1, <4>2
      <4>4. a = c * (a \div c) /\ a \div c \in Int
        BY ONLY <4>1, <4>2, <4>3, Division
      <4> QED BY <4>2, <4>4
    <3>3. p >= q
      BY <2>2, <2>6, <3>2
    <3>4. p = q \/ q * c + c <= p * c
      BY <2>2, <3>3, ProductGrows
    <3>5. c * p >= c * q
      BY <2>2, <3>2, <3>4, Product
    <3> QED BY <2>4, <2>6, <3>2, <3>5
  <2> QED BY <1>2, <1>n, <2>4, <2>5, <2>6 DEF FirstFrom
<1> QED BY <1>4, <1>5

LEMMA CronFirst ==
  ASSUME WorkConstants, NEW meta, meta.kind = "cron", NEW anchor \in Nat, NEW reference \in Nat
  PROVE  FirstFrom(meta, anchor, reference, CronRunAtOrAfter(meta, anchor, reference))
<1>n. Never \notin Nat /\ Minute \in Nat \ {0} /\ CronLimit \in Nat /\ MaxTime \in Nat
      /\ CronLimit * Minute > Ahead
  BY DEF WorkConstants, Ahead
<1>1. PICK v : v = CronRunAtOrAfter(meta, anchor, reference)
  OBVIOUS
<1>2. PICK from \in Nat : from = Later(anchor, reference) /\ from >= anchor /\ from >= reference
        /\ \A t \in Nat : t >= anchor /\ t >= reference => t >= from
  BY DEF Later
<1>3. PICK first : first = CeilDiv(from, Minute)
  OBVIOUS
<1>4. first \in Nat /\ Minute * first \in Nat /\ Minute * first >= from
      /\ \A p \in Int : Minute * p >= from => p >= first
  BY <1>3, <1>n, RoundedUp
<1>5. PICK found : found = {m \in first .. (first + CronLimit - 1) : CronMatches(meta, m * Minute)}
  OBVIOUS
<1>6. v = IF found = {} THEN Never ELSE Minute * (CHOOSE m \in found : \A k \in found : m <= k)
  BY <1>1, <1>2, <1>3, <1>5 DEF CronRunAtOrAfter
<1>7. \A t : Occurs(meta, anchor, t) <=> t >= anchor /\ t % Minute = 0 /\ CronMatches(meta, t)
  BY DEF Occurs
<1>8. ASSUME NEW t \in Nat, reference <= t, Occurs(meta, anchor, t)
      PROVE  \E p \in Int : t = Minute * p /\ t = p * Minute /\ p >= first /\ CronMatches(meta, p * Minute)
  <2>1. t % Minute = 0 /\ t >= from /\ CronMatches(meta, t)
    BY <1>2, <1>7, <1>8
  <2>2. PICK p \in Int : t = Minute * p
    BY <1>n, <2>1, Division
  <2>3. t = p * Minute
    BY <1>n, <2>2, Product
  <2>4. p >= first
    BY <1>4, <2>1, <2>2
  <2> QED BY <2>1, <2>2, <2>3, <2>4
<1>9. CASE found = {}
  <2>1. v = Never
    BY <1>6, <1>9
  <2>2. ASSUME NEW t \in Nat, reference <= t, t <= Ahead, Occurs(meta, anchor, t) PROVE FALSE
    <3>1. PICK p \in Int : t = p * Minute /\ p >= first /\ CronMatches(meta, p * Minute)
      BY <1>8, <2>2
    <3>2. ~(p <= first + CronLimit - 1)
      <4>1. SUFFICES ASSUME p <= first + CronLimit - 1 PROVE FALSE
        OBVIOUS
      <4>2. p \in first .. (first + CronLimit - 1)
        BY <1>4, <1>n, <3>1, <4>1
      <4> QED BY ONLY <1>5, <1>9, <3>1, <4>2
    <3>3. CronLimit < p \/ CronLimit = p
      BY <1>4, <1>n, <3>2
    <3>4. CronLimit * Minute <= p * Minute
      <4>1. Minute \in Int /\ Minute > 0 /\ CronLimit \in Int
        BY <1>n
      <4>2. CASE CronLimit = p
        BY <4>1, <4>2
      <4>3. CASE CronLimit < p
        <5>1. CronLimit * Minute \in Int /\ p * Minute \in Int /\ CronLimit * Minute + Minute <= p * Minute
          BY <4>1, <4>3, ProductGrows
        <5> QED BY <4>1, <5>1
      <4> QED BY <3>3, <4>2, <4>3
    <3>5. Ahead \in Int /\ CronLimit * Minute \in Int
      BY <1>n DEF Ahead
    <3> QED BY <1>n, <2>2, <3>1, <3>4, <3>5
  <2> QED BY <1>1, <2>1, <2>2, <1>n DEF FirstFrom
<1>10. CASE found # {}
  <2>1. found \in SUBSET Nat
    BY <1>4, <1>5, <1>n
  <2>2. PICK m : m = CHOOSE x \in found : \A k \in found : x <= k
    OBVIOUS
  <2>3. m \in found /\ \A k \in found : m <= k
    BY <1>10, <2>1, <2>2, LeastNumber
  <2>4. m \in Nat /\ m >= first /\ m <= first + CronLimit - 1 /\ CronMatches(meta, m * Minute)
    BY <1>4, <1>5, <1>n, <2>3
  <2>5. v = Minute * m /\ v = m * Minute
    BY <1>6, <1>10, <1>n, <2>2, <2>4, Product
  <2>6. v \in Nat /\ v >= from
    <3>1. m = first \/ first * Minute + Minute <= m * Minute
      BY <1>4, <1>n, <2>4, ProductGrows
    <3>2. v \in Nat
      BY <1>n, <2>4, <2>5
    <3> QED BY <1>2, <1>4, <1>n, <2>5, <3>1, <3>2, Product
  <2>7. Occurs(meta, anchor, v)
    <3>1. v % Minute = 0
      BY <1>n, <2>4, <2>5, Multiple
    <3> QED BY <1>2, <1>7, <2>4, <2>5, <2>6, <3>1
  <2>8. ASSUME NEW t \in Nat, reference <= t, t < v, Occurs(meta, anchor, t) PROVE FALSE
    <3>1. PICK p \in Int : t = p * Minute /\ p >= first /\ CronMatches(meta, p * Minute)
      BY <1>8, <2>8
    <3>2. p < m
      <4>1. SUFFICES ASSUME p >= m PROVE FALSE
        BY <2>4
      <4>2. p = m \/ m * Minute + Minute <= p * Minute
        BY <1>n, <2>4, <4>1, ProductGrows
      <4> QED BY <1>n, <2>5, <2>6, <2>8, <3>1, <4>2
    <3>3. p \in found
      BY <1>4, <1>5, <1>n, <2>4, <3>1, <3>2
    <3> QED BY <2>3, <2>4, <3>2, <3>3
  <2> QED BY <1>1, <1>2, <1>n, <2>6, <2>7, <2>8 DEF FirstFrom
<1> QED BY <1>9, <1>10

\* runAtOrAfter finds the first occurrence, and what follows a run is the next one.
LEMMA RunIsFirst ==
  ASSUME WorkConstants, NEW meta, MetaForm(meta), NEW anchor \in Nat, NEW reference \in Nat
  PROVE  FirstFrom(meta, anchor, reference, RunAtOrAfter(meta, anchor, reference))
<1>1. CASE meta.kind = "interval" /\ meta.cadence \in Nat \ {0}
  BY <1>1, IntervalFirst DEF RunAtOrAfter
<1>2. CASE meta.kind = "once" /\ meta.at \in Nat
  BY <1>2 DEF RunAtOrAfter, Occurs, FirstFrom, WorkConstants
<1>3. CASE meta.kind = "cron"
  BY <1>3, CronFirst DEF RunAtOrAfter
<1> QED BY <1>1, <1>2, <1>3 DEF MetaForm

LEMMA NextIsFirst ==
  ASSUME WorkConstants, NEW meta, MetaForm(meta), NEW anchor \in Nat, NEW t \in Nat,
         Occurs(meta, anchor, t)
  PROVE  FirstFrom(meta, anchor, t + 1, NextRun(meta, anchor, t))
<1>1. CASE meta.kind = "once"
  BY <1>1 DEF NextRun, Occurs, FirstFrom, WorkConstants
<1>2. CASE meta.kind # "once"
  BY <1>2, t + 1 \in Nat, RunIsFirst DEF NextRun
<1> QED BY <1>1, <1>2

-----------------------------------------------------------------------------
(* The queues of the jobs.                                                 *)

\* A tick is in the queue f[j]; no queue has a tick twice.
Queued(k, f, j) == \E n \in 1 .. Len(f[j]) : f[j][n] = k
Apart(f) == \A j \in PackageJobIds : \A m, n \in 1 .. Len(f[j]) : f[j][m] = f[j][n] => m = n

\* g is f with k at the end of the queue of h.
Pushed(f, g, h, k) ==
  /\ f \in [PackageJobIds -> Seq(Ticks)] /\ Apart(f)
  /\ \A i \in PackageJobIds : ~Queued(k, f, i)
  /\ g \in [PackageJobIds -> Seq(Ticks)]
  /\ g[h] = Append(f[h], k) /\ \A i \in PackageJobIds : i # h => g[i] = f[i]

Joined(f, g, h, k) ==
  /\ Apart(g)
  /\ \A q \in Ticks, i \in PackageJobIds : Queued(q, g, i) <=> Queued(q, f, i) \/ (q = k /\ i = h)
  /\ \A i \in PackageJobIds : f[i] # <<>> => g[i] # <<>> /\ Head(g[i]) = Head(f[i])

LEMMA JoinsQueue ==
  ASSUME NEW f, NEW h \in PackageJobIds, NEW k \in Ticks, NEW g, Pushed(f, g, h, k)
  PROVE  Joined(f, g, h, k)
<1>1. /\ f \in [PackageJobIds -> Seq(Ticks)] /\ Apart(f)
      /\ \A i \in PackageJobIds : ~Queued(k, f, i)
      /\ g \in [PackageJobIds -> Seq(Ticks)]
      /\ g[h] = Append(f[h], k) /\ \A j \in PackageJobIds : j # h => g[j] = f[j]
  BY DEF Pushed
<1>2. /\ Len(g[h]) = Len(f[h]) + 1 /\ g[h][Len(f[h]) + 1] = k /\ Len(f[h]) \in Nat
      /\ \A n \in 1 .. Len(f[h]) : g[h][n] = f[h][n]
  BY <1>1
<1>3. ~Queued(k, f, h)
  BY <1>1
<1>4. Apart(g)
  <2> SUFFICES ASSUME NEW j \in PackageJobIds, NEW m \in 1 .. Len(g[j]), NEW n \in 1 .. Len(g[j]),
                      g[j][m] = g[j][n]
               PROVE  m = n
    BY DEF Apart
  <2>1. CASE j # h
    BY <1>1, <2>1 DEF Apart
  <2>2. CASE j = h
    <3>1. m \in 1 .. Len(f[h]) \/ m = Len(f[h]) + 1
      BY <1>2, <2>2
    <3>2. n \in 1 .. Len(f[h]) \/ n = Len(f[h]) + 1
      BY <1>2, <2>2
    <3> QED BY <1>1, <1>2, <1>3, <2>2, <3>1, <3>2 DEF Apart, Queued
  <2> QED BY <2>1, <2>2
<1>5. ASSUME NEW q \in Ticks, NEW j \in PackageJobIds
      PROVE  Queued(q, g, j) <=> Queued(q, f, j) \/ (q = k /\ j = h)
  <2>1. CASE j # h
    BY <1>1, <2>1 DEF Queued
  <2>2. CASE j = h
    <3>1. \A n : n \in 1 .. Len(g[h]) <=> n \in 1 .. Len(f[h]) \/ n = Len(f[h]) + 1
      BY <1>2
    <3> QED BY <1>2, <2>2, <3>1 DEF Queued
  <2> QED BY <2>1, <2>2
<1>6. ASSUME NEW j \in PackageJobIds, f[j] # <<>> PROVE g[j] # <<>> /\ Head(g[j]) = Head(f[j])
  <2>1. PICK q \in Seq(Ticks) : q = f[j]
    BY <1>1
  <2>3. q # <<>>
    BY <1>6, <2>1
  <2>2. Append(q, k) # <<>> /\ Head(Append(q, k)) = Head(q)
    BY ONLY q \in Seq(Ticks), k \in Ticks, <2>3
  <2> QED BY <1>1, <1>6, <2>1, <2>2
<1> QED BY <1>1, <1>4, <1>5, <1>6 DEF Joined

\* g is f without k, the head of the queue of h.
Popped(f, g, h, k) ==
  /\ f \in [PackageJobIds -> Seq(Ticks)] /\ Apart(f) /\ f[h] # <<>> /\ k = Head(f[h])
  /\ \A i \in PackageJobIds : i # h => ~Queued(k, f, i)
  /\ g = [f EXCEPT ![h] = Tail(@)]

LEMMA LeavesQueue ==
  ASSUME NEW f, NEW h \in PackageJobIds, NEW k, NEW g, Popped(f, g, h, k)
  PROVE  /\ g \in [PackageJobIds -> Seq(Ticks)] /\ Apart(g)
         /\ \A q \in Ticks, i \in PackageJobIds : Queued(q, g, i) <=> Queued(q, f, i) /\ q # k
<1>0. /\ f \in [PackageJobIds -> Seq(Ticks)] /\ Apart(f) /\ f[h] # <<>> /\ k = Head(f[h])
      /\ \A j \in PackageJobIds : j # h => ~Queued(k, f, j)
  BY DEF Popped
<1>1. /\ g \in [PackageJobIds -> Seq(Ticks)] /\ g[h] = Tail(f[h])
      /\ \A j \in PackageJobIds : j # h => g[j] = f[j]
  BY DEF Popped
<1>2. /\ Len(f[h]) \in Nat /\ Len(f[h]) >= 1 /\ Len(g[h]) = Len(f[h]) - 1 /\ f[h][1] = k
      /\ \A n \in 1 .. Len(g[h]) : g[h][n] = f[h][n + 1] /\ n + 1 \in 1 .. Len(f[h])
  <2>1. PICK q \in Seq(Ticks) : q = f[h]
    BY <1>0
  <2>2. q # <<>> /\ Head(q) = k /\ g[h] = Tail(q)
    BY <1>0, <1>1, <2>1
  <2> QED BY <2>1, <2>2
<1>4. Apart(g)
  <2> SUFFICES ASSUME NEW j \in PackageJobIds, NEW m \in 1 .. Len(g[j]), NEW n \in 1 .. Len(g[j]),
                      g[j][m] = g[j][n]
               PROVE  m = n
    BY DEF Apart
  <2>1. CASE j # h
    BY <1>0, <1>1, <2>1 DEF Apart
  <2>2. CASE j = h
    <3>1. m + 1 \in 1 .. Len(f[h]) /\ n + 1 \in 1 .. Len(f[h]) /\ f[h][m + 1] = f[h][n + 1]
      BY <1>2, <2>2
    <3>2. m + 1 = n + 1
      BY <1>0, <3>1 DEF Apart
    <3> QED BY <3>2
  <2> QED BY <2>1, <2>2
<1>5. ASSUME NEW q \in Ticks, NEW j \in PackageJobIds
      PROVE  Queued(q, g, j) <=> Queued(q, f, j) /\ q # k
  <2>1. CASE j # h
    BY <1>0, <1>1, <2>1 DEF Queued
  <2>2. CASE j = h
    <3>1. ASSUME Queued(q, g, h) PROVE Queued(q, f, h) /\ q # k
      <4>1. PICK n \in 1 .. Len(g[h]) : g[h][n] = q
        BY <3>1 DEF Queued
      <4>2. n + 1 \in 1 .. Len(f[h]) /\ f[h][n + 1] = q /\ 1 \in 1 .. Len(f[h]) /\ n + 1 # 1
        BY <1>2, <4>1
      <4> QED BY <1>0, <1>2, <4>2 DEF Queued, Apart
    <3>2. ASSUME Queued(q, f, h), q # k PROVE Queued(q, g, h)
      <4>1. PICK n \in 1 .. Len(f[h]) : f[h][n] = q
        BY <3>2 DEF Queued
      <4>2. n # 1 /\ n - 1 \in 1 .. Len(g[h]) /\ (n - 1) + 1 = n
        BY <1>2, <3>2, <4>1
      <4> QED BY <1>2, <4>1, <4>2 DEF Queued
    <3> QED BY <2>2, <3>1, <3>2
  <2> QED BY <2>1, <2>2
<1> QED BY <1>1, <1>4, <1>5

\* A tick is in the queue of the first job it has left, and in no other; while
\* the action runs it is at the head.
Queues ==
  /\ Apart(line)
  /\ \A k \in Ticks, j \in PackageJobIds :
       Queued(k, line, j) <=> tick[k] # Absent /\ j = Head(tick[k].left)
  /\ \A k \in Ticks : tick[k] # Absent => tick[k].left # <<>>
  /\ \A k \in Ticks : Running(k) =>
       line[Head(tick[k].left)] # <<>> /\ Head(line[Head(tick[k].left)]) = k

JobShape ==
  /\ now \in 0 .. MaxTime /\ up \in BOOLEAN
  /\ jobs \in [PackageJobIds -> JobRow \cup {Absent}]
  /\ tick \in [Ticks -> TickRow \cup {Absent}] /\ line \in [PackageJobIds -> Seq(Ticks)]
  /\ asked \in [PackageJobIds -> JobRow \cup {Absent}]
  /\ raced \in [PackageJobIds -> BOOLEAN]
  /\ ran \in [PackageJobIds -> SUBSET Nat]

\* What is due occurs.
RowRight(row) == row.next # Never => Occurs(row.meta, row.anchor, row.next)

\* An action runs from the row as it is, unless a call for the job came meanwhile.
Undisturbed(j, row) == jobs[j] = row /\ row.next \in ran[j]
Overtaken(j) == ran[j] = {} /\ raced[j]

RunOfJob(j, k) ==
  /\ tick[k].row.next \in Nat /\ RowRight(tick[k].row)
  /\ \A t \in ran[j] : t <= tick[k].row.next
  /\ Undisturbed(j, tick[k].row) \/ Overtaken(j)

InOrder(j) ==
  /\ \A k \in Ticks : Running(k) /\ Head(tick[k].left) = j => RunOfJob(j, k)
  /\ ~RunningJob(j) /\ jobs[j] # Absent /\ jobs[j].next # Never =>
       \A t \in ran[j] : t < jobs[j].next

\* The row of a job is of the schedule that was asked, and what occurred before its
\* next run has run.
Reached(row, t) == IF row.next = Never THEN t <= Ahead ELSE t < row.next
AllRan(j) ==
  \A t \in Nat : /\ asked[j].next <= t /\ Occurs(asked[j].meta, asked[j].anchor, t)
                 /\ Reached(jobs[j], t)
                 => t \in ran[j]
AskedKept(j) ==
  /\ asked[j] = Absent => jobs[j] = Absent
  /\ asked[j] # Absent =>
       /\ jobs[j] # Absent
       /\ jobs[j].meta = asked[j].meta /\ jobs[j].anchor = asked[j].anchor
       /\ jobs[j].next # Never => asked[j].next # Never /\ asked[j].next <= jobs[j].next
       /\ asked[j].next # Never => AllRan(j)

JobRight(j) ==
  /\ jobs[j] # Absent => RowRight(jobs[j])
  /\ InOrder(j)
  /\ ~raced[j] => AskedKept(j)

AllRight == \A j \in PackageJobIds : JobRight(j)
JobsInv == JobShape /\ Queues /\ AllRight /\ again = FALSE

\* One tick at most runs a job.
LEMMA OneRuns ==
  ASSUME Queues, NEW k \in Ticks, NEW q \in Ticks, Running(k), Running(q),
         Head(tick[k].left) = Head(tick[q].left)
  PROVE  k = q
BY DEF Queues

LEMMA FirstJob ==
  ASSUME JobShape, Queues, NEW k \in Ticks, tick[k] # Absent
  PROVE  /\ tick[k] \in TickRow /\ tick[k].left \in Seq(PackageJobIds) /\ tick[k].left # <<>>
         /\ Head(tick[k].left) \in PackageJobIds /\ tick[k].row \in JobRow \cup {Absent}
<1>1. tick[k] \in TickRow /\ tick[k].left # <<>>
  BY DEF JobShape, Queues
<1>2. tick[k].left \in Seq(PackageJobIds) /\ tick[k].row \in JobRow \cup {Absent}
  BY <1>1 DEF TickRow
<1> QED BY <1>1, <1>2

LEMMA JobsAtFirst == WorkConstants /\ JobsInit => JobsInv
<1> SUFFICES ASSUME WorkConstants, JobsInit PROVE JobsInv
  OBVIOUS
<1>0. \A j \in PackageJobIds : line[j] = <<>> /\ Len(line[j]) = 0
  BY DEF JobsInit
<1>1. JobShape
  BY DEF JobsInit, JobShape, WorkConstants
<1>2. Queues
  BY <1>0 DEF JobsInit, Queues, Apart, Queued, Running
<1>3. AllRight
  BY DEF JobsInit, AllRight, JobRight, InOrder, Running, AskedKept
<1> QED BY <1>1, <1>2, <1>3 DEF JobsInv, JobsInit

-----------------------------------------------------------------------------
(* Steps of the scheduler.                                                 *)

\* A tick leaves the queue of the job it is done with, for the next one's.
LEMMA GoesOn ==
  ASSUME WorkConstants, JobShape, Queues, NEW k \in Ticks, tick[k] # Absent,
         line[Head(tick[k].left)] # <<>>, Head(line[Head(tick[k].left)]) = k, Onward(k)
  PROVE  /\ Queues' /\ line' \in [PackageJobIds -> Seq(Ticks)]
         /\ tick' \in [Ticks -> TickRow \cup {Absent}]
         /\ ~Running(k)' /\ \A q \in Ticks : q # k => tick'[q] = tick[q]
<1>1. PICK j \in PackageJobIds : j = Head(tick[k].left)
  BY FirstJob
<1>2. PICK rest : rest = Tail(tick[k].left)
  OBVIOUS
<1>3. rest \in Seq(PackageJobIds) /\ (rest # <<>> => Head(rest) \in PackageJobIds)
  <2>1. PICK left : left = tick[k].left
    OBVIOUS
  <2>2. left \in Seq(PackageJobIds) /\ left # <<>>
    BY <2>1, FirstJob
  <2>3. Tail(left) \in Seq(PackageJobIds)
    BY <2>2
  <2>4. rest \in Seq(PackageJobIds)
    BY <1>2, <2>1, <2>3
  <2> QED BY <2>4
<1>4. PICK f : f = [line EXCEPT ![j] = Tail(@)]
  OBVIOUS
<1>5. line \in [PackageJobIds -> Seq(Ticks)] /\ Apart(line) /\ tick \in [Ticks -> TickRow \cup {Absent}]
      /\ \A q \in Ticks, i \in PackageJobIds :
           Queued(q, line, i) <=> tick[q] # Absent /\ i = Head(tick[q].left)
  BY DEF JobShape, Queues
<1>6. \A i \in PackageJobIds : i # j => ~Queued(k, line, i)
  BY <1>1, <1>5
<1>b. /\ f \in [PackageJobIds -> Seq(Ticks)] /\ f[j] = Tail(line[j])
      /\ \A i \in PackageJobIds : i # j => f[i] = line[i]
  BY <1>1, <1>4, <1>5
<1>7. /\ Apart(f)
      /\ \A q \in Ticks, i \in PackageJobIds : Queued(q, f, i) <=> Queued(q, line, i) /\ q # k
  <2>1. Popped(line, f, j, k)
    BY <1>1, <1>4, <1>5, <1>6 DEF Popped
  <2> QED BY <2>1, LeavesQueue
<1>a. Absent \notin TickRow
  BY DEF WorkConstants
<1>8. \A q \in Ticks : q # k /\ Running(q) => Head(tick[q].left) # j
  BY <1>1 DEF Queues
<1>9. CASE rest = <<>>
  <2>1. tick' = [tick EXCEPT ![k] = Absent] /\ line' = f
    BY <1>1, <1>2, <1>4, <1>9 DEF Onward
  <2>2. tick'[k] = Absent /\ \A q \in Ticks : q # k => tick'[q] = tick[q]
    BY <1>5, <2>1
  <2>3. tick' \in [Ticks -> TickRow \cup {Absent}]
    BY <1>5, <2>1
  <2>4. \A q \in Ticks : Running(q)' => q # k /\ Running(q)
    BY <2>2 DEF Running
  <2>5. \A q \in Ticks : Running(q)' =>
          line'[Head(tick'[q].left)] # <<>> /\ Head(line'[Head(tick'[q].left)]) = q
    <3> SUFFICES ASSUME NEW q \in Ticks, Running(q)'
                 PROVE  line'[Head(tick'[q].left)] # <<>> /\ Head(line'[Head(tick'[q].left)]) = q
      OBVIOUS
    <3>1. q # k /\ Running(q) /\ tick'[q] = tick[q] /\ tick[q] # Absent
      BY <2>2, <2>4 DEF Running
    <3>2. PICK i \in PackageJobIds : i = Head(tick[q].left)
      BY <3>1, FirstJob
    <3>3. line[i] # <<>> /\ Head(line[i]) = q /\ i # j
      BY <1>8, <3>1, <3>2 DEF Queues
    <3> QED BY <1>b, <2>1, <3>1, <3>2, <3>3
  <2>6. Queues'
    BY <1>5, <1>7, <2>1, <2>2, <2>5 DEF Queues
  <2> QED BY <1>b, <2>1, <2>2, <2>3, <2>4, <2>6
<1>10. CASE rest # <<>>
  <2>1. PICK row : row = [left |-> rest, row |-> Absent]
    OBVIOUS
  <2>2. PICK h \in PackageJobIds : h = Head(rest)
    BY <1>3, <1>10
  <2>3. tick' = [tick EXCEPT ![k] = row] /\ line' = [f EXCEPT ![h] = Append(@, k)]
    BY <1>1, <1>2, <1>4, <1>10, <2>1, <2>2 DEF Onward
  <2>4. row \in TickRow /\ row.left = rest /\ row.row = Absent
    BY <1>3, <2>1 DEF TickRow
  <2>5. tick'[k] = row /\ (\A q \in Ticks : q # k => tick'[q] = tick[q]) /\ row # Absent
        /\ tick' \in [Ticks -> TickRow \cup {Absent}]
    BY <1>5, <1>a, <2>3, <2>4
  <2>6. \A i \in PackageJobIds : ~Queued(k, f, i)
    BY <1>7
  <2>c. /\ line' \in [PackageJobIds -> Seq(Ticks)] /\ line'[h] = Append(f[h], k)
        /\ \A i \in PackageJobIds : i # h => line'[i] = f[i]
    BY ONLY <1>b, <2>3, h \in PackageJobIds, k \in Ticks
  <2>7. /\ Apart(line')
        /\ \A q \in Ticks, i \in PackageJobIds : Queued(q, line', i) <=> Queued(q, f, i) \/ (q = k /\ i = h)
        /\ \A i \in PackageJobIds : f[i] # <<>> => line'[i] # <<>> /\ Head(line'[i]) = Head(f[i])
    <3>1. Pushed(f, line', h, k)
      BY <1>7, <1>b, <2>6, <2>c DEF Pushed
    <3>2. Joined(f, line', h, k)
      BY <3>1, JoinsQueue
    <3> QED BY <3>2 DEF Joined
  <2>8. ~Running(k)'
    BY <2>4, <2>5 DEF Running
  <2>9. \A q \in Ticks : Running(q)' =>
          line'[Head(tick'[q].left)] # <<>> /\ Head(line'[Head(tick'[q].left)]) = q
    <3> SUFFICES ASSUME NEW q \in Ticks, Running(q)'
                 PROVE  line'[Head(tick'[q].left)] # <<>> /\ Head(line'[Head(tick'[q].left)]) = q
      OBVIOUS
    <3>0. q # k
      BY <2>8
    <3>1. Running(q) /\ tick'[q] = tick[q] /\ tick[q] # Absent
      BY <2>5, <3>0 DEF Running
    <3>2. PICK i \in PackageJobIds : i = Head(tick[q].left)
      BY <3>1, FirstJob
    <3>3. line[i] # <<>> /\ Head(line[i]) = q /\ i # j
      BY <1>8, <3>0, <3>1, <3>2 DEF Queues
    <3> QED BY <1>b, <2>7, <3>1, <3>2, <3>3
  <2>10. \A q \in Ticks, i \in PackageJobIds :
           Queued(q, line', i) <=> tick'[q] # Absent /\ i = Head(tick'[q].left)
    <3> SUFFICES ASSUME NEW q \in Ticks, NEW i \in PackageJobIds
                 PROVE  Queued(q, line', i) <=> tick'[q] # Absent /\ i = Head(tick'[q].left)
      OBVIOUS
    <3>1. CASE q = k
      BY <2>2, <2>4, <2>5, <2>6, <2>7, <3>1
    <3>2. CASE q # k
      BY <1>5, <1>7, <2>5, <2>7, <3>2
    <3> QED BY <3>1, <3>2
  <2>11. \A q \in Ticks : tick'[q] # Absent => tick'[q].left # <<>>
    BY <1>10, <2>4, <2>5 DEF Queues
  <2>12. Queues'
    BY <2>7, <2>9, <2>10, <2>11 DEF Queues, Queued
  <2> QED BY <2>5, <2>8, <2>12, <2>c
<1> QED BY <1>9, <1>10

\* What is right of the jobs stays so where the rows, the calls and the runs stay.
LEMMA SameRuns ==
  ASSUME AllRight, UNCHANGED <<jobs, asked, raced, ran>>,
         \A q \in Ticks : Running(q)' <=> Running(q),
         \A q \in Ticks : Running(q) => tick'[q] = tick[q]
  PROVE  AllRight'
<1> SUFFICES ASSUME NEW j \in PackageJobIds PROVE JobRight(j)'
  BY DEF AllRight
<1>1. JobRight(j) /\ jobs' = jobs /\ asked' = asked /\ raced' = raced /\ ran' = ran
  BY DEF AllRight
<1>2. RunningJob(j)' <=> RunningJob(j)
  BY DEF RunningJob
<1>3. AskedKept(j)' <=> AskedKept(j)
  BY <1>1 DEF AskedKept, AllRan, Reached
<1>4. \A q \in Ticks : Running(q) => (RunOfJob(j, q)' <=> RunOfJob(j, q))
  BY <1>1 DEF RunOfJob, RowRight, Undisturbed, Overtaken
<1>5. InOrder(j)'
  BY <1>1, <1>2, <1>4 DEF JobRight, InOrder
<1>6. jobs'[j] # Absent => RowRight(jobs[j])'
  BY <1>1 DEF JobRight, RowRight
<1> QED BY <1>1, <1>3, <1>5, <1>6 DEF JobRight

LEMMA JobsStay == JobsInv /\ UNCHANGED <<jobs, tick, line, asked, raced, ran, again>>
                  /\ now' \in 0 .. MaxTime /\ up' \in BOOLEAN => JobsInv'
<1> SUFFICES ASSUME JobsInv, UNCHANGED <<jobs, tick, line, asked, raced, ran, again>>,
                    now' \in 0 .. MaxTime, up' \in BOOLEAN
             PROVE  JobsInv'
  OBVIOUS
<1>1. JobShape'
  BY DEF JobsInv, JobShape
<1>2. \A q \in Ticks : Running(q)' <=> Running(q)
  BY DEF Running
<1>3. Queues'
  BY <1>2 DEF JobsInv, Queues, Apart, Queued
<1>4. AllRight'
  BY <1>2, SameRuns DEF JobsInv
<1> QED BY <1>1, <1>3, <1>4 DEF JobsInv

LEMMA JobSkipped ==
  ASSUME WorkConstants, JobsInv, NEW k \in Ticks, Skip(k)
  PROVE  JobsInv'
<1>1. PICK j \in PackageJobIds : j = Head(tick[k].left)
  BY FirstJob DEF Skip, Turn, JobsInv
<1>2. tick[k] # Absent /\ tick[k].row = Absent /\ Head(line[j]) = k /\ Onward(k)
  BY <1>1 DEF Skip, Turn
<1>3. line[j] # <<>>
  <2>1. Queued(k, line, j) /\ line[j] \in Seq(Ticks)
    BY <1>1, <1>2 DEF JobsInv, Queues, JobShape
  <2> QED BY <2>1 DEF Queued
<1>4. /\ Queues' /\ line' \in [PackageJobIds -> Seq(Ticks)]
      /\ tick' \in [Ticks -> TickRow \cup {Absent}]
      /\ ~Running(k)' /\ \A q \in Ticks : q # k => tick'[q] = tick[q]
  BY <1>1, <1>2, <1>3, GoesOn DEF JobsInv
<1>5. UNCHANGED <<now, up, jobs, asked, raced, ran, again>>
  BY DEF Skip
<1>6. JobShape'
  BY <1>4, <1>5 DEF JobsInv, JobShape
<1>7. ~Running(k)
  BY <1>2 DEF Running
<1>8. \A q \in Ticks : Running(q)' <=> Running(q)
  BY <1>4, <1>7 DEF Running
<1>9. AllRight'
  BY <1>4, <1>5, <1>7, <1>8, SameRuns DEF JobsInv
<1> QED BY <1>4, <1>5, <1>6, <1>9 DEF JobsInv

\* A listing of the due jobs is one of at least one job.
LEMMA Listing ==
  ASSUME WorkConstants, NEW due \in DueLists, DueJobs # {}
  PROVE  due \in Seq(PackageJobIds) /\ due # <<>> /\ Head(due) \in PackageJobIds
<1>1. PICK S : S = DueJobs
  OBVIOUS
<1>2. S \subseteq PackageJobIds /\ S # {}
  BY <1>1 DEF DueJobs
<1>3. IsFiniteSet(S)
  <2>1. IsFiniteSet(PackageJobIds)
    BY DEF WorkConstants
  <2> QED BY <1>2, <2>1, FS_Subset
<1>4. Cardinality(S) \in Nat /\ Cardinality(S) # 0
  BY <1>2, <1>3, FS_CardinalityType, FS_EmptySet
<1>5. due \in [1 .. Cardinality(S) -> S]
  BY <1>1 DEF DueLists, SetToSeqs
<1>6. PICK n \in Nat : n = Cardinality(S) /\ n >= 1
  BY <1>4
<1>7. due \in [1 .. n -> PackageJobIds]
  BY <1>2, <1>5, <1>6
<1>8. due \in Seq(PackageJobIds) /\ Len(due) = n
  BY <1>7
<1> QED BY <1>6, <1>8

LEMMA JobsListed ==
  ASSUME WorkConstants, JobsInv, NEW k \in Ticks, TimerFires(k)
  PROVE  JobsInv'
<1>1. PICK due \in DueLists : /\ tick' = [tick EXCEPT ![k] = [left |-> due, row |-> Absent]]
                                /\ line' = [line EXCEPT ![Head(due)] = Append(@, k)]
  BY DEF TimerFires
<1>2. tick[k] = Absent /\ UNCHANGED <<now, up, jobs, asked, raced, ran, again>>
  BY DEF TimerFires
<1>3. due \in Seq(PackageJobIds) /\ due # <<>> /\ Head(due) \in PackageJobIds
  BY Listing DEF TimerFires
<1>4. PICK h \in PackageJobIds : h = Head(due)
  BY <1>3
<1>5. PICK row : row = [left |-> due, row |-> Absent]
  OBVIOUS
<1>6. row \in TickRow /\ row.left = due /\ row.row = Absent /\ row # Absent
  BY <1>3, <1>5 DEF TickRow, WorkConstants
<1>7. /\ tick \in [Ticks -> TickRow \cup {Absent}] /\ line \in [PackageJobIds -> Seq(Ticks)]
      /\ Apart(line)
      /\ \A q \in Ticks, i \in PackageJobIds :
           Queued(q, line, i) <=> tick[q] # Absent /\ i = Head(tick[q].left)
  BY DEF JobsInv, JobShape, Queues
<1>8. /\ tick' \in [Ticks -> TickRow \cup {Absent}] /\ tick'[k] = row
      /\ \A q \in Ticks : q # k => tick'[q] = tick[q]
  BY <1>1, <1>5, <1>6, <1>7
<1>9. /\ line' \in [PackageJobIds -> Seq(Ticks)] /\ line'[h] = Append(line[h], k)
      /\ \A i \in PackageJobIds : i # h => line'[i] = line[i]
  <2>1. line' = [line EXCEPT ![h] = Append(@, k)] /\ line \in [PackageJobIds -> Seq(Ticks)]
    BY <1>1, <1>4, <1>7
  <2> QED BY ONLY <2>1, h \in PackageJobIds, k \in Ticks
<1>10. \A i \in PackageJobIds : ~Queued(k, line, i)
  BY <1>2, <1>7
<1>11. /\ Apart(line')
       /\ \A q \in Ticks, i \in PackageJobIds : Queued(q, line', i) <=> Queued(q, line, i) \/ (q = k /\ i = h)
       /\ \A i \in PackageJobIds : line[i] # <<>> => line'[i] # <<>> /\ Head(line'[i]) = Head(line[i])
  <2>1. Pushed(line, line', h, k)
    BY <1>7, <1>9, <1>10 DEF Pushed
  <2>2. Joined(line, line', h, k)
    BY <2>1, JoinsQueue
  <2> QED BY <2>2 DEF Joined
<1>12. /\ ~Running(k) /\ ~Running(k)'
       /\ \A q \in Ticks : Running(q)' <=> Running(q)
       /\ \A q \in Ticks : Running(q) => q # k /\ tick'[q] = tick[q]
  BY <1>2, <1>6, <1>8 DEF Running
<1>13. AllRight'
  BY <1>2, <1>12, SameRuns DEF JobsInv
<1>14. \A q \in Ticks, i \in PackageJobIds :
         Queued(q, line', i) <=> tick'[q] # Absent /\ i = Head(tick'[q].left)
  <2> SUFFICES ASSUME NEW q \in Ticks, NEW i \in PackageJobIds
               PROVE  Queued(q, line', i) <=> tick'[q] # Absent /\ i = Head(tick'[q].left)
    OBVIOUS
  <2>1. CASE q = k
    BY <1>4, <1>6, <1>8, <1>10, <1>11, <2>1
  <2>2. CASE q # k
    BY <1>7, <1>8, <1>11, <2>2
  <2> QED BY <2>1, <2>2
<1>15. \A q \in Ticks : Running(q)' =>
         line'[Head(tick'[q].left)] # <<>> /\ Head(line'[Head(tick'[q].left)]) = q
  <2> SUFFICES ASSUME NEW q \in Ticks, Running(q)'
               PROVE  line'[Head(tick'[q].left)] # <<>> /\ Head(line'[Head(tick'[q].left)]) = q
    OBVIOUS
  <2>1. q # k /\ Running(q) /\ tick'[q] = tick[q] /\ tick[q] # Absent
    BY <1>12 DEF Running
  <2>2. PICK i \in PackageJobIds : i = Head(tick[q].left)
    BY <2>1, FirstJob DEF JobsInv
  <2>3. line[i] # <<>> /\ Head(line[i]) = q
    BY <2>1, <2>2 DEF JobsInv, Queues
  <2> QED BY <1>11, <2>1, <2>2, <2>3
<1>16. \A q \in Ticks : tick'[q] # Absent => tick'[q].left # <<>>
  BY <1>3, <1>6, <1>8 DEF JobsInv, Queues
<1>17. Queues'
  BY <1>11, <1>14, <1>15, <1>16 DEF Queues, Queued
<1>18. JobShape'
  BY <1>2, <1>8, <1>9 DEF JobsInv, JobShape
<1> QED BY <1>2, <1>13, <1>17, <1>18 DEF JobsInv

\* What packages ask makes a row whose next run is an occurrence.
LEMMA RowAsked ==
  ASSUME WorkConstants, now \in Nat, NEW r \in Requests, ParseSchedule(r.schedule) # Invalid,
         NEW meta, meta = ParseSchedule(r.schedule), NEW anchor, anchor = ParseStartTime(r.start, now),
         NEW row, row = Row(meta, anchor, RunAtOrAfter(meta, anchor, now))
  PROVE  row \in JobRow /\ RowRight(row)
<1>1. meta \in Metas
  BY DEF Metas
<1>2. anchor \in Nat
  <2>1. PICK start : start = r.start
    OBVIOUS
  <2>2. StartOK(start)
    BY <2>1 DEF WorkConstants
  <2>3. PICK day \in Nat \ {0} : day = Day
    <3>1. PICK a \in Nat \ {0}, b \in Nat \ {0}, c \in Nat \ {0} :
            a = Minute /\ b = MinutesPerHour /\ c = HoursPerDay
      BY DEF WorkConstants
    <3>2. a * b \in Nat \ {0}
      BY <3>1
    <3>3. (a * b) * c \in Nat \ {0}
      BY <3>1, <3>2
    <3>4. Day = (a * b) * c
      BY <3>1 DEF Day, Hour
    <3> QED BY <3>3, <3>4
  <2>4. now \div day \in Nat
    BY <2>3, Division
  <2>5. (now \div day) * day \in Nat
    BY <2>3, <2>4
  <2>6. CASE start.kind = "none"
    BY <2>1, <2>6 DEF ParseStartTime
  <2>7. CASE start.kind # "none" /\ start.at \in Nat
    BY <2>1, <2>3, <2>5, <2>7 DEF ParseStartTime
  <2> QED BY <2>2, <2>6, <2>7 DEF StartOK
<1>3. FirstFrom(meta, anchor, now, RunAtOrAfter(meta, anchor, now))
  BY <1>1, <1>2, Parsed, RunIsFirst
<1>4. PICK next \in Nat \cup {Never} :
        next = RunAtOrAfter(meta, anchor, now) /\ (next # Never => Occurs(meta, anchor, next))
  BY <1>3 DEF FirstFrom
<1>5. row = [meta |-> meta, anchor |-> anchor, next |-> next]
  BY <1>4 DEF Row
<1>6. row \in JobRow /\ row.meta = meta /\ row.anchor = anchor /\ row.next = next
  BY ONLY <1>1, <1>2, <1>4, <1>5 DEF JobRow
<1> QED BY <1>4, <1>6 DEF RowRight

\* A job is asked for, or is no longer.
LEMMA JobAsked ==
  ASSUME WorkConstants, JobsInv, NEW j \in PackageJobIds, NEW row \in JobRow \cup {Absent},
         row # Absent => RowRight(row), Asked(j, row)
  PROVE  JobsInv'
<1>1. /\ jobs' = [jobs EXCEPT ![j] = row] /\ asked' = [asked EXCEPT ![j] = row]
      /\ raced' = [raced EXCEPT ![j] = RunningJob(j)] /\ ran' = [ran EXCEPT ![j] = {}]
      /\ UNCHANGED <<now, up, tick, line, again>>
  BY DEF Asked, SaveJob
<1>2. JobShape'
  <2>1. RunningJob(j) \in BOOLEAN
    BY DEF RunningJob
  <2> QED BY <1>1, <2>1 DEF JobsInv, JobShape
<1>3. /\ \A q \in Ticks : Running(q)' <=> Running(q)
      /\ \A i \in PackageJobIds : RunningJob(i)' <=> RunningJob(i)
  BY <1>1 DEF Running, RunningJob
<1>4. Queues'
  <2>1. Queues /\ UNCHANGED <<tick, line>>
    BY <1>1 DEF JobsInv
  <2> QED BY <1>3, <2>1 DEF Queues, Apart, Queued
<1>5. AllRight'
  <2> SUFFICES ASSUME NEW i \in PackageJobIds PROVE JobRight(i)'
    BY DEF AllRight
  <2>1. JobRight(i)
    BY DEF JobsInv, AllRight
  <2>2. CASE i # j
    <3>1. jobs'[i] = jobs[i] /\ asked'[i] = asked[i] /\ raced'[i] = raced[i] /\ ran'[i] = ran[i]
      BY <1>1, <2>2 DEF JobsInv, JobShape
    <3>2. AskedKept(i)' <=> AskedKept(i)
      BY <3>1 DEF AskedKept, AllRan, Reached
    <3>3. \A q \in Ticks : RunOfJob(i, q)' <=> RunOfJob(i, q)
      BY <1>1, <3>1 DEF RunOfJob, RowRight, Undisturbed, Overtaken
    <3>4. InOrder(i)'
      BY <1>1, <1>3, <2>1, <3>1, <3>3 DEF JobRight, InOrder
    <3> QED BY <2>1, <3>1, <3>2, <3>4 DEF JobRight, RowRight
  <2>3. CASE i = j
    <3>1. jobs'[i] = row /\ asked'[i] = row /\ raced'[i] = RunningJob(j) /\ ran'[i] = {}
      BY <1>1, <2>3 DEF JobsInv, JobShape
    <3>2. ASSUME NEW q \in Ticks, Running(q), Head(tick[q].left) = i PROVE RunOfJob(i, q)'
      <4>1. RunningJob(i) /\ RunOfJob(i, q)
        BY <2>1, <3>2 DEF RunningJob, JobRight, InOrder
      <4> QED BY <1>1, <2>3, <3>1, <4>1 DEF RunOfJob, RowRight, Overtaken
    <3>3. InOrder(i)'
      BY <1>1, <1>3, <3>1, <3>2 DEF InOrder
    <3>4. row # Absent /\ row.next # Never => row.next \in Nat
      BY DEF JobRow
    <3>5. row # Absent /\ row.next # Never => AllRan(i)'
      BY <3>1, <3>4 DEF AllRan, Reached
    <3>6. AskedKept(i)'
      BY <3>1, <3>4, <3>5 DEF AskedKept
    <3> QED BY <3>1, <3>3, <3>6 DEF JobRight, RowRight
  <2> QED BY <2>2, <2>3
<1> QED BY <1>1, <1>2, <1>4, <1>5 DEF JobsInv

LEMMA JobsCalled ==
  ASSUME WorkConstants, JobsInv, ScheduleCall
  PROVE  JobsInv'
<1>0. now \in Nat
  BY DEF JobsInv, JobShape, WorkConstants
<1>1. CASE \E j \in PackageJobIds : CancelPackageJob(j)
  BY <1>1, JobAsked DEF CancelPackageJob
<1>2. ASSUME NEW j \in PackageJobIds, NEW r \in Requests, SchedulePackageJob(j, r.schedule, r.start)
      PROVE  JobsInv'
  <2>1. PICK meta \in {ParseSchedule(r.schedule)}, anchor \in {ParseStartTime(r.start, now)} :
          Asked(j, Row(meta, anchor, RunAtOrAfter(meta, anchor, now)))
    BY <1>2 DEF SchedulePackageJob
  <2>2. PICK row : row = Row(meta, anchor, RunAtOrAfter(meta, anchor, now))
    OBVIOUS
  <2>3. row \in JobRow /\ RowRight(row)
    BY <1>0, <1>2, <2>2, RowAsked DEF SchedulePackageJob
  <2> QED BY <2>1, <2>2, <2>3, JobAsked
<1> QED BY <1>1, <1>2 DEF ScheduleCall

\* A tick that runs nothing has its turn: nobody runs the job, and it stands in the queue.
LEMMA HasTurn ==
  ASSUME WorkConstants, JobsInv, NEW k \in Ticks, Turn(k),
         NEW j \in PackageJobIds, j = Head(tick[k].left)
  PROVE  ~RunningJob(j) /\ ~Running(k) /\ \A q \in Ticks : Running(q) => Head(tick[q].left) # j
<1>1. tick[k] # Absent /\ tick[k].row = Absent /\ Head(line[j]) = k
  BY DEF Turn
<1>2. ~Running(k)
  BY <1>1 DEF Running
<1>3. ASSUME NEW q \in Ticks, Running(q), Head(tick[q].left) = j PROVE FALSE
  <2>1. Head(line[j]) = q
    BY <1>3 DEF JobsInv, Queues
  <2> QED BY <1>1, <1>2, <1>3, <2>1
<1> QED BY <1>2, <1>3 DEF RunningJob

LEMMA JobDispatched ==
  ASSUME WorkConstants, JobsInv, NEW k \in Ticks, Dispatch(k)
  PROVE  JobsInv'
<1>0. Turn(k) /\ tick[k] # Absent
  BY DEF Dispatch, Turn
<1>1. PICK j \in PackageJobIds : j = Head(tick[k].left)
  BY <1>0, FirstJob DEF JobsInv
<1>2. PICK row : row = jobs[j]
  OBVIOUS
<1>3. /\ tick' = [tick EXCEPT ![k].row = row] /\ ran' = [ran EXCEPT ![j] = @ \cup {row.next}]
      /\ again' = (again \/ row.next \in ran[j])
      /\ UNCHANGED <<now, up, jobs, line, asked, raced>>
      /\ row # Absent /\ row.next # Never
  BY <1>1, <1>2 DEF Dispatch, Current, IsDue
<1>4. row \in JobRow /\ row.next \in Nat
  <2>1. row \in JobRow
    BY <1>2, <1>3 DEF JobsInv, JobShape
  <2> QED BY <1>3, <2>1 DEF JobRow
<1>5. ~RunningJob(j) /\ ~Running(k) /\ \A q \in Ticks : Running(q) => Head(tick[q].left) # j
  BY <1>0, <1>1, HasTurn
<1>6. JobRight(j) /\ RowRight(row)
  BY <1>2, <1>3 DEF JobsInv, AllRight, JobRight
<1>7. ran[j] \in SUBSET Nat /\ \A t \in ran[j] : t < row.next
  BY <1>2, <1>3, <1>5, <1>6 DEF JobRight, InOrder, JobsInv, JobShape
<1>8. row.next \notin ran[j]
  BY <1>4, <1>7
<1>9. PICK entry : entry = [tick[k] EXCEPT !.row = row]
  OBVIOUS
<1>10. tick[k] \in TickRow
  BY <1>0, FirstJob DEF JobsInv
<1>11. entry \in TickRow /\ entry.row = row /\ entry.left = tick[k].left
  BY ONLY <1>4, <1>9, <1>10 DEF TickRow
<1>12. /\ tick' \in [Ticks -> TickRow \cup {Absent}] /\ tick'[k] = entry
       /\ \A q \in Ticks : q # k => tick'[q] = tick[q]
  BY <1>3, <1>9, <1>11 DEF JobsInv, JobShape
<1>13. /\ ran' \in [PackageJobIds -> SUBSET Nat] /\ ran'[j] = ran[j] \cup {row.next}
       /\ \A i \in PackageJobIds : i # j => ran'[i] = ran[i]
  BY <1>3, <1>4 DEF JobsInv, JobShape
<1>14. JobShape'
  BY <1>3, <1>12, <1>13 DEF JobsInv, JobShape
<1>15. entry # Absent
  BY <1>11 DEF WorkConstants
<1>16. /\ Running(k)'
       /\ \A q \in Ticks : Running(q)' <=> q = k \/ Running(q)
       /\ \A q \in Ticks : tick'[q] # Absent <=> tick[q] # Absent
       /\ \A q \in Ticks : tick[q] # Absent => tick'[q].left = tick[q].left
  BY <1>0, <1>3, <1>11, <1>12, <1>15 DEF Running
<1>17. Queues'
  <2>1. line[j] # <<>> /\ Head(line[j]) = k
    <3>1. Queued(k, line, j) /\ line[j] \in Seq(Ticks)
      BY <1>0, <1>1 DEF JobsInv, Queues, JobShape
    <3>2. line[j] # <<>>
      BY <3>1 DEF Queued
    <3> QED BY <1>1, <3>2 DEF Dispatch, Turn
  <2>2. \A q \in Ticks : Running(q)' =>
          line[Head(tick[q].left)] # <<>> /\ Head(line[Head(tick[q].left)]) = q /\ tick'[q].left = tick[q].left
    BY <1>0, <1>1, <1>16, <2>1 DEF JobsInv, Queues, Running
  <2>3. \A q \in Ticks : Running(q)' =>
          line'[Head(tick'[q].left)] # <<>> /\ Head(line'[Head(tick'[q].left)]) = q
    BY <1>3, <2>2
  <2>4. Apart(line)' /\ \A q \in Ticks, i \in PackageJobIds : Queued(q, line', i) <=> Queued(q, line, i)
    BY <1>3 DEF JobsInv, Queues
  <2>5. \A q \in Ticks, i \in PackageJobIds :
          Queued(q, line', i) <=> tick'[q] # Absent /\ i = Head(tick'[q].left)
    BY <1>16, <2>4 DEF JobsInv, Queues
  <2>6. \A q \in Ticks : tick'[q] # Absent => tick'[q].left # <<>>
    BY <1>16 DEF JobsInv, Queues
  <2> QED BY <2>3, <2>4, <2>5, <2>6 DEF Queues, Queued
<1>18. AllRight'
  <2> SUFFICES ASSUME NEW i \in PackageJobIds PROVE JobRight(i)'
    BY DEF AllRight
  <2>1. JobRight(i) /\ jobs' = jobs /\ asked' = asked /\ raced' = raced
    BY <1>3 DEF JobsInv, AllRight
  <2>2. CASE i # j
    <3>1. ran'[i] = ran[i]
      BY <1>13, <2>2
    <3>2. AskedKept(i)' <=> AskedKept(i)
      BY <2>1, <3>1 DEF AskedKept, AllRan, Reached
    <3>3. \A q \in Ticks : Running(q)' /\ Head(tick'[q].left) = i =>
            q # k /\ Running(q) /\ Head(tick[q].left) = i /\ tick'[q] = tick[q]
      BY <1>1, <1>11, <1>12, <1>16, <2>2
    <3>4. \A q \in Ticks : q # k => (RunOfJob(i, q)' <=> RunOfJob(i, q))
      BY <1>12, <2>1, <3>1 DEF RunOfJob, RowRight, Undisturbed, Overtaken
    <3>5. RunningJob(i) => RunningJob(i)'
      BY <1>5, <1>12, <1>16 DEF RunningJob
    <3>6. InOrder(i)'
      BY <2>1, <3>1, <3>3, <3>4, <3>5 DEF JobRight, InOrder
    <3> QED BY <2>1, <3>2, <3>6 DEF JobRight, RowRight
  <2>3. CASE i = j
    <3>1. RunOfJob(j, k)'
      <4>1. tick'[k].row = row /\ \A t \in ran'[j] : t <= row.next
        BY <1>4, <1>7, <1>11, <1>12, <1>13
      <4>2. jobs'[j] = row /\ row.next \in ran'[j]
        BY <1>2, <1>13, <2>1
      <4> QED BY <1>4, <1>6, <4>1, <4>2 DEF RunOfJob, RowRight, Undisturbed
    <3>2. RunningJob(j)'
      BY <1>1, <1>11, <1>12, <1>16 DEF RunningJob
    <3>3. \A q \in Ticks : Running(q)' /\ Head(tick'[q].left) = j => q = k
      BY <1>5, <1>12, <1>16
    <3>4. InOrder(j)'
      BY <3>1, <3>2, <3>3 DEF InOrder
    <3>5. AskedKept(j) => AskedKept(j)'
      BY <1>13, <2>1 DEF AskedKept, AllRan, Reached
    <3> QED BY <1>6, <2>1, <2>3, <3>4, <3>5 DEF JobRight, RowRight
  <2> QED BY <2>2, <2>3
<1>19. again' = FALSE
  BY <1>3, <1>8 DEF JobsInv
<1> QED BY <1>14, <1>17, <1>18, <1>19 DEF JobsInv

LEMMA JobsCutOff ==
  ASSUME WorkConstants, JobsInv, JobsCrash
  PROVE  JobsInv'
<1>1. /\ up' = FALSE /\ tick' = [k \in Ticks |-> Absent] /\ line' = [j \in PackageJobIds |-> <<>>]
      /\ ran' = [j \in PackageJobIds |-> ran[j] \ CutOff(j)]
      /\ UNCHANGED <<now, jobs, asked, raced, again>>
  BY DEF JobsCrash
<1>2. PICK none : none = <<>>
  OBVIOUS
<1>3. none \in Seq(Ticks) /\ Len(none) = 0 /\ line' = [j \in PackageJobIds |-> none]
  BY <1>1, <1>2
<1>4. line' \in [PackageJobIds -> Seq(Ticks)] /\ \A j \in PackageJobIds : Len(line'[j]) = 0
  BY <1>3
<1>5. JobShape'
  BY <1>1, <1>4 DEF JobsInv, JobShape
<1>6. \A q \in Ticks : tick'[q] = Absent /\ ~Running(q)'
  BY <1>1 DEF Running
<1>7. Queues'
  BY <1>4, <1>6 DEF Queues, Apart, Queued
<1>8. AllRight'
  <2> SUFFICES ASSUME NEW j \in PackageJobIds PROVE JobRight(j)'
    BY DEF AllRight
  <2>1. JobRight(j) /\ jobs' = jobs /\ asked' = asked /\ raced' = raced
        /\ ran'[j] = ran[j] \ CutOff(j) /\ ran[j] \in SUBSET Nat
    BY <1>1 DEF JobsInv, AllRight, JobShape
  <2>2. \A q \in Ticks : Running(q) /\ Head(tick[q].left) = j => RunOfJob(j, q) /\ tick[q].row.next \in CutOff(j)
    BY <2>1 DEF JobRight, InOrder, CutOff
  <2>3. \A t \in CutOff(j) : \E q \in Ticks : Running(q) /\ Head(tick[q].left) = j /\ t = tick[q].row.next
    BY DEF CutOff
  <2>4. ASSUME jobs[j] # Absent, jobs[j].next # Never, NEW t \in ran[j], t \notin CutOff(j)
        PROVE  t < jobs[j].next
    <3>1. CASE ~RunningJob(j)
      BY <2>1, <2>4, <3>1 DEF JobRight, InOrder
    <3>2. ASSUME NEW q \in Ticks, Running(q), Head(tick[q].left) = j PROVE t < jobs[j].next
      <4>1. RunOfJob(j, q) /\ tick[q].row.next \in CutOff(j)
        BY <2>2, <3>2
      <4>2. tick[q].row.next \in Nat /\ t <= tick[q].row.next /\ t # tick[q].row.next /\ ran[j] # {}
        BY <2>4, <4>1 DEF RunOfJob
      <4>3. jobs[j] = tick[q].row
        BY <4>1, <4>2 DEF RunOfJob, Undisturbed, Overtaken
      <4>4. t \in Nat
        BY <2>1, <2>4
      <4> QED BY <4>2, <4>3, <4>4
    <3> QED BY <3>1, <3>2 DEF RunningJob
  <2>5. InOrder(j)'
    BY <1>6, <2>1, <2>4 DEF InOrder
  <2>6. ASSUME ~raced[j], asked[j] # Absent, asked[j].next # Never, NEW t \in Nat, asked[j].next <= t,
               Occurs(asked[j].meta, asked[j].anchor, t), Reached(jobs[j], t)
        PROVE  t \in ran'[j]
    <3>1. t \in ran[j]
      BY <2>1, <2>6 DEF JobRight, AskedKept, AllRan
    <3>2. ASSUME t \in CutOff(j) PROVE FALSE
      <4>1. PICK q \in Ticks : Running(q) /\ Head(tick[q].left) = j /\ t = tick[q].row.next
        BY <2>3, <3>2
      <4>2. RunOfJob(j, q)
        BY <2>2, <4>1
      <4>3. jobs[j] = tick[q].row /\ jobs[j].next \in Nat
        BY <2>6, <4>2 DEF RunOfJob, Undisturbed, Overtaken
      <4>4. Never \notin Nat
        BY DEF WorkConstants
      <4> QED BY <2>6, <4>1, <4>3, <4>4 DEF Reached
    <3> QED BY <2>1, <3>1, <3>2
  <2>7. ~raced[j] => AskedKept(j)'
    BY <2>1, <2>6 DEF JobRight, AskedKept, AllRan, Reached
  <2> QED BY <2>1, <2>5, <2>7 DEF JobRight, RowRight
<1> QED BY <1>1, <1>5, <1>7, <1>8 DEF JobsInv

\* The action of a job returns: the row it ran from is written back, with its next run.
LEMMA JobFinished ==
  ASSUME WorkConstants, JobsInv, NEW k \in Ticks, FinishJob(k)
  PROVE  JobsInv'
<1>0. Running(k) /\ tick[k] # Absent /\ tick[k].row # Absent
  BY DEF FinishJob, Running
<1>1. PICK j \in PackageJobIds : j = Head(tick[k].left)
  BY <1>0, FirstJob DEF JobsInv
<1>2. PICK row \in JobRow : row = tick[k].row
  BY <1>0, FirstJob DEF JobsInv
<1>3. PICK new : new = Rescheduled(row)
  OBVIOUS
<1>4. /\ jobs' = [jobs EXCEPT ![j] = new] /\ Onward(k)
      /\ UNCHANGED <<now, up, asked, raced, ran, again>>
  BY <1>1, <1>2, <1>3 DEF FinishJob, SaveJob
<1>5. line[j] # <<>> /\ Head(line[j]) = k
  BY <1>0, <1>1 DEF JobsInv, Queues
<1>6. /\ Queues' /\ line' \in [PackageJobIds -> Seq(Ticks)]
      /\ tick' \in [Ticks -> TickRow \cup {Absent}]
      /\ ~Running(k)' /\ \A q \in Ticks : q # k => tick'[q] = tick[q]
  BY <1>0, <1>1, <1>4, <1>5, GoesOn DEF JobsInv
<1>7. JobRight(j) /\ RunOfJob(j, k)
  BY <1>0, <1>1 DEF JobsInv, AllRight, JobRight, InOrder
<1>8. row.next \in Nat /\ RowRight(row) /\ \A t \in ran[j] : t <= row.next
  BY <1>2, <1>7 DEF RunOfJob
<1>9. row.meta \in Metas /\ row.anchor \in Nat
  BY DEF JobRow
<1>n. Never \notin Nat
  BY DEF WorkConstants
<1>10. FirstFrom(row.meta, row.anchor, row.next + 1, NextRun(row.meta, row.anchor, row.next))
  <2>1. Occurs(row.meta, row.anchor, row.next)
    BY <1>8, <1>n DEF RowRight
  <2>2. MetaForm(row.meta)
    BY <1>9, Parsed
  <2> QED BY <1>8, <1>9, <2>1, <2>2, NextIsFirst
<1>11. PICK next \in Nat \cup {Never} :
         /\ next = NextRun(row.meta, row.anchor, row.next)
         /\ FirstFrom(row.meta, row.anchor, row.next + 1, next)
  BY <1>10 DEF FirstFrom
<1>12. new = [row EXCEPT !.next = next]
  BY <1>3, <1>11 DEF Rescheduled
<1>13. new \in JobRow /\ new.meta = row.meta /\ new.anchor = row.anchor /\ new.next = next
  BY ONLY <1>11, <1>12, row \in JobRow DEF JobRow
<1>14. RowRight(new) /\ (next # Never => next > row.next)
  BY <1>8, <1>11, <1>13 DEF FirstFrom, RowRight
<1>15. /\ jobs' \in [PackageJobIds -> JobRow \cup {Absent}] /\ jobs'[j] = new
       /\ \A i \in PackageJobIds : i # j => jobs'[i] = jobs[i]
  BY <1>4, <1>13 DEF JobsInv, JobShape
<1>16. JobShape'
  BY <1>4, <1>6, <1>15 DEF JobsInv, JobShape
<1>17. /\ \A q \in Ticks : Running(q)' <=> q # k /\ Running(q)
       /\ \A q \in Ticks : Running(q) /\ Head(tick[q].left) = j => q = k
  <2>1. \A q \in Ticks : Running(q) /\ Head(tick[q].left) = j => q = k
    BY <1>5 DEF JobsInv, Queues
  <2> QED BY <1>6, <2>1 DEF Running
<1>18. AllRight'
  <2> SUFFICES ASSUME NEW i \in PackageJobIds PROVE JobRight(i)'
    BY DEF AllRight
  <2>1. JobRight(i) /\ asked' = asked /\ raced' = raced /\ ran' = ran
    BY <1>4 DEF JobsInv, AllRight
  <2>2. CASE i # j
    <3>1. jobs'[i] = jobs[i]
      BY <1>15, <2>2
    <3>2. AskedKept(i)' <=> AskedKept(i)
      BY <2>1, <3>1 DEF AskedKept, AllRan, Reached
    <3>3. \A q \in Ticks : q # k => (RunOfJob(i, q)' <=> RunOfJob(i, q))
      BY <1>6, <2>1, <3>1 DEF RunOfJob, RowRight, Undisturbed, Overtaken
    <3>4. \A q \in Ticks : Running(q)' /\ Head(tick'[q].left) = i =>
            q # k /\ Running(q) /\ Head(tick[q].left) = i
      BY <1>6, <1>17
    <3>5. RunningJob(i) => RunningJob(i)'
      BY <1>1, <1>6, <1>17, <2>2 DEF RunningJob
    <3>6. InOrder(i)'
      BY <2>1, <3>1, <3>3, <3>4, <3>5 DEF JobRight, InOrder
    <3> QED BY <2>1, <3>1, <3>2, <3>6 DEF JobRight, RowRight
  <2>3. CASE i = j
    <3>1. \A q \in Ticks : ~(Running(q)' /\ Head(tick'[q].left) = j)
      BY <1>6, <1>17
    <3>2. ASSUME NEW t \in ran[j], next # Never PROVE t < next
      <4>1. t \in Nat /\ t <= row.next /\ next \in Nat /\ next > row.next
        BY <1>8, <1>14, <3>2 DEF JobsInv, JobShape
      <4> QED BY <1>8, <4>1
    <3>3. InOrder(j)'
      BY <1>13, <1>15, <2>1, <3>1, <3>2 DEF InOrder
    <3>4. ASSUME ~raced[j] PROVE AskedKept(j)'
      <4>1. jobs[j] = row /\ row.next \in ran[j] /\ row # Absent
        BY <1>0, <1>2, <1>7, <3>4 DEF RunOfJob, Undisturbed, Overtaken
      <4>2. AskedKept(j)
        BY <1>7, <3>4 DEF JobRight
      <4>3. asked[j] # Absent /\ asked[j].meta = row.meta /\ asked[j].anchor = row.anchor
            /\ asked[j].next # Never /\ asked[j].next <= row.next /\ AllRan(j)
        BY <1>8, <1>n, <4>1, <4>2 DEF AskedKept
      <4>4. asked[j].next \in Nat
        <5>1. PICK first \in JobRow : first = asked[j]
          BY <4>3 DEF JobsInv, JobShape
        <5> QED BY <4>3, <5>1 DEF JobRow
      <4>5. ASSUME NEW t \in Nat, asked[j].next <= t, Occurs(row.meta, row.anchor, t), Reached(new, t)
            PROVE  t \in ran[j]
        <5>1. CASE t < row.next
          BY <1>8, <1>n, <4>1, <4>3, <4>5, <5>1 DEF AllRan, Reached
        <5>2. CASE t = row.next
          BY <4>1, <5>2
        <5>3. CASE t > row.next
          <6>1. row.next + 1 <= t
            BY <1>8, <5>3
          <6> QED BY <1>11, <1>13, <4>5, <6>1 DEF FirstFrom, Reached
        <5> QED BY <1>8, <5>1, <5>2, <5>3
      <4>6. new # Absent
        BY <1>13 DEF WorkConstants
      <4>7. new.next # Never => asked[j].next <= new.next
        BY <1>8, <1>13, <1>14, <4>3, <4>4
      <4>8. jobs'[j] = new /\ asked'[j] = asked[j] /\ ran'[j] = ran[j]
        BY <1>15, <2>1
      <4>9. AllRan(j)'
        BY <4>3, <4>5, <4>8 DEF AllRan, Reached
      <4> QED BY <1>13, <4>3, <4>6, <4>7, <4>8, <4>9 DEF AskedKept
    <3> QED BY <1>14, <1>15, <2>1, <2>3, <3>3, <3>4 DEF JobRight, RowRight
  <2> QED BY <2>2, <2>3
<1> QED BY <1>4, <1>6, <1>16, <1>18 DEF JobsInv

-----------------------------------------------------------------------------
(* The tables together.                                                    *)

WorkInv == WorkConstants /\ JobsInv /\ ItemsInv /\ FlowsInv

LEMMA WorkAtFirst == WorkConstants /\ WorkInit => WorkInv
BY JobsAtFirst, ItemsAtFirst, FlowsAtFirst DEF WorkInit, WorkInv

\* What is assumed of the constants is so in every state.
LEMMA AssumedOn == WorkConstants => WorkConstants'
OBVIOUS

LEMMA NowIsTime ==
  ASSUME WorkInv
  PROVE  /\ WorkConstants /\ JobsInv /\ ItemsInv /\ FlowsInv
         /\ now \in Nat /\ now \in 0 .. MaxTime /\ up \in BOOLEAN /\ MaxTime \in Nat
BY DEF WorkInv, JobsInv, JobShape, WorkConstants

\* A call to the scheduler, its steps, and time.
LEMMA SchedulerStepped ==
  ASSUME WorkInv, JobStep
  PROVE  WorkInv'
<1>1. /\ WorkConstants /\ JobsInv /\ ItemsInv /\ FlowsInv
      /\ now \in Nat /\ now \in 0 .. MaxTime /\ up \in BOOLEAN /\ MaxTime \in Nat
  BY NowIsTime
<1>2. UNCHANGED <<items, holds, gates, lapses, settled, late>>
      /\ UNCHANGED <<setups, runs, confirming, twice>>
  BY DEF JobStep, itemVars, flowVars
<1>3. JobsInv' /\ now' \in Nat /\ now' >= now
  <2>1. CASE ScheduleCall
    <3>1. now' = now
      BY <2>1 DEF ScheduleCall, CancelPackageJob, SchedulePackageJob, Asked
    <3> QED BY <1>1, <2>1, <3>1, JobsCalled
  <2>2. CASE TimePasses
    <3>1. now' = now + 1 /\ now < MaxTime /\ UNCHANGED <<up, jobs, tick, line, asked, raced, ran, again>>
      BY <2>2 DEF TimePasses
    <3>2. now' \in 0 .. MaxTime /\ now' >= now
      BY <1>1, <3>1
    <3> QED BY <1>1, <3>1, <3>2, JobsStay
  <2>3. ASSUME NEW k \in Ticks, SchedulerStep(k) PROVE JobsInv' /\ now' = now
    <3>1. now' = now
      BY <2>3 DEF SchedulerStep, TimerFires, Skip, Dispatch
    <3> QED BY <1>1, <2>3, <3>1, JobsListed, JobSkipped, JobDispatched DEF SchedulerStep
  <2> QED BY <1>1, <2>1, <2>2, <2>3 DEF JobStep
<1>4. ItemsInv'
  BY <1>1, <1>2, <1>3, ItemsLater
<1>5. FlowsInv'
  BY <1>1, <1>2, FlowsStay
<1> QED BY <1>1, <1>3, <1>4, <1>5, AssumedOn DEF WorkInv

\* Steps that leave the scheduler alone.
LEMMA JobsAside ==
  ASSUME WorkInv, UNCHANGED <<now, up, jobs, tick, line, asked, raced, ran, again>>
  PROVE  JobsInv'
BY NowIsTime, JobsStay

LEMMA ItemStepped ==
  ASSUME WorkInv, ItemStep
  PROVE  WorkInv'
<1>1. /\ WorkConstants /\ JobsInv /\ ItemsInv /\ FlowsInv /\ now \in Nat
  BY NowIsTime
<1>2. UNCHANGED <<now, up, jobs, tick, line, asked, raced, ran, again>>
      /\ UNCHANGED <<setups, runs, confirming, twice>>
  BY DEF ItemStep, jobVars, flowVars
<1>3. ItemsInv'
  <2>1. CASE \E i \in Items, key \in ItemKeys \cup {NoKey}, p \in Priorities : EnqueueWorkItem(i, key, p)
    BY <1>1, <2>1, ItemEnqueued
  <2>2. CASE \E w \in Workers : ClaimWorkItem(w)
    BY <1>1, <2>2, ItemClaimed
  <2>3. CASE \E w \in Workers : \/ CompleteWorkItem(w) \/ DeadLetterWorkItem(w)
                                  \/ \E retry \in BOOLEAN : FailWorkItem(w, retry)
    BY <1>1, <2>3, ItemsSettled
  <2>4. CASE \/ \E w \in Workers, g \in Gates : RunGate(w, g)
             \/ \E g \in Gates : GateEnds(g)
    BY <1>1, <2>4, GatesApart
  <2> QED BY <2>1, <2>2, <2>3, <2>4 DEF ItemStep
<1>4. JobsInv' /\ FlowsInv'
  BY <1>1, <1>2, JobsAside, FlowsStay
<1> QED BY <1>1, <1>3, <1>4, AssumedOn DEF WorkInv

LEMMA FlowStepped ==
  ASSUME WorkInv, FlowStep
  PROVE  WorkInv'
<1>1. /\ WorkConstants /\ JobsInv /\ ItemsInv /\ FlowsInv /\ now \in Nat
  BY NowIsTime
<1>2. UNCHANGED <<now, up, jobs, tick, line, asked, raced, ran, again>>
      /\ UNCHANGED <<items, holds, gates, lapses, settled, late>>
  BY DEF FlowStep, jobVars, itemVars
<1>3. FlowsInv'
  <2>1. CASE \E s \in Setups : \/ StartWorkflowSetup(s) \/ CancelSetup(s) \/ ConfirmRefused(s)
                               \/ \E a \in Answers : AnswerWorkflowSetup(s, a)
    BY <1>1, <2>1, SetupsSaved
  <2>2. CASE \E r \in Runs : \/ \E s \in Setups : ConfirmWorkflowSetup(s, r)
                             \/ \E a \in Answers : StartWorkflow(r, a)
    BY <1>1, <2>2, RunBegun
  <2>3. CASE \E r \in Runs : ConfirmReturns(r)
    BY <1>1, <2>3, SetupStarted
  <2> QED BY <2>1, <2>2, <2>3 DEF FlowStep, FreshRun
<1>4. JobsInv'
  BY <1>2, JobsAside
<1>5. ItemsInv'
  BY <1>1, <1>2, ItemsLater
<1> QED BY <1>1, <1>3, <1>4, <1>5, AssumedOn DEF WorkInv

LEMMA WorkCutOff ==
  ASSUME WorkInv, Crash
  PROVE  WorkInv'
<1>1. /\ WorkConstants /\ JobsInv /\ ItemsInv /\ FlowsInv
  BY NowIsTime
<1>2. JobsCrash /\ FlowsCrash /\ Dropped(Workers)
  BY DEF Crash
<1>3. now' = now
  BY <1>2 DEF JobsCrash
<1> QED BY <1>1, <1>2, <1>3, JobsCutOff, FlowsCrashed, WorkersDropped, AssumedOn DEF WorkInv

LEMMA ActionEnded ==
  ASSUME WorkInv, NEW k \in Ticks, ActionEnds(k)
  PROVE  WorkInv'
<1>1. /\ WorkConstants /\ JobsInv /\ ItemsInv /\ FlowsInv
  BY NowIsTime
<1>2. FinishJob(k) /\ Dropped({k}) /\ UNCHANGED <<setups, runs, confirming, twice>>
  BY DEF ActionEnds, flowVars
<1>3. now' = now
  BY <1>2 DEF FinishJob
<1> QED BY <1>1, <1>2, <1>3, JobFinished, FlowsStay, WorkersDropped, AssumedOn DEF WorkInv

LEMMA WorkflowEnded ==
  ASSUME WorkInv, NEW r \in Runs, WorkflowEnds(r)
  PROVE  WorkInv'
<1>1. /\ WorkConstants /\ JobsInv /\ ItemsInv /\ FlowsInv
  BY NowIsTime
<1>2. Dropped({r}) /\ UNCHANGED <<now, up, jobs, tick, line, asked, raced, ran, again>>
  BY DEF WorkflowEnds, jobVars
<1>3. PICK ok \in BOOLEAN : RunEnds(r, ok)
  BY DEF WorkflowEnds
<1>4. JobsInv' /\ now' = now
  BY <1>2, JobsAside
<1> QED BY <1>1, <1>2, <1>3, <1>4, RunEnded, WorkersDropped, AssumedOn DEF WorkInv

LEMMA WorkGoesOn == WorkInv /\ [WorkNext]_workVars => WorkInv'
<1> SUFFICES ASSUME WorkInv, [WorkNext]_workVars PROVE WorkInv'
  OBVIOUS
<1>1. /\ WorkConstants /\ JobsInv /\ ItemsInv /\ FlowsInv
      /\ now \in Nat /\ now \in 0 .. MaxTime /\ up \in BOOLEAN
  BY NowIsTime
<1>2. CASE JobStep
  BY <1>2, SchedulerStepped
<1>3. CASE ItemStep
  BY <1>3, ItemStepped
<1>4. CASE FlowStep
  BY <1>4, FlowStepped
<1>5. CASE Crash
  BY <1>5, WorkCutOff
<1>6. CASE Restart
  <2>1. /\ UNCHANGED <<now, jobs, tick, line, asked, raced, ran, again>> /\ up' = TRUE
        /\ UNCHANGED <<items, holds, gates, lapses, settled, late>>
        /\ UNCHANGED <<setups, runs, confirming, twice>>
    BY <1>6 DEF Restart, JobsStart, itemVars, flowVars
  <2>2. JobsInv'
    BY <1>1, <2>1, JobsStay
  <2>3. ItemsInv' /\ FlowsInv'
    BY <1>1, <2>1, ItemsLater, FlowsStay
  <2> QED BY <1>1, <2>2, <2>3, AssumedOn DEF WorkInv
<1>7. CASE \E k \in Ticks : ActionEnds(k)
  BY <1>7, ActionEnded
<1>8. CASE \E r \in Runs : WorkflowEnds(r)
  BY <1>8, WorkflowEnded
<1>9. CASE UNCHANGED workVars
  <2>1. /\ UNCHANGED <<now, up, jobs, tick, line, asked, raced, ran, again>>
        /\ UNCHANGED <<items, holds, gates, lapses, settled, late>>
        /\ UNCHANGED <<setups, runs, confirming, twice>>
    BY <1>9 DEF workVars, jobVars, itemVars, flowVars
  <2>2. JobsInv'
    BY <2>1, JobsAside
  <2>3. ItemsInv' /\ FlowsInv'
    BY <1>1, <2>1, ItemsLater, FlowsStay
  <2> QED BY <1>1, <2>2, <2>3, AssumedOn DEF WorkInv
<1> QED BY <1>2, <1>3, <1>4, <1>5, <1>6, <1>7, <1>8, <1>9 DEF WorkNext

-----------------------------------------------------------------------------
(* What follows.                                                           *)

LEMMA JobTables == WorkInv => JobsTypeOK
<1> SUFFICES ASSUME WorkInv PROVE JobsTypeOK
  OBVIOUS
<1>1. JobShape /\ Queues /\ again = FALSE
  BY NowIsTime DEF JobsInv
<1>2. \A j \in PackageJobIds : \A n \in 1 .. Len(line[j]) :
        tick[line[j][n]] # Absent /\ Head(tick[line[j][n]].left) = j
  <2> SUFFICES ASSUME NEW j \in PackageJobIds, NEW n \in 1 .. Len(line[j])
               PROVE  tick[line[j][n]] # Absent /\ Head(tick[line[j][n]].left) = j
    OBVIOUS
  <2>1. PICK q \in Seq(Ticks) : q = line[j]
    BY <1>1 DEF JobShape
  <2>2. q[n] \in Ticks
    BY <2>1
  <2>3. PICK k \in Ticks : k = line[j][n]
    BY <2>1, <2>2
  <2>4. Queued(k, line, j)
    BY <2>3 DEF Queued
  <2> QED BY <1>1, <2>3, <2>4 DEF Queues
<1> QED BY <1>1, <1>2 DEF JobShape, JobsTypeOK

LEMMA TablesSound == WorkInv => WorkSound
<1> SUFFICES ASSUME WorkInv PROVE WorkSound
  OBVIOUS
<1>1. WorkConstants /\ JobsInv /\ ItemsInv /\ FlowsInv
  BY NowIsTime
<1>2. TablesOK
  BY <1>1, JobTables DEF ItemsInv, ItemShape, FlowsInv, FlowShape, TablesOK
<1>3. CompletedOnce
  <2> SUFFICES ASSUME NEW i \in Items PROVE settled[i] <= 1 + lapses[i]
    BY DEF CompletedOnce
  <2>1. /\ IsFiniteSet(HoldersOf(i)) /\ settled[i] + Cardinality(HoldersOf(i)) + Waits(i) <= 1 + lapses[i]
        /\ settled[i] \in Nat /\ lapses[i] \in Nat
    BY <1>1 DEF ItemsInv, ItemShape, AllPaid, Paid
  <2>2. Cardinality(HoldersOf(i)) \in Nat /\ Waits(i) \in Nat
    BY <2>1, FS_CardinalityType DEF Waits
  <2> QED BY <2>1, <2>2
<1>4. ClaimsHold
  BY <1>1, <1>3 DEF ItemsInv, Leases, Tries, ClaimsHold
<1>5. SetupsHold
  BY <1>1, OneCompleted DEF FlowsInv, SetupsHold
<1> QED BY <1>2, <1>4, <1>5 DEF WorkSound

\* The next run is the first occurrence that has not run.
LEMMA NextIsNotRun ==
  ASSUME WorkInv, NEW j \in PackageJobIds, ~raced[j]
  PROVE  AskedHolds(j) /\ FirstNotRun(j)
<1>1. WorkConstants /\ JobShape /\ JobRight(j) /\ AskedKept(j)
  BY NowIsTime DEF JobsInv, AllRight, JobRight
<1>2. AskedHolds(j)
  BY <1>1 DEF AskedKept, AskedHolds
<1>3. CASE jobs[j] = Absent \/ RunningJob(j)
  BY <1>2, <1>3 DEF FirstNotRun
<1>4. CASE jobs[j] # Absent /\ ~RunningJob(j)
  <2>1. PICK row \in JobRow : row = jobs[j]
    BY <1>1, <1>4 DEF JobShape
  <2>2. PICK first \in JobRow : first = asked[j] /\ asked[j] # Absent
    BY <1>1, <1>4 DEF JobShape, AskedKept
  <2>3. row.meta = first.meta /\ row.anchor = first.anchor
        /\ row.next \in Nat \cup {Never} /\ first.next \in Nat \cup {Never} /\ Never \notin Nat
    BY <1>1, <2>1, <2>2 DEF AskedKept, JobRow, WorkConstants
  <2>4. PICK due : due = {t \in (IF first.next = Never THEN {} ELSE first.next .. (MaxTime + 2 * Minute)) :
                            Occurs(row.meta, row.anchor, t) /\ t \notin ran[j]}
    OBVIOUS
  <2>5. \A t \in due : /\ t \in Nat /\ first.next \in Nat /\ first.next <= t /\ t <= Ahead
                       /\ Occurs(first.meta, first.anchor, t) /\ t \notin ran[j]
    BY <2>3, <2>4 DEF Ahead
  <2>6. \A t \in due : ~Reached(row, t)
    BY <1>1, <2>1, <2>2, <2>3, <2>5 DEF AskedKept, AllRan
  <2>7. CASE row.next = Never
    <3>1. due = {}
      BY <2>5, <2>6, <2>7 DEF Reached
    <3> QED BY <1>2, <2>1, <2>2, <2>4, <2>7, <3>1 DEF FirstNotRun
  <2>8. CASE row.next # Never
    <3>1. row.next \in Nat /\ first.next \in Nat /\ first.next <= row.next
      BY <1>1, <2>1, <2>2, <2>3, <2>8 DEF AskedKept
    <3>2. \A t \in due : t >= row.next
      BY <2>5, <2>6, <2>8, <3>1 DEF Reached
    <3>3. ASSUME due # {} PROVE row.next = CHOOSE t \in due : \A u \in due : t <= u
      <4>1. PICK t \in due : t \in Nat /\ row.next <= t /\ t <= Ahead
        BY <2>5, <3>2, <3>3
      <4>2. Ahead \in Int
        BY <1>1 DEF Ahead, WorkConstants
      <4>3. row.next \in first.next .. (MaxTime + 2 * Minute)
        BY <3>1, <4>1, <4>2 DEF Ahead
      <4>4. Occurs(row.meta, row.anchor, row.next)
        BY <1>1, <1>4, <2>1, <2>8 DEF JobRight, RowRight
      <4>5. row.next \notin ran[j]
        <5>1. \A u \in ran[j] : u < row.next
          BY <1>1, <1>4, <2>1, <2>8 DEF JobRight, InOrder
        <5> QED BY <3>1, <5>1
      <4>6. row.next \in due
        BY <2>3, <2>4, <3>1, <4>3, <4>4, <4>5
      <4>7. \A u \in due : row.next <= u
        BY <2>5, <3>1, <3>2
      <4>8. \A t1 \in due : (\A u \in due : t1 <= u) => t1 = row.next
        BY <2>5, <3>1, <4>6, <4>7
      <4> QED BY <4>6, <4>7, <4>8
    <3> QED BY <1>2, <2>1, <2>2, <2>4, <2>8, <3>3 DEF FirstNotRun
  <2> QED BY <2>7, <2>8
<1> QED BY <1>2, <1>3, <1>4

LEMMA JobsKept == WorkInv => JobsAsAsked
<1> SUFFICES ASSUME WorkInv PROVE JobsAsAsked
  OBVIOUS
<1>1. RunsAsAsked
  BY NextIsNotRun DEF RunsAsAsked
<1>2. OccurrenceOnce
  BY NowIsTime DEF JobsInv, OccurrenceOnce
<1> QED BY <1>1, <1>2 DEF JobsAsAsked

\* Claims, setups and the tables of package work (workItemRepository.ts,
\* runtimePluginContextService.ts): leases exclude each other, a key has one
\* item, only expired leases add to the attempts and the completions, a
\* started setup has its completed run, and a setup completes once.
THEOREM WorkRight == WorkSpec => []WorkSound
<1>1. WorkInit => WorkInv
  BY WorkAssumption, WorkAtFirst
<1>2. WorkInv /\ [WorkNext]_workVars => WorkInv'
  BY WorkGoesOn
<1>3. WorkInv => WorkSound
  BY TablesSound
<1> QED BY <1>1, <1>2, <1>3, PTL DEF WorkSpec

\* Jobs (packageJobSchedulerService.ts): a job is scheduled as the last call
\* asked, its next run is the first occurrence that has not run, and none runs
\* twice, except where a call came while the job's own action ran.
THEOREM JobsRunAsAsked == WorkSpec => []JobsAsAsked
<1>1. WorkInit => WorkInv
  BY WorkAssumption, WorkAtFirst
<1>2. WorkInv /\ [WorkNext]_workVars => WorkInv'
  BY WorkGoesOn
<1>3. WorkInv => JobsAsAsked
  BY JobsKept
<1> QED BY <1>1, <1>2, <1>3, PTL DEF WorkSpec

=============================================================================
