-------------------------- MODULE TurnBrokerProofs --------------------------
(***************************************************************************)
(* TurnBroker, for any turns on any threads, any number of chunks, of      *)
(* failures and of sealed keys: the broker's maps fit each other, a reply  *)
(* is what the turn said from some chunk on, and the whole of it for a     *)
(* turn that has its thread to itself.                                     *)
(* SessionWork, for any sessions, calls, profiles and times: a session is  *)
(* in the state that the last call about it decided, unless its calls      *)
(* crossed; it has what it needs, the limit holds and the policy decides   *)
(* as the profile means.                                                   *)
(***************************************************************************)
EXTENDS TurnBroker, SessionWork, FiniteSetTheorems, NaturalsInduction, WellFoundedInduction, TLAPS

-----------------------------------------------------------------------------
(* The inductive invariant. *)

\* What a turn of n chunks said after the first k.
Rest(n, k) == [i \in 1..(n - k) |-> k + i]

\* A sealed key has no waiter and no buffer, and its call or its turn has ended.
Apart ==
    \A t \in sealed.keys :
        /\ ~Waiting(t) /\ buffer[t] = None
        /\ phase[t] \in Settled \/ run[t] = "aborted"

\* Where runTurn is and what the provider does with its turn.
Ran(t) ==
    /\ phase[t] \in {"new", "starting", "ready", "unsent"} <=> run[t] = "none"
    /\ run[t] = "none" => buffer[t] = None /\ sent[t] = 0
    /\ phase[t] = "replied" => run[t] = "completed"

\* A buffer holds all chunks from its first on, and the end of the turn if that
\* has come.
Kept(t) ==
    buffer[t] # None =>
        /\ \E k \in 0..sent[t] : buffer[t].chunks = Rest(sent[t], k)
        /\ run[t] \in {"completed", "failed"} => buffer[t].completion = run[t]
        /\ run[t] \notin {"completed", "failed"} => buffer[t].completion = None

Replies(t) ==
    phase[t] = "replied" => \E k \in 0..sent[t] : reply[t] = Rest(sent[t], k)

Runs == \A t \in Turns : Ran(t) /\ Kept(t) /\ Replies(t)

\* A turn alone on its thread is its requester until it has a waiter, unless a
\* failure is marked that its registration will find.
Asks(t) ==
    LET h == ThreadOf[t] IN
    /\ phase[t] = "starting" => requester[h] = t /\ ~active[h]
    /\ phase[t] \in {"ready", "sending"} /\ failure[h] = None /\ run[t] \in {"none", "running"} =>
           requester[h] = t

\* Its buffer then holds all it said.
Holds(t) ==
    LET h == ThreadOf[t] IN
    (\/ phase[t] = "waiting"
     \/ phase[t] = "sending" /\ failure[h] = None) /\ run[t] \in {"running", "completed", "failed"} =>
        IF buffer[t] = None THEN sent[t] = 0 ELSE buffer[t].chunks = Rest(sent[t], 0)

Unshared(t) == Alone(t) /\ ~stopping

Whole ==
    \A t \in Attributed : Unshared(t) =>
        /\ Asks(t) /\ Holds(t)
        /\ phase[t] = "replied" => reply[t] = Rest(sent[t], 0)

IInv == TypeOK /\ Apart /\ Runs /\ NothingToFlush /\ FreshFailure /\ Whole

-----------------------------------------------------------------------------
(* Sealed keys. *)

Less == {ss \in Nat \X Nat : ss[1] < ss[2]}

\* A set of numbers has a least element, unless it is empty.
LEMMA LeastNumber ==
    ASSUME NEW S \in SUBSET Nat, S # {}
    PROVE  \E x \in S : \A y \in S : ~(y < x)
<1>1. IsWellFoundedOn(Less, Nat)
  BY NatLessThanWellFounded DEF OpToRel, Less
<1>2. \E x \in S : \A y \in S : <<y, x>> \notin Less
  BY <1>1, WFMin
<1>3. \A x, y \in Nat : y < x => <<y, x>> \in Less
  BY DEF Less
<1> QED BY <1>2, <1>3

Seals == {s \in [keys : SUBSET Turns, order : Seq(Turns)] :
            s.keys \subseteq ToSet(s.order) /\ Len(s.order) <= MaxSealed}

LEMMA SealsAre ==
    ASSUME NEW keys \in SUBSET Turns, NEW order \in Seq(Turns),
           keys \subseteq ToSet(order), Len(order) <= MaxSealed
    PROVE  [keys |-> keys, order |-> order] \in Seals
BY DEF Seals

LEMMA SealOneIs ==
    ASSUME NEW s \in Seals, NEW t \in Turns
    PROVE  SealOne(s, t) \in Seals /\ SealOne(s, t).keys \subseteq s.keys \cup {t}
<1> DEFINE order == Append(s.order, t)
<1>0. /\ s \in [keys : SUBSET Turns, order : Seq(Turns)] /\ s.keys \in SUBSET Turns
      /\ s.order \in Seq(Turns) /\ Len(s.order) \in Nat /\ Len(s.order) <= MaxSealed
      /\ s.keys \subseteq ToSet(s.order) /\ MaxSealed \in Nat \ {0}
  BY BoundsAssumption DEF Seals
<1>1. /\ order \in Seq(Turns) /\ Len(order) = Len(s.order) + 1 /\ order[Len(order)] = t
      /\ \A i \in 1..Len(s.order) : order[i] = s.order[i]
  BY <1>0
<1>2. ToSet(s.order) \cup {t} \subseteq ToSet(order)
  BY <1>0, <1>1 DEF ToSet
<1>3. CASE t \in s.keys
  BY <1>3 DEF SealOne
<1>4. CASE t \notin s.keys /\ Len(order) <= MaxSealed
  <2>1. SealOne(s, t) = [keys |-> s.keys \cup {t}, order |-> order]
    BY <1>4 DEF SealOne
  <2>2. s.keys \cup {t} \in SUBSET Turns /\ s.keys \cup {t} \subseteq ToSet(order)
    BY <1>0, <1>2
  <2>3. [keys |-> s.keys \cup {t}, order |-> order] \in Seals
    BY <1>1, <1>4, <2>2, SealsAre
  <2> QED BY <2>1, <2>3
<1>5. CASE t \notin s.keys /\ Len(order) > MaxSealed
  <2>1. SealOne(s, t) = [keys |-> (s.keys \cup {t}) \ {Head(order)}, order |-> Tail(order)]
    <3>1. ~(Len(order) <= MaxSealed)
      BY <1>0, <1>1, <1>5
    <3> QED BY <1>5, <3>1 DEF SealOne
  <2>2. /\ Tail(order) \in Seq(Turns) /\ Len(Tail(order)) = Len(order) - 1
        /\ \A i \in 2..Len(order) : Tail(order)[i - 1] = order[i]
    BY <1>1
  <2>3. \A u \in ToSet(order) : u # Head(order) => u \in ToSet(Tail(order))
    <3> SUFFICES ASSUME NEW u \in ToSet(order), u # Head(order) PROVE u \in ToSet(Tail(order))
      OBVIOUS
    <3>1. PICK i \in 1..Len(order) : order[i] = u
      BY <1>1 DEF ToSet
    <3>2. i # 1
      BY <1>1, <3>1
    <3>3. i - 1 \in 1..Len(Tail(order)) /\ Tail(order)[i - 1] = u
      BY <1>0, <1>1, <2>2, <3>1, <3>2
    <3>4. i - 1 \in DOMAIN Tail(order)
      BY <2>2, <3>3
    <3> QED BY <3>3, <3>4 DEF ToSet
  <2>4. (s.keys \cup {t}) \ {Head(order)} \subseteq ToSet(Tail(order))
    BY <1>0, <1>2, <2>3
  <2>5. Len(Tail(order)) <= MaxSealed
    BY <1>0, <1>1, <2>2
  <2>6. (s.keys \cup {t}) \ {Head(order)} \in SUBSET Turns
    BY <1>0
  <2>7. [keys |-> (s.keys \cup {t}) \ {Head(order)}, order |-> Tail(order)] \in Seals
    BY <2>2, <2>4, <2>5, <2>6, SealsAre
  <2>8. (s.keys \cup {t}) \ {Head(order)} \subseteq s.keys \cup {t}
    OBVIOUS
  <2>9. SealOne(s, t) \in Seals
    BY <2>1, <2>7
  <2>10. SealOne(s, t).keys = (s.keys \cup {t}) \ {Head(order)}
    BY <2>1
  <2> QED BY <2>8, <2>9, <2>10
<1> QED BY <1>0, <1>1, <1>3, <1>4, <1>5

\* The states of the fold, which exist for each number of keys.
Folding(f, s, q, n) ==
    /\ DOMAIN f = 0..n
    /\ \A i \in 0..n : f[i] = IF i = 0 THEN s ELSE SealOne(f[i - 1], q[i])

LEMMA FoldExists ==
    ASSUME NEW s, NEW q, NEW n \in Nat
    PROVE  \E f : Folding(f, s, q, n)
<1> DEFINE Bad == {m \in Nat : ~\E f : Folding(f, s, q, m)}
<1> SUFFICES ASSUME Bad # {} PROVE FALSE
  OBVIOUS
<1>1. PICK m \in Bad : \A y \in Bad : ~(y < m)
  <2>1. Bad \in SUBSET Nat
    OBVIOUS
  <2> HIDE DEF Bad
  <2> QED BY <2>1, LeastNumber
<1>2. CASE m = 0
  <2>1. Folding([i \in 0..0 |-> s], s, q, 0)
    BY DEF Folding
  <2> QED BY <1>1, <1>2, <2>1
<1>3. CASE m # 0
  <2>1. m \in Nat /\ m - 1 \in Nat /\ m - 1 < m
    BY <1>1, <1>3
  <2>2. m - 1 \notin Bad
    BY <1>1, <2>1
  <2>3. PICK f : Folding(f, s, q, m - 1)
    BY <2>1, <2>2
  <2> DEFINE g == [i \in 0..m |-> IF i = m THEN SealOne(f[m - 1], q[m]) ELSE f[i]]
  <2>4. \A i \in 0..m : g[i] = IF i = 0 THEN s ELSE SealOne(g[i - 1], q[i])
    <3> SUFFICES ASSUME NEW i \in 0..m PROVE g[i] = IF i = 0 THEN s ELSE SealOne(g[i - 1], q[i])
      OBVIOUS
    <3>1. CASE i = m
      BY <1>3, <2>1, <3>1
    <3>2. CASE i # m
      <4>1. i \in 0..(m - 1) /\ (i # 0 => i - 1 \in 0..m /\ i - 1 # m)
        BY <2>1, <3>2
      <4> QED BY <2>3, <3>2, <4>1 DEF Folding
    <3> QED BY <3>1, <3>2
  <2>5. Folding(g, s, q, m)
    <3>1. DOMAIN g = 0..m
      OBVIOUS
    <3> HIDE DEF g
    <3> QED BY <2>4, <3>1 DEF Folding
  <2> QED BY <1>1, <2>5
<1> QED BY <1>2, <1>3

LEMMA SealAllIs ==
    ASSUME NEW s \in Seals, NEW q \in Seq(Turns)
    PROVE  SealAll(s, q) \in Seals /\ SealAll(s, q).keys \subseteq s.keys \cup ToSet(q)
<1> DEFINE after == CHOOSE f : f = [i \in 0..Len(q) |-> IF i = 0 THEN s ELSE SealOne(f[i - 1], q[i])]
<1>1. SealAll(s, q) = after[Len(q)]
  BY DEF SealAll
<1>2. Len(q) \in Nat
  OBVIOUS
<1>3. after = [i \in 0..Len(q) |-> IF i = 0 THEN s ELSE SealOne(after[i - 1], q[i])]
  <2>1. PICK f : Folding(f, s, q, Len(q))
    BY <1>2, FoldExists
  <2>2. f = [i \in 0..Len(q) |-> f[i]]
    BY <2>1 DEF Folding
  <2>3. f = [i \in 0..Len(q) |-> IF i = 0 THEN s ELSE SealOne(f[i - 1], q[i])]
    BY <2>1, <2>2 DEF Folding
  <2> QED BY <2>3
<1> HIDE DEF after
<1> DEFINE Fits(i) == after[i] \in Seals /\ after[i].keys \subseteq s.keys \cup ToSet(q)
           Bad == {i \in 0..Len(q) : ~Fits(i)}
<1>4. Bad = {}
  <2> SUFFICES ASSUME Bad # {} PROVE FALSE
    OBVIOUS
  <2>1. PICK m \in Bad : \A y \in Bad : ~(y < m)
    <3>1. Bad \in SUBSET Nat
      BY <1>2
    <3> HIDE DEF Bad
    <3> QED BY <3>1, LeastNumber
  <2>2. CASE m = 0
    <3>1. after[0] = s
      BY <1>2, <1>3
    <3> QED BY <2>1, <2>2, <3>1
  <2>3. CASE m # 0
    <3>1. m \in 1..Len(q) /\ m - 1 \in 0..Len(q) /\ m - 1 < m
      BY <1>2, <2>1, <2>3
    <3>2. Fits(m - 1)
      BY <2>1, <3>1
    <3>3. after[m] = SealOne(after[m - 1], q[m])
      BY <1>3, <2>3, <3>1
    <3>4. q[m] \in Turns /\ q[m] \in ToSet(q)
      BY <3>1 DEF ToSet
    <3>5. PICK was \in Seals, key \in Turns : was = after[m - 1] /\ key = q[m]
      BY <3>2, <3>4
    <3>6. SealOne(was, key) \in Seals /\ SealOne(was, key).keys \subseteq was.keys \cup {key}
      BY SealOneIs
    <3>7. Fits(m)
      BY <3>2, <3>3, <3>4, <3>5, <3>6
    <3> QED BY <2>1, <3>7
  <2> QED BY <2>2, <2>3
<1>5. Len(q) \in 0..Len(q)
  BY <1>2
<1> QED BY <1>1, <1>4, <1>5

-----------------------------------------------------------------------------
(* Chunks. *)

LEMMA RestIs ==
    ASSUME NEW n \in 0..MaxDeltas, NEW k \in 0..n
    PROVE  /\ Rest(n, k) \in Chunks(MaxDeltas) /\ Rest(n, k) \in Seq(Nat)
           /\ Len(Rest(n, k)) = n - k
           /\ Append(Rest(n, k), n + 1) = Rest(n + 1, k)
<1>0. n \in Nat /\ k \in Nat /\ n - k \in Nat /\ n - k \in 0..MaxDeltas /\ (n + 1) - k = (n - k) + 1
      /\ MaxDeltas \in Nat
  BY BoundsAssumption
<1>1. Rest(n, k) \in [1..(n - k) -> 1..MaxDeltas]
  BY <1>0 DEF Rest
<1>2. Rest(n, k) \in Seq(Nat) /\ Len(Rest(n, k)) = n - k
  BY <1>0, <1>1 DEF Rest
<1>3. Append(Rest(n, k), n + 1) = Rest(n + 1, k)
  BY <1>0, <1>2 DEF Rest
<1> QED BY <1>0, <1>1, <1>2, <1>3 DEF Chunks

LEMMA NoneSaid ==
    ASSUME NEW n \in 0..MaxDeltas
    PROVE  Rest(n, n) = <<>> /\ <<>> \in Chunks(MaxDeltas)
<1>1. n \in 0..n /\ n - n = 0
  BY BoundsAssumption
<1>2. Rest(n, n) \in Seq(Nat) /\ Len(Rest(n, n)) = 0 /\ Rest(n, n) \in Chunks(MaxDeltas)
  BY <1>1, RestIs
<1>3. PICK empty \in Seq(Nat) : empty = Rest(n, n)
  BY <1>2
<1>4. empty = <<>>
  BY <1>2, <1>3
<1> QED BY <1>2, <1>3, <1>4

-----------------------------------------------------------------------------
(* Types, and what a step does to one turn. *)

MainOK ==
    /\ phase \in [Turns -> Phases]
    /\ reply \in [Turns -> Chunks(MaxDeltas)]
    /\ buffer \in [Turns -> Buffer \cup {None}]
    /\ sealed \in Seals
    /\ run \in [Turns -> {"none", "running", "completed", "failed", "aborted", "lost"}]
    /\ sent \in [Turns -> 0..MaxDeltas]

RestOK ==
    /\ requester \in [Threads -> Attributed \cup {None}]
    /\ failure \in [Threads -> (SUBSET Turns) \cup {None}]
    /\ active \in [Threads -> BOOLEAN]
    /\ closing \in [Threads -> (SUBSET Turns) \cup {None}]
    /\ stopping \in BOOLEAN
    /\ faults \in 0..MaxFaults

LEMMA Typed == TypeOK <=> MainOK /\ RestOK
BY DEF TypeOK, MainOK, RestOK, Seals

Flushed(t) == Waiting(t) /\ buffer[t] # None => buffer[t].completion = None
Turn(t) == Ran(t) /\ Kept(t) /\ Replies(t) /\ Flushed(t)
Fresh(t) ==
    phase[t] \in {"ready", "sending"} /\ failure[ThreadOf[t]] # None => t \in failure[ThreadOf[t]]

Base == MainOK /\ RestOK /\ Apart /\ (\A t \in Turns : Turn(t) /\ Fresh(t))

LEMMA BaseIs == Base <=> TypeOK /\ Apart /\ Runs /\ NothingToFlush /\ FreshFailure
BY Typed DEF Base, Runs, NothingToFlush, FreshFailure, Turn, Fresh, Flushed

\* What a step does not touch of a turn.
Untouched(t) ==
    phase'[t] = phase[t] /\ reply'[t] = reply[t] /\ buffer'[t] = buffer[t]
    /\ run'[t] = run[t] /\ sent'[t] = sent[t]

LEMMA SameTurn ==
    ASSUME NEW t \in Turns, Turn(t), Untouched(t)
    PROVE  Turn(t)'
BY DEF Turn, Untouched, Ran, Kept, Replies, Flushed, Waiting

\* A turn whose call ends.
LEMMA EndedTurn ==
    ASSUME NEW t \in Turns, phase'[t] \in Settled \ {"unsent"}, buffer'[t] = None,
           run'[t] # "none",
           phase'[t] = "replied" => /\ run'[t] = "completed"
                                    /\ \E k \in 0..sent'[t] : reply'[t] = Rest(sent'[t], k)
    PROVE  Turn(t)'
BY DEF Turn, Ran, Kept, Replies, Flushed, Waiting, Settled

LEMMA SettleIs ==
    ASSUME MainOK, NEW t \in Turns, NEW how \in Settled, NEW text \in Chunks(MaxDeltas), NEW s \in Seals,
           Settle(t, how, text, s)
    PROVE  /\ phase' \in [Turns -> Phases] /\ reply' \in [Turns -> Chunks(MaxDeltas)]
           /\ buffer' \in [Turns -> Buffer \cup {None}] /\ sealed' \in Seals
           /\ sealed'.keys \subseteq s.keys \cup {t}
           /\ phase'[t] = how /\ reply'[t] = text /\ buffer'[t] = None
           /\ \A u \in Turns \ {t} : phase'[u] = phase[u] /\ reply'[u] = reply[u] /\ buffer'[u] = buffer[u]
<1>1. sealed' \in Seals /\ sealed'.keys \subseteq s.keys \cup {t}
  BY SealOneIs DEF Settle
<1>2. how \in Phases
  BY DEF Phases
<1> QED BY <1>1, <1>2 DEF Settle, MainOK

Cut(H) == {t \in Turns : ThreadOf[t] \in H /\ Waiting(t)}

LEMMA RejectIs ==
    ASSUME MainOK, RestOK, NEW H \in SUBSET Threads, RejectWaiters(H)
    PROVE  /\ phase' \in [Turns -> Phases] /\ reply' = reply
           /\ buffer' \in [Turns -> Buffer \cup {None}] /\ sealed' \in Seals
           /\ sealed'.keys \subseteq sealed.keys \cup Cut(H)
           /\ \A t \in Turns : IF t \in Cut(H) THEN phase'[t] = "cut" /\ buffer'[t] = None
                               ELSE phase'[t] = phase[t] /\ buffer'[t] = buffer[t]
           /\ failure' \in [Threads -> (SUBSET Turns) \cup {None}]
           /\ \A h \in Threads : failure'[h] = IF h \in H THEN OpenOn(h) ELSE failure[h]
<1>0. RejectWaiters(H) =>
        /\ failure' = [h \in Threads |-> IF h \in H THEN OpenOn(h) ELSE failure[h]]
        /\ phase' = [t \in Turns |-> IF t \in Cut(H) THEN "cut" ELSE phase[t]]
        /\ buffer' = [t \in Turns |-> IF t \in Cut(H) THEN None ELSE buffer[t]]
        /\ \E q \in SetToSeqs(Cut(H)) : sealed' = SealAll(sealed, q)
        /\ reply' = reply
  BY DEF RejectWaiters, Cut
<1>1. PICK q \in SetToSeqs(Cut(H)) : sealed' = SealAll(sealed, q)
  BY <1>0
<1>2. Cardinality(Cut(H)) \in Nat
  <2>1. Cut(H) \subseteq Turns
    BY DEF Cut
  <2> QED BY <2>1, ThreadsAssumption, FS_Subset, FS_CardinalityType
<1>3. q \in [1..Cardinality(Cut(H)) -> Cut(H)]
  BY <1>1 DEF SetToSeqs
<1>4. q \in Seq(Turns) /\ ToSet(q) \subseteq Cut(H)
  <2>1. PICK n \in Nat : n = Cardinality(Cut(H))
    BY <1>2
  <2>2. q \in [1..n -> Turns] /\ \A i \in 1..n : q[i] \in Cut(H)
    BY <1>3, <2>1 DEF Cut
  <2>3. q \in Seq(Turns) /\ DOMAIN q = 1..n
    BY <2>2
  <2> QED BY <2>2, <2>3 DEF ToSet
<1>5. sealed' \in Seals /\ sealed'.keys \subseteq sealed.keys \cup Cut(H)
  BY <1>1, <1>4, SealAllIs DEF MainOK
<1>6. phase' \in [Turns -> Phases] /\ buffer' \in [Turns -> Buffer \cup {None}]
  BY <1>0 DEF MainOK, Phases, Settled
<1>7. failure' \in [Threads -> (SUBSET Turns) \cup {None}]
  BY <1>0 DEF RestOK, OpenOn
<1> QED BY <1>0, <1>5, <1>6, <1>7

-----------------------------------------------------------------------------
(* The steps keep Base. *)

LEMMA RestStep ==
    ASSUME MainOK, RestOK, [Next]_vars
    PROVE  RestOK'
<1>0. MaxFaults \in Nat /\ ThreadOf \in [Turns -> Threads] /\ Attributed \subseteq Turns
  BY ThreadsAssumption, BoundsAssumption
<1>a. \A h \in Threads : FailureCleared(h) \in [Threads -> (SUBSET Turns) \cup {None}]
  BY DEF RestOK, FailureCleared
<1>b. \A h \in Threads : RequesterDeleted(h) \in [Threads -> Attributed \cup {None}]
  BY DEF RestOK, RequesterDeleted
<1>c. \A h \in Threads : /\ [active EXCEPT ![h] = TRUE] \in [Threads -> BOOLEAN]
                         /\ [active EXCEPT ![h] = FALSE] \in [Threads -> BOOLEAN]
  BY DEF RestOK
<1>d. \A h \in Threads, S \in (SUBSET Turns) \cup {None} :
        [closing EXCEPT ![h] = S] \in [Threads -> (SUBSET Turns) \cup {None}]
  BY DEF RestOK
<1>1. ASSUME NEW t \in Turns, Resume(t) PROVE RestOK'
  <2>1. CASE Begin(t)
    <3>1. requester' \in [Threads -> Attributed \cup {None}]
      BY <2>1 DEF Begin, RestOK
    <3>2. failure' \in [Threads -> (SUBSET Turns) \cup {None}]
      BY <1>0, <1>a, <2>1 DEF Begin, RestOK
    <3> QED BY <2>1, <3>1, <3>2 DEF Begin, RestOK
  <2>2. CASE Started(t)
    BY <1>0, <1>a, <1>c, <2>2 DEF Started, RestOK
  <2>3. CASE Send(t)
    BY <2>3 DEF Send, RestOK
  <2>4. CASE Unsent(t)
    BY <1>0, <1>b, <2>4 DEF Unsent, RestOK
  <2>5. CASE Register(t)
    BY <1>0, <1>a, <2>5 DEF Register, RestOK
  <2>6. CASE Timeout(t)
    BY <1>0, <1>b, <2>6 DEF Timeout, RestOK
  <2> QED BY <1>1, <2>1, <2>2, <2>3, <2>4, <2>5, <2>6 DEF Resume
<1>2. ASSUME NEW t \in Turns, Handle(t) PROVE RestOK'
  <2>1. CASE ContentDelta(t)
    BY <2>1 DEF ContentDelta, RestOK
  <2>2. ASSUME NEW state \in {"completed", "failed"}, TurnCompleted(t, state) PROVE RestOK'
    BY <1>0, <1>b, <2>2 DEF TurnCompleted, RestOK
  <2>3. CASE TurnAborted(t)
    BY <1>0, <1>b, <2>3 DEF TurnAborted, RestOK
  <2> QED BY <1>2, <2>1, <2>2, <2>3 DEF Handle
<1>3. CASE Stop
  <2>1. failure' \in [Threads -> (SUBSET Turns) \cup {None}]
    BY <1>3, RejectIs DEF Stop
  <2> QED BY <1>3, <2>1 DEF Stop, RestOK
<1>4. ASSUME NEW h \in Threads, RuntimeError(h) PROVE RestOK'
  <2>1. failure' \in [Threads -> (SUBSET Turns) \cup {None}]
    BY <1>4, RejectIs DEF RuntimeError
  <2> QED BY <1>0, <1>b, <1>4, <2>1 DEF RuntimeError, RestOK
<1>5. ASSUME NEW h \in Threads, SessionDies(h) PROVE RestOK'
  BY <1>0, <1>c, <1>d, <1>5 DEF SessionDies, RestOK
<1>6. ASSUME NEW h \in Threads, SessionClosed(h) PROVE RestOK'
  <2>1. failure' \in [Threads -> (SUBSET Turns) \cup {None}]
    <3>1. CASE HasOpenTurn(h)
      BY <1>6, <3>1, RejectIs DEF SessionClosed
    <3>2. CASE ~HasOpenTurn(h)
      BY <1>6, <3>2 DEF SessionClosed, RestOK
    <3> QED BY <3>1, <3>2
  <2>2. closing' \in [Threads -> (SUBSET Turns) \cup {None}]
    BY <1>d, <1>6 DEF SessionClosed
  <2>3. requester' \in [Threads -> Attributed \cup {None}]
    BY <1>b, <1>6 DEF SessionClosed, RestOK
  <2> QED BY <1>6, <2>1, <2>2, <2>3 DEF SessionClosed, RestOK
<1>7. ASSUME NEW h \in Threads, Archive(h) PROVE RestOK'
  <2>1. failure' \in [Threads -> (SUBSET Turns) \cup {None}]
    BY <1>7, RejectIs DEF Archive
  <2>2. closing' \in [Threads -> (SUBSET Turns) \cup {None}]
    BY <1>d, <1>7 DEF Archive
  <2> QED BY <1>0, <1>c, <1>7, <2>1, <2>2 DEF Archive, RestOK
<1>8. CASE UNCHANGED vars
  BY <1>8 DEF vars, RestOK
<1> QED BY <1>1, <1>2, <1>3, <1>4, <1>5, <1>6, <1>7, <1>8 DEF Next

\* A step that only moves the call t.
LEMMA MoveStep ==
    ASSUME Base, RestOK', NEW t \in Turns, NEW to \in Phases \ Settled,
           phase' = [phase EXCEPT ![t] = to],
           UNCHANGED <<reply, buffer, sent>>,
           sealed' \in Seals, sealed'.keys \subseteq sealed.keys,
           t \notin sealed'.keys,
           \A u \in Turns \ {t} : run'[u] = run[u],
           run' \in [Turns -> {"none", "running", "completed", "failed", "aborted", "lost"}],
           Turn(t)'
    PROVE  MainOK' /\ Apart' /\ \A u \in Turns : Turn(u)'
<1>1. MainOK'
  BY DEF Base, MainOK
<1>2. \A u \in Turns \ {t} : Untouched(u)
  BY DEF Base, MainOK, Untouched
<1>3. Apart'
  BY <1>2 DEF Base, MainOK, Apart, Seals, Untouched, Waiting
<1>4. \A u \in Turns : Turn(u)'
  BY <1>2, SameTurn DEF Base
<1> QED BY <1>1, <1>3, <1>4

\* A step that ends the call t.
LEMMA EndStep ==
    ASSUME Base, NEW t \in Turns, NEW how \in Settled \ {"unsent"}, NEW text \in Chunks(MaxDeltas),
           NEW s \in Seals, s.keys \subseteq sealed.keys, Settle(t, how, text, s), sent' = sent,
           \A u \in Turns \ {t} : run'[u] = run[u],
           run' \in [Turns -> {"none", "running", "completed", "failed", "aborted", "lost"}],
           run'[t] # "none",
           how = "replied" => run'[t] = "completed" /\ \E k \in 0..sent[t] : text = Rest(sent[t], k)
    PROVE  MainOK' /\ Apart' /\ \A u \in Turns : Turn(u)'
<1>0. /\ phase' \in [Turns -> Phases] /\ reply' \in [Turns -> Chunks(MaxDeltas)]
      /\ buffer' \in [Turns -> Buffer \cup {None}] /\ sealed' \in Seals
      /\ sealed'.keys \subseteq s.keys \cup {t}
      /\ phase'[t] = how /\ reply'[t] = text /\ buffer'[t] = None
      /\ \A u \in Turns \ {t} : phase'[u] = phase[u] /\ reply'[u] = reply[u] /\ buffer'[u] = buffer[u]
  BY SettleIs DEF Base
<1>1. MainOK'
  BY <1>0 DEF Base, MainOK
<1>2. \A u \in Turns \ {t} : Untouched(u)
  BY <1>0 DEF Untouched
<1>3. Apart'
  <2> SUFFICES ASSUME NEW u \in sealed'.keys
               PROVE  phase'[u] # "waiting" /\ buffer'[u] = None /\ (phase'[u] \in Settled \/ run'[u] = "aborted")
    BY DEF Apart, Waiting
  <2>1. CASE u = t
    BY <1>0, <2>1 DEF Settled
  <2>2. CASE u # t
    <3>1. u \in Turns /\ u \in sealed.keys
      BY <1>0, <2>2 DEF Seals
    <3> QED BY <1>0, <2>2, <3>1 DEF Base, Apart, Waiting
  <2> QED BY <2>1, <2>2
<1>4. Turn(t)'
  BY <1>0, EndedTurn
<1>5. \A u \in Turns : Turn(u)'
  BY <1>2, <1>4, SameTurn DEF Base
<1> QED BY <1>1, <1>3, <1>5

LEMMA BeginStep ==
    ASSUME Base, RestOK', NEW t \in Turns, Begin(t)
    PROVE  Base'
<1>0. /\ phase[t] = "new" /\ phase \in [Turns -> Phases] /\ run' = run /\ buffer' = buffer /\ sent' = sent
      /\ reply' = reply /\ sealed' = sealed /\ Turn(t) /\ ThreadOf[t] \in Threads
      /\ sealed \in Seals
  BY ThreadsAssumption DEF Begin, Base, MainOK
<1>1. PICK to \in {"ready", "starting"} :
        /\ phase' = [phase EXCEPT ![t] = to]
        /\ \A h \in Threads : failure'[h] = None \/ failure'[h] = failure[h]
        /\ to = "ready" => failure'[ThreadOf[t]] = None
  BY <1>0 DEF Begin, FailureCleared, Base, RestOK
<1>2. phase'[t] = to /\ \A u \in Turns \ {t} : phase'[u] = phase[u]
  BY <1>0, <1>1
<1>3. run[t] = "none" /\ buffer[t] = None /\ sent[t] = 0
  BY <1>0 DEF Turn, Ran
<1>4. Turn(t)'
  BY <1>0, <1>2, <1>3 DEF Turn, Ran, Kept, Replies, Flushed, Waiting
<1>5. MainOK' /\ Apart' /\ \A u \in Turns : Turn(u)'
  <2>1. t \notin sealed.keys
    BY <1>0, <1>3 DEF Base, Apart, Settled
  <2>2. MainOK'
    BY <1>0, <1>1 DEF Base, MainOK, Phases
  <2>3. Apart'
    BY <1>0, <1>2, <2>1 DEF Base, Apart, Seals, Waiting
  <2>4. \A u \in Turns : Turn(u)'
    BY <1>0, <1>2, <1>4, SameTurn DEF Base, Untouched
  <2> QED BY <2>2, <2>3, <2>4
<1>6. \A u \in Turns : Fresh(u)'
  BY <1>0, <1>1, <1>2, ThreadsAssumption DEF Base, Fresh
<1> QED BY <1>5, <1>6 DEF Base

\* A resumption that moves the call towards its waiter, or finds that it was not
\* sent.
LEMMA ResumeStep ==
    ASSUME Base, RestOK', NEW t \in Turns, Started(t) \/ Send(t) \/ Unsent(t)
    PROVE  Base'
<1>0. /\ phase \in [Turns -> Phases] /\ UNCHANGED <<buffer, sent, reply, sealed>> /\ Turn(t)
      /\ ThreadOf[t] \in Threads /\ Fresh(t)
      /\ run \in [Turns -> {"none", "running", "completed", "failed", "aborted", "lost"}]
  BY ThreadsAssumption DEF Started, Send, Unsent, Base, MainOK
<1>1. PICK to \in {"ready", "sending", "unsent"}, ran \in {"none", "running"} :
        /\ phase' = [phase EXCEPT ![t] = to] /\ run' = [run EXCEPT ![t] = ran]
        /\ ran = "running" <=> to = "sending"
        /\ \A h \in Threads : failure'[h] = None \/ failure'[h] = failure[h]
        /\ to = "ready" => failure'[ThreadOf[t]] = None
        /\ phase[t] \in {"starting", "ready"} /\ (to = "sending" => phase[t] = "ready")
  <2>1. CASE Started(t)
    <3>1. phase' = [phase EXCEPT ![t] = "ready"] /\ phase[t] = "starting" /\ run' = run
      BY <2>1 DEF Started
    <3>2. run' = [run EXCEPT ![t] = "none"]
      BY <1>0, <3>1 DEF Turn, Ran
    <3>3. /\ \A h \in Threads : failure'[h] = None \/ failure'[h] = failure[h]
          /\ failure'[ThreadOf[t]] = None
      BY <1>0, <2>1 DEF Started, FailureCleared, Base, RestOK
    <3> QED BY <3>1, <3>2, <3>3
  <2>2. CASE Send(t)
    <3>1. phase' = [phase EXCEPT ![t] = "sending"] /\ phase[t] = "ready"
          /\ run' = [run EXCEPT ![t] = "running"] /\ failure' = failure
      BY <2>2 DEF Send
    <3> QED BY <3>1
  <2>3. CASE Unsent(t)
    <3>1. phase' = [phase EXCEPT ![t] = "unsent"] /\ phase[t] \in {"starting", "ready"}
          /\ run' = run /\ failure' = failure
      BY <2>3 DEF Unsent
    <3>2. run' = [run EXCEPT ![t] = "none"]
      BY <1>0, <3>1 DEF Turn, Ran
    <3> QED BY <3>1, <3>2
  <2> QED BY <2>1, <2>2, <2>3
<1>2. /\ phase'[t] = to /\ run'[t] = ran
      /\ \A u \in Turns \ {t} : phase'[u] = phase[u] /\ run'[u] = run[u]
      /\ phase' \in [Turns -> Phases]
      /\ run' \in [Turns -> {"none", "running", "completed", "failed", "aborted", "lost"}]
  BY <1>0, <1>1 DEF Phases, Settled
<1>3. run[t] = "none" /\ buffer[t] = None /\ sent[t] = 0
  BY <1>0, <1>1 DEF Turn, Ran
<1>4. Turn(t)'
  BY <1>0, <1>1, <1>2, <1>3 DEF Turn, Ran, Kept, Replies, Flushed, Waiting
<1>5. MainOK'
  BY <1>0, <1>2 DEF Base, MainOK
<1>6. Apart'
  <2>1. t \notin sealed.keys
    BY <1>1, <1>3 DEF Base, Apart, Settled
  <2> QED BY <1>0, <1>2, <2>1 DEF Base, MainOK, Seals, Apart, Waiting
<1>7. \A u \in Turns : Turn(u)'
  BY <1>0, <1>2, <1>4, SameTurn DEF Base, Untouched
<1>8. \A u \in Turns : Fresh(u)'
  <2> SUFFICES ASSUME NEW u \in Turns PROVE Fresh(u)'
    OBVIOUS
  <2>1. ThreadOf[u] \in Threads /\ Fresh(u)
    BY ThreadsAssumption DEF Base
  <2> QED BY <1>0, <1>1, <1>2, <2>1 DEF Fresh
<1> QED BY <1>5, <1>6, <1>7, <1>8 DEF Base

\* The completion, and the text, that a buffer holds.
LEMMA BufferIs ==
    ASSUME Base, NEW t \in Turns
    PROVE  /\ BufferOf(t) \in Buffer
           /\ \E k \in 0..sent[t] : BufferOf(t).chunks = Rest(sent[t], k)
           /\ buffer[t] = None => BufferOf(t) = Empty
           /\ buffer[t] # None => BufferOf(t) = buffer[t]
<1>0. sent[t] \in 0..MaxDeltas /\ buffer[t] \in Buffer \cup {None} /\ Turn(t)
  BY DEF Base, MainOK
<1>1. Rest(sent[t], sent[t]) = <<>> /\ <<>> \in Chunks(MaxDeltas)
  BY <1>0, NoneSaid
<1>2. CASE buffer[t] = None
  <2>1. sent[t] \in 0..sent[t]
    BY <1>0, BoundsAssumption
  <2> QED BY <1>1, <1>2, <2>1 DEF BufferOf, Empty, Buffer
<1>3. CASE buffer[t] # None
  BY <1>0, <1>3 DEF BufferOf, Turn, Kept
<1> QED BY <1>2, <1>3

\* An answer ends the call as its turn ended.
LEMMA AnswerStep ==
    ASSUME Base, NEW t \in Turns, NEW b \in Buffer, NEW s \in Seals, s.keys \subseteq sealed.keys,
           Answer(t, b, s), sent' = sent, \E k \in 0..sent[t] : b.chunks = Rest(sent[t], k),
           \A u \in Turns \ {t} : run'[u] = run[u],
           run' \in [Turns -> {"none", "running", "completed", "failed", "aborted", "lost"}],
           run'[t] # "none", b.completion = "completed" => run'[t] = "completed"
    PROVE  /\ MainOK' /\ Apart' /\ \A u \in Turns : Turn(u)'
           /\ phase'[t] \in {"replied", "failed"} /\ \A u \in Turns \ {t} : phase'[u] = phase[u]
<1>1. CASE b.completion = "completed"
  <2>1. PICK text \in Chunks(MaxDeltas) : text = b.chunks
    BY DEF Buffer
  <2>2. PICK how \in Settled \ {"unsent"} : how = "replied"
    BY DEF Settled
  <2>3. Settle(t, how, text, s)
    BY <1>1, <2>1, <2>2 DEF Answer
  <2>4. MainOK' /\ Apart' /\ \A u \in Turns : Turn(u)'
    BY <1>1, <2>1, <2>2, <2>3, EndStep
  <2> QED BY <2>2, <2>3, <2>4, SettleIs DEF Base
<1>2. CASE b.completion # "completed"
  <2>1. PICK text \in Chunks(MaxDeltas) : text = <<>>
    BY NoneSaid, BoundsAssumption
  <2>2. PICK how \in Settled \ {"unsent"} : how = "failed"
    BY DEF Settled
  <2>3. Settle(t, how, text, s)
    BY <1>2, <2>1, <2>2 DEF Answer
  <2>4. MainOK' /\ Apart' /\ \A u \in Turns : Turn(u)'
    BY <2>1, <2>2, <2>3, EndStep
  <2> QED BY <2>2, <2>3, <2>4, SettleIs DEF Base
<1> QED BY <1>1, <1>2

\* Failures that are only cleared leave no call with an old one.
LEMMA FreshStep ==
    ASSUME Base, NEW t \in Turns,
           \A u \in Turns \ {t} : phase'[u] = phase[u],
           phase'[t] \in Settled \cup {"waiting"} \/ phase'[t] = phase[t],
           \A h \in Threads : failure'[h] = None \/ failure'[h] = failure[h]
    PROVE  \A u \in Turns : Fresh(u)'
<1> SUFFICES ASSUME NEW u \in Turns PROVE Fresh(u)'
  OBVIOUS
<1>1. ThreadOf[u] \in Threads /\ Fresh(u)
  BY ThreadsAssumption DEF Base
<1>2. CASE phase'[u] = phase[u]
  BY <1>1, <1>2 DEF Fresh
<1>3. CASE phase'[u] \in Settled \cup {"waiting"}
  BY <1>3 DEF Fresh, Settled
<1> QED BY <1>2, <1>3

LEMMA RegisterStep ==
    ASSUME Base, RestOK', NEW t \in Turns, Register(t)
    PROVE  Base'
<1> DEFINE h == ThreadOf[t]
<1>1. PICK unsealed : unsealed = [sealed EXCEPT !.keys = @ \ {t}]
  OBVIOUS
<1>2. /\ unsealed \in Seals /\ unsealed.keys = sealed.keys \ {t}
      /\ phase[t] = "sending" /\ run[t] # "none" /\ run' = run /\ sent' = sent
      /\ Turn(t) /\ h \in Threads
      /\ run \in [Turns -> {"none", "running", "completed", "failed", "aborted", "lost"}]
  <2>1. sealed \in [keys : SUBSET Turns, order : Seq(Turns)] /\ sealed.keys \subseteq ToSet(sealed.order)
        /\ Len(sealed.order) <= MaxSealed
    BY DEF Base, MainOK, Seals
  <2>2. unsealed = [keys |-> sealed.keys \ {t}, order |-> sealed.order]
    BY <1>1, <2>1
  <2>3. unsealed \in Seals
    BY <2>1, <2>2, SealsAre
  <2> QED BY <2>2, <2>3, ThreadsAssumption DEF Register, Base, MainOK, Turn, Ran
<1>3. \A g \in Threads : failure'[g] = None \/ failure'[g] = failure[g]
  BY <1>2 DEF Register, FailureCleared, Base, RestOK
<1>4. CASE Settle(t, "cut", <<>>, unsealed)
  <2>1. PICK how \in Settled \ {"unsent"}, text \in Chunks(MaxDeltas) : how = "cut" /\ text = <<>>
    BY NoneSaid, BoundsAssumption DEF Settled
  <2>2. Settle(t, how, text, unsealed)
    BY <1>4, <2>1
  <2>3. MainOK' /\ Apart' /\ \A u \in Turns : Turn(u)'
    BY <1>2, <2>1, <2>2, EndStep
  <2>4. phase'[t] = how /\ \A u \in Turns \ {t} : phase'[u] = phase[u]
    BY <1>2, <2>2, SettleIs DEF Base
  <2>5. \A u \in Turns : Fresh(u)'
    BY <1>3, <2>4, FreshStep
  <2> QED BY <2>3, <2>5 DEF Base
<1>5. CASE Complete(t) /\ Answer(t, buffer[t], unsealed)
  <2>1. PICK b \in Buffer : b = buffer[t]
    BY <1>5 DEF Complete, Base, MainOK
  <2>2. b.completion = run[t] /\ \E k \in 0..sent[t] : b.chunks = Rest(sent[t], k)
    BY <1>2, <1>5, <2>1 DEF Complete, Turn, Kept
  <2>3. /\ MainOK' /\ Apart' /\ \A u \in Turns : Turn(u)'
        /\ phase'[t] \in {"replied", "failed"} /\ \A u \in Turns \ {t} : phase'[u] = phase[u]
    BY <1>2, <1>5, <2>1, <2>2, AnswerStep
  <2>4. phase'[t] \in Settled
    BY <2>3 DEF Settled
  <2>5. \A u \in Turns : Fresh(u)'
    BY <1>3, <2>3, <2>4, FreshStep
  <2> QED BY <2>3, <2>5 DEF Base
<1>6. CASE /\ ~Complete(t) /\ phase' = [phase EXCEPT ![t] = "waiting"]
           /\ sealed' = unsealed /\ UNCHANGED <<reply, buffer>>
  <2>1. PICK to \in Phases \ Settled : to = "waiting"
    BY DEF Phases, Settled
  <2>2. phase'[t] = "waiting" /\ \A u \in Turns \ {t} : phase'[u] = phase[u]
    BY <1>6 DEF Base, MainOK
  <2>3. Turn(t)'
    BY <1>2, <1>6, <2>2 DEF Complete, Turn, Ran, Kept, Replies, Flushed, Waiting
  <2>4. MainOK' /\ Apart' /\ \A u \in Turns : Turn(u)'
    BY <1>2, <1>6, <2>1, <2>3, MoveStep
  <2>5. \A u \in Turns : Fresh(u)'
    BY <1>3, <2>2, FreshStep
  <2> QED BY <2>4, <2>5 DEF Base
<1> QED BY <1>1, <1>4, <1>5, <1>6 DEF Register

LEMMA TimeoutStep ==
    ASSUME Base, RestOK', NEW t \in Turns, Timeout(t)
    PROVE  Base'
<1>1. PICK how \in Settled \ {"unsent"}, text \in Chunks(MaxDeltas) : how = "timedout" /\ text = <<>>
  BY NoneSaid, BoundsAssumption DEF Settled
<1>2. Settle(t, how, text, sealed) /\ sealed \in Seals /\ run' = run /\ sent' = sent /\ failure' = failure
      /\ run[t] # "none"
      /\ run \in [Turns -> {"none", "running", "completed", "failed", "aborted", "lost"}]
  BY <1>1 DEF Timeout, Expires, Waiting, Base, MainOK, Turn, Ran
<1>3. MainOK' /\ Apart' /\ \A u \in Turns : Turn(u)'
  BY <1>1, <1>2, EndStep
<1>4. phase'[t] = how /\ \A u \in Turns \ {t} : phase'[u] = phase[u]
  BY <1>2, SettleIs DEF Base
<1>5. \A u \in Turns : Fresh(u)'
  BY <1>2, <1>4, FreshStep
<1> QED BY <1>3, <1>5 DEF Base

LEMMA DeltaStep ==
    ASSUME Base, RestOK', NEW t \in Turns, ContentDelta(t)
    PROVE  Base'
<1>0. /\ UNCHANGED <<phase, reply, sealed, failure, run>> /\ run[t] = "running" /\ Turn(t)
      /\ sent \in [Turns -> 0..MaxDeltas] /\ sent' = [sent EXCEPT ![t] = @ + 1] /\ sent[t] < MaxDeltas
      /\ buffer \in [Turns -> Buffer \cup {None}] /\ MaxDeltas \in Nat
  BY BoundsAssumption DEF ContentDelta, Streams, Base, MainOK
<1>1. PICK n \in 0..MaxDeltas : n = sent[t]
  BY <1>0
<1>2. /\ n \in Nat /\ n + 1 \in 0..MaxDeltas /\ sent'[t] = n + 1
      /\ \A u \in Turns \ {t} : sent'[u] = sent[u]
      /\ sent' \in [Turns -> 0..MaxDeltas]
  BY <1>0, <1>1
<1>3. buffer[t] # None => ShouldTrack(t, requester)
  BY DEF ShouldTrack, Base, Apart
<1>4. PICK k \in 0..n : BufferOf(t).chunks = Rest(n, k)
  BY <1>1, BufferIs
<1>5. BufferOf(t).completion = None
  BY <1>0, BufferIs DEF Turn, Kept, Empty
<1>6. CASE ShouldTrack(t, requester)
  <2>1. PICK b \in Buffer : b = BufferOf(t)
    BY BufferIs
  <2>2. buffer' = [buffer EXCEPT ![t] = [b EXCEPT !.chunks = Append(@, n + 1)]]
    BY <1>1, <1>6, <2>1 DEF ContentDelta
  <2>3. Append(b.chunks, n + 1) = Rest(n + 1, k) /\ k \in 0..(n + 1)
    <3>1. b.chunks = Rest(n, k)
      BY <1>4, <2>1
    <3>2. Append(Rest(n, k), n + 1) = Rest(n + 1, k)
      BY RestIs
    <3>3. k \in 0..(n + 1)
      BY <1>2
    <3> QED BY <3>1, <3>2, <3>3
  <2>4. Rest(n + 1, k) \in Chunks(MaxDeltas)
    BY <1>2, <2>3, RestIs
  <2>5. PICK c \in Buffer : c = [b EXCEPT !.chunks = Rest(n + 1, k)]
    BY <2>4 DEF Buffer
  <2>6. c.chunks = Rest(n + 1, k) /\ c.completion = None
    BY <1>5, <2>1, <2>5 DEF Buffer
  <2>7. buffer' = [buffer EXCEPT ![t] = c]
    BY <2>2, <2>3, <2>5 DEF Buffer
  <2>8. buffer'[t] = c /\ (\A u \in Turns \ {t} : buffer'[u] = buffer[u])
        /\ buffer' \in [Turns -> Buffer \cup {None}]
    BY <1>0, <2>7
  <2>9. Turn(t)'
    BY <1>0, <1>1, <1>2, <2>3, <2>6, <2>8 DEF Turn, Ran, Kept, Replies, Flushed, Waiting
  <2>10. \A u \in Turns : Turn(u)'
    BY <1>0, <1>2, <2>8, <2>9, SameTurn DEF Base, Untouched
  <2>11. MainOK'
    BY <1>0, <1>2, <2>8 DEF Base, MainOK
  <2>12. Apart'
    BY <1>0, <1>6, <2>8 DEF Base, MainOK, Seals, Apart, Waiting, ShouldTrack
  <2> QED BY <1>0, <2>10, <2>11, <2>12 DEF Base, Fresh
<1>7. CASE ~ShouldTrack(t, requester)
  <2>1. buffer' = buffer /\ buffer[t] = None
    BY <1>3, <1>7 DEF ContentDelta
  <2>2. Turn(t)'
    BY <1>0, <1>2, <2>1 DEF Turn, Ran, Kept, Replies, Flushed, Waiting
  <2>3. \A u \in Turns : Turn(u)'
    BY <1>0, <1>2, <2>1, <2>2, SameTurn DEF Base, Untouched
  <2> QED BY <1>0, <1>2, <2>1, <2>3 DEF Base, MainOK, Apart, Waiting, Fresh
<1> QED BY <1>6, <1>7

LEMMA CompletedStep ==
    ASSUME Base, RestOK', NEW t \in Turns, NEW state \in {"completed", "failed"}, TurnCompleted(t, state)
    PROVE  Base'
<1> DEFINE gone == RequesterDeleted(ThreadOf[t])
<1>0. /\ UNCHANGED <<failure, sent>> /\ run[t] = "running" /\ Turn(t) /\ Fresh(t)
      /\ run' = [run EXCEPT ![t] = state] /\ buffer \in [Turns -> Buffer \cup {None}]
      /\ run \in [Turns -> {"none", "running", "completed", "failed", "aborted", "lost"}]
      /\ sealed \in Seals
  BY DEF TurnCompleted, Streams, Base, MainOK
<1>1. /\ run'[t] = state /\ \A u \in Turns \ {t} : run'[u] = run[u]
      /\ run' \in [Turns -> {"none", "running", "completed", "failed", "aborted", "lost"}]
  BY <1>0
<1>2. PICK was \in Buffer : was = BufferOf(t)
  BY BufferIs
<1>3. PICK b \in Buffer : b = [was EXCEPT !.completion = state]
  BY DEF Buffer
<1>4. b.completion = state /\ b.chunks = was.chunks /\ \E k \in 0..sent[t] : b.chunks = Rest(sent[t], k)
  BY <1>2, <1>3, BufferIs DEF Buffer
<1>5. buffer[t] # None => ShouldTrack(t, gone)
  BY DEF ShouldTrack, Base, Apart
<1>6. CASE Waiting(t) /\ Answer(t, b, sealed)
  <2>1. /\ MainOK' /\ Apart' /\ \A u \in Turns : Turn(u)'
        /\ phase'[t] \in {"replied", "failed"} /\ \A u \in Turns \ {t} : phase'[u] = phase[u]
    BY <1>0, <1>1, <1>4, <1>6, AnswerStep
  <2>2. phase'[t] \in Settled
    BY <2>1 DEF Settled
  <2>3. \A u \in Turns : Fresh(u)'
    BY <1>0, <2>1, <2>2, FreshStep
  <2> QED BY <2>1, <2>3 DEF Base
<1>7. CASE /\ ~Waiting(t) /\ ShouldTrack(t, gone)
           /\ buffer' = [buffer EXCEPT ![t] = b] /\ UNCHANGED <<phase, reply, sealed>>
  <2>1. buffer'[t] = b /\ (\A u \in Turns \ {t} : buffer'[u] = buffer[u])
        /\ buffer' \in [Turns -> Buffer \cup {None}]
    BY <1>0, <1>7
  <2>2. Turn(t)'
    BY <1>0, <1>1, <1>4, <1>7, <2>1 DEF Turn, Ran, Kept, Replies, Flushed, Waiting
  <2>3. \A u \in Turns : Turn(u)'
    BY <1>0, <1>1, <1>7, <2>1, <2>2, SameTurn DEF Base, Untouched
  <2>4. MainOK'
    BY <1>0, <1>1, <1>7, <2>1 DEF Base, MainOK
  <2>5. Apart'
    BY <1>1, <1>7, <2>1 DEF Base, MainOK, Seals, Apart, Waiting, ShouldTrack
  <2> QED BY <1>0, <1>7, <2>3, <2>4, <2>5 DEF Base, Fresh
<1>8. CASE ~ShouldTrack(t, gone) /\ UNCHANGED <<phase, reply, buffer, sealed>>
  <2>1. buffer[t] = None
    BY <1>5, <1>8
  <2>2. Turn(t)'
    BY <1>0, <1>1, <1>8, <2>1 DEF Turn, Ran, Kept, Replies, Flushed, Waiting
  <2>3. \A u \in Turns : Turn(u)'
    BY <1>0, <1>1, <1>8, <2>2, SameTurn DEF Base, Untouched
  <2>4. Apart'
    BY <1>0, <1>1, <1>8 DEF Base, Seals, Apart, Waiting
  <2> QED BY <1>0, <1>1, <1>8, <2>3, <2>4 DEF Base, MainOK, Fresh
<1>9. b = [BufferOf(t) EXCEPT !.completion = state]
  BY <1>2, <1>3
<1> QED BY <1>6, <1>7, <1>8, <1>9 DEF TurnCompleted

LEMMA AbortedStep ==
    ASSUME Base, RestOK', NEW t \in Turns, TurnAborted(t)
    PROVE  Base'
<1>0. /\ UNCHANGED <<failure, sent>> /\ run[t] = "running" /\ Turn(t)
      /\ run' = [run EXCEPT ![t] = "aborted"] /\ buffer \in [Turns -> Buffer \cup {None}]
      /\ run \in [Turns -> {"none", "running", "completed", "failed", "aborted", "lost"}]
      /\ sealed \in Seals
  BY DEF TurnAborted, Streams, Base, MainOK
<1>1. /\ run'[t] = "aborted" /\ \A u \in Turns \ {t} : run'[u] = run[u]
      /\ run' \in [Turns -> {"none", "running", "completed", "failed", "aborted", "lost"}]
  BY <1>0
<1>2. CASE Waiting(t)
  <2>1. PICK how \in Settled \ {"unsent"}, text \in Chunks(MaxDeltas) : how = "aborted" /\ text = <<>>
    BY NoneSaid, BoundsAssumption DEF Settled
  <2>2. Settle(t, how, text, sealed)
    BY <1>2, <2>1 DEF TurnAborted
  <2>3. MainOK' /\ Apart' /\ \A u \in Turns : Turn(u)'
    BY <1>0, <1>1, <2>1, <2>2, EndStep
  <2>4. phase'[t] = how /\ \A u \in Turns \ {t} : phase'[u] = phase[u]
    BY <1>0, <2>2, SettleIs DEF Base
  <2>5. \A u \in Turns : Fresh(u)'
    BY <1>0, <2>4, FreshStep
  <2> QED BY <2>3, <2>5 DEF Base
<1>3. CASE ~Waiting(t)
  <2>1. buffer' = [buffer EXCEPT ![t] = None] /\ sealed' = SealOne(sealed, t) /\ UNCHANGED <<phase, reply>>
    BY <1>3 DEF TurnAborted
  <2>2. buffer'[t] = None /\ (\A u \in Turns \ {t} : buffer'[u] = buffer[u])
        /\ buffer' \in [Turns -> Buffer \cup {None}]
    BY <1>0, <2>1
  <2>3. sealed' \in Seals /\ sealed'.keys \subseteq sealed.keys \cup {t}
    BY <1>0, <2>1, SealOneIs
  <2>4. Turn(t)'
    BY <1>0, <1>1, <2>1, <2>2 DEF Turn, Ran, Kept, Replies, Flushed, Waiting
  <2>5. \A u \in Turns : Turn(u)'
    BY <1>0, <1>1, <2>1, <2>2, <2>4, SameTurn DEF Base, Untouched
  <2>6. MainOK'
    BY <1>0, <1>1, <2>1, <2>2, <2>3 DEF Base, MainOK
  <2>7. Apart'
    BY <1>1, <1>3, <2>1, <2>2, <2>3 DEF Base, Seals, Apart, Waiting
  <2> QED BY <1>0, <2>1, <2>5, <2>6, <2>7 DEF Base, Fresh
<1> QED BY <1>2, <1>3

\* What rejects the waiters of threads.
LEMMA RejectStep ==
    ASSUME Base, RestOK', NEW H \in SUBSET Threads, RejectWaiters(H), sent' = sent,
           run' \in [Turns -> {"none", "running", "completed", "failed", "aborted", "lost"}],
           \A t \in Turns : run'[t] = run[t] \/ (run[t] = "running" /\ run'[t] = "lost")
    PROVE  Base'
<1>0. /\ phase' \in [Turns -> Phases] /\ reply' = reply
      /\ buffer' \in [Turns -> Buffer \cup {None}] /\ sealed' \in Seals
      /\ sealed'.keys \subseteq sealed.keys \cup Cut(H)
      /\ \A t \in Turns : IF t \in Cut(H) THEN phase'[t] = "cut" /\ buffer'[t] = None
                          ELSE phase'[t] = phase[t] /\ buffer'[t] = buffer[t]
      /\ \A h \in Threads : failure'[h] = IF h \in H THEN OpenOn(h) ELSE failure[h]
  BY RejectIs DEF Base
<1>1. MainOK'
  BY <1>0 DEF Base, MainOK
<1>2. Apart'
  <2> SUFFICES ASSUME NEW u \in sealed'.keys
               PROVE  phase'[u] # "waiting" /\ buffer'[u] = None /\ (phase'[u] \in Settled \/ run'[u] = "aborted")
    BY DEF Apart, Waiting
  <2>1. u \in Turns
    BY <1>0 DEF Seals
  <2>2. CASE u \in Cut(H)
    BY <1>0, <2>1, <2>2 DEF Settled
  <2>3. CASE u \notin Cut(H)
    BY <1>0, <2>1, <2>3 DEF Base, Apart, Waiting
  <2> QED BY <2>2, <2>3
<1>3. ASSUME NEW t \in Turns PROVE Turn(t)'
  <2>0. Turn(t)
    BY DEF Base
  <2>1. CASE t \in Cut(H)
    <3>1. phase'[t] = "cut" /\ buffer'[t] = None /\ run'[t] # "none"
      BY <1>0, <2>0, <2>1 DEF Cut, Waiting, Turn, Ran
    <3>2. phase'[t] \in Settled \ {"unsent"} /\ phase'[t] # "replied"
      BY <3>1 DEF Settled
    <3> QED BY <3>1, <3>2, EndedTurn
  <2>2. CASE t \notin Cut(H)
    BY <1>0, <2>0, <2>2 DEF Turn, Ran, Kept, Replies, Flushed, Waiting
  <2> QED BY <2>1, <2>2
<1>4. ASSUME NEW t \in Turns PROVE Fresh(t)'
  <2>1. ThreadOf[t] \in Threads /\ Fresh(t)
    BY ThreadsAssumption DEF Base
  <2>2. CASE ThreadOf[t] \in H
    <3> SUFFICES ASSUME phase'[t] \in {"ready", "sending"} PROVE t \in failure'[ThreadOf[t]]
      BY DEF Fresh
    <3>1. phase[t] \in {"ready", "sending"}
      BY <1>0
    <3>2. t \in OpenOn(ThreadOf[t])
      BY <3>1 DEF OpenOn, Settled
    <3>3. failure'[ThreadOf[t]] = OpenOn(ThreadOf[t])
      BY <1>0, <2>1, <2>2
    <3> QED BY <3>2, <3>3
  <2>3. CASE ThreadOf[t] \notin H
    BY <1>0, <2>1, <2>3 DEF Fresh, Cut
  <2> QED BY <2>2, <2>3
<1> QED BY <1>1, <1>2, <1>3, <1>4 DEF Base

LEMMA BaseStep ==
    ASSUME Base, [Next]_vars
    PROVE  Base'
<1>0. RestOK'
  BY RestStep DEF Base
<1>r. run \in [Turns -> {"none", "running", "completed", "failed", "aborted", "lost"}]
  BY DEF Base, MainOK
<1>1. ASSUME NEW t \in Turns, Resume(t) PROVE Base'
  BY <1>0, <1>1, BeginStep, ResumeStep, RegisterStep, TimeoutStep DEF Resume
<1>2. ASSUME NEW t \in Turns, Handle(t) PROVE Base'
  BY <1>0, <1>2, DeltaStep, CompletedStep, AbortedStep DEF Handle
<1>3. CASE Stop
  BY <1>0, <1>3, <1>r, RejectStep DEF Stop
<1>4. ASSUME NEW h \in Threads, RuntimeError(h) PROVE Base'
  <2>1. RejectWaiters({h}) /\ {h} \in SUBSET Threads /\ sent' = sent /\ run' = run
    BY <1>4 DEF RuntimeError
  <2> QED BY <1>0, <1>r, <2>1, RejectStep
<1>5. ASSUME NEW h \in Threads, Archive(h) PROVE Base'
  <2>1. RejectWaiters({h}) /\ {h} \in SUBSET Threads /\ sent' = sent /\ run' = run
    BY <1>5 DEF Archive
  <2> QED BY <1>0, <1>r, <2>1, RejectStep
<1>6. ASSUME NEW h \in Threads, SessionDies(h) PROVE Base'
  <2>1. UNCHANGED <<phase, reply, buffer, sealed, failure, run, sent>>
    BY <1>6 DEF SessionDies, vars
  <2>2. \A u \in Turns : Turn(u)'
    BY <2>1, SameTurn DEF Base, Untouched
  <2> QED BY <1>0, <2>1, <2>2 DEF Base, MainOK, Apart, Waiting, Fresh
<1>7. ASSUME NEW h \in Threads, SessionClosed(h) PROVE Base'
  <2>1. /\ run' \in [Turns -> {"none", "running", "completed", "failed", "aborted", "lost"}]
        /\ \A t \in Turns : run'[t] = run[t] \/ (run[t] = "running" /\ run'[t] = "lost")
        /\ sent' = sent
    BY <1>7, <1>r DEF SessionClosed
  <2>2. CASE HasOpenTurn(h)
    <3>1. RejectWaiters({h}) /\ {h} \in SUBSET Threads
      BY <1>7, <2>2 DEF SessionClosed
    <3> QED BY <1>0, <2>1, <3>1, RejectStep
  <2>3. CASE ~HasOpenTurn(h)
    <3>1. UNCHANGED <<phase, reply, buffer, sealed, failure>>
      BY <1>7, <2>3 DEF SessionClosed
    <3>2. ASSUME NEW u \in Turns PROVE Turn(u)'
      <4>1. Turn(u)
        BY DEF Base
      <4> QED BY <2>1, <3>1, <4>1 DEF Turn, Ran, Kept, Replies, Flushed, Waiting
    <3>3. MainOK'
      BY <2>1, <3>1 DEF Base, MainOK
    <3>4. Apart'
      BY <2>1, <3>1 DEF Base, MainOK, Seals, Apart, Waiting
    <3> QED BY <1>0, <3>1, <3>2, <3>3, <3>4 DEF Base, Fresh
  <2> QED BY <2>2, <2>3
<1>8. CASE UNCHANGED vars
  <2>1. UNCHANGED <<phase, reply, buffer, sealed, failure, run, sent>>
    BY <1>8 DEF vars
  <2>2. \A u \in Turns : Turn(u)'
    BY <2>1, SameTurn DEF Base, Untouched
  <2> QED BY <1>0, <2>1, <2>2 DEF Base, MainOK, Apart, Waiting, Fresh
<1> QED BY <1>1, <1>2, <1>3, <1>4, <1>5, <1>6, <1>7, <1>8 DEF Next

-----------------------------------------------------------------------------
(* A turn that has its thread to itself. *)

WholeOf(t) ==
    /\ Asks(t) /\ Holds(t)
    /\ phase[t] = "replied" => reply[t] = Rest(sent[t], 0)

LEMMA WholeIs == Whole <=> \A t \in Attributed : Unshared(t) => WholeOf(t)
BY DEF Whole, WholeOf

LEMMA Onward ==
    ASSUME Base, [Next]_vars
    PROVE  /\ \A u \in Turns : phase'[u] = "new" => phase[u] = "new"
           /\ stopping => stopping'
<1> DEFINE OnwardTo == /\ \A u \in Turns : phase'[u] = "new" => phase[u] = "new"
                       /\ stopping => stopping'
<1>0. phase \in [Turns -> Phases] /\ sealed \in Seals /\ MainOK /\ RestOK
  BY DEF Base, MainOK
<1>1. ASSUME NEW t \in Turns, Resume(t) PROVE OnwardTo
  BY <1>0, <1>1 DEF Resume, Begin, Started, Send, Unsent, Register, Timeout, Settle, Answer
<1>2. ASSUME NEW t \in Turns, Handle(t) PROVE OnwardTo
  BY <1>0, <1>2 DEF Handle, ContentDelta, TurnCompleted, TurnAborted, Settle, Answer
<1>3. ASSUME NEW H \in SUBSET Threads, RejectWaiters(H) PROVE \A u \in Turns : phase'[u] = "new" => phase[u] = "new"
  BY <1>0, <1>3, RejectIs
<1>4. CASE Stop
  BY <1>3, <1>4 DEF Stop
<1>5. ASSUME NEW h \in Threads, RuntimeError(h) \/ Archive(h) PROVE OnwardTo
  <2>1. RejectWaiters({h}) /\ {h} \in SUBSET Threads /\ stopping' = stopping
    BY <1>5 DEF RuntimeError, Archive
  <2> QED BY <1>3, <2>1
<1>6. ASSUME NEW h \in Threads, SessionDies(h) PROVE OnwardTo
  BY <1>6 DEF SessionDies
<1>7. ASSUME NEW h \in Threads, SessionClosed(h) PROVE OnwardTo
  <2>1. stopping' = stopping /\ {h} \in SUBSET Threads /\ (phase' = phase \/ RejectWaiters({h}))
    BY <1>7 DEF SessionClosed
  <2> QED BY <1>3, <2>1
<1>8. CASE UNCHANGED vars
  BY <1>8 DEF vars
<1> QED BY <1>1, <1>2, <1>4, <1>5, <1>6, <1>7, <1>8 DEF Next

LEMMA UnsharedBefore ==
    ASSUME Base, [Next]_vars, NEW t \in Turns, Unshared(t)'
    PROVE  Unshared(t)
BY Onward DEF Unshared, Alone

\* What happens elsewhere leaves the turn as it is, or loses it.
LEMMA ElsewhereKeeps ==
    ASSUME NEW t \in Turns, WholeOf(t),
           phase'[t] = phase[t], reply'[t] = reply[t], buffer'[t] = buffer[t], sent'[t] = sent[t],
           run'[t] = run[t] \/ run'[t] = "lost",
           requester'[ThreadOf[t]] = requester[ThreadOf[t]],
           failure'[ThreadOf[t]] = failure[ThreadOf[t]],
           active'[ThreadOf[t]] = active[ThreadOf[t]] \/ active'[ThreadOf[t]] = FALSE
    PROVE  WholeOf(t)'
<1>1. Asks(t)'
  BY DEF WholeOf, Asks
<1>2. Holds(t)'
  BY DEF WholeOf, Holds
<1> QED BY <1>1, <1>2 DEF WholeOf

\* All the turn said so far.
LEMMA SaidIs ==
    ASSUME Base, NEW t \in Turns, WholeOf(t), run[t] \in {"running", "completed", "failed"},
           Waiting(t) \/ (phase[t] = "sending" /\ failure[ThreadOf[t]] = None)
    PROVE  BufferOf(t).chunks = Rest(sent[t], 0)
<1>1. Holds(t) /\ sent[t] \in 0..MaxDeltas
  BY DEF WholeOf, Base, MainOK
<1>2. CASE buffer[t] = None
  <2>1. sent[t] = 0
    BY <1>1, <1>2 DEF Holds, Waiting
  <2>2. Rest(sent[t], sent[t]) = <<>>
    BY <1>1, NoneSaid
  <2> QED BY <1>2, <2>1, <2>2 DEF BufferOf, Empty
<1>3. CASE buffer[t] # None
  BY <1>1, <1>3 DEF BufferOf, Holds, Waiting
<1> QED BY <1>2, <1>3

LEMMA ResumeKeepsWhole ==
    ASSUME Base, NEW t \in Attributed, t \in Turns, WholeOf(t), Resume(t)
    PROVE  WholeOf(t)'
<1> DEFINE h == ThreadOf[t]
<1>0. /\ h \in Threads /\ phase \in [Turns -> Phases] /\ Turn(t) /\ sealed \in Seals
      /\ run \in [Turns -> {"none", "running", "completed", "failed", "aborted", "lost"}]
      /\ buffer \in [Turns -> Buffer \cup {None}] /\ reply \in [Turns -> Chunks(MaxDeltas)]
      /\ requester \in [Threads -> Attributed \cup {None}]
  BY ThreadsAssumption DEF Base, MainOK, RestOK
<1>1. CASE Begin(t)
  <2>1. /\ phase'[t] \in {"ready", "starting"} /\ requester'[h] = t
        /\ phase'[t] = "starting" => ~active'[h]
    BY <1>0, <1>1 DEF Begin
  <2> QED BY <2>1 DEF WholeOf, Asks, Holds
<1>2. CASE Started(t)
  <2>1. phase'[t] = "ready" /\ requester'[h] = requester[h] /\ phase[t] = "starting"
    BY <1>0, <1>2 DEF Started
  <2>2. requester'[h] = t
    BY <2>1 DEF WholeOf, Asks
  <2> QED BY <2>1, <2>2 DEF WholeOf, Asks, Holds
<1>3. CASE Send(t)
  <2>1. /\ phase[t] = "ready" /\ phase'[t] = "sending" /\ run'[t] = "running"
        /\ UNCHANGED <<buffer, sent, requester, failure>>
    BY <1>0, <1>3 DEF Send
  <2>2. run[t] = "none" /\ buffer[t] = None /\ sent[t] = 0
    BY <1>0, <2>1 DEF Turn, Ran
  <2> QED BY <2>1, <2>2 DEF WholeOf, Asks, Holds
<1>4. CASE Unsent(t)
  <2>1. phase'[t] = "unsent"
    BY <1>0, <1>4 DEF Unsent
  <2> QED BY <2>1 DEF WholeOf, Asks, Holds
<1>5. CASE Register(t)
  <2>1. phase[t] = "sending" /\ UNCHANGED <<run, sent>>
    BY <1>5 DEF Register
  <2>2. CASE phase'[t] \in {"cut", "failed"}
    BY <2>2 DEF WholeOf, Asks, Holds
  <2>3. CASE failure[h] = None /\ Complete(t) /\ phase'[t] = "replied" /\ reply'[t] = buffer[t].chunks
    <3>1. run[t] \in {"completed", "failed"}
      BY <1>0, <2>3 DEF Complete, Turn, Kept, Buffer
    <3>2. buffer[t].chunks = Rest(sent[t], 0)
      BY <2>1, <2>3, <3>1, SaidIs DEF BufferOf, Complete
    <3> QED BY <2>1, <2>3, <3>2 DEF WholeOf, Asks, Holds
  <2>4. CASE failure[h] = None /\ phase'[t] = "waiting" /\ buffer' = buffer
    BY <2>1, <2>4 DEF WholeOf, Asks, Holds
  <2> QED BY <1>0, <1>5, <2>2, <2>3, <2>4 DEF Register, Settle, Answer
<1>6. CASE Timeout(t)
  <2>1. phase'[t] = "timedout"
    BY <1>0, <1>6 DEF Timeout, Settle
  <2> QED BY <2>1 DEF WholeOf, Asks, Holds
<1> QED BY <1>1, <1>2, <1>3, <1>4, <1>5, <1>6 DEF Resume

LEMMA DeltaKeepsWhole ==
    ASSUME Base, NEW t \in Attributed, t \in Turns, WholeOf(t), ContentDelta(t)
    PROVE  WholeOf(t)'
<1> DEFINE h == ThreadOf[t]
<1>0. /\ UNCHANGED <<phase, reply, sealed, requester, failure, active, run>> /\ run[t] = "running" /\ Turn(t)
      /\ sent \in [Turns -> 0..MaxDeltas] /\ sent' = [sent EXCEPT ![t] = @ + 1] /\ sent[t] < MaxDeltas
      /\ buffer \in [Turns -> Buffer \cup {None}] /\ MaxDeltas \in Nat
  BY BoundsAssumption DEF ContentDelta, Streams, Base, MainOK
<1>1. Asks(t)'
  BY <1>0 DEF WholeOf, Asks
<1>2. phase'[t] # "replied"
  BY <1>0 DEF Turn, Ran
<1>3. ASSUME Waiting(t) \/ (phase[t] = "sending" /\ failure[h] = None)
      PROVE  buffer'[t] # None /\ buffer'[t].chunks = Rest(sent'[t], 0)
  <2>1. t \notin sealed.keys
    BY <1>0, <1>3 DEF Base, Apart, Settled
  <2>2. Waiting(t) \/ requester[h] = t
    BY <1>0, <1>3 DEF WholeOf, Asks
  <2>3. ShouldTrack(t, requester)
    BY <2>1, <2>2, NoneAssumption DEF ShouldTrack
  <2>4. PICK n \in 0..MaxDeltas : n = sent[t]
    BY <1>0
  <2>5. n \in Nat /\ 0 \in 0..n /\ n + 1 \in 0..MaxDeltas /\ sent'[t] = n + 1
    BY <1>0, <2>4
  <2>6. PICK b \in Buffer : b = BufferOf(t)
    BY BufferIs
  <2>7. b.chunks = Rest(n, 0)
    BY <1>0, <1>3, <2>4, <2>6, SaidIs
  <2>8. Append(Rest(n, 0), n + 1) = Rest(n + 1, 0) /\ Rest(n + 1, 0) \in Chunks(MaxDeltas)
    <3>1. 0 \in 0..(n + 1)
      BY <2>5
    <3> QED BY <2>5, <3>1, RestIs
  <2>9. PICK c \in Buffer : c = [b EXCEPT !.chunks = Rest(n + 1, 0)]
    BY <2>8 DEF Buffer
  <2>10. buffer' = [buffer EXCEPT ![t] = c]
    BY <2>3, <2>4, <2>6, <2>7, <2>8, <2>9 DEF ContentDelta, Buffer
  <2>11. c.chunks = Rest(n + 1, 0) /\ c # None
    BY <2>9, NoneAssumption DEF Buffer
  <2> QED BY <1>0, <2>5, <2>10, <2>11
<1>4. Holds(t)'
  BY <1>0, <1>3 DEF Holds, Waiting
<1> QED BY <1>1, <1>2, <1>4 DEF WholeOf

LEMMA CompletedKeepsWhole ==
    ASSUME Base, NEW t \in Attributed, t \in Turns, WholeOf(t),
           NEW state \in {"completed", "failed"}, TurnCompleted(t, state)
    PROVE  WholeOf(t)'
<1> DEFINE h == ThreadOf[t]
           gone == RequesterDeleted(h)
<1>0. /\ UNCHANGED <<failure, sent>> /\ run[t] = "running" /\ Turn(t) /\ run'[t] = state
      /\ buffer \in [Turns -> Buffer \cup {None}] /\ phase \in [Turns -> Phases]
      /\ reply \in [Turns -> Chunks(MaxDeltas)]
  BY DEF TurnCompleted, Streams, Base, MainOK
<1>1. PICK was \in Buffer : was = BufferOf(t)
  BY BufferIs
<1>2. PICK b \in Buffer : b = [was EXCEPT !.completion = state]
  BY DEF Buffer
<1>3. b = [BufferOf(t) EXCEPT !.completion = state] /\ b.chunks = BufferOf(t).chunks /\ b # None
  BY <1>1, <1>2, NoneAssumption DEF Buffer
<1>4. phase[t] \notin {"starting", "replied"}
  BY <1>0 DEF Turn, Ran
<1>5. CASE Waiting(t)
  <2>1. t \notin sealed.keys
    BY <1>5 DEF Base, Apart
  <2>2. Answer(t, b, sealed)
    BY <1>3, <1>5, <2>1 DEF TurnCompleted, ShouldTrack
  <2>3. phase'[t] \in {"replied", "failed"} /\ (phase'[t] = "replied" => reply'[t] = b.chunks)
    BY <1>0, <2>2 DEF Answer, Settle
  <2>4. b.chunks = Rest(sent'[t], 0)
    BY <1>0, <1>3, <1>5, SaidIs
  <2> QED BY <2>3, <2>4 DEF WholeOf, Asks, Holds
<1>6. CASE ~Waiting(t)
  <2>1. phase' = phase
    BY <1>6 DEF TurnCompleted
  <2>2. Asks(t)'
    BY <1>0, <1>4, <2>1 DEF Asks
  <2>3. CASE buffer' = [buffer EXCEPT ![t] = b]
    <3>1. buffer'[t] = b
      BY <1>0, <2>3
    <3>2. phase[t] = "sending" /\ failure[h] = None => b.chunks = Rest(sent[t], 0)
      BY <1>0, <1>3, SaidIs
    <3>3. Holds(t)'
      BY <1>0, <1>3, <1>6, <2>1, <3>1, <3>2 DEF Holds, Waiting
    <3> QED BY <1>4, <2>1, <2>2, <3>3 DEF WholeOf
  <2>4. CASE buffer' = buffer
    <3>1. Holds(t)'
      BY <1>0, <1>6, <2>1, <2>4 DEF WholeOf, Holds, Waiting
    <3> QED BY <1>4, <2>1, <2>2, <3>1 DEF WholeOf
  <2> QED BY <1>3, <1>6, <2>3, <2>4 DEF TurnCompleted
<1> QED BY <1>5, <1>6

LEMMA AbortedKeepsWhole ==
    ASSUME Base, NEW t \in Turns, WholeOf(t), TurnAborted(t)
    PROVE  WholeOf(t)'
<1>1. run[t] = "running" /\ run'[t] = "aborted" /\ Turn(t) /\ phase'[t] \in {phase[t], "aborted"}
  BY DEF TurnAborted, Streams, Settle, Base, MainOK
<1>2. phase'[t] \notin {"starting", "replied"}
  BY <1>1 DEF Turn, Ran
<1> QED BY <1>1, <1>2 DEF WholeOf, Asks, Holds

\* The failure of its thread: its waiter is rejected, and if it has none yet its
\* registration will be.
LEMMA RejectKeepsWhole ==
    ASSUME Base, NEW t \in Turns, WholeOf(t), NEW H \in SUBSET Threads, ThreadOf[t] \in H,
           RejectWaiters(H), sent' = sent,
           phase[t] = "starting" => requester'[ThreadOf[t]] = t /\ ~active'[ThreadOf[t]]
    PROVE  WholeOf(t)'
<1>1. /\ reply' = reply /\ failure'[ThreadOf[t]] = OpenOn(ThreadOf[t])
      /\ IF Waiting(t) THEN phase'[t] = "cut" ELSE phase'[t] = phase[t]
  <2>1. ThreadOf[t] \in Threads /\ (t \in Cut(H) <=> Waiting(t))
    BY DEF Cut
  <2> QED BY <2>1, RejectIs DEF Base
<1>2. OpenOn(ThreadOf[t]) # None
  <2>1. OpenOn(ThreadOf[t]) \in SUBSET Turns
    BY DEF OpenOn
  <2> QED BY <2>1, NoneAssumption
<1>3. Asks(t)'
  BY <1>1, <1>2 DEF Asks
<1>4. Holds(t)'
  BY <1>1, <1>2 DEF Holds, Waiting
<1> QED BY <1>1, <1>3, <1>4 DEF WholeOf

LEMMA RejectElsewhere ==
    ASSUME Base, NEW t \in Turns, WholeOf(t), NEW H \in SUBSET Threads, ThreadOf[t] \notin H,
           RejectWaiters(H), sent' = sent,
           run'[t] = run[t] \/ run'[t] = "lost",
           requester'[ThreadOf[t]] = requester[ThreadOf[t]],
           active'[ThreadOf[t]] = active[ThreadOf[t]] \/ active'[ThreadOf[t]] = FALSE
    PROVE  WholeOf(t)'
<1>1. ThreadOf[t] \in Threads /\ t \notin Cut(H)
  BY ThreadsAssumption DEF Cut
<1>2. /\ phase'[t] = phase[t] /\ reply'[t] = reply[t] /\ buffer'[t] = buffer[t]
      /\ failure'[ThreadOf[t]] = failure[ThreadOf[t]]
  BY <1>1, RejectIs DEF Base
<1> QED BY <1>2, ElsewhereKeeps

\* A call or an event of a turn does not reach another thread.
LEMMA OtherThread ==
    ASSUME Base, NEW t \in Turns, NEW u \in Turns, ThreadOf[u] # ThreadOf[t], Resume(u) \/ Handle(u)
    PROVE  /\ phase'[t] = phase[t] /\ reply'[t] = reply[t] /\ buffer'[t] = buffer[t]
           /\ sent'[t] = sent[t] /\ run'[t] = run[t]
           /\ requester'[ThreadOf[t]] = requester[ThreadOf[t]]
           /\ failure'[ThreadOf[t]] = failure[ThreadOf[t]]
           /\ active'[ThreadOf[t]] = active[ThreadOf[t]]
<1> DEFINE h == ThreadOf[t]
           g == ThreadOf[u]
<1>0. /\ h \in Threads /\ g \in Threads /\ g # h /\ u # t
      /\ phase \in [Turns -> Phases] /\ reply \in [Turns -> Chunks(MaxDeltas)]
      /\ buffer \in [Turns -> Buffer \cup {None}] /\ sent \in [Turns -> 0..MaxDeltas]
      /\ run \in [Turns -> {"none", "running", "completed", "failed", "aborted", "lost"}]
      /\ requester \in [Threads -> Attributed \cup {None}]
      /\ failure \in [Threads -> (SUBSET Turns) \cup {None}]
      /\ active \in [Threads -> BOOLEAN]
  BY ThreadsAssumption DEF Base, MainOK, RestOK
<1>1. CASE Begin(u)
  BY <1>0, <1>1 DEF Begin, FailureCleared
<1>2. CASE Started(u)
  BY <1>0, <1>2 DEF Started, FailureCleared
<1>3. CASE Send(u)
  BY <1>0, <1>3 DEF Send
<1>4. CASE Unsent(u)
  BY <1>0, <1>4 DEF Unsent, RequesterDeleted
<1>5. CASE Register(u)
  <2>1. /\ phase'[t] = phase[t] /\ reply'[t] = reply[t] /\ buffer'[t] = buffer[t]
    BY <1>0, <1>5 DEF Register, Answer, Settle
  <2> QED BY <1>0, <1>5, <2>1 DEF Register, FailureCleared
<1>6. CASE Timeout(u)
  BY <1>0, <1>6 DEF Timeout, Settle, RequesterDeleted
<1>7. CASE ContentDelta(u)
  BY <1>0, <1>7 DEF ContentDelta
<1>8. ASSUME NEW state \in {"completed", "failed"}, TurnCompleted(u, state)
      PROVE  /\ phase'[t] = phase[t] /\ reply'[t] = reply[t] /\ buffer'[t] = buffer[t]
             /\ sent'[t] = sent[t] /\ run'[t] = run[t]
             /\ requester'[h] = requester[h] /\ failure'[h] = failure[h] /\ active'[h] = active[h]
  <2>1. /\ phase'[t] = phase[t] /\ reply'[t] = reply[t] /\ buffer'[t] = buffer[t]
    BY <1>0, <1>8 DEF TurnCompleted, Answer, Settle
  <2> QED BY <1>0, <1>8, <2>1 DEF TurnCompleted, RequesterDeleted
<1>9. CASE TurnAborted(u)
  BY <1>0, <1>9 DEF TurnAborted, Settle, RequesterDeleted
<1> QED BY <1>1, <1>2, <1>3, <1>4, <1>5, <1>6, <1>7, <1>8, <1>9 DEF Resume, Handle

LEMMA WholeStep ==
    ASSUME Base, Whole, [Next]_vars
    PROVE  Whole'
<1> SUFFICES ASSUME NEW t \in Attributed, Unshared(t)' PROVE WholeOf(t)'
  BY DEF Whole, WholeOf
<1>0. /\ t \in Turns /\ ThreadOf[t] \in Threads
      /\ requester \in [Threads -> Attributed \cup {None}] /\ active \in [Threads -> BOOLEAN]
      /\ run \in [Turns -> {"none", "running", "completed", "failed", "aborted", "lost"}]
  BY ThreadsAssumption DEF Base, MainOK, RestOK
<1>1. Unshared(t) /\ WholeOf(t)
  BY <1>0, UnsharedBefore, WholeIs
<1>2. ASSUME NEW u \in Turns, Resume(u) \/ Handle(u) PROVE WholeOf(t)'
  <2>1. CASE u = t
    BY <1>0, <1>1, <1>2, <2>1, ResumeKeepsWhole, DeltaKeepsWhole, CompletedKeepsWhole, AbortedKeepsWhole
       DEF Handle
  <2>2. CASE u # t
    <3>1. ThreadOf[u] # ThreadOf[t]
      <4> SUFFICES ASSUME ThreadOf[u] = ThreadOf[t] PROVE FALSE
        OBVIOUS
      <4>1. phase'[u] = "new" /\ phase[u] = "new"
        BY <1>1, <2>2 DEF Unshared, Alone
      <4>2. run[u] = "none" /\ phase \in [Turns -> Phases]
        BY <4>1 DEF Base, Turn, Ran, MainOK
      <4>3. CASE Begin(u)
        BY <4>1, <4>2, <4>3 DEF Begin
      <4>4. CASE Resume(u) /\ ~Begin(u)
        BY <4>1, <4>4 DEF Resume, Started, Send, Unsent, Register, Timeout, Expires, Waiting
      <4>5. CASE Handle(u)
        BY <4>2, <4>5 DEF Handle, ContentDelta, TurnCompleted, TurnAborted, Streams
      <4> QED BY <1>2, <4>3, <4>4, <4>5
    <3> QED BY <1>0, <1>1, <1>2, <3>1, OtherThread, ElsewhereKeeps
  <2> QED BY <2>1, <2>2
<1>3. CASE Stop
  BY <1>3 DEF Stop, Unshared
<1>4. ASSUME NEW h \in Threads, RuntimeError(h) PROVE WholeOf(t)'
  <2>1. RejectWaiters({h}) /\ {h} \in SUBSET Threads /\ sent' = sent /\ run' = run /\ active' = active /\ active[h]
        /\ \A g \in Threads \ {h} : requester'[g] = requester[g]
    BY <1>0, <1>4 DEF RuntimeError, RequesterDeleted
  <2>2. CASE ThreadOf[t] = h
    <3>1. phase[t] # "starting"
      BY <1>1, <2>1, <2>2 DEF WholeOf, Asks
    <3> QED BY <1>0, <1>1, <2>1, <2>2, <3>1, RejectKeepsWhole
  <2>3. CASE ThreadOf[t] # h
    BY <1>0, <1>1, <2>1, <2>3, RejectElsewhere
  <2> QED BY <2>2, <2>3
<1>5. ASSUME NEW h \in Threads, Archive(h) PROVE WholeOf(t)'
  <2>1. RejectWaiters({h}) /\ {h} \in SUBSET Threads /\ sent' = sent /\ run' = run /\ requester' = requester
        /\ active'[h] = FALSE /\ \A g \in Threads \ {h} : active'[g] = active[g]
    BY <1>0, <1>5 DEF Archive
  <2>2. CASE ThreadOf[t] = h
    <3>1. phase[t] = "starting" => requester'[h] = t
      BY <1>1, <2>1, <2>2 DEF WholeOf, Asks
    <3> QED BY <1>0, <1>1, <2>1, <2>2, <3>1, RejectKeepsWhole
  <2>3. CASE ThreadOf[t] # h
    BY <1>0, <1>1, <2>1, <2>3, RejectElsewhere
  <2> QED BY <2>2, <2>3
<1>6. ASSUME NEW h \in Threads, SessionDies(h) PROVE WholeOf(t)'
  <2>1. UNCHANGED <<phase, reply, buffer, requester, failure, run, sent>>
        /\ \A g \in Threads : active'[g] = active[g] \/ active'[g] = FALSE
    BY <1>0, <1>6 DEF SessionDies
  <2> QED BY <1>0, <1>1, <2>1, ElsewhereKeeps
<1>7. ASSUME NEW h \in Threads, SessionClosed(h) PROVE WholeOf(t)'
  <2>1. sent' = sent /\ active' = active /\ (run'[t] = run[t] \/ run'[t] = "lost")
    BY <1>0, <1>7 DEF SessionClosed
  <2>2. CASE HasOpenTurn(h)
    <3>1. RejectWaiters({h}) /\ {h} \in SUBSET Threads
          /\ \A g \in Threads \ {h} : requester'[g] = requester[g]
      BY <1>0, <1>7, <2>2 DEF SessionClosed, RequesterDeleted
    <3>2. CASE ThreadOf[t] = h
      <4>1. Waiting(t)
        BY <1>1, <2>2, <3>2 DEF HasOpenTurn, Unshared, Alone, Waiting
      <4>2. phase[t] # "starting"
        BY <4>1 DEF Waiting
      <4> QED BY <1>0, <1>1, <2>1, <3>1, <3>2, <4>2, RejectKeepsWhole
    <3>3. CASE ThreadOf[t] # h
      BY <1>0, <1>1, <2>1, <3>1, <3>3, RejectElsewhere
    <3> QED BY <3>2, <3>3
  <2>3. CASE ~HasOpenTurn(h)
    <3>1. UNCHANGED <<phase, reply, buffer, requester, failure>>
      BY <1>7, <2>3 DEF SessionClosed
    <3> QED BY <1>0, <1>1, <2>1, <3>1, ElsewhereKeeps
  <2> QED BY <2>2, <2>3
<1>8. CASE UNCHANGED vars
  BY <1>0, <1>1, <1>8, ElsewhereKeeps DEF vars
<1> QED BY <1>2, <1>3, <1>4, <1>5, <1>6, <1>7, <1>8 DEF Next

-----------------------------------------------------------------------------
(* The theorems. *)

LEMMA Initially ==
    ASSUME Init
    PROVE  IInv
<1>0. MaxSealed \in Nat \ {0} /\ MaxDeltas \in Nat /\ MaxFaults \in Nat
  BY BoundsAssumption
<1>1. <<>> \in Chunks(MaxDeltas)
  BY <1>0, NoneSaid
<1>2. sealed \in Seals /\ sealed.keys = {}
  <2>1. PICK order : order = <<>>
    OBVIOUS
  <2>2. order \in Seq(Turns) /\ Len(order) = 0
    BY <2>1
  <2>3. [keys |-> {}, order |-> order] \in Seals
    <3>1. {} \in SUBSET Turns /\ {} \subseteq ToSet(order) /\ Len(order) <= MaxSealed
      BY <1>0, <2>2
    <3> QED BY <2>2, <3>1, SealsAre
  <2> QED BY <2>1, <2>3 DEF Init
<1>3. MainOK
  BY <1>0, <1>1, <1>2 DEF Init, MainOK, Phases
<1>4. RestOK
  <2>1. faults \in 0..MaxFaults
    BY <1>0 DEF Init
  <2>2. requester \in [Threads -> Attributed \cup {None}] /\ failure \in [Threads -> (SUBSET Turns) \cup {None}]
    BY DEF Init
  <2>3. active \in [Threads -> BOOLEAN] /\ closing \in [Threads -> (SUBSET Turns) \cup {None}] /\ stopping \in BOOLEAN
    BY DEF Init
  <2> QED BY <2>1, <2>2, <2>3 DEF RestOK
<1>5. Apart
  BY <1>2 DEF Apart
<1>6. \A t \in Turns : Turn(t) /\ Fresh(t)
  BY DEF Init, Turn, Fresh, Ran, Kept, Replies, Flushed, Waiting
<1>7. Base
  BY <1>3, <1>4, <1>5, <1>6 DEF Base
<1>8. Whole
  BY ThreadsAssumption DEF Init, Whole, Asks, Holds
<1> QED BY <1>7, <1>8, BaseIs DEF IInv

LEMMA OneStep == IInv /\ [Next]_vars => IInv'
<1> SUFFICES ASSUME IInv, [Next]_vars PROVE IInv'
  OBVIOUS
<1>1. Base /\ Whole
  BY BaseIs DEF IInv
<1>2. Base' /\ Whole'
  BY <1>1, BaseStep, WholeStep
<1>3. TypeOK'
  BY <1>2 DEF Base, TypeOK, MainOK, RestOK, Seals
<1>4. Apart' /\ Runs' /\ NothingToFlush' /\ FreshFailure'
  BY <1>2 DEF Base, Runs, NothingToFlush, FreshFailure, Turn, Fresh, Flushed
<1> QED BY <1>2, <1>3, <1>4 DEF IInv

\* The invariant of the broker, of every step of every schedule.
THEOREM Invariance == Spec => []IInv
<1>1. Init => IInv
  BY Initially
<1> QED BY <1>1, OneStep, PTL DEF Spec

\* Between any two events the broker's maps fit each other, however the calls,
\* the events of their turns and the failures of the threads interleave.
THEOREM BrokerRight == Spec => []BrokerSound
<1>1. IInv => BrokerSound
  <2> SUFFICES ASSUME IInv PROVE BrokerSound
    OBVIOUS
  <2>1. SettledLeavesNothing
    BY DEF IInv, Apart, Runs, Ran, SettledLeavesNothing
  <2> QED BY <2>1 DEF IInv, BrokerSound
<1> QED BY <1>1, Invariance, PTL

\* No reply has a gap, and the reply to a turn alone on its thread is the whole
\* text, even where every chunk came before the call was resumed.
THEOREM WholeReplies == Spec => []WholeReply
<1>1. IInv => WholeReply
  <2> SUFFICES ASSUME IInv PROVE WholeReply
    OBVIOUS
  <2>1. \A n \in 0..MaxDeltas : Rest(n, 0) = [i \in 1..n |-> i]
    BY BoundsAssumption DEF Rest
  <2>2. ASSUME NEW t \in Attributed, phase[t] = "replied", Alone(t), ~stopping
        PROVE  reply[t] = [i \in 1..sent[t] |-> i]
    <3>1. sent[t] \in 0..MaxDeltas
      BY ThreadsAssumption DEF IInv, TypeOK
    <3>2. reply[t] = Rest(sent[t], 0)
      BY <2>2 DEF IInv, Whole, Unshared
    <3> QED BY <2>1, <3>1, <3>2
  <2>3. ReplyIsTail
    BY DEF IInv, Runs, Replies, Rest, ReplyIsTail
  <2> QED BY <2>2, <2>3 DEF WholeReply
<1> QED BY <1>1, Invariance, PTL

LEMMA TimesOut ==
    ASSUME Base, [Next]_vars, NEW t \in Turns, phase[t] # "timedout", phase'[t] = "timedout"
    PROVE  Waiting(t)
<1>0. phase \in [Turns -> Phases] /\ MainOK /\ RestOK
  BY DEF Base, MainOK
<1>1. ASSUME NEW u \in Turns, Resume(u) PROVE Waiting(t)
  BY <1>0, <1>1 DEF Resume, Begin, Started, Send, Unsent, Register, Timeout, Expires, Settle, Answer
<1>2. ASSUME NEW u \in Turns, Handle(u) PROVE Waiting(t)
  BY <1>0, <1>2 DEF Handle, ContentDelta, TurnCompleted, TurnAborted, Settle, Answer
<1>3. ASSUME NEW H \in SUBSET Threads, RejectWaiters(H) PROVE FALSE
  BY <1>0, <1>3, RejectIs
<1>4. CASE Stop
  BY <1>3, <1>4 DEF Stop
<1>5. ASSUME NEW h \in Threads, RuntimeError(h) \/ SessionDies(h) \/ SessionClosed(h) \/ Archive(h) PROVE FALSE
  <2>1. {h} \in SUBSET Threads /\ (phase' = phase \/ RejectWaiters({h}))
    BY <1>5 DEF RuntimeError, SessionDies, SessionClosed, Archive
  <2> QED BY <1>3, <2>1
<1>6. CASE UNCHANGED vars
  BY <1>6 DEF vars
<1> QED BY <1>1, <1>2, <1>4, <1>5, <1>6 DEF Next

\* A turn that has its thread to itself and said something does not time out
\* once it has completed: its completion waits for the call that registers.
THEOREM NoneTimesOutLate == Spec => NoLateTimeout
<1>1. ASSUME IInv, [Next]_vars, NEW t \in Attributed,
             phase[t] # "timedout" /\ phase'[t] = "timedout" /\ Alone(t) /\ ~stopping /\ sent[t] > 0
      PROVE  run[t] \notin {"completed", "failed"}
  <2> SUFFICES ASSUME run[t] \in {"completed", "failed"} PROVE FALSE
    OBVIOUS
  <2>1. t \in Turns /\ sent[t] \in 0..MaxDeltas /\ Base
    BY <1>1, BaseIs, ThreadsAssumption DEF IInv, TypeOK
  <2>2. Waiting(t)
    BY <1>1, <2>1, TimesOut
  <2>3. Holds(t) /\ Kept(t)
    BY <1>1, <2>1 DEF IInv, Whole, Unshared, Runs
  <2>4. sent[t] # 0
    BY <1>1, <2>1
  <2>5. buffer[t] # None
    BY <2>2, <2>3, <2>4 DEF Holds, Waiting
  <2>6. buffer[t].completion = None
    BY <1>1, <2>1, <2>2, <2>5 DEF IInv, NothingToFlush
  <2>7. buffer[t].completion = run[t]
    BY <2>3, <2>5 DEF Kept
  <2> QED BY <2>6, <2>7, NoneAssumption
<1>2. IInv /\ [Next]_vars =>
        [\A t \in Attributed :
           (/\ phase[t] # "timedout" /\ phase'[t] = "timedout"
            /\ Alone(t) /\ ~stopping /\ sent[t] > 0)
             => run[t] \notin {"completed", "failed"}]_vars
  BY <1>1
<1> QED BY <1>2, Invariance, PTL DEF Spec, NoLateTimeout

-----------------------------------------------------------------------------
(* Policy: the rules that decide are those that the profile means. *)

\* A bounded set of numbers has a greatest member.
LEMMA LongestIs ==
  ASSUME NEW S \in SUBSET Int, S # {}, NEW m \in Int, \A x \in S : x <= m
  PROVE  Longest(S) \in S /\ \A x \in S : x <= Longest(S)
<1> DEFINE below == {m - x : x \in S}
<1>1. below \in SUBSET Nat /\ below # {}
  <2>1. \A x \in S : m - x \in Nat
    OBVIOUS
  <2> QED BY <2>1
<1> HIDE DEF below
<1>2. PICK d \in below : \A e \in below : ~(e < d)
  BY <1>1, LeastNumber
<1> USE DEF below
<1>3. PICK x \in S : d = m - x
  BY <1>2
<1>4. \A y \in S : y <= x
  <2> SUFFICES ASSUME NEW y \in S PROVE y <= x
    OBVIOUS
  <2>1. m - y \in below
    OBVIOUS
  <2>2. ~(m - y < m - x)
    BY <1>2, <1>3, <2>1
  <2> QED BY <2>2
<1> HIDE DEF below
<1>5. \E n \in S : \A k \in S : k <= n
  BY <1>3, <1>4
<1> QED BY <1>5 DEF Longest

LEMMA LengthOf ==
  ASSUME NEW rule, RuleOK(rule), NEW target \in Seq(Sessions)
  PROVE  TargetLength(rule, target) \in Int /\ TargetLength(rule, target) <= Len(target)
<1> DEFINE lengths == {-1} \cup {Len(prefix) : prefix \in {p \in rule.targetPrefixes : IsPrefix(p, target)}}
<1>1. \A p \in rule.targetPrefixes : Len(p) \in Nat /\ (IsPrefix(p, target) => Len(p) <= Len(target))
  BY DEF RuleOK, IsPrefix
<1>2. lengths \in SUBSET Int /\ lengths # {} /\ \A x \in lengths : x <= Len(target)
  BY <1>1
<1> HIDE DEF lengths
<1>3. Longest(lengths) \in lengths
  <2>1. Len(target) \in Int
    OBVIOUS
  <2> QED BY <1>2, <2>1, LongestIs
<1>4. TargetLength(rule, target) = IF rule.targetPrefixes = {} THEN 0 ELSE Longest(lengths)
  BY DEF TargetLength, lengths
<1>5. Len(target) \in Nat
  OBVIOUS
<1>6. Longest(lengths) \in Int /\ Longest(lengths) <= Len(target)
  BY <1>2, <1>3
<1>7. CASE rule.targetPrefixes = {}
  BY <1>4, <1>5, <1>7
<1>8. CASE rule.targetPrefixes # {}
  BY <1>4, <1>6, <1>8
<1> QED BY <1>7, <1>8

\* Picking by the longest actor and then the longest target leaves those than
\* which no rule is more exact.
LEMMA ResolvedAreBest ==
  ASSUME NEW rules, \A rule \in rules : RuleOK(rule),
         NEW r, r.actor \in Seq(STRING), r.target \in Seq(Sessions)
  PROVE  Resolved(rules, r) =
           {p \in Applicable(rules, r) : \A q \in Applicable(rules, r) : ~MoreExact(q, p, r)}
<1> DEFINE A == Applicable(rules, r)
           best == {p \in A : \A q \in A : ~MoreExact(q, p, r)}
           actors == {Len(q.actorPrefix) : q \in A}
           first == ActorSpecific(A)
           targets == {TargetLength(q, r.target) : q \in first}
<1>1. \A p \in A : /\ Len(p.actorPrefix) \in Nat /\ Len(p.actorPrefix) <= Len(r.actor)
                    /\ TargetLength(p, r.target) \in Int /\ TargetLength(p, r.target) <= Len(r.target)
  <2> SUFFICES ASSUME NEW p \in A
               PROVE  /\ Len(p.actorPrefix) \in Nat /\ Len(p.actorPrefix) <= Len(r.actor)
                      /\ TargetLength(p, r.target) \in Int /\ TargetLength(p, r.target) <= Len(r.target)
    OBVIOUS
  <2>1. p \in rules /\ RuleOK(p) /\ ActorMatches(r.actor, p.actorPrefix)
    BY DEF Applicable, Matching
  <2>2. Len(p.actorPrefix) \in Nat /\ Len(p.actorPrefix) <= Len(r.actor)
    BY <2>1 DEF RuleOK, ActorMatches, IsPrefix
  <2> QED BY <2>1, <2>2, LengthOf
<1>2. CASE A = {}
  BY <1>2 DEF Resolved
<1>3. CASE A # {}
  <2> HIDE DEF A
  <2>1. actors \in SUBSET Int /\ actors # {} /\ \A x \in actors : x <= Len(r.actor)
    <3>1. \A p \in A : Len(p.actorPrefix) \in Int /\ Len(p.actorPrefix) <= Len(r.actor)
      BY <1>1
    <3> QED BY <1>3, <3>1
  <2>2. Len(r.actor) \in Int /\ Len(r.target) \in Int
    OBVIOUS
  <2>3. PICK n \in actors : n = Longest(actors) /\ \A x \in actors : x <= n
    <3> HIDE DEF actors
    <3> QED BY <2>1, <2>2, LongestIs
  <2>4. first = {p \in A : Len(p.actorPrefix) = n}
    BY <2>3 DEF ActorSpecific
  <2>5. first # {} /\ first \subseteq A
    BY <2>3, <2>4
  <2> HIDE DEF first
  <2>6. targets \in SUBSET Int /\ targets # {} /\ \A x \in targets : x <= Len(r.target)
    BY <1>1, <2>5
  <2>7. PICK m \in targets : m = Longest(targets) /\ \A x \in targets : x <= m
    <3> HIDE DEF targets
    <3> QED BY <2>2, <2>6, LongestIs
  <2>8. TargetSpecific(first, r) = {p \in first : TargetLength(p, r.target) = m}
    BY <2>7 DEF TargetSpecific
  <2>9. ASSUME NEW p \in first, TargetLength(p, r.target) = m
        PROVE  p \in best
    <3> SUFFICES ASSUME NEW q \in A PROVE ~MoreExact(q, p, r)
      BY <2>5
    <3>1. Len(q.actorPrefix) <= n /\ Len(p.actorPrefix) = n /\ n \in Int
      BY <2>1, <2>3, <2>4, <2>9
    <3>2. Len(q.actorPrefix) = n => TargetLength(q, r.target) <= m
      BY <2>4, <2>7
    <3>3. m \in Int /\ TargetLength(q, r.target) \in Int /\ Len(q.actorPrefix) \in Int
      BY <1>1, <2>6
    <3> QED BY <2>9, <3>1, <3>2, <3>3 DEF MoreExact
  <2>10. ASSUME NEW p \in best
         PROVE  p \in first /\ TargetLength(p, r.target) = m
    <3>0. p \in A /\ \A q \in A : ~MoreExact(q, p, r)
      BY <2>10
    <3>1. PICK q \in A : Len(q.actorPrefix) = n
      BY <2>3
    <3>2. PICK g \in first : TargetLength(g, r.target) = m
      BY <2>7
    <3>3. Len(p.actorPrefix) = n
      <4>1. Len(p.actorPrefix) \in actors /\ Len(p.actorPrefix) <= n
        BY <2>3, <3>0
      <4>2. ~(n > Len(p.actorPrefix))
        BY <3>0, <3>1 DEF MoreExact
      <4> QED BY <1>1, <2>1, <3>0, <4>1, <4>2
    <3>4. p \in first
      BY <2>4, <3>0, <3>3
    <3>5. TargetLength(p, r.target) <= m
      BY <2>7, <3>4
    <3>6. g \in A /\ Len(g.actorPrefix) = n /\ ~(m > TargetLength(p, r.target))
      BY <2>4, <3>0, <3>2, <3>3 DEF MoreExact
    <3>7. TargetLength(p, r.target) \in Int /\ m \in Int
      BY <1>1, <2>6, <3>0
    <3> QED BY <3>4, <3>5, <3>6, <3>7
  <2>11. Resolved(rules, r) = TargetSpecific(first, r)
    BY <1>3 DEF Resolved, A, first
  <2>12. best = {p \in first : TargetLength(p, r.target) = m}
    <3>1. best \subseteq A
      OBVIOUS
    <3> HIDE DEF best
    <3> QED BY <2>9, <2>10
  <2> QED BY <2>8, <2>11, <2>12 DEF A, best
<1> QED BY <1>2, <1>3

\* The guard decides as the profile means, whatever its rules.
THEOREM DecidedAsMeant ==
  ASSUME NEW profil, \A rule \in profil.rules : RuleOK(rule),
         NEW r, r.actor \in Seq(STRING), r.target \in Seq(Sessions)
  PROVE  Evaluate(profil, r) <=> Meant(profil, r)
<1> DEFINE best == {p \in Applicable(profil.rules, r) :
                      \A q \in Applicable(profil.rules, r) : ~MoreExact(q, p, r)}
           named == \E rule \in profil.rules : IsPrefix(rule.actorPrefix, r.actor)
           byRules == /\ \E p \in best : p.allow = {} \/ r.action \in p.allow
                      /\ ~\E p \in best : r.action \in p.deny
           otherwise == \/ IsRuntime(r.actor) /\ r.action \notin Sensitive
                        \/ ~IsPlugin(r.actor) /\ ~IsRuntime(r.actor)
<1>1. Resolved(profil.rules, r) = best
  BY ResolvedAreBest
<1>2. named <=> Matching(profil.rules, r) # {}
  BY DEF Matching, ActorMatches
<1> HIDE DEF named
<1>3. byRules <=> /\ \A rule \in best : r.action \notin rule.deny
                  /\ \E rule \in best : Permits(rule, r.action)
  BY DEF Permits
<1> HIDE DEF best
<1>4. IsPlugin(r.actor) => ~IsRuntime(r.actor)
  BY DEF IsPlugin, IsRuntime
<1>5. otherwise <=> UnmatchedAllowed(r)
  BY <1>4 DEF UnmatchedAllowed
<1>6. ActorAllows(profil.rules, r) <=> IF named THEN byRules ELSE otherwise
  <2> HIDE DEF byRules, otherwise
  <2>1. CASE named
    BY <1>1, <1>2, <1>3, <2>1 DEF ActorAllows
  <2>2. CASE ~named
    BY <1>2, <1>5, <2>2 DEF ActorAllows
  <2> QED BY <2>1, <2>2
<1>7. r.action \in LocalCapabilities =>
        (IsPlugin(r.actor) /\ Tail(r.actor) = OwnerOf[r.action] <=> r.actor = <<"plugin">> \o OwnerOf[r.action])
  <2> SUFFICES ASSUME r.action \in LocalCapabilities
               PROVE  IsPlugin(r.actor) /\ Tail(r.actor) = OwnerOf[r.action]
                        <=> r.actor = <<"plugin">> \o OwnerOf[r.action]
    OBVIOUS
  <2>1. PICK owner \in Seq(STRING) : owner = OwnerOf[r.action]
    BY SessionsAssumption
  <2>2. IsPlugin(r.actor) /\ Tail(r.actor) = owner => r.actor = <<"plugin">> \o owner
    <3> SUFFICES ASSUME IsPlugin(r.actor), Tail(r.actor) = owner
                 PROVE  r.actor = <<"plugin">> \o owner
      OBVIOUS
    <3>1. r.actor # <<>> /\ r.actor[1] = "plugin"
      BY DEF IsPlugin
    <3>2. Len(owner) = Len(r.actor) - 1 /\ \A i \in 1..Len(owner) : owner[i] = r.actor[i + 1]
      BY <3>1
    <3> DEFINE whole == <<"plugin">> \o owner
    <3>3. whole \in Seq(STRING) /\ Len(whole) = Len(r.actor)
      BY <3>1, <3>2
    <3>4. \A i \in 1..Len(r.actor) : whole[i] = r.actor[i]
      BY <3>1, <3>2
    <3> HIDE DEF whole
    <3>5. whole = r.actor
      BY <3>3, <3>4
    <3> QED BY <3>5 DEF whole
  <2>3. r.actor = <<"plugin">> \o owner => r.actor # <<>> /\ r.actor[1] = "plugin" /\ Tail(r.actor) = owner
    BY <2>1
  <2> QED BY <2>1, <2>2, <2>3 DEF IsPlugin
<1>8. Meant(profil, r) <=>
        /\ r.action \in profil.granted
        /\ r.action \in LocalCapabilities => r.actor = <<"plugin">> \o OwnerOf[r.action]
        /\ profil.denyUnknown => r.action \in Capabilities
        /\ r.action = "net.connect" => profil.network.mode = "allowlist" /\ r.target \in profil.network.allowlist
        /\ IF named THEN byRules ELSE otherwise
  BY DEF Meant, best, named
<1> HIDE DEF byRules, otherwise
<1> QED BY <1>6, <1>7, <1>8 DEF Evaluate, OwnsCapability, NetworkAllows

-----------------------------------------------------------------------------
(* SessionWork: the calls about sessions, what they hold and what is decided. *)

\* The awaits of a call.
AwaitsOf(op) ==
    CASE op = "none" -> {"none"}
      [] op = "create" -> {"creating", "made", "notice"}
      [] op = "bind" -> {"made"}
      [] op \in {"direct", "kick"} -> {"guard", "starting", "turn"}
      [] op = "message" -> {"hook", "agent", "starting", "turn"}
      [] op = "resume" -> {"guard"}
      [] op = "sweep" -> {"next"}
      [] op = "start" -> {"next", "starting"}
      [] OTHER -> {"guard", "cleanup"}

\* What a call holds: one entry or, of a sweep or a start, one for each session;
\* of sessions that have a row, but for those to be made; a turn's is not
\* archived.
Fit(k) ==
    /\ k.step \in AwaitsOf(k.op)
    /\ k.held = {} <=> k.step \in {"none", "creating", "hook"}
    /\ \A e, f \in k.held : e.s = f.s \/ k.op \notin {"sweep", "start"} => e = f
    /\ k.op \notin {"create", "bind"} => \A e \in k.held : e.row # Absent
    /\ k.op \in {"direct", "kick", "message"} => \A e \in k.held : e.row.life # "archived"

Fits == \A c \in Slots : Fit(calls[c])

\* DecisionsHold and SessionsWhole of one session.
Decided(s) ==
    /\ Known(s) <=> said[s] \in {"active", "archived"}
    /\ Known(s) =>
         /\ rows[s].life = "archived" <=> said[s] = "archived"
         /\ rows[s].auto = asked[s]
         /\ s \in dirs
         /\ rows[s].life # "archived" => s \in resources
    /\ s \in quiet => s \notin live

Decisions == \A s \in Sessions \ crossed : Decided(s)

\* A copy that no decision has outdated says of the row what matters.
CopyRight(e) ==
    ~e.old /\ e.s \notin crossed /\ e.row # Absent =>
        /\ Known(e.s)
        /\ e.row.auto = rows[e.s].auto
        /\ e.row.life = "archived" <=> rows[e.s].life = "archived"

Copies == \A c \in Slots : \A e \in calls[c].held : CopyRight(e)

\* A session that may be started and whose provider session was ended is one
\* that a call is about to archive or delete.
Quieted == \A s \in quiet \ crossed : s \in Active /\ rows[s].auto => Ending(s)

\* Whoever has the provider start a session that was ended does so while that
\* call is under way: their calls cross.
StartsLate(c) ==
    LET e == Mine(c)
    IN calls[c].step = "starting" /\ ~e.old /\ e.s \in quiet \ crossed =>
           calls[c].op # "start" /\ Ending(e.s)
Starters == \A c \in Slots : StartsLate(c)

\* The sessions that the limit is for; since its check nobody has joined them.
Counted == Active \ (extra \cup crossed)
Limited ==
    /\ Cardinality(Counted) <= Limit
    /\ \A c \in Slots : calls[c].fresh => Cardinality(Counted) < Limit

Guarded == GuardDecides /\ \A rule \in profile.rules : RuleOK(rule)

SessionInv ==
    /\ SessionsOK /\ Fits
    /\ Decisions /\ Copies
    /\ Quieted /\ Starters
    /\ Limited /\ Guarded

-----------------------------------------------------------------------------
(* What calls hold. *)

LEMMA SlotsAre ==
  ASSUME NEW s \in Sessions
  PROVE  /\ s \in Slots /\ Adrift(s) \in Slots /\ s \notin Calls
         /\ Adrift(s) \notin Sessions /\ Adrift(s) \notin Calls /\ Adrift(s) # s
<1>1. s \in Nat \ {0} /\ Sessions \subseteq Nat \ {0} /\ s \notin Calls /\ -s \notin Calls
  BY SessionsAssumption
<1>2. -s \notin Nat
  BY <1>1
<1> QED BY <1>1, <1>2 DEF Slots, Adrift

LEMMA FirstIs ==
  ASSUME NEW held \in SUBSET EntryType, held # {}
  PROVE  First(held) \in held /\ \A f \in held : First(held).s <= f.s
<1> DEFINE numbers == {e.s : e \in held}
<1>1. numbers \in SUBSET Nat /\ numbers # {}
  <2>1. \A e \in held : e.s \in Nat
    BY SessionsAssumption DEF EntryType
  <2> QED BY <2>1
<1> HIDE DEF numbers
<1>2. PICK n \in numbers : \A m \in numbers : ~(m < n)
  BY <1>1, LeastNumber
<1>3. \A m \in numbers : n <= m
  BY <1>1, <1>2
<1>4. \E e \in held : \A f \in held : e.s <= f.s
  BY <1>3 DEF numbers
<1> QED BY <1>4 DEF First

\* It is the only one, if the entries are of different sessions.
LEMMA FirstAlone ==
  ASSUME NEW held \in SUBSET EntryType, \A e, f \in held : e.s = f.s => e = f,
         NEW a \in held, \A f \in held : a.s <= f.s
  PROVE  First(held) = a
<1>1. First(held) \in held /\ First(held).s <= a.s
  BY FirstIs
<1>2. a.s <= First(held).s
  BY <1>1
<1>3. \A e \in held : e.s \in Nat
  BY SessionsAssumption DEF EntryType
<1>4. First(held).s = a.s
  BY <1>1, <1>2, <1>3
<1> QED BY <1>1, <1>4

LEMMA MineIs ==
  ASSUME SessionsOK, NEW c \in Slots, calls[c].held # {}
  PROVE  Mine(c) \in calls[c].held /\ Mine(c) \in EntryType /\ calls[c].held \subseteq EntryType
<1>1. calls[c] \in CallType
  BY DEF SessionsOK
<1>2. calls[c].held \in SUBSET EntryType
  BY <1>1 DEF CallType
<1> QED BY <1>2, FirstIs DEF Mine

\* A call of which a decision has outdated entries.
Aged(k, decided) == [k EXCEPT !.held = {[e EXCEPT !.old = @ \/ e.s \in decided] : e \in @}]

\* k2 goes on where k was, with its entries outdated if their sessions are among
\* those decided.
Ages(k2, k, decided) ==
    /\ k2 \in CallType /\ Fit(k2)
    /\ k2.op = k.op /\ k2.step = k.step
    /\ k2.fresh => k.fresh
    /\ k2.held = {} <=> k.held = {}
    /\ \A e \in k2.held : \E f \in k.held :
         e.s = f.s /\ e.row = f.row /\ (f.old => e.old) /\ (e.s \in decided => e.old)
    /\ k.held # {} =>
         /\ First(k2.held).s = First(k.held).s
         /\ First(k.held).old \/ First(k.held).s \in decided => First(k2.held).old

LEMMA AgesSelf ==
  ASSUME NEW k \in CallType, Fit(k)
  PROVE  Ages(k, k, {})
BY DEF Ages

LEMMA EntryAged ==
  ASSUME NEW e \in EntryType, NEW decided
  PROVE  LET f == [e EXCEPT !.old = @ \/ e.s \in decided]
         IN f \in EntryType /\ f.s = e.s /\ f.row = e.row /\ (f.old <=> e.old \/ e.s \in decided)
<1> DEFINE old == e.old \/ e.s \in decided
<1>1. old \in BOOLEAN /\ (old <=> e.old \/ e.s \in decided)
  OBVIOUS
<1>2. [e EXCEPT !.old = @ \/ e.s \in decided] = [e EXCEPT !.old = old]
  OBVIOUS
<1> HIDE DEF old
<1>3. /\ [e EXCEPT !.old = old] \in EntryType
      /\ [e EXCEPT !.old = old].s = e.s /\ [e EXCEPT !.old = old].row = e.row
  BY <1>1 DEF EntryType
<1>4. [e EXCEPT !.old = old].old = old
  BY DEF EntryType
<1> QED BY <1>1, <1>2, <1>3, <1>4

LEMMA AgesAged ==
  ASSUME NEW k \in CallType, Fit(k), NEW decided
  PROVE  /\ Aged(k, decided) \in CallType /\ Ages(Aged(k, decided), k, decided)
         /\ Aged(k, decided).held = {[e EXCEPT !.old = @ \/ e.s \in decided] : e \in k.held}
<1> DEFINE Image(e) == [e EXCEPT !.old = @ \/ e.s \in decided]
           held == {Image(e) : e \in k.held}
<1>1. k.held \subseteq EntryType
  BY DEF CallType
<1>2. \A e \in k.held : /\ Image(e) \in EntryType /\ Image(e).s = e.s /\ Image(e).row = e.row
                        /\ Image(e).old <=> e.old \/ e.s \in decided
  BY <1>1, EntryAged
<1>3. Aged(k, decided) = [k EXCEPT !.held = held]
  BY DEF Aged
<1> HIDE DEF Image
<1>4. held \in SUBSET EntryType /\ (held = {} <=> k.held = {})
  BY <1>2
<1>5. \A e \in held : \E f \in k.held : e = Image(f)
  OBVIOUS
<1>6. \A e \in held : \E f \in k.held :
        e.s = f.s /\ e.row = f.row /\ (f.old => e.old) /\ (e.s \in decided => e.old)
  BY <1>2, <1>5
<1>7. k.held # {} =>
         /\ First(held).s = First(k.held).s
         /\ First(k.held).old \/ First(k.held).s \in decided => First(held).old
  <2> SUFFICES ASSUME k.held # {}
               PROVE  /\ First(held).s = First(k.held).s
                      /\ First(k.held).old \/ First(k.held).s \in decided => First(held).old
    OBVIOUS
  <2>1. First(k.held) \in k.held /\ \A f \in k.held : First(k.held).s <= f.s
    BY <1>1, FirstIs
  <2> DEFINE a == Image(First(k.held))
  <2>2. a \in held /\ \A f \in held : a.s <= f.s
    BY <1>2, <1>5, <2>1
  <2>3. \A e, f \in held : e.s = f.s => e = f
    BY <1>2, <1>5 DEF Fit
  <2>4. First(held) = a
    <3> HIDE DEF a, held
    <3> QED BY <1>4, <2>2, <2>3, FirstAlone
  <2> QED BY <1>2, <2>1, <2>4
<1>8. \A e, f \in held : e.s = f.s \/ k.op \notin {"sweep", "start"} => e = f
  BY <1>2, <1>5 DEF Fit
<1>9. /\ k.op \notin {"create", "bind"} => \A e \in held : e.row # Absent
      /\ k.op \in {"direct", "kick", "message"} => \A e \in held : e.row.life # "archived"
  BY <1>2, <1>5 DEF Fit
<1> HIDE DEF held
<1> DEFINE k2 == [k EXCEPT !.held = held]
<1>10. /\ k2 \in CallType /\ k2.op = k.op /\ k2.step = k.step /\ k2.fresh = k.fresh
       /\ k2.held = held
  BY <1>4 DEF CallType
<1>11. Fit(k2)
  <2> HIDE DEF k2
  <2> QED BY <1>4, <1>8, <1>9, <1>10 DEF Fit
<1>12. Ages(k2, k, decided)
  <2> HIDE DEF k2
  <2> QED BY <1>4, <1>6, <1>7, <1>10, <1>11 DEF Ages
<1> QED BY <1>3, <1>10, <1>12 DEF held, Image

\* Nor is what it has checked of any use when another session has become active.
LEMMA AgesStale ==
  ASSUME NEW k \in CallType, NEW k2 \in CallType, NEW decided, Ages(k2, k, decided)
  PROVE  /\ Ages([k2 EXCEPT !.fresh = FALSE], k, decided)
         /\ [k2 EXCEPT !.fresh = FALSE].held = k2.held /\ ~[k2 EXCEPT !.fresh = FALSE].fresh
<1> DEFINE k3 == [k2 EXCEPT !.fresh = FALSE]
<1>1. /\ k3 \in CallType /\ k3.op = k2.op /\ k3.step = k2.step /\ k3.held = k2.held
      /\ ~k3.fresh
  BY DEF CallType
<1> HIDE DEF k3
<1>2. Fit(k3)
  BY <1>1 DEF Ages, Fit
<1>3. Ages(k3, k, decided)
  BY <1>1, <1>2 DEF Ages
<1> QED BY <1>1, <1>3 DEF k3

LEMMA OutdateIs ==
  ASSUME NEW cs \in [Slots -> CallType], NEW decided, NEW c \in Slots
  PROVE  /\ Outdate(cs, decided)[c] = Aged(cs[c], decided)
         /\ Rejoin(Outdate(cs, decided))[c] = [Aged(cs[c], decided) EXCEPT !.fresh = FALSE]
BY DEF Outdate, Aged, Rejoin

-----------------------------------------------------------------------------
(* What a step does. *)

\* The row keeps what a decision is about.
SameRow(s) ==
    /\ rows'[s] = Absent <=> rows[s] = Absent
    /\ rows[s] # Absent =>
         /\ rows'[s].auto = rows[s].auto
         /\ rows'[s].life = "archived" <=> rows[s].life = "archived"

\* Nothing is decided about s.
Steady(s) ==
    /\ SameRow(s)
    /\ said'[s] = said[s] /\ asked'[s] = asked[s]
    /\ s \in quiet' => s \in quiet
    /\ s \in live' => s \in live
    /\ s \in dirs => s \in dirs'
    /\ s \in resources => s \in resources'

Ended(s) == s \in quiet /\ s \in Active /\ rows[s].auto => Ending(s)
Settling(s) == Decided(s)' /\ Ended(s)'

StoreOK ==
    /\ now \in 0..MaxTime /\ autoDefault \in BOOLEAN
    /\ rows \in [Sessions -> SessionRow \cup {Absent}]
    /\ dirs \subseteq Sessions /\ resources \subseteq Sessions /\ live \subseteq Sessions
    /\ kicks \in [Sessions -> {"none", "queued", "running", "told", "failed", "lost"}]
    /\ said \in [Sessions -> {"none", "active", "archived", "deleted"}]
    /\ asked \in [Sessions -> BOOLEAN]
    /\ quiet \subseteq Sessions /\ crossed \subseteq Sessions /\ extra \subseteq Sessions

\* A step that decides about no sessions but those of decided.
Moves(decided) ==
    /\ StoreOK'
    /\ UNCHANGED <<profile, audit>>
    /\ crossed \subseteq crossed'
    /\ \A s \in Sessions \ (decided \cup crossed') : Steady(s)
    /\ \A s \in decided \ crossed' : Settling(s)

\* What a call that the step is about is then, and what becomes of its cleanup.
OwnRight(c) ==
    /\ calls'[c] \in CallType /\ Fit(calls'[c])
    /\ c \in Sessions => calls'[c].op \in {"none", "message", "kick"}
    /\ \A e \in calls'[c].held : CopyRight(e)'
    /\ StartsLate(c)'

StillEnds(c, outdated) ==
    calls[c].step = "cleanup" =>
        \A s \in Sessions : Mine(c).s = s =>
            s \in outdated \cup crossed' \/ ~Known(s) \/ Ending(s)'

\* The step is about the calls of own; all others go on, with their entries
\* about the sessions of outdated outdated.
CallsMove(own, outdated) ==
    /\ calls' \in [Slots -> CallType]
    /\ \A c \in Slots \ own : Ages(calls'[c], calls[c], outdated)
    /\ \A c \in own : OwnRight(c) /\ StillEnds(c, outdated)

\* What has not been outdated is as it was.
Agree(outdated) ==
    \A s \in Sessions \ (outdated \cup crossed') :
        /\ SameRow(s)
        /\ s \in quiet' /\ s \notin quiet => ~Starting(s)

Joins(own) ==
    \/ Counted' \subseteq Counted /\ \A c \in own : calls'[c].fresh => Cardinality(Counted) < Limit
    \/ Cardinality(Counted') <= Limit /\ \A c \in Slots : ~calls'[c].fresh

LEMMA StillEnding ==
  ASSUME SessionInv, NEW own \in SUBSET Slots, NEW outdated \in SUBSET Sessions,
         \A c \in Slots \ own : Ages(calls'[c], calls[c], outdated),
         \A c \in own : StillEnds(c, outdated),
         NEW s \in Sessions \ (outdated \cup crossed'), Ending(s), Known(s)
  PROVE  Ending(s)'
<1>1. PICK d \in Slots : calls[d].step = "cleanup" /\ Mine(d).s = s
  BY DEF Ending
<1>2. CASE d \in own
  BY <1>1, <1>2 DEF StillEnds
<1>3. CASE d \notin own
  <2>1. Ages(calls'[d], calls[d], outdated)
    BY <1>3
  <2>2. calls[d].held # {}
    BY <1>1 DEF SessionInv, Fits, Fit
  <2>3. calls'[d].step = "cleanup" /\ First(calls'[d].held).s = s
    BY <1>1, <2>1, <2>2 DEF Ages, Mine
  <2> QED BY <2>3 DEF Ending, Mine
<1> QED BY <1>2, <1>3

LEMMA CopyKept ==
  ASSUME NEW e, NEW f, e.s = f.s, e.row = f.row, f.old => e.old, CopyRight(f),
         crossed \subseteq crossed', SameRow(e.s) \/ e.old \/ e.s \in crossed'
  PROVE  CopyRight(e)'
BY DEF CopyRight, SameRow, Known

LEMMA CopiesMove ==
  ASSUME SessionInv, NEW own \in SUBSET Slots, NEW decided \in SUBSET Sessions,
         NEW outdated \in SUBSET decided, Moves(decided), CallsMove(own, outdated), Agree(outdated)
  PROVE  Copies'
<1> SUFFICES ASSUME NEW c \in Slots, NEW e \in calls'[c].held PROVE CopyRight(e)'
  BY DEF Copies
<1>1. CASE c \in own
  BY <1>1 DEF CallsMove, OwnRight
<1>2. CASE c \notin own
  <2>1. Ages(calls'[c], calls[c], outdated)
    BY <1>2 DEF CallsMove
  <2>2. PICK f \in calls[c].held :
          e.s = f.s /\ e.row = f.row /\ (f.old => e.old) /\ (e.s \in outdated => e.old)
    BY <2>1 DEF Ages
  <2>3. CopyRight(f) /\ calls[c] \in CallType
    BY DEF SessionInv, Copies, SessionsOK
  <2>4. e.s \in Sessions
    BY <2>2, <2>3 DEF CallType, EntryType
  <2>5. SameRow(e.s) \/ e.old \/ e.s \in crossed'
    BY <2>2, <2>4 DEF Agree
  <2>6. crossed \subseteq crossed'
    BY DEF Moves
  <2> QED BY <2>2, <2>3, <2>5, <2>6, CopyKept
<1> QED BY <1>1, <1>2

LEMMA StartersMove ==
  ASSUME SessionInv, NEW own \in SUBSET Slots, NEW decided \in SUBSET Sessions,
         NEW outdated \in SUBSET decided, Moves(decided), CallsMove(own, outdated), Agree(outdated)
  PROVE  Starters'
<1> SUFFICES ASSUME NEW c \in Slots PROVE StartsLate(c)'
  BY DEF Starters
<1>1. CASE c \in own
  BY <1>1 DEF CallsMove, OwnRight
<1>2. CASE c \notin own
  <2> DEFINE f == First(calls[c].held)
  <2>0. PICK e : e = First(calls'[c].held)
    OBVIOUS
  <2> SUFFICES ASSUME calls'[c].step = "starting", ~e.old, e.s \in quiet' \ crossed'
               PROVE  calls'[c].op # "start" /\ Ending(e.s)'
    BY <2>0 DEF StartsLate, Mine
  <2>1. Ages(calls'[c], calls[c], outdated)
    BY <1>2 DEF CallsMove
  <2>2. calls[c].step = "starting" /\ calls[c].op = calls'[c].op /\ calls[c].held # {}
    BY <2>1 DEF Ages, SessionInv, Fits, Fit
  <2>3. e.s = f.s /\ ~f.old /\ e.s \notin outdated
    BY <2>0, <2>1, <2>2 DEF Ages
  <2>4. f \in calls[c].held /\ f \in EntryType
    BY <2>2, MineIs DEF Mine, SessionInv
  <2>5. f.row # Absent
    BY <2>2, <2>4 DEF SessionInv, Fits, Fit, AwaitsOf
  <2>6. e.s \in Sessions \ (outdated \cup crossed') /\ crossed \subseteq crossed'
    BY <2>3, <2>4 DEF EntryType, Moves
  <2>7. Known(e.s)
    <3>1. CopyRight(f)
      BY <2>4 DEF SessionInv, Copies
    <3> QED BY <2>3, <2>5, <2>6, <3>1 DEF CopyRight
  <2>8. Starting(e.s)
    BY <2>2, <2>3 DEF Starting, Mine
  <2>9. e.s \in quiet
    BY <2>6, <2>8 DEF Agree
  <2>10. StartsLate(c)
    BY DEF SessionInv, Starters
  <2>11. calls[c].op # "start" /\ Ending(e.s)
    <3>1. Mine(c) = f
      BY DEF Mine
    <3> QED BY <2>2, <2>3, <2>6, <2>9, <2>10, <3>1 DEF StartsLate
  <2> QED BY <2>2, <2>6, <2>7, <2>11, StillEnding DEF CallsMove
<1> QED BY <1>1, <1>2

LEMMA RowsMove ==
  ASSUME SessionInv, NEW own \in SUBSET Slots, NEW decided \in SUBSET Sessions,
         NEW outdated \in SUBSET decided, Moves(decided), CallsMove(own, outdated)
  PROVE  Decisions' /\ Quieted' /\ Guarded'
<1>1. \A s \in Sessions \ (decided \cup crossed') : Steady(s) /\ Decided(s) /\ Ended(s)
  BY DEF Moves, SessionInv, Decisions, Quieted, Ended
<1>2. Decisions'
  <2> SUFFICES ASSUME NEW s \in Sessions \ crossed' PROVE Decided(s)'
    BY DEF Decisions
  <2>1. CASE s \in decided
    BY <2>1 DEF Moves, Settling
  <2>2. CASE s \notin decided
    BY <1>1, <2>2 DEF Decided, Steady, SameRow, Known
  <2> QED BY <2>1, <2>2
<1>3. Quieted'
  <2> SUFFICES ASSUME NEW s \in Sessions \ crossed' PROVE Ended(s)'
    BY DEF Quieted, Ended, Moves, StoreOK
  <2>1. CASE s \in decided
    BY <2>1 DEF Moves, Settling
  <2>2. CASE s \notin decided
    <3> SUFFICES ASSUME (s \in quiet /\ s \in Active /\ rows[s].auto)' PROVE Ending(s)'
      BY DEF Ended
    <3>1. s \in quiet /\ Known(s) /\ s \in Active /\ rows[s].auto
      BY <1>1, <2>2 DEF Steady, SameRow, Active, Known
    <3>2. Ending(s)
      BY <1>1, <2>2, <3>1 DEF Ended
    <3> QED BY <2>2, <3>1, <3>2, StillEnding DEF CallsMove
  <2> QED BY <2>1, <2>2
<1>4. Guarded'
  BY DEF Moves, SessionInv, Guarded, GuardDecides
<1> QED BY <1>2, <1>3, <1>4

LEMMA CountedFinite ==
  /\ IsFiniteSet(Counted) /\ Cardinality(Counted) \in Nat
  /\ IsFiniteSet(Counted') /\ Cardinality(Counted') \in Nat
<1>1. Counted \subseteq Sessions /\ Counted' \subseteq Sessions /\ IsFiniteSet(Sessions)
  BY SessionsAssumption DEF Counted, Active
<1> QED BY <1>1, FS_Subset, FS_CardinalityType

LEMMA LimitMoves ==
  ASSUME SessionInv, NEW own \in SUBSET Slots, NEW outdated, CallsMove(own, outdated), Joins(own)
  PROVE  Limited'
<1>1. CASE Counted' \subseteq Counted /\ \A c \in own : calls'[c].fresh => Cardinality(Counted) < Limit
  <2>1. Cardinality(Counted') <= Cardinality(Counted)
    BY <1>1, CountedFinite, FS_Subset
  <2>2. Cardinality(Counted) <= Limit /\ \A c \in Slots : calls[c].fresh => Cardinality(Counted) < Limit
    BY DEF SessionInv, Limited
  <2>3. \A c \in Slots : calls'[c].fresh => Cardinality(Counted) < Limit
    BY <1>1, <2>2 DEF CallsMove, Ages
  <2>4. Limit \in Nat
    BY SessionsAssumption
  <2>5. Cardinality(Counted') <= Limit
    BY <2>1, <2>2, <2>4, CountedFinite
  <2>6. ASSUME NEW c \in Slots, calls'[c].fresh
        PROVE  Cardinality(Counted') < Limit
    BY <2>1, <2>3, <2>4, <2>6, CountedFinite
  <2> QED BY <2>5, <2>6 DEF Limited
<1>2. CASE Cardinality(Counted') <= Limit /\ \A c \in Slots : ~calls'[c].fresh
  BY <1>2 DEF Limited
<1> QED BY <1>1, <1>2 DEF Joins

LEMMA StepRight ==
  ASSUME SessionInv, NEW own \in SUBSET Slots, NEW decided \in SUBSET Sessions,
         NEW outdated \in SUBSET decided,
         Moves(decided), CallsMove(own, outdated), Agree(outdated), Joins(own)
  PROVE  SessionInv'
<1>1. Copies' /\ Starters' /\ Decisions' /\ Quieted' /\ Guarded' /\ Limited'
  BY CopiesMove, StartersMove, RowsMove, LimitMoves
<1>2. Fits'
  BY DEF Fits, CallsMove, Ages, OwnRight
<1>3. SessionsOK'
  <2>1. \A s \in Sessions : calls'[s].op \in {"none", "message", "kick"}
    <3> SUFFICES ASSUME NEW s \in Sessions PROVE calls'[s].op \in {"none", "message", "kick"}
      OBVIOUS
    <3>1. s \in Slots /\ calls[s].op \in {"none", "message", "kick"}
      BY SlotsAre DEF SessionInv, SessionsOK
    <3> QED BY <3>1 DEF CallsMove, Ages, OwnRight
  <2>2. calls' \in [Slots -> CallType] /\ StoreOK'
    BY DEF CallsMove, Moves
  <2> QED BY <2>1, <2>2 DEF SessionsOK, StoreOK
<1> QED BY <1>1, <1>2, <1>3 DEF SessionInv

-----------------------------------------------------------------------------
(* Steps that decide nothing. *)

LEMMA CallIs ==
  ASSUME NEW op \in {"create", "bind", "direct", "kick", "message", "archive", "delete", "drop",
                     "forget", "resume", "sweep", "start"},
         NEW step \in {"none", "creating", "made", "notice", "guard", "cleanup", "hook", "agent",
                       "starting", "turn", "next"},
         NEW held \in SUBSET EntryType
  PROVE  /\ Call(op, step, held) \in CallType
         /\ Call(op, step, held).op = op /\ Call(op, step, held).step = step
         /\ Call(op, step, held).held = held /\ ~Call(op, step, held).fresh
<1>1. 0 \in 0..Plugins
  BY SessionsAssumption
<1> QED BY <1>1 DEF Call, NoCall, CallType

LEMMA NoCallIs ==
  /\ NoCall \in CallType /\ Fit(NoCall)
  /\ NoCall.op = "none" /\ NoCall.step = "none" /\ NoCall.held = {} /\ ~NoCall.fresh
<1>1. 0 \in 0..Plugins
  BY SessionsAssumption
<1>2. /\ NoCall \in CallType /\ NoCall.op = "none" /\ NoCall.step = "none"
      /\ NoCall.held = {} /\ ~NoCall.fresh
  BY <1>1 DEF NoCall, CallType
<1> QED BY <1>2 DEF Fit, AwaitsOf

LEMMA SteppedIs ==
  ASSUME NEW k \in CallType, Fit(k), k.held # {},
         NEW step \in {"made", "notice", "guard", "cleanup", "agent", "starting", "turn", "next"},
         step \in AwaitsOf(k.op)
  PROVE  LET k2 == [k EXCEPT !.step = step]
         IN /\ k2 \in CallType /\ Fit(k2) /\ k2.step = step
            /\ k2.op = k.op /\ k2.held = k.held /\ k2.fresh = k.fresh
<1> DEFINE k2 == [k EXCEPT !.step = step]
<1>1. /\ k2 \in CallType /\ k2.step = step
      /\ k2.op = k.op /\ k2.held = k.held /\ k2.fresh = k.fresh
  BY DEF CallType
<1> HIDE DEF k2
<1>2. Fit(k2)
  BY <1>1 DEF Fit
<1> QED BY <1>1, <1>2 DEF k2

LEMMA EntryIs ==
  ASSUME SessionInv, NEW s \in Sessions
  PROVE  /\ Entry(s) \in EntryType /\ Entry(s).s = s /\ Entry(s).row = rows[s] /\ ~Entry(s).old
         /\ CopyRight(Entry(s))
<1>1. rows[s] \in SessionRow \cup {Absent}
  BY DEF SessionInv, SessionsOK
<1>2. Entry(s) \in EntryType /\ Entry(s).s = s /\ Entry(s).row = rows[s] /\ ~Entry(s).old
  BY <1>1 DEF Entry, EntryType
<1> HIDE DEF Entry
<1> QED BY <1>2 DEF CopyRight, Known

\* The call of a slot, and the one entry it works on.
LEMMA CallOf ==
  ASSUME SessionInv, NEW c \in Slots
  PROVE  /\ calls \in [Slots -> CallType] /\ calls[c] \in CallType /\ Fit(calls[c])
         /\ calls[c].held \in SUBSET EntryType
         /\ \A e \in calls[c].held : CopyRight(e)
         /\ c \in Sessions => calls[c].op \in {"none", "message", "kick"}
         /\ calls[c].fresh => Cardinality(Counted) < Limit
         /\ calls[c].step \notin {"none", "creating", "hook"} =>
              /\ calls[c].held # {} /\ Mine(c) \in calls[c].held
              /\ Mine(c) \in EntryType /\ Mine(c).s \in Sessions
<1>1. SessionsOK
  BY DEF SessionInv
<1>2. calls \in [Slots -> CallType] /\ calls[c] \in CallType /\ Fit(calls[c])
  BY <1>1 DEF SessionInv, SessionsOK, Fits
<1>3. /\ calls[c].held \in SUBSET EntryType
      /\ \A e \in calls[c].held : CopyRight(e)
      /\ c \in Sessions => calls[c].op \in {"none", "message", "kick"}
      /\ calls[c].fresh => Cardinality(Counted) < Limit
  BY <1>1, <1>2 DEF SessionInv, SessionsOK, Copies, Limited, CallType
<1>4. ASSUME calls[c].step \notin {"none", "creating", "hook"}
      PROVE  /\ calls[c].held # {} /\ Mine(c) \in calls[c].held
             /\ Mine(c) \in EntryType /\ Mine(c).s \in Sessions
  <2>1. calls[c].held # {}
    BY <1>2, <1>4 DEF Fit
  <2>2. Mine(c) \in calls[c].held /\ Mine(c) \in EntryType
    BY <1>1, <2>1, MineIs
  <2> QED BY <2>1, <2>2 DEF EntryType
<1> QED BY <1>2, <1>3, <1>4

Undecided ==
    /\ StoreOK'
    /\ UNCHANGED <<profile, audit, said, asked, quiet, dirs, extra>>
    /\ crossed \subseteq crossed' /\ live' \subseteq live /\ resources \subseteq resources'
    /\ \A s \in Sessions \ crossed' : SameRow(s)

LEMMA UndecidedMoves ==
  ASSUME SessionInv, Undecided
  PROVE  Moves({}) /\ Agree({}) /\ Counted' \subseteq Counted
<1>1. Moves({})
  BY DEF Undecided, Moves, Steady
<1>2. Agree({})
  BY DEF Undecided, Agree
<1>3. Counted' \subseteq Counted
  <2> SUFFICES ASSUME NEW s \in Counted' PROVE s \in Counted
    OBVIOUS
  <2>1. s \in Sessions \ crossed' /\ SameRow(s) /\ s \notin extra /\ s \notin crossed /\ s \in Active'
    BY DEF Counted, Undecided, Active
  <2> QED BY <2>1 DEF Counted, Active, SameRow, Known
<1> QED BY <1>1, <1>2, <1>3

\* The row may change, if not in what a decision is about.
LEMMA UntouchedIs ==
  ASSUME SessionInv, NEW new \in [Sessions -> SessionRow \cup {Absent}], rows' = new,
         UNCHANGED <<profile, audit, said, asked, quiet, dirs, extra, crossed, live, resources, now, autoDefault>>,
         kicks' \in [Sessions -> {"none", "queued", "running", "told", "failed", "lost"}],
         \A s \in Sessions : SameRow(s)
  PROVE  Undecided
BY DEF Undecided, StoreOK, SessionInv, SessionsOK

LEMMA StoreStays ==
  ASSUME SessionInv, UNCHANGED <<rows, profile, audit, said, asked, quiet, dirs, extra, now, autoDefault>>,
         kicks' \in [Sessions -> {"none", "queued", "running", "told", "failed", "lost"}],
         crossed \subseteq crossed', crossed' \subseteq Sessions, live' \subseteq live,
         resources \subseteq resources', resources' \subseteq Sessions
  PROVE  Undecided
<1>1. \A s \in Sessions : SameRow(s)
  BY DEF SameRow
<1>2. StoreOK'
  BY DEF StoreOK, SessionInv, SessionsOK
<1> QED BY <1>1, <1>2 DEF Undecided

\* One call goes on, and nothing is decided.
LEMMA CallGoesOn ==
  ASSUME SessionInv, Undecided, NEW c \in Slots, NEW k \in CallType, Fit(k),
         calls' = [calls EXCEPT ![c] = k],
         c \in Sessions => k.op \in {"none", "message", "kick"},
         \A e \in k.held : CopyRight(e),
         k.fresh => Cardinality(Counted) < Limit,
         StillEnds(c, {}),
         k.step = "starting" =>
           LET e == First(k.held)
           IN ~e.old /\ e.s \in quiet \ crossed' => k.op # "start" /\ Ending(e.s)
  PROVE  SessionInv'
<1>1. Moves({}) /\ Agree({}) /\ Counted' \subseteq Counted
  BY UndecidedMoves
<1>2. calls \in [Slots -> CallType] /\ calls' \in [Slots -> CallType] /\ calls'[c] = k
      /\ \A d \in Slots \ {c} : calls'[d] = calls[d]
  BY DEF SessionInv, SessionsOK
<1>3. \A d \in Slots \ {c} : Ages(calls'[d], calls[d], {})
  BY <1>2, AgesSelf DEF SessionInv, Fits
<1>4. \A e \in k.held : CopyRight(e)'
  <2> SUFFICES ASSUME NEW e \in k.held PROVE CopyRight(e)'
    OBVIOUS
  <2>1. e.s \in Sessions /\ crossed \subseteq crossed'
    BY <1>1 DEF CallType, EntryType, Moves
  <2>2. SameRow(e.s) \/ e.s \in crossed'
    BY <2>1 DEF Undecided
  <2> QED BY <2>1, <2>2, CopyKept
<1>5. StartsLate(c)'
  <2>0. PICK e : e = First(k.held)
    OBVIOUS
  <2> SUFFICES ASSUME k.step = "starting", ~e.old, e.s \in quiet' \ crossed'
               PROVE  k.op # "start" /\ Ending(e.s)'
    BY <1>2, <2>0 DEF StartsLate, Mine
  <2>1. quiet' = quiet /\ crossed \subseteq crossed'
    BY DEF Undecided
  <2>2. k.op # "start" /\ Ending(e.s)
    BY <2>0, <2>1
  <2>3. k.held # {} /\ k.held \in SUBSET EntryType
    BY DEF Fit, CallType
  <2>4. e \in k.held
    BY <2>0, <2>3, FirstIs
  <2>5. e.s \in Sessions \ crossed' /\ e.row # Absent
    BY <2>3, <2>4 DEF EntryType, Fit, AwaitsOf
  <2>6. Known(e.s)
    BY <2>1, <2>4, <2>5 DEF CopyRight
  <2>7. {c} \in SUBSET Slots /\ {} \in SUBSET Sessions /\ e.s \in Sessions \ ({} \cup crossed')
    BY <2>5
  <2>8. \A d \in {c} : StillEnds(d, {})
    OBVIOUS
  <2>9. Ending(e.s)'
    BY <1>3, <2>2, <2>6, <2>7, <2>8, StillEnding
  <2> QED BY <2>2, <2>9
<1>6. CallsMove({c}, {})
  <2>1. OwnRight(c)
    BY <1>2, <1>4, <1>5 DEF OwnRight
  <2> QED BY <1>2, <1>3, <2>1 DEF CallsMove
<1>7. Joins({c})
  BY <1>1, <1>2 DEF Joins
<1> QED BY <1>1, <1>6, <1>7, StepRight

LEMMA CallReturns ==
  ASSUME SessionInv, Undecided, NEW c \in Slots, Release(c), StillEnds(c, {})
  PROVE  SessionInv'
<1>1. calls' = [calls EXCEPT ![c] = NoCall]
  BY DEF Release, Set
<1> QED BY <1>1, NoCallIs, CallGoesOn

\* What a step of a call leaves alone.
Around == UNCHANGED <<autoDefault, now, profile, audit>>

LEMMA KicksTyped ==
  ASSUME SessionInv, NEW s, NEW how \in {"none", "queued", "running", "told", "failed", "lost"}
  PROVE  [kicks EXCEPT ![s] = how] \in
           [Sessions -> {"none", "queued", "running", "told", "failed", "lost"}]
BY DEF SessionInv, SessionsOK

LEMMA CountedIsActive ==
  ASSUME Cardinality(Active) < Limit
  PROVE  Cardinality(Counted) < Limit
<1>1. Active \subseteq Sessions /\ Counted \subseteq Active /\ IsFiniteSet(Sessions) /\ Limit \in Nat
  BY SessionsAssumption DEF Counted, Active
<1>2. IsFiniteSet(Active)
  BY <1>1, FS_Subset
<1>3. Cardinality(Counted) <= Cardinality(Active) /\ Cardinality(Active) \in Nat
  BY <1>1, <1>2, FS_Subset, FS_CardinalityType
<1> QED BY <1>1, <1>3, CountedFinite

LEMMA CreateRight ==
  ASSUME SessionInv, Around, NEW c \in Calls, CreateManagedSession(c)
  PROVE  SessionInv'
<1> DEFINE k == [Call("create", "creating", {}) EXCEPT !.fresh = TRUE]
<1>1. c \in Slots /\ c \notin Sessions
  BY SlotsAre DEF Slots
<1>2. k \in CallType /\ k.op = "create" /\ k.step = "creating" /\ k.held = {}
  <2> DEFINE k0 == Call("create", "creating", {})
  <2>1. k0 \in CallType /\ k0.op = "create" /\ k0.step = "creating" /\ k0.held = {}
    BY CallIs
  <2> HIDE DEF k0
  <2>2. [k0 EXCEPT !.fresh = TRUE] \in CallType
    BY <2>1 DEF CallType
  <2>3. /\ [k0 EXCEPT !.fresh = TRUE].op = "create" /\ [k0 EXCEPT !.fresh = TRUE].step = "creating"
        /\ [k0 EXCEPT !.fresh = TRUE].held = {}
    BY <2>1 DEF CallType
  <2> QED BY <2>2, <2>3 DEF k0
<1>3. calls' = [calls EXCEPT ![c] = k] /\ calls[c].op = "none"
  BY DEF CreateManagedSession, Set, Free
<1> HIDE DEF k
<1>4. Fit(k)
  BY <1>2 DEF Fit, AwaitsOf
<1>5. Cardinality(Counted) < Limit
  BY CountedIsActive DEF CreateManagedSession
<1>6. Undecided
  BY StoreStays DEF CreateManagedSession, decisionVars, Around, SessionInv, SessionsOK
<1>7. StillEnds(c, {})
  BY <1>1, <1>3, CallOf DEF StillEnds, Fit, AwaitsOf
<1> QED BY <1>1, <1>2, <1>3, <1>4, <1>5, <1>6, <1>7, CallGoesOn

\* A call with one entry.
LEMMA OneEntry ==
  ASSUME NEW k \in CallType, NEW e, k.held = {e}, k.step \in AwaitsOf(k.op),
         k.step \notin {"none", "creating", "hook"},
         k.op \notin {"create", "bind"} => e.row # Absent,
         k.op \in {"direct", "kick", "message"} => e.row.life # "archived"
  PROVE  Fit(k)
BY DEF Fit

LEMMA ResourceCreatedRight ==
  ASSUME SessionInv, Around, NEW c \in Slots, ResourceCreated(c)
  PROVE  SessionInv'
<1>1. calls[c].step = "creating" /\ calls[c] \in CallType /\ Fit(calls[c])
  BY CallOf DEF ResourceCreated
<1>2. calls[c].op = "create" /\ c \notin Sessions /\ StillEnds(c, {})
  BY <1>1, CallOf DEF Fit, AwaitsOf, StillEnds
<1>3. CASE Release(c) /\ UNCHANGED resources
  <2>1. Undecided
    BY <1>3, StoreStays DEF ResourceCreated, decisionVars, Around, SessionInv, SessionsOK
  <2> QED BY <1>2, <1>3, <2>1, CallReturns
<1>4. ASSUME NEW s \in FreshResource, resources' = resources \cup {s},
             calls' = [calls EXCEPT ![c].step = "made", ![c].held = {Entry(s)}]
      PROVE  SessionInv'
  <2> DEFINE k == [calls[c] EXCEPT !.step = "made", !.held = {Entry(s)}]
  <2>1. s \in Sessions
    BY DEF FreshResource
  <2>2. Entry(s) \in EntryType /\ CopyRight(Entry(s))
    BY <2>1, EntryIs
  <2>3. calls' = [calls EXCEPT ![c] = k]
    BY <1>4, CallOf
  <2>4. /\ k \in CallType /\ k.op = "create" /\ k.step = "made" /\ k.held = {Entry(s)}
        /\ k.fresh = calls[c].fresh
    BY <1>1, <1>2, <2>2 DEF CallType
  <2> HIDE DEF k
  <2>5. Fit(k)
    BY <2>4, OneEntry DEF AwaitsOf
  <2>6. Undecided
    BY <1>4, <2>1, StoreStays DEF ResourceCreated, decisionVars, Around, SessionInv, SessionsOK
  <2> QED BY <1>2, <2>2, <2>3, <2>4, <2>5, <2>6, CallOf, CallGoesOn
<1> QED BY <1>3, <1>4 DEF ResourceCreated

LEMMA BindRight ==
  ASSUME SessionInv, Around, NEW c \in Calls, NEW s \in Sessions, BindManagedSession(c, s)
  PROVE  SessionInv'
<1> DEFINE k0 == Call("bind", "made", {Entry(s)})
           k == [k0 EXCEPT !.fresh = TRUE]
<1>1. c \in Slots /\ c \notin Sessions
  BY SlotsAre DEF Slots
<1>2. Entry(s) \in EntryType /\ CopyRight(Entry(s))
  BY EntryIs
<1>3. calls' = [calls EXCEPT ![c] = k] /\ calls[c].op = "none"
  BY DEF BindManagedSession, Set, Free
<1>4. k0 \in CallType /\ k0.op = "bind" /\ k0.step = "made" /\ k0.held = {Entry(s)}
  BY <1>2, CallIs
<1> HIDE DEF k0
<1>5. k \in CallType
  BY <1>4 DEF CallType
<1>6. k.op = "bind" /\ k.step = "made" /\ k.held = {Entry(s)}
  BY <1>4 DEF CallType
<1> HIDE DEF k
<1>7. Fit(k)
  BY <1>5, <1>6, OneEntry DEF AwaitsOf
<1>8. Cardinality(Counted) < Limit
  BY CountedIsActive DEF BindManagedSession
<1>9. Undecided
  BY StoreStays DEF BindManagedSession, decisionVars, Around, SessionInv, SessionsOK
<1>10. StillEnds(c, {})
  BY <1>1, <1>3, CallOf DEF StillEnds, Fit, AwaitsOf
<1> QED BY <1>1, <1>2, <1>3, <1>5, <1>6, <1>7, <1>8, <1>9, <1>10, CallGoesOn

LEMMA NoticedRight ==
  ASSUME SessionInv, Around, NEW c \in Slots, Noticed(c)
  PROVE  SessionInv'
<1>1. Undecided
  BY KicksTyped, StoreStays DEF Noticed, decisionVars, Around, SessionInv, SessionsOK
<1> QED BY <1>1, CallReturns DEF Noticed, StillEnds

\* A call that is new in a free slot of its own.
LEMMA BeginRight ==
  ASSUME SessionInv, Around, NEW c \in Calls, NEW s \in Sessions,
         NEW op \in {"direct", "archive", "delete", "drop", "forget", "resume"}, BeginCall(c, op, s)
  PROVE  SessionInv'
<1> DEFINE k == Call(op, "guard", {Entry(s)})
<1>1. c \in Slots /\ c \notin Sessions
  BY SlotsAre DEF Slots
<1>2. Entry(s) \in EntryType /\ CopyRight(Entry(s)) /\ Entry(s).row = rows[s]
  BY EntryIs
<1>3. calls' = [calls EXCEPT ![c] = k] /\ calls[c].op = "none"
  BY DEF BeginCall, Set, Free
<1>4. k \in CallType /\ k.op = op /\ k.step = "guard" /\ k.held = {Entry(s)} /\ ~k.fresh
  BY <1>2, CallIs
<1> HIDE DEF k
<1>5. Fit(k)
  <2>1. rows[s] # Absent /\ (op = "direct" => rows[s].life # "archived")
    BY DEF BeginCall, MayBegin, Known
  <2>2. k.step \in AwaitsOf(k.op)
    BY <1>4 DEF AwaitsOf
  <2> QED BY <1>2, <1>4, <2>1, <2>2, OneEntry
<1>6. Undecided
  BY StoreStays DEF BeginCall, decisionVars, Around, SessionInv, SessionsOK
<1>7. StillEnds(c, {})
  BY <1>1, <1>3, CallOf DEF StillEnds, Fit, AwaitsOf
<1> QED BY <1>1, <1>2, <1>3, <1>4, <1>5, <1>6, <1>7, CallGoesOn

LEMMA DeniedRight ==
  ASSUME SessionInv, Around, NEW c \in Slots, Denied(c)
  PROVE  SessionInv'
<1>1. Undecided
  BY KicksTyped, StoreStays DEF Denied, decisionVars, Around, SessionInv, SessionsOK
<1> QED BY <1>1, CallReturns DEF Denied, StillEnds

-----------------------------------------------------------------------------
(* Messages and turns. *)

\* Activity and the events of a turn do not change what is decided about a row.
LEMMA FieldChanged ==
  ASSUME SessionInv, NEW s \in Sessions, Known(s),
         NEW row \in SessionRow, row.auto = rows[s].auto,
         row.life = "archived" <=> rows[s].life = "archived",
         rows' = [rows EXCEPT ![s] = row]
  PROVE  /\ [rows EXCEPT ![s] = row] \in [Sessions -> SessionRow \cup {Absent}]
         /\ \A q \in Sessions : SameRow(q)
<1>1. rows \in [Sessions -> SessionRow \cup {Absent}]
  BY DEF SessionInv, SessionsOK
<1>2. row # Absent
  BY SessionsAssumption
<1> QED BY <1>1, <1>2 DEF SameRow, Known

LEMMA ActivityRecorded ==
  ASSUME SessionInv, NEW s \in Sessions, rows' = RecordActivity(s)
  PROVE  rows' \in [Sessions -> SessionRow \cup {Absent}] /\ \A q \in Sessions : SameRow(q)
<1>1. rows \in [Sessions -> SessionRow \cup {Absent}] /\ now \in 0..MaxTime
  BY DEF SessionInv, SessionsOK
<1>2. CASE Known(s) /\ rows[s].life # "archived"
  <2> DEFINE row == [rows[s] EXCEPT !.life = "hot", !.seen = now]
  <2>1. rows[s] \in SessionRow
    BY <1>1, <1>2 DEF Known
  <2>2. row \in SessionRow /\ row.auto = rows[s].auto /\ row.life = "hot"
    BY <1>1, <2>1 DEF SessionRow
  <2>3. rows' = [rows EXCEPT ![s] = row]
    BY <1>1, <1>2 DEF RecordActivity
  <2> HIDE DEF row
  <2> QED BY <1>2, <2>2, <2>3, FieldChanged
<1>3. CASE ~(Known(s) /\ rows[s].life # "archived")
  BY <1>1, <1>3 DEF RecordActivity, SameRow
<1> QED BY <1>2, <1>3

LEMMA IngestedRow ==
  ASSUME SessionInv, NEW s \in Sessions, NEW status \in {"ready", "running", "error"},
         rows' = Ingested(s, status)
  PROVE  rows' \in [Sessions -> SessionRow \cup {Absent}] /\ \A q \in Sessions : SameRow(q)
<1>1. rows \in [Sessions -> SessionRow \cup {Absent}]
  BY DEF SessionInv, SessionsOK
<1>2. CASE Known(s)
  <2> DEFINE row == [rows[s] EXCEPT !.status = status]
  <2>1. rows[s] \in SessionRow
    BY <1>1, <1>2 DEF Known
  <2>2. row \in SessionRow /\ row.auto = rows[s].auto /\ row.life = rows[s].life
    BY <2>1 DEF SessionRow
  <2>3. rows' = [rows EXCEPT ![s] = row]
    BY <1>1, <1>2 DEF Ingested
  <2> HIDE DEF row
  <2> QED BY <1>2, <2>2, <2>3, FieldChanged
<1>3. CASE ~Known(s)
  BY <1>1, <1>3 DEF Ingested, SameRow
<1> QED BY <1>2, <1>3

LEMMA MessageRight ==
  ASSUME SessionInv, Around, NEW s \in Sessions, MessageReceived(s)
  PROVE  SessionInv'
<1> DEFINE k0 == Call("message", "hook", {})
           k == [k0 EXCEPT !.at = 1]
<1>1. s \in Slots
  BY SlotsAre
<1>2. calls' = [calls EXCEPT ![s] = k] /\ calls[s].op = "none"
  BY DEF MessageReceived, Set, Free
<1>3. k0 \in CallType /\ k0.op = "message" /\ k0.step = "hook" /\ k0.held = {} /\ ~k0.fresh
  BY CallIs
<1>4. 1 \in 0..Plugins
  BY SessionsAssumption
<1> HIDE DEF k0
<1>5. k \in CallType
  BY <1>3, <1>4 DEF CallType
<1>6. k.op = "message" /\ k.step = "hook" /\ k.held = {} /\ k.fresh = k0.fresh
  BY <1>3 DEF CallType
<1> HIDE DEF k
<1>7. Fit(k)
  BY <1>6 DEF Fit, AwaitsOf
<1>8. Undecided
  BY ActivityRecorded, UntouchedIs DEF MessageReceived, decisionVars, Around, SessionInv, SessionsOK
<1>9. StillEnds(s, {})
  BY <1>1, <1>2, CallOf DEF StillEnds, Fit, AwaitsOf
<1> QED BY <1>1, <1>2, <1>3, <1>5, <1>6, <1>7, <1>8, <1>9, CallGoesOn

LEMMA HookAnswersRight ==
  ASSUME SessionInv, Around, NEW s \in Sessions, HookAnswers(s)
  PROVE  SessionInv'
<1>1. s \in Slots /\ calls[s].step = "hook" /\ calls[s] \in CallType /\ Fit(calls[s])
  BY SlotsAre, CallOf DEF HookAnswers
<1>2. StillEnds(s, {}) /\ calls[s].op = "message" /\ calls[s].held = {}
  BY <1>1 DEF StillEnds, Fit, AwaitsOf
<1>3. Undecided
  BY StoreStays DEF HookAnswers, storeVars, decisionVars, Around, SessionInv, SessionsOK
<1>4. CASE calls[s].at < Plugins /\ calls' = [calls EXCEPT ![s].at = @ + 1]
  <2> DEFINE k == [calls[s] EXCEPT !.at = calls[s].at + 1]
  <2>1. calls[s].at + 1 \in 0..Plugins
    BY <1>1, <1>4, SessionsAssumption DEF CallType
  <2>2. k \in CallType
    BY <1>1, <2>1 DEF CallType
  <2>3. k.op = "message" /\ k.step = "hook" /\ k.held = {} /\ k.fresh = calls[s].fresh
    BY <1>1, <1>2 DEF CallType
  <2>4. calls' = [calls EXCEPT ![s] = k]
    BY <1>1, <1>4, CallOf
  <2> HIDE DEF k
  <2>5. Fit(k)
    BY <2>3 DEF Fit, AwaitsOf
  <2> QED BY <1>1, <1>2, <1>3, <2>2, <2>3, <2>4, <2>5, CallOf, CallGoesOn
<1>5. CASE Release(s)
  BY <1>1, <1>2, <1>3, <1>5, CallReturns
<1>6. CASE s \in Active /\ Set(s, Call("message", "agent", {Entry(s)}))
  <2> DEFINE k == Call("message", "agent", {Entry(s)})
  <2>1. Entry(s) \in EntryType /\ CopyRight(Entry(s)) /\ Entry(s).row = rows[s]
    BY EntryIs
  <2>2. k \in CallType /\ k.op = "message" /\ k.step = "agent" /\ k.held = {Entry(s)} /\ ~k.fresh
    BY <2>1, CallIs
  <2>3. calls' = [calls EXCEPT ![s] = k]
    BY <1>6 DEF Set
  <2> HIDE DEF k
  <2>4. Fit(k)
    <3>1. rows[s] # Absent /\ rows[s].life # "archived" /\ k.step \in AwaitsOf(k.op)
      BY <1>6, <2>2 DEF Active, Known, AwaitsOf
    <3> QED BY <2>1, <2>2, <3>1, OneEntry
  <2> QED BY <1>1, <1>2, <1>3, <2>1, <2>2, <2>3, <2>4, CallGoesOn
<1> QED BY <1>4, <1>5, <1>6 DEF HookAnswers

LEMMA KickoffRight ==
  ASSUME SessionInv, Around, NEW s \in Sessions, RunKickoff(s)
  PROVE  SessionInv'
<1>1. s \in Slots /\ calls[s].op = "none"
  BY SlotsAre DEF RunKickoff, Free
<1>2. StillEnds(s, {})
  BY <1>1, CallOf DEF StillEnds, Fit, AwaitsOf
<1>3. Undecided
  BY KicksTyped, StoreStays DEF RunKickoff, decisionVars, Around, SessionInv, SessionsOK
<1>4. CASE MayBegin("direct", s)
  <2> DEFINE k == Call("kick", "guard", {Entry(s)})
  <2>1. Entry(s) \in EntryType /\ CopyRight(Entry(s)) /\ Entry(s).row = rows[s]
    BY EntryIs
  <2>2. k \in CallType /\ k.op = "kick" /\ k.step = "guard" /\ k.held = {Entry(s)} /\ ~k.fresh
    BY <2>1, CallIs
  <2>3. calls' = [calls EXCEPT ![s] = k]
    BY <1>4 DEF RunKickoff, Set
  <2> HIDE DEF k
  <2>4. Fit(k)
    <3>1. rows[s] # Absent /\ rows[s].life # "archived" /\ k.step \in AwaitsOf(k.op)
      BY <1>4, <2>2 DEF MayBegin, Known, AwaitsOf
    <3> QED BY <2>1, <2>2, <3>1, OneEntry
  <2> QED BY <1>1, <1>2, <1>3, <2>1, <2>2, <2>3, <2>4, CallGoesOn
<1>5. CASE ~MayBegin("direct", s)
  <2>1. calls' = calls
    BY <1>5 DEF RunKickoff
  <2> DEFINE k == calls[s]
  <2>2. k \in CallType /\ Fit(k) /\ calls' = [calls EXCEPT ![s] = k] /\ k.step = "none"
    BY <1>1, <2>1, CallOf DEF Fit, AwaitsOf
  <2>3. (k.fresh => Cardinality(Counted) < Limit) /\ \A e \in k.held : CopyRight(e)
    BY <1>1, CallOf
  <2> HIDE DEF k
  <2> QED BY <1>1, <1>2, <1>3, <2>2, <2>3, CallOf, CallGoesOn DEF k
<1> QED BY <1>4, <1>5

\* The agent that outlives its job goes on in another slot.
LEMMA HookTimesOutRight ==
  ASSUME SessionInv, Around, NEW s \in Sessions, HookTimesOut(s)
  PROVE  SessionInv'
<1>1. /\ s \in Slots /\ Adrift(s) \in Slots /\ Adrift(s) # s /\ Adrift(s) \notin Sessions
      /\ calls[s].op = "message" /\ calls[s] \in CallType /\ Fit(calls[s])
  BY SlotsAre, CallOf DEF HookTimesOut
<1>2. calls[s].step # "cleanup" /\ StillEnds(s, {})
  BY <1>1 DEF StillEnds, Fit, AwaitsOf
<1>3. Undecided
  BY StoreStays DEF HookTimesOut, storeVars, decisionVars, Around, SessionInv, SessionsOK
<1>4. CASE calls[s].step = "hook"
  BY <1>1, <1>2, <1>3, <1>4, CallReturns DEF HookTimesOut
<1>5. CASE calls[s].step # "hook"
  <2> DEFINE d == Adrift(s)
             k == calls[s]
  <2>1. calls[d].op = "none" /\ calls' = [calls EXCEPT ![s] = NoCall, ![d] = k]
    BY <1>5 DEF HookTimesOut, Free
  <2>2. calls[d].step # "cleanup" /\ StillEnds(d, {})
    BY <1>1, <2>1, CallOf DEF StillEnds, Fit, AwaitsOf
  <2> HIDE DEF d
  <2>3. d \in Slots /\ d # s /\ d \notin Sessions
    BY <1>1 DEF d
  <2>4. calls' \in [Slots -> CallType] /\ calls'[s] = NoCall /\ calls'[d] = k
        /\ \A c \in Slots \ {s, d} : calls'[c] = calls[c]
    BY <1>1, <2>1, <2>3, CallOf, NoCallIs
  <2>5. \A c \in Slots \ {s, d} : Ages(calls'[c], calls[c], {})
    BY <2>4, AgesSelf, CallOf
  <2>6. Moves({}) /\ Agree({}) /\ Counted' \subseteq Counted
    BY <1>3, UndecidedMoves
  <2>7. \A e \in k.held : CopyRight(e)'
    BY <1>1, CallOf
       DEF CopyRight, Known, HookTimesOut, storeVars, decisionVars
  <2>8. StartsLate(d)'
    <3>0. PICK e : e = Mine(s)
      OBVIOUS
    <3>1. Mine(d)' = e
      BY <2>4, <3>0 DEF Mine
    <3> SUFFICES ASSUME k.step = "starting", ~e.old, e.s \in quiet' \ crossed'
                 PROVE  k.op # "start" /\ Ending(e.s)'
      BY <2>4, <3>1 DEF StartsLate
    <3>2. StartsLate(s) /\ quiet' = quiet /\ crossed' = crossed
      BY <1>1 DEF SessionInv, Starters, HookTimesOut, decisionVars
    <3>3. Ending(e.s)
      BY <3>0, <3>2 DEF StartsLate
    <3>4. PICK c \in Slots : calls[c].step = "cleanup" /\ Mine(c).s = e.s
      BY <3>3 DEF Ending
    <3>5. c \notin {s, d}
      BY <1>2, <2>2, <3>4
    <3>6. calls'[c].step = "cleanup" /\ Mine(c)' = Mine(c)
      BY <2>4, <3>4, <3>5 DEF Mine
    <3> QED BY <1>1, <3>4, <3>6 DEF Ending
  <2>9. OwnRight(s) /\ OwnRight(d)
    <3>1. OwnRight(s)
      BY <2>4, NoCallIs DEF OwnRight, StartsLate
    <3>2. OwnRight(d)
      BY <1>1, <2>3, <2>4, <2>7, <2>8 DEF OwnRight
    <3> QED BY <3>1, <3>2
  <2>10. CallsMove({s, d}, {})
    BY <1>2, <2>2, <2>4, <2>5, <2>9 DEF CallsMove
  <2>11. Joins({s, d})
    BY <1>1, <2>4, <2>6, NoCallIs, CallOf DEF Joins
  <2>12. {s, d} \in SUBSET Slots
    BY <1>1, <2>3
  <2> QED BY <2>6, <2>10, <2>11, <2>12, StepRight
<1> QED BY <1>4, <1>5

\* A call whose row has been copied while it was not archived: a turn.
LEMMA RunTurnRight ==
  ASSUME SessionInv, Around, NEW c \in Slots, RunTurn(c)
  PROVE  SessionInv'
<1>0. PICK e : e = Mine(c)
  OBVIOUS
<1>1. /\ calls[c] \in CallType /\ Fit(calls[c])
      /\ calls[c].op \in {"direct", "kick", "message"} /\ calls[c].step \in {"guard", "agent"}
  <2>1. calls[c] \in CallType /\ Fit(calls[c])
    BY CallOf
  <2> QED BY <2>1 DEF RunTurn, Passed, Fit, AwaitsOf, CallType
<1>2. /\ e \in calls[c].held /\ e \in EntryType /\ e.s \in Sessions /\ CopyRight(e)
      /\ e.row # Absent /\ e.row.life # "archived"
  BY <1>0, <1>1, CallOf DEF Fit
<1>3. StillEnds(c, {})
  BY <1>1 DEF StillEnds
<1>4. kicks' \in [Sessions -> {"none", "queued", "running", "told", "failed", "lost"}]
  BY KicksTyped DEF RunTurn, Kicked, SessionInv, SessionsOK
<1>5. CASE EnsureSession(c, e) \in {"stopped", "refused"}
  <2>1. Release(c) /\ UNCHANGED rows
    BY <1>0, <1>5 DEF RunTurn
  <2>2. Undecided
    BY <1>4, <2>1, StoreStays DEF RunTurn, decisionVars, Around, SessionInv, SessionsOK
  <2> QED BY <1>3, <2>1, <2>2, CallReturns
<1>6. CASE EnsureSession(c, e) = "starting"
  <2> DEFINE k == [calls[c] EXCEPT !.step = "starting"]
  <2>1. calls' = [calls EXCEPT ![c] = k] /\ UNCHANGED rows
    BY <1>0, <1>1, <1>6, CallOf DEF RunTurn
  <2>2. Undecided
    BY <1>4, <2>1, StoreStays DEF RunTurn, decisionVars, Around, SessionInv, SessionsOK
  <2>3. "starting" \in AwaitsOf(calls[c].op) /\ calls[c].held # {}
    BY <1>1, <1>2 DEF AwaitsOf
  <2>4. /\ k \in CallType /\ Fit(k) /\ k.step = "starting" /\ k.op = calls[c].op
        /\ k.held = calls[c].held /\ k.fresh = calls[c].fresh
    BY <1>1, <2>3, SteppedIs
  <2> HIDE DEF k
  <2>5. First(k.held) = e
    BY <1>0, <2>4 DEF Mine
  <2>6. e.row.auto
    BY <1>6 DEF EnsureSession
  <2>7. ~e.old /\ e.s \in quiet \ crossed' => Ending(e.s)
    <3> SUFFICES ASSUME ~e.old, e.s \in quiet \ crossed' PROVE Ending(e.s)
      OBVIOUS
    <3>1. e.s \notin crossed
      BY <2>2 DEF Undecided
    <3>2. Known(e.s) /\ rows[e.s].auto /\ rows[e.s].life # "archived"
      BY <1>2, <2>6, <3>1 DEF CopyRight
    <3>3. e.s \in Active
      BY <1>2, <3>2 DEF Active
    <3> QED BY <3>1, <3>2, <3>3 DEF SessionInv, Quieted
  <2>8. (c \in Sessions => k.op \in {"none", "message", "kick"})
        /\ (k.fresh => Cardinality(Counted) < Limit) /\ \A f \in k.held : CopyRight(f)
    BY <2>4, CallOf
  <2> QED BY <1>1, <1>3, <2>1, <2>2, <2>4, <2>5, <2>7, <2>8, CallGoesOn
<1>7. CASE EnsureSession(c, e) = "live"
  <2> DEFINE k == [calls[c] EXCEPT !.step = "turn"]
  <2>1. calls' = [calls EXCEPT ![c] = k] /\ rows' = Ingested(e.s, "running")
    BY <1>0, <1>1, <1>7, CallOf DEF RunTurn
  <2>2. Undecided
    BY <1>2, <1>4, <2>1, IngestedRow, UntouchedIs
       DEF RunTurn, decisionVars, Around, SessionInv, SessionsOK
  <2>3. "turn" \in AwaitsOf(calls[c].op) /\ calls[c].held # {}
    BY <1>1, <1>2 DEF AwaitsOf
  <2>4. /\ k \in CallType /\ Fit(k) /\ k.step = "turn" /\ k.op = calls[c].op
        /\ k.held = calls[c].held /\ k.fresh = calls[c].fresh
    BY <1>1, <2>3, SteppedIs
  <2> HIDE DEF k
  <2>5. (c \in Sessions => k.op \in {"none", "message", "kick"})
        /\ (k.fresh => Cardinality(Counted) < Limit) /\ \A f \in k.held : CopyRight(f)
    BY <2>4, CallOf
  <2> QED BY <1>3, <2>1, <2>2, <2>4, <2>5, CallGoesOn
<1> QED BY <1>5, <1>6, <1>7 DEF EnsureSession

LEMMA TurnEndsRight ==
  ASSUME SessionInv, Around, NEW c \in Slots, TurnEnds(c)
  PROVE  SessionInv'
<1>1. calls[c].step = "turn" /\ Mine(c).s \in Sessions
  BY CallOf DEF TurnEnds
<1>2. kicks' \in [Sessions -> {"none", "queued", "running", "told", "failed", "lost"}]
  BY KicksTyped DEF TurnEnds, Kicked, SessionInv, SessionsOK
<1>3. PICK status \in {"ready", "error"} : rows' = Ingested(Mine(c).s, status)
  BY DEF TurnEnds
<1>4. Undecided
  BY <1>1, <1>2, <1>3, IngestedRow, UntouchedIs
     DEF TurnEnds, decisionVars, Around, SessionInv, SessionsOK
<1> QED BY <1>1, <1>4, CallReturns DEF TurnEnds, StillEnds

\* A copy that is written back, with another status: nothing is decided unless
\* it was outdated.
LEMMA CopyWritten ==
  ASSUME SessionInv, NEW e \in EntryType, e.row # Absent, CopyRight(e),
         NEW status \in {"ready", "running", "error"},
         rows' = [rows EXCEPT ![e.s] = [e.row EXCEPT !.status = status]],
         crossed \subseteq crossed', e.old => e.s \in crossed'
  PROVE  /\ rows' \in [Sessions -> SessionRow \cup {Absent}]
         /\ \A s \in Sessions \ crossed' : SameRow(s)
<1>1. rows \in [Sessions -> SessionRow \cup {Absent}]
  BY DEF SessionInv, SessionsOK
<1> DEFINE row == [e.row EXCEPT !.status = status]
<1>2. e.s \in Sessions /\ e.row \in SessionRow
  BY DEF EntryType
<1>3. row \in SessionRow /\ row.auto = e.row.auto /\ row.life = e.row.life /\ row # Absent
  BY <1>2, SessionsAssumption DEF SessionRow
<1>4. rows' = [rows EXCEPT ![e.s] = row]
  OBVIOUS
<1> HIDE DEF row
<1>5. ASSUME NEW s \in Sessions \ crossed' PROVE SameRow(s)
  <2>1. CASE s = e.s
    <3>1. Known(s) /\ rows[s].auto = e.row.auto /\ (rows[s].life = "archived" <=> e.row.life = "archived")
      BY <2>1 DEF CopyRight
    <3> QED BY <1>1, <1>2, <1>3, <1>4, <2>1, <3>1 DEF SameRow, Known
  <2>2. CASE s # e.s
    BY <1>1, <1>4, <2>2 DEF SameRow
  <2> QED BY <2>1, <2>2
<1> QED BY <1>1, <1>2, <1>3, <1>4, <1>5

\* Where a call goes from a start.
LEMMA AdvanceIs ==
  ASSUME SessionInv, NEW c \in Slots, calls[c].step = "starting"
  PROVE  \E k \in CallType :
           /\ Advance(calls, c) = [calls EXCEPT ![c] = k] /\ Fit(k)
           /\ k.held \subseteq calls[c].held /\ k.step # "starting" /\ ~k.fresh
           /\ c \in Sessions => k.op \in {"none", "message", "kick"}
<1> DEFINE rest == calls[c].held \ {Mine(c)}
<1>1. /\ calls[c] \in CallType /\ Fit(calls[c]) /\ calls[c].held \in SUBSET EntryType
      /\ (c \in Sessions => calls[c].op \in {"none", "message", "kick"})
  BY CallOf
<1>2. CASE calls[c].op = "start" /\ rest # {}
  <2> DEFINE k == Call("start", "next", rest)
  <2>1. rest \in SUBSET EntryType
    BY <1>1
  <2>2. k \in CallType /\ k.op = "start" /\ k.step = "next" /\ k.held = rest /\ ~k.fresh
    BY <2>1, CallIs
  <2>3. Advance(calls, c) = [calls EXCEPT ![c] = k]
    BY <1>2 DEF Advance
  <2> HIDE DEF k
  <2>4. Fit(k)
    BY <1>1, <1>2, <2>2 DEF Fit, AwaitsOf
  <2> QED BY <1>1, <1>2, <2>2, <2>3, <2>4
<1>3. CASE ~(calls[c].op = "start" /\ rest # {})
  <2>1. Advance(calls, c) = [calls EXCEPT ![c] = NoCall]
    BY <1>3 DEF Advance
  <2> QED BY <2>1, NoCallIs
<1> QED BY <1>2, <1>3

LEMMA StartFailsRight ==
  ASSUME SessionInv, Around, NEW c \in Slots, StartFails(c)
  PROVE  SessionInv'
<1>0. PICK e : e = Mine(c)
  OBVIOUS
<1>1. calls[c].step = "starting" /\ calls[c].op \notin {"create", "bind"}
  BY CallOf DEF StartFails, Fit, AwaitsOf
<1>2. e \in calls[c].held /\ e \in EntryType /\ e.s \in Sessions /\ CopyRight(e) /\ e.row # Absent
  BY <1>0, <1>1, CallOf DEF Fit
<1>3. PICK k \in CallType :
           /\ Advance(calls, c) = [calls EXCEPT ![c] = k] /\ Fit(k)
           /\ k.held \subseteq calls[c].held /\ k.step # "starting" /\ ~k.fresh
           /\ c \in Sessions => k.op \in {"none", "message", "kick"}
  BY <1>1, AdvanceIs
<1>4. calls' = [calls EXCEPT ![c] = k]
  BY <1>3 DEF StartFails
<1>5. Undecided
  <2>1. CASE calls[c].op = "start"
    <3>1. /\ rows' = [rows EXCEPT ![e.s] = [e.row EXCEPT !.status = "error"]]
          /\ crossed' = IF e.old THEN crossed \cup {e.s} ELSE crossed
          /\ UNCHANGED <<kicks, dirs, resources, live, said, asked, quiet, extra>>
      BY <1>0, <2>1 DEF StartFails
    <3>2. /\ rows' \in [Sessions -> SessionRow \cup {Absent}]
          /\ \A s \in Sessions \ crossed' : SameRow(s)
      BY <1>2, <3>1, CopyWritten
    <3>3. StoreOK'
      BY <1>2, <3>1, <3>2 DEF StoreOK, SessionInv, SessionsOK, Around
    <3> QED BY <3>1, <3>2, <3>3 DEF Undecided, Around
  <2>2. CASE calls[c].op # "start"
    <3>1. UNCHANGED <<rows, crossed>> /\ Kicked(c, "failed")
      BY <2>2 DEF StartFails
    <3>2. kicks' \in [Sessions -> {"none", "queued", "running", "told", "failed", "lost"}]
      BY <3>1, KicksTyped DEF Kicked, SessionInv, SessionsOK
    <3> QED BY <3>1, <3>2, StoreStays DEF StartFails, Around, SessionInv, SessionsOK
  <2> QED BY <2>1, <2>2
<1>6. StillEnds(c, {}) /\ \A f \in k.held : CopyRight(f)
  BY <1>1, <1>3, CallOf DEF StillEnds
<1> QED BY <1>3, <1>4, <1>5, <1>6, CallGoesOn

\* The provider runs the session: if that was ended, their calls crossed.
LEMMA StartedRight ==
  ASSUME SessionInv, Around, NEW c \in Slots, SessionStarted(c)
  PROVE  SessionInv'
<1>0. PICK e : e = Mine(c)
  OBVIOUS
<1>1. /\ calls[c].step = "starting" /\ calls[c].op \notin {"create", "bind"}
      /\ calls \in [Slots -> CallType] /\ calls[c] \in CallType /\ Fit(calls[c])
  BY CallOf DEF SessionStarted, Fit, AwaitsOf
<1>2. e \in calls[c].held /\ e \in EntryType /\ e.s \in Sessions /\ CopyRight(e) /\ e.row # Absent
  BY <1>0, <1>1, CallOf DEF Fit
<1>3. PICK status \in {"ready", "running", "error"} :
        rows' = [rows EXCEPT ![e.s] = [e.row EXCEPT !.status = status]]
  <2>1. rows' = [rows EXCEPT ![e.s] = [e.row EXCEPT !.status =
                   IF calls[c].op = "start" THEN "ready" ELSE "running"]]
    BY <1>0 DEF SessionStarted
  <2> QED BY <2>1
<1>4. /\ live' = live \cup {e.s}
      /\ crossed' = IF e.old \/ Ending(e.s) THEN crossed \cup {e.s} ELSE crossed
      /\ UNCHANGED <<dirs, resources, kicks, said, asked, quiet, extra>>
  BY <1>0 DEF SessionStarted
<1>5. crossed \subseteq crossed' /\ (e.old => e.s \in crossed') /\ (Ending(e.s) => e.s \in crossed')
  BY <1>4
<1>6. /\ rows' \in [Sessions -> SessionRow \cup {Absent}]
      /\ \A s \in Sessions \ crossed' : SameRow(s)
  BY <1>2, <1>3, <1>5, CopyWritten
<1>7. e.s \notin crossed' => e.s \notin quiet
  BY <1>0, <1>1, <1>5 DEF SessionInv, Starters, StartsLate
<1>8. PICK k \in CallType :
           /\ calls' = [calls EXCEPT ![c] = k] /\ Fit(k)
           /\ k.held \subseteq calls[c].held /\ k.step # "starting" /\ (k.fresh => calls[c].fresh)
           /\ c \in Sessions => k.op \in {"none", "message", "kick"}
  <2>1. CASE calls[c].op = "start"
    <3>1. calls' = Advance(calls, c)
      BY <2>1 DEF SessionStarted
    <3> QED BY <1>1, <3>1, AdvanceIs
  <2>2. CASE calls[c].op # "start"
    <3> DEFINE k == [calls[c] EXCEPT !.step = "turn"]
    <3>1. calls' = [calls EXCEPT ![c] = k]
      BY <1>1, <2>2 DEF SessionStarted
    <3>2. "turn" \in AwaitsOf(calls[c].op) /\ calls[c].held # {}
      BY <1>1, <1>2, <2>2 DEF AwaitsOf, Fit
    <3>3. /\ k \in CallType /\ Fit(k) /\ k.step = "turn" /\ k.op = calls[c].op
          /\ k.held = calls[c].held /\ k.fresh = calls[c].fresh
      BY <1>1, <3>2, SteppedIs
    <3> HIDE DEF k
    <3> QED BY <3>1, <3>3, CallOf
  <2> QED BY <2>1, <2>2
<1>9. Moves({e.s})
  <2>1. StoreOK'
    BY <1>2, <1>4, <1>6 DEF StoreOK, SessionInv, SessionsOK, Around
  <2>2. \A s \in Sessions \ ({e.s} \cup crossed') : Steady(s)
    BY <1>4, <1>6 DEF Steady
  <2>3. \A s \in {e.s} \ crossed' : Settling(s)
    <3> SUFFICES ASSUME NEW s \in Sessions, s = e.s, s \notin crossed' PROVE Settling(s)
      BY <1>2
    <3>1. SameRow(s) /\ s \notin quiet /\ s \notin crossed
      BY <1>5, <1>6, <1>7
    <3>2. Decided(s)
      BY <3>1 DEF SessionInv, Decisions
    <3>3. Decided(s)'
      BY <1>4, <3>1, <3>2 DEF Decided, SameRow, Known
    <3>4. Ended(s)'
      BY <1>4, <3>1 DEF Ended
    <3> QED BY <3>3, <3>4 DEF Settling
  <2> QED BY <1>5, <2>1, <2>2, <2>3 DEF Moves, Around
<1>10. calls' \in [Slots -> CallType] /\ calls'[c] = k /\ \A d \in Slots \ {c} : calls'[d] = calls[d]
  BY <1>1, <1>8
<1>11. CallsMove({c}, {})
  <2>1. \A d \in Slots \ {c} : Ages(calls'[d], calls[d], {})
    BY <1>10, AgesSelf, CallOf
  <2>2. \A f \in k.held : CopyRight(f)'
    <3> SUFFICES ASSUME NEW f \in k.held PROVE CopyRight(f)'
      OBVIOUS
    <3>1. CopyRight(f) /\ f.s \in Sessions
      BY <1>8, CallOf DEF EntryType
    <3> QED BY <1>5, <1>6, <3>1, CopyKept
  <2>3. OwnRight(c)
    BY <1>8, <1>10, <2>2 DEF OwnRight, StartsLate
  <2> QED BY <1>1, <1>10, <2>1, <2>3 DEF CallsMove, StillEnds
<1>12. Agree({})
  BY <1>4, <1>6 DEF Agree
<1>13. Joins({c})
  <2>1. Counted' \subseteq Counted
    <3> SUFFICES ASSUME NEW s \in Counted' PROVE s \in Counted
      OBVIOUS
    <3>1. s \in Sessions \ crossed' /\ s \notin extra' /\ s \in Active'
      BY DEF Counted, Active
    <3>2. SameRow(s) /\ s \notin crossed /\ s \notin extra
      BY <1>4, <1>5, <1>6, <3>1
    <3> QED BY <3>1, <3>2 DEF Counted, Active, SameRow, Known
  <2> QED BY <1>8, <1>10, <2>1, CallOf DEF Joins
<1>14. {e.s} \in SUBSET Sessions /\ {} \in SUBSET {e.s} /\ {c} \in SUBSET Slots
  BY <1>2
<1> QED BY <1>9, <1>11, <1>12, <1>13, <1>14, StepRight

-----------------------------------------------------------------------------
(* Steps that decide about one session. *)

\* The call c decides about s, and is k from then on; what calls hold of s is
\* outdated.  If s becomes active, so are the checks of the limit.
LEMMA CallDecides ==
  ASSUME SessionInv, NEW c \in Slots, NEW s \in Sessions, NEW k \in CallType, Fit(k),
         k.step # "starting", ~k.fresh,
         c \in Sessions => k.op \in {"none", "message", "kick"},
         \A e \in k.held : e.s = s \/ CopyRight(e),
         StillEnds(c, {s}),
         StoreOK', UNCHANGED <<profile, audit>>, crossed \subseteq crossed',
         \A q \in Sessions \ {s} : Steady(q), s \notin crossed' => Settling(s),
         \/ Counted' \subseteq Counted /\ calls' = Outdate([calls EXCEPT ![c] = k], {s})
         \/ Cardinality(Counted') <= Limit /\ calls' = Rejoin(Outdate([calls EXCEPT ![c] = k], {s}))
  PROVE  SessionInv'
<1> DEFINE cs == [calls EXCEPT ![c] = k]
<1>1. cs \in [Slots -> CallType] /\ cs[c] = k /\ \A d \in Slots \ {c} : cs[d] = calls[d]
  BY CallOf
<1>2. calls' = Outdate(cs, {s}) \/ calls' = Rejoin(Outdate(cs, {s}))
  OBVIOUS
<1>3. \A d \in Slots : Fit(cs[d])
  BY <1>1, CallOf
<1> HIDE DEF cs
<1>4. ASSUME NEW d \in Slots
      PROVE  Ages(calls'[d], cs[d], {s})
  <2>1. cs[d] \in CallType /\ Fit(cs[d])
    BY <1>1, <1>3
  <2>2. Aged(cs[d], {s}) \in CallType /\ Ages(Aged(cs[d], {s}), cs[d], {s})
    BY <2>1, AgesAged
  <2>3. Ages([Aged(cs[d], {s}) EXCEPT !.fresh = FALSE], cs[d], {s})
    BY <2>1, <2>2, AgesStale
  <2>4. /\ Outdate(cs, {s})[d] = Aged(cs[d], {s})
        /\ Rejoin(Outdate(cs, {s}))[d] = [Aged(cs[d], {s}) EXCEPT !.fresh = FALSE]
    BY DEF Outdate, Aged, Rejoin
  <2>5. calls'[d] = Aged(cs[d], {s}) \/ calls'[d] = [Aged(cs[d], {s}) EXCEPT !.fresh = FALSE]
    BY <1>2, <2>4
  <2> QED BY <2>2, <2>3, <2>5
<1>5. calls' \in [Slots -> CallType]
  <2>1. \A d \in Slots : calls'[d] \in CallType
    BY <1>4 DEF Ages
  <2>2. calls' = [d \in Slots |-> calls'[d]]
    BY <1>2 DEF Outdate, Rejoin
  <2> QED BY <2>1, <2>2
<1>6. Moves({s}) /\ Agree({s})
  BY DEF Moves, Agree, Steady
<1>7. \A e \in calls'[c].held : CopyRight(e)'
  <2> SUFFICES ASSUME NEW e \in calls'[c].held PROVE CopyRight(e)'
    OBVIOUS
  <2>1. PICK f \in k.held :
          e.s = f.s /\ e.row = f.row /\ (f.old => e.old) /\ (e.s \in {s} => e.old)
    BY <1>1, <1>4 DEF Ages
  <2>2. CASE f.s = s
    BY <2>1, <2>2 DEF CopyRight
  <2>3. CASE f.s # s
    <3>1. f.s \in Sessions \ {s}
      BY <2>3 DEF CallType, EntryType
    <3>2. SameRow(e.s)
      BY <2>1, <3>1 DEF Steady
    <3> QED BY <2>1, <2>3, <3>2, CopyKept
  <2> QED BY <2>2, <2>3
<1>8. CallsMove({c}, {s})
  <2>1. Ages(calls'[c], k, {s})
    BY <1>1, <1>4
  <2>2. OwnRight(c)
    BY <1>7, <2>1 DEF OwnRight, Ages, StartsLate
  <2> QED BY <1>1, <1>4, <1>5, <2>2 DEF CallsMove
<1>9. Joins({c})
  <2>1. ~calls'[c].fresh
    BY <1>1, <1>4 DEF Ages
  <2>2. CASE Counted' \subseteq Counted
    BY <2>1, <2>2 DEF Joins
  <2>3. CASE Cardinality(Counted') <= Limit /\ calls' = Rejoin(Outdate(cs, {s}))
    <3>1. \A d \in Slots : ~calls'[d].fresh
      <4> SUFFICES ASSUME NEW d \in Slots PROVE ~calls'[d].fresh
        OBVIOUS
      <4>1. cs[d] \in CallType /\ Fit(cs[d])
        BY <1>1, <1>3
      <4>2. Aged(cs[d], {s}) \in CallType /\ Ages(Aged(cs[d], {s}), cs[d], {s})
        BY <4>1, AgesAged
      <4>3. ~[Aged(cs[d], {s}) EXCEPT !.fresh = FALSE].fresh
        BY <4>1, <4>2, AgesStale
      <4>4. Rejoin(Outdate(cs, {s}))[d] = [Aged(cs[d], {s}) EXCEPT !.fresh = FALSE]
        BY DEF Outdate, Aged, Rejoin
      <4> QED BY <2>3, <4>3, <4>4
    <3> QED BY <2>3, <3>1 DEF Joins
  <2> QED BY <2>2, <2>3 DEF cs
<1>10. {s} \in SUBSET Sessions /\ {s} \in SUBSET {s} /\ {c} \in SUBSET Slots
  OBVIOUS
<1> QED BY <1>6, <1>8, <1>9, <1>10, StepRight

LEMMA CountedJoined ==
  ASSUME SessionInv, NEW s, Counted' \subseteq Counted \cup {s},
         Counted' \subseteq Counted \/ Cardinality(Counted) < Limit
  PROVE  Cardinality(Counted') <= Limit
<1>1. IsFiniteSet(Counted) /\ Cardinality(Counted) \in Nat /\ Cardinality(Counted') \in Nat
  BY CountedFinite
<1>2. Cardinality(Counted) <= Limit /\ Limit \in Nat
  BY SessionsAssumption DEF SessionInv, Limited
<1>3. CASE Counted' \subseteq Counted
  <2>1. Cardinality(Counted') <= Cardinality(Counted)
    BY <1>1, <1>3, FS_Subset
  <2> QED BY <1>1, <1>2, <2>1
<1>4. CASE Cardinality(Counted) < Limit
  <2>1. /\ IsFiniteSet(Counted \cup {s})
        /\ Cardinality(Counted \cup {s}) = Cardinality(Counted) \/ Cardinality(Counted \cup {s}) = Cardinality(Counted) + 1
    BY <1>1, FS_AddElement
  <2>2. Cardinality(Counted') <= Cardinality(Counted \cup {s})
    BY <2>1, FS_Subset
  <2> QED BY <1>1, <1>2, <1>4, <2>1, <2>2
<1> QED BY <1>3, <1>4

LEMMA InsertRight ==
  ASSUME SessionInv, Around, NEW c \in Slots, Insert(c)
  PROVE  SessionInv'
<1>0. PICK s : s = Mine(c).s
  OBVIOUS
<1>1. calls[c].step = "made" /\ s \in Sessions /\ StillEnds(c, {}) /\ StillEnds(c, {s})
  BY <1>0, CallOf DEF Insert, StillEnds
<1>2. calls[c].op \in {"create", "bind"} /\ c \notin Sessions
  BY <1>1, CallOf DEF Fit, AwaitsOf, CallType
<1>3. CASE Known(s) \/ ~MayDo(c, s)
  <2>1. Release(c) /\ UNCHANGED <<rows, dirs, decisionVars>>
    BY <1>0, <1>3 DEF Insert
  <2>2. Undecided
    BY <2>1, StoreStays DEF Insert, decisionVars, Around, SessionInv, SessionsOK
  <2> QED BY <1>1, <2>1, <2>2, CallReturns
<1>4. CASE ~(Known(s) \/ ~MayDo(c, s))
  <2>1. /\ rows' = [rows EXCEPT ![s] = NewRow]
        /\ dirs' = dirs \cup {s}
        /\ said' = [said EXCEPT ![s] = "active"]
        /\ asked' = [asked EXCEPT ![s] = autoDefault]
        /\ extra' = IF calls[c].fresh THEN extra ELSE extra \cup {s}
        /\ quiet' = quiet \ {s}
        /\ crossed' = IF s \in resources THEN crossed ELSE crossed \cup {s}
        /\ UNCHANGED <<resources, live, kicks>>
    BY <1>0, <1>4 DEF Insert
  <2>2. PICK kickoff \in BOOLEAN :
          /\ kickoff => calls[c].op = "create"
          /\ calls' = Rejoin(Outdate([calls EXCEPT ![c] =
                        IF kickoff THEN Call("create", "notice", {[Entry(s) EXCEPT !.row = NewRow]})
                        ELSE NoCall], {s}))
    <3>1. \E kickoff \in IF calls[c].op = "create" THEN BOOLEAN ELSE {FALSE} :
            calls' = Rejoin(Outdate([calls EXCEPT ![c] =
                       IF kickoff THEN Call("create", "notice", {[Entry(s) EXCEPT !.row = NewRow]})
                       ELSE NoCall], {s}))
      BY <1>0, <1>4 DEF Insert
    <3> QED BY <3>1
  <2>3. NewRow \in SessionRow /\ NewRow.auto = autoDefault /\ NewRow.life = "hot" /\ NewRow # Absent
    <3>1. autoDefault \in BOOLEAN /\ now \in 0..MaxTime
      BY DEF SessionInv, SessionsOK
    <3>2. NewRow \in SessionRow
      BY <3>1 DEF NewRow, SessionRow
    <3> QED BY <3>1, <3>2, SessionsAssumption DEF NewRow
  <2>4. PICK k \in CallType :
          /\ Fit(k) /\ k.step # "starting" /\ ~k.fresh
          /\ \A e \in k.held : e.s = s
          /\ calls' = Rejoin(Outdate([calls EXCEPT ![c] = k], {s}))
    <3>1. CASE kickoff
      <4> DEFINE e == [Entry(s) EXCEPT !.row = NewRow]
                 k == Call("create", "notice", {e})
      <4>1. e \in EntryType /\ e.s = s
        BY <1>1, <2>3, EntryIs DEF EntryType
      <4> HIDE DEF e
      <4>2. k \in CallType /\ k.op = "create" /\ k.step = "notice" /\ k.held = {e} /\ ~k.fresh
        BY <4>1, CallIs
      <4>3. calls' = Rejoin(Outdate([calls EXCEPT ![c] = k], {s}))
        BY <2>2, <3>1 DEF e
      <4> HIDE DEF k
      <4>4. Fit(k)
        BY <4>2, OneEntry DEF AwaitsOf
      <4> QED BY <4>1, <4>2, <4>3, <4>4
    <3>2. CASE ~kickoff
      BY <2>2, <3>2, NoCallIs
    <3> QED BY <3>1, <3>2
  <2> HIDE DEF NewRow
  <2>5. StoreOK'
    BY <1>1, <2>1, <2>3 DEF StoreOK, SessionInv, SessionsOK, Around
  <2>6. \A q \in Sessions \ {s} : Steady(q)
    BY <2>1 DEF Steady, SameRow, SessionInv, SessionsOK
  <2>7. s \notin crossed' => Settling(s)
    <3> SUFFICES ASSUME s \notin crossed' PROVE Decided(s)' /\ Ended(s)'
      BY DEF Settling
    <3>1. s \in resources' /\ s \notin quiet' /\ s \in dirs'
      BY <2>1
    <3>2. rows'[s] = NewRow /\ said'[s] = "active" /\ asked'[s] = autoDefault
      BY <1>1, <2>1 DEF SessionInv, SessionsOK
    <3> QED BY <2>3, <3>1, <3>2 DEF Decided, Ended, Known
  <2>8. Cardinality(Counted') <= Limit
    <3>1. Counted' \subseteq Counted \cup {s}
      BY <1>1, <2>1 DEF Counted, Active, Known, SessionInv, SessionsOK
    <3>2. CASE calls[c].fresh
      BY <1>1, <3>1, <3>2, CallOf, CountedJoined
    <3>3. CASE ~calls[c].fresh
      <4>1. s \notin Counted'
        BY <2>1, <3>3 DEF Counted
      <4> QED BY <3>1, <4>1, CountedJoined
    <3> QED BY <3>2, <3>3
  <2>9. UNCHANGED <<profile, audit>> /\ crossed \subseteq crossed'
    BY <2>1 DEF Around
  <2> QED BY <1>1, <1>2, <2>4, <2>5, <2>6, <2>7, <2>8, <2>9, CallDecides
<1> QED BY <1>3, <1>4

\* The provider session ends, and the call that ends it is about to write.
LEMMA EndProviderRight ==
  ASSUME SessionInv, Around, NEW c \in Slots, EndProvider(c)
  PROVE  SessionInv'
<1>0. PICK s : s = Mine(c).s
  OBVIOUS
<1>1. /\ calls[c].step = "guard" /\ calls[c].op \in {"archive", "delete", "drop", "forget"}
      /\ calls[c] \in CallType /\ Fit(calls[c]) /\ calls[c].held # {} /\ s \in Sessions
      /\ calls \in [Slots -> CallType] /\ c \notin Sessions
  BY <1>0, CallOf DEF EndProvider, Passed
<1>2. /\ live' = live \ {s} /\ quiet' = quiet \cup {s}
      /\ resources' \in IF calls[c].op = "delete" THEN {resources, resources \ {s}} ELSE {resources}
      /\ crossed' = IF Starting(s) \/ (calls[c].op = "delete" /\ s \in Active) THEN crossed \cup {s} ELSE crossed
      /\ calls' = [calls EXCEPT ![c].step = "cleanup"]
      /\ UNCHANGED <<rows, dirs, kicks, said, asked, extra>>
  BY <1>0 DEF EndProvider
<1> DEFINE k == [calls[c] EXCEPT !.step = "cleanup"]
<1>3. calls' = [calls EXCEPT ![c] = k]
  BY <1>1, <1>2
<1>4. "cleanup" \in AwaitsOf(calls[c].op)
  BY <1>1 DEF AwaitsOf
<1>5. /\ k \in CallType /\ Fit(k) /\ k.step = "cleanup" /\ k.op = calls[c].op
      /\ k.held = calls[c].held /\ k.fresh = calls[c].fresh
  BY <1>1, <1>4, SteppedIs
<1> HIDE DEF k
<1>6. calls' \in [Slots -> CallType] /\ calls'[c] = k /\ \A d \in Slots \ {c} : calls'[d] = calls[d]
  BY <1>1, <1>3, <1>5
<1>7. crossed \subseteq crossed' /\ \A q \in Sessions : SameRow(q)
  BY <1>2 DEF SameRow
<1>8. Ending(s)'
  <2>1. calls'[c].step = "cleanup" /\ First(calls'[c].held).s = s
    BY <1>0, <1>5, <1>6 DEF Mine
  <2> QED BY <2>1 DEF Ending, Mine
<1>9. Moves({s})
  <2>1. StoreOK'
    BY <1>1, <1>2 DEF StoreOK, SessionInv, SessionsOK, Around
  <2>2. \A q \in Sessions \ {s} : Steady(q)
    BY <1>2, <1>7 DEF Steady
  <2>3. s \notin crossed' => Settling(s)
    <3> SUFFICES ASSUME s \notin crossed' PROVE Decided(s)' /\ Ended(s)'
      BY DEF Settling
    <3>1. Decided(s) /\ (Known(s) /\ rows[s].life # "archived" => s \in resources')
      BY <1>1, <1>2, <1>7 DEF SessionInv, Decisions, Decided, Active
    <3>2. Decided(s)'
      BY <1>2, <3>1 DEF Decided, Known
    <3> QED BY <1>8, <3>2 DEF Ended
  <2> QED BY <1>7, <2>1, <2>2, <2>3 DEF Moves, Around
<1>10. Agree({})
  BY <1>2, <1>7 DEF Agree
<1>11. CallsMove({c}, {})
  <2>1. \A d \in Slots \ {c} : Ages(calls'[d], calls[d], {})
    BY <1>6, AgesSelf, CallOf
  <2>2. \A e \in k.held : CopyRight(e)'
    <3> SUFFICES ASSUME NEW e \in k.held PROVE CopyRight(e)'
      OBVIOUS
    <3>1. CopyRight(e) /\ e.s \in Sessions
      BY <1>5, CallOf DEF EntryType
    <3> QED BY <1>7, <3>1, CopyKept
  <2>3. OwnRight(c)
    BY <1>1, <1>5, <1>6, <2>2 DEF OwnRight, StartsLate
  <2> QED BY <1>1, <1>6, <2>1, <2>3 DEF CallsMove, StillEnds
<1>12. Joins({c})
  <2>1. Counted' \subseteq Counted
    BY <1>2 DEF Counted, Active, Known
  <2> QED BY <1>5, <1>6, <2>1, CallOf DEF Joins
<1>13. {s} \in SUBSET Sessions /\ {} \in SUBSET {s} /\ {c} \in SUBSET Slots
  BY <1>1
<1> QED BY <1>9, <1>10, <1>11, <1>12, <1>13, StepRight

LEMMA ArchiveRight ==
  ASSUME SessionInv, Around, NEW c \in Slots, ArchiveManagedSession(c)
  PROVE  SessionInv'
<1>0. PICK e : e = Mine(c)
  OBVIOUS
<1>1. calls[c].step = "cleanup" /\ calls[c].op = "archive"
  BY DEF ArchiveManagedSession, Cleaned
<1>2. e \in EntryType /\ e.s \in Sessions /\ CopyRight(e) /\ e.row # Absent
  BY <1>0, <1>1, CallOf DEF Fit
<1> DEFINE row == [e.row EXCEPT !.life = "archived", !.status = "closed"]
<1>3. /\ rows' = [rows EXCEPT ![e.s] = row]
      /\ said' = IF e.old THEN said ELSE [said EXCEPT ![e.s] = "archived"]
      /\ crossed' = IF e.old THEN crossed \cup {e.s} ELSE crossed
      /\ extra' = extra \ {e.s}
      /\ calls' = Outdate([calls EXCEPT ![c] = NoCall], {e.s})
      /\ UNCHANGED <<dirs, resources, live, kicks, asked, quiet>>
  BY <1>0 DEF ArchiveManagedSession
<1>4. e.row \in SessionRow
  BY <1>2 DEF EntryType
<1>5. row \in SessionRow /\ row.auto = e.row.auto /\ row.life = "archived" /\ row # Absent
  BY <1>4, SessionsAssumption DEF SessionRow
<1> HIDE DEF row
<1>6. StoreOK'
  BY <1>2, <1>3, <1>5 DEF StoreOK, SessionInv, SessionsOK, Around
<1>7. \A q \in Sessions \ {e.s} : Steady(q)
  BY <1>3 DEF Steady, SameRow, SessionInv, SessionsOK
<1>8. e.s \notin crossed' => Settling(e.s)
  <2> SUFFICES ASSUME e.s \notin crossed' PROVE Decided(e.s)' /\ Ended(e.s)'
    BY DEF Settling
  <2>1. ~e.old /\ e.s \notin crossed
    BY <1>3
  <2>2. Known(e.s) /\ e.row.auto = rows[e.s].auto /\ Decided(e.s)
    BY <1>2, <2>1 DEF CopyRight, SessionInv, Decisions
  <2>3. rows'[e.s] = row /\ said'[e.s] = "archived"
    BY <1>2, <1>3, <2>1 DEF SessionInv, SessionsOK
  <2>4. Decided(e.s)'
    BY <1>3, <1>5, <2>2, <2>3 DEF Decided, Known
  <2>5. Ended(e.s)'
    BY <1>5, <2>3 DEF Ended, Active
  <2> QED BY <2>4, <2>5
<1>9. Counted' \subseteq Counted
  BY <1>2, <1>3, <1>5 DEF Counted, Active, Known, SessionInv, SessionsOK
<1>10. StillEnds(c, {e.s}) /\ UNCHANGED <<profile, audit>> /\ crossed \subseteq crossed'
  BY <1>0, <1>3 DEF StillEnds, Around
<1> QED BY <1>2, <1>3, <1>6, <1>7, <1>8, <1>9, <1>10, NoCallIs, CallDecides

LEMMA RemovedRight ==
  ASSUME SessionInv, Around, NEW c \in Slots, NEW s \in Sessions, s = Mine(c).s, Known(s),
         NEW workspaceToo \in BOOLEAN, Removed(c, s, workspaceToo),
         UNCHANGED <<resources, live, kicks, asked, quiet, crossed>>
  PROVE  SessionInv'
<1>1. /\ rows' = [rows EXCEPT ![s] = Absent] /\ said' = [said EXCEPT ![s] = "deleted"]
      /\ dirs' \subseteq Sessions /\ dirs \ {s} \subseteq dirs' /\ extra' = extra \ {s}
      /\ calls' = Outdate([calls EXCEPT ![c] = NoCall], {s})
  BY DEF Removed, SessionInv, SessionsOK
<1>2. StoreOK'
  BY <1>1 DEF StoreOK, SessionInv, SessionsOK, Around
<1>3. \A q \in Sessions \ {s} : Steady(q)
  BY <1>1 DEF Steady, SameRow, SessionInv, SessionsOK
<1>4. s \notin crossed' => Settling(s)
  <2> SUFFICES ASSUME s \notin crossed' PROVE Decided(s)' /\ Ended(s)'
    BY DEF Settling
  <2>1. rows'[s] = Absent /\ said'[s] = "deleted" /\ Decided(s)
    BY <1>1 DEF SessionInv, SessionsOK, Decisions
  <2> QED BY <2>1 DEF Decided, Known, Ended, Active
<1>5. Counted' \subseteq Counted
  BY <1>1 DEF Counted, Active, Known, SessionInv, SessionsOK
<1>6. StillEnds(c, {s}) /\ UNCHANGED <<profile, audit>> /\ crossed \subseteq crossed'
  BY DEF StillEnds, Around
<1> QED BY <1>1, <1>2, <1>3, <1>4, <1>5, <1>6, NoCallIs, CallDecides

LEMMA DeleteRight ==
  ASSUME SessionInv, Around, NEW c \in Slots, DeleteManagedSession(c)
  PROVE  SessionInv'
<1>0. PICK s : s = Mine(c).s
  OBVIOUS
<1>1. s \in Sessions
  BY <1>0, CallOf DEF DeleteManagedSession, Cleaned
<1>2. CASE Known(s) /\ rows[s].life = "archived"
  BY <1>0, <1>1, <1>2, RemovedRight DEF DeleteManagedSession
<1>3. CASE ~(Known(s) /\ rows[s].life = "archived")
  <2>1. Release(c) /\ crossed' = crossed \cup {s} /\ UNCHANGED <<rows, dirs, said, extra>>
    BY <1>0, <1>3 DEF DeleteManagedSession
  <2>2. Undecided
    BY <1>1, <2>1, StoreStays DEF DeleteManagedSession, Around, SessionInv, SessionsOK
  <2> QED BY <1>0, <2>1, <2>2, CallReturns DEF StillEnds
<1> QED BY <1>2, <1>3

LEMMA DeleteNowRight ==
  ASSUME SessionInv, Around, NEW c \in Slots, DeleteManagedSessionNow(c)
  PROVE  SessionInv'
<1>0. PICK s : s = Mine(c).s
  OBVIOUS
<1>1. s \in Sessions
  BY <1>0, CallOf DEF DeleteManagedSessionNow, Cleaned
<1>2. CASE Known(s)
  BY <1>0, <1>1, <1>2, RemovedRight DEF DeleteManagedSessionNow
<1>3. CASE ~Known(s)
  <2>1. Release(c) /\ UNCHANGED <<rows, dirs, said, extra>>
    BY <1>0, <1>3 DEF DeleteManagedSessionNow
  <2>2. Undecided
    BY <2>1, StoreStays DEF DeleteManagedSessionNow, Around, SessionInv, SessionsOK
  <2> QED BY <1>0, <1>3, <2>1, <2>2, CallReturns DEF StillEnds
<1> QED BY <1>2, <1>3

LEMMA ResumeRight ==
  ASSUME SessionInv, Around, NEW c \in Slots, ResumeManagedSession(c)
  PROVE  SessionInv'
<1>0. PICK s : s = Mine(c).s
  OBVIOUS
<1>1. calls[c].step = "guard" /\ s \in Sessions /\ StillEnds(c, {}) /\ StillEnds(c, {s})
  BY <1>0, CallOf DEF ResumeManagedSession, Passed, StillEnds
<1>2. CASE ~Known(s)
  <2>1. Release(c) /\ UNCHANGED <<rows, decisionVars>>
    BY <1>0, <1>2 DEF ResumeManagedSession
  <2>2. Undecided
    BY <2>1, StoreStays DEF ResumeManagedSession, decisionVars, Around, SessionInv, SessionsOK
  <2> QED BY <1>1, <2>1, <2>2, CallReturns
<1>3. CASE Known(s)
  <2> DEFINE row == [life |-> "hot", auto |-> TRUE, seen |-> now,
                     status |-> IF rows[s].status = "closed" THEN "connecting" ELSE rows[s].status]
  <2>1. /\ rows' = [rows EXCEPT ![s] = row]
        /\ said' = [said EXCEPT ![s] = "active"] /\ asked' = [asked EXCEPT ![s] = TRUE]
        /\ quiet' = quiet \ {s}
        /\ extra' = IF s \in Active THEN extra ELSE extra \cup {s}
        /\ crossed' = IF s \in resources THEN crossed ELSE crossed \cup {s}
        /\ calls' = Rejoin(Outdate([calls EXCEPT ![c] = NoCall], {s}))
        /\ UNCHANGED <<dirs, resources, live, kicks>>
    BY <1>0, <1>3 DEF ResumeManagedSession
  <2>2. row \in SessionRow /\ row.auto = TRUE /\ row.life = "hot" /\ row # Absent
    <3>1. rows[s] \in SessionRow /\ now \in 0..MaxTime
      BY <1>1, <1>3 DEF Known, SessionInv, SessionsOK
    <3>2. row \in SessionRow
      BY <3>1 DEF SessionRow
    <3> QED BY <3>2, SessionsAssumption
  <2> HIDE DEF row
  <2>3. StoreOK'
    BY <1>1, <2>1, <2>2 DEF StoreOK, SessionInv, SessionsOK, Around
  <2>4. \A q \in Sessions \ {s} : Steady(q)
    BY <2>1 DEF Steady, SameRow, SessionInv, SessionsOK
  <2>5. s \notin crossed' => Settling(s)
    <3> SUFFICES ASSUME s \notin crossed' PROVE Decided(s)' /\ Ended(s)'
      BY DEF Settling
    <3>1. s \in resources' /\ s \notin quiet' /\ s \notin crossed
      BY <2>1
    <3>2. s \in dirs'
      BY <1>1, <1>3, <2>1, <3>1 DEF SessionInv, Decisions, Decided
    <3>3. rows'[s] = row /\ said'[s] = "active" /\ asked'[s] = TRUE
      BY <1>1, <2>1 DEF SessionInv, SessionsOK
    <3> QED BY <2>2, <3>1, <3>2, <3>3 DEF Decided, Ended, Known
  <2>6. Cardinality(Counted') <= Limit
    <3>1. Counted' \subseteq Counted
      BY <1>1, <2>1 DEF Counted, Active, Known, SessionInv, SessionsOK
    <3> QED BY <3>1, CountedJoined
  <2>7. UNCHANGED <<profile, audit>> /\ crossed \subseteq crossed'
    BY <2>1 DEF Around
  <2> QED BY <1>1, <2>1, <2>3, <2>4, <2>5, <2>6, <2>7, NoCallIs, CallDecides
<1> QED BY <1>2, <1>3

-----------------------------------------------------------------------------
(* The tick, and what is asked of the provider sessions. *)

\* A call about several sessions holds one entry of each.
LEMMA EntriesOf ==
  ASSUME SessionInv, NEW S \in SUBSET Active, NEW op \in {"sweep", "start"}, S # {}
  PROVE  LET k == Call(op, "next", {Entry(s) : s \in S})
         IN /\ k \in CallType /\ Fit(k) /\ k.op = op /\ k.step = "next" /\ ~k.fresh
            /\ k.held = {Entry(s) : s \in S} /\ \A e \in k.held : CopyRight(e) /\ e.row # Absent
<1> DEFINE held == {Entry(s) : s \in S}
           k == Call(op, "next", held)
<1>1. \A s \in S : /\ Entry(s) \in EntryType /\ CopyRight(Entry(s)) /\ Entry(s).s = s
                   /\ Entry(s).row # Absent
  BY EntryIs DEF Active, Known
<1>2. \A e \in held : \E s \in S : e = Entry(s)
  OBVIOUS
<1>3. held \in SUBSET EntryType /\ held # {}
  BY <1>1
<1>4. \A e \in held : CopyRight(e) /\ e.row # Absent
  BY <1>1, <1>2
<1>5. \A e, f \in held : e.s = f.s => e = f
  BY <1>1, <1>2
<1>6. k \in CallType /\ k.op = op /\ k.step = "next" /\ k.held = held /\ ~k.fresh
  BY <1>3, CallIs
<1> HIDE DEF k, held
<1>7. Fit(k)
  BY <1>3, <1>4, <1>5, <1>6 DEF Fit, AwaitsOf
<1> QED BY <1>4, <1>6, <1>7 DEF k, held

LEMMA SweepRight ==
  ASSUME SessionInv, Around, NEW c \in Calls, Sweep(c)
  PROVE  SessionInv'
<1> DEFINE S == {q \in Sessions : Idle(q, ArchiveAfter)}
           due == {Entry(s) : s \in S}
<1>1. c \in Slots /\ c \notin Sessions /\ calls[c].op = "none"
  BY SlotsAre DEF Slots, Sweep, Free
<1>2. StillEnds(c, {})
  BY <1>1, CallOf DEF StillEnds, Fit, AwaitsOf
<1>3. /\ rows' = [s \in Sessions |-> IF Idle(s, CoolAfter) /\ ~Idle(s, ArchiveAfter)
                                     THEN [rows[s] EXCEPT !.life = "cool"] ELSE rows[s]]
      /\ calls' = [calls EXCEPT ![c] = IF due = {} THEN NoCall ELSE Call("sweep", "next", due)]
  BY DEF Sweep, Set
<1>4. ASSUME NEW s \in Sessions
      PROVE  rows'[s] \in SessionRow \cup {Absent} /\ SameRow(s)
  <2>1. CASE Idle(s, CoolAfter) /\ ~Idle(s, ArchiveAfter)
    <3>1. Known(s) /\ rows[s].life # "archived" /\ rows[s] \in SessionRow
      BY <2>1 DEF Idle, Active, Known, SessionInv, SessionsOK
    <3> DEFINE row == [rows[s] EXCEPT !.life = "cool"]
    <3>2. row \in SessionRow /\ row.auto = rows[s].auto /\ row.life = "cool" /\ row # Absent
      BY <3>1, SessionsAssumption DEF SessionRow
    <3>3. rows'[s] = row
      BY <1>3, <2>1
    <3> HIDE DEF row
    <3> QED BY <3>1, <3>2, <3>3 DEF SameRow, Known
  <2>2. CASE ~(Idle(s, CoolAfter) /\ ~Idle(s, ArchiveAfter))
    <3>1. rows'[s] = rows[s]
      BY <1>3, <2>2
    <3> QED BY <3>1 DEF SameRow, SessionInv, SessionsOK
  <2> QED BY <2>1, <2>2
<1>5. rows' \in [Sessions -> SessionRow \cup {Absent}] /\ \A s \in Sessions : SameRow(s)
  BY <1>3, <1>4
<1>6. Undecided
  BY <1>5, UntouchedIs DEF Sweep, decisionVars, Around, SessionInv, SessionsOK
<1>7. CASE due = {}
  BY <1>1, <1>2, <1>3, <1>6, <1>7, CallReturns DEF Release, Set
<1>8. CASE due # {}
  <2>1. S \in SUBSET Active /\ S # {}
    BY <1>8 DEF Idle
  <2> DEFINE k == Call("sweep", "next", due)
  <2> HIDE DEF S
  <2>2. /\ k \in CallType /\ Fit(k) /\ k.op = "sweep" /\ k.step = "next" /\ ~k.fresh
        /\ \A e \in k.held : CopyRight(e)
    BY <2>1, EntriesOf
  <2>3. calls' = [calls EXCEPT ![c] = k]
    BY <1>3, <1>8 DEF S
  <2> HIDE DEF k
  <2> QED BY <1>1, <1>2, <1>6, <2>2, <2>3, CallGoesOn
<1> QED BY <1>7, <1>8

LEMMA SweepNextRight ==
  ASSUME SessionInv, Around, NEW c \in Slots, SweepNext(c)
  PROVE  SessionInv'
<1>0. PICK e : e = Mine(c)
  OBVIOUS
<1> DEFINE rest == calls[c].held \ {e}
<1>1. /\ calls[c].op = "sweep" /\ calls[c].step = "next" /\ calls[c] \in CallType /\ Fit(calls[c])
      /\ c \notin Sessions
  <2>1. calls[c].op = "sweep" /\ calls[c] \in CallType /\ Fit(calls[c])
    BY CallOf DEF SweepNext
  <2> QED BY <2>1, CallOf DEF Fit, AwaitsOf
<1>2. e \in calls[c].held /\ e \in EntryType /\ e.s \in Sessions
  BY <1>0, <1>1, CallOf
<1>3. StillEnds(c, {}) /\ StillEnds(c, {e.s})
  BY <1>1 DEF StillEnds
<1>4. PICK k \in CallType :
        /\ k = IF rest = {} THEN NoCall ELSE Call("sweep", "next", rest)
        /\ Fit(k) /\ k.step # "starting" /\ ~k.fresh /\ \A f \in k.held : CopyRight(f)
  <2>1. CASE rest = {}
    BY <2>1, NoCallIs
  <2>2. CASE rest # {}
    <3> DEFINE k == Call("sweep", "next", rest)
    <3>1. rest \in SUBSET EntryType /\ \A f \in rest : CopyRight(f) /\ f.row # Absent
      BY <1>1, CallOf DEF Fit
    <3>2. k \in CallType /\ k.op = "sweep" /\ k.step = "next" /\ k.held = rest /\ ~k.fresh
      BY <3>1, CallIs
    <3>3. k = IF rest = {} THEN NoCall ELSE Call("sweep", "next", rest)
      BY <2>2
    <3> HIDE DEF k
    <3>4. Fit(k)
      BY <1>1, <2>2, <3>1, <3>2 DEF Fit, AwaitsOf
    <3> QED BY <3>1, <3>2, <3>3, <3>4
  <2> QED BY <2>1, <2>2
<1>5. CASE e.s \in Active
  <2>1. /\ rows' = [rows EXCEPT ![e.s].life = "archived"]
        /\ said' = [said EXCEPT ![e.s] = "archived"]
        /\ extra' = extra \ {e.s}
        /\ calls' = Outdate([calls EXCEPT ![c] = k], {e.s})
        /\ UNCHANGED <<dirs, resources, live, kicks, asked, quiet, crossed>>
    BY <1>0, <1>4, <1>5 DEF SweepNext
  <2> DEFINE row == [rows[e.s] EXCEPT !.life = "archived"]
  <2>2. rows[e.s] \in SessionRow
    BY <1>5 DEF Active, Known, SessionInv, SessionsOK
  <2>3. row \in SessionRow /\ row.auto = rows[e.s].auto /\ row.life = "archived" /\ row # Absent
    BY <2>2, SessionsAssumption DEF SessionRow
  <2>4. rows' = [rows EXCEPT ![e.s] = row]
    BY <2>1
  <2> HIDE DEF row
  <2>5. StoreOK'
    BY <1>2, <2>1, <2>3, <2>4 DEF StoreOK, SessionInv, SessionsOK, Around
  <2>6. \A q \in Sessions \ {e.s} : Steady(q)
    BY <2>1, <2>4 DEF Steady, SameRow, SessionInv, SessionsOK
  <2>7. e.s \notin crossed' => Settling(e.s)
    <3> SUFFICES ASSUME e.s \notin crossed' PROVE Decided(e.s)' /\ Ended(e.s)'
      BY DEF Settling
    <3>1. Decided(e.s) /\ Known(e.s)
      BY <1>2, <1>5, <2>1 DEF SessionInv, Decisions, Active
    <3>2. rows'[e.s] = row /\ said'[e.s] = "archived"
      BY <1>2, <2>1, <2>4 DEF SessionInv, SessionsOK
    <3>3. Decided(e.s)'
      BY <2>1, <2>3, <3>1, <3>2 DEF Decided, Known
    <3>4. Ended(e.s)'
      BY <2>3, <3>2 DEF Ended, Active
    <3> QED BY <3>3, <3>4
  <2>8. Counted' \subseteq Counted
    BY <1>2, <2>1, <2>3, <2>4 DEF Counted, Active, Known, SessionInv, SessionsOK
  <2>9. UNCHANGED <<profile, audit>> /\ crossed \subseteq crossed'
    BY <2>1 DEF Around
  <2> QED BY <1>1, <1>2, <1>3, <1>4, <2>1, <2>5, <2>6, <2>7, <2>8, <2>9, CallDecides
<1>6. CASE e.s \notin Active
  <2>1. calls' = [calls EXCEPT ![c] = k] /\ UNCHANGED <<rows, said, extra>>
    BY <1>0, <1>4, <1>6 DEF SweepNext
  <2>2. Undecided
    BY <2>1, StoreStays DEF SweepNext, Around, SessionInv, SessionsOK
  <2> QED BY <1>1, <1>3, <1>4, <2>1, <2>2, CallGoesOn
<1> QED BY <1>5, <1>6

\* Sessions are stopped: those that run are ended.
LEMMA StopsRight ==
  ASSUME SessionInv, NEW S \in SUBSET Sessions, \A s \in S : Known(s), Stopped(S),
         live' \subseteq live \ S, quiet' = quiet \cup S, autoDefault' \in BOOLEAN,
         UNCHANGED <<now, profile, audit, dirs, resources, kicks, said, crossed, extra>>
  PROVE  SessionInv'
<1>1. /\ rows' = [s \in Sessions |-> IF s \in S /\ Known(s)
                                     THEN [rows[s] EXCEPT !.auto = FALSE, !.status = "closed"] ELSE rows[s]]
      /\ asked' = [s \in Sessions |-> asked[s] /\ s \notin S]
      /\ calls' = Outdate(calls, S)
  BY DEF Stopped
<1>2. ASSUME NEW s \in Sessions
      PROVE  /\ rows'[s] \in SessionRow \cup {Absent}
             /\ rows'[s] = Absent <=> rows[s] = Absent
             /\ rows[s] # Absent => (rows'[s].life = "archived" <=> rows[s].life = "archived")
             /\ s \in S => ~rows'[s].auto
             /\ s \notin S => rows'[s] = rows[s]
  <2>1. rows[s] \in SessionRow \cup {Absent}
    BY DEF SessionInv, SessionsOK
  <2>2. CASE s \in S
    <3> DEFINE row == [rows[s] EXCEPT !.auto = FALSE, !.status = "closed"]
    <3>1. rows[s] \in SessionRow
      BY <2>1, <2>2 DEF Known
    <3>2. row \in SessionRow /\ row.life = rows[s].life /\ row # Absent
      BY <3>1, SessionsAssumption DEF SessionRow
    <3>3. ~row.auto
      BY <3>1 DEF SessionRow
    <3>4. rows'[s] = row
      BY <1>1, <2>2
    <3> HIDE DEF row
    <3> QED BY <2>2, <3>2, <3>3, <3>4 DEF Known
  <2>3. CASE s \notin S
    BY <1>1, <2>1, <2>3
  <2> QED BY <2>2, <2>3
<1>3. asked' \in [Sessions -> BOOLEAN] /\ \A s \in Sessions : asked'[s] <=> asked[s] /\ s \notin S
  BY <1>1
<1>4. rows' \in [Sessions -> SessionRow \cup {Absent}]
  BY <1>1, <1>2
<1>5. Moves(S)
  <2>1. StoreOK'
    BY <1>3, <1>4 DEF StoreOK, SessionInv, SessionsOK
  <2>2. \A s \in Sessions \ (S \cup crossed') : Steady(s)
    <3> SUFFICES ASSUME NEW s \in Sessions \ S PROVE Steady(s)
      OBVIOUS
    <3>1. rows'[s] = rows[s]
      BY <1>2
    <3>2. asked'[s] = asked[s]
      BY <1>1 DEF SessionInv, SessionsOK
    <3> QED BY <3>1, <3>2 DEF Steady, SameRow
  <2>3. ASSUME NEW s \in S \ crossed' PROVE Settling(s)
    <3>1. Decided(s) /\ Known(s) /\ s \in Sessions
      BY DEF SessionInv, Decisions
    <3>2. Known(s)' /\ ~rows'[s].auto /\ ~asked'[s] /\ s \notin live'
      BY <1>2, <1>3, <3>1 DEF Known
    <3>3. rows'[s].auto = asked'[s]
      <4>1. rows'[s] \in SessionRow
        BY <1>2, <3>1, <3>2 DEF Known
      <4>2. rows'[s].auto \in BOOLEAN /\ asked'[s] \in BOOLEAN
        BY <1>3, <3>1, <4>1 DEF SessionRow
      <4> QED BY <3>2, <4>2
    <3>4. Decided(s)'
      BY <1>2, <3>1, <3>2, <3>3 DEF Decided, Known
    <3> QED BY <3>2, <3>4 DEF Settling, Ended
  <2> QED BY <2>1, <2>2, <2>3 DEF Moves
<1>6. Agree(S)
  BY <1>2 DEF Agree, SameRow
<1>7. CallsMove({}, S)
  <2>1. ASSUME NEW c \in Slots PROVE Ages(calls'[c], calls[c], S) /\ calls'[c] \in CallType
    <3>1. calls \in [Slots -> CallType] /\ calls[c] \in CallType /\ Fit(calls[c])
      BY CallOf
    <3>2. calls'[c] = Aged(calls[c], S)
      BY <1>1, <3>1, OutdateIs
    <3> QED BY <3>1, <3>2, AgesAged
  <2>2. calls' = [c \in Slots |-> calls'[c]]
    BY <1>1 DEF Outdate
  <2> QED BY <2>1, <2>2 DEF CallsMove
<1>8. Joins({})
  BY <1>2 DEF Joins, Counted, Active, Known
<1> QED BY <1>5, <1>6, <1>7, <1>8, StepRight

LEMMA StopRight ==
  ASSUME SessionInv, UNCHANGED <<now, profile, audit>>, NEW s \in Sessions, StopSession(s)
  PROVE  SessionInv'
<1>1. autoDefault' \in BOOLEAN /\ live' \subseteq live \ {s}
  BY DEF StopSession, SessionInv, SessionsOK
<1> QED BY <1>1, StopsRight DEF StopSession

LEMMA StopAllRight ==
  ASSUME SessionInv, UNCHANGED <<now, profile, audit>>, StopAllSessions
  PROVE  SessionInv'
<1>1. Active \in SUBSET Sessions /\ (\A s \in Active : Known(s)) /\ live' \subseteq live \ Active
  BY DEF Active, StopAllSessions
<1> QED BY <1>1, StopsRight DEF StopAllSessions

\* The next of the sessions that a call K starts is written as it was listed.
LEMMA StartNextRight ==
  ASSUME SessionInv, NEW c \in Slots, c \notin Sessions, calls[c].step # "cleanup",
         NEW K \in CallType, Fit(K), K.op = "start", \A f \in K.held : CopyRight(f),
         NEW cs \in [Slots -> CallType], cs[c] = K, \A d \in Slots \ {c} : cs[d] = calls[d],
         NEW e \in K.held, \A f \in K.held : e.s <= f.s,
         StartNext(c, e, cs), autoDefault' \in BOOLEAN, UNCHANGED <<now, profile, audit>>
  PROVE  SessionInv'
<1> DEFINE others == {f \in K.held : f.s # e.s}
           entry == [e EXCEPT !.row = Wanted(e.row)]
           step == IF e.s \in live THEN "next" ELSE "starting"
           remaining == IF e.s \in live THEN others ELSE others \cup {entry}
           row == Wanted(e.row)
<1>1. /\ e \in EntryType /\ e.s \in Sessions /\ CopyRight(e) /\ e.row \in SessionRow
      /\ K.held \in SUBSET EntryType
  BY DEF CallType, EntryType, Fit
<1>2. row \in SessionRow /\ row.auto = TRUE /\ row.life = e.row.life /\ row # Absent
  BY <1>1, SessionsAssumption DEF Wanted, SessionRow
<1>3. entry \in EntryType /\ entry.s = e.s /\ entry.row = row /\ entry.old = e.old
  BY <1>1, <1>2 DEF EntryType
<1>4. /\ rows' = [rows EXCEPT ![e.s] = row]
      /\ asked' = IF e.old THEN asked ELSE [asked EXCEPT ![e.s] = TRUE]
      /\ quiet' = IF e.old THEN quiet ELSE quiet \ {e.s}
      /\ crossed' = IF e.old THEN crossed \cup {e.s} ELSE crossed
      /\ UNCHANGED <<dirs, resources, live, kicks, said, extra>>
  BY DEF StartNext
<1>5. calls' = [Outdate(cs, {e.s}) EXCEPT ![c] =
                  IF remaining = {} THEN NoCall ELSE Call("start", step, remaining)]
  BY DEF StartNext
<1> HIDE DEF entry, row
<1>6. /\ remaining \in SUBSET EntryType /\ \A f \in remaining : f.row # Absent /\ f.s \in Sessions
      /\ \A f, g \in remaining : f.s = g.s => f = g
  BY <1>1, <1>2, <1>3 DEF Fit, EntryType
<1>7. PICK k \in CallType :
        /\ k = IF remaining = {} THEN NoCall ELSE Call("start", step, remaining)
        /\ Fit(k) /\ k.held = remaining /\ ~k.fresh
        /\ k.step = "starting" => e.s \notin live /\ k.op = "start"
  <2>1. CASE remaining = {}
    BY <2>1, NoCallIs
  <2>2. CASE remaining # {}
    <3> DEFINE k == Call("start", step, remaining)
    <3>1. step \in {"next", "starting"} /\ (step = "starting" => e.s \notin live)
      OBVIOUS
    <3> HIDE DEF step, remaining
    <3>2. k \in CallType /\ k.op = "start" /\ k.step = step /\ k.held = remaining /\ ~k.fresh
      BY <1>6, <3>1, CallIs
    <3> HIDE DEF k
    <3>3. Fit(k)
      BY <1>6, <2>2, <3>1, <3>2 DEF Fit, AwaitsOf
    <3> QED BY <2>2, <3>1, <3>2, <3>3 DEF k
  <2> QED BY <2>1, <2>2
<1>8. Outdate(cs, {e.s}) = [d \in Slots |-> Aged(cs[d], {e.s})]
  BY DEF Outdate, Aged
<1>9. calls'[c] = k /\ \A d \in Slots \ {c} : calls'[d] = Aged(calls[d], {e.s})
  BY <1>5, <1>7, <1>8
<1>10. \A d \in Slots \ {c} : calls'[d] \in CallType /\ Ages(calls'[d], calls[d], {e.s})
  <2> SUFFICES ASSUME NEW d \in Slots \ {c}
               PROVE  calls'[d] \in CallType /\ Ages(calls'[d], calls[d], {e.s})
    OBVIOUS
  <2>1. calls[d] \in CallType /\ Fit(calls[d])
    BY CallOf
  <2>2. Aged(calls[d], {e.s}) \in CallType /\ Ages(Aged(calls[d], {e.s}), calls[d], {e.s})
    BY <2>1, AgesAged
  <2>3. calls'[d] = Aged(calls[d], {e.s})
    BY <1>9
  <2> QED BY <2>2, <2>3
<1>11. calls' \in [Slots -> CallType]
  <2>1. calls' = [d \in Slots |-> calls'[d]]
    BY <1>5, <1>8
  <2>2. \A d \in Slots : calls'[d] \in CallType
    BY <1>9, <1>10
  <2> QED BY <2>1, <2>2
<1>12. crossed \subseteq crossed' /\ \A s \in Sessions \ {e.s} : Steady(s)
  BY <1>4 DEF Steady, SameRow, SessionInv, SessionsOK
<1>13. Moves({e.s})
  <2>1. StoreOK'
    BY <1>1, <1>2, <1>4 DEF StoreOK, SessionInv, SessionsOK
  <2>2. e.s \notin crossed' => Settling(e.s)
    <3> SUFFICES ASSUME e.s \notin crossed' PROVE Decided(e.s)' /\ Ended(e.s)'
      BY DEF Settling
    <3>1. ~e.old /\ e.s \notin crossed /\ e.s \notin quiet'
      BY <1>4
    <3>2. Decided(e.s) /\ Known(e.s) /\ (e.row.life = "archived" <=> rows[e.s].life = "archived")
      BY <1>1, <3>1, SessionsAssumption DEF SessionInv, Decisions, CopyRight
    <3>3. rows'[e.s] = row /\ asked'[e.s] = TRUE
      BY <1>1, <1>4, <3>1 DEF SessionInv, SessionsOK
    <3>4. Decided(e.s)'
      BY <1>2, <1>4, <3>1, <3>2, <3>3 DEF Decided, Known
    <3> QED BY <3>1, <3>4 DEF Ended
  <2> QED BY <1>12, <2>1, <2>2 DEF Moves
<1>14. Agree({e.s})
  BY <1>12 DEF Agree, Steady
<1>15. ASSUME NEW f \in k.held
       PROVE  CopyRight(f)'
  <2>1. CASE f \in others
    <3>1. CopyRight(f) /\ f.s \in Sessions \ {e.s}
      BY <1>1, <2>1 DEF EntryType
    <3>2. SameRow(f.s)
      BY <1>12, <3>1 DEF Steady
    <3> QED BY <1>12, <3>1, <3>2, CopyKept
  <2>2. CASE f = entry
    <3>1. rows'[e.s] = row
      BY <1>1, <1>4 DEF SessionInv, SessionsOK
    <3> QED BY <1>2, <1>3, <2>2, <3>1 DEF CopyRight, Known
  <2> QED BY <1>7, <2>1, <2>2
<1>16. StartsLate(c)'
  <2>0. PICK g : g = First(k.held)
    OBVIOUS
  <2> SUFFICES ASSUME k.step = "starting" PROVE ~g.old => g.s \notin quiet'
    BY <1>9, <2>0 DEF StartsLate, Mine
  <2>1. entry \in remaining
    BY <1>7
  <2>2. \A f \in remaining : entry.s <= f.s
    BY <1>1, <1>3 DEF EntryType
  <2>3. g = entry
    <3> HIDE DEF remaining
    <3> QED BY <1>6, <1>7, <2>0, <2>1, <2>2, FirstAlone
  <2> QED BY <1>3, <1>4, <2>3
<1>17. CallsMove({c}, {e.s})
  <2>1. OwnRight(c)
    BY <1>7, <1>9, <1>15, <1>16 DEF OwnRight
  <2> QED BY <1>10, <1>11, <2>1 DEF CallsMove, StillEnds
<1>18. Joins({c})
  <2>1. Counted' \subseteq Counted
    <3> SUFFICES ASSUME NEW s \in Counted' PROVE s \in Counted
      OBVIOUS
    <3>1. s \in Sessions /\ s \notin crossed' /\ s \notin extra /\ s \notin crossed
          /\ rows'[s] # Absent /\ rows'[s].life # "archived"
      BY <1>4, <1>12 DEF Counted, Active, Known
    <3>2. CASE s = e.s
      <4>1. ~e.old /\ rows'[s] = row
        BY <1>1, <1>4, <3>1, <3>2 DEF SessionInv, SessionsOK
      <4>2. Known(s) /\ rows[s].life # "archived"
        BY <1>1, <1>2, <3>1, <3>2, <4>1, SessionsAssumption DEF CopyRight
      <4> QED BY <3>1, <4>2 DEF Counted, Active
    <3>3. CASE s # e.s
      BY <1>4, <3>1, <3>3 DEF Counted, Active, Known, SessionInv, SessionsOK
    <3> QED BY <3>2, <3>3
  <2> QED BY <1>7, <1>9, <2>1 DEF Joins
<1>19. {e.s} \in SUBSET Sessions /\ {e.s} \in SUBSET {e.s} /\ {c} \in SUBSET Slots
  BY <1>1
<1> QED BY <1>13, <1>14, <1>17, <1>18, <1>19, StepRight

\* A start that is called for now.
LEMMA StartCalledRight ==
  ASSUME SessionInv, UNCHANGED <<now, profile, audit>>, autoDefault' \in BOOLEAN,
         NEW c \in Calls, Free(c), NEW K \in CallType, Fit(K), K.op = "start",
         \A f \in K.held : CopyRight(f),
         NEW e \in K.held, \A f \in K.held : e.s <= f.s,
         StartNext(c, e, [calls EXCEPT ![c] = K])
  PROVE  SessionInv'
<1> DEFINE cs == [calls EXCEPT ![c] = K]
<1>1. c \in Slots /\ c \notin Sessions /\ calls[c].op = "none"
  BY SlotsAre DEF Slots, Free
<1>2. calls[c].step # "cleanup"
  BY <1>1, CallOf DEF Fit, AwaitsOf
<1>3. cs \in [Slots -> CallType] /\ cs[c] = K /\ \A d \in Slots \ {c} : cs[d] = calls[d]
  BY <1>1, CallOf
<1>4. StartNext(c, e, cs)
  OBVIOUS
<1> HIDE DEF cs
<1> QED BY <1>1, <1>2, <1>3, <1>4, StartNextRight

LEMMA StartRight ==
  ASSUME SessionInv, UNCHANGED <<now, profile, audit>>,
         NEW c \in Calls, NEW s \in Sessions, StartSession(c, s)
  PROVE  SessionInv'
<1> DEFINE e == Entry(s)
           K == Call("start", "next", {e})
<1>1. e \in EntryType /\ e.s = s /\ CopyRight(e) /\ e.row # Absent
  BY EntryIs DEF StartSession, Known
<1>2. StartNext(c, e, [calls EXCEPT ![c] = K]) /\ Free(c) /\ autoDefault' \in BOOLEAN
  BY DEF StartSession, SessionInv, SessionsOK
<1> HIDE DEF e
<1>3. K \in CallType /\ K.op = "start" /\ K.step = "next" /\ K.held = {e} /\ ~K.fresh
  BY <1>1, CallIs
<1> HIDE DEF K
<1>4. Fit(K)
  BY <1>1, <1>3, OneEntry DEF AwaitsOf
<1>5. e \in K.held /\ (\A f \in K.held : CopyRight(f)) /\ \A f \in K.held : e.s <= f.s
  BY <1>1, <1>3, SessionsAssumption
<1> QED BY <1>2, <1>3, <1>4, <1>5, StartCalledRight

LEMMA StartAllRight ==
  ASSUME SessionInv, UNCHANGED <<now, profile, audit>>, NEW c \in Calls, StartAllSessions(c)
  PROVE  SessionInv'
<1> DEFINE all == {Entry(s) : s \in Active}
<1>1. Free(c) /\ autoDefault' = TRUE
  BY DEF StartAllSessions
<1>2. CASE all = {}
  <2>1. UNCHANGED <<rows, dirs, resources, live, calls, kicks, decisionVars>>
    BY <1>2 DEF StartAllSessions
  <2>2. Undecided
    <3>1. \A s \in Sessions : SameRow(s)
      BY <2>1 DEF SameRow
    <3>2. StoreOK'
      BY <1>1, <2>1 DEF StoreOK, decisionVars, SessionInv, SessionsOK
    <3> QED BY <2>1, <3>1, <3>2 DEF Undecided, decisionVars
  <2> DEFINE k == calls[c]
  <2>3. c \in Slots /\ c \notin Sessions /\ k.op = "none"
    BY <1>1, SlotsAre DEF Slots, Free
  <2>4. /\ k \in CallType /\ Fit(k) /\ calls' = [calls EXCEPT ![c] = k] /\ k.step = "none"
        /\ StillEnds(c, {}) /\ (k.fresh => Cardinality(Counted) < Limit) /\ \A e \in k.held : CopyRight(e)
    <3>1. k \in CallType /\ Fit(k) /\ (k.fresh => Cardinality(Counted) < Limit)
          /\ (\A e \in k.held : CopyRight(e)) /\ calls \in [Slots -> CallType]
      BY <2>3, CallOf
    <3>2. k.step = "none"
      BY <2>3, <3>1 DEF Fit, AwaitsOf
    <3> QED BY <2>1, <3>1, <3>2 DEF StillEnds
  <2> HIDE DEF k
  <2> QED BY <2>2, <2>3, <2>4, CallGoesOn
<1>3. CASE all # {}
  <2> DEFINE K == Call("start", "next", all)
             e == First(all)
  <2>1. StartNext(c, e, [calls EXCEPT ![c] = K])
    BY <1>3 DEF StartAllSessions
  <2>2. Active \in SUBSET Active /\ Active # {}
    BY <1>3
  <2>3. /\ K \in CallType /\ Fit(K) /\ K.op = "start" /\ ~K.fresh /\ K.held = all
        /\ \A f \in K.held : CopyRight(f)
    BY <2>2, EntriesOf
  <2>4. all \in SUBSET EntryType
    BY EntryIs DEF Active
  <2> HIDE DEF all, K
  <2>5. e \in K.held /\ \A f \in K.held : e.s <= f.s
    BY <1>3, <2>3, <2>4, FirstIs
  <2> HIDE DEF e
  <2> QED BY <1>1, <2>1, <2>3, <2>5, StartCalledRight
<1> QED BY <1>2, <1>3

LEMMA StartsNextRight ==
  ASSUME SessionInv, UNCHANGED <<now, profile, audit>>, NEW c \in Slots, StartsNext(c)
  PROVE  SessionInv'
<1> DEFINE K == calls[c]
           e == Mine(c)
<1>1. K.op = "start" /\ K.step = "next" /\ StartNext(c, e, calls) /\ autoDefault' \in BOOLEAN
  BY DEF StartsNext, SessionInv, SessionsOK
<1>2. /\ calls \in [Slots -> CallType] /\ K \in CallType /\ Fit(K) /\ c \notin Sessions
      /\ K.held \in SUBSET EntryType /\ K.held # {} /\ \A f \in K.held : CopyRight(f)
  BY <1>1, CallOf
<1>3. e \in K.held /\ \A f \in K.held : e.s <= f.s
  BY <1>2, FirstIs DEF Mine
<1> HIDE DEF e
<1> QED BY <1>1, <1>2, <1>3, StartNextRight

-----------------------------------------------------------------------------
(* The other steps, and the invariant. *)

LEMMA NothingMoves ==
  ASSUME SessionInv, Undecided, UNCHANGED calls
  PROVE  SessionInv'
<1>1. Moves({}) /\ Agree({}) /\ Counted' \subseteq Counted
  BY UndecidedMoves
<1>2. \A c \in Slots : calls \in [Slots -> CallType] /\ Ages(calls'[c], calls[c], {})
  BY AgesSelf, CallOf
<1>3. calls \in [Slots -> CallType]
  BY DEF SessionInv, SessionsOK
<1>4. CallsMove({}, {}) /\ Joins({})
  BY <1>1, <1>2, <1>3 DEF CallsMove, Joins
<1>5. {} \in SUBSET Slots /\ {} \in SUBSET Sessions /\ {} \in SUBSET {}
  OBVIOUS
<1> QED BY <1>1, <1>4, <1>5, StepRight

LEMMA TimeRight ==
  ASSUME SessionInv, TimePasses
  PROVE  SessionInv'
<1>1. \A s \in Sessions : SameRow(s)
  BY DEF TimePasses, storeVars, SameRow
<1>2. now' \in 0..MaxTime
  BY SessionsAssumption DEF TimePasses, SessionInv, SessionsOK
<1>3. StoreOK'
  BY <1>2 DEF StoreOK, TimePasses, storeVars, decisionVars, SessionInv, SessionsOK
<1>4. Undecided
  BY <1>1, <1>3 DEF Undecided, TimePasses, storeVars, decisionVars
<1> QED BY <1>4, NothingMoves DEF TimePasses

LEMMA StutterRight ==
  ASSUME SessionInv, UNCHANGED sessionVars
  PROVE  SessionInv'
<1>1. Undecided
  BY StoreStays DEF sessionVars, storeVars, decisionVars, SessionInv, SessionsOK
<1> QED BY <1>1, NothingMoves DEF sessionVars

\* What is audited is what the profile means.
LEMMA GuardedActionRight ==
  ASSUME SessionInv, NEW r \in Requests, GuardedAction(r)
  PROVE  SessionInv'
<1>1. UNCHANGED <<now, storeVars, autoDefault, calls, profile, decisionVars>>
  BY DEF GuardedAction
<1>2. SessionsOK' /\ Fits' /\ Decisions' /\ Copies' /\ Quieted' /\ Starters' /\ Limited'
  <2>1. SessionsOK' /\ Fits'
    BY <1>1 DEF SessionInv, SessionsOK, Fits, storeVars, decisionVars
  <2>2. Decisions' /\ Copies'
    BY <1>1 DEF SessionInv, Decisions, Decided, Known, Copies, CopyRight, storeVars, decisionVars
  <2>3. Quieted' /\ Starters'
    BY <1>1 DEF SessionInv, Quieted, Starters, StartsLate, Ending, Mine, Active, Known,
                storeVars, decisionVars
  <2>4. Limited'
    BY <1>1 DEF SessionInv, Limited, Counted, Active, Known, storeVars, decisionVars
  <2> QED BY <2>1, <2>2, <2>3, <2>4
<1>3. r.actor \in Seq(STRING) /\ r.target \in Seq(Sessions) /\ \A rule \in profile.rules : RuleOK(rule)
  BY SessionsAssumption DEF SessionInv, Guarded
<1>4. Evaluate(profile, r) = Meant(profile, r)
  BY <1>3, DecidedAsMeant DEF Evaluate, Meant
<1>5. audit' = [request |-> r, allowed |-> Evaluate(profile, r)] /\ profile' = profile
  BY <1>1 DEF GuardedAction
<1>6. audit'.allowed = Evaluate(profile, r) /\ audit'.request = r
  BY <1>5
<1>7. GuardDecides'
  BY <1>4, <1>5, <1>6 DEF GuardDecides
<1> QED BY <1>2, <1>3, <1>5, <1>7 DEF SessionInv, Guarded

\* After a crash nothing is under way.
LEMMA CrashRight ==
  ASSUME SessionInv, Crash
  PROVE  SessionInv'
<1> DEFINE decided == {s \in Sessions : Ending(s)}
<1>1. /\ calls' = [c \in Slots |-> NoCall] /\ live' = {}
      /\ quiet' = {s \in quiet : ~Ending(s)}
      /\ kicks' = [s \in Sessions |-> IF kicks[s] \in {"queued", "running"} THEN "lost" ELSE kicks[s]]
      /\ UNCHANGED <<now, rows, dirs, resources, autoDefault, profile, said, asked, crossed, extra, audit>>
  BY DEF Crash
<1>2. \A s \in Sessions : SameRow(s)
  BY <1>1 DEF SameRow
<1>3. StoreOK'
  BY <1>1 DEF StoreOK, SessionInv, SessionsOK
<1>4. Moves(decided)
  <2>1. \A s \in Sessions \ (decided \cup crossed') : Steady(s)
    BY <1>1, <1>2 DEF Steady
  <2>2. ASSUME NEW s \in decided \ crossed' PROVE Settling(s)
    <3>1. Decided(s) /\ s \notin live' /\ s \notin quiet'
      BY <1>1 DEF SessionInv, Decisions
    <3>2. Decided(s)'
      BY <1>1, <3>1 DEF Decided, Known
    <3> QED BY <3>1, <3>2 DEF Settling, Ended
  <2> QED BY <1>1, <1>3, <2>1, <2>2 DEF Moves
<1>5. Agree(decided)
  BY <1>1, <1>2 DEF Agree
<1>6. CallsMove(Slots, decided)
  <2>1. ASSUME NEW c \in Slots PROVE OwnRight(c) /\ StillEnds(c, decided)
    <3>1. calls'[c] = NoCall
      BY <1>1
    <3>2. OwnRight(c)
      BY <3>1, NoCallIs DEF OwnRight, StartsLate
    <3>3. StillEnds(c, decided)
      BY DEF StillEnds, Ending
    <3> QED BY <3>2, <3>3
  <2>2. calls' \in [Slots -> CallType]
    BY <1>1, NoCallIs
  <2> QED BY <2>1, <2>2 DEF CallsMove
<1>7. Joins(Slots)
  <2>1. Counted' \subseteq Counted
    BY <1>1 DEF Counted, Active, Known
  <2>2. \A c \in Slots : ~calls'[c].fresh
    BY <1>1, NoCallIs
  <2> QED BY <2>1, <2>2 DEF Joins
<1>8. decided \in SUBSET Sessions /\ decided \in SUBSET decided /\ Slots \in SUBSET Slots
  OBVIOUS
<1> HIDE DEF decided
<1> QED BY <1>4, <1>5, <1>6, <1>7, <1>8, StepRight

LEMMA SessionInitRight == SessionInit => SessionInv
<1> SUFFICES ASSUME SessionInit PROVE SessionInv
  OBVIOUS
<1>0. PICK scenario \in Scenarios :
  /\ now = 0 /\ autoDefault = TRUE /\ live = {} /\ audit = NoDecision
  /\ rows = scenario.rows
  /\ dirs = {s \in Sessions : Known(s)}
  /\ resources = {s \in Sessions : Known(s)}
  /\ calls = [c \in Slots |-> NoCall]
  /\ kicks = [s \in Sessions |-> "none"]
  /\ said = [s \in Sessions |-> IF ~Known(s) THEN "none"
                                ELSE IF rows[s].life = "archived" THEN "archived" ELSE "active"]
  /\ asked = [s \in Sessions |-> Known(s) /\ rows[s].auto]
  /\ quiet = {} /\ crossed = {} /\ extra = {}
  /\ profile = scenario.profile
  BY DEF SessionInit
<1>1. /\ rows \in [Sessions -> SessionRow \cup {Absent}] /\ MaxTime \in Nat
      /\ Cardinality(Active) <= Limit
      /\ \A rule \in profile.rules : RuleOK(rule)
  BY <1>0, SessionsAssumption DEF Active, Known
<1>2. ASSUME NEW s \in Sessions, Known(s)
      PROVE  rows[s] \in SessionRow /\ rows[s].auto \in BOOLEAN /\ asked[s] = rows[s].auto
  <2>1. rows[s] \in SessionRow
    BY <1>1, <1>2 DEF Known
  <2>2. rows[s].auto \in BOOLEAN
    BY <2>1 DEF SessionRow
  <2>3. asked[s] = (Known(s) /\ rows[s].auto)
    BY <1>0
  <2> QED BY <1>2, <2>1, <2>2, <2>3
<1>3. \A c \in Slots : calls[c] = NoCall
  BY <1>0
<1>4. SessionsOK
  <2>1. calls \in [Slots -> CallType] /\ \A s \in Sessions : calls[s].op = "none"
    BY <1>0, <1>3, NoCallIs, SlotsAre
  <2>2. asked \in [Sessions -> BOOLEAN]
    BY <1>0
  <2>3. said \in [Sessions -> {"none", "active", "archived", "deleted"}]
    BY <1>0
  <2> QED BY <1>0, <1>1, <2>1, <2>2, <2>3 DEF SessionsOK
<1>5. Fits /\ Copies /\ Starters
  BY <1>3, NoCallIs DEF Fits, Copies, Starters, StartsLate
<1>6. Decisions
  <2> SUFFICES ASSUME NEW s \in Sessions PROVE Decided(s)
    BY DEF Decisions
  <2>1. said[s] = IF ~Known(s) THEN "none" ELSE IF rows[s].life = "archived" THEN "archived" ELSE "active"
    BY <1>0
  <2> QED BY <1>0, <1>2, <2>1 DEF Decided
<1>7. Quieted
  BY <1>0 DEF Quieted
<1>8. Limited
  <2>1. Counted = Active /\ \A c \in Slots : ~calls[c].fresh
    BY <1>0, <1>3, NoCallIs DEF Counted
  <2> QED BY <1>1, <2>1 DEF Limited
<1>9. Guarded
  BY <1>0, <1>1 DEF Guarded, GuardDecides
<1> QED BY <1>4, <1>5, <1>6, <1>7, <1>8, <1>9 DEF SessionInv

LEMMA SessionStepRight ==
  ASSUME SessionInv, Around, NEW c \in Slots, SessionStep(c)
  PROVE  SessionInv'
BY ResourceCreatedRight, InsertRight, NoticedRight, DeniedRight, EndProviderRight, ArchiveRight,
   DeleteRight, DeleteNowRight, ResumeRight, SweepNextRight, RunTurnRight, StartedRight,
   StartFailsRight, TurnEndsRight DEF SessionStep

LEMMA CallingRight ==
  ASSUME SessionInv, Calling
  PROVE  SessionInv'
<1>1. UNCHANGED <<now, profile, audit>>
  BY DEF Calling, Otherwise
<1>2. ASSUME NEW c \in Calls, SessionCall(c), UNCHANGED autoDefault PROVE SessionInv'
  <2>1. Around
    BY <1>1, <1>2 DEF Around
  <2> QED BY <1>2, <2>1, CreateRight, BindRight, BeginRight DEF SessionCall
<1>3. ASSUME NEW s \in Sessions, MessageReceived(s), UNCHANGED autoDefault PROVE SessionInv'
  BY <1>1, <1>3, MessageRight DEF Around
<1>4. ASSUME NEW s \in Sessions, StopSession(s) PROVE SessionInv'
  BY <1>1, <1>4, StopRight
<1>5. CASE StopAllSessions
  BY <1>1, <1>5, StopAllRight
<1>6. ASSUME NEW c \in Calls, NEW s \in Sessions, StartSession(c, s) PROVE SessionInv'
  BY <1>1, <1>6, StartRight
<1>7. ASSUME NEW c \in Calls, StartAllSessions(c) PROVE SessionInv'
  BY <1>1, <1>7, StartAllRight
<1> QED BY <1>2, <1>3, <1>4, <1>5, <1>6, <1>7 DEF Calling

LEMMA SessionNextRight == SessionInv /\ [SessionNext]_sessionVars => SessionInv'
<1> SUFFICES ASSUME SessionInv, [SessionNext]_sessionVars PROVE SessionInv'
  OBVIOUS
<1>1. CASE Calling
  BY <1>1, CallingRight
<1>2. CASE Tick
  BY <1>2, SweepRight DEF Tick, Otherwise, Around
<1>3. CASE TimePasses
  BY <1>3, TimeRight
<1>4. CASE Crash
  BY <1>4, CrashRight
<1>5. ASSUME NEW r \in Requests, GuardedAction(r) PROVE SessionInv'
  BY <1>5, GuardedActionRight
<1>6. ASSUME NEW c \in Slots, Steps(c) PROVE SessionInv'
  BY <1>6, SessionStepRight DEF Steps, Otherwise, Around
<1>7. ASSUME NEW c \in Slots, Starts(c) PROVE SessionInv'
  BY <1>7, StartsNextRight DEF Starts, Otherwise
<1>8. ASSUME NEW s \in Sessions, Queues(s) PROVE SessionInv'
  BY <1>8, KickoffRight, HookTimesOutRight DEF Queues, QueueStep, Otherwise, Around
<1>9. ASSUME NEW s \in Sessions, Plugin(s) PROVE SessionInv'
  BY <1>9, HookAnswersRight DEF Plugin, Otherwise, Around
<1>10. CASE UNCHANGED sessionVars
  BY <1>10, StutterRight
<1> QED BY <1>1, <1>2, <1>3, <1>4, <1>5, <1>6, <1>7, <1>8, <1>9, <1>10 DEF SessionNext

LEMMA SessionsAlways == SessionSpec => []SessionInv
BY SessionInitRight, SessionNextRight, PTL DEF SessionSpec

\* However calls about a session interleave, and across crashes: it is in the
\* state that the last call about it decided, but for calls that cross.
THEOREM DecisionsStand == SessionSpec => []DecisionsHold
<1>1. SessionInv => DecisionsHold
  BY DEF SessionInv, Decisions, Decided, DecisionsHold
<1> QED BY <1>1, SessionsAlways, PTL

\* Sessions have what they need, the limit holds, and every decision of the
\* guard is the one that the policy profile means.
THEOREM SessionsStaySound == SessionSpec => []SessionsSound
<1>1. SessionInv => SessionsSound
  BY DEF SessionInv, Decisions, Decided, Limited, Counted, Guarded, SessionsWhole, SessionsSound
<1> QED BY <1>1, SessionsAlways, PTL
=============================================================================
