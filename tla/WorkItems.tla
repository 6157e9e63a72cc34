----------------------------- MODULE WorkItems -----------------------------
(***************************************************************************)
(* Work items: the table runtime_work_items, its claims under a lease      *)
(* (workItemRepository.ts) and the calls by which packages enqueue, claim  *)
(* and settle items (createContext of runtimePluginContextService.ts), and *)
(* the gates a worker runs.  A worker is any piece of package code under   *)
(* way; it settles the item that it claimed, in time or long after.        *)
(***************************************************************************)
EXTENDS Integers, FiniteSets

CONSTANTS
  Items,         \* identifiers of items, ordered as the table orders them
  Keys, NoKey,   \* idempotency keys
  Priorities, MaxAttempts, Lease, Delay,
  Workers, Gates, Absent

VARIABLES
  now,
  items,    \* [Items -> row or Absent]
  holds,    \* [Workers -> [item, expires] or Absent]: the claim a worker works on
  gates,    \* [Gates -> [status, worker] or Absent]: the table of gate runs
  lapses,   \* history: [Items -> Nat], claims that took an item from an expired lease
  settled,  \* history: [Items -> Nat], workers that completed the item
  late      \* history: [Items -> BOOLEAN], a worker settled it after its lease had run out

Statuses == {"queued", "running", "completed", "failed", "dead_lettered"}

ItemRow == [key : Keys \cup {NoKey}, priority : Priorities, status : Statuses, attempts : Nat,
            max : Nat, runAfter : Nat, expires : Nat \cup {Absent}, created : Nat]

ItemsInit ==
  /\ items = [i \in Items |-> Absent]
  /\ holds = [w \in Workers |-> Absent]
  /\ gates = [g \in Gates |-> Absent]
  /\ lapses = [i \in Items |-> 0] /\ settled = lapses
  /\ late = [i \in Items |-> FALSE]

-----------------------------------------------------------------------------
\* The rows as they are written: the columns that no property tells apart are left out.
NewItem(key, priority) ==
  [key |-> key, priority |-> priority, status |-> "queued", attempts |-> 0,
   max |-> MaxAttempts, runAfter |-> 0, expires |-> Absent, created |-> now]
UpdateItem(i, row) == items' = [items EXCEPT ![i] = row]
SaveGate(g, row) == gates' = [gates EXCEPT ![g] = row]

\* INSERT OR IGNORE: with a key in use, or an identifier in use, nothing is added.
Insertable(i, key) ==
  /\ items[i] = Absent
  /\ key # NoKey => \A k \in Items : items[k] # Absent => items[k].key # key

EnqueueWorkItem(i, key, priority) ==
  /\ Insertable(i, key)
  /\ UpdateItem(i, NewItem(key, priority))
  /\ UNCHANGED <<now, holds, gates, lapses, settled, late>>

Expired(row) == row.status = "running" /\ row.expires <= now
ClaimRunning(i) ==   \* mutant: the lease is not looked at
  /\ items[i] # Absent
  /\ items[i].status \in {"queued", "running"}
  /\ items[i].runAfter <= now
Claimable(i) ==
  /\ items[i] # Absent
  /\ items[i].status = "queued" \/ Expired(items[i])
  /\ items[i].runAfter <= now

\* ORDER BY priority DESC, created_at ASC, work_item_id ASC.
Before(i, k) ==
  \/ items[i].priority > items[k].priority
  \/ /\ items[i].priority = items[k].priority
     /\ items[i].created < items[k].created \/ (items[i].created = items[k].created /\ i <= k)
Candidate(i) == Claimable(i) /\ \A k \in Items : Claimable(k) => Before(i, k)

ClaimWorkItem(w) ==
  /\ holds[w] = Absent
  /\ \E i \in {k \in Items : Candidate(k)} :
       /\ UpdateItem(i, [items[i] EXCEPT !.status = "running", !.attempts = @ + 1,
                                         !.expires = now + Lease])
       /\ holds' = [holds EXCEPT ![w] = [item |-> i, expires |-> now + Lease]]
       /\ lapses' = [lapses EXCEPT ![i] = IF items[i].status = "running" THEN @ + 1 ELSE @]
  /\ UNCHANGED <<now, gates, settled, late>>

-----------------------------------------------------------------------------
(* transitionWorkItem: neither the owner of the lease nor the status of the *)
(* row is looked at.                                                        *)

Settle(w, row) ==
  /\ UpdateItem(holds[w].item, [row EXCEPT !.expires = Absent])
  /\ holds' = [holds EXCEPT ![w] = Absent]
  /\ late' = [late EXCEPT ![holds[w].item] = @ \/ now >= holds[w].expires]
  /\ UNCHANGED <<now, gates, lapses>>

CompleteWorkItem(w) ==
  /\ holds[w] # Absent
  /\ Settle(w, [items[holds[w].item] EXCEPT !.status = "completed"])
  /\ settled' = [settled EXCEPT ![holds[w].item] = @ + 1]

MayRetry(row) == row.attempts < row.max

\* failWorkItem, with a time to retry after or without.
FailWorkItem(w, retry) ==
  /\ holds[w] # Absent
  /\ \E row \in {items[holds[w].item]} :
       Settle(w, IF retry /\ MayRetry(row)
                 THEN [row EXCEPT !.status = "queued", !.runAfter = now + Delay]
                 ELSE [row EXCEPT !.status = "failed"])
  /\ UNCHANGED settled

DeadLetterWorkItem(w) ==
  /\ holds[w] # Absent
  /\ Settle(w, [items[holds[w].item] EXCEPT !.status = "dead_lettered"])
  /\ UNCHANGED settled

-----------------------------------------------------------------------------
\* runGate: the row first, then the command, awaited; it exits or cannot be run.
RunGate(w, g) ==
  /\ gates[g] = Absent
  /\ SaveGate(g, [status |-> "running", worker |-> w])
  /\ UNCHANGED <<now, items, holds, lapses, settled, late>>

GateEnds(g) ==
  /\ gates[g] # Absent /\ gates[g].status = "running" /\ gates[g].worker # Absent
  /\ \E result \in {"passed", "failed", "error"} :
       SaveGate(g, [gates[g] EXCEPT !.status = result])
  /\ UNCHANGED <<now, items, holds, lapses, settled, late>>

GateRunning(w) == \E g \in Gates :
  gates[g] # Absent /\ gates[g].worker = w /\ gates[g].status = "running"

\* The workers of W are gone, with what they knew; the rows remain.
Dropped(W) ==
  /\ holds' = [w \in Workers |-> IF w \in W THEN Absent ELSE holds[w]]
  /\ gates' = [g \in Gates |->
       IF gates[g] # Absent /\ gates[g].status = "running" /\ gates[g].worker \in W
       THEN [gates[g] EXCEPT !.worker = Absent] ELSE gates[g]]
  /\ UNCHANGED <<items, lapses, settled, late>>

-----------------------------------------------------------------------------
ItemsTypeOK ==
  /\ items \in [Items -> ItemRow \cup {Absent}]
  /\ \A i \in Items : items[i] # Absent =>
       ((items[i].status = "running") <=> (items[i].expires # Absent))
  /\ holds \in [Workers -> [item : Items, expires : Nat] \cup {Absent}]
  /\ \A w \in Workers : holds[w] # Absent => items[holds[w].item] # Absent

InTime(w) == holds[w] # Absent /\ now < holds[w].expires

\* Two workers never hold one item with both their leases running, and what a
\* worker holds in time is running for it: unless a worker settled the item
\* after its lease had run out, which nothing refuses.
OneHolder ==
  \A v, w \in Workers : v # w /\ InTime(v) /\ InTime(w) /\ ~late[holds[v].item]
    => holds[v].item # holds[w].item

HeldIsRunning ==
  \A w \in Workers : InTime(w) /\ ~late[holds[w].item] =>
    items[holds[w].item].status = "running" /\ items[holds[w].item].expires = holds[w].expires

OnePerKey ==
  \A i, k \in Items : i # k /\ items[i] # Absent /\ items[k] # Absent /\ items[i].key # NoKey
    => items[i].key # items[k].key

\* Retries stop at the limit: beyond it come only the claims that took an item
\* from a worker whose lease ran out, which nothing bounds.
AttemptsBounded ==
  \A i \in Items : items[i] # Absent => items[i].attempts <= items[i].max + lapses[i]

\* An item is completed by one worker, unless a lease ran out under another.
CompletedOnce == \A i \in Items : settled[i] <= 1 + lapses[i]
=============================================================================
