------------------------------ MODULE Packages ------------------------------
(***************************************************************************)
(* Package management by the Control API: install, bundles, removal,       *)
(* selection, configuration, apply, backup and import, against the files   *)
(* they keep: package directories, the inventory, config.json with its     *)
(* secrets file, the operation journal and the registry cache; and the     *)
(* start of the host and of the worker from those files.                   *)
(*                                                                         *)
(* Code between two awaits runs to its end, but each of its writes to disk *)
(* is a moment at which the process may die.  So a handler is an operator  *)
(* on a run r: the disk r.d it sees, the configuration r.mem it holds in   *)
(* memory, and the disks r.todo it leaves behind one write after the other;*)
(* the action that runs the handler puts them in todo, and Write and Crash *)
(* take turns from there.                                                  *)
(***************************************************************************)
EXTENDS PackageSources, TLC

CONSTANTS
  Menu,        \* the operator's calls: records [name, pkg, cascade]
  Searched,    \* packages the operator searches for
  Models,      \* default models
  InitialDisks, \* disks on which nothing is under way
  MaxCalls     \* bound on the calls, a single backup aside

\* what the routes of the Control API let through
ASSUME MenuAssumption ==
  \A o \in Menu :
    \/ o.name = "apply"
    \/ o.name \in {"install", "remove"} /\ o.pkg \in Packages
    \/ o.name = "select" /\ o.pkg \in Packages /\ KindOf[o.pkg] \in Exclusive
    \/ o.name \in {"enable", "disable"} /\ o.pkg \in Packages /\ KindOf[o.pkg] \in {"plugin", "skill"}
    \/ o.name \in {"activate", "deactivate", "configure"} /\ o.pkg \in Surfaces

ASSUME CallsAssumption == MaxCalls \in Nat /\ Searched \subseteq Packages

-----------------------------------------------------------------------------
\* What the files hold.

RecordType ==
  [id : Packages, ver : Versions, owners : SUBSET Packages, activatedBy : SUBSET Packages]
Inventories ==
  {inv \in Seq(RecordType) : \A i, j \in DOMAIN inv : inv[i].id = inv[j].id => i = j}

\* a single package is selected of a transport, provider or API adapter
Configs ==
  {c \in [desired : SUBSET Surfaces, root : [Exclusive -> SUBSET Packages],
          own : [Packages -> SUBSET Packages], setup : BOOLEAN, model : Models] :
     \A p, q \in c.desired : KindOf[p] \in Exclusive /\ KindOf[q] = KindOf[p] => p = q}

\* a directory is set aside only from a place it leaves empty
Disks ==
  {d \in [dir : [Packages -> Versions \cup {Nothing}], aside : [Packages -> Versions \cup {Nothing}],
          inv : Inventories, applied : SUBSET Surfaces, cfg : Configs \cup {Nothing},
          sec : SUBSET Surfaces,
          beside : [Packages -> SUBSET [at : {"backup", "staging"}, ver : Versions]],
          cache : [Packages -> Versions \cup {Nothing}], journal : {Nothing, "remove", "apply"}] :
     \A p \in Packages : d.aside[p] # Nothing => d.dir[p] = Nothing}

Tidy(d) == \A p \in Packages : d.aside[p] = Nothing

\* records of which neither the place nor what was set aside has the version
Mismatched(d) ==
  {p \in Installed(d.inv) : RecordOf(d.inv, p).ver \notin {d.dir[p], d.aside[p]}}

\* nothing applied or secret belongs to a package that is gone, and setup is
\* called complete only of a state that can start
Agrees(d) ==
  /\ d.applied \cup d.sec \subseteq Installed(d.inv)
  /\ d.cfg.setup => Startable(d.cfg, d.inv, d.applied)

ASSUME DisksAssumption ==
  /\ Nothing \notin Configs
  /\ \A d \in InitialDisks :
       /\ d \in Disks /\ d.cfg # Nothing /\ d.journal = Nothing /\ Tidy(d)
       /\ Mismatched(d) = {} /\ Agrees(d)

-----------------------------------------------------------------------------
VARIABLES
  disk,     \* the files
  todo,     \* the disks the running code still leaves behind
  op,       \* the call at the head of packageMutationQueue, at one of its awaits
  host,     \* the process of the Control API is up
  main,     \* the runtime's process: [st, loaded, plugins, skills, behind]
  archive,  \* the last backup
  calls,
  hand,     \* history: the packages the operator enabled himself; after a crash or an
            \* import, those the disk shows to be
  torn,     \* history: packages whose replacement a crash cut in two
  cut       \* history: which of "disk" and "archive" is of a call cut in two, by a
            \* crash without a journal or, of a bundle's installation, by the backup

packageVars == <<disk, todo, op, host, main, archive, calls, hand, torn, cut>>

\* enabled, and by no bundle
EnabledByHand(d) ==
  {p \in Installed(d.inv) : /\ d.cfg # Nothing /\ p \in d.cfg.desired
                            /\ KeyOf[p] = NoKey /\ RecordOf(d.inv, p).activatedBy = {}}

NoCall == [at |-> "idle", pkg |-> Nothing, ver |-> Nothing, left |-> <<>>, mem |-> Nothing]
Down == [st |-> "down", loaded |-> <<>>, plugins |-> <<>>, skills |-> {}, behind |-> FALSE]
Resting == op = NoCall /\ todo = <<>>

-----------------------------------------------------------------------------
\* Runs of synchronous code.

\* the package service loads the configuration with its secrets merged in, and
\* the registry cache
LoadConfig(d) == [cfg |-> d.cfg, sec |-> d.sec, cache |-> d.cache]
Start(d) == [d |-> d, mem |-> LoadConfig(d), todo |-> <<>>, ok |-> TRUE]
Commit(r, d) == IF d = r.d THEN r ELSE [r EXCEPT !.d = d, !.todo = Append(@, d)]
CommitAll(r, ds) == IF ds = <<>> THEN r ELSE [r EXCEPT !.d = Last(ds), !.todo = @ \o ds]
Fail(r) == [r EXCEPT !.ok = FALSE]
Configured(r, cfg) == [r EXCEPT !.mem = [r.mem EXCEPT !.cfg = cfg]]

\* saving splits the secrets off, the public file first
SavePublic(r) == Commit(r, [r.d EXCEPT !.cfg = r.mem.cfg])
SaveSecrets(r) == Commit(r, [r.d EXCEPT !.sec = r.mem.sec])
SaveConfig(r) == SaveSecrets(SavePublic(r))

SaveInventory(r, inv, applied) == Commit(r, [r.d EXCEPT !.inv = inv, !.applied = applied])
UpdateRecord(r, e) ==
  SaveInventory(r, [i \in DOMAIN r.d.inv |->
                      IF r.d.inv[i].id = e.id THEN e ELSE r.d.inv[i]], r.d.applied)

\* the selection and settings left once what is not installed is dropped
Pruned(mem, here, prune) ==
  LET kept == {p \in mem.cfg.desired : p \in here \/ (~prune /\ KindOf[p] \in Exclusive)}
      lost == {KindOf[p] : p \in mem.cfg.desired \ kept}
      root == [k \in Exclusive |-> IF k \in lost THEN {} ELSE mem.cfg.root[k]]
      own == [p \in Packages |-> IF p \in here THEN mem.cfg.own[p] ELSE {}]
  IN  [mem EXCEPT !.cfg = [@ EXCEPT !.desired = kept, !.root = root, !.own = own],
                  !.sec = @ \cap here]

Judged(mem, inv, applied) ==
  [mem EXCEPT !.cfg = [@ EXCEPT !.setup = Startable(mem.cfg, inv, applied)]]
SaveChanged(r, mem) == IF mem = r.mem THEN r ELSE SaveConfig([r EXCEPT !.mem = mem])

\* mutant: what was applied is left as it was
StaleReconcile(r, prune) ==
  IF ~r.ok THEN r
  ELSE SaveChanged(r, Judged(Pruned(r.mem, Installed(r.d.inv), prune), r.d.inv, r.d.applied))

\* what is configured and applied follows what is installed
Reconcile(r, prune) ==
  LET here == Installed(r.d.inv)
      applied == r.d.applied \cap here
  IN  IF ~r.ok THEN r
      ELSE SaveInventory(SaveChanged(r, Judged(Pruned(r.mem, here, prune), r.d.inv, applied)),
                         r.d.inv, applied)

-----------------------------------------------------------------------------
\* The operation journal and recovery.

WriteJournal(r, name) == Commit(r, [r.d EXCEPT !.journal = name])
ClearJournal(r) == Commit(r, [r.d EXCEPT !.journal = Nothing])

\* records whose directory is gone are dropped
RepairInventory(r) ==
  SaveInventory(r, Only(r.d.inv, {p \in Packages : r.d.dir[p] # Nothing}), r.d.applied)

RecoverJournal(r) ==
  IF r.d.journal = Nothing THEN r ELSE ClearJournal(Reconcile(RepairInventory(r), TRUE))

\* a directory set aside by a removal comes back, unless its place is taken
Restored(d, gone) ==
  [d EXCEPT !.aside = [p \in Packages |-> IF p \in gone THEN Nothing ELSE d.aside[p]],
            !.dir = [p \in Packages |-> IF p \in gone /\ d.dir[p] = Nothing THEN d.aside[p]
                                       ELSE d.dir[p]]]

RecoverRemovals(r) ==
  LET staged == SetToSeq({p \in Packages : r.d.aside[p] # Nothing})
      disks == [i \in DOMAIN staged |-> Restored(r.d, {staged[j] : j \in 1..i})]
  IN  IF staged = <<>> THEN r ELSE Reconcile(RepairInventory(CommitAll(r, disks)), TRUE)

EnsureInitialized(r) == RecoverRemovals(RecoverJournal(r))

MarkSetupIncomplete(r) ==
  IF r.mem.cfg.setup THEN SaveConfig(Configured(r, [r.mem.cfg EXCEPT !.setup = FALSE])) ELSE r

\* the end of a journalled operation, whether it returned or threw
Journalled(name, r) ==
  IF r.ok THEN ClearJournal(r)
  ELSE LET known(q) == IF name = "apply" THEN MarkSetupIncomplete(q) ELSE q
       IN  Fail(ClearJournal(known(RecoverJournal([r EXCEPT !.ok = TRUE]))))

-----------------------------------------------------------------------------
\* The installer.

RecordFor(inv, p, ver, owner) ==
  LET old == IF p \in Installed(inv) THEN RecordOf(inv, p)
             ELSE [owners |-> {}, activatedBy |-> {}]
  IN  [id |-> p, ver |-> ver, owners |-> old.owners \cup ({owner} \ {Nothing}),
       activatedBy |-> old.activatedBy]

Staged(r, p, ver) == Commit(r, [r.d EXCEPT !.beside[p] = @ \cup {[at |-> "staging", ver |-> ver]}])
Unstaged(r, p, before) == Commit(r, [r.d EXCEPT !.beside[p] = before])

\* two renames: the place is emptied into a backup, and taken
Placed(r, p, ver, before) ==
  LET backup == {[at |-> "backup", ver |-> v] : v \in {r.d.dir[p]} \ {Nothing}}
      moved == Commit(r, [r.d EXCEPT !.dir[p] = Nothing, !.beside[p] = @ \cup backup])
      placed == Commit(moved, [moved.d EXCEPT !.dir[p] = ver, !.beside[p] = before \cup backup])
  IN  Unstaged(placed, p, before)

\* mutant: the owners are asked once the files are in place
LateInstallFiles(r, p, ver, owner, how) ==
  LET new == RecordFor(r.d.inv, p, ver, owner)
      placed == Placed(Staged(r, p, ver), p, ver, r.d.beside[p])
  IN  IF how = "ready" /\ OwnersAccept(r.d.inv, p, ver, new.owners)
      THEN SaveInventory(placed, Append(Without(r.d.inv, p), new), r.d.applied)
      ELSE Fail(placed)

(***************************************************************************)
(* The package is copied beside its place, its own dependencies are        *)
(* installed there, it is validated, and only then are its owners and the  *)
(* cycle looked at.  The copy is cleared away after a failed validation    *)
(* and a cycle, but neither when its dependencies fail nor when an owner   *)
(* refuses the version.                                                    *)
(***************************************************************************)
InstallFiles(r, p, ver, owner, how) ==
  LET before == r.d.beside[p]
      staged == Staged(r, p, ver)
      new == RecordFor(r.d.inv, p, ver, owner)
      inv == Append(Without(r.d.inv, p), new)
  IN  IF ~r.ok \/ how = "refused" THEN Fail(r)
      ELSE IF how = "unready" \/ (how = "ready" /\ ~OwnersAccept(r.d.inv, p, ver, new.owners))
      THEN Fail(staged)
      ELSE IF how = "unsound" \/ p \in CycleNodes(Nodes(inv))
      THEN Fail(Unstaged(staged, p, before))
      ELSE SaveInventory(Placed(staged, p, ver, before), inv, r.d.applied)

(***************************************************************************)
(* A removal sets directories aside, dependents first: it goes on to a     *)
(* dependent of the package at the end of the path, or sets that one aside.*)
(* What is gone is then saved, and deleted.                                *)
(***************************************************************************)
SetAside(s) ==
  LET p == Last(s.path)
      d == s.r.d
      left == [s EXCEPT !.path = Front(@), !.inv = Without(@, p), !.applied = @ \ {p}]
  IN  IF d.dir[p] = Nothing THEN left
      ELSE [left EXCEPT !.gone = Append(@, p),
                        !.r = Commit(@, [d EXCEPT !.aside[p] = d.dir[p], !.dir[p] = Nothing])]

RemoveOne(s) ==
  LET above == Dependents(s.inv, Last(s.path)) \ s.seen
      q == CHOOSE x \in above : TRUE
  IN  IF s.path = <<>> THEN s
      ELSE IF above = {} THEN SetAside(s)
      ELSE [s EXCEPT !.path = Append(@, q), !.seen = @ \cup {q}]

RemoveFromState(r, p) ==
  LET first == [r |-> r, path |-> <<p>>, seen |-> {p}, gone |-> <<>>,
                inv |-> r.d.inv, applied |-> r.d.applied]
      after[i \in 0..2 * Len(r.d.inv) + 2] == IF i = 0 THEN first ELSE RemoveOne(after[i - 1])
  IN  after[2 * Len(r.d.inv) + 2]

Deleted(d, gone) ==
  [d EXCEPT !.aside = [p \in Packages |-> IF p \in gone THEN Nothing ELSE d.aside[p]]]

DeleteAside(s) ==
  LET saved == SaveInventory(s.r, s.inv, s.applied)
  IN  CommitAll(saved, [i \in DOMAIN s.gone |-> Deleted(saved.d, {s.gone[j] : j \in 1..i})])

RemoveFiles(r, p, cascade) ==
  IF ~r.ok THEN r
  ELSE IF ~cascade /\ Dependents(r.d.inv, p) # {} THEN Fail(r)
  ELSE DeleteAside(RemoveFromState(r, p))

-----------------------------------------------------------------------------
\* Selection, enabling and configuration.

\* another package of the same activation key is deselected
Displaced(desired, inv, p) ==
  IF KeyOf[p] = NoKey THEN desired
  ELSE {q \in desired : q = p \/ q \notin Installed(inv) \/ KeyOf[q] # KeyOf[p]}

SaveAndReconcile(r) == Reconcile(SaveConfig(r), TRUE)

\* p is the package selected for its kind, or Nothing
Select(r, kind, p) ==
  LET cfg == r.mem.cfg
      rivals == IF p = Nothing THEN cfg.desired ELSE Displaced(cfg.desired, r.d.inv, p)
      desired == {q \in rivals : KindOf[q] # kind} \cup ({p} \ {Nothing})
      keys == IF p = Nothing THEN {}
              ELSE IF kind = "api-adapter" \/ cfg.own[p] # {} THEN cfg.own[p] ELSE cfg.root[kind]
      chosen == [cfg EXCEPT !.desired = desired, !.root[kind] = keys]
  IN  IF ~r.ok THEN r
      ELSE IF p # Nothing /\ p \notin Installed(r.d.inv) THEN Fail(r)
      ELSE SaveAndReconcile(Configured(r, chosen))

SetDesired(r, desired) ==
  SaveAndReconcile(Configured(r, [r.mem.cfg EXCEPT !.desired = desired]))

Enable(r, p) ==
  IF ~r.ok THEN r
  ELSE IF p \notin Installed(r.d.inv) THEN Fail(r)
  ELSE SetDesired(r, Displaced(r.mem.cfg.desired, r.d.inv, p) \cup {p})

Disable(r, p) == SetDesired(r, r.mem.cfg.desired \ {p})

Activate(r, p) ==
  IF KindOf[p] \in Exclusive THEN Select(r, KindOf[p], p) ELSE Enable(r, p)

Deactivate(r, p) ==
  IF p \notin Installed(r.d.inv) THEN Fail(r)
  ELSE IF KindOf[p] \notin Exclusive THEN Disable(r, p)
  ELSE IF p \in r.mem.cfg.desired THEN Select(r, KindOf[p], Nothing)
  ELSE r

\* one of the package's own keys and one of its secrets are given a value
Configure(r, p) ==
  LET cfg == r.mem.cfg
      active == KindOf[p] \in Exclusive /\ p \in cfg.desired
      keys == cfg.own[p] \cup {p} \cup (IF active THEN cfg.root[KindOf[p]] ELSE {})
      owned == [cfg EXCEPT !.own[p] = keys]
      set == IF active THEN [owned EXCEPT !.root[KindOf[p]] = keys] ELSE owned
  IN  IF p \notin Installed(r.d.inv) THEN Fail(r)
      ELSE SaveAndReconcile([r EXCEPT !.mem = [r.mem EXCEPT !.cfg = set, !.sec = @ \cup {p}]])

-----------------------------------------------------------------------------
\* Bundles.

SetOwners(r, p, owners) == UpdateRecord(r, [RecordOf(r.d.inv, p) EXCEPT !.owners = owners])
SetActivators(r, p, bundles) ==
  UpdateRecord(r, [RecordOf(r.d.inv, p) EXCEPT !.activatedBy = bundles])

\* the last bundle that activated a package takes the activation with it
DropActivation(r, b, p) ==
  LET by == RecordOf(r.d.inv, p).activatedBy
      dropped == SetActivators(r, p, by \ {b})
  IN  IF b \notin by THEN r
      ELSE IF by # {b} \/ p \notin r.mem.cfg.desired THEN dropped
      ELSE IF KindOf[p] \in Exclusive THEN Select(dropped, KindOf[p], Nothing)
      ELSE Disable(dropped, p)

DropOwned(r, b, p, cascade) ==
  LET owners == RecordOf(r.d.inv, p).owners
  IN  IF b \notin owners THEN r
      ELSE IF owners # {b} THEN SetOwners(r, p, owners \ {b})
      ELSE IF Dependents(r.d.inv, p) # {} /\ ~cascade THEN SetOwners(r, p, {})
      ELSE RemoveFiles(r, p, cascade)

\* a member goes unless it was not the bundle's, or is another's, or is needed
DropMember(r, b, m, cascade) ==
  IF ~r.ok \/ m.id \notin Installed(r.d.inv) THEN r
  ELSE DropOwned(IF m.activation THEN DropActivation(r, b, m.id) ELSE r, b, m.id, cascade)

RemoveMembers(r, b, cascade) ==
  LET members == Reverse(Members[b])
      rest[i \in 0..Len(members)] ==
        IF i = 0 THEN r ELSE DropMember(rest[i - 1], b, members[i], cascade)
  IN  IF b \notin Installed(r.d.inv) THEN RemoveFiles(r, b, cascade)
      ELSE Reconcile(RemoveFiles(rest[Len(members)], b, cascade), TRUE)

RemoveBundle(r, b, cascade) ==
  Journalled("remove", RemoveMembers(WriteJournal(r, "remove"), b, cascade))

RemovePackage(r, p, cascade) ==
  IF KindOf[p] = "bundle" THEN RemoveBundle(r, p, cascade)
  ELSE Journalled("remove", Reconcile(RemoveFiles(WriteJournal(r, "remove"), p, cascade), TRUE))

\* mutant: an activation made by hand counts as the bundle's
GreedyTrack(r, active, b, p) ==
  IF active.ok THEN SetActivators(active, p, RecordOf(r.d.inv, p).activatedBy \cup {b})
  ELSE active

\* a bundle that activates a member remembers it, unless it was active by hand
Track(r, active, b, p) ==
  LET by == RecordOf(r.d.inv, p).activatedBy
  IN  IF active.ok /\ (p \notin r.mem.cfg.desired \/ by # {})
      THEN SetActivators(active, p, by \cup {b})
      ELSE active

ActivateMember(r, b, m) ==
  IF ~r.ok \/ ~m.activation THEN r ELSE Track(r, Activate(r, m.id), b, m.id)

\* members already there in a version that fits are adopted without a fetch
TakeMember(t, b) ==
  LET r == t.r
      m == Head(t.left)
      old == RecordOf(r.d.inv, m.id)
      adopted == IF old.owners = {} THEN r ELSE SetOwners(r, m.id, old.owners \cup {b})
  IN  IF t.left = <<>> THEN t
      ELSE IF ~r.ok THEN [t EXCEPT !.left = <<>>]
      ELSE IF m.id \notin Installed(r.d.inv) THEN t
      ELSE IF old.ver \in m.range THEN [r |-> ActivateMember(adopted, b, m), left |-> Tail(t.left)]
      ELSE IF old.owners # {} /\ OwnersAccept(r.d.inv, m.id, m.ver, old.owners) THEN t
      ELSE [r |-> Fail(r), left |-> <<>>]

TakeMembers(r, b, left) ==
  LET taken[i \in 0..Len(left)] ==
        IF i = 0 THEN [r |-> r, left |-> left] ELSE TakeMember(taken[i - 1], b)
  IN  taken[Len(left)]

-----------------------------------------------------------------------------
\* The calls, and what follows each await.

Put(next, r) == op' = next /\ todo' = r.todo

\* what code that ran leaves of the operator's own choices
HandAfter(h, r) ==
  hand' = h \cap Installed(r.d.inv)

Rest(r) == Put(NoCall, r) /\ HandAfter(hand, r)
Await(step, r, p, ver, left) ==
  /\ Put([at |-> step, pkg |-> p, ver |-> ver, left |-> left, mem |-> r.mem], r)
  /\ HandAfter(hand, r)

\* the package service that a call opens recovers first
Ready == EnsureInitialized(Start(disk))

\* the calls that run to their end without an await
Edit(o, r) ==
  CASE o.name = "remove"     -> RemovePackage(r, o.pkg, o.cascade)
    [] o.name = "select"     -> Select(r, KindOf[o.pkg], o.pkg)
    [] o.name = "enable"     -> Enable(r, o.pkg)
    [] o.name = "disable"    -> Disable(r, o.pkg)
    [] o.name = "activate"   -> Activate(r, o.pkg)
    [] o.name = "deactivate" -> Deactivate(r, o.pkg)
    [] o.name = "configure"  -> Configure(r, o.pkg)

\* what the operator has enabled himself, once call o ended as r
HandOf(o, r) ==
  CASE o.name \in {"remove", "disable", "deactivate"} -> hand \ {o.pkg}
    [] /\ o.name \in {"enable", "activate"}
       /\ r.ok /\ o.pkg \in Installed(r.d.inv)
       /\ RecordOf(r.d.inv, o.pkg).activatedBy = {}  -> hand \cup {o.pkg}
    [] OTHER -> hand

\* a call of the Control API reaches the head of the queue: main is stopped first
Begin ==
  /\ Resting /\ host
  /\ calls < MaxCalls
  /\ calls' = calls + 1
  /\ main' = Down
  /\ UNCHANGED <<disk, host, archive, torn, cut>>

BeginInstall ==
  /\ Begin
  /\ \E o \in Menu : o.name = "install" /\ Await("located", Ready, o.pkg, Nothing, <<>>)

BeginApply ==
  /\ Begin
  /\ \E o \in Menu :
       /\ o.name = "apply"
       /\ Await("completed", Reconcile(WriteJournal(Ready, "apply"), TRUE), Nothing, Nothing, <<>>)

BeginEdit ==
  /\ Begin
  /\ \E o \in {x \in Menu : x.name \notin {"install", "apply"}} : \E r \in {Edit(o, Ready)} :
       Put(NoCall, r) /\ HandAfter(HandOf(o, r), r)

\* code resumed after an await works on the disk of now with the config of then
Resumed == [Start(disk) EXCEPT !.mem = op.mem]
At(step) == op.at = step /\ todo = <<>>
Unseen == UNCHANGED <<disk, host, main, archive, calls, cut>>

SaveCache(r, cache) ==
  LET remembered == [r EXCEPT !.mem = [r.mem EXCEPT !.cache = cache]]
  IN  IF cache = r.mem.cache THEN r
      ELSE Commit(remembered, [r.d EXCEPT !.cache = cache])

\* the members still to do are taken up to the next fetch
Continue(b, t) ==
  IF ~t.r.ok THEN Rest(RemoveBundle([t.r EXCEPT !.ok = TRUE], b, TRUE))
  ELSE IF t.left = <<>> THEN Rest(Reconcile(t.r, FALSE))
  ELSE Await("member", t.r, b, Nothing, t.left)

\* the registry answered, or what was cached stands in for it
Located ==
  /\ At("located")
  /\ \E answer \in Answers(op.pkg) :
       LET r == SaveCache(Resumed, Remember(op.mem.cache, op.pkg, answer))
           ver == ResolveInstallEntry(op.mem.cache, op.pkg, answer)
       IN  IF ver = Nothing THEN Rest(r) ELSE Await("fetched", r, op.pkg, ver, <<>>)
  /\ UNCHANGED torn /\ Unseen

\* the package itself was fetched
Fetched ==
  /\ At("fetched")
  /\ \E how \in Deliveries :
       \E r \in {InstallFiles(Resumed, op.pkg, op.ver, Nothing, how)} :
         /\ torn' = IF r.ok THEN torn \ {op.pkg} ELSE torn
         /\ IF r.ok /\ KindOf[op.pkg] = "bundle"
            THEN Await("resolved", r, op.pkg, Nothing, <<>>)
            ELSE Rest(Reconcile(r, FALSE))
  /\ Unseen

\* the entries heard of are kept, one after the other
SaveHeard(r, members, heard, answer) ==
  LET saved[i \in 0..Len(members)] ==
        IF i = 0 THEN r
        ELSE IF i \in heard
        THEN SaveCache(saved[i - 1],
                       Remember(saved[i - 1].mem.cache, members[i].id, answer[members[i].id]))
        ELSE saved[i - 1]
  IN  saved[Len(members)]

(***************************************************************************)
(* The bundle's members resolve, each to the version embedded in it or to  *)
(* the entry the registry has of it, which must be in range; one that does *)
(* not undoes the bundle.  The registry is asked for one after the other,  *)
(* and no more once one is unknown.                                        *)
(***************************************************************************)
ResolveAll(r, b, members, answer) ==
  LET ver(m) == ResolveMember(r.mem.cache, m, answer)
      heard == {i \in DOMAIN members : /\ members[i].embedded = Nothing
                                       /\ \A j \in 1..i : ver(members[j]) # Nothing}
      chosen == [i \in DOMAIN members |->
                   [id |-> members[i].id, range |-> members[i].range, ver |-> ver(members[i]),
                    activation |-> members[i].activation, embedded |-> members[i].embedded]]
      saved == SaveHeard(r, members, heard, answer)
  IN  IF members # <<>> /\ \A i \in DOMAIN members : ver(members[i]) \in members[i].range
      THEN Continue(b, TakeMembers(saved, b, chosen))
      ELSE Rest(RemoveFiles(saved, b, TRUE))

Resolved ==
  /\ At("resolved")
  /\ LET members == Members[op.pkg]
         asked == {members[i].id : i \in {j \in DOMAIN members : members[j].embedded = Nothing}}
     IN  \E answer \in {f \in [asked -> Versions \cup {Nothing}] : \A q \in asked : f[q] \in Answers(q)} :
           ResolveAll(Resumed, op.pkg, members, answer)
  /\ UNCHANGED torn /\ Unseen

\* an embedded member is copied from the bundle, with the dependencies it has
MemberFetched ==
  /\ At("member")
  /\ LET m == Head(op.left)
     IN  \E how \in IF m.embedded = Nothing THEN Deliveries ELSE Deliveries \ {"unready"} :
         \E r \in {InstallFiles(Resumed, m.id, m.ver, op.pkg, how)} :
           \E t \in {TakeMembers(ActivateMember(r, op.pkg, m), op.pkg, Tail(op.left))} :
             Continue(op.pkg, t) /\ torn' = IF r.ok THEN torn \ {m.id} ELSE torn
  /\ Unseen

\* the key the selected transport fills in
CompleteConfig(r) ==
  LET cfg == r.mem.cfg
      selected == {p \in cfg.desired : KindOf[p] = "transport"}
      p == CHOOSE x \in selected : TRUE
      keys == cfg.root["transport"] \cup cfg.own[p] \cup {p}
      completed == [cfg EXCEPT !.own[p] = keys, !.root["transport"] = keys]
  IN  IF selected = {} THEN r ELSE Configured(r, completed)

Apply(r) ==
  LET started == Configured(r, [r.mem.cfg EXCEPT !.setup = TRUE])
  IN  Reconcile(SaveInventory(SaveConfig(started), r.d.inv, r.mem.cfg.desired), TRUE)

\* the transport package completed its configuration, or there is none
Completed ==
  /\ At("completed")
  /\ \E r \in {CompleteConfig(Resumed)} :
       Rest(Journalled("apply",
              IF Startable(r.mem.cfg, disk.inv, disk.applied) THEN Apply(r)
              ELSE Fail(MarkSetupIncomplete(r))))
  /\ UNCHANGED torn /\ Unseen

CompleteFails ==
  /\ At("completed")
  /\ Rest(Journalled("apply", Fail(MarkSetupIncomplete(Resumed))))
  /\ UNCHANGED torn /\ Unseen

-----------------------------------------------------------------------------
\* What the Control API does beside the queue, at any await of a call.

\* search, package info and setup export open the package service, which
\* recovers what is pending, under a worker that may be running
Inspect ==
  /\ todo = <<>> /\ host
  /\ todo' = Ready.todo
  /\ todo' # <<>>
  /\ main' = [main EXCEPT !.behind = main.st = "up"]
  /\ HandAfter(hand, Ready)
  /\ UNCHANGED <<disk, host, archive, calls, cut, op, torn>>

\* a search has found package p
Search ==
  /\ todo = <<>> /\ host
  /\ calls < MaxCalls /\ calls' = calls + 1
  /\ \E p \in Searched, answer \in Versions :
       /\ answer \in Answers(p) /\ answer # disk.cache[p]
       /\ disk' = [disk EXCEPT !.cache[p] = answer]
  /\ UNCHANGED <<todo, op, host, main, archive, hand, torn, cut>>

SetDefaultModel(m) ==
  /\ todo = <<>> /\ host
  /\ calls < MaxCalls /\ calls' = calls + 1
  /\ disk.cfg.model # m
  /\ disk' = [disk EXCEPT !.cfg.model = m]
  /\ UNCHANGED <<todo, op, host, main, archive, hand, torn, cut>>

\* the host serves the Control API through the adapter package selected
StartHost ==
  /\ ~host
  /\ disk.cfg # Nothing
  /\ LoadApiAdapter(disk) # {}
  /\ host' = TRUE
  /\ UNCHANGED <<disk, todo, op, main, archive, calls, hand, torn, cut>>

(***************************************************************************)
(* A worker loads a copy of the transport and one of the provider selected,*)
(* or fails; then every copy of every plugin applied, whose actions must   *)
(* be distinct, and the places of the skills applied.                      *)
(***************************************************************************)
Booted(copies) ==
  [Down EXCEPT !.st = "up", !.loaded = copies, !.plugins = LoadPlugins(disk),
               !.skills = SkillRoots(disk)]

Boots ==
  LET selected == LoadTransport(disk) \X LoadProvider(disk)
  IN  IF selected = {} \/ ActionsClash(LoadPlugins(disk))
      THEN {[Down EXCEPT !.st = "failed"]}
      ELSE {Booted(copies) : copies \in selected}

\* the worker is started in turn with the calls
StartMain ==
  /\ Resting /\ host
  /\ main.st # "up"
  /\ Startable(disk.cfg, disk.inv, disk.applied)
  /\ main' \in Boots
  /\ UNCHANGED <<disk, todo, op, host, archive, calls, hand, torn, cut>>

\* every file is copied before the first await
Backup ==
  /\ todo = <<>> /\ host
  /\ archive = Nothing
  /\ archive' = disk
  /\ cut' = cut \cup (IF op.at = "member" \/ "disk" \in cut THEN {"archive"} ELSE {})
  /\ UNCHANGED <<disk, todo, op, host, main, calls, hand, torn>>

\* the import clears away what is there and copies the archive in, file by file
Import ==
  /\ Resting /\ host
  /\ archive # Nothing
  /\ calls < MaxCalls
  /\ LET emptied == [disk EXCEPT !.dir = [p \in Packages |-> Nothing], !.inv = <<>>, !.applied = {},
                                 !.aside = [p \in Packages |-> Nothing], !.journal = Nothing,
                                 !.beside = [p \in Packages |-> {}],
                                 !.cache = [p \in Packages |-> Nothing]]
         bare == [emptied EXCEPT !.cfg = Nothing]
         blank == [bare EXCEPT !.sec = {}]
         written == [blank EXCEPT !.cfg = archive.cfg]
         secret == [written EXCEPT !.sec = archive.sec]
     IN  todo' = <<emptied, bare, blank, written, secret, archive>>
  /\ calls' = calls + 1
  /\ main' = Down
  /\ hand' = EnabledByHand(archive)
  /\ torn' = {p \in Installed(archive.inv) : archive.dir[p] # RecordOf(archive.inv, p).ver}
  /\ cut' = IF "archive" \in cut THEN {"archive", "disk"} ELSE {}
  /\ UNCHANGED <<disk, op, host, archive>>

-----------------------------------------------------------------------------
\* One write reaches the disk, or the process dies before it.

Write ==
  /\ todo # <<>>
  /\ disk' = Head(todo)
  /\ todo' = Tail(todo)
  /\ UNCHANGED <<op, host, main, archive, calls, hand, torn, cut>>

Crash ==
  /\ ~Resting
  /\ op' = NoCall
  /\ todo' = <<>>
  /\ host' = FALSE
  /\ main' = Down
  /\ hand' = EnabledByHand(disk)
  /\ torn' = torn \cup Mismatched(disk)
  /\ cut' = cut \cup (IF disk.journal = Nothing THEN {"disk"} ELSE {})
  /\ UNCHANGED <<disk, archive, calls>>

-----------------------------------------------------------------------------
PackagesInit ==
  /\ disk \in InitialDisks
  /\ todo = <<>>
  /\ op = NoCall
  /\ host = TRUE
  /\ main = Down
  /\ archive = Nothing
  /\ calls = 0
  /\ hand = EnabledByHand(disk)
  /\ torn = {}
  /\ cut = {}

PackagesNext ==
  \/ BeginInstall \/ BeginApply \/ BeginEdit \/ Located \/ Fetched \/ Resolved \/ MemberFetched
  \/ Completed \/ CompleteFails \/ Inspect \/ Search \/ (\E m \in Models : SetDefaultModel(m))
  \/ StartHost \/ StartMain \/ Backup \/ Import \/ Write \/ Crash

PackagesSpec == PackagesInit /\ [][PackagesNext]_packageVars /\ WF_packageVars(Write)

-----------------------------------------------------------------------------
PackagesOK == disk \in Disks /\ main.st \in {"down", "up", "failed"}

\* nothing runs and nothing is left to recover
Settled == Resting /\ disk.cfg # Nothing /\ disk.journal = Nothing /\ Tidy(disk)

(***************************************************************************)
(* When nothing runs and nothing is left to recover, every record of the   *)
(* inventory has its directory, with the version it names: removals,       *)
(* replacements and bundles that failed, and crashes of removals between   *)
(* any two writes, included.  Only a crash in the middle of a replacement, *)
(* which no journal covers, leaves another directory (installer.install).  *)
(***************************************************************************)
RecordsOnDisk == Settled => Mismatched(disk) \subseteq torn

\* What is on disk can be read again, after every operation and every recovery.
RecordsSound == PackagesOK /\ RecordsOnDisk

(***************************************************************************)
(* Configuration, inventory and what was applied agree on disk, once       *)
(* nothing runs and nothing is left to recover, unless some call that      *)
(* brought it there was cut in two (reconcileDesiredAndAppliedState).      *)
(***************************************************************************)
StateAgrees == Settled /\ "disk" \notin cut => Agrees(disk)

(***************************************************************************)
(* A plugin or skill the operator enabled himself, when no bundle had, is  *)
(* still enabled whatever bundles came and went since; and so is one that  *)
(* the disk showed so when a crash or an import began, whatever was        *)
(* recovered from there (shouldTrackActivation,                            *)
(* removeBundleOwnedActivation).                                           *)
(***************************************************************************)
ManualStays ==
  Resting => \A p \in hand : KeyOf[p] = NoKey => p \in disk.cfg.desired

(***************************************************************************)
(* A worker that came up runs the versions the inventory names: of the     *)
(* transport and provider selected, and of every plugin applied, each once,*)
(* and it finds every skill applied.  The copies that failed installs and  *)
(* crashes leave beside a package are never cleared away: a plugin with one*)
(* is loaded twice, and an older copy is what a worker finds of a transport*)
(* while a removal that a crash cut has it set aside.  A worker that fails *)
(* to start has such a plugin, or a package a crash cut.  The other        *)
(* exceptions are recoveries under the running worker.                     *)
(***************************************************************************)
Littered == {p \in Packages : disk.beside[p] # {}}
Emptied == {p \in Packages : disk.dir[p] = Nothing}
VersionOf(p) == RecordOf(disk.inv, p).ver

WorkerHasWhatIsSet ==
  Resting /\ ~main.behind =>
    /\ main.st = "up" =>
         /\ \A p \in Chosen(disk, "transport") \ (torn \cup (Littered \cap Emptied)) :
              main.loaded[1].ver = VersionOf(p)
         /\ \A p \in Chosen(disk, "provider") \ (torn \cup (Littered \cap Emptied)) :
              main.loaded[2].ver = VersionOf(p)
         /\ \A p \in (DOMAIN main.plugins \cap Installed(disk.inv)) \ (torn \cup Littered) :
              {c.ver : c \in main.plugins[p]} = {VersionOf(p)} /\ Cardinality(main.plugins[p]) = 1
         /\ \A p \in main.skills \ ListSkills(disk, main.skills) : p \in torn \/ disk.aside[p] # Nothing
    /\ main.st = "failed" => torn \cup (Littered \cap Acting) # {}

=============================================================================
