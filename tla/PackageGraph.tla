---------------------------- MODULE PackageGraph ----------------------------
(***************************************************************************)
(* The decisions that package management takes over an inventory: which    *)
(* installed packages depend on which, whether they form a cycle, which    *)
(* version a bundle's member resolves to, and whether the selected set of  *)
(* packages can start a runtime.  An inventory is a sequence of records    *)
(* [id, ver, owners, activatedBy] in the order of package-inventory.json.  *)
(***************************************************************************)
EXTENDS Naturals, Sequences, FiniteSets, SequencesExt, FiniteSetsExt

CONSTANTS
  Packages,     \* package ids
  KindOf,       \* [Packages -> kinds]
  KeyOf,        \* [Packages -> activation keys \cup {NoKey}]
  NoKey,
  Versions,     \* versions, ordered like numbers
  Dependencies, \* [Packages \X Versions -> Seq([on, active])], of the manifest
  NeedsConfig,  \* packages whose schema requires a key
  Members       \* [Packages -> Seq(Member)], empty but for bundles

Exclusive == {"transport", "provider", "api-adapter"}
Surfaces == {p \in Packages : KindOf[p] # "bundle"}

ASSUME PackagesAssumption ==
  /\ IsFiniteSet(Packages)
  /\ KindOf \in [Packages -> Exclusive \cup {"plugin", "skill", "bundle"}]
  /\ \A p \in Packages : KindOf[p] \in Exclusive => KeyOf[p] # NoKey
  /\ Versions \subseteq Nat
  /\ \A p \in Surfaces : Members[p] = <<>>

-----------------------------------------------------------------------------
\* Records of the inventory.

Installed(inv) == {inv[i].id : i \in DOMAIN inv}
RecordOf(inv, p) == CHOOSE e \in ToSet(inv) : e.id = p

\* the records of the packages in ids, in their order
Only(inv, ids) ==
  LET kept[i \in 0..Len(inv)] ==
        IF i = 0 THEN <<>>
        ELSE IF inv[i].id \in ids THEN Append(kept[i - 1], inv[i]) ELSE kept[i - 1]
  IN  kept[Len(inv)]
Without(inv, p) == Only(inv, Packages \ {p})

DependsOn(e) == Dependencies[e.id, e.ver]

\* packages of other kinds than bundles that name p among their dependencies
Dependents(inv, p) ==
  IF KindOf[p] = "bundle" THEN {}
  ELSE {e.id : e \in {x \in ToSet(inv) :
                 /\ KindOf[x.id] # "bundle"
                 /\ \E i \in DOMAIN DependsOn(x) : DependsOn(x)[i].on = p}}

\* bundles are no nodes of the graph of dependencies
Nodes(inv) == Only(inv, Surfaces)

(***************************************************************************)
(* The cycle search visits the nodes in the order of the inventory, depth  *)
(* first, and reports each node at which a path comes back to itself.  A    *)
(* step enters a node, below the end of the path or where no path is left,  *)
(* or leaves the end of the path.                                           *)
(***************************************************************************)
Adjacent(inv, n) ==
  SelectSeq(DependsOn(RecordOf(inv, n)), LAMBDA d : d.on \in Installed(inv))

Enter(inv, s, n) ==
  LET path == Append(s.path, n)
  IN  [s EXCEPT !.path = path,
                !.closes = @ \cup ({d.on : d \in ToSet(Adjacent(inv, n))} \cap ToSet(path))]

Visit(inv, s) ==
  LET seen == s.visited \cup ToSet(s.path)
      roots == SelectSeq(inv, LAMBDA e : e.id \notin seen)
      below == SelectSeq(Adjacent(inv, Last(s.path)), LAMBDA d : d.on \notin seen)
  IN  IF s.path = <<>>
      THEN IF roots = <<>> THEN s ELSE Enter(inv, s, Head(roots).id)
      ELSE IF below # <<>> THEN Enter(inv, s, Head(below).on)
      ELSE [s EXCEPT !.path = Front(@), !.visited = @ \cup {Last(s.path)}]

CycleNodes(nodes) ==
  LET search[i \in 0..2 * Len(nodes)] ==
        IF i = 0 THEN [path |-> <<>>, visited |-> {}, closes |-> {}]
        ELSE Visit(nodes, search[i - 1])
  IN  search[2 * Len(nodes)].closes

\* activated nodes whose dependencies are missing or inactive
Unmet(nodes, activated) ==
  {e.id : e \in {x \in ToSet(nodes) :
     /\ x.id \in activated
     /\ \E i \in DOMAIN DependsOn(x) :
          LET d == DependsOn(x)[i]
          IN  \/ d.on \notin Installed(nodes)
              \/ d.active /\ d.on \notin activated}}

DependencyErrors(inv, activated) == Unmet(Nodes(inv), activated) \cup CycleNodes(Nodes(inv))

-----------------------------------------------------------------------------
\* Owners.

\* every owning bundle is installed, still names the package, and takes the version
OwnersAccept(inv, p, ver, owners) ==
  \A o \in owners :
    /\ o \in Installed(inv)
    /\ \E i \in DOMAIN Members[o] : Members[o][i].id = p /\ ver \in Members[o][i].range

-----------------------------------------------------------------------------
\* The keys of a surface's configuration: those of the packages in the set.

Effective(cfg, p) == cfg.root[KindOf[p]] \cup cfg.own[p]

\* required keys present, and none undeclared unless the schema lets them be
ConfigValid(cfg, p) ==
  /\ p \in NeedsConfig => p \in Effective(cfg, p)
  /\ KindOf[p] # "api-adapter" => Effective(cfg, p) \subseteq {p}

(***************************************************************************)
(* The runtime can start: one package of each exclusive kind is selected,  *)
(* everything selected is installed, the configuration fits the schemas,   *)
(* and the dependencies hold, among the packages APPLIED last.              *)
(***************************************************************************)
Startable(cfg, inv, applied) ==
  /\ \A k \in Exclusive : \E p \in cfg.desired : KindOf[p] = k
  /\ cfg.desired \subseteq Installed(inv)
  /\ DependencyErrors(inv, applied) = {}
  /\ \A p \in cfg.desired : KindOf[p] \in Exclusive => ConfigValid(cfg, p)
=============================================================================
