--------------------------- MODULE PackageSources ---------------------------
(***************************************************************************)
(* How a package comes from the registry to the installer, and from its    *)
(* directory into a worker.  What npm may answer about a package is a set  *)
(* of listings, what a download may meet a set of parcels; an archive is   *)
(* what the checks on it tell apart.                                       *)
(***************************************************************************)
EXTENDS PackageGraph

CONSTANTS
  Nothing,         \* no version, no package
  Listings,     \* [Packages -> SUBSET [hint, latest, versions, named, sealed]]
  Parcels,      \* SUBSET [hops, size, altered, archive, bundled]
  MaxRedirects, MaxSize, MaxFiles, \* limits of packageSourceLimits.ts
  Acting        \* plugins that contribute actions

\* a bundle names packages that are no bundles, some of them embedded in it
Member ==
  [id : Surfaces, range : SUBSET Versions, activation : BOOLEAN,
   embedded : Versions \cup {Nothing}]

ASSUME LimitsAssumption == MaxRedirects \in Nat /\ MaxSize \in Nat /\ MaxFiles \in Nat
ASSUME SourcesAssumption ==
  /\ Nothing \notin Versions /\ Nothing \notin Packages
  /\ Members \in [Packages -> Seq(Member)]
  /\ \A p \in Packages : \A l \in Listings[p] :
       /\ l.versions \subseteq Versions
       /\ l.versions # {} => \E v \in l.versions : \A w \in l.versions : w <= v

-----------------------------------------------------------------------------
\* The registry.

\* the version the search named, else the latest, else the highest
ResolveVersion(l) ==
  CASE l.hint \in l.versions   -> l.hint
    [] l.latest \in l.versions -> l.latest
    [] l.versions # {}         -> Max(l.versions)
    [] OTHER                   -> Nothing

\* an entry is published under the package's own name, with an integrity
ConvertVersion(l) == IF l.named /\ l.sealed THEN ResolveVersion(l) ELSE Nothing

\* Nothing: npm is out of reach, or knows no such package
Answers(p) == {ConvertVersion(l) : l \in Listings[p]} \cup {Nothing}

Remember(cache, p, answer) == IF answer = Nothing THEN cache ELSE [cache EXCEPT ![p] = answer]

\* what was seen last stands in for what npm does not answer
ResolveInstallEntry(cache, p, answer) == IF answer = Nothing THEN cache[p] ELSE answer

\* the version of a bundle's member: the one embedded, or the registry's
ResolveMember(cache, m, answer) ==
  IF m.embedded # Nothing THEN m.embedded ELSE ResolveInstallEntry(cache, m.id, answer[m.id])

-----------------------------------------------------------------------------
\* Archives.

\* the response that ends the chain of redirects
Arrival(parcel) ==
  LET met == SubSeq(parcel.hops, 1, Min({MaxRedirects + 1, Len(parcel.hops)}))
      ends == {i \in DOMAIN met : met[i] # "moved"}
  IN  IF ends = {} THEN "redirect" ELSE met[Min(ends)]

DownloadRemoteArchive(parcel) ==
  CASE Arrival(parcel) # "served" -> Arrival(parcel)
    [] parcel.size > MaxSize      -> "size"
    [] parcel.altered             -> "checksum"
    [] OTHER                      -> "served"

\* every entry is a file or a directory inside the archive, and not too many are
ExtractArchive(a) == a.inside /\ ~a.links /\ a.files <= MaxFiles
FindBundleRoot(a) == a.roots = 1
Obtained(a) == ExtractArchive(a) /\ FindBundleRoot(a)

\* the manifest names the package and the version that were asked for
AsExpected(a) == a.expected
HydrateDependencies(a) == a.hydrates
ValidateInstalledPackage(a) == a.complete

\* a copy shipped with the program stands in for an archive out of reach, never
\* for one that was altered, and must carry the digest asked for
FallbackEligible(reached) == reached \notin {"checksum", "validation"}
VerifyBundledArchive(a) == ~a.altered

ResolvePackageSource(parcel) ==
  LET reached == DownloadRemoteArchive(parcel)
  IN  CASE reached = "served" -> <<parcel.archive>>
        [] FallbackEligible(reached) -> SelectSeq(parcel.bundled, VerifyBundledArchive)
        [] OTHER -> <<>>

\* how the fetch of a package ends: refused before a copy of it is staged, its
\* own dependencies not installed, not installable, or ready
Delivery(parcel) ==
  LET a == ResolvePackageSource(parcel)
  IN  CASE a = <<>>              -> "refused"
        [] ~Obtained(Head(a)) \/ ~AsExpected(Head(a)) -> "refused"
        [] ~HydrateDependencies(Head(a))              -> "unready"
        [] ~ValidateInstalledPackage(Head(a))         -> "unsound"
        [] OTHER                                      -> "ready"

Deliveries == {Delivery(parcel) : parcel \in Parcels}

-----------------------------------------------------------------------------
(***************************************************************************)
(* The directories of a package: its place, and beside it those that       *)
(* operations made and left: [at, ver].  The loaders walk all of them, in  *)
(* the order of their names: place, backup, removing, staging.             *)
(***************************************************************************)
CopiesOf(d, p) ==
  {[at |-> "place", ver |-> v] : v \in {d.dir[p]} \ {Nothing}}
  \cup {[at |-> "removing", ver |-> v] : v \in {d.aside[p]} \ {Nothing}}
  \cup d.beside[p]

\* mutant: the copy made last comes first
LastFirst(copies) ==
  LET staged == {c \in copies : c.at = "staging"}
  IN  IF staged # {} THEN staged ELSE copies

First(copies) ==
  LET named(at) == {c \in copies : c.at = at}
  IN  IF named("place") # {} THEN named("place")
      ELSE IF named("backup") # {} THEN named("backup")
      ELSE IF named("removing") # {} THEN named("removing")
      ELSE copies

Chosen(d, kind) == {p \in d.cfg.desired : KindOf[p] = kind}

\* the copies of the selected package that a loader may come upon first
LoadTransport(d) == UNION {First(CopiesOf(d, p)) : p \in Chosen(d, "transport")}
LoadProvider(d) == UNION {First(CopiesOf(d, p)) : p \in Chosen(d, "provider")}
LoadApiAdapter(d) == UNION {First(CopiesOf(d, p)) : p \in Chosen(d, "api-adapter")}

\* every copy of a plugin applied, wherever it lies
LoadPlugins(d) ==
  [p \in {q \in d.applied : KindOf[q] = "plugin"} |-> CopiesOf(d, p)]

\* the skills whose directories a worker reads
SkillRoots(d) == {p \in d.applied : KindOf[p] = "skill" /\ p \in Installed(d.inv)}

\* a skill is read in its place, whenever it is asked for
ListSkills(d, roots) == {p \in roots : d.dir[p] # Nothing}

\* two copies of a plugin bring each of their actions twice
ActionsClash(plugins) == \E p \in DOMAIN plugins \cap Acting : Cardinality(plugins[p]) > 1
=============================================================================
