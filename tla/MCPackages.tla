----------------------------- MODULE MCPackages -----------------------------
(***************************************************************************)
(* A runtime set up with a transport t, a provider p and an API adapter a. *)
(* Plugin g needs skill k active from its version 1 on; version 2 of k     *)
(* needs g.  Bundle b1 embeds k and enables g 1; b2 enables g; b3 embeds   *)
(* g 2 and enables u.  Transport u competes with t.  npm lists g 1, and one*)
(* of the two versions of k at a time.                                     *)
(***************************************************************************)
EXTENDS Packages

MCPackages == {"t", "u", "p", "a", "g", "k", "b1", "b2", "b3"}
MCKindOf ==
  [t |-> "transport", u |-> "transport", p |-> "provider", a |-> "api-adapter",
   g |-> "plugin", k |-> "skill", b1 |-> "bundle", b2 |-> "bundle", b3 |-> "bundle"]
MCKeyOf ==
  [q \in MCPackages |-> IF MCKindOf[q] \in {"transport", "provider", "api-adapter"}
                        THEN MCKindOf[q] ELSE NoKey]
MCDependencies ==
  [c \in MCPackages \X {1, 2} |->
     CASE c[1] = "g" -> <<[on |-> "k", active |-> c[2] = 2]>>
       [] c = <<"k", 2>> -> <<[on |-> "g", active |-> FALSE]>>
       [] OTHER -> <<>>]
MCMembers ==
  [q \in MCPackages |->
     CASE q = "b1" -> <<[id |-> "k", range |-> {1}, activation |-> FALSE, embedded |-> 1],
                        [id |-> "g", range |-> {1}, activation |-> TRUE, embedded |-> Nothing]>>
       [] q = "b2" -> <<[id |-> "g", range |-> {1, 2}, activation |-> TRUE, embedded |-> Nothing]>>
       [] q = "b3" -> <<[id |-> "g", range |-> {2}, activation |-> FALSE, embedded |-> 2],
                        [id |-> "u", range |-> {1}, activation |-> TRUE, embedded |-> Nothing]>>
       [] OTHER -> <<>>]
Listing(hint, latest, versions, named, sealed) ==
  [hint |-> hint, latest |-> latest, versions |-> versions, named |-> named, sealed |-> sealed]
MCListings ==
  [q \in MCPackages |->
     IF q = "g"
     THEN {Listing(1, 2, {1, 2}, TRUE, TRUE), Listing(Nothing, 2, {1, 2}, FALSE, TRUE)}
     ELSE IF q = "k"
     THEN {Listing(1, 2, {1, 2}, TRUE, TRUE), Listing(Nothing, 2, {1, 2}, TRUE, TRUE),
           Listing(Nothing, Nothing, {1, 2}, TRUE, TRUE), Listing(1, 1, {1}, FALSE, TRUE),
           Listing(1, 1, {1}, TRUE, FALSE)}
     ELSE IF q = "t" THEN {Listing(Nothing, 2, {1, 2}, TRUE, TRUE)}
     ELSE {Listing(1, 1, {1}, TRUE, TRUE)}
          \cup (IF q = "b3" THEN {} ELSE {Listing(Nothing, Nothing, {}, TRUE, TRUE)})]

Sound == [inside |-> TRUE, links |-> FALSE, files |-> 1, roots |-> 1, expected |-> TRUE,
          hydrates |-> TRUE, complete |-> TRUE, altered |-> FALSE]
Parcel(hops, size, altered, content, bundled) ==
  [hops |-> hops, size |-> size, altered |-> altered, archive |-> content, bundled |-> bundled]
Sent(content) == Parcel(<<"served">>, 1, FALSE, content, <<>>)
MCParcels ==
  {Sent(Sound), Sent([Sound EXCEPT !.inside = FALSE]), Sent([Sound EXCEPT !.expected = FALSE]),
   Sent([Sound EXCEPT !.hydrates = FALSE]), Sent([Sound EXCEPT !.complete = FALSE]),
   Parcel(<<"served">>, 2, FALSE, Sound, <<Sound>>), Parcel(<<"served">>, 1, TRUE, Sound, <<Sound>>),
   Parcel(<<"moved", "served">>, 1, FALSE, Sound, <<>>),
   Parcel(<<"moved", "moved", "served">>, 1, FALSE, Sound, <<>>),
   Parcel(<<"network">>, 1, FALSE, Sound, <<[Sound EXCEPT !.altered = TRUE]>>)}

Run(name, pkg, cascade) == [name |-> name, pkg |-> pkg, cascade |-> cascade]
MCMenu ==
  {Run("install", q, FALSE) : q \in {"t", "g", "k", "b1", "b2", "b3"}}
  \cup {Run("remove", q, c) : q \in {"k", "b1", "b2"}, c \in BOOLEAN}
  \cup {Run("select", "t", FALSE), Run("enable", "g", FALSE), Run("activate", "u", FALSE),
        Run("deactivate", "t", FALSE), Run("disable", "g", FALSE), Run("configure", "g", FALSE),
        Run("configure", "t", FALSE), Run("apply", Nothing, FALSE), Run("remove", "t", FALSE)}

Fresh(q) == [id |-> q, ver |-> 1, owners |-> {}, activatedBy |-> {}]
\* the packages of seq installed by hand, all but k enabled
DiskWith(seq) ==
  LET here == {seq[i] : i \in DOMAIN seq}
  IN  [dir |-> [q \in MCPackages |-> IF q \in here THEN 1 ELSE Nothing],
       aside |-> [q \in MCPackages |-> Nothing],
       inv |-> [i \in DOMAIN seq |-> Fresh(seq[i])],
       applied |-> here \ {"k"},
       cfg |-> [desired |-> here \ {"k"}, root |-> [kind \in Exclusive |-> {}],
                own |-> [q \in MCPackages |-> {}], setup |-> TRUE, model |-> 0],
       sec |-> {},
       beside |-> [q \in MCPackages |-> {}],
       cache |-> [q \in MCPackages |-> Nothing],
       journal |-> Nothing]
\* t was installed again in version 1, until a crash, and then in version 2
Mended(d) ==
  [d EXCEPT !.dir["t"] = 2, !.inv = <<d.inv[2], d.inv[3], [d.inv[1] EXCEPT !.ver = 2]>>,
            !.beside["t"] = {[at |-> "backup", ver |-> 1], [at |-> "staging", ver |-> 1]}]
\* g belongs to b2
Owned(d) ==
  [d EXCEPT !.inv = [i \in DOMAIN @ |-> IF @[i].id = "g" THEN [@[i] EXCEPT !.owners = {"b2"}] ELSE @[i]],
            !.applied = @ \ {"b2"}, !.cfg.desired = @ \ {"b2"}]
MCInitialDisks ==
  {Mended(DiskWith(<<"t", "p", "a">>)), Owned(DiskWith(<<"t", "p", "a", "k", "b2", "g">>))}
=============================================================================
