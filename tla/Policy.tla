------------------------------- MODULE Policy -------------------------------
(***************************************************************************)
(* What the runtime's policy decides of a guarded action: the capability   *)
(* must be known, owned and granted, and the network profile and the actor *)
(* rules of the profile must allow it.  Actors, prefixes and targets are   *)
(* sequences of segments: a prefix that does not end at a ':' or '/' of    *)
(* the actor does not match it.                                            *)
(***************************************************************************)
EXTENDS Integers, Sequences, FiniteSets, SequencesExt

CONSTANTS
  CoreCapabilities,   \* the capabilities the runtime knows
  LocalCapabilities,  \* those of packages ...
  OwnerOf,            \* ... and the package each belongs to
  Sensitive           \* denied to a runtime actor that no rule names

\* One rule of a profile; an empty allow list allows every capability, no target prefix any target.
Rule(actor, allow, deny, targets) ==
  [actorPrefix |-> actor, allow |-> allow, deny |-> deny, targetPrefixes |-> targets]

Capabilities == CoreCapabilities \cup LocalCapabilities

IsPlugin(actor) == actor # <<>> /\ actor[1] = "plugin"
IsRuntime(actor) == actor # <<>> /\ actor[1] = "runtime"

ActorMatches(actor, prefix) == IsPrefix(prefix, actor)
Matching(rules, r) == {rule \in rules : ActorMatches(r.actor, rule.actorPrefix)}

\* The length of the longest target prefix that matches, 0 when none is asked for; -1: not applicable.
Longest(lengths) == CHOOSE n \in lengths : \A m \in lengths : m <= n
TargetLength(rule, target) ==
  IF rule.targetPrefixes = {} THEN 0
  ELSE Longest({-1} \cup {Len(prefix) : prefix \in {p \in rule.targetPrefixes : IsPrefix(p, target)}})

Applicable(rules, r) == {rule \in Matching(rules, r) : TargetLength(rule, r.target) >= 0}

\* The rules that decide: the longest actor prefix first, then the longest target prefix.
ActorSpecific(rules) ==
  {rule \in rules : Len(rule.actorPrefix) = Longest({Len(q.actorPrefix) : q \in rules})}
TargetSpecific(rules, r) ==
  {rule \in rules : TargetLength(rule, r.target) = Longest({TargetLength(q, r.target) : q \in rules})}
Resolved(rules, r) ==
  IF Applicable(rules, r) = {} THEN {} ELSE TargetSpecific(ActorSpecific(Applicable(rules, r)), r)

Permits(rule, action) == rule.allow = {} \/ action \in rule.allow

\* Without any rule for the actor: a plugin is denied, the runtime what is sensitive.
UnmatchedAllowed(r) == ~IsPlugin(r.actor) /\ ~(IsRuntime(r.actor) /\ r.action \in Sensitive)

ActorAllows(rules, r) ==
  IF Matching(rules, r) = {} THEN UnmatchedAllowed(r)
  ELSE /\ \A rule \in Resolved(rules, r) : r.action \notin rule.deny
       /\ \E rule \in Resolved(rules, r) : Permits(rule, r.action)

NetworkAllows(network, r) ==
  r.action = "net.connect" => network.mode = "allowlist" /\ r.target \in network.allowlist

OwnsCapability(r) ==
  r.action \in LocalCapabilities => IsPlugin(r.actor) /\ Tail(r.actor) = OwnerOf[r.action]

Evaluate(profile, r) ==
  /\ profile.denyUnknown => r.action \in Capabilities
  /\ OwnsCapability(r)
  /\ r.action \in profile.granted
  /\ NetworkAllows(profile.network, r)
  /\ ActorAllows(profile.rules, r)

-----------------------------------------------------------------------------
\* One rule speaks of the request more exactly than another.
MoreExact(p, q, r) ==
  \/ Len(p.actorPrefix) > Len(q.actorPrefix)
  \/ /\ Len(p.actorPrefix) = Len(q.actorPrefix)
     /\ TargetLength(p, r.target) > TargetLength(q, r.target)

\* The decision that a profile stands for: among the rules that apply, those than which none is
\* more exact; one denial decides, and without any rule for the actor the default does.
Meant(profile, r) ==
  LET best == {p \in Applicable(profile.rules, r) :
                 \A q \in Applicable(profile.rules, r) : ~MoreExact(q, p, r)}
      named == \E rule \in profile.rules : IsPrefix(rule.actorPrefix, r.actor)
  IN /\ r.action \in profile.granted
     /\ r.action \in LocalCapabilities => r.actor = <<"plugin">> \o OwnerOf[r.action]
     /\ profile.denyUnknown => r.action \in Capabilities
     /\ r.action = "net.connect" => profile.network.mode = "allowlist" /\ r.target \in profile.network.allowlist
     /\ IF named
        THEN /\ \E p \in best : p.allow = {} \/ r.action \in p.allow
             /\ ~\E p \in best : r.action \in p.deny
        ELSE \/ IsRuntime(r.actor) /\ r.action \notin Sensitive
             \/ ~IsPlugin(r.actor) /\ ~IsRuntime(r.actor)
=============================================================================
