--------------------------- MODULE ProfileAuthority ---------------------------
(***************************************************************************)
(* What an agent profile may do: the discovery and inheritance of          *)
(* loro/agent_profiles/registry.py and the narrowing of effective.py.      *)
(*                                                                         *)
(* A behaviour begins with some profile files and a configuration; an      *)
(* agent is then started with one of the profiles.                         *)
(***************************************************************************)
EXTENDS Integers, Sequences, SequencesExt, FiniteSetsExt

CONSTANTS
    ProfileNames,
    Layerings,       \* what a profile file may ask for
    Parents,         \* the lists of profiles a file may extend
    Policies,        \* what the configuration may allow
    Roots,           \* directories that may be workspace roots
    MaxDepth         \* config.agent_profiles.max_reference_depth

Decisions == <<"deny", "ask", "allow">>
Learning  == <<"off", "propose", "auto">>

Unset == "unset"

ASSUME ProfileAuthorityAssumption ==
    /\ Parents \subseteq Seq(ProfileNames) /\ MaxDepth \in Nat /\ Unset \notin ProfileNames
    /\ \A l \in Layerings : /\ l.decision \in Range(Decisions) \union {Unset}
                            /\ l.writeback \in Range(Learning) /\ l.budget \in Nat
    /\ \A p \in Policies : /\ p.decision \in Range(Decisions)
                           /\ p.writeback \in Range(Learning) /\ p.budget \in Nat

VARIABLES
    policy,          \* the configuration: decision, tools, roots, budget, writeback
    files,           \* the file of each profile: what it asks, what it extends
    started          \* the profile an agent started with, and what it got

profileAuthorityVars == <<policy, files, started>>

\* narrow_decision, and the writeback ceiling: the earlier of the two.
Rank(order, d) == CHOOSE i \in DOMAIN order : order[i] = d
Least(order, d, e) == IF Rank(order, d) <= Rank(order, e) THEN d ELSE e

ProfileAuthorityInit ==
    /\ policy \in Policies
    /\ files \in [ProfileNames -> [asks : Layerings, extends : Parents]]
    /\ started = [name |-> "none", layers |-> <<>>, got |-> "none"]

---------------------------------------------------------------------------
\* A profile below those it extends, which are composed first.
Composed(n, lineages) ==
    LET extends == files[n].extends
    IN  [ok    |-> \A i \in DOMAIN extends : lineages[extends[i]].ok,
         names |-> FlattenSeq([i \in DOMAIN extends |-> lineages[extends[i]].names]) \o <<n>>]

\* _load_composed: the layers of a profile, its ancestors' first.  A cycle runs
\* into the depth limit if it is not noticed before, so it is refused anyway.
Lineages ==
    LET Lineage[left \in 0..MaxDepth] ==
            IF left = 0 THEN [n \in ProfileNames |-> [ok |-> FALSE, names |-> <<>>]]
            ELSE [n \in ProfileNames |-> Composed(n, Lineage[left - 1])]
    IN  Lineage[MaxDepth]

LayersOf(names) == [i \in DOMAIN names |-> files[names[i]].asks]

\* _deep_merge, for the model: the last layer that names one.
RequestedModel(layers) ==
    LET naming == {i \in DOMAIN layers : layers[i].model # Unset}
    IN  IF naming = {} THEN Unset ELSE layers[Max(naming)].model

\* _resolve_model: an authorized route, or the configured default.
ResolvedModel(requested) ==
    IF requested \in policy.routes THEN requested ELSE policy.model

NarrowTools(tools, layer) ==
    (IF layer.policy = "allowlist" THEN tools \intersect layer.allow ELSE tools) \ layer.deny

\* _intersect_roots keeps what lies inside the roots so far.
NarrowRoots(roots, layer) ==
    IF layer.roots = {} THEN roots ELSE roots \intersect layer.roots

NarrowBudget(budget, layer) ==
    IF layer.budget = 0 THEN budget
    ELSE IF budget = 0 THEN layer.budget ELSE Min({budget, layer.budget})

\* Subagents are named by the profile: none are inherited from the policy.
NarrowSubagents(subagents, layer, available) ==
    IF layer.subagents = {Unset} THEN subagents
    ELSE IF subagents = {Unset} THEN layer.subagents \intersect available
    ELSE subagents \intersect layer.subagents \intersect available

\* Faulty variant: a layer replaces the decision of those below it.
NarrowToLayer(decision, layer) ==
    IF layer.decision = Unset THEN decision ELSE layer.decision

\* The permissions, for one of the ten fields.
NarrowDecision(decision, layer) ==
    IF layer.decision = Unset THEN decision ELSE Least(Decisions, decision, layer.decision)

NarrowedBy(got, layer, available) ==
    [decision  |-> NarrowDecision(got.decision, layer),
     tools     |-> NarrowTools(got.tools, layer),
     roots     |-> NarrowRoots(got.roots, layer),
     budget    |-> NarrowBudget(got.budget, layer),
     subagents |-> NarrowSubagents(got.subagents, layer, available)]

\* The writeback of a profile on its own; a composed one does not learn.
Writeback(layers) ==
    IF Len(layers) > 1 THEN "off"
    ELSE Least(Learning, policy.writeback, layers[1].writeback)

\* What the configuration grants, narrowed by one layer after the other.
Narrowed(layers, available) ==
    LET Granting[i \in 0..Len(layers)] ==
            IF i = 0
            THEN [decision |-> policy.decision, tools |-> policy.tools, roots |-> policy.roots,
                  budget |-> policy.budget, subagents |-> {Unset}]
            ELSE NarrowedBy(Granting[i - 1], layers[i], available)
    IN  Granting[Len(layers)]

\* build_effective_profile.
EffectiveOf(names) ==
    LET layers == LayersOf(names)
        got == Narrowed(layers, ProfileNames \ Range(names))
    IN  [decision  |-> got.decision, tools |-> got.tools, roots |-> got.roots,
         budget    |-> got.budget, subagents |-> got.subagents \ {Unset},
         model     |-> ResolvedModel(RequestedModel(layers)),
         writeback |-> Writeback(layers)]

\* AgentRuntime with a profile: effective_config, or an error.
StartWith(n) ==
    LET lineage == Lineages[n]
    IN  /\ started.name = "none"
        /\ started' = IF lineage.ok
                      THEN [name |-> n, layers |-> lineage.names,
                            got |-> EffectiveOf(lineage.names)]
                      ELSE [name |-> n, layers |-> <<>>, got |-> "refused"]
        /\ UNCHANGED <<policy, files>>

\* The agent ends.
EndAgent ==
    /\ started.name # "none"
    /\ started' = [name |-> "none", layers |-> <<>>, got |-> "none"]
    /\ UNCHANGED <<policy, files>>

ProfileAuthorityNext == (\E n \in ProfileNames : StartWith(n)) \/ EndAgent

ProfileAuthoritySpec == ProfileAuthorityInit /\ [][ProfileAuthorityNext]_profileAuthorityVars

---------------------------------------------------------------------------
Granted == started.layers # <<>>

NoMore(order, d, limits) == \A e \in limits : Rank(order, d) <= Rank(order, e)

\* Whatever a profile and its ancestors ask for, and in whatever order they are
\* composed, the agent gets no more than the configuration allows and no more
\* than any of them asks for (build_effective_profile).
AuthorityNarrows == Granted =>
    LET layers == Range(LayersOf(started.layers))
        got == started.got
    IN  /\ NoMore(Decisions, got.decision,
                  ({policy.decision} \union {l.decision : l \in layers}) \ {Unset})
        /\ NoMore(Learning, got.writeback,
                  {policy.writeback} \union {l.writeback : l \in layers})
        /\ got.tools \subseteq policy.tools
        /\ \A l \in layers :
              /\ l.policy = "allowlist" => got.tools \subseteq l.allow
              /\ got.tools \intersect l.deny = {}
              /\ l.budget # 0 => got.budget \in 1..l.budget
              /\ l.subagents # {Unset} => got.subagents \subseteq l.subagents
        /\ policy.budget # 0 => got.budget \in 1..policy.budget
        /\ got.model \in policy.routes \union {policy.model}

\* filesystem_resource: no workspace roots confine nothing.
Reach(roots) == IF roots = {} THEN Roots ELSE roots

\* An agent with a profile reaches no directory the configuration keeps from an
\* agent without one ("workspace roots must remain contained",
\* docs/agent-profiles.md).
RootsContained == Granted => Reach(started.got.roots) \subseteq Reach(policy.roots)
=============================================================================
