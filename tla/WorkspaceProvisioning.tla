------------------------ MODULE WorkspaceProvisioning ------------------------
(***************************************************************************)
(* WorkspaceService::provision: every instance of a deployment brings the  *)
(* registry - binding, projects, profiles, grants - up to its              *)
(* configuration when it starts.  It reads the registry table by table and *)
(* commits what is missing in one transaction; instances start at the same *)
(* time, with configurations that differ, while operators change profiles. *)
(***************************************************************************)
EXTENDS Naturals, FiniteSets

CONSTANTS
    Instance,       \* of the deployment; each provisions once
    Pin, Project, Profile,
    Config,         \* the configurations the instances may have
    Unset,          \* no binding, no pin, no profile
    MaxEdits        \* bound: what operators do to profiles

(* The checks of WorkspaceService::validate.  A policy names its project.  *)
ASSUME ProvisioningAssumption ==
    /\ MaxEdits \in Nat
    /\ Unset \notin Pin \cup Instance /\ Pin \cap Instance = {}
    /\ \A c \in Config :
          /\ c.pin \in Pin \cup {Unset}
          /\ c.projects \subseteq Project
          /\ \A i \in Profile : c.profiles[i] # Unset => c.profiles[i].project \in c.projects
          /\ \A g \in c.grants : g.project \in c.projects
          /\ \A i, j \in Profile : \A d \in Config : \A b \in BOOLEAN :
                [policy |-> c.profiles[i], digest |-> d.profiles[j], enabled |-> b] # Unset

VARIABLES
    registry,       \* the tables, and the history of provisioned profiles
    provision,      \* the instances: where each is, its configuration, what it read
    removed,        \* history: profiles removed, "raced" if a pass was past reading them
    edits

provisionVars == <<registry, provision, removed, edits>>

EmptyRegistry ==
    [binding |-> Unset, projects |-> {}, profiles |-> [i \in Profile |-> Unset],
     history |-> {}, grants |-> {}]

NotStarted == [pc |-> "idle"]

ProvisionInit ==
    /\ registry = EmptyRegistry
    /\ provision = [n \in Instance |-> NotStarted]
    /\ removed = [i \in Profile |-> "no"]
    /\ edits = 0

(* profile_from_spec: enabled, and sealed with the digest of its policy.   *)
FromSpec(spec) == [policy |-> spec, digest |-> spec, enabled |-> TRUE]

Configured(c) == {i \in Profile : c.profiles[i] # Unset}

-----------------------------------------------------------------------------
(* provision, one step per await.  `seen` fills up with what it has read.  *)

Provisions(n, pc) ==
    provision' = [provision EXCEPT ![n].pc = pc]

Reads(n, at, pc, seen) ==
    /\ provision[n].pc = at
    /\ provision' = [provision EXCEPT ![n] = [@ EXCEPT !.pc = pc, !.seen = seen]]
    /\ UNCHANGED <<registry, removed, edits>>

(* No binding: the pass will bind the pinned workspace or one it mints,    *)
(* which has the name of the instance here.                                *)
ReadBinding(n, c) ==
    LET known == registry.binding
        own == IF c.pin # Unset THEN c.pin ELSE n IN
    /\ provision[n] = NotStarted
    /\ provision' = [provision EXCEPT ![n] =
          [pc |-> IF known = Unset THEN "commit"
                  ELSE IF c.pin \notin {Unset, known} THEN "refused" ELSE "projects",
           config |-> c, binds |-> known = Unset,
           workspace |-> IF known = Unset THEN own ELSE known,
           seen |-> EmptyRegistry]]
    /\ UNCHANGED <<registry, removed, edits>>

ReadProjects(n) ==
    Reads(n, "projects", "profiles", [provision[n].seen EXCEPT !.projects = registry.projects])
ReadProfiles(n) ==
    Reads(n, "profiles", "history", [provision[n].seen EXCEPT !.profiles = registry.profiles])
ReadGrants(n) ==
    Reads(n, "grants", "commit", [provision[n].seen EXCEPT !.grants = registry.grants])

(* Mutant: what was provisioned before is not looked at.                   *)
ReconcilableByRow(n, past) ==
    LET rows == provision[n].seen.profiles
        specs == provision[n].config.profiles IN
    \A i \in Profile : rows[i] # Unset =>
        /\ rows[i].policy = rows[i].digest
        /\ specs[i] # Unset => rows[i] = FromSpec(specs[i])

(* Every profile carries the policy of its digest; one that is configured  *)
(* is enabled and has the configured policy, or has never been there.      *)
Reconcilable(n, past) ==
    LET rows == provision[n].seen.profiles
        specs == provision[n].config.profiles IN
    /\ \A i \in Profile : rows[i] # Unset => rows[i].policy = rows[i].digest
    /\ \A i \in Profile : specs[i] # Unset =>
          IF rows[i] = Unset THEN i \notin past
          ELSE rows[i].enabled /\ rows[i].digest = specs[i]

ReadHistory(n) ==
    /\ provision[n].pc = "history"
    /\ Provisions(n, IF Reconcilable(n, registry.history) THEN "grants" ELSE "refused")
    /\ UNCHANGED <<registry, removed, edits>>

(* The plan: what the configuration has and the pass has not seen.         *)
NewProjects(p) == p.config.projects \ p.seen.projects
NewProfiles(p) == {i \in Configured(p.config) : p.seen.profiles[i] = Unset}
NewGrants(p) == p.config.grants \ p.seen.grants

(* commit_provision: the whole plan, unless a row of it is there already.  *)
Conflicting(p) ==
    \/ p.binds /\ registry.binding # Unset
    \/ NewProjects(p) \cap registry.projects # {}
    \/ \E i \in NewProfiles(p) : registry.profiles[i] # Unset
    \/ NewGrants(p) \cap registry.grants # {}

CommitPlan(n) ==
    LET p == provision[n] IN
    /\ p.pc = "commit"
    /\ IF Conflicting(p)
       THEN Provisions(n, "refused") /\ UNCHANGED registry
       ELSE /\ registry' =
                 [binding |-> p.workspace,
                  projects |-> registry.projects \cup NewProjects(p),
                  profiles |-> [i \in Profile |->
                     IF i \in NewProfiles(p) THEN FromSpec(p.config.profiles[i])
                     ELSE registry.profiles[i]],
                  history |-> registry.history \cup NewProfiles(p),
                  grants |-> registry.grants \cup NewGrants(p)]
            /\ Provisions(n, "provisioned")
    /\ UNCHANGED <<removed, edits>>

(* The instance stops, or a statement of the store fails.                  *)
Fails(n) ==
    /\ provision[n].pc \notin {"idle", "refused", "provisioned", "failed"}
    /\ Provisions(n, "failed")
    /\ UNCHANGED <<registry, removed, edits>>

-----------------------------------------------------------------------------
(* Operators, in the tables: a profile is disabled, its fields are changed *)
(* without their digest, or it is removed.                                 *)
Edit(i, profile) ==
    /\ profile # registry.profiles[i]
    /\ edits < MaxEdits /\ edits' = edits + 1
    /\ registry' = [registry EXCEPT !.profiles[i] = profile]
    /\ UNCHANGED provision

Present(i) == registry.profiles[i] # Unset

Disable(i) ==
    /\ Present(i) /\ Edit(i, [registry.profiles[i] EXCEPT !.enabled = FALSE])
    /\ UNCHANGED removed

Drift(i) ==
    /\ Present(i)
    /\ \E c \in Config :
          /\ c.profiles[i] # Unset
          /\ c.profiles[i].project = registry.profiles[i].policy.project
          /\ Edit(i, [registry.profiles[i] EXCEPT !.policy = c.profiles[i]])
    /\ UNCHANGED removed

(* A pass that has read the history without the profile still inserts it.  *)
Unaware(n, i) ==
    /\ provision[n].pc \in {"grants", "commit"} /\ ~provision[n].binds
    /\ i \in NewProfiles(provision[n])

RemoveProfile(i) ==
    /\ Present(i) /\ Edit(i, Unset)
    /\ removed' = [removed EXCEPT ![i] =
          IF @ = "raced" \/ \E n \in Instance : Unaware(n, i) THEN "raced" ELSE "quietly"]

ProvisionNext ==
    \/ \E n \in Instance :
          \/ \E c \in Config : ReadBinding(n, c)
          \/ ReadProjects(n) \/ ReadProfiles(n) \/ ReadHistory(n) \/ ReadGrants(n)
          \/ CommitPlan(n) \/ Fails(n)
    \/ \E i \in Profile : Disable(i) \/ Drift(i) \/ RemoveProfile(i)

ProvisionSpec == ProvisionInit /\ [][ProvisionNext]_provisionVars
-----------------------------------------------------------------------------
(* The registry has the shape of its tables, whose foreign keys hold: what *)
(* it has belongs to a workspace, profiles and grants to its projects.     *)
ProvisionTypeOK ==
    /\ registry.binding \in Pin \cup Instance \cup {Unset}
    /\ registry.projects \subseteq Project
    /\ registry.binding = Unset => registry = EmptyRegistry
    /\ \A i \in Profile : registry.profiles[i] # Unset =>
          i \in registry.history /\ registry.profiles[i].policy.project \in registry.projects
    /\ \A g \in registry.grants : g.project \in registry.projects

Provisioned == {n \in Instance : provision[n].pc = "provisioned"}

(* "provisioning binds exactly one stable workspace identity per database  *)
(* and never silently rebinds": passes that succeed speak of one workspace *)
(* and one of them has created it.                                         *)
OneWorkspace ==
    /\ \A n \in Provisioned : provision[n].workspace = registry.binding
    /\ Provisioned # {} => Cardinality({n \in Provisioned : provision[n].binds}) = 1

(* Instances that came up agree on the policy of a profile both configure, *)
(* whatever order they started in, unless it was removed in between.       *)
PassesAgree ==
    \A m, n \in Provisioned :
        \A i \in Configured(provision[m].config) \cap Configured(provision[n].config) :
            \/ removed[i] = "raced"
            \/ provision[m].config.profiles[i] = provision[n].config.profiles[i]

(* "never [...] recreates": a removed profile stays away, except from      *)
(* passes that were past looking for it.                                   *)
RemovedStaysAway ==
    \A i \in Profile : removed[i] = "quietly" => registry.profiles[i] = Unset

(* What a pass that succeeded was configured with is there and has not     *)
(* been taken away by another pass.                                        *)
ConfiguredIsThere ==
    \A n \in Provisioned :
        /\ provision[n].config.projects \subseteq registry.projects
        /\ provision[n].config.grants \subseteq registry.grants
        /\ \A i \in Configured(provision[n].config) :
              registry.profiles[i] = Unset => removed[i] # "no"

ProvisioningSound == OneWorkspace /\ PassesAgree /\ RemovedStaysAway /\ ConfiguredIsThere
=============================================================================
