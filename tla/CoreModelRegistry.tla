-------------------------- MODULE CoreModelRegistry --------------------------
(***************************************************************************)
(* The registry of core operations models                                  *)
(* (server/coreOperationsModelRegistry.ts): a manifest names the active    *)
(* model and the one to fall back to, each pinned by its digest; an        *)
(* operator's command activates another.  Commands run side by side and    *)
(* may die; a report may be damaged on disk (its digest, its data set or   *)
(* one of its source files no longer matches, or a gate of it fails).      *)
(***************************************************************************)
EXTENDS Naturals, FiniteSets

CONSTANTS
    Model, Legacy,         \* reports; the one used while there is no manifest
    Command,               \* runs of switchCoreOperationsModel
    None,
    MaxActivations, MaxDamage, MaxDeaths     \* bounds

ASSUME RegistryAssumption ==
    /\ Legacy \in Model /\ None \notin Model /\ IsFiniteSet(Model)
    /\ {MaxActivations, MaxDamage, MaxDeaths} \subseteq Nat

VARIABLES
    manifest,        \* [active, rollback], or NoManifest
    damaged,         \* models whose report no longer verifies
    command,         \* per command, where it is and what it has read
    manifests,       \* history: every manifest that was in force
    receipted,        \* manifests with a receipt
    activations, deaths

registryVars == <<manifest, damaged, command, manifests, receipted, activations, deaths>>

NoManifest == [active |-> None, rollback |-> None]
Manifest == [active: Model, rollback: Model]
Idle == [at |-> "idle", candidate |-> None, rollback |-> None, sound |-> {}]

RegistryTypeOK ==
    /\ manifest \in Manifest \cup {NoManifest}
    /\ damaged \subseteq Model
    /\ \A c \in Command :
        /\ command[c].at \in {"idle", "read", "loaded", "written"}
        /\ command[c].at \in {"loaded", "written"} =>
            {command[c].candidate, command[c].rollback} \subseteq Model
    /\ receipted \subseteq manifests /\ manifests \subseteq Manifest
    /\ activations \in 0..MaxActivations /\ deaths \in 0..MaxDeaths

RegistryInit ==
    /\ manifest = NoManifest /\ damaged = {} /\ manifests = {} /\ receipted = {}
    /\ command = [c \in Command |-> Idle]
    /\ activations = 0 /\ deaths = 0

----------------------------------------------------------------------------
\* readVerified(), with or without an expected reference.
Verifies(m) == m \in Model \ damaged

\* Mutation: what the manifest says is active is taken for what is.
LoadedUnverified ==
    IF manifest = NoManifest THEN [model |-> Legacy, selection |-> "legacy-default"]
    ELSE [model |-> manifest.active, selection |-> "active"]

\* loadActiveCoreModel(): the active model, or the pinned previous one.
Loaded ==
    IF manifest = NoManifest
    THEN [model |-> IF Verifies(Legacy) THEN Legacy ELSE None, selection |-> "legacy-default"]
    ELSE IF Verifies(manifest.active)
         THEN [model |-> manifest.active, selection |-> "active"]
         ELSE [model |-> IF Verifies(manifest.rollback) THEN manifest.rollback ELSE None,
               selection |-> "rollback"]

Become(c, stage) == command' = [command EXCEPT ![c] = stage]

\* activateCoreModel(m) reads the candidate; `sound` remembers what verified then.
Activate(c, m) ==
    /\ command[c].at = "idle" /\ activations < MaxActivations
    /\ activations' = activations + 1
    /\ Verifies(m)
    /\ Become(c, [at |-> "read", candidate |-> m, rollback |-> None, sound |-> Model \ damaged])
    /\ UNCHANGED <<manifest, damaged, manifests, receipted, deaths>>

\* It loads the model in use; nothing loads, or the candidate is in use: it ends.
LoadPrevious(c) ==
    /\ command[c].at = "read"
    /\ IF Loaded \in {[model |-> None, selection |-> Loaded.selection],
                      [model |-> command[c].candidate, selection |-> "active"]}
       THEN Become(c, Idle)
       ELSE Become(c, [command[c] EXCEPT !.at = "loaded", !.rollback = Loaded.model])
    /\ UNCHANGED <<manifest, damaged, manifests, receipted, activations, deaths>>

\* The new manifest is written aside and renamed.
Write(c) ==
    /\ command[c].at = "loaded"
    /\ manifest' = [active |-> command[c].candidate, rollback |-> command[c].rollback]
    /\ manifests' = manifests \cup {manifest'}
    /\ Become(c, [command[c] EXCEPT !.at = "written"])
    /\ UNCHANGED <<damaged, receipted, activations, deaths>>

Receipt(c) ==
    /\ command[c].at = "written"
    /\ receipted' = receipted \cup
            {[active |-> command[c].candidate, rollback |-> command[c].rollback]}
    /\ Become(c, Idle)
    /\ UNCHANGED <<manifest, damaged, manifests, activations, deaths>>

Die(c) ==
    /\ command[c] # Idle /\ deaths < MaxDeaths
    /\ deaths' = deaths + 1
    /\ Become(c, Idle)
    /\ UNCHANGED <<manifest, damaged, manifests, receipted, activations>>

Damage(m) ==
    /\ m \notin damaged /\ Cardinality(damaged) < MaxDamage
    /\ damaged' = damaged \cup {m}
    /\ UNCHANGED <<manifest, command, manifests, receipted, activations, deaths>>

RegistryNext ==
    \/ \E c \in Command :
        \/ \E m \in Model : Activate(c, m)
        \/ LoadPrevious(c) \/ Write(c) \/ Receipt(c) \/ Die(c)
    \/ \E m \in Model : Damage(m)

RegistrySpec == RegistryInit /\ [][RegistryNext]_registryVars

----------------------------------------------------------------------------
\* A new manifest names two models that both verified after its activation began, whatever
\* other commands wrote meanwhile: only later damage can leave nothing to load.
KeepsAWayBack ==
    [][\A c \in Command : manifest' # manifest /\ command'[c].at = "written" =>
            \/ command[c].at = "written"
            \/ {manifest'.active, manifest'.rollback} \subseteq command[c].sound
      ]_registryVars

\* Every manifest that was ever in force has a receipt as soon as no command is left between
\* the two writes, also when commands overtook one another; only a command that died in
\* between leaves one without.
AllReceipted ==
    deaths = 0 /\ (\A c \in Command : command[c].at # "written") => manifests \subseteq receipted

\* There is a sound model to load or fall back to, and a receipt for how it came there, over
\* overlapping activations, damaged files and commands that die.
ModelsStayLoadable == [](RegistryTypeOK /\ AllReceipted) /\ KeepsAWayBack
=============================================================================
