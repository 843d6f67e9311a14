--------------------------- MODULE PluginRuntime ---------------------------
(***************************************************************************)
(* The hot-reload core of the server:                                      *)
(* mcp_server/src/runtime/PluginRuntime.cpp with the plugin objects and    *)
(* the published registry it owns.                                         *)
(*                                                                         *)
(* Reload, Remove and Shutdown run under update_mutex_, so at any time at  *)
(* most one of them is in progress: `stage' is where it stands.  Around it *)
(* run, without that mutex, the deployer rewriting the source directory,   *)
(* request handlers taking and dropping registry snapshots, and the client *)
(* that lists capabilities.                                                *)
(*                                                                         *)
(* A LoadedPlugin and the staged copy it was opened from are one value of  *)
(* Ref: the staging sequence number that names its directory, its source   *)
(* path, the SHA-256 recorded for it and the content really copied.        *)
(* shared_ptr ownership is membership: a plugin is unloaded exactly when   *)
(* no holder mentions its Ref (Held).                                      *)
(***************************************************************************)
EXTENDS PluginCatalog, FiniteSets

CONSTANTS
    Requests,        \* request handlers that may hold a snapshot at once
    Retain,          \* config_.retain_generations
    RemovalMayFail,  \* whether removing a staging directory may fail
    MaxStaging       \* bound on the number of candidates ever staged

ASSUME RuntimeAssumption ==
    /\ IsFiniteSet(Requests)
    /\ Retain \in Nat \ {0}   \* main clamps the option to 1
    /\ RemovalMayFail \in BOOLEAN
    /\ MaxStaging \in Nat

VARIABLES
    disk,        \* the source directory
    phase,       \* the life of the runtime: starting, running, down
    unvisited,   \* paths Initialize has still to look at
    stage,       \* progress of the holder of update_mutex_, "idle" when free
    candidate,   \* the plugin being staged or loaded (at most one)
    previous,    \* plugins of the holder's previous_registry and old map
    active,      \* active_plugins_
    generation,  \* generation_
    published,   \* registry_store_
    sequence,    \* staging_sequence_, counted from the start of the process
    staged,      \* final staging directories on disk
    leftovers,   \* temporary staging directories left on disk, by number
    history,     \* staged_history_
    notifying,   \* plugins whose notification context is active
    snapshot,    \* per request, the registry it holds ({} when none)
    notices,     \* kinds the client has to list again
    listing      \* per kind, what the client listed last

diskVars == <<disk>>
stagingVars == <<sequence, staged, leftovers, history>>
servingVars == <<active, generation, published>>
clientVars == <<notices, listing>>
vars == <<disk, phase, unvisited, stage, candidate, previous, active,
          generation, published, sequence, staged, leftovers, history,
          notifying, snapshot, notices, listing>>

-----------------------------------------------------------------------------
(* State *)

Ref == [id : Nat, path : Paths, sha : Contents, lib : Contents]
Registry == [generation : Nat, plugins : SUBSET Ref]

\* The stages of ReloadLocked, then the one of Shutdown.
Stages == {"idle", "copy", "seal", "load", "validate",
           "silence", "notify", "collect", "shutdown"}

Init ==
    /\ disk \in [Paths -> Contents \cup {Absent}]
    /\ phase = "starting"
    /\ unvisited = Paths
    /\ stage = "idle"
    /\ candidate = {}
    /\ previous = {}
    /\ active = {}
    /\ generation = 0
    /\ published = [generation |-> 0, plugins |-> {}]
    /\ sequence = 0
    /\ staged = {}
    /\ leftovers = {}
    /\ history = {}
    /\ notifying = {}
    /\ snapshot = [r \in Requests |-> {}]
    /\ notices = Kinds
    /\ listing = [kind \in Kinds |-> {}]

\* The plugin opened by LoadedPlugin::Load and not yet in active_plugins_.
LoadedCandidate == IF stage = "validate" THEN candidate ELSE {}

\* The registries anybody can be using.
Registries == {published} \cup UNION {snapshot[r] : r \in Requests}

\* The plugins some shared_ptr refers to; for any other one the weak_ptr of
\* the staging history has expired.
Held ==
    active \cup previous \cup LoadedCandidate
        \cup UNION {reg.plugins : reg \in Registries}

\* remove_all of a set of staging directories, errors ignored by the caller.
RemoveDirectories(refs) ==
    \/ staged' = staged \ refs
    \/ RemovalMayFail /\ staged' = staged

-----------------------------------------------------------------------------
(* The deployer *)

\* A library is written or moved into place; in-place writes pass through
\* contents that do not load.
DiskWrite(p, c) ==
    /\ disk[p] # c
    /\ disk' = [disk EXCEPT ![p] = c]
    /\ UNCHANGED <<phase, unvisited, stage, candidate, previous, notifying,
                   snapshot, servingVars, stagingVars, clientVars>>

DiskDelete(p) ==
    /\ disk[p] # Absent
    /\ disk' = [disk EXCEPT ![p] = Absent]
    /\ UNCHANGED <<phase, unvisited, stage, candidate, previous, notifying,
                   snapshot, servingVars, stagingVars, clientVars>>

-----------------------------------------------------------------------------
(* Reload *)

\* Initialize goes through the directory once; afterwards any thread may ask,
\* until Shutdown clears initialized_.
MayReload_AfterShutdown(p) ==   \* mutant: initialized_ is not tested
    /\ stage = "idle"
    /\ phase = "starting" => p \in unvisited

MayReload(p) ==
    /\ stage = "idle"
    /\ phase = "running" \/ (phase = "starting" /\ p \in unvisited)

\* is_regular_file: there is something to hash.
SourceIsLibrary_Unchecked(p) == TRUE   \* mutant: the check is dropped
SourceIsLibrary(p) == disk[p] # Absent

\* The active plugin of the path runs another content than the source has.
SourceChanged_Always(p) == TRUE   \* mutant: equal hashes are not skipped
SourceChanged(p) == \A r \in active : r.path = p => r.sha # disk[p]

\* The source is hashed; an unchanged one ends the call.
DetectChange(p) ==
    /\ MayReload(p)
    /\ SourceIsLibrary(p)
    /\ SourceChanged(p)
    /\ sequence < MaxStaging
    /\ sequence' = sequence + 1
    /\ candidate' = {[id |-> sequence + 1, path |-> p,
                      sha |-> disk[p], lib |-> disk[p]]}
    /\ stage' = "copy"
    /\ unvisited' = unvisited \ {p}
    /\ UNCHANGED <<disk, phase, previous, staged, leftovers, history,
                   notifying, snapshot, servingVars, clientVars>>

\* Initialize finds no library at this path.
SkipPath(p) ==
    /\ phase = "starting"
    /\ stage = "idle"
    /\ p \in unvisited
    /\ disk[p] = Absent
    /\ unvisited' = unvisited \ {p}
    /\ UNCHANGED <<disk, phase, stage, candidate, previous, notifying,
                   snapshot, servingVars, stagingVars, clientVars>>

InitializeDone ==
    /\ phase = "starting"
    /\ stage = "idle"
    /\ unvisited = {}
    /\ phase' = "running"
    /\ UNCHANGED <<disk, unvisited, stage, candidate, previous, notifying,
                   snapshot, servingVars, stagingVars, clientVars>>

\* ReloadLocked returns without publishing; a candidate it had loaded is
\* unloaded.
GiveUp ==
    /\ stage' = "idle"
    /\ candidate' = {}
    /\ notifying' = notifying \ candidate
    /\ UNCHANGED <<disk, phase, unvisited, previous, sequence, history,
                   snapshot, servingVars, clientVars>>

\* Stage throws because the source vanished: its catch block returns without
\* removing the temporary directory.
AbandonTemporary ==
    /\ leftovers' = leftovers \cup {c.id : c \in candidate}
    /\ UNCHANGED staged
    /\ GiveUp

\* Stage copies the source, which may have changed since it was hashed.
StageCopy ==
    /\ stage = "copy"
    /\ \E c \in candidate :
          \/ /\ disk[c.path] = Absent
             /\ AbandonTemporary
          \/ /\ disk[c.path] # Absent
             /\ candidate' = {[c EXCEPT !.lib = disk[c.path]]}
             /\ stage' = "seal"
             /\ UNCHANGED <<disk, phase, unvisited, previous, notifying,
                            snapshot, servingVars, stagingVars, clientVars>>

\* The digest of the copy is the one taken from the source.
CopyVerified_Trusting(c) == TRUE   \* mutant: the copy is not hashed again
CopyVerified(c) == c.lib = c.sha

\* Stage checks the copy against the hash, reads the size and time of the
\* source again, and renames the temporary directory to its final name.
StageSeal ==
    /\ stage = "seal"
    /\ \E c \in candidate :
          \/ /\ ~CopyVerified(c)
             /\ UNCHANGED <<staged, leftovers>>
             /\ GiveUp
          \/ /\ CopyVerified(c)
             /\ disk[c.path] = Absent
             /\ AbandonTemporary
          \/ /\ CopyVerified(c)
             /\ disk[c.path] # Absent
             /\ staged' = staged \cup {c}
             /\ stage' = "load"
             /\ UNCHANGED <<disk, phase, unvisited, candidate, previous,
                            sequence, leftovers, history, notifying, snapshot,
                            servingVars, clientVars>>

\* The candidate is dropped and its staging directory removed.
DiscardCandidate_KeepDirectory ==   \* mutant: the directory stays
    /\ UNCHANGED <<staged, leftovers>>
    /\ GiveUp

DiscardCandidate ==
    /\ RemoveDirectories(candidate)
    /\ UNCHANGED leftovers
    /\ GiveUp

LoadCandidate ==
    /\ stage = "load"
    /\ \E c \in candidate :
          \/ /\ ~Loads(c.lib)
             /\ DiscardCandidate
          \/ /\ Loads(c.lib)
             /\ stage' = "validate"
             /\ notifying' = notifying \cup {c}
             /\ UNCHANGED <<disk, phase, unvisited, candidate, previous,
                            snapshot, servingVars, stagingVars, clientVars>>

RejectCandidate ==
    /\ stage = "validate"
    /\ \E c \in candidate : ~Accepts(active, c)
    /\ DiscardCandidate

\* active_plugins_, generation_ and registry_store_ change together: the
\* first two are read only under update_mutex_.
Publish_SameGeneration(plugins) ==   \* mutant: generation_ is not advanced
    /\ previous' = active
    /\ active' = plugins
    /\ generation' = generation
    /\ published' = [generation |-> generation, plugins |-> plugins]

Publish(plugins) ==
    /\ previous' = active
    /\ active' = plugins
    /\ generation' = generation + 1
    /\ published' = [generation |-> generation + 1, plugins |-> plugins]

PublishCandidate ==
    /\ stage = "validate"
    /\ \E c \in candidate :
          /\ Accepts(active, c)
          /\ Publish(Replacing(active, c))
    /\ stage' = "silence"
    /\ UNCHANGED <<disk, phase, unvisited, candidate, notifying, snapshot,
                   stagingVars, clientVars>>

\* Remove publishes the registry without the path's plugin.
RemovePlugin(p) ==
    /\ stage = "idle"
    /\ phase = "running"
    /\ \E r \in active : r.path = p /\ Publish(active \ {r})
    /\ stage' = "silence"
    /\ UNCHANGED <<disk, phase, unvisited, candidate, notifying, snapshot,
                   stagingVars, clientVars>>

\* The plugin that the swap took out of active_plugins_.
Retired_Nobody == {}   \* mutant: DeactivateNotifications is not called
Retired == previous \ active

\* The retired plugin stops notifying; a published candidate enters the
\* staging history.
SilenceRetired ==
    /\ stage = "silence"
    /\ notifying' = notifying \ Retired
    /\ history' = history \cup candidate
    /\ stage' = "notify"
    /\ UNCHANGED <<disk, phase, unvisited, candidate, previous, sequence,
                   staged, leftovers, snapshot, servingVars, clientVars>>

NotifyCapabilityChanges ==
    /\ stage = "notify"
    /\ notices' = notices \cup ChangedKinds(previous, published.plugins)
    /\ stage' = "collect"
    /\ UNCHANGED <<disk, phase, unvisited, candidate, previous, notifying,
                   snapshot, listing, servingVars, stagingVars>>

\* The newest Retain entries of a path are kept.
Kept(ref) ==
    Cardinality({r \in history : r.path = ref.path /\ r.id > ref.id}) < Retain

\* Directories to delete: not among the newest, and the plugin is unloaded.
Collectable_InUse == {ref \in history : ~Kept(ref)}   \* mutant: expired() dropped
Collectable_Never == {}   \* mutant: the history owns its plugins, none expires
Collectable == {ref \in history : ~Kept(ref) /\ ref \notin Held}

\* remove_all of the collectable directories; an entry whose directory could
\* not be removed stays in the history.
DeleteCollectable ==
    \E failed \in SUBSET Collectable :
        /\ failed # {} => RemovalMayFail
        /\ history' = history \ (Collectable \ failed)
        /\ staged' = staged \ (Collectable \ failed)

\* The holder still owns the old map and the old registry while it collects;
\* it drops them when it returns.
CollectGarbage_KeepPrevious ==   \* mutant: the old registry outlives the call
    /\ stage = "collect"
    /\ DeleteCollectable
    /\ stage' = "idle"
    /\ candidate' = {}
    /\ UNCHANGED <<disk, phase, unvisited, sequence, leftovers, notifying,
                   previous, snapshot, servingVars, clientVars>>

CollectGarbage ==
    /\ stage = "collect"
    /\ DeleteCollectable
    /\ stage' = "idle"
    /\ candidate' = {}
    /\ previous' = {}
    /\ UNCHANGED <<disk, phase, unvisited, sequence, leftovers, notifying,
                   snapshot, servingVars, clientVars>>

-----------------------------------------------------------------------------
(* Shutdown *)

\* The empty registry is published before active_plugins_ is emptied.
ShutdownPublish ==
    /\ stage = "idle"
    /\ phase = "running"
    /\ published' = [generation |-> generation + 1, plugins |-> {}]
    /\ stage' = "shutdown"
    /\ UNCHANGED <<disk, phase, unvisited, candidate, previous, active,
                   generation, notifying, snapshot, stagingVars, clientVars>>

ShutdownClear ==
    /\ stage = "shutdown"
    /\ notifying' = notifying \ active
    /\ active' = {}
    /\ generation' = generation + 1
    /\ phase' = "down"
    /\ stage' = "idle"
    /\ UNCHANGED <<disk, unvisited, candidate, previous, published, snapshot,
                   stagingVars, clientVars>>

-----------------------------------------------------------------------------
(* Requests and the client *)

\* A handler reads the registry once and works on that snapshot.
TakeSnapshot(r) ==
    /\ phase # "starting"
    /\ snapshot[r] = {}
    /\ snapshot' = [snapshot EXCEPT ![r] = {published}]
    /\ UNCHANGED <<disk, phase, unvisited, stage, candidate, previous,
                   notifying, servingVars, stagingVars, clientVars>>

ReleaseSnapshot(r) ==
    /\ snapshot[r] # {}
    /\ snapshot' = [snapshot EXCEPT ![r] = {}]
    /\ UNCHANGED <<disk, phase, unvisited, stage, candidate, previous,
                   notifying, servingVars, stagingVars, clientVars>>

\* tools/list, prompts/list or resources/list, sent once on connecting and
\* again for each list_changed.
ListCapability(kind) ==
    /\ phase # "starting"
    /\ kind \in notices
    /\ notices' = notices \ {kind}
    /\ listing' = [listing EXCEPT ![kind] = Capability(published.plugins, kind)]
    /\ UNCHANGED <<disk, phase, unvisited, stage, candidate, previous,
                   notifying, snapshot, servingVars, stagingVars>>

-----------------------------------------------------------------------------
Deployer ==
    \E p \in Paths : DiskDelete(p) \/ \E c \in Contents : DiskWrite(p, c)

\* What the holder of update_mutex_ does once it has begun.
UpdateStep ==
    \/ StageCopy \/ StageSeal \/ LoadCandidate
    \/ RejectCandidate \/ PublishCandidate
    \/ SilenceRetired \/ NotifyCapabilityChanges \/ CollectGarbage
    \/ ShutdownClear

Updater ==
    \/ \E p \in Paths : DetectChange(p) \/ SkipPath(p) \/ RemovePlugin(p)
    \/ InitializeDone
    \/ UpdateStep
    \/ ShutdownPublish

Readers ==
    \/ \E r \in Requests : TakeSnapshot(r) \/ ReleaseSnapshot(r)
    \/ \E kind \in Kinds : ListCapability(kind)

Next == Deployer \/ Updater \/ Readers

Spec == Init /\ [][Next]_vars

\* A thread that holds update_mutex_ runs on, requests end, and the client
\* lists what it was told has changed.  Nobody has to start an update.
FairSpec ==
    /\ Spec
    /\ WF_vars(UpdateStep)
    /\ \A r \in Requests : WF_vars(ReleaseSnapshot(r))
    /\ \A kind \in Kinds : WF_vars(ListCapability(kind))
-----------------------------------------------------------------------------
(* Properties *)

\* Every variable keeps to the values its C++ counterpart can take; the
\* update under way has at most one candidate.
TypeOK ==
    /\ disk \in [Paths -> Contents \cup {Absent}]
    /\ phase \in {"starting", "running", "down"}
    /\ unvisited \subseteq Paths
    /\ stage \in Stages
    /\ candidate \subseteq Ref
    /\ previous \subseteq Ref
    /\ active \subseteq Ref
    /\ generation \in Nat
    /\ published \in Registry
    /\ sequence \in Nat
    /\ staged \subseteq Ref
    /\ leftovers \subseteq Nat
    /\ history \subseteq Ref
    /\ notifying \subseteq Ref
    /\ snapshot \in [Requests -> SUBSET Registry]
    /\ notices \subseteq Kinds
    /\ DOMAIN listing = Kinds

\* CollectGarbage and the rejection paths never remove the staged library of
\* a plugin that anything still refers to: the active map, the published
\* registry, a loaded candidate or a registry held by a request in progress.
HeldPluginsStaged == Held \subseteq staged

\* Every registry a request can route by holds only plugins that loaded, one
\* per path, with no plugin name and no tool, prompt or resource key twice,
\* whatever was deployed, replaced or removed while it was being built.
RegistriesCoherent == \A reg \in Registries : Coherent(reg.plugins)

\* The hash recorded for an active plugin is that of the library it runs,
\* although the source may change between the hash and the copy: otherwise
\* a later Reload would call a stale plugin unchanged.
ActiveHashesTrue == \A r \in active : r.lib = r.sha

\* A generation number identifies one set of plugins: two requests that see
\* the same number see the same plugins, and none sees a future generation.
OneGenerationOneCatalog ==
    \A reg1, reg2 \in Registries :
        /\ reg1.generation = reg2.generation => reg1 = reg2
        /\ reg1.generation <= published.generation

\* Once Shutdown has returned nothing is served any more, whatever updates
\* raced with it.
DownServesNothing == phase = "down" => published.plugins = {} /\ active = {}

\* When no update is under way, a plugin that is kept alive only by requests
\* in progress can no longer notify the client.
RetiredSilenced == stage = "idle" => notifying \subseteq active

\* When no update is under way, a client that lists again after every
\* list_changed has the current lists, or a list_changed still to act on.
ClientUpToDate ==
    stage = "idle" /\ phase # "down" =>
        \A kind \in Kinds :
            \/ kind \in notices
            \/ listing[kind] = Capability(published.plugins, kind)

\* When no update is under way and removals work, every final staging
\* directory belongs to a generation that was published.
StagedTracked == stage = "idle" /\ ~RemovalMayFail => staged = history

\* When removals work, a path keeps at most Retain generations on disk beyond
\* the ones requests held, and one the last update had just retired.
RetentionBound ==
    stage = "idle" /\ ~RemovalMayFail =>
        \A p \in Paths :
            Cardinality({ref \in history : ref.path = p})
                <= Retain + Cardinality(Requests) + 1

\* A failed candidate leaves nothing behind: "failed candidates are cleaned up
\* at once" (docs/plugin-hot-reload-design.md:621).
FailedCandidatesCleaned == stage = "idle" => leftovers = {}

\* A plugin that was replaced or removed is unloaded once the requests that
\* were using it have ended.
RetiredUnloaded ==
    \A id \in 1 .. MaxStaging :
        (\E ref \in Held \ (active \cup LoadedCandidate) : ref.id = id)
            ~> (\A ref \in Held : ref.id # id)

\* After the last update the client's lists become the current ones for good,
\* as long as the runtime is not shut down.
ListingsSettle ==
    <>[](phase = "running" =>
            \A kind \in Kinds : listing[kind] = Capability(published.plugins, kind))

\* The runtime implements the catalog its readers are promised: one complete
\* generation after another, one plugin changed at a time, every request on
\* the generation it started with, failed candidates without effect.
Serving(reg) == [generation |-> reg.generation,
                 plugins |-> {[path |-> r.path, lib |-> r.lib] : r \in reg.plugins}]

HR == INSTANCE HotRegistry WITH
        catalog <- Serving(published),
        view <- [r \in Requests |-> {Serving(reg) : reg \in snapshot[r]}]

ImplementsHotRegistry == HR!Spec
=============================================================================
