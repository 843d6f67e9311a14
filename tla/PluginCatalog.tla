--------------------------- MODULE PluginCatalog ---------------------------
(***************************************************************************)
(* The validation rules of the plugin host: what the server learns from a  *)
(* plugin library and when a set of plugins may be served together.        *)
(* mcp_server/src/loader/PluginsLoader.cpp checks one library;             *)
(* mcp_server/src/loader/PluginRegistry.cpp checks the whole set.          *)
(*                                                                         *)
(* A plugin is any record with the fields `path' (its normalized source    *)
(* path) and `lib' (the content of the library that was opened), so the    *)
(* operators serve the modules that track staged copies and the ones that  *)
(* do not.                                                                 *)
(***************************************************************************)
EXTENDS Naturals

CONSTANTS
    Paths,      \* normalized source paths below the plugin directory
    Contents,   \* possible contents of a library file, one per SHA-256
    Absent,     \* what a path holds when there is no file
    Library,    \* what the host finds in each content
    Kinds       \* the plugin types in use: each plugin has exactly one, and
                \* each has its own index and its own list_changed method

ASSUME CatalogAssumption ==
    /\ Absent \notin Contents
    /\ Kinds \subseteq {"tools", "prompts", "resources"}
    /\ \A c \in Contents :
         /\ Library[c].loads \in BOOLEAN
         /\ Library[c].wellFormed \in BOOLEAN
         /\ Library[c].kind \in Kinds

\* LoadedPlugin::Load returned an instance: the library opens, exports both
\* symbols, passes ValidateAPI and its Initialize() succeeds.
Loads(c) == Library[c].loads

\* Api().GetName(), the protocol identity of the plugin.
NameOf(c) == Library[c].name

\* What one plugin contributes to the capability text of its kind: one entry
\* per tool name, prompt name or resource URI, with the rest of its metadata
\* (descriptions, schema, arguments, MIME type) as one value.
Entries(c) == {<<key, Library[c].desc>> : key \in Library[c].keys}

\* ToolsCapability(), PromptsCapability() and ResourcesCapability() of a
\* registry holding these plugins.
Capability(plugins, kind) ==
    UNION {Entries(r.lib) : r \in {q \in plugins : Library[q.lib].kind = kind}}

\* The kinds whose list_changed NotifyCapabilityChanges sends.
ChangedKinds_NamesOnly(before, after) ==   \* mutant: only keys are compared
    {kind \in Kinds : {e[1] : e \in Capability(before, kind)}
                        # {e[1] : e \in Capability(after, kind)}}
ChangedKinds(before, after) ==
    {kind \in Kinds : Capability(before, kind) # Capability(after, kind)}

\* PluginRegistry::Build succeeds: every descriptor is well formed and no key
\* is offered twice within one kind.
Builds(plugins) ==
    /\ \A r \in plugins : Library[r.lib].wellFormed
    /\ \A r, q \in plugins :
          r # q /\ Library[r.lib].kind = Library[q.lib].kind
            => Library[r.lib].keys \cap Library[q.lib].keys = {}

\* The plugins ReloadLocked proposes: the candidate in the place of the one
\* its path had.
Replacing(plugins, candidate) ==
    {r \in plugins : r.path # candidate.path} \cup {candidate}

\* ReloadLocked accepts a loaded candidate: its path keeps its plugin name, no
\* other path has that name, and the proposed registry builds.
Accepts_OwnPathOnly(plugins, candidate) ==   \* mutant: no duplicate name test
    /\ \A r \in plugins :
          r.path = candidate.path => NameOf(r.lib) = NameOf(candidate.lib)
    /\ Builds(Replacing(plugins, candidate))
Accepts(plugins, candidate) ==
    /\ \A r \in plugins :
          r.path = candidate.path <=> NameOf(r.lib) = NameOf(candidate.lib)
    /\ Builds(Replacing(plugins, candidate))

\* A set of plugins a registry may hold: one per path, each from a library
\* that loads, no name and no key twice.
Coherent(plugins) ==
    /\ \A r \in plugins : Loads(r.lib)
    /\ \A r, q \in plugins :
          r.path = q.path \/ NameOf(r.lib) = NameOf(q.lib) => r = q
    /\ Builds(plugins)
=============================================================================
