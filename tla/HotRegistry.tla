---------------------------- MODULE HotRegistry ----------------------------
(***************************************************************************)
(* What the hot-reload runtime promises its readers, with none of its      *)
(* machinery: a catalog that changes by one plugin at a time, each change  *)
(* a new generation, and requests that work on one catalog from their      *)
(* first read to their last.  PluginRuntime implements this specification. *)
(***************************************************************************)
EXTENDS PluginCatalog

CONSTANTS Requests   \* the request handlers of the server

VARIABLES
    catalog,   \* the generation served now: its number and its plugins
    view       \* per request, the catalog it works on ({} when it has none)

abstractVars == <<catalog, view>>

Deployed == [path : Paths, lib : Contents]
Catalog == [generation : Nat, plugins : SUBSET Deployed]

TypeOK ==
    /\ catalog \in Catalog
    /\ view \in [Requests -> SUBSET Catalog]

Init ==
    /\ catalog = [generation |-> 0, plugins |-> {}]
    /\ view = [r \in Requests |-> {}]

\* Every change of the catalog is the next generation.
Advance(plugins) ==
    /\ catalog' = [generation |-> catalog.generation + 1, plugins |-> plugins]
    /\ UNCHANGED view

\* A path gets a plugin it did not have in that content.
Deploy(d) ==
    /\ Loads(d.lib)
    /\ d \notin catalog.plugins
    /\ Accepts(catalog.plugins, d)
    /\ Advance(Replacing(catalog.plugins, d))

\* A path loses its plugin.
Withdraw(d) ==
    /\ d \in catalog.plugins
    /\ Advance(catalog.plugins \ {d})

\* The runtime stops serving plugins.
Close == Advance({})

Open(r) ==
    /\ view[r] = {}
    /\ view' = [view EXCEPT ![r] = {catalog}]
    /\ UNCHANGED catalog

Finish(r) ==
    /\ view[r] # {}
    /\ view' = [view EXCEPT ![r] = {}]
    /\ UNCHANGED catalog

Next ==
    \/ \E d \in Deployed : Deploy(d) \/ Withdraw(d)
    \/ Close
    \/ \E r \in Requests : Open(r) \/ Finish(r)

Spec == Init /\ [][Next]_abstractVars
=============================================================================
