-------------------------- MODULE MCPluginRuntime --------------------------
(***************************************************************************)
(* PluginRuntime on small plugin sets.                                     *)
(***************************************************************************)
EXTENDS PluginRuntime

CONSTANTS p1, p2, r1, r2, absent

Plugin(name, kind, keys, desc) ==
    [loads |-> TRUE, wellFormed |-> TRUE, name |-> name, kind |-> kind,
     keys |-> keys, desc |-> desc]

\* Two versions of one plugin that differ in their metadata, another plugin
\* of that name, a plugin that offers the same tool under another name, one
\* of another kind, one with a malformed schema, and a file that does not load.
MCLibrary ==
    [a1 |-> Plugin("A", "tools", {"t"}, "v1"),
     a2 |-> Plugin("A", "tools", {"t"}, "v2"),
     twin |-> Plugin("A", "tools", {"u"}, "v1"),
     clash |-> Plugin("C", "tools", {"t", "v"}, "v1"),
     prompt |-> Plugin("P", "prompts", {"t"}, "v1"),
     badSchema |-> [Plugin("S", "tools", {"s"}, "v1") EXCEPT !.wellFormed = FALSE],
     torn |-> [Plugin("T", "tools", {}, "v1") EXCEPT !.loads = FALSE]]
=============================================================================
