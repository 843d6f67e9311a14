--------------------------- MODULE MCPluginEvents ---------------------------
(***************************************************************************)
(* PluginEvents on two source paths.                                       *)
(***************************************************************************)
EXTENDS PluginEvents

CONSTANTS p1, p2, absent, rescan

Tool(name, offered, loads) ==
    [loads |-> loads, wellFormed |-> TRUE, name |-> name, kind |-> "tools",
     keys |-> {offered}, desc |-> "v1"]

MCLibrary ==
    [a1 |-> Tool("A", "t", TRUE),
     a2 |-> Tool("A", "t", TRUE),
     b1 |-> Tool("B", "u", TRUE),
     torn |-> Tool("T", "t", FALSE)]

\* Each path has its own plugin; files written in place pass through "torn".
MCOffers == [p \in Paths |-> IF p = p1 THEN {"a1", "a2", "torn"} ELSE {"b1"}]

\* So the instances meet the condition of UpToDateWhenQuiet and EditsConverge,
\* which the theorem about the first assumes.
ASSUME MCOffersApart == OffersApart
=============================================================================
