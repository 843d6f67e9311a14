---------------------------- MODULE MCAgentTools ----------------------------
(***************************************************************************)
(* AgentTools with a server whose update withdraws one of two tools and    *)
(* changes the other.                                                      *)
(***************************************************************************)
EXTENDS AgentTools, TLC

CONSTANTS t1, t2, c1, none

MCCatalogs == {(t1 :> 1) @@ (t2 :> 1), t1 :> 2}
=============================================================================
