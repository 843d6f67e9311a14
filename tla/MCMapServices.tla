---------------------------- MODULE MCMapServices ----------------------------
(***************************************************************************)
(* MapServices with a place that stands for one of two positions.          *)
(***************************************************************************)
EXTENDS MapServices

CONSTANTS p, a, b, t

MCLists == {<<a, b>>, <<b>>}

\* Online with the memory cache and a result service, online with Redis and
\* no result service, and local routing only.
MCConfigs ==
    {[online |-> TRUE, local |-> TRUE, redis |-> FALSE, publisher |-> TRUE,
      publishInline |-> TRUE],
     [online |-> TRUE, local |-> FALSE, redis |-> TRUE, publisher |-> FALSE,
      publishInline |-> FALSE],
     [online |-> FALSE, local |-> TRUE, redis |-> FALSE, publisher |-> FALSE,
      publishInline |-> FALSE]}
=============================================================================
