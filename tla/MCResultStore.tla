---------------------------- MODULE MCResultStore ----------------------------
(***************************************************************************)
(* ResultStore with two workers and room for two results or three bytes.   *)
(***************************************************************************)
EXTENDS ResultStore

CONSTANTS m1, m2, w1, w2, i1, i2, i3, i4, i5, nobody

\* A small result with the default life, a large one that lives longer, and
\* one that is too large.
MCPosts == {[size |-> 1, ttl |-> 0], [size |-> 2, ttl |-> 2],
            [size |-> 3, ttl |-> 1]}
=============================================================================
