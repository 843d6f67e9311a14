----------------------------- MODULE MCRouting -----------------------------
(***************************************************************************)
(* Routing over two maps.  In the town a one-way street crosses a slow     *)
(* road and a fast way around it, digitised against the direction of       *)
(* travel.  The other map has a closed ring, two nodes at one point and a  *)
(* road that nothing leads to.                                             *)
(***************************************************************************)
EXTENDS Routing

Way(nodes, oneway, pace) == [nodes |-> nodes, oneway |-> oneway, pace |-> pace]

MCPosition ==
    <<<<0, 0>>, <<2, 0>>, <<4, 0>>, <<2, 2>>, <<4, 2>>, <<0, 2>>, <<2, -1>>, <<0, 2>>>>

Town == <<Way(<<1, 2, 3>>, "no", 3),
          Way(<<4, 2, 7>>, "forward", 2),
          Way(<<3, 5, 4>>, "reverse", 1),
          Way(<<4, 6, 1>>, "no", 1)>>

Ring == <<Way(<<1, 2, 4, 6, 1>>, "forward", 1),
          Way(<<6, 8>>, "no", 1),
          Way(<<8, 4>>, "no", 2),
          Way(<<3, 5>>, "no", 1)>>

MCMaps == [name \in {"town", "ring"} |-> IF name = "town" THEN Town ELSE Ring]
MCAsks == {<<<<1, 0>>, <<3, 1>>>>, <<<<3, 1>>, <<1, 0>>>>, <<<<1, 2>>, <<3, 1>>>>,
           <<<<1, 0>>, <<1, 2>>>>, <<<<1, 2>>, <<9, 9>>>>, <<<<4, 0>>, <<4, 1>>>>}
MCTraces == {<<<<1, 0>>, <<2, 1>>, <<3, 2>>>>, <<<<3, 1>>, <<1, 2>>, <<0, 1>>>>,
             <<<<3, 0>>, <<1, 0>>>>, <<<<1, 0>>, <<9, 9>>>>,
             <<<<1, 0>>, <<1, 0>>, <<1, 0>>, <<1, 0>>>>}

\* The index measures a third more, so that the last quarter of a road of length 4
\* is beyond its end.
MCStretch == <<4, 3>>

\* What TopologyBuilder and CsrBuilder make of these maps has their drives and
\* no others: the hypotheses of the theorems about answers (GisProofs).
ASSUME BuiltFaithfully ==
    \A name \in DOMAIN MCMaps :
        /\ LinesDriven(MCMaps[name])
        /\ \A metric \in Metrics : Represented(MCMaps[name], metric)
=============================================================================
