---------------------------- MODULE BoundedStore ----------------------------
(***************************************************************************)
(* What the result store of gis/results promises those who publish results *)
(* and those who read them: the least recently used results make room for  *)
(* a new one and no more of them than it needs, and a result is found      *)
(* until then or until its time is over.                                   *)
(*                                                                         *)
(* The state is the live results and which of them was used after which.   *)
(* ResultStore.tla implements this with a map, a list and a counter.       *)
(***************************************************************************)
EXTENDS Naturals, FiniteSets

CONSTANTS
    Ids,            \* result identifiers
    Nobody,         \* no identifier
    MaxResults,     \* results kept at most
    MaxTotalBytes,  \* bytes kept at most
    MaxTtl          \* ticks a result lives at most

VARIABLES
    results,  \* the live results: [size, left] by identifier
    newer,    \* pairs of them: the first was used after the second
    answer    \* what the last step told a reader

Result == [size : 1 .. MaxTotalBytes, left : 1 .. MaxTtl]
Unasked == [id |-> Nobody, found |-> FALSE]

Bytes[ids \in SUBSET DOMAIN results] ==
    IF ids = {} THEN 0
    ELSE LET id == CHOOSE id \in ids : TRUE
         IN  results[id].size + Bytes[ids \ {id}]

Leaves(ids, size) ==
    Cardinality(ids) < MaxResults /\ Bytes[ids] + size <= MaxTotalBytes

Among(ids) == {p \in newer : p[1] \in ids /\ p[2] \in ids}
Newest(id, ids) == id \in ids /\ \A other \in ids \ {id} : <<id, other>> \in newer

Init == results = <<>> /\ newer = {} /\ answer = Unasked

\* The new result is used after those that stay.  Nothing older than what
\* goes may stay, and of what goes the newest would not have left room.
Put(id, r) ==
    /\ id \notin DOMAIN results
    /\ \E stay \in SUBSET DOMAIN results :
          LET gone == DOMAIN results \ stay IN
             /\ \A a \in stay, b \in gone : <<b, a>> \notin newer
             /\ Leaves(stay, r.size)
             /\ \A b \in gone : Newest(b, gone) => ~Leaves(stay \cup {b}, r.size)
             /\ results' = [x \in stay \cup {id} |-> IF x = id THEN r ELSE results[x]]
             /\ newer' = Among(stay) \cup ({id} \X stay)
    /\ answer' = Unasked

Find(id) ==
    /\ id \in DOMAIN results
    /\ LET others == DOMAIN results \ {id} IN
          newer' = Among(others) \cup ({id} \X others)
    /\ answer' = [id |-> id, found |-> TRUE]
    /\ UNCHANGED results

Miss(id) ==
    /\ id \notin DOMAIN results
    /\ answer' = [id |-> id, found |-> FALSE]
    /\ UNCHANGED <<results, newer>>

Tick ==
    /\ LET left == {id \in DOMAIN results : results[id].left > 1} IN
          /\ results' = [id \in left |-> [results[id] EXCEPT !.left = @ - 1]]
          /\ newer' = Among(left)
    /\ answer' = Unasked

\* Something happens that is no business of the store's users.
Rest == answer' = Unasked /\ UNCHANGED <<results, newer>>

Next ==
    \/ \E id \in Ids :
          Find(id) \/ Miss(id) \/ \E r \in Result : Put(id, r)
    \/ Tick
    \/ Rest

Spec == Init /\ [][Next]_<<results, newer, answer>>
=============================================================================
