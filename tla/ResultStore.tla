---------------------------- MODULE ResultStore ----------------------------
(***************************************************************************)
(* The result service: gis/results/src/memory_result_store.cpp behind the  *)
(* HTTP routes of gis/results/server/result_server.cpp, and the publishers *)
(* of result_publisher.cpp that post GeoJSON to it and announce its URL.   *)
(*                                                                         *)
(* Workers of the HTTP server handle posts and reads at the same time; a   *)
(* Put holds the mutex of the store over its whole eviction loop, one      *)
(* entry a step here.  A publisher stops waiting after its timeout, while  *)
(* the worker that has its post goes on and stores what nobody will be     *)
(* told about.  Times are ticks that remain.                               *)
(***************************************************************************)
EXTENDS Integers, SequencesExt, FiniteSets

CONSTANTS
    Publishers,      \* processes that publish results
    Workers,         \* workers of the HTTP server
    Ids,             \* result identifiers
    Nobody,          \* no identifier, publisher or worker
    MaxResults,      \* config_.max_results
    MaxTotalBytes,   \* config_.max_total_bytes
    MaxResultBytes,  \* config_.max_result_bytes
    DefaultTtl,      \* config_.default_ttl, in ticks
    MaxTtl,          \* config_.max_ttl, in ticks
    Posts,           \* what is published: records of a size and a ttl
    MaxKnown         \* bound on the identifiers remembered outside the store

\* The constructor refuses every other configuration.
ASSUME ConfigAssumption ==
    /\ {MaxResults, MaxTotalBytes, MaxResultBytes, DefaultTtl, MaxTtl}
          \subseteq Nat \ {0}
    /\ MaxResultBytes <= MaxTotalBytes
    /\ DefaultTtl <= MaxTtl

ASSUME NamesAssumption ==
    /\ Nobody \notin Ids \cup Publishers \cup Workers
    /\ Posts \subseteq [size : Nat \ {0}, ttl : Int]
    /\ MaxKnown \in Nat
    /\ Cardinality(Ids) >= MaxKnown + MaxResults

VARIABLES
    entries,     \* entries_: what is stored, by identifier
    lru,         \* lru_: the identifiers, most recently used first
    totalBytes,  \* total_bytes_
    owner,       \* the worker that holds the mutex between two steps
    before,      \* history: the live results when it took the mutex
    worker,      \* what each worker is doing
    waiting,     \* per publisher, the post it waits for
    known,       \* identifiers that were announced and not yet forgotten
    answer       \* what the last step told a reader

storeVars == <<entries, lru, totalBytes>>
vars == <<entries, lru, totalBytes, owner, before, worker, waiting, known,
          answer>>

-----------------------------------------------------------------------------
(* State *)

NoPost == [size |-> 0, ttl |-> 0]
Stages == {"free", "received", "putting", "answering"}

\* A worker has a post and, once it is stored, its identifier; for whom it
\* works changes to Nobody when the publisher hangs up.
Job == [at : Stages, for : Publishers \cup {Nobody}, post : Posts \cup {NoPost},
        id : Ids \cup {Nobody}]
Free == [at |-> "free", for |-> Nobody, post |-> NoPost, id |-> Nobody]

Unasked == [id |-> Nobody, found |-> FALSE]
NotWaiting == NoPost

Alive(id) == entries[id].left > 0

\* The list iterator an entry keeps.
Place(id) == CHOOSE i \in DOMAIN lru : lru[i] = id

\* The live results and their order in the list: what BoundedStore keeps.
LiveIds == {id \in DOMAIN entries : Alive(id)}
Live == [results |-> [id \in LiveIds |-> entries[id]],
         newer |-> {p \in LiveIds \X LiveIds : Place(p[1]) < Place(p[2])}]
NoneLive == [results |-> <<>>, newer |-> {}]

Init ==
    /\ entries = <<>>
    /\ lru = <<>>
    /\ totalBytes = 0
    /\ owner = Nobody
    /\ before = NoneLive
    /\ worker = [w \in Workers |-> Free]
    /\ waiting = [p \in Publishers |-> NotWaiting]
    /\ known = {}
    /\ answer = Unasked

-----------------------------------------------------------------------------
(* The store, under its mutex *)

\* RemoveLocked: map, list and counter together.
RemoveLocked_Uncounted(id) ==   \* mutant: total_bytes_ is forgotten
    /\ entries' = [other \in DOMAIN entries \ {id} |-> entries[other]]
    /\ lru' = RemoveAt(lru, Place(id))
    /\ UNCHANGED totalBytes

RemoveLocked(id) ==
    /\ entries' = [other \in DOMAIN entries \ {id} |-> entries[other]]
    /\ lru' = RemoveAt(lru, Place(id))
    /\ totalBytes' = totalBytes - entries[id].size

Expired == {id \in DOMAIN entries : ~Alive(id)}

MustEvict_Late(size) ==   \* mutant: one result too many
    \/ Cardinality(DOMAIN entries) > MaxResults
    \/ totalBytes + size > MaxTotalBytes

MustEvict(size) ==
    \/ Cardinality(DOMAIN entries) >= MaxResults
    \/ totalBytes + size > MaxTotalBytes

\* Zero selects the default.
TtlOf(post) == IF post.ttl = 0 THEN DefaultTtl ELSE post.ttl

Acceptable(post) ==
    /\ post.size \in 1 .. MaxResultBytes
    /\ TtlOf(post) \in 1 .. MaxTtl

\* Put gets past its tests of the request and takes the mutex.
PutBegin(w) ==
    /\ worker[w].at = "received"
    /\ Acceptable(worker[w].post)
    /\ owner = Nobody
    /\ owner' = w
    /\ before' = Live
    /\ worker' = [worker EXCEPT ![w].at = "putting"]
    /\ answer' = Unasked
    /\ UNCHANGED <<storeVars, waiting, known>>

\* RemoveExpiredLocked and EvictForLocked, one entry a step.  The list and
\* the map agree (BooksAgree), so the last of the list is always found.
ExpireOne(w) ==
    /\ owner = w
    /\ \E id \in Expired : RemoveLocked(id)
    /\ answer' = Unasked
    /\ UNCHANGED <<owner, before, worker, waiting, known>>

Victim_MostRecent == lru[1]   \* mutant: the wrong end of the list
Victim == lru[Len(lru)]

EvictOne(w) ==
    /\ owner = w
    /\ Expired = {}
    /\ MustEvict(worker[w].post.size)
    /\ lru # <<>>
    /\ RemoveLocked(Victim)
    /\ answer' = Unasked
    /\ UNCHANGED <<owner, before, worker, waiting, known>>

\* GenerateIdLocked draws 128 random bits: any identifier that means nothing
\* to anybody, and it makes no difference which.
InUse == DOMAIN entries \cup known \cup DOMAIN before.results
           \cup {worker[w].id : w \in Workers}
NewId == CHOOSE id \in Ids : id \notin InUse

Insert(id, post) ==
    /\ entries' = [other \in DOMAIN entries \cup {id} |->
                     IF other = id THEN [size |-> post.size, left |-> TtlOf(post)]
                     ELSE entries[other]]
    /\ lru' = <<id>> \o lru
    /\ totalBytes' = totalBytes + post.size

\* The loop ends with an empty list or with enough room; a request that still
\* does not fit is refused.
PutDone(w) ==
    /\ owner = w
    /\ Expired = {}
    /\ LET size == worker[w].post.size IN
          /\ lru = <<>> \/ ~MustEvict(size)
          /\ IF MustEvict(size)
             THEN /\ worker' = [worker EXCEPT ![w].at = "answering"]
                  /\ UNCHANGED storeVars
             ELSE /\ Ids \ InUse # {}
                  /\ worker' = [worker EXCEPT ![w].at = "answering",
                                             ![w].id = NewId]
                  /\ Insert(NewId, worker[w].post)
    /\ owner' = Nobody
    /\ before' = NoneLive
    /\ answer' = Unasked
    /\ UNCHANGED <<waiting, known>>

\* Get: an expired entry is removed by whoever asks for it, and a live one
\* moves to the front of the list.
Get(id) ==
    /\ owner = Nobody
    /\ \/ /\ id \notin DOMAIN entries
          /\ answer' = [id |-> id, found |-> FALSE]
          /\ UNCHANGED storeVars
       \/ /\ id \in Expired
          /\ RemoveLocked(id)
          /\ answer' = [id |-> id, found |-> FALSE]
       \/ /\ id \in DOMAIN entries \ Expired
          /\ lru' = <<id>> \o RemoveAt(lru, Place(id))
          /\ answer' = [id |-> id, found |-> TRUE]
          /\ UNCHANGED <<entries, totalBytes>>
    /\ UNCHANGED <<owner, before, worker, waiting, known>>

\* A mutex is held for less than a tick.
Tick ==
    /\ owner = Nobody
    /\ \E id \in DOMAIN entries : Alive(id)
    /\ entries' = [id \in DOMAIN entries |->
                     [entries[id] EXCEPT !.left = IF @ > 0 THEN @ - 1 ELSE 0]]
    /\ answer' = Unasked
    /\ UNCHANGED <<lru, totalBytes, owner, before, worker, waiting, known>>

-----------------------------------------------------------------------------
(* The HTTP server and the publishers *)

Busy == {w \in Workers : worker[w] # Free}

\* Publish posts a result and waits; a worker of the server takes the post.
Publish(p, w, post) ==
    /\ waiting[p] = NotWaiting
    /\ worker[w] = Free
    /\ Cardinality(known) + Cardinality(Busy) < MaxKnown
    /\ waiting' = [waiting EXCEPT ![p] = post]
    /\ worker' = [worker EXCEPT ![w] = [at |-> "received", for |-> p,
                                        post |-> post, id |-> Nobody]]
    /\ answer' = Unasked
    /\ UNCHANGED <<storeVars, owner, before, known>>

\* 422 for a size or a ttl out of range: Publish reports a failure.
Reject(w) ==
    /\ worker[w].at = "received"
    /\ ~Acceptable(worker[w].post)
    /\ waiting' = [p \in Publishers |->
                     IF p = worker[w].for THEN NotWaiting ELSE waiting[p]]
    /\ worker' = [worker EXCEPT ![w] = Free]
    /\ answer' = Unasked
    /\ UNCHANGED <<storeVars, owner, before, known>>

\* 201 reaches the publisher, which announces the URL, or nobody.
Announce(w) ==
    /\ worker[w].at = "answering"
    /\ waiting' = [p \in Publishers |->
                     IF p = worker[w].for THEN NotWaiting ELSE waiting[p]]
    /\ known' = IF worker[w].for = Nobody THEN known
                ELSE known \cup ({worker[w].id} \ {Nobody})
    /\ worker' = [worker EXCEPT ![w] = Free]
    /\ answer' = Unasked
    /\ UNCHANGED <<storeVars, owner, before>>

\* CURLOPT_TIMEOUT_MS: the publisher reports a failure whatever the worker
\* has done.
TimeOut(p) ==
    /\ waiting[p] # NotWaiting
    /\ waiting' = [waiting EXCEPT ![p] = NotWaiting]
    /\ worker' = [w \in Workers |->
                    IF worker[w].for = p THEN [worker[w] EXCEPT !.for = Nobody]
                    ELSE worker[w]]
    /\ answer' = Unasked
    /\ UNCHANGED <<storeVars, owner, before, known>>

\* Whoever was told a URL reads it or forgets it.
Read == \E id \in known : Get(id)

Forget(id) ==
    /\ id \in known
    /\ known' = known \ {id}
    /\ answer' = Unasked
    /\ UNCHANGED <<storeVars, owner, before, worker, waiting>>

-----------------------------------------------------------------------------
Next ==
    \/ \E p \in Publishers :
          TimeOut(p) \/ \E w \in Workers, post \in Posts : Publish(p, w, post)
    \/ \E w \in Workers :
          \/ PutBegin(w) \/ ExpireOne(w) \/ EvictOne(w) \/ PutDone(w)
          \/ Reject(w) \/ Announce(w)
    \/ Read
    \/ \E id \in known : Forget(id)
    \/ Tick

Spec == Init /\ [][Next]_vars

-----------------------------------------------------------------------------
(* Properties *)

\* Every variable keeps its type, and the mutex belongs to the worker that
\* puts.
TypeOK ==
    /\ DOMAIN entries \subseteq Ids
    /\ \A id \in DOMAIN entries :
          entries[id] \in [size : 1 .. MaxResultBytes, left : 0 .. MaxTtl]
    /\ lru \in Seq(Ids)
    /\ totalBytes \in Int
    /\ owner \in Workers \cup {Nobody}
    /\ worker \in [Workers -> Job]
    /\ waiting \in [Publishers -> Posts \cup {NotWaiting}]
    /\ known \subseteq Ids
    /\ answer \in [id : Ids \cup {Nobody}, found : BOOLEAN]

\* The size of a set of entries.
Bytes[ids \in SUBSET DOMAIN entries] ==
    IF ids = {} THEN 0
    ELSE LET id == CHOOSE id \in ids : TRUE
         IN  entries[id].size + Bytes[ids \ {id}]

ListNamesEntries ==
    /\ \A i, j \in DOMAIN lru : lru[i] = lru[j] => i = j
    /\ {lru[i] : i \in DOMAIN lru} = DOMAIN entries

\* The list names every stored result once and nothing else, and the counter
\* is the size of what is stored: what the eviction loop relies on.
BooksAgree == ListNamesEntries /\ totalBytes = Bytes[DOMAIN entries]

\* The process does not grow without limit (memory_result_store.h:25): neither
\* the number nor the size of the results exceeds its bound, also within Put.
WithinLimits ==
    /\ Cardinality(DOMAIN entries) <= MaxResults
    /\ totalBytes <= MaxTotalBytes

\* An acceptable result is never refused for want of room: a loop that has
\* evicted everything has made enough (the tests end the process when a Put
\* below capacity fails, memory_result_store_test.cpp:64).
NeverRefused ==
    \A w \in Workers :
        worker[w].at = "answering" => worker[w].id # Nobody

\* The store keeps the promises of BoundedStore: expired results are not
\* served, and only the least recently used ones make room, and not one of
\* them too many, whatever publishers, readers and time do between the steps.
Kept == IF owner = Nobody THEN Live ELSE before
BoundedStoreI ==
    INSTANCE BoundedStore WITH results <- Kept.results, newer <- Kept.newer
ImplementsBoundedStore == BoundedStoreI!Spec
=============================================================================
