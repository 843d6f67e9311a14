------------------------- MODULE ResultStoreProofs -------------------------
(***************************************************************************)
(* The result store keeps to its types and its limits, its list names      *)
(* exactly what its map holds, its counter is the sum of the sizes, there  *)
(* is always room for a post it accepts, and it implements BoundedStore:   *)
(* for every configuration the constructor accepts, every number of        *)
(* publishers and workers, and every sequence of posts, reads, timeouts    *)
(* and ticks.                                                              *)
(***************************************************************************)
EXTENDS ResultStore, SequenceTheorems, FiniteSetTheorems, TLAPS

(* What erasing an entry from a list without repetitions leaves. *)
Injective(s) == \A i, j \in DOMAIN s : s[i] = s[j] => i = j
RangeOf(s) == {s[i] : i \in DOMAIN s}

LEMMA RemoveAtElements ==
    ASSUME NEW S, NEW s \in Seq(S), NEW i \in DOMAIN s
    PROVE  /\ RemoveAt(s, i) \in Seq(S)
           /\ Len(RemoveAt(s, i)) = Len(s) - 1
           /\ \A j \in 1 .. Len(s) - 1 :
                 RemoveAt(s, i)[j] = IF j < i THEN s[j] ELSE s[j + 1]
<1> DEFINE front == SubSeq(s, 1, i - 1)
           back == SubSeq(s, i + 1, Len(s))
<1>1. Len(s) \in Nat /\ i \in 1 .. Len(s)
  BY LenProperties
<1>2. /\ front \in Seq(S) /\ Len(front) = i - 1
      /\ \A j \in 1 .. i - 1 : front[j] = s[j]
  BY <1>1
<1>3. /\ back \in Seq(S) /\ Len(back) = Len(s) - i
      /\ \A j \in 1 .. Len(s) - i : back[j] = s[j + i]
  BY <1>1
<1>4. RemoveAt(s, i) = front \o back
  BY DEF RemoveAt
<1> HIDE DEF front, back
<1>5. /\ front \o back \in Seq(S)
      /\ Len(front \o back) = Len(front) + Len(back)
      /\ \A j \in 1 .. Len(front) + Len(back) :
            (front \o back)[j] =
               IF j <= Len(front) THEN front[j] ELSE back[j - Len(front)]
  BY <1>2, <1>3, ConcatProperties
<1>6. Len(front) + Len(back) = Len(s) - 1
  BY <1>1, <1>2, <1>3
<1>7. ASSUME NEW j \in 1 .. Len(s) - 1
      PROVE  (front \o back)[j] = IF j < i THEN s[j] ELSE s[j + 1]
  <2>1. CASE j < i
    BY <2>1, <1>1, <1>2, <1>5, <1>6
  <2>2. CASE j >= i
    <3>1. (front \o back)[j] = back[j - (i - 1)]
      BY <2>2, <1>1, <1>2, <1>5, <1>6
    <3>2. j - (i - 1) \in 1 .. Len(s) - i /\ (j - (i - 1)) + i = j + 1
      BY <2>2, <1>1
    <3> QED
      BY <2>2, <3>1, <3>2, <1>1, <1>3
  <2>3. j < i \/ j >= i
    BY <1>1
  <2> QED
    BY <2>1, <2>2, <2>3
<1> QED
  BY <1>4, <1>5, <1>6, <1>7

LEMMA RemoveAtInjective ==
    ASSUME NEW S, NEW s \in Seq(S), NEW i \in DOMAIN s, Injective(s)
    PROVE  /\ Injective(RemoveAt(s, i))
           /\ RangeOf(RemoveAt(s, i)) = RangeOf(s) \ {s[i]}
<1> DEFINE r == RemoveAt(s, i)
<1>1. /\ r \in Seq(S) /\ DOMAIN r = 1 .. Len(s) - 1
      /\ Len(s) \in Nat /\ DOMAIN s = 1 .. Len(s) /\ i \in 1 .. Len(s)
  BY RemoveAtElements, LenProperties
<1>2. \A j \in DOMAIN r : r[j] = IF j < i THEN s[j] ELSE s[j + 1]
  BY <1>1, RemoveAtElements
<1> HIDE DEF r
<1>3. Injective(r)
  BY <1>1, <1>2 DEF Injective
<1>4. RangeOf(r) \subseteq RangeOf(s) \ {s[i]}
  BY <1>1, <1>2 DEF Injective, RangeOf
<1>5. ASSUME NEW j \in DOMAIN s, s[j] # s[i]
      PROVE  \E k \in DOMAIN r : r[k] = s[j]
  <2>1. CASE j < i
    BY <2>1, <1>1, <1>2
  <2>2. CASE j > i
    <3>1. j - 1 \in DOMAIN r /\ r[j - 1] = s[j]
      BY <2>2, <1>1, <1>2
    <3> QED
      BY <3>1
  <2> QED
    BY <1>1, <1>5, <2>1, <2>2
<1>6. RangeOf(s) \ {s[i]} \subseteq RangeOf(r)
  BY <1>5 DEF RangeOf
<1> QED
  BY <1>3, <1>4, <1>6 DEF r

LEMMA PushFront ==
    ASSUME NEW S, NEW s \in Seq(S), Injective(s),
           NEW e \in S, e \notin RangeOf(s)
    PROVE  /\ <<e>> \o s \in Seq(S)
           /\ Injective(<<e>> \o s)
           /\ RangeOf(<<e>> \o s) = RangeOf(s) \cup {e}
<1> DEFINE r == <<e>> \o s
<1>1. /\ r \in Seq(S) /\ Len(s) \in Nat /\ DOMAIN s = 1 .. Len(s)
      /\ DOMAIN r = 1 .. Len(s) + 1
      /\ r[1] = e /\ \A j \in 1 .. Len(s) : r[j + 1] = s[j]
  OBVIOUS
<1>2. \A j \in 2 .. Len(s) + 1 : r[j] = s[j - 1] /\ j - 1 \in DOMAIN s
  BY <1>1
<1> HIDE DEF r
<1>3. ASSUME NEW j \in DOMAIN r, NEW k \in DOMAIN r, r[j] = r[k]
      PROVE  j = k
  <2>1. CASE j = 1 /\ k = 1
    BY <2>1
  <2>2. CASE j = 1 /\ k # 1
    BY <2>2, <1>1, <1>2, <1>3 DEF RangeOf
  <2>3. CASE j # 1 /\ k = 1
    <3>1. r[j] = s[j - 1] /\ j - 1 \in DOMAIN s
      BY <2>3, <1>1, <1>2
    <3>2. s[j - 1] = e
      BY <3>1, <2>3, <1>1, <1>3
    <3> QED
      BY <3>1, <3>2 DEF RangeOf
  <2>4. CASE j # 1 /\ k # 1
    <3>1. s[j - 1] = s[k - 1] /\ j - 1 \in DOMAIN s /\ k - 1 \in DOMAIN s
      BY <2>4, <1>1, <1>2, <1>3
    <3>2. j - 1 = k - 1
      BY <3>1 DEF Injective
    <3> QED
      BY <3>2, <1>1
  <2> QED
    BY <2>1, <2>2, <2>3, <2>4
<1>4. ASSUME NEW x \in RangeOf(s) PROVE x \in RangeOf(r)
  <2>1. PICK j \in DOMAIN s : s[j] = x
    BY DEF RangeOf
  <2>2. r[j + 1] = x /\ j + 1 \in DOMAIN r
    BY <2>1, <1>1
  <2> QED
    BY <2>2 DEF RangeOf
<1>5. e \in RangeOf(r)
  <2>1. 1 \in DOMAIN r
    BY <1>1
  <2> QED
    BY <2>1, <1>1 DEF RangeOf
<1>6. ASSUME NEW x \in RangeOf(r), x # e PROVE x \in RangeOf(s)
  <2>1. PICK j \in DOMAIN r : r[j] = x
    BY DEF RangeOf
  <2>2. j # 1
    BY <2>1, <1>1, <1>6
  <2>3. s[j - 1] = x /\ j - 1 \in DOMAIN s
    BY <2>1, <2>2, <1>1, <1>2
  <2> QED
    BY <2>3 DEF RangeOf
<1>7. Injective(r)
  BY <1>3 DEF Injective
<1>8. RangeOf(r) = RangeOf(s) \cup {e}
  BY <1>4, <1>5, <1>6
<1> QED
  BY <1>1, <1>7, <1>8 DEF r

-----------------------------------------------------------------------------
(* The inductive invariant *)

\* Only the worker that owns the mutex is within Put, and its post has passed
\* the tests: the evictions make room for something the store may hold.
PutterInv ==
    \A w \in Workers :
        worker[w].at = "putting" =>
            owner = w /\ worker[w].post \in Posts /\ Acceptable(worker[w].post)

\* The owner of the mutex is within Put.
OwnerInv == owner # Nobody => worker[owner].at = "putting"

StoreInv ==
    /\ TypeOK
    /\ ListNamesEntries
    /\ IsFiniteSet(DOMAIN entries)
    /\ WithinLimits
    /\ PutterInv
    /\ OwnerInv

Constants ==
    /\ MaxResults \in Nat \ {0} /\ MaxTotalBytes \in Nat \ {0}
    /\ MaxResultBytes \in Nat \ {0} /\ DefaultTtl \in Nat \ {0}
    /\ MaxTtl \in Nat \ {0} /\ DefaultTtl <= MaxTtl
    /\ Nobody \notin Ids /\ Nobody \notin Publishers /\ Nobody \notin Workers
    /\ \A post \in Posts : post.size \in Nat \ {0} /\ post.ttl \in Int

LEMMA ConstantsOK == Constants
BY ConfigAssumption, NamesAssumption DEF Constants

\* Erasing a stored result keeps list and map together and makes room.
LEMMA RemoveLockedKeeps ==
    ASSUME StoreInv, NEW id \in DOMAIN entries, RemoveLocked(id)
    PROVE  /\ DOMAIN entries' \subseteq Ids
           /\ \A other \in DOMAIN entries' :
                 entries'[other] \in [size : 1 .. MaxResultBytes, left : 0 .. MaxTtl]
           /\ lru' \in Seq(Ids)
           /\ totalBytes' \in Int
           /\ ListNamesEntries'
           /\ IsFiniteSet(DOMAIN entries')
           /\ WithinLimits'
<1> USE ConstantsOK DEF Constants
<1>1. /\ entries' = [other \in DOMAIN entries \ {id} |-> entries[other]]
      /\ lru' = RemoveAt(lru, Place(id))
      /\ totalBytes' = totalBytes - entries[id].size
  BY DEF RemoveLocked
<1>2. DOMAIN entries' = DOMAIN entries \ {id}
  BY <1>1
<1>3. Place(id) \in DOMAIN lru /\ lru[Place(id)] = id
  BY DEF StoreInv, ListNamesEntries, Place
<1>4. Injective(lru) /\ RangeOf(lru) = DOMAIN entries /\ lru \in Seq(Ids)
  BY DEF StoreInv, ListNamesEntries, TypeOK, Injective, RangeOf
<1>5. /\ lru' \in Seq(Ids)
      /\ Injective(lru')
      /\ RangeOf(lru') = DOMAIN entries \ {id}
  BY <1>1, <1>3, <1>4, RemoveAtElements, RemoveAtInjective
<1>6. ListNamesEntries'
  BY <1>2, <1>5 DEF ListNamesEntries, Injective, RangeOf
<1>7. IsFiniteSet(DOMAIN entries')
      /\ Cardinality(DOMAIN entries') = Cardinality(DOMAIN entries) - 1
      /\ Cardinality(DOMAIN entries) \in Nat
  BY <1>2, FS_RemoveElement, FS_CardinalityType DEF StoreInv
<1>8. entries[id].size \in 1 .. MaxResultBytes /\ totalBytes \in Int
  BY DEF StoreInv, TypeOK
<1>9. totalBytes' \in Int /\ totalBytes' <= totalBytes
  BY <1>1, <1>8
<1>10. WithinLimits'
  BY <1>7, <1>8, <1>9 DEF StoreInv, WithinLimits
<1> QED
  BY <1>1, <1>2, <1>5, <1>6, <1>7, <1>9, <1>10 DEF StoreInv, TypeOK

\* A new result goes in front when there is room for it.
LEMMA InsertKeeps ==
    ASSUME StoreInv, NEW id \in Ids, id \notin DOMAIN entries,
           NEW post \in Posts, Acceptable(post), ~MustEvict(post.size),
           Insert(id, post)
    PROVE  /\ DOMAIN entries' \subseteq Ids
           /\ \A other \in DOMAIN entries' :
                 entries'[other] \in [size : 1 .. MaxResultBytes, left : 0 .. MaxTtl]
           /\ lru' \in Seq(Ids)
           /\ totalBytes' \in Int
           /\ ListNamesEntries'
           /\ IsFiniteSet(DOMAIN entries')
           /\ WithinLimits'
<1> USE ConstantsOK DEF Constants
<1> DEFINE new == [size |-> post.size, left |-> TtlOf(post)]
<1>1. /\ entries' = [other \in DOMAIN entries \cup {id} |->
                        IF other = id THEN new ELSE entries[other]]
      /\ lru' = <<id>> \o lru
      /\ totalBytes' = totalBytes + post.size
  BY DEF Insert
<1>2. DOMAIN entries' = DOMAIN entries \cup {id}
  BY <1>1
<1>3. new \in [size : 1 .. MaxResultBytes, left : 0 .. MaxTtl]
  BY DEF Acceptable
<1> HIDE DEF new
<1>4. Injective(lru) /\ RangeOf(lru) = DOMAIN entries /\ lru \in Seq(Ids)
  BY DEF StoreInv, ListNamesEntries, TypeOK, Injective, RangeOf
<1>5. /\ lru' \in Seq(Ids)
      /\ Injective(lru')
      /\ RangeOf(lru') = DOMAIN entries \cup {id}
  BY <1>1, <1>4, PushFront
<1>6. ListNamesEntries'
  BY <1>2, <1>5 DEF ListNamesEntries, Injective, RangeOf
<1>7. IsFiniteSet(DOMAIN entries')
      /\ Cardinality(DOMAIN entries') = Cardinality(DOMAIN entries) + 1
      /\ Cardinality(DOMAIN entries) \in Nat
  BY <1>2, FS_AddElement, FS_CardinalityType DEF StoreInv
<1>8. /\ Cardinality(DOMAIN entries) < MaxResults
      /\ totalBytes + post.size <= MaxTotalBytes
      /\ totalBytes \in Int /\ post.size \in Nat
  BY <1>7 DEF MustEvict, StoreInv, TypeOK
<1>9. WithinLimits' /\ totalBytes' \in Int
  BY <1>1, <1>7, <1>8 DEF WithinLimits
<1>10. ASSUME NEW other \in DOMAIN entries'
       PROVE  entries'[other] \in [size : 1 .. MaxResultBytes, left : 0 .. MaxTtl]
  BY <1>1, <1>2, <1>3 DEF StoreInv, TypeOK
<1> QED
  BY <1>2, <1>5, <1>6, <1>7, <1>9, <1>10 DEF StoreInv, TypeOK

\* What the store's part of the invariant says of its three variables.
StoreOK ==
    /\ DOMAIN entries \subseteq Ids
    /\ \A id \in DOMAIN entries :
          entries[id] \in [size : 1 .. MaxResultBytes, left : 0 .. MaxTtl]
    /\ lru \in Seq(Ids)
    /\ totalBytes \in Int
    /\ ListNamesEntries
    /\ IsFiniteSet(DOMAIN entries)
    /\ WithinLimits

\* And what the rest of it says of everything else.
UsersOK ==
    /\ owner \in Workers \cup {Nobody}
    /\ worker \in [Workers -> Job]
    /\ waiting \in [Publishers -> Posts \cup {NotWaiting}]
    /\ known \subseteq Ids
    /\ answer \in [id : Ids \cup {Nobody}, found : BOOLEAN]
    /\ PutterInv
    /\ OwnerInv

LEMMA StoreInvParts == StoreInv <=> StoreOK /\ UsersOK
BY DEF StoreInv, StoreOK, UsersOK, TypeOK

LEMMA StoreInvPartsNext == StoreOK' /\ UsersOK' => StoreInv'
BY DEF StoreInv, StoreOK, UsersOK, TypeOK

\* A step that leaves the store alone keeps its part.
LEMMA StoreFrame == StoreOK /\ UNCHANGED storeVars => StoreOK'
BY DEF StoreOK, storeVars, ListNamesEntries, WithinLimits

LEMMA RemoveLockedStore ==
    ASSUME StoreInv, NEW id \in DOMAIN entries, RemoveLocked(id)
    PROVE  StoreOK'
BY RemoveLockedKeeps DEF StoreOK

LEMMA InitStoreInv == Init => StoreInv
<1> USE ConstantsOK DEF Constants
<1> SUFFICES ASSUME Init PROVE StoreInv
  OBVIOUS
<1>1. entries = <<>> /\ DOMAIN entries = {} /\ lru = <<>> /\ totalBytes = 0
  BY DEF Init
<1>2. IsFiniteSet(DOMAIN entries) /\ Cardinality(DOMAIN entries) = 0
  BY <1>1, FS_EmptySet
<1>3. ListNamesEntries
  BY <1>1 DEF ListNamesEntries
<1>4. StoreOK
  BY <1>1, <1>2, <1>3 DEF StoreOK, WithinLimits
<1>5. UsersOK
  BY DEF Init, UsersOK, Job, Free, NoPost, NotWaiting, Unasked, Stages,
         PutterInv, OwnerInv
<1> QED
  BY <1>4, <1>5, StoreInvParts

\* One case per action: what it does to the store, and to everybody else.
LEMMA StoreInvStep == StoreInv /\ [Next]_vars => StoreInv'
<1> USE ConstantsOK DEF Constants
<1> SUFFICES ASSUME StoreInv, [Next]_vars PROVE StoreInv'
  OBVIOUS
<1> USE StoreInvParts, StoreInvPartsNext
<1>1. ASSUME NEW p \in Publishers, TimeOut(p) PROVE StoreInv'
  <2>1. StoreOK'
    BY <1>1, StoreFrame DEF TimeOut
  <2>2. UsersOK'
    BY <1>1 DEF TimeOut, UsersOK, Job, NotWaiting, Unasked, PutterInv, OwnerInv,
                Acceptable, TtlOf
  <2> QED
    BY <2>1, <2>2
<1>2. ASSUME NEW p \in Publishers, NEW w \in Workers, NEW post \in Posts,
             Publish(p, w, post)
      PROVE  StoreInv'
  <2>1. StoreOK'
    BY <1>2, StoreFrame DEF Publish
  <2>2. UsersOK'
    BY <1>2 DEF Publish, UsersOK, Job, Free, Stages, NoPost, NotWaiting, Unasked,
                PutterInv, OwnerInv, Acceptable, TtlOf
  <2> QED
    BY <2>1, <2>2
<1>3. ASSUME NEW w \in Workers, PutBegin(w) PROVE StoreInv'
  <2>1. StoreOK'
    BY <1>3, StoreFrame DEF PutBegin
  <2>2. worker[w].post \in Posts
    BY <1>3 DEF PutBegin, UsersOK, Job, NoPost, Acceptable
  <2>3. UsersOK'
    BY <1>3, <2>2 DEF PutBegin, UsersOK, Job, Stages, Unasked, PutterInv, OwnerInv,
                Acceptable, TtlOf
  <2> QED
    BY <2>1, <2>3
<1>4. ASSUME NEW w \in Workers, ExpireOne(w) PROVE StoreInv'
  <2>1. StoreOK'
    BY <1>4, RemoveLockedStore DEF ExpireOne, Expired
  <2>2. UsersOK'
    BY <1>4 DEF ExpireOne, UsersOK, Unasked, PutterInv, OwnerInv, Acceptable, TtlOf
  <2> QED
    BY <2>1, <2>2
<1>5. ASSUME NEW w \in Workers, EvictOne(w) PROVE StoreInv'
  <2>1. Victim \in DOMAIN entries
    <3>1. lru \in Seq(Ids) /\ lru # <<>>
      BY <1>5 DEF EvictOne, StoreOK
    <3>2. Len(lru) \in DOMAIN lru
      BY <3>1, EmptySeq, LenProperties
    <3> QED
      BY <3>2 DEF Victim, StoreOK, ListNamesEntries
  <2>2. StoreOK'
    BY <1>5, <2>1, RemoveLockedStore DEF EvictOne
  <2>3. UsersOK'
    BY <1>5 DEF EvictOne, UsersOK, Unasked, PutterInv, OwnerInv, Acceptable, TtlOf
  <2> QED
    BY <2>2, <2>3
<1>6. ASSUME NEW w \in Workers, PutDone(w) PROVE StoreInv'
  <2> DEFINE size == worker[w].post.size
  <2>1. worker[w].at = "putting" /\ worker[w].post \in Posts
        /\ Acceptable(worker[w].post)
    BY <1>6 DEF PutDone, UsersOK, PutterInv, OwnerInv
  <2>2. CASE MustEvict(size)
    <3>1. StoreOK'
      BY <1>6, <2>2, StoreFrame DEF PutDone
    <3>2. /\ worker' = [worker EXCEPT ![w].at = "answering"]
          /\ owner' = Nobody /\ owner = w /\ answer' = Unasked
          /\ UNCHANGED <<waiting, known>>
      BY <1>6, <2>2 DEF PutDone
    <3>3. UsersOK'
      BY <2>1, <3>2 DEF UsersOK, Job, Stages, Unasked, PutterInv, OwnerInv,
                        Acceptable, TtlOf
    <3> QED
      BY <3>1, <3>3
  <2>3. CASE ~MustEvict(size)
    <3>1. NewId \in Ids /\ NewId \notin DOMAIN entries
      BY <1>6, <2>3 DEF PutDone, NewId, InUse
    <3>2. StoreOK'
      BY <1>6, <2>1, <2>3, <3>1, InsertKeeps DEF PutDone, StoreOK
    <3>3. UsersOK'
      BY <1>6, <2>1, <2>3, <3>1 DEF PutDone, UsersOK, Job, Stages, Unasked,
                                    PutterInv, OwnerInv, Acceptable, TtlOf
    <3> QED
      BY <3>2, <3>3
  <2> QED
    BY <2>2, <2>3
<1>7. ASSUME NEW w \in Workers, Reject(w) PROVE StoreInv'
  <2>1. StoreOK'
    BY <1>7, StoreFrame DEF Reject
  <2>2. UsersOK'
    BY <1>7 DEF Reject, UsersOK, Job, Free, Stages, NoPost, NotWaiting, Unasked,
                PutterInv, OwnerInv, Acceptable, TtlOf
  <2> QED
    BY <2>1, <2>2
<1>8. ASSUME NEW w \in Workers, Announce(w) PROVE StoreInv'
  <2>1. StoreOK'
    BY <1>8, StoreFrame DEF Announce
  <2>2. UsersOK'
    BY <1>8 DEF Announce, UsersOK, Job, Free, Stages, NoPost, NotWaiting, Unasked,
                PutterInv, OwnerInv, Acceptable, TtlOf
  <2> QED
    BY <2>1, <2>2
<1>9. ASSUME NEW id \in known, Get(id) PROVE StoreInv'
  <2>0. answer' \in [id : Ids \cup {Nobody}, found : BOOLEAN]
        /\ UNCHANGED <<owner, worker, waiting, known>>
    <3>1. id \in Ids /\ Ids \subseteq Ids \cup {Nobody}
      BY <1>9 DEF UsersOK
    <3>2. \E found \in BOOLEAN : answer' = [id |-> id, found |-> found]
      BY <1>9 DEF Get
    <3>3. UNCHANGED <<owner, worker, waiting, known>>
      BY <1>9 DEF Get
    <3> QED
      BY <3>1, <3>2, <3>3
  <2>1. UsersOK'
    BY <2>0 DEF UsersOK, PutterInv, OwnerInv, Acceptable, TtlOf
  <2>2. CASE UNCHANGED storeVars
    BY <2>1, <2>2, StoreFrame
  <2>3. CASE id \in Expired /\ RemoveLocked(id)
    BY <2>1, <2>3, RemoveLockedStore DEF Expired
  <2>4. CASE /\ id \in DOMAIN entries
             /\ lru' = <<id>> \o RemoveAt(lru, Place(id))
             /\ UNCHANGED <<entries, totalBytes>>
    <3>1. Injective(lru) /\ RangeOf(lru) = DOMAIN entries /\ lru \in Seq(Ids)
      BY DEF StoreOK, ListNamesEntries, Injective, RangeOf
    <3>2. Place(id) \in DOMAIN lru /\ lru[Place(id)] = id
      BY <2>4 DEF StoreOK, ListNamesEntries, Place
    <3> DEFINE rest == RemoveAt(lru, Place(id))
    <3>3. rest \in Seq(Ids) /\ Injective(rest)
          /\ RangeOf(rest) = DOMAIN entries \ {id}
      BY <3>1, <3>2, RemoveAtElements, RemoveAtInjective
    <3> HIDE DEF rest
    <3>4. id \in Ids /\ id \notin RangeOf(rest)
      BY <2>4, <3>3 DEF StoreOK
    <3>5. <<id>> \o rest \in Seq(Ids) /\ Injective(<<id>> \o rest)
          /\ RangeOf(<<id>> \o rest) = RangeOf(rest) \cup {id}
      BY <3>3, <3>4, PushFront
    <3>6. lru' = <<id>> \o rest /\ UNCHANGED <<entries, totalBytes>>
      BY <2>4 DEF rest
    <3>7. RangeOf(lru') = DOMAIN entries /\ Injective(lru') /\ lru' \in Seq(Ids)
      BY <2>4, <3>3, <3>5, <3>6
    <3>8. ListNamesEntries'
      BY <3>6, <3>7 DEF ListNamesEntries, Injective, RangeOf
    <3>9. StoreOK'
      BY <3>6, <3>7, <3>8 DEF StoreOK, WithinLimits
    <3> QED
      BY <2>1, <3>9
  <2> QED
    BY <1>9, <2>2, <2>3, <2>4 DEF Get
<1>10. ASSUME NEW id \in known, Forget(id) PROVE StoreInv'
  <2>1. StoreOK'
    BY <1>10, StoreFrame DEF Forget
  <2>2. UsersOK'
    BY <1>10 DEF Forget, UsersOK, Unasked, PutterInv, OwnerInv, Acceptable, TtlOf
  <2> QED
    BY <2>1, <2>2
<1>11. CASE Tick
  <2>1. DOMAIN entries' = DOMAIN entries
    BY <1>11 DEF Tick
  <2>2. \A id \in DOMAIN entries' :
           entries'[id] \in [size : 1 .. MaxResultBytes, left : 0 .. MaxTtl]
    BY <1>11, <2>1 DEF Tick, StoreOK
  <2>3. StoreOK'
    BY <1>11, <2>1, <2>2 DEF Tick, StoreOK, ListNamesEntries, WithinLimits
  <2>4. UsersOK'
    BY <1>11 DEF Tick, UsersOK, Unasked, PutterInv, OwnerInv, Acceptable, TtlOf
  <2> QED
    BY <2>3, <2>4
<1>12. CASE UNCHANGED vars
  <2>1. StoreOK'
    BY <1>12, StoreFrame DEF vars, storeVars
  <2>2. UsersOK'
    BY <1>12 DEF vars, UsersOK, PutterInv, OwnerInv, Acceptable, TtlOf
  <2> QED
    BY <2>1, <2>2
<1> QED
  BY <1>1, <1>2, <1>3, <1>4, <1>5, <1>6, <1>7, <1>8, <1>9, <1>10, <1>11, <1>12
     DEF Next, Read

-----------------------------------------------------------------------------
(* The theorems *)

LEMMA StoreSafe == Spec => []StoreInv
BY InitStoreInv, StoreInvStep, PTL DEF Spec

\* Type correctness: sizes and times of what is stored are in range, and so
\* is everything the workers and the publishers keep.
THEOREM TypeCorrect == Spec => []TypeOK
<1>1. StoreInv => TypeOK
  BY DEF StoreInv
<1> QED
  BY <1>1, StoreSafe, PTL

\* The store never exceeds its two bounds, not even within Put, whoever posts
\* whatever, and whoever gives up waiting.
THEOREM NeverOverfull == Spec => []WithinLimits
<1>1. StoreInv => WithinLimits
  BY DEF StoreInv
<1> QED
  BY <1>1, StoreSafe, PTL

\* The list names every stored result once and nothing else, also between two
\* evictions and after a read: what RemoveLocked and the eviction loop rely on
\* when they follow an iterator.
THEOREM ListAgrees == Spec => []ListNamesEntries
<1>1. StoreInv => ListNamesEntries
  BY DEF StoreInv
<1> QED
  BY <1>1, StoreSafe, PTL

-----------------------------------------------------------------------------
(* Induction without an operator parameter: the statement to be proved is
   given as the set of the values that have it. *)

\* A set of natural numbers that is not empty has a least element: the
\* intervals up to its elements are finite sets, and strict inclusion of
\* finite sets is well founded.
LEMMA LeastNatural ==
  ASSUME NEW T, T \subseteq Nat, T # {}
  PROVE  \E m \in T : \A y \in T : m <= y
<1> DEFINE Below == {1 .. n : n \in T}
<1>1. \A n \in Nat : 1 .. n \in FiniteSubsetsOf(Nat)
  BY FS_Interval DEF FiniteSubsetsOf
<1>2. Below \subseteq FiniteSubsetsOf(Nat) /\ Below # {}
  BY <1>1
<1>3. IsWellFoundedOn(StrictSubsetOrdering(Nat), FiniteSubsetsOf(Nat))
  BY FS_StrictSubsetOrderingWellFounded
<1>4. PICK M \in Below : \A N \in Below : <<N, M>> \notin StrictSubsetOrdering(Nat)
  <2> HIDE DEF Below
  <2> QED
    BY <1>2, <1>3, WFMin
<1>5. PICK m \in T : M = 1 .. m
  OBVIOUS
<1>6. ASSUME NEW y \in T, y < m PROVE FALSE
  <2>1. 1 .. y \subseteq 1 .. m /\ 1 .. y # 1 .. m
    <3>1. m \in 1 .. m /\ m \notin 1 .. y
      BY <1>6
    <3> QED
      BY <3>1, <1>6
  <2>2. <<1 .. y, 1 .. m>> \in StrictSubsetOrdering(Nat)
    BY <2>1 DEF StrictSubsetOrdering
  <2> QED
    BY <1>4, <1>5, <2>2
<1> QED
  BY <1>5, <1>6

\* Induction over the natural numbers.
LEMMA NaturalsReached ==
  ASSUME NEW S, 0 \in S, \A n \in Nat : n \in S => n + 1 \in S
  PROVE  Nat \subseteq S
<1> SUFFICES ASSUME Nat \ S # {} PROVE FALSE
  OBVIOUS
<1>1. PICK m \in Nat \ S : \A y \in Nat \ S : m <= y
  BY LeastNatural
<1>2. m - 1 \in Nat /\ m - 1 \in S
  BY <1>1
<1> QED
  BY <1>1, <1>2

\* Induction over the parts of a finite set.
LEMMA FiniteReached ==
  ASSUME NEW U, IsFiniteSet(U),
         NEW Good, {} \in Good,
         \A T \in SUBSET U, x \in U : T \in Good /\ x \notin T => T \cup {x} \in Good
  PROVE  U \in Good
<1> DEFINE Sized == {n \in Nat : \A T \in SUBSET U : Cardinality(T) = n => T \in Good}
<1>1. \A T \in SUBSET U : IsFiniteSet(T) /\ Cardinality(T) \in Nat
  BY FS_Subset, FS_CardinalityType
<1>2. 0 \in Sized
  BY <1>1, FS_EmptySet
<1>3. ASSUME NEW n \in Nat, n \in Sized PROVE n + 1 \in Sized
  <2>1. ASSUME NEW T \in SUBSET U, Cardinality(T) = n + 1 PROVE T \in Good
    <3>1. T # {}
      BY <2>1, FS_EmptySet
    <3>2. PICK x \in T : TRUE
      BY <3>1
    <3>3. Cardinality(T \ {x}) = n
      <4>1. IsFiniteSet(T) /\ Cardinality(T) = n + 1
        BY <1>1, <2>1
      <4>2. Cardinality(T \ {x}) = Cardinality(T) - 1
        BY <3>2, <4>1, FS_RemoveElement
      <4> QED
        BY <4>1, <4>2
    <3>4. T \ {x} \in Good
      BY <1>3, <3>3
    <3>5. T = (T \ {x}) \cup {x}
      BY <3>2
    <3> QED
      BY <3>2, <3>4, <3>5
  <2> QED
    BY <2>1
<1>4. Nat \subseteq Sized
  <2> HIDE DEF Sized
  <2> QED
    BY <1>2, <1>3, NaturalsReached
<1> QED
  BY <1>1, <1>4

-----------------------------------------------------------------------------
(* Sums over the parts of a finite set *)

\* g gives every part of U the sum of the sizes of its elements.
IsSum(g, U, size) ==
    /\ g \in [SUBSET U -> Int]
    /\ g[{}] = 0
    /\ \A T \in SUBSET U : \A x \in T : g[T] = size[x] + g[T \ {x}]

\* A sum taken in some order, and why there is one.
InOrder(g, Parts, size, pick) ==
    g = [T \in Parts |-> IF T = {} THEN 0 ELSE size[pick[T]] + g[T \ {pick[T]}]]

LEMMA SumExists ==
  ASSUME NEW U, IsFiniteSet(U), NEW size,
         NEW pick, \A T \in SUBSET U : T # {} => pick[T] \in T
  PROVE  \E g : InOrder(g, SUBSET U, size, pick)
<1> DEFINE Upto(n) == {T \in SUBSET U : Cardinality(T) <= n}
           Done == {n \in Nat : \E g : InOrder(g, Upto(n), size, pick)}
<1>1. \A T \in SUBSET U : IsFiniteSet(T) /\ Cardinality(T) \in Nat
                          /\ Cardinality(T) <= Cardinality(U)
  BY FS_Subset, FS_CardinalityType
<1>2. 0 \in Done
  <2>1. \A T \in Upto(0) : T = {}
    <3> TAKE T \in Upto(0)
    <3>1. IsFiniteSet(T) /\ Cardinality(T) = 0
      BY <1>1
    <3> QED
      BY <3>1, FS_EmptySet
  <2> DEFINE g == [T \in Upto(0) |-> 0]
  <2>2. InOrder(g, Upto(0), size, pick)
    BY <2>1 DEF InOrder
  <2> QED
    BY <2>2
<1>3. ASSUME NEW n \in Nat, n \in Done PROVE n + 1 \in Done
  <2>1. PICK g : InOrder(g, Upto(n), size, pick)
    BY <1>3
  <2> DEFINE h == [T \in Upto(n + 1) |->
                     IF T = {} THEN 0 ELSE size[pick[T]] + g[T \ {pick[T]}]]
  <2>2. \A T \in Upto(n) : h[T] = g[T] /\ T \in Upto(n + 1)
    <3> TAKE T \in Upto(n)
    <3>1. T \in Upto(n + 1)
      BY <1>1
    <3>2. g[T] = IF T = {} THEN 0 ELSE size[pick[T]] + g[T \ {pick[T]}]
      BY <2>1 DEF InOrder
    <3> QED
      BY <3>1, <3>2
  <2>3. \A T \in Upto(n + 1) : T # {} => T \ {pick[T]} \in Upto(n)
    <3> SUFFICES ASSUME NEW T \in Upto(n + 1), T # {}
                 PROVE  T \ {pick[T]} \in Upto(n)
      OBVIOUS
    <3>1. pick[T] \in T /\ IsFiniteSet(T) /\ Cardinality(T) \in Nat
      BY <1>1
    <3>2. Cardinality(T \ {pick[T]}) = Cardinality(T) - 1
      BY <3>1, FS_RemoveElement
    <3> QED
      BY <3>1, <3>2
  <2>4. h = [T \in Upto(n + 1) |->
               IF T = {} THEN 0 ELSE size[pick[T]] + h[T \ {pick[T]}]]
    <3>1. \A T \in Upto(n + 1) :
            (IF T = {} THEN 0 ELSE size[pick[T]] + g[T \ {pick[T]}])
              = (IF T = {} THEN 0 ELSE size[pick[T]] + h[T \ {pick[T]}])
      <4> HIDE DEF h
      <4> QED
        BY <2>2, <2>3
    <3> QED
      BY <3>1
  <2>5. InOrder(h, Upto(n + 1), size, pick)
    <3> HIDE DEF h, Upto
    <3> QED
      BY <2>4 DEF InOrder
  <2>6. \E f : InOrder(f, Upto(n + 1), size, pick)
    <3> HIDE DEF h, Upto
    <3> QED
      BY <2>5
  <2>7. n + 1 \in Nat
    OBVIOUS
  <2> HIDE DEF Upto
  <2> QED
    BY <2>6, <2>7
<1>4. Nat \subseteq Done
  <2> HIDE DEF Done
  <2> QED
    BY <1>2, <1>3, NaturalsReached
<1>5. Cardinality(U) \in Nat /\ Upto(Cardinality(U)) = SUBSET U
  BY <1>1
<1> QED
  BY <1>4, <1>5

\* It is the same whatever the order.
LEMMA SumAnyOrder ==
  ASSUME NEW U, IsFiniteSet(U), NEW size \in [U -> Int],
         NEW pick, \A T \in SUBSET U : T # {} => pick[T] \in T,
         NEW g, InOrder(g, SUBSET U, size, pick)
  PROVE  IsSum(g, U, size)
<1> DEFINE Good == {n \in Nat : \A T \in SUBSET U : Cardinality(T) <= n =>
                      /\ g[T] \in Int
                      /\ \A x \in T : g[T] = size[x] + g[T \ {x}]}
<1>1. \A T \in SUBSET U : IsFiniteSet(T) /\ Cardinality(T) \in Nat
  BY FS_Subset, FS_CardinalityType
<1>2. /\ DOMAIN g = SUBSET U
      /\ g = [T \in SUBSET U |-> g[T]]
      /\ \A T \in SUBSET U :
            g[T] = IF T = {} THEN 0 ELSE size[pick[T]] + g[T \ {pick[T]}]
  BY DEF InOrder
<1>3. 0 \in Good
  <2>1. \A T \in SUBSET U : Cardinality(T) <= 0 => T = {}
    <3> SUFFICES ASSUME NEW T \in SUBSET U, Cardinality(T) <= 0 PROVE T = {}
      OBVIOUS
    <3>1. IsFiniteSet(T) /\ Cardinality(T) = 0
      BY <1>1
    <3> QED
      BY <3>1, FS_EmptySet
  <2>2. \A T \in SUBSET U : Cardinality(T) <= 0 => g[T] = 0
    BY <1>2, <2>1
  <2> QED
    BY <2>1, <2>2
<1>4. ASSUME NEW n \in Nat, n \in Good PROVE n + 1 \in Good
  <2> SUFFICES ASSUME NEW T \in SUBSET U, Cardinality(T) <= n + 1, T # {}
               PROVE  /\ g[T] \in Int
                      /\ \A x \in T : g[T] = size[x] + g[T \ {x}]
    <3>1. ASSUME NEW T \in SUBSET U, T = {}
          PROVE  g[T] \in Int /\ \A x \in T : g[T] = size[x] + g[T \ {x}]
      <4>1. g[T] = 0
        BY <1>2, <3>1
      <4> QED
        BY <4>1, <3>1
    <3>2. n + 1 \in Nat
      OBVIOUS
    <3> QED
      BY <3>1, <3>2
  <2>1. ASSUME NEW R \in SUBSET T, R # T PROVE R \in SUBSET U /\ Cardinality(R) <= n
    <3>0. T \in SUBSET U /\ R \in SUBSET U
      OBVIOUS
    <3>1. IsFiniteSet(T) /\ Cardinality(T) \in Nat /\ Cardinality(R) \in Nat
      BY <1>1, <3>0
    <3>2. Cardinality(R) < Cardinality(T)
      BY <2>1, <3>1, FS_Subset
    <3> QED
      BY <3>0, <3>1, <3>2
  <2>2. ASSUME NEW R \in SUBSET T, R # T
        PROVE  g[R] \in Int /\ \A y \in R : g[R] = size[y] + g[R \ {y}]
    <3>1. R \in SUBSET U /\ Cardinality(R) <= n
      BY <2>1, <2>2
    <3> QED
      BY <1>4, <3>1
  <2> DEFINE p == pick[T]
  <2>3. p \in T /\ g[T] = size[p] + g[T \ {p}]
    BY <1>2
  <2> HIDE DEF p
  <2>4. g[T] \in Int
    <3>1. size[p] \in Int /\ g[T \ {p}] \in Int
      BY <2>2, <2>3
    <3> QED
      BY <2>3, <3>1
  <2>5. ASSUME NEW x \in T, x # p PROVE g[T] = size[x] + g[T \ {x}]
    <3> DEFINE R == T \ {p, x}
    <3>1. (T \ {p}) \ {x} = R /\ (T \ {x}) \ {p} = R
      OBVIOUS
    <3>2. g[T \ {p}] = size[x] + g[R]
      <4>1. x \in T \ {p} /\ T \ {p} \in SUBSET T /\ T \ {p} # T
        BY <2>3, <2>5
      <4> QED
        BY <2>2, <3>1, <4>1
    <3>3. g[T \ {x}] = size[p] + g[R]
      <4>1. p \in T \ {x} /\ T \ {x} \in SUBSET T /\ T \ {x} # T
        BY <2>3, <2>5
      <4> QED
        BY <2>2, <3>1, <4>1
    <3>4. size[x] \in Int /\ size[p] \in Int /\ g[R] \in Int
      <4>1. R \in SUBSET T /\ R # T
        OBVIOUS
      <4> QED
        BY <2>2, <2>3, <4>1
    <3> HIDE DEF R
    <3> QED
      BY <2>3, <3>2, <3>3, <3>4
  <2> QED
    BY <2>3, <2>4, <2>5
<1>5. Nat \subseteq Good
  <2> HIDE DEF Good
  <2> QED
    BY <1>3, <1>4, NaturalsReached
<1>6. \A T \in SUBSET U : g[T] \in Int /\ \A x \in T : g[T] = size[x] + g[T \ {x}]
  BY <1>1, <1>5
<1> QED
  BY <1>2, <1>6 DEF IsSum

\* Two sums agree on what both count, if the sizes do.
LEMMA SumsAgree ==
  ASSUME NEW U, IsFiniteSet(U), NEW s, NEW g, IsSum(g, U, s),
         NEW V, NEW t, NEW h, IsSum(h, V, t),
         NEW W, W \subseteq U \cap V, \A x \in W : s[x] = t[x]
  PROVE  g[W] = h[W]
<1> DEFINE Good == {T \in SUBSET W : g[T] = h[T]}
<1>1. {} \in Good
  BY DEF IsSum
<1>2. ASSUME NEW T \in SUBSET W, NEW x \in W, T \in Good, x \notin T
      PROVE  T \cup {x} \in Good
  <2>1. (T \cup {x}) \ {x} = T /\ T \cup {x} \in SUBSET U /\ T \cup {x} \in SUBSET V
        /\ x \in T \cup {x} /\ g[T] = h[T]
    BY <1>2
  <2>2. g[T \cup {x}] = s[x] + g[T]
    BY <2>1 DEF IsSum
  <2>3. h[T \cup {x}] = t[x] + h[T]
    BY <2>1 DEF IsSum
  <2> QED
    BY <2>1, <2>2, <2>3
<1>3. IsFiniteSet(W)
  BY FS_Subset
<1>4. W \in Good
  <2> HIDE DEF Good
  <2> QED
    BY <1>1, <1>2, <1>3, FiniteReached
<1> QED
  BY <1>4

-----------------------------------------------------------------------------
(* The counter *)

\* The function Bytes, for any value of the map.
BytesOf(es) ==
    LET Bytes_[ids \in SUBSET DOMAIN es] ==
          IF ids = {} THEN 0
          ELSE LET id == CHOOSE id \in ids : TRUE
               IN  es[id].size + Bytes_[ids \ {id}]
    IN  Bytes_

SizesOf(es) == [id \in DOMAIN es |-> es[id].size]
Picks(es) == [ids \in SUBSET DOMAIN es |-> CHOOSE id \in ids : TRUE]

\* The recursive definition defines a sum, in whatever order it counts.
LEMMA BytesIsSum ==
  ASSUME NEW es, IsFiniteSet(DOMAIN es), \A id \in DOMAIN es : es[id].size \in Int
  PROVE  IsSum(BytesOf(es), DOMAIN es, SizesOf(es))
<1> DEFINE U == DOMAIN es
           Rec(g) == g = [ids \in SUBSET U |->
                            IF ids = {} THEN 0
                            ELSE LET id == CHOOSE id \in ids : TRUE
                                 IN  es[id].size + g[ids \ {id}]]
<1>1. \A T \in SUBSET U : T # {} => Picks(es)[T] \in T
  BY DEF Picks
<1>2. SizesOf(es) \in [U -> Int]
  BY DEF SizesOf
<1>3. \A g : InOrder(g, SUBSET U, SizesOf(es), Picks(es)) <=> Rec(g)
  <2> TAKE g
  <2>1. \A ids \in SUBSET U :
           (IF ids = {} THEN 0
            ELSE SizesOf(es)[Picks(es)[ids]] + g[ids \ {Picks(es)[ids]}])
             = (IF ids = {} THEN 0
                ELSE LET id == CHOOSE id \in ids : TRUE
                     IN  es[id].size + g[ids \ {id}])
    <3> TAKE ids \in SUBSET U
    <3>1. Picks(es)[ids] = CHOOSE id \in ids : TRUE
      BY DEF Picks
    <3>2. ids # {} => SizesOf(es)[Picks(es)[ids]] = es[Picks(es)[ids]].size
      BY <1>1 DEF SizesOf
    <3> QED
      BY <3>1, <3>2
  <2> QED
    BY <2>1 DEF InOrder
<1>4. \E g : Rec(g)
  <2> HIDE DEF U, Rec
  <2>1. \E g : InOrder(g, SUBSET U, SizesOf(es), Picks(es))
    BY <1>1, SumExists DEF U
  <2> QED
    BY <1>3, <2>1
<1>5. Rec(CHOOSE g : Rec(g))
  <2> HIDE DEF Rec
  <2> QED
    BY <1>4
<1>6. BytesOf(es) = CHOOSE g : Rec(g)
  BY DEF BytesOf
<1>7. InOrder(BytesOf(es), SUBSET U, SizesOf(es), Picks(es))
  <2> HIDE DEF Rec
  <2> QED
    BY <1>3, <1>5, <1>6
<1> QED
  BY <1>1, <1>2, <1>7, SumAnyOrder

\* Whoever agrees on the sizes agrees on the sums.
LEMMA BytesAgree ==
  ASSUME NEW es, IsFiniteSet(DOMAIN es), \A id \in DOMAIN es : es[id].size \in Int,
         NEW ft, IsFiniteSet(DOMAIN ft), \A id \in DOMAIN ft : ft[id].size \in Int,
         NEW W, W \subseteq DOMAIN es \cap DOMAIN ft,
         \A id \in W : es[id].size = ft[id].size
  PROVE  BytesOf(es)[W] = BytesOf(ft)[W]
<1>1. \A id \in W : SizesOf(es)[id] = SizesOf(ft)[id]
  BY DEF SizesOf
<1>2. /\ IsSum(BytesOf(es), DOMAIN es, SizesOf(es))
      /\ IsSum(BytesOf(ft), DOMAIN ft, SizesOf(ft))
  BY BytesIsSum
<1> QED
  BY <1>1, <1>2, SumsAgree

\* What one entry adds.
LEMMA BytesSplit ==
  ASSUME NEW es, IsFiniteSet(DOMAIN es), \A id \in DOMAIN es : es[id].size \in Int,
         NEW x \in DOMAIN es
  PROVE  /\ BytesOf(es)[DOMAIN es] = es[x].size + BytesOf(es)[DOMAIN es \ {x}]
         /\ BytesOf(es)[DOMAIN es \ {x}] \in Int
<1>1. IsSum(BytesOf(es), DOMAIN es, SizesOf(es))
  BY BytesIsSum
<1>2. DOMAIN es \in SUBSET DOMAIN es /\ DOMAIN es \ {x} \in SUBSET DOMAIN es
  OBVIOUS
<1>3. SizesOf(es)[x] = es[x].size
  BY DEF SizesOf
<1> QED
  BY <1>1, <1>2, <1>3 DEF IsSum

Counted == totalBytes = BytesOf(entries)[DOMAIN entries]

LEMMA CountedIs == Counted <=> totalBytes = Bytes[DOMAIN entries]
BY DEF Counted, BytesOf, Bytes

\* What the store's operations do to the map and the counter.
LEMMA StoreShape ==
  ASSUME StoreInv, [Next]_vars
  PROVE  \/ UNCHANGED <<entries, totalBytes>>
         \/ \E id \in DOMAIN entries : RemoveLocked(id)
         \/ \E id \in Ids \ DOMAIN entries, post \in Posts : Insert(id, post)
         \/ Tick
<1> USE StoreInvParts
<1>1. ASSUME NEW w \in Workers, EvictOne(w)
      PROVE  \E id \in DOMAIN entries : RemoveLocked(id)
  <2>1. lru \in Seq(Ids) /\ lru # <<>>
    BY <1>1 DEF EvictOne, StoreOK
  <2>2. Len(lru) \in DOMAIN lru
    BY <2>1, EmptySeq, LenProperties
  <2>3. Victim \in DOMAIN entries
    BY <2>2 DEF Victim, StoreOK, ListNamesEntries
  <2> QED
    BY <1>1, <2>3 DEF EvictOne
<1>2. ASSUME NEW w \in Workers, PutDone(w)
      PROVE  \/ UNCHANGED <<entries, totalBytes>>
             \/ \E id \in Ids \ DOMAIN entries, post \in Posts : Insert(id, post)
  <2>1. CASE MustEvict(worker[w].post.size)
    BY <1>2, <2>1 DEF PutDone, storeVars
  <2>2. CASE ~MustEvict(worker[w].post.size)
    <3>1. NewId \in Ids \ DOMAIN entries /\ Insert(NewId, worker[w].post)
      BY <1>2, <2>2 DEF PutDone, NewId, InUse
    <3>2. worker[w].post \in Posts
      BY <1>2, ConstantsOK DEF PutDone, UsersOK, PutterInv, OwnerInv, Constants
    <3> QED
      BY <3>1, <3>2
  <2> QED
    BY <2>1, <2>2
<1>3. ASSUME NEW id, Get(id)
      PROVE  \/ UNCHANGED <<entries, totalBytes>>
             \/ \E other \in DOMAIN entries : RemoveLocked(other)
  BY <1>3 DEF Get, Expired, storeVars
<1>4. ASSUME NEW w \in Workers, ExpireOne(w)
      PROVE  \E id \in DOMAIN entries : RemoveLocked(id)
  BY <1>4 DEF ExpireOne, Expired
<1> QED
  BY <1>1, <1>2, <1>3, <1>4
     DEF Next, Read, TimeOut, Publish, PutBegin, Reject, Announce, Forget, vars,
         storeVars

LEMMA InitCounted == Init => Counted
<1> SUFFICES ASSUME Init PROVE Counted
  OBVIOUS
<1>1. DOMAIN entries = {} /\ totalBytes = 0
  BY DEF Init
<1>2. IsFiniteSet(DOMAIN entries) /\ \A id \in DOMAIN entries : entries[id].size \in Int
  BY <1>1, FS_EmptySet
<1>3. IsSum(BytesOf(entries), DOMAIN entries, SizesOf(entries))
  BY <1>2, BytesIsSum
<1> QED
  BY <1>1, <1>3 DEF Counted, IsSum

LEMMA CountedStep == StoreInv /\ StoreInv' /\ Counted /\ [Next]_vars => Counted'
<1> SUFFICES ASSUME StoreInv, StoreInv', Counted, [Next]_vars PROVE Counted'
  OBVIOUS
<1>1. IsFiniteSet(DOMAIN entries) /\ \A id \in DOMAIN entries : entries[id].size \in Int
  BY DEF StoreInv, TypeOK
<1>2. IsFiniteSet(DOMAIN entries') /\ \A id \in DOMAIN entries' : entries'[id].size \in Int
  BY DEF StoreInv, TypeOK
<1>3. CASE UNCHANGED <<entries, totalBytes>>
  BY <1>3 DEF Counted
<1>4. ASSUME NEW id \in DOMAIN entries, RemoveLocked(id) PROVE Counted'
  <2>1. /\ DOMAIN entries' = DOMAIN entries \ {id}
        /\ \A other \in DOMAIN entries' : entries'[other].size = entries[other].size
        /\ totalBytes' = totalBytes - entries[id].size
    BY <1>4 DEF RemoveLocked
  <2>2. /\ BytesOf(entries)[DOMAIN entries]
             = entries[id].size + BytesOf(entries)[DOMAIN entries']
        /\ BytesOf(entries)[DOMAIN entries'] \in Int
    BY <1>1, <2>1, BytesSplit
  <2>3. BytesOf(entries)[DOMAIN entries'] = BytesOf(entries')[DOMAIN entries']
    BY <1>1, <1>2, <2>1, BytesAgree
  <2> QED
    BY <1>1, <2>1, <2>2, <2>3 DEF Counted
<1>5. ASSUME NEW id \in Ids \ DOMAIN entries, NEW post \in Posts, Insert(id, post)
      PROVE  Counted'
  <2>1. /\ DOMAIN entries' = DOMAIN entries \cup {id}
        /\ id \in DOMAIN entries' /\ DOMAIN entries' \ {id} = DOMAIN entries
        /\ \A other \in DOMAIN entries : entries'[other].size = entries[other].size
        /\ entries'[id].size = post.size
        /\ totalBytes' = totalBytes + post.size
    BY <1>5 DEF Insert
  <2>2. /\ BytesOf(entries')[DOMAIN entries']
             = entries'[id].size + BytesOf(entries')[DOMAIN entries]
        /\ BytesOf(entries')[DOMAIN entries] \in Int
    BY <1>2, <2>1, BytesSplit
  <2>3. BytesOf(entries)[DOMAIN entries] = BytesOf(entries')[DOMAIN entries]
    BY <1>1, <1>2, <2>1, BytesAgree
  <2>4. post.size \in Int
    BY ConstantsOK DEF Constants
  <2> QED
    BY <2>1, <2>2, <2>3, <2>4 DEF Counted
<1>6. CASE Tick
  <2>1. /\ DOMAIN entries' = DOMAIN entries
        /\ totalBytes' = totalBytes
    BY <1>6 DEF Tick
  <2>2. \A id \in DOMAIN entries : entries'[id].size = entries[id].size
    BY <1>6 DEF Tick, StoreInv, TypeOK
  <2>3. BytesOf(entries)[DOMAIN entries] = BytesOf(entries')[DOMAIN entries]
    BY <1>1, <1>2, <2>1, <2>2, BytesAgree
  <2> QED
    BY <2>1, <2>3 DEF Counted
<1> QED
  BY <1>3, <1>4, <1>5, <1>6, StoreShape

\* Map, list and counter agree after every step, also between two evictions:
\* the counter is the sum of the sizes of what is stored, in whatever order
\* posts, expiries, evictions and ticks came.
THEOREM BooksBalance == Spec => []BooksAgree
<1>1. Spec => []Counted
  <2>1. Init => Counted
    BY InitCounted
  <2>2. StoreInv /\ StoreInv' /\ Counted /\ [Next]_vars => Counted'
    BY CountedStep
  <2> QED
    BY <2>1, <2>2, StoreSafe, PTL DEF Spec
<1>2. StoreInv /\ Counted => BooksAgree
  BY CountedIs DEF StoreInv, BooksAgree
<1> QED
  BY <1>1, <1>2, StoreSafe, PTL

-----------------------------------------------------------------------------
(* Room for every acceptable result *)

\* Evicting everything makes room: an empty store has no bytes, because its
\* counter is true, and one result of the largest size fits.
LEMMA EmptyHasRoom ==
  ASSUME StoreInv, Counted, lru = <<>>,
         NEW post \in Posts, Acceptable(post)
  PROVE  ~MustEvict(post.size)
<1>1. DOMAIN entries = {}
  BY DEF StoreInv, ListNamesEntries
<1>2. IsFiniteSet(DOMAIN entries) /\ Cardinality(DOMAIN entries) = 0
  BY <1>1, FS_EmptySet
<1>3. totalBytes = 0
  <2>1. IsSum(BytesOf(entries), DOMAIN entries, SizesOf(entries))
    BY <1>1, <1>2, BytesIsSum
  <2> QED
    BY <1>1, <2>1 DEF Counted, IsSum
<1>4. post.size \in Nat /\ post.size <= MaxResultBytes
  BY ConstantsOK DEF Constants, Acceptable
<1>5. MaxResultBytes <= MaxTotalBytes /\ MaxResults >= 1
      /\ MaxResultBytes \in Nat /\ MaxTotalBytes \in Nat /\ MaxResults \in Nat
  BY ConfigAssumption, ConstantsOK DEF Constants
<1> QED
  BY <1>2, <1>3, <1>4, <1>5 DEF MustEvict

\* An answer is given for a result that was stored.
AnswerInv ==
    \A w \in Workers : worker[w].at = "answering" => worker[w].id \in Ids

LEMMA AnswerStep == StoreInv /\ Counted /\ AnswerInv /\ [Next]_vars => AnswerInv'
<1> SUFFICES ASSUME StoreInv, Counted, AnswerInv, [Next]_vars PROVE AnswerInv'
  OBVIOUS
<1>0. worker \in [Workers -> Job]
  BY DEF StoreInv, TypeOK
<1>1. CASE UNCHANGED worker
  BY <1>1 DEF AnswerInv
<1>2. ASSUME NEW p \in Publishers, TimeOut(p) PROVE AnswerInv'
  <2>1. \A w \in Workers : worker'[w].at = worker[w].at /\ worker'[w].id = worker[w].id
    BY <1>0, <1>2 DEF TimeOut, Job
  <2> QED
    BY <2>1 DEF AnswerInv
<1>3. ASSUME NEW w \in Workers, NEW job, job.at # "answering",
             worker' = [worker EXCEPT ![w] = job]
      PROVE  AnswerInv'
  BY <1>0, <1>3 DEF AnswerInv
<1>4. ASSUME NEW p \in Publishers, NEW w \in Workers, NEW post \in Posts,
             Publish(p, w, post)
      PROVE  AnswerInv'
  BY <1>3, <1>4 DEF Publish
<1>5. ASSUME NEW w \in Workers, Reject(w) \/ Announce(w) PROVE AnswerInv'
  BY <1>3, <1>5 DEF Reject, Announce, Free
<1>6. ASSUME NEW w \in Workers, PutBegin(w) PROVE AnswerInv'
  BY <1>0, <1>6 DEF PutBegin, AnswerInv, Job
<1>7. ASSUME NEW w \in Workers, PutDone(w) PROVE AnswerInv'
  <2>1. worker[w].post \in Posts /\ Acceptable(worker[w].post)
    BY <1>7, ConstantsOK DEF PutDone, StoreInv, PutterInv, OwnerInv, Constants
  <2>2. ~MustEvict(worker[w].post.size)
    BY <1>7, <2>1, EmptyHasRoom DEF PutDone
  <2>3. NewId \in Ids
    BY <1>7, <2>2 DEF PutDone, NewId
  <2>4. worker' = [worker EXCEPT ![w].at = "answering", ![w].id = NewId]
    BY <1>7, <2>2 DEF PutDone
  <2> HIDE DEF NewId
  <2> QED
    BY <1>0, <2>3, <2>4 DEF AnswerInv, Job
<1>8. (\E w \in Workers : ExpireOne(w) \/ EvictOne(w)) \/ Read
        \/ (\E id \in known : Forget(id)) \/ Tick \/ UNCHANGED vars
      => UNCHANGED worker
  BY DEF ExpireOne, EvictOne, Read, Get, Forget, Tick, vars
<1> QED
  BY <1>1, <1>2, <1>4, <1>5, <1>6, <1>7, <1>8 DEF Next

\* No acceptable result is refused for want of room: the eviction loop always
\* ends with enough, whatever was stored and however its counter got there.
THEOREM AlwaysRoom == Spec => []NeverRefused
<1>1. Spec => []Counted
  BY InitCounted, CountedStep, StoreSafe, PTL DEF Spec
<1>2. Init => AnswerInv
  BY DEF Init, AnswerInv, Free
<1>3. StoreInv /\ Counted /\ AnswerInv /\ [Next]_vars => AnswerInv'
  BY AnswerStep
<1>4. AnswerInv => NeverRefused
  BY ConstantsOK DEF AnswerInv, NeverRefused, Constants
<1> QED
  BY <1>1, <1>2, <1>3, <1>4, StoreSafe, PTL DEF Spec

-----------------------------------------------------------------------------
(* Places in the list *)

PlaceOf(s, x) == CHOOSE i \in DOMAIN s : s[i] = x

\* Which of ids stands before which.
OrderOf(ids, s) == {p \in ids \X ids : PlaceOf(s, p[1]) < PlaceOf(s, p[2])}

LEMMA PlaceIs ==
  ASSUME NEW s, Injective(s), NEW i \in DOMAIN s
  PROVE  PlaceOf(s, s[i]) = i
BY DEF PlaceOf, Injective

\* Erasing an entry leaves the order of the others.
LEMMA OrderRemoved ==
  ASSUME NEW S, NEW s \in Seq(S), Injective(s), NEW i \in DOMAIN s,
         NEW ids, ids \subseteq RangeOf(s) \ {s[i]}
  PROVE  OrderOf(ids, RemoveAt(s, i)) = OrderOf(ids, s)
<1> DEFINE r == RemoveAt(s, i)
<1>1. /\ Len(s) \in Nat /\ DOMAIN s = 1 .. Len(s) /\ i \in 1 .. Len(s)
      /\ r \in Seq(S) /\ DOMAIN r = 1 .. Len(s) - 1
  BY RemoveAtElements, LenProperties
<1>2. Injective(r)
  BY RemoveAtInjective
<1>3. \A j \in DOMAIN r : r[j] = IF j < i THEN s[j] ELSE s[j + 1]
  BY <1>1, RemoveAtElements
<1> HIDE DEF r
<1>4. ASSUME NEW x \in ids
      PROVE  /\ PlaceOf(s, x) \in Nat
             /\ PlaceOf(s, x) < i => PlaceOf(r, x) = PlaceOf(s, x)
             /\ PlaceOf(s, x) > i => PlaceOf(r, x) = PlaceOf(s, x) - 1
             /\ PlaceOf(s, x) # i
  <2>1. PICK j \in DOMAIN s : s[j] = x /\ j # i
    BY DEF RangeOf
  <2>2. PlaceOf(s, x) = j
    BY <2>1, PlaceIs
  <2>3. CASE j < i
    <3>1. j \in DOMAIN r /\ r[j] = x
      BY <1>1, <1>3, <2>1, <2>3
    <3>2. PlaceOf(r, x) = j
      BY <1>2, <3>1, PlaceIs
    <3> QED
      BY <1>1, <2>1, <2>2, <2>3, <3>2
  <2>4. CASE j > i
    <3>1. j - 1 \in DOMAIN r /\ r[j - 1] = x
      BY <1>1, <1>3, <2>1, <2>4
    <3>2. PlaceOf(r, x) = j - 1
      BY <1>2, <3>1, PlaceIs
    <3> QED
      BY <1>1, <2>1, <2>2, <2>4, <3>2
  <2> QED
    BY <1>1, <2>1, <2>3, <2>4
<1>5. ASSUME NEW x \in ids, NEW y \in ids
      PROVE  PlaceOf(r, x) < PlaceOf(r, y) <=> PlaceOf(s, x) < PlaceOf(s, y)
  <2> DEFINE px == PlaceOf(s, x)
             py == PlaceOf(s, y)
  <2>1. /\ px \in Nat /\ py \in Nat /\ px # i /\ py # i
        /\ px < i => PlaceOf(r, x) = px
        /\ px > i => PlaceOf(r, x) = px - 1
        /\ py < i => PlaceOf(r, y) = py
        /\ py > i => PlaceOf(r, y) = py - 1
    BY <1>4
  <2> HIDE DEF px, py
  <2>2. PlaceOf(r, x) < PlaceOf(r, y) <=> px < py
    BY <1>1, <2>1
  <2> QED
    BY <2>2 DEF px, py
<1> QED
  BY <1>5 DEF OrderOf, r

\* What is pushed in front stands before everything else.
LEMMA OrderPushed ==
  ASSUME NEW S, NEW s \in Seq(S), Injective(s), NEW e \in S, e \notin RangeOf(s),
         NEW ids, ids \subseteq RangeOf(s)
  PROVE  OrderOf(ids \cup {e}, <<e>> \o s) = OrderOf(ids, s) \cup ({e} \X ids)
<1> DEFINE r == <<e>> \o s
<1>1. /\ r \in Seq(S) /\ Len(s) \in Nat /\ DOMAIN s = 1 .. Len(s)
      /\ DOMAIN r = 1 .. Len(s) + 1
      /\ r[1] = e /\ \A j \in 1 .. Len(s) : r[j + 1] = s[j]
  OBVIOUS
<1>2. Injective(r)
  BY PushFront
<1> HIDE DEF r
<1>3. PlaceOf(r, e) = 1
  <2>1. 1 \in DOMAIN r
    BY <1>1
  <2> QED
    BY <1>1, <1>2, <2>1, PlaceIs
<1>4. ASSUME NEW x \in ids
      PROVE  PlaceOf(s, x) \in Nat \ {0} /\ PlaceOf(r, x) = PlaceOf(s, x) + 1 /\ x # e
  <2>1. PICK j \in DOMAIN s : s[j] = x
    BY DEF RangeOf
  <2>2. j + 1 \in DOMAIN r /\ r[j + 1] = x /\ j \in Nat \ {0}
    BY <1>1, <2>1
  <2>3. PlaceOf(s, x) = j /\ PlaceOf(r, x) = j + 1
    BY <1>2, <2>1, <2>2, PlaceIs
  <2> QED
    BY <2>2, <2>3
<1>5. ASSUME NEW x \in ids, NEW y \in ids
      PROVE  PlaceOf(r, x) < PlaceOf(r, y) <=> PlaceOf(s, x) < PlaceOf(s, y)
  BY <1>4
<1>6. \A x \in ids : PlaceOf(r, e) < PlaceOf(r, x) /\ ~(PlaceOf(r, x) < PlaceOf(r, e))
  BY <1>3, <1>4
<1>7. ~(PlaceOf(r, e) < PlaceOf(r, e))
  BY <1>3
<1>8. \A p \in (ids \cup {e}) \X (ids \cup {e}) :
         PlaceOf(r, p[1]) < PlaceOf(r, p[2]) <=>
            p \in OrderOf(ids, s) \cup ({e} \X ids)
  <2> TAKE p \in (ids \cup {e}) \X (ids \cup {e})
  <2>1. p[1] \in ids \cup {e} /\ p[2] \in ids \cup {e} /\ p = <<p[1], p[2]>>
    OBVIOUS
  <2>2. p \in OrderOf(ids, s) <=> /\ p[1] \in ids /\ p[2] \in ids
                                  /\ PlaceOf(s, p[1]) < PlaceOf(s, p[2])
    BY <2>1 DEF OrderOf
  <2>3. p \in {e} \X ids <=> p[1] = e /\ p[2] \in ids
    BY <2>1
  <2>4. CASE p[1] \in ids /\ p[2] \in ids
    BY <1>4, <1>5, <2>2, <2>3, <2>4
  <2>5. CASE p[1] = e /\ p[2] \in ids
    BY <1>6, <2>3, <2>5
  <2>6. CASE p[2] = e
    BY <1>4, <1>6, <1>7, <2>1, <2>2, <2>3, <2>6
  <2> QED
    BY <2>1, <2>4, <2>5, <2>6
<1>9. OrderOf(ids, s) \cup ({e} \X ids) \subseteq (ids \cup {e}) \X (ids \cup {e})
  BY DEF OrderOf
<1>10. OrderOf(ids \cup {e}, r) =
         {p \in (ids \cup {e}) \X (ids \cup {e}) : PlaceOf(r, p[1]) < PlaceOf(r, p[2])}
  BY DEF OrderOf
<1> QED
  BY <1>8, <1>9, <1>10 DEF r

Part(order, ids) == {p \in order : p[1] \in ids /\ p[2] \in ids}

LEMMA OrderPart ==
  ASSUME NEW s, NEW ids, NEW all, ids \subseteq all
  PROVE  OrderOf(ids, s) = Part(OrderOf(all, s), ids)
<1>1. \A p : p \in OrderOf(ids, s) => p \in Part(OrderOf(all, s), ids)
  BY DEF OrderOf, Part
<1>2. \A p : p \in Part(OrderOf(all, s), ids) => p \in OrderOf(ids, s)
  BY DEF OrderOf, Part
<1> QED
  BY <1>1, <1>2

-----------------------------------------------------------------------------
(* The refinement of BoundedStore *)

\* What readers have, in terms of the map and the list.
LEMMA LiveIs ==
  /\ LiveIds = {id \in DOMAIN entries : entries[id].left > 0}
  /\ Live.results = [id \in LiveIds |-> entries[id]]
  /\ Live.newer = OrderOf(LiveIds, lru)
BY DEF Live, LiveIds, Alive, OrderOf, PlaceOf, Place

LEMMA LiveIsNext ==
  /\ LiveIds' = {id \in DOMAIN entries' : entries'[id].left > 0}
  /\ Live'.results = [id \in LiveIds' |-> entries'[id]]
  /\ Live'.newer = OrderOf(LiveIds', lru')
BY DEF Live, LiveIds, Alive, OrderOf, PlaceOf, Place

LEMMA ListOK ==
  ASSUME StoreInv
  PROVE  /\ lru \in Seq(Ids) /\ Injective(lru) /\ RangeOf(lru) = DOMAIN entries
         /\ DOMAIN entries \subseteq Ids /\ LiveIds \subseteq DOMAIN entries
         /\ \A id \in DOMAIN entries : Place(id) \in DOMAIN lru /\ lru[Place(id)] = id
         /\ \A i \in DOMAIN lru : Place(lru[i]) = i /\ PlaceOf(lru, lru[i]) = i
<1>1. lru \in Seq(Ids) /\ Injective(lru) /\ RangeOf(lru) = DOMAIN entries
  BY DEF StoreInv, TypeOK, ListNamesEntries, Injective, RangeOf
<1>2. \A i \in DOMAIN lru : PlaceOf(lru, lru[i]) = i
  BY <1>1, PlaceIs
<1>3. \A id : Place(id) = PlaceOf(lru, id)
  BY DEF Place, PlaceOf
<1> QED
  BY <1>1, <1>2, <1>3 DEF RangeOf, LiveIds, StoreInv, TypeOK

\* What RemoveLocked does to the live results and their order.
LEMMA RemovedLive ==
  ASSUME StoreInv, NEW id \in DOMAIN entries, RemoveLocked(id)
  PROVE  /\ LiveIds' = LiveIds \ {id}
         /\ \A x \in LiveIds' : entries'[x] = entries[x]
         /\ OrderOf(LiveIds', lru') = Part(OrderOf(LiveIds, lru), LiveIds')
         /\ id \notin LiveIds => Live' = Live
<1>1. /\ entries' = [other \in DOMAIN entries \ {id} |-> entries[other]]
      /\ lru' = RemoveAt(lru, Place(id))
  BY DEF RemoveLocked
<1>2. /\ LiveIds' = LiveIds \ {id} /\ \A x \in LiveIds' : entries'[x] = entries[x]
  BY <1>1, LiveIs, LiveIsNext
<1>3. OrderOf(LiveIds', lru') = OrderOf(LiveIds', lru)
  <2>1. /\ lru \in Seq(Ids) /\ Injective(lru) /\ Place(id) \in DOMAIN lru
        /\ LiveIds' \subseteq RangeOf(lru) \ {lru[Place(id)]}
    BY <1>2, ListOK
  <2> QED
    BY <1>1, <2>1, OrderRemoved
<1>4. OrderOf(LiveIds', lru) = Part(OrderOf(LiveIds, lru), LiveIds')
  BY <1>2, OrderPart
<1>5. ASSUME id \notin LiveIds PROVE Live' = Live
  <2>1. LiveIds' = LiveIds
    BY <1>2, <1>5
  <2>2. Live'.results = Live.results /\ Live'.newer = Live.newer
    <3>1. [x \in LiveIds' |-> entries'[x]] = [x \in LiveIds |-> entries[x]]
      BY <1>2, <2>1
    <3>2. OrderOf(LiveIds', lru') = OrderOf(LiveIds, lru)
      BY <1>3, <2>1
    <3> QED
      BY <3>1, <3>2, LiveIs, LiveIsNext
  <2>3. Live = [results |-> Live.results, newer |-> Live.newer]
    BY DEF Live
  <2>4. Live' = [results |-> Live'.results, newer |-> Live'.newer]
    BY DEF Live
  <2> QED
    BY <2>2, <2>3, <2>4
<1> QED
  BY <1>2, <1>3, <1>4, <1>5

\* What the results of before the Put are to those still there: the ones gone
\* are the least recently used, and the last of them did not leave room.
Gone == DOMAIN before.results \ LiveIds

Fits(ids, size) ==
    /\ Cardinality(ids) < MaxResults
    /\ BytesOf(before.results)[ids] + size <= MaxTotalBytes

\* The newest of what is gone, in the order of before.
NewestGone(b) == b \in Gone /\ \A o \in Gone \ {b} : <<b, o>> \in before.newer

EvictInv ==
    owner # Nobody =>
       /\ IsFiniteSet(DOMAIN before.results)
       /\ \A b \in DOMAIN before.results : before.results[b].size \in Int
       /\ LiveIds \subseteq DOMAIN before.results
       /\ \A a \in LiveIds : before.results[a] = entries[a]
       /\ OrderOf(LiveIds, lru) = Part(before.newer, LiveIds)
       /\ \A a \in LiveIds, b \in Gone : <<b, a>> \notin before.newer
       /\ \A b : NewestGone(b) => ~Fits(LiveIds \cup {b}, worker[owner].post.size)

\* Between the steps of a Put nothing else touches the store.
LEMMA EvictFrame ==
  ASSUME EvictInv, UNCHANGED <<entries, lru, before>>, owner' = owner,
         owner # Nobody => worker'[owner].post = worker[owner].post
  PROVE  EvictInv'
<1>1. LiveIds' = LiveIds
  BY LiveIs, LiveIsNext
<1>2. Gone' = Gone /\ \A b : NewestGone(b)' <=> NewestGone(b)
  BY <1>1 DEF Gone, NewestGone
<1>3. \A ids, size : Fits(ids, size)' <=> Fits(ids, size)
  BY DEF Fits
<1> QED
  BY <1>1, <1>2, <1>3 DEF EvictInv

LEMMA EvictBegin ==
  ASSUME StoreInv, NEW w \in Workers, PutBegin(w)
  PROVE  EvictInv' /\ Kept' = Kept
<1>1. /\ before' = Live /\ owner' = w /\ owner = Nobody
      /\ entries' = entries /\ lru' = lru
  BY DEF PutBegin, storeVars
<1>2. LiveIds' = LiveIds /\ DOMAIN before'.results = LiveIds
  BY <1>1, LiveIs, LiveIsNext
<1>3. Gone' = {}
  BY <1>2 DEF Gone
<1>4. LiveIds \subseteq DOMAIN entries /\ IsFiniteSet(LiveIds)
  <2>1. LiveIds \subseteq DOMAIN entries /\ IsFiniteSet(DOMAIN entries)
    BY ListOK DEF StoreInv
  <2> QED
    BY <2>1, FS_Subset
<1>5. \A a \in LiveIds : before'.results[a] = entries[a] /\ entries[a].size \in Int
  BY <1>1, <1>4, LiveIs DEF StoreInv, TypeOK
<1>6. OrderOf(LiveIds, lru) = Part(before'.newer, LiveIds)
  BY <1>1, LiveIs, OrderPart
<1>7. \A b : ~NewestGone(b)'
  BY <1>3 DEF NewestGone
<1>8. EvictInv'
  BY <1>1, <1>2, <1>3, <1>4, <1>5, <1>6, <1>7 DEF EvictInv
<1>9. Kept = Live /\ Kept' = before'
  BY <1>1, ConstantsOK DEF Kept, Constants
<1> QED
  BY <1>1, <1>8, <1>9

\* An expired entry was gone for readers already.
LEMMA EvictExpired ==
  ASSUME StoreInv, EvictInv, NEW w \in Workers, ExpireOne(w)
  PROVE  EvictInv'
<1>1. PICK id \in Expired : RemoveLocked(id)
  BY DEF ExpireOne
<1>2. id \in DOMAIN entries /\ id \notin LiveIds
  BY DEF Expired, LiveIds
<1>3. /\ LiveIds' = LiveIds /\ \A x \in LiveIds : entries'[x] = entries[x]
      /\ OrderOf(LiveIds, lru') = OrderOf(LiveIds, lru)
  <2>1. /\ LiveIds' = LiveIds \ {id} /\ \A x \in LiveIds' : entries'[x] = entries[x]
        /\ Live' = Live
    BY <1>1, <1>2, RemovedLive
  <2>2. LiveIds' = LiveIds
    BY <1>2, <2>1
  <2> QED
    BY <2>1, <2>2, LiveIs, LiveIsNext
<1>4. UNCHANGED <<owner, before, worker>>
  BY DEF ExpireOne
<1>5. Gone' = Gone /\ \A b : NewestGone(b)' <=> NewestGone(b)
  BY <1>3, <1>4 DEF Gone, NewestGone
<1>6. \A ids, size : Fits(ids, size)' <=> Fits(ids, size)
  BY <1>4 DEF Fits
<1> QED
  BY <1>3, <1>4, <1>5, <1>6 DEF EvictInv

\* While nothing stored has expired, the results of before say how much is
\* stored.
LEMMA FitsIs ==
  ASSUME StoreInv, Counted, EvictInv, owner # Nobody, Expired = {}, NEW size \in Int
  PROVE  LiveIds = DOMAIN entries /\ (Fits(LiveIds, size) <=> ~MustEvict(size))
<1>1. LiveIds = DOMAIN entries
  BY DEF Expired, LiveIds
<1>2. /\ IsFiniteSet(DOMAIN entries) /\ \A id \in DOMAIN entries : entries[id].size \in Int
  BY DEF StoreInv, TypeOK
<1>3. BytesOf(entries)[LiveIds] = BytesOf(before.results)[LiveIds]
  <2>1. /\ IsFiniteSet(DOMAIN before.results)
        /\ \A id \in DOMAIN before.results : before.results[id].size \in Int
        /\ LiveIds \subseteq DOMAIN entries \cap DOMAIN before.results
        /\ \A id \in LiveIds : entries[id].size = before.results[id].size
    BY <1>1 DEF EvictInv
  <2> QED
    BY <1>2, <2>1, BytesAgree
<1>4. totalBytes = BytesOf(before.results)[LiveIds]
  BY <1>1, <1>3 DEF Counted
<1>5. /\ Cardinality(LiveIds) \in Nat /\ MaxResults \in Nat
      /\ totalBytes + size \in Int /\ MaxTotalBytes \in Nat
  BY <1>1, <1>2, ConstantsOK, FS_CardinalityType DEF Constants, StoreInv, TypeOK
<1>6. Fits(LiveIds, size) <=>
         Cardinality(LiveIds) < MaxResults /\ totalBytes + size <= MaxTotalBytes
  BY <1>4 DEF Fits
<1>7. MustEvict(size) <=>
         Cardinality(LiveIds) >= MaxResults \/ totalBytes + size > MaxTotalBytes
  BY <1>1 DEF MustEvict
<1> QED
  BY <1>1, <1>5, <1>6, <1>7

\* The victim is the oldest of what is left, so it is the newest of what is
\* gone; with it, what is left did not leave room.
LEMMA EvictVictim ==
  ASSUME StoreInv, Counted, EvictInv, NEW w \in Workers, EvictOne(w)
  PROVE  EvictInv'
<1> DEFINE B == DOMAIN before.results
           size == worker[w].post.size
<1>1. /\ owner = w /\ Expired = {} /\ MustEvict(size) /\ lru # <<>>
      /\ RemoveLocked(Victim) /\ UNCHANGED <<owner, before, worker>>
  BY DEF EvictOne
<1>2. w # Nobody /\ size \in Int
  <2>1. w # Nobody
    BY ConstantsOK DEF Constants
  <2>2. worker[w].post \in Posts
    BY <1>1, <2>1 DEF StoreInv, OwnerInv, PutterInv
  <2> QED
    BY <2>1, <2>2, ConstantsOK DEF Constants
<1>3. /\ IsFiniteSet(B) /\ \A b \in B : before.results[b].size \in Int
      /\ LiveIds \subseteq B
      /\ \A a \in LiveIds : before.results[a] = entries[a]
      /\ OrderOf(LiveIds, lru) = Part(before.newer, LiveIds)
      /\ \A a \in LiveIds, b \in Gone : <<b, a>> \notin before.newer
  BY <1>1, <1>2 DEF EvictInv
<1>4. LiveIds = DOMAIN entries /\ ~Fits(LiveIds, size)
  BY <1>1, <1>2, FitsIs
<1>5. /\ Victim \in LiveIds /\ PlaceOf(lru, Victim) = Len(lru) /\ Len(lru) \in Nat
      /\ \A a \in LiveIds : PlaceOf(lru, a) \in 1 .. Len(lru)
  <2>1. lru \in Seq(Ids) /\ DOMAIN lru = 1 .. Len(lru) /\ Len(lru) \in Nat
    BY ListOK, LenProperties
  <2>2. Len(lru) \in DOMAIN lru
    BY <1>1, <2>1, EmptySeq
  <2>3. \A a \in LiveIds : \E i \in DOMAIN lru : lru[i] = a
    BY <1>4, ListOK DEF RangeOf
  <2>4. Victim \in LiveIds
    BY <1>4, <2>2, ListOK DEF Victim, RangeOf
  <2> QED
    BY <2>1, <2>2, <2>3, <2>4, ListOK DEF Victim
<1> HIDE DEF size
<1>6. /\ LiveIds' = LiveIds \ {Victim} /\ \A x \in LiveIds' : entries'[x] = entries[x]
      /\ OrderOf(LiveIds', lru') = Part(OrderOf(LiveIds, lru), LiveIds')
  BY <1>1, <1>4, <1>5, RemovedLive
<1>7. Gone' = Gone \cup {Victim}
  BY <1>1, <1>3, <1>5, <1>6 DEF Gone
<1>8. OrderOf(LiveIds', lru') = Part(before'.newer, LiveIds')
  <2>1. Part(Part(before.newer, LiveIds), LiveIds') = Part(before.newer, LiveIds')
    BY <1>6 DEF Part
  <2> QED
    BY <1>1, <1>3, <1>6, <2>1
<1>9. ASSUME NEW a \in LiveIds', NEW b \in Gone' PROVE <<b, a>> \notin before'.newer
  <2>1. CASE b \in Gone
    BY <1>1, <1>3, <1>6, <2>1
  <2>2. CASE b = Victim
    <3>1. PlaceOf(lru, a) \in 1 .. Len(lru) /\ ~(PlaceOf(lru, Victim) < PlaceOf(lru, a))
      BY <1>5, <1>6
    <3>2. <<Victim, a>> \notin OrderOf(LiveIds, lru)
      BY <3>1 DEF OrderOf
    <3>3. <<Victim, a>> \notin before.newer
      BY <1>3, <1>5, <1>6, <3>2 DEF Part
    <3> QED
      BY <1>1, <2>2, <3>3
  <2> QED
    BY <1>7, <2>1, <2>2
<1>10. ASSUME NEW b, NewestGone(b)'
       PROVE  ~Fits(LiveIds \cup {b}, worker[owner].post.size)'
  <2>1. b \in Gone' /\ \A o \in Gone' \ {b} : <<b, o>> \in before'.newer
    BY <1>10 DEF NewestGone
  <2>2. b = Victim
    <3>1. CASE b \in Gone /\ b # Victim
      <4>1. <<b, Victim>> \in before.newer
        BY <1>1, <1>7, <2>1, <3>1
      <4> QED
        BY <1>3, <1>5, <3>1, <4>1
    <3> QED
      BY <1>7, <2>1, <3>1
  <2>3. LiveIds' \cup {b} = LiveIds
    BY <1>5, <1>6, <2>2
  <2>4. worker'[owner'].post.size = size
    BY <1>1 DEF size
  <2> QED
    BY <1>1, <1>4, <2>3, <2>4 DEF Fits
<1>11. /\ LiveIds' \subseteq B /\ owner' = w /\ before' = before
       /\ \A a \in LiveIds' : before'.results[a] = entries'[a]
  BY <1>1, <1>3, <1>6
<1>12. \A b : NewestGone(b)' => ~Fits(LiveIds \cup {b}, worker[owner].post.size)'
  BY <1>10
<1> QED
  BY <1>3, <1>8, <1>9, <1>11, <1>12 DEF EvictInv

LEMMA AbstractBytes == BoundedStoreI!Bytes = BytesOf(Kept.results)
BY DEF BoundedStoreI!Bytes, BytesOf

LEMMA AbstractCardinality == \A ids : BoundedStoreI!Cardinality(ids) = Cardinality(ids)
BY Zenon DEF Cardinality, BoundedStoreI!Cardinality

\* Steps that readers do not notice.
LEMMA RestRefines ==
  ASSUME answer' = Unasked, Kept' = Kept
  PROVE  BoundedStoreI!Next
BY DEF BoundedStoreI!Next, BoundedStoreI!Rest, BoundedStoreI!Unasked, Unasked

\* The end of a Put, with all its evictions, is one Put of the promise.
LEMMA PutRefines ==
  ASSUME StoreInv, Counted, EvictInv, NEW w \in Workers, PutDone(w)
  PROVE  BoundedStoreI!Next
<1> DEFINE post == worker[w].post
           id == NewId
           r == [size |-> post.size, left |-> TtlOf(post)]
           stay == LiveIds
           B == DOMAIN before.results
<1>0. w # Nobody /\ owner = w /\ Expired = {} /\ owner' = Nobody /\ answer' = Unasked
  BY ConstantsOK DEF PutDone, Constants
<1>1. post \in Posts /\ Acceptable(post) /\ post.size \in Int
  <2>1. worker[w].post \in Posts /\ Acceptable(worker[w].post)
    BY <1>0 DEF StoreInv, OwnerInv, PutterInv
  <2> QED
    BY <2>1, ConstantsOK DEF Constants
<1>2. ~MustEvict(post.size)
  BY <1>1, EmptyHasRoom DEF PutDone
<1>3. id \in Ids /\ id \notin InUse /\ Insert(id, post)
  BY <1>2 DEF PutDone, NewId
<1>4. id \notin B /\ id \notin DOMAIN entries
  BY <1>3 DEF InUse
<1> HIDE DEF id
<1>5. r \in BoundedStoreI!Result /\ r.size = post.size /\ r.left > 0
  <2>1. /\ MaxResultBytes \in Nat /\ MaxTotalBytes \in Nat /\ MaxTtl \in Nat
        /\ MaxResultBytes <= MaxTotalBytes
    BY ConstantsOK, ConfigAssumption DEF Constants
  <2>2. post.size \in 1 .. MaxTotalBytes /\ TtlOf(post) \in 1 .. MaxTtl
    BY <1>1, <2>1 DEF Acceptable
  <2> QED
    BY <2>1, <2>2 DEF BoundedStoreI!Result
<1>6. stay = DOMAIN entries /\ Fits(stay, post.size)
  BY <1>0, <1>1, <1>2, FitsIs
<1>7. /\ stay \subseteq B
      /\ \A a \in stay : before.results[a] = entries[a]
      /\ OrderOf(stay, lru) = Part(before.newer, stay)
      /\ \A a \in stay, b \in Gone : <<b, a>> \notin before.newer
      /\ \A b : NewestGone(b) => ~Fits(stay \cup {b}, post.size)
  BY <1>0 DEF EvictInv
<1>8. /\ entries' = [x \in DOMAIN entries \cup {id} |->
                       IF x = id THEN r ELSE entries[x]]
      /\ lru' = <<id>> \o lru
  BY <1>3 DEF Insert
<1> HIDE DEF r, post
<1>9. LiveIds' = stay \cup {id}
  <2>1. \A x \in DOMAIN entries' : entries'[x].left > 0
    BY <1>5, <1>6, <1>8, LiveIs
  <2> QED
    BY <1>6, <1>8, <2>1, LiveIsNext
<1>10. Live'.results = [x \in stay \cup {id} |-> IF x = id THEN r ELSE before.results[x]]
  <2>1. \A x \in stay \cup {id} : entries'[x] = IF x = id THEN r ELSE before.results[x]
    BY <1>6, <1>7, <1>8
  <2> QED
    BY <1>9, <2>1, LiveIsNext
<1>11. Live'.newer = Part(before.newer, stay) \cup ({id} \X stay)
  <2>1. OrderOf(stay \cup {id}, <<id>> \o lru) = OrderOf(stay, lru) \cup ({id} \X stay)
    <3>1. /\ lru \in Seq(Ids) /\ Injective(lru) /\ RangeOf(lru) = DOMAIN entries
      BY ListOK
    <3>2. id \notin RangeOf(lru) /\ stay \subseteq RangeOf(lru)
      BY <1>4, <1>6, <3>1
    <3> HIDE DEF stay
    <3> QED
      BY <1>3, <3>1, <3>2, OrderPushed
  <2> QED
    BY <1>7, <1>8, <1>9, <2>1, LiveIsNext
<1>12. Kept = before /\ Kept' = Live'
  BY <1>0 DEF Kept
<1> HIDE DEF stay
<1>13. \A ids : BoundedStoreI!Leaves(ids, post.size) <=> Fits(ids, post.size)
  <2>1. BoundedStoreI!Bytes = BytesOf(before.results)
    BY <1>12, AbstractBytes
  <2>2. \A ids : BoundedStoreI!Leaves(ids, post.size) <=>
                    /\ Cardinality(ids) < MaxResults
                    /\ BoundedStoreI!Bytes[ids] + post.size <= MaxTotalBytes
    BY AbstractCardinality DEF BoundedStoreI!Leaves
  <2> QED
    BY <2>1, <2>2 DEF Fits
<1>14. \A ids : BoundedStoreI!Among(ids) = Part(before.newer, ids)
  BY <1>12 DEF BoundedStoreI!Among, Part
<1>15. \A b : BoundedStoreI!Newest(b, B \ stay) => NewestGone(b)
  BY <1>12 DEF BoundedStoreI!Newest, NewestGone, Gone, stay
<1>16. Gone = B \ stay
  BY DEF Gone, stay
<1>17. BoundedStoreI!Put(id, r)
  <2>1. DOMAIN Kept.results = B
    BY <1>12
  <2>2. /\ stay \in SUBSET B
        /\ \A a \in stay, b \in B \ stay : <<b, a>> \notin Kept.newer
        /\ BoundedStoreI!Leaves(stay, r.size)
        /\ \A b \in B \ stay : BoundedStoreI!Newest(b, B \ stay) =>
              ~BoundedStoreI!Leaves(stay \cup {b}, r.size)
    BY <1>5, <1>6, <1>7, <1>12, <1>13, <1>15, <1>16
  <2>3. /\ Kept'.results = [x \in stay \cup {id} |-> IF x = id THEN r ELSE Kept.results[x]]
        /\ Kept'.newer = BoundedStoreI!Among(stay) \cup ({id} \X stay)
    BY <1>10, <1>11, <1>12, <1>14
  <2>4. id \notin B /\ answer' = BoundedStoreI!Unasked
    BY <1>0, <1>4 DEF BoundedStoreI!Unasked, Unasked
  <2> HIDE DEF B
  <2> QED
    BY <2>1, <2>2, <2>3, <2>4 DEF BoundedStoreI!Put
<1> QED
  BY <1>3, <1>5, <1>17 DEF BoundedStoreI!Next

LEMMA GetRefines ==
  ASSUME StoreInv, NEW id \in Ids, Get(id)
  PROVE  BoundedStoreI!Next
<1>0. owner = Nobody /\ owner' = Nobody /\ Kept = Live /\ Kept' = Live'
  BY DEF Get, Kept
<1>1. CASE /\ id \notin DOMAIN entries
           /\ answer' = [id |-> id, found |-> FALSE]
           /\ UNCHANGED storeVars
  <2>1. id \notin DOMAIN Kept.results
    BY <1>0, <1>1, ListOK, LiveIs
  <2>2. Kept' = Kept
    BY <1>0, <1>1 DEF storeVars, Live, LiveIds, Alive, Place
  <2> QED
    BY <1>1, <2>1, <2>2 DEF BoundedStoreI!Next, BoundedStoreI!Miss
<1>2. CASE /\ id \in Expired
           /\ RemoveLocked(id)
           /\ answer' = [id |-> id, found |-> FALSE]
  <2>1. id \in DOMAIN entries /\ id \notin LiveIds
    BY <1>2 DEF Expired, LiveIds
  <2>2. Kept' = Kept
    BY <1>0, <1>2, <2>1, RemovedLive
  <2>3. id \notin DOMAIN Kept.results
    BY <1>0, <2>1, LiveIs
  <2> QED
    BY <1>2, <2>2, <2>3 DEF BoundedStoreI!Next, BoundedStoreI!Miss
<1>3. CASE /\ id \in DOMAIN entries \ Expired
           /\ lru' = <<id>> \o RemoveAt(lru, Place(id))
           /\ answer' = [id |-> id, found |-> TRUE]
           /\ UNCHANGED <<entries, totalBytes>>
  <2> DEFINE others == LiveIds \ {id}
             rest == RemoveAt(lru, Place(id))
  <2>1. id \in LiveIds /\ LiveIds' = LiveIds /\ others \cup {id} = LiveIds
    BY <1>3, LiveIs, LiveIsNext DEF Expired, LiveIds
  <2>2. Live'.results = Live.results /\ DOMAIN Live.results = LiveIds
    BY <1>3, <2>1, LiveIs, LiveIsNext
  <2>3. /\ lru \in Seq(Ids) /\ Injective(lru) /\ Place(id) \in DOMAIN lru
        /\ lru[Place(id)] = id /\ RangeOf(lru) = DOMAIN entries
        /\ LiveIds \subseteq DOMAIN entries
    BY <1>3, ListOK
  <2>4. /\ rest \in Seq(Ids) /\ Injective(rest) /\ RangeOf(rest) = DOMAIN entries \ {id}
    BY <2>3, RemoveAtElements, RemoveAtInjective
  <2>5. OrderOf(others, rest) = OrderOf(others, lru)
    BY <2>3, OrderRemoved
  <2> HIDE DEF rest, others
  <2>6. OrderOf(others \cup {id}, <<id>> \o rest) = OrderOf(others, rest) \cup ({id} \X others)
    <3>1. id \notin RangeOf(rest) /\ others \subseteq RangeOf(rest)
      BY <2>3, <2>4 DEF others
    <3>2. /\ rest \in Seq(Ids) /\ Injective(rest)
          /\ \A e \in Ids : \A ids \in SUBSET RangeOf(rest) :
                e \notin RangeOf(rest) =>
                  OrderOf(ids \cup {e}, <<e>> \o rest) = OrderOf(ids, rest) \cup ({e} \X ids)
      BY <2>4, OrderPushed
    <3> QED
      BY <3>1, <3>2
  <2>7. OrderOf(others, lru) = Part(Live.newer, others)
    <3>1. others \subseteq LiveIds
      BY DEF others
    <3> QED
      BY <3>1, LiveIs, OrderPart
  <2>8. Live'.newer = Part(Live.newer, others) \cup ({id} \X others)
    BY <1>3, <2>1, <2>5, <2>6, <2>7, LiveIsNext DEF rest
  <2>9. BoundedStoreI!Among(others) = Part(Live.newer, others)
    BY <1>0 DEF BoundedStoreI!Among, Part
  <2>10. BoundedStoreI!Find(id)
    <3>1. id \in DOMAIN Kept.results /\ DOMAIN Kept.results \ {id} = others
      BY <1>0, <2>1, <2>2 DEF others
    <3>2. Kept'.newer = BoundedStoreI!Among(others) \cup ({id} \X others)
          /\ Kept'.results = Kept.results
      BY <1>0, <2>2, <2>8, <2>9
    <3> QED
      BY <1>3, <3>1, <3>2 DEF BoundedStoreI!Find
  <2> QED
    BY <2>10 DEF BoundedStoreI!Next
<1> QED
  BY <1>1, <1>2, <1>3 DEF Get

LEMMA TickRefines == ASSUME StoreInv, Tick PROVE BoundedStoreI!Next
<1>0. /\ owner = Nobody /\ owner' = Nobody /\ Kept = Live /\ Kept' = Live'
      /\ answer' = Unasked /\ lru' = lru
  BY DEF Tick, Kept
<1> DEFINE left == {id \in LiveIds : entries[id].left > 1}
<1>1. \A id \in DOMAIN entries : entries[id] \in [size : 1 .. MaxResultBytes, left : 0 .. MaxTtl]
  BY DEF StoreInv, TypeOK
<1>2. DOMAIN entries' = DOMAIN entries
  BY DEF Tick
<1>3. ASSUME NEW id \in DOMAIN entries
      PROVE  /\ entries[id].left > 0 =>
                   /\ entries'[id] = [entries[id] EXCEPT !.left = entries[id].left - 1]
                   /\ entries'[id].left = entries[id].left - 1
             /\ ~(entries[id].left > 0) => entries'[id].left = 0
             /\ entries[id].left \in Nat
  <2>1. entries'[id] = [entries[id] EXCEPT !.left =
                           IF entries[id].left > 0 THEN entries[id].left - 1 ELSE 0]
    BY DEF Tick
  <2> QED
    BY <1>1, <2>1, ConstantsOK DEF Constants
<1>4. LiveIds' = left
  BY <1>2, <1>3, LiveIs, LiveIsNext
<1>5. Live.results = [id \in LiveIds |-> entries[id]] /\ LiveIds \subseteq DOMAIN entries
  BY LiveIs, ListOK
<1>6. Live'.results = [id \in left |-> [Live.results[id] EXCEPT !.left = @ - 1]]
  <2>1. \A id \in left : entries'[id] = [Live.results[id] EXCEPT !.left = @ - 1]
    BY <1>3, <1>5
  <2> HIDE DEF left
  <2> QED
    BY <1>4, <2>1, LiveIsNext
<1>7. Live'.newer = Part(Live.newer, left)
  <2>1. left \subseteq LiveIds
    OBVIOUS
  <2> HIDE DEF left
  <2>2. OrderOf(left, lru) = Part(OrderOf(LiveIds, lru), left)
    BY <2>1, OrderPart
  <2>3. Live'.newer = OrderOf(left, lru)
    BY <1>0, <1>4, LiveIsNext
  <2>4. Live.newer = OrderOf(LiveIds, lru)
    BY LiveIs
  <2> QED
    BY <2>2, <2>3, <2>4
<1>8. left = {id \in DOMAIN Kept.results : Kept.results[id].left > 1}
  BY <1>0, <1>5
<1> HIDE DEF left
<1>9. BoundedStoreI!Among(left) = Part(Live.newer, left)
  BY <1>0 DEF BoundedStoreI!Among, Part
<1>10. BoundedStoreI!Tick
  BY <1>0, <1>6, <1>7, <1>8, <1>9 DEF BoundedStoreI!Tick, BoundedStoreI!Unasked, Unasked
<1> QED
  BY <1>10 DEF BoundedStoreI!Next

LEMMA RefinementStep ==
  ASSUME StoreInv, Counted, EvictInv, [Next]_vars
  PROVE  /\ EvictInv'
         /\ BoundedStoreI!Next \/ UNCHANGED <<Kept.results, Kept.newer, answer>>
<1>w. worker \in [Workers -> Job] /\ Nobody \notin Workers
  BY ConstantsOK DEF StoreInv, TypeOK, Constants
<1>o. owner # Nobody => owner \in Workers /\ worker[owner].at = "putting"
  BY DEF StoreInv, TypeOK, OwnerInv
<1>1. ASSUME UNCHANGED <<storeVars, owner, before>>, answer' = Unasked,
             owner # Nobody => worker'[owner].post = worker[owner].post
      PROVE  EvictInv' /\ BoundedStoreI!Next
  <2>1. EvictInv'
    BY <1>1, EvictFrame DEF storeVars
  <2>2. Kept' = Kept
    BY <1>1 DEF storeVars, Kept, Live, LiveIds, Alive, Place
  <2> QED
    BY <1>1, <2>1, <2>2, RestRefines
<1>2. ASSUME NEW p \in Publishers, TimeOut(p) PROVE EvictInv' /\ BoundedStoreI!Next
  <2>1. \A w \in Workers : worker'[w].post = worker[w].post
    BY <1>2, <1>w DEF TimeOut, Job
  <2> QED
    BY <1>1, <1>2, <1>o, <2>1 DEF TimeOut
<1>3. ASSUME NEW p \in Publishers, NEW w \in Workers, NEW post \in Posts,
             Publish(p, w, post)
      PROVE  EvictInv' /\ BoundedStoreI!Next
  <2>1. owner # Nobody => owner # w
    BY <1>3, <1>o DEF Publish, Free
  <2>2. owner # Nobody => worker'[owner].post = worker[owner].post
    BY <1>3, <1>w, <1>o, <2>1 DEF Publish
  <2> QED
    BY <1>1, <1>3, <2>2 DEF Publish
<1>4. ASSUME NEW w \in Workers, Reject(w) \/ Announce(w)
      PROVE  EvictInv' /\ BoundedStoreI!Next
  <2>1. owner # Nobody => owner # w
    BY <1>4, <1>o DEF Reject, Announce
  <2>2. owner # Nobody => worker'[owner].post = worker[owner].post
    BY <1>4, <1>w, <1>o, <2>1 DEF Reject, Announce
  <2> QED
    BY <1>1, <1>4, <2>2 DEF Reject, Announce
<1>5. ASSUME NEW id, Forget(id) PROVE EvictInv' /\ BoundedStoreI!Next
  BY <1>1, <1>5 DEF Forget
<1>6. ASSUME NEW w \in Workers, PutBegin(w) PROVE EvictInv' /\ BoundedStoreI!Next
  BY <1>6, EvictBegin, RestRefines DEF PutBegin
<1>7. ASSUME NEW w \in Workers, ExpireOne(w) \/ EvictOne(w)
      PROVE  EvictInv' /\ BoundedStoreI!Next
  <2>1. EvictInv'
    BY <1>7, EvictExpired, EvictVictim
  <2>2. /\ owner = w /\ w # Nobody /\ owner' = owner /\ before' = before
        /\ answer' = Unasked
    BY <1>7, <1>w DEF ExpireOne, EvictOne
  <2>3. Kept' = Kept
    BY <2>2 DEF Kept
  <2> QED
    BY <2>1, <2>2, <2>3, RestRefines
<1>8. ASSUME NEW w \in Workers, PutDone(w) PROVE EvictInv' /\ BoundedStoreI!Next
  <2>1. owner' = Nobody
    BY <1>8 DEF PutDone
  <2> QED
    BY <1>8, <2>1, PutRefines DEF EvictInv
<1>9. CASE Read
  <2>1. PICK id \in known : Get(id)
    BY <1>9 DEF Read
  <2>2. id \in Ids /\ owner' = Nobody
    BY <2>1 DEF Get, StoreInv, TypeOK
  <2> QED
    BY <2>1, <2>2, GetRefines DEF EvictInv
<1>10. CASE Tick
  <2>1. owner' = Nobody
    BY <1>10 DEF Tick
  <2> QED
    BY <1>10, <2>1, TickRefines DEF EvictInv
<1>11. CASE UNCHANGED vars
  <2>1. EvictInv'
    BY <1>11, EvictFrame DEF vars
  <2>2. Kept' = Kept /\ answer' = answer
    BY <1>11 DEF vars, Kept, Live, LiveIds, Alive, Place
  <2> QED
    BY <2>1, <2>2
<1> QED
  BY <1>2, <1>3, <1>4, <1>5, <1>6, <1>7, <1>8, <1>9, <1>10, <1>11 DEF Next

\* The store keeps the promises of BoundedStore: a result that readers no
\* longer find has expired or was among the least recently used when a Put
\* needed its room, and not one of these too many; a Put with all the steps
\* of its eviction loop is a single step for them.
THEOREM Implements == Spec => ImplementsBoundedStore
<1>1. Init => EvictInv /\ BoundedStoreI!Init
  <2> SUFFICES ASSUME Init PROVE EvictInv /\ BoundedStoreI!Init
    OBVIOUS
  <2>1. owner = Nobody /\ DOMAIN entries = {} /\ answer = Unasked
    BY DEF Init
  <2>2. LiveIds = {}
    BY <2>1, LiveIs
  <2>3. Live.results = <<>> /\ Live.newer = {}
    BY <2>2, LiveIs DEF OrderOf
  <2> QED
    BY <2>1, <2>3 DEF EvictInv, Kept, BoundedStoreI!Init, BoundedStoreI!Unasked, Unasked
<1>2. StoreInv /\ Counted /\ EvictInv /\ [Next]_vars
        => EvictInv' /\ [BoundedStoreI!Next]_<<Kept.results, Kept.newer, answer>>
  BY RefinementStep
<1>3. Spec => []Counted
  BY InitCounted, CountedStep, StoreSafe, PTL DEF Spec
<1> QED
  BY <1>1, <1>2, <1>3, StoreSafe, PTL DEF Spec, ImplementsBoundedStore, BoundedStoreI!Spec
=============================================================================
